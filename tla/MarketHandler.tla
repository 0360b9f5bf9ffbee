---------------------------- MODULE MarketHandler ----------------------------
(***************************************************************************)
(* joker/runtime/market_handler.py with the reactive engine it drives      *)
(* (joker/runtime/reactive_engine.py) and the broker behind the            *)
(* ExecutionDelegatingBroker (joker/runtime/compatibility.py): one trade   *)
(* from signal to booked exit.                                             *)
(*                                                                         *)
(* A call of the handler is a sequence of steps, at names the next one;    *)
(* the broker fills, rejects or cancels orders between any two of them.    *)
(* What ExecutionRuntime and the ledger do with an order is abstracted to  *)
(* its result (ExecutionRuntime.tla models them): known and booked of an   *)
(* order are its status and quantity in the ledger's projection, lpos is   *)
(* the projected position.                                                 *)
(***************************************************************************)
EXTENDS TradeRules, Sequences, FiniteSets

CONSTANTS Contracts,     \* the option contracts that are quoted
          Setups,        \* the setups of the playbook
          DirOf,         \* the contract each setup buys
          StopPct, TargetPct,
          TimeStop,      \* time_stop_minutes, a set of at most one number of ticks
          Limits,        \* the governor's configured limits
          Configs,       \* the sessions that may be started
          Chains,        \* the sets of option quotes a fetch may return
          Lags,          \* how much later than the selector the governor looks at the quote
          PartialSides,  \* sides on which the broker reports partial fills
          MaxFaults      \* how many calls may fail

Sessions == [live : BOOLEAN, broker : {"paper", "slip", "async", "webull"},
             armed : BOOLEAN, agentLed : BOOLEAN, cognitive : BOOLEAN,
             rules : BOOLEAN, shadow : BOOLEAN, propose : BOOLEAN]

\* Finitely many contracts are quoted in a session.
ASSUME HandlerAssumption ==
    /\ IsFiniteSet(Contracts)
    /\ Configs \subseteq Sessions
    /\ DirOf \in [Setups -> Contracts]
    /\ PartialSides \subseteq {"buy", "sell"}
    /\ \A chain \in Chains : \A q \in chain : q.ask \in Int
    /\ StopPct \in Int /\ TargetPct \in Int /\ MaxFaults \in Nat

None == [none |-> TRUE]

VARIABLES cfg,        \* the configuration of the session
          at,         \* the next step of the call under way
          ev,         \* the market event being handled
          req,        \* the entry being attempted
          engine,     \* ReactiveEngine.state
          enabled,    \* the enabled setups of the active playbook
          signaled,   \* state.signaled_setups
          trade,      \* state.open_trade
          entry,      \* state.pending_entry
          exit,       \* state.pending_exit
          alloc,      \* _pending_allocation, 0 when there is none
          budget,     \* the CapitalBudget
          orders,     \* the orders the broker took
          posn,       \* the broker's positions
          lpos,       \* the positions of the ledger's projection
          degraded,   \* the bridge's health blocks execution
          clock,      \* ticks since the session started
          faults      \* calls that failed

handlerVars == <<cfg, at, ev, req, engine, enabled, signaled, trade, entry, exit,
                 alloc, budget, orders, posn, lpos, degraded, clock, faults>>

---------------------------------------------------------------------------
\* VALID_TRANSITIONS of the reactive engine.
ValidTransitions ==
    [IDLE |-> {"WATCHING", "LOCKED"},
     WATCHING |-> {"SETUP_ARMED", "SIGNAL_DETECTED", "LOCKED"},
     SETUP_ARMED |-> {"SIGNAL_DETECTED", "WATCHING", "LOCKED"},
     SIGNAL_DETECTED |-> {"RISK_CHECK", "WATCHING"},
     RISK_CHECK |-> {"ENTERING", "WATCHING", "COOLDOWN"},
     ENTERING |-> {"OPEN_POSITION", "WATCHING"},
     OPEN_POSITION |-> {"MANAGING_EXIT", "EXITED"},
     MANAGING_EXIT |-> {"EXITED", "OPEN_POSITION"},
     EXITED |-> {"COOLDOWN", "WATCHING"},
     COOLDOWN |-> {"WATCHING", "IDLE"},
     LOCKED |-> {"IDLE"}]
EngineStates == DOMAIN ValidTransitions

\* transition, once per state of path: "ERROR" stands for StateMachineError.
Walk(from, path) ==
    LET states == <<from>> \o path
        ok == \A i \in 1..Len(path) :
                states[i + 1] = states[i] \/ states[i + 1] \in ValidTransitions[states[i]]
    IN  IF ok THEN states[Len(states)] ELSE "ERROR"

ReadyStates == {"WATCHING", "SETUP_ARMED", "COOLDOWN"}

---------------------------------------------------------------------------
\* The broker.  Both paper brokers fill or do not fill at once: PaperBroker fills
\* a limit order only at no worse than its limit, which any slippage makes it.
\* An asynchronous broker and Webull decide later; Webull never verifies a price.
Verified == cfg.broker # "webull"
SubmitResults ==
    CASE cfg.broker = "paper" -> {"filled"}
      [] cfg.broker = "slip" -> {"open"}
      [] OTHER -> {"open", "rejected"}

Working == {k \in DOMAIN orders : orders[k].status = "open"}
OpenPositions == {c \in Contracts : posn[c] # 0}
BrokerBusy == Working # {} \/ OpenPositions # {}

Signed(o, n) == IF o.side = "buy" THEN n ELSE -n

\* LedgerProjector._apply_fill_to_position for n more contracts of an order (an
\* entry is only sent while flat): a sale closes at most what is held, and opens
\* a short position when nothing is.
Book(l, o, n) ==
    LET p == l[o.contract]
        closing == IF n < p.qty THEN n ELSE p.qty
    IN  IF n = 0 THEN l
        ELSE [l EXCEPT ![o.contract] =
                 IF o.side = "buy" THEN [p EXCEPT !.qty = @ + n, !.avg = o.price]
                 ELSE IF p.qty <= 0 THEN [p EXCEPT !.qty = @ - n, !.avg = o.price]
                 ELSE [p EXCEPT !.qty = @ - closing, !.realized = @ + (o.price - p.avg) * closing]]

\* ExecutionRuntime.poll_order_status: the order as the ledger knows it afterwards.
Polled(o) ==
    CASE o.status \in {"cancelled", "rejected"} -> [o EXCEPT !.known = o.status]
      [] o.status = "filled" /\ Verified -> [o EXCEPT !.known = "filled", !.booked = o.qty]
      [] OTHER -> o

\* A request for an entry: who asks, for which contract, with which hints.  by is
\* history: the source, and the number of the agent's proposal that is confirmed.
By(source, n) == [source |-> source, n |-> n]
NoOne == By("exit", 0)
Request(setup, contract, by, hints) ==
    [setup |-> setup, contract |-> contract, by |-> by, hints |-> hints]

\* An order the broker took through submit_execution_command: a fill at once is
\* recorded before the call returns.
Placed(side, contract, qty, price, by, status) ==
    LET o == [side |-> side, contract |-> contract, qty |-> qty, price |-> price, by |-> by,
              status |-> status, filled |-> IF status = "filled" THEN qty ELSE 0,
              known |-> "accepted", booked |-> 0]
    IN  IF cfg.live THEN Polled(o) ELSE o

TakeOrder(o) ==
    /\ orders' = Append(orders, o)
    /\ posn' = [posn EXCEPT ![o.contract] = @ + Signed(o, o.filled)]
    /\ lpos' = Book(lpos, o, o.booked)

\* The broker's side, between any two steps of the program.  A partial fill is
\* announced to the ledger when it happens (bridge.record_verified_fill with
\* final=False); what is cancelled may have been partly filled.
BrokerSteps == {"async", "webull"}

BrokerFill(k) ==
    /\ cfg.broker \in BrokerSteps /\ k \in Working
    /\ orders' = [orders EXCEPT ![k].status = "filled", ![k].filled = orders[k].qty]
    /\ posn' = [posn EXCEPT ![orders[k].contract] =
                    @ + Signed(orders[k], orders[k].qty - orders[k].filled)]
    /\ UNCHANGED lpos

BrokerPartialFill(k) ==
    /\ cfg.broker = "async" /\ k \in Working /\ orders[k].side \in PartialSides
    /\ orders[k].filled + 1 < orders[k].qty /\ orders[k].known # "unknown"
    /\ orders' = [orders EXCEPT ![k].filled = @ + 1, ![k].booked = @ + 1, ![k].known = "partially_filled"]
    /\ posn' = [posn EXCEPT ![orders[k].contract] = @ + Signed(orders[k], 1)]
    /\ lpos' = Book(lpos, orders[k], 1)

BrokerDrop(k) ==
    /\ cfg.broker \in BrokerSteps /\ k \in Working
    /\ \E s \in {"cancelled"} \cup {r \in {"rejected"} : orders[k].filled = 0} :
         orders' = [orders EXCEPT ![k].status = s]
    /\ UNCHANGED <<posn, lpos>>

BrokerStep ==
    /\ \E k \in DOMAIN orders : BrokerFill(k) \/ BrokerPartialFill(k) \/ BrokerDrop(k)
    /\ UNCHANGED <<cfg, enabled, at, ev, req, engine, signaled, trade, entry, exit, alloc,
                   budget, degraded, clock, faults>>

---------------------------------------------------------------------------
\* Mutant: the engine is not told that the trade is open.
AttachOpenTradeSilently(qty, price) ==
    /\ trade' = [contract |-> entry.contract, entry |-> price, stop |-> entry.stop,
                 target |-> entry.target, since |-> clock, timeStop |-> TimeStop,
                 qty |-> qty, peak |-> price, trail |-> 0,
                 reserved |-> IF alloc # 0 THEN alloc ELSE price * qty]
    /\ entry' = None /\ alloc' = 0
    /\ UNCHANGED <<engine, budget>>

\* _attach_open_trade with the ledger's (or the broker's) quantity and price.
AttachOpenTrade(qty, price) ==
    /\ trade' = [contract |-> entry.contract, entry |-> price, stop |-> entry.stop,
                 target |-> entry.target, since |-> clock, timeStop |-> TimeStop,
                 qty |-> qty, peak |-> price, trail |-> 0,
                 reserved |-> IF alloc # 0 THEN alloc ELSE price * qty]
    /\ entry' = None /\ alloc' = 0
    /\ engine' = IF engine = "OPEN_POSITION" THEN Walk(engine, <<"MANAGING_EXIT">>) ELSE engine
    /\ UNCHANGED budget

\* Mutant: the capital is not given back.
EntryGoneKeepsCapital ==
    /\ entry' = None /\ alloc' = 0
    /\ engine' = IF engine \in {"OPEN_POSITION", "ENTERING", "MANAGING_EXIT"}
                 THEN "WATCHING" ELSE engine
    /\ UNCHANGED <<trade, budget>>

\* The entry order is gone: the reservation is given back, and the engine put
\* back to WATCHING (by assignment where the table does not allow it).
EntryGone ==
    /\ entry' = None /\ alloc' = 0
    /\ budget' = IF alloc # 0 THEN Release(budget, alloc, 0) ELSE budget
    /\ engine' = IF engine \in {"OPEN_POSITION", "ENTERING", "MANAGING_EXIT"}
                 THEN "WATCHING" ELSE engine
    /\ UNCHANGED trade

\* _reconcile_pending_entry with the bridge: the ledger decides.
ReconcileEntryLedger ==
    LET k == entry.order
        o == Polled(orders[k])
        l == Book(lpos, orders[k], o.booked - orders[k].booked)
        p == l[entry.contract]
    IN  /\ orders' = [orders EXCEPT ![k] = o] /\ lpos' = l
        /\ IF o.known \in {"cancelled", "rejected"} THEN EntryGone
           ELSE IF p.qty > 0 THEN AttachOpenTrade(p.qty, p.avg)
           ELSE UNCHANGED <<trade, entry, alloc, budget, engine>>

\* The legacy path without a bridge: the broker's positions decide.
ReconcileEntryBroker ==
    /\ IF OpenPositions # {}
       THEN AttachOpenTrade(entry.qty, orders[entry.order].price)
       ELSE UNCHANGED <<trade, entry, alloc, budget, engine>>
    /\ UNCHANGED <<orders, lpos>>

\* _reconcile_pending_entry; a bridge that raises leaves everything as it was.
ReconcilePendingEntry ==
    \/ /\ entry = None \/ trade # None
       /\ UNCHANGED <<trade, entry, alloc, budget, engine, orders, lpos, faults>>
    \/ /\ entry # None /\ trade = None /\ cfg.live
       /\ ReconcileEntryLedger /\ UNCHANGED faults
    \/ /\ entry # None /\ trade = None /\ cfg.live /\ faults < MaxFaults
       /\ faults' = faults + 1
       /\ UNCHANGED <<trade, entry, alloc, budget, engine, orders, lpos>>
    \/ /\ entry # None /\ trade = None /\ ~cfg.live
       /\ ReconcileEntryBroker /\ UNCHANGED faults

\* _finalize_exit: capital released with the trade's P&L, engine back to WATCHING.
FinalizeExit(pnl) ==
    /\ budget' = Release(budget, trade.reserved, pnl)
    /\ trade' = None /\ exit' = None
    /\ engine' = IF engine \in {"OPEN_POSITION", "MANAGING_EXIT"}
                 THEN Walk(engine, <<"EXITED", "COOLDOWN", "WATCHING">>) ELSE engine

\* Mutants: a working exit order counts as the end of the trade; the P&L is the
\* contract's, not this trade's.
ReconcileExitEarly ==
    LET k == exit.order
        o == Polled(orders[k])
        l == Book(lpos, orders[k], o.booked - orders[k].booked)
    IN  /\ orders' = [orders EXCEPT ![k] = o] /\ lpos' = l
        /\ IF o.known \in {"cancelled", "rejected"}
           THEN exit' = None /\ UNCHANGED <<trade, budget, engine>>
           ELSE FinalizeExit(l[exit.contract].realized - exit.before)
ReconcileExitTotal ==
    LET k == exit.order
        o == Polled(orders[k])
        l == Book(lpos, orders[k], o.booked - orders[k].booked)
        left == l[exit.contract].qty
    IN  /\ orders' = [orders EXCEPT ![k] = o] /\ lpos' = l
        /\ IF o.known \in {"cancelled", "rejected"} \/ left # 0
           THEN exit' = None /\ UNCHANGED <<trade, budget, engine>>
           ELSE FinalizeExit(l[exit.contract].realized)

\* _reconcile_pending_exit from the projection: a failed order is forgotten, a
\* partial fill shrinks the trade, a flat position finalises it.
ReconcileExitLedger ==
    LET k == exit.order
        o == Polled(orders[k])
        l == Book(lpos, orders[k], o.booked - orders[k].booked)
        left == l[exit.contract].qty
    IN  /\ orders' = [orders EXCEPT ![k] = o] /\ lpos' = l
        /\ IF o.known \in {"cancelled", "rejected"}
           THEN exit' = None /\ UNCHANGED <<trade, budget, engine>>
           ELSE IF left = 0 THEN FinalizeExit(l[exit.contract].realized - exit.before)
           ELSE /\ trade' = [trade EXCEPT !.qty = IF left \in 1..@ THEN left ELSE @]
                /\ exit' = IF o.known = "filled" /\ left > 0 THEN None ELSE exit
                /\ UNCHANGED <<budget, engine>>

\* _reconcile_pending_exit: nothing without a trade, an exit order or a bridge.
ReconcilePendingExit ==
    \/ /\ exit = None \/ trade = None \/ ~cfg.live
       /\ UNCHANGED <<trade, exit, budget, engine, orders, lpos, faults>>
    \/ /\ exit # None /\ trade # None /\ cfg.live
       /\ ReconcileExitLedger /\ UNCHANGED faults
    \/ /\ exit # None /\ trade # None /\ cfg.live /\ faults < MaxFaults
       /\ faults' = faults + 1
       /\ UNCHANGED <<trade, exit, budget, engine, orders, lpos>>

---------------------------------------------------------------------------
\* handle_event, first half: both reconciliations, whatever the event.
HandleEntry ==
    /\ at = "entry" /\ ReconcilePendingEntry /\ at' = "exit"
    /\ UNCHANGED <<cfg, enabled, ev, req, signaled, exit, posn, degraded, clock>>

HandleExit ==
    /\ at = "exit" /\ ReconcilePendingExit /\ at' = "quote"
    /\ UNCHANGED <<cfg, enabled, ev, req, signaled, entry, alloc, posn, degraded, clock>>

\* Of a quote: the trade's excursion and trail, and what check_exit says.  The
\* quote is used whichever contract it is for.
Trailed == IF trade # None /\ ev.kind = "option" THEN UpdateTrailing(trade, ev.mid) ELSE trade
ExitReasonAgain == IF trade = None \/ ev.kind # "option" THEN "hold"   \* mutant: pending or not
                   ELSE CheckExit(Trailed, ev.mid, clock)
ExitReason == IF trade = None \/ ev.kind # "option" \/ exit # None THEN "hold"
              ELSE CheckExit(Trailed, ev.mid, clock)

\* No exit is due (or one is pending, and is looked at again).
HandleQuote ==
    /\ at = "quote"
    /\ ExitReason = "hold" \/ OpenPositions = {}
    /\ trade' = Trailed
    /\ at' = IF ev.kind = "option" /\ exit # None THEN "again" ELSE "gate"
    /\ UNCHANGED <<cfg, enabled, ev, req, engine, signaled, entry, exit, alloc, budget, orders,
                   posn, lpos, degraded, clock, faults>>

HandleExitAgain ==
    /\ at \in {"again", "booked"} /\ ReconcilePendingExit
    /\ at' = IF at = "again" THEN "gate" ELSE "return"
    /\ UNCHANGED <<cfg, enabled, ev, req, signaled, entry, alloc, posn, degraded, clock>>

\* A call that raises after the broker took the order: nobody remembers it.
TakeLostOrder(side, contract, qty, price) ==
    TakeOrder([Placed(side, contract, qty, price, NoOne, "open") EXCEPT !.known = "unknown"])

\* _try_exit submits: blocked by health, rejected or raising leaves no pending
\* exit; the realised P&L is read before the order is sent.
TryExit ==
    /\ at = "quote" /\ ExitReason # "hold"
    /\ trade' = Trailed
    /\ \E c \in OpenPositions :
         \/ /\ degraded \/ "rejected" \in SubmitResults
            /\ at' = "gate" /\ UNCHANGED <<exit, orders, posn, lpos, faults>>
         \/ /\ ~degraded /\ faults < MaxFaults /\ cfg.broker \in BrokerSteps
            /\ faults' = faults + 1
            /\ at' = "gate" /\ UNCHANGED exit
            /\ UNCHANGED <<orders, posn, lpos>> \/ TakeLostOrder("sell", c, trade.qty, ev.mid)
         \/ \E s \in SubmitResults \ {"rejected"} :
              /\ ~degraded
              /\ TakeOrder(Placed("sell", c, trade.qty, ev.mid, NoOne, s))
              /\ exit' = [order |-> Len(orders) + 1, contract |-> c,
                          reason |-> ExitReason, before |-> lpos[c].realized]
              /\ at' = "booked" /\ UNCHANGED faults
    /\ UNCHANGED <<cfg, enabled, ev, req, engine, signaled, entry, alloc, budget, degraded, clock>>

---------------------------------------------------------------------------
NoHints == [fraction |-> {}, target |-> {}, confidence |-> 50, style |-> "auto",
            winProb |-> {}, expectedR |-> {}, ev |-> {}]

\* handle_event, last part: the structured rules may ask for an entry.  Asking
\* the broker for its orders and positions may raise.
EntryGate ==
    /\ cfg.armed /\ engine \in ReadyStates
    /\ trade = None /\ entry = None /\ ~BrokerBusy
    /\ cfg.rules

HandleGate ==
    /\ at = "gate"
    /\ \/ at' = "return" /\ UNCHANGED <<req, faults>>
       \/ /\ cfg.armed /\ engine \in ReadyStates /\ trade = None /\ entry = None
          /\ cfg.broker \in BrokerSteps /\ faults < MaxFaults
          /\ faults' = faults + 1
          /\ at' = "raised" /\ UNCHANGED req
       \/ /\ EntryGate /\ UNCHANGED faults
          /\ \E s \in enabled \ signaled : req' = Request(s, DirOf[s], By("structured_signal", 0), NoHints)
          /\ at' = "attempt"
    /\ UNCHANGED <<cfg, enabled, ev, engine, signaled, trade, entry, exit, alloc, budget, orders,
                   posn, lpos, degraded, clock>>

\* The early returns of _attempt_entry.
AttemptRefused ==
    \/ trade # None \/ entry # None \/ BrokerBusy
    \/ req.setup \in signaled /\ req.by.source = "structured_signal"
    \/ cfg.live /\ GoalMet(budget)
    \/ ~cfg.armed \/ engine \notin ReadyStates

\* _size_for_entry: one contract without a budget.
SizeForEntry(q) ==
    IF cfg.live THEN Allocate(budget, q.ask, req.hints, (EodTick - clock) * 30) ELSE 1

\* _build_candidate.
Candidate(q, qty) ==
    [setup |-> req.setup, contract |-> req.contract, entry |-> q.ask, qty |-> qty,
     stop |-> StopFromEntry(q.ask, StopPct), target |-> TargetFromEntry(q.ask, TargetPct),
     by |-> req.by]

\* ReactiveEngine.evaluate_signal and the governor; shadow mode only asks the
\* governor and never submits.
Evaluate(cand, q, lag) ==
    RiskReasons(cand, q, budget, Working # {}, lag, cfg.agentLed, Limits)

GiveUp == at' = "return" /\ req' = None

\* _attempt_entry up to the order: selection, size, risk and reservation.  The
\* governor has compared the notional with the capital available already, so
\* that the reservation does not fail.
AttemptEntry ==
    /\ at = "attempt"
    /\ \/ /\ AttemptRefused /\ GiveUp
          /\ UNCHANGED <<engine, signaled, alloc, budget>>
       \/ \E chain \in Chains :
            LET chosen == SelectFromEvents(chain, req.contract, 0, cfg.agentLed)
            IN  /\ ~AttemptRefused
                /\ \/ chosen = {} \/ \A q \in chosen : SizeForEntry(q) < 1
                /\ GiveUp /\ UNCHANGED <<engine, signaled, alloc, budget>>
       \/ \E chain \in Chains, lag \in Lags :
            \E q \in SelectFromEvents(chain, req.contract, 0, cfg.agentLed) :
              LET qty == SizeForEntry(q)
                  cand == Candidate(q, qty)
                  reasons == Evaluate(cand, q, lag)
              IN  /\ ~AttemptRefused /\ qty >= 1
                  /\ \/ /\ cfg.shadow
                        /\ signaled' = signaled \cup {req.setup}
                        /\ GiveUp /\ UNCHANGED <<engine, alloc, budget>>
                     \/ /\ ~cfg.shadow /\ reasons # {}
                        /\ engine' = Walk(engine, <<"SIGNAL_DETECTED", "RISK_CHECK", "WATCHING">>)
                        /\ signaled' = signaled \cup {req.setup}
                        /\ GiveUp /\ UNCHANGED <<alloc, budget>>
                     \/ /\ ~cfg.shadow /\ reasons = {}
                        /\ engine' = Walk(engine, <<"SIGNAL_DETECTED", "RISK_CHECK">>)
                        /\ budget' = IF cfg.live THEN Reserve(budget, q.ask * qty) ELSE budget
                        /\ alloc' = IF cfg.live THEN q.ask * qty ELSE 0
                        /\ req' = cand
                        /\ at' = "submit" /\ UNCHANGED signaled
    /\ UNCHANGED <<cfg, enabled, ev, trade, entry, exit, orders, posn, lpos, degraded, clock, faults>>

\* ReactiveEngine.submit_entry.  Rejected, or blocked by the bridge's health:
\* the reservation is given back.  Accepted: the entry is pending.  An exception
\* leaves the engine in ENTERING and the capital reserved.
SubmitEntry ==
    /\ at = "submit"
    /\ \/ /\ degraded \/ "rejected" \in SubmitResults
          /\ engine' = Walk(engine, <<"ENTERING", "WATCHING">>)
          /\ budget' = IF cfg.live THEN Release(budget, alloc, 0) ELSE budget
          /\ alloc' = 0
          /\ signaled' = signaled \cup {req.setup}
          /\ GiveUp /\ UNCHANGED <<entry, orders, posn, lpos, faults>>
       \/ \E s \in SubmitResults \ {"rejected"} :
            /\ ~degraded
            /\ TakeOrder(Placed("buy", req.contract, req.qty, req.entry, req.by, s))
            /\ engine' = Walk(engine, <<"ENTERING", "OPEN_POSITION">>)
            /\ entry' = [order |-> Len(orders) + 1, contract |-> req.contract, qty |-> req.qty,
                         stop |-> req.stop, target |-> req.target]
            /\ at' = "promote" /\ UNCHANGED <<req, budget, alloc, signaled, faults>>
       \/ /\ ~degraded /\ faults < MaxFaults /\ cfg.broker \in BrokerSteps
          /\ faults' = faults + 1
          /\ engine' = Walk(engine, <<"ENTERING">>)
          /\ at' = "raised"
          /\ \/ UNCHANGED <<orders, posn, lpos>>
             \/ TakeLostOrder("buy", req.contract, req.qty, req.entry)
          /\ UNCHANGED <<req, entry, budget, alloc, signaled>>
    /\ UNCHANGED <<cfg, enabled, ev, trade, exit, degraded, clock>>

\* The end of _attempt_entry: an order filled at once becomes the open trade.
PromoteEntry ==
    /\ at = "promote" /\ ReconcilePendingEntry
    /\ signaled' = signaled \cup {req.setup}
    /\ at' = "acted"
    /\ UNCHANGED <<cfg, enabled, ev, req, exit, posn, degraded, clock>>

HandlerStep ==
    \/ HandleEntry \/ HandleExit \/ HandleQuote \/ HandleExitAgain \/ TryExit
    \/ HandleGate \/ AttemptEntry \/ SubmitEntry \/ PromoteEntry
==============================================================================
