--------------------------- MODULE LivePaperRunner ---------------------------
(***************************************************************************)
(* joker/runtime/live_paper_runner.py: a live paper session, from its      *)
(* start-up through the poll loop (quotes, health, option quotes, agents)  *)
(* to the report, driving the MarketHandler; and the replay of a recorded  *)
(* session (joker/runtime/replay_runner.py), which drives the same handler *)
(* without bridge and budget.                                              *)
(***************************************************************************)
EXTENDS MarketHandler, FiniteSetsExt

CONSTANTS ContractSeq,   \* the at-the-money contracts in the order they are quoted
          Premiums,      \* the mids an option quote may show
          Decisions,     \* the IntradayDecisions the decision agent may return
          Proposals,     \* the TradeProposals the intraday council may make
          Patches,       \* the sets of enabled setups a playbook patch may leave
          MinConfidence, \* min_proposal_confidence
          MaxCalls,      \* max_decision_calls / max_intraday_calls per session
          MaxProposals,  \* max_proposals_per_session
          Deadline       \* ticks until the session ends

ASSUME SessionAssumption ==
    /\ ContractSeq \in Seq(Contracts)
    /\ Premiums \subseteq Nat
    /\ \A d \in Decisions : /\ d.dir \in Contracts /\ IsHints(d.hints)
                           /\ \A p \in d.patch : p \subseteq Setups
    /\ \A p \in Patches : p \subseteq Setups
    /\ \A p \in Proposals : p.dir \in Contracts
    /\ MaxCalls \in Nat /\ MaxProposals \in Nat /\ Deadline \in Nat

VARIABLES phase,      \* the part of run() the session is in
          stage,      \* the part of the loop's body
          quotes,     \* option quote events still to hand to the handler
          proposal,   \* session_memory.pending
          calls,      \* decision_calls (or intraday_calls)
          proposals,  \* proposals_acted
          task1       \* the Task 1 bridge

runnerVars == <<phase, stage, quotes, proposal, calls, proposals, task1>>
vars == <<handlerVars, runnerVars>>

Spy == [kind |-> "spy", mid |-> 0]
OptionQuote(c, m) == [kind |-> "option", contract |-> c, mid |-> m]

Init ==
    /\ cfg \in Configs
    /\ phase = IF cfg.live THEN "auth" ELSE "premarket"
    /\ at = "idle" /\ stage = "poll" /\ ev = Spy /\ req = None
    /\ engine = "IDLE" /\ enabled = Setups /\ signaled = {}
    /\ trade = None /\ entry = None /\ exit = None /\ alloc = 0
    /\ budget = NewBudget
    /\ orders = <<>>
    /\ posn = [c \in Contracts |-> 0]
    /\ lpos = [c \in Contracts |-> [qty |-> 0, avg |-> 0, realized |-> 0]]
    /\ degraded = FALSE /\ clock = 0 /\ faults = 0
    /\ quotes = <<>> /\ proposal = None /\ calls = 0 /\ proposals = 0
    /\ task1 = IF cfg.live THEN "up" ELSE "down"

---------------------------------------------------------------------------
\* run(): every early return ends the run and shuts the bridge down.
Returned == phase' = "returned" /\ task1' = "down"

Authenticate ==
    /\ phase = "auth"
    /\ (phase' = "options" /\ UNCHANGED task1) \/ Returned
    /\ UNCHANGED <<handlerVars, stage, quotes, proposal, calls, proposals>>

OpenOptions ==
    /\ phase = "options"
    /\ (phase' = "warmup" /\ UNCHANGED task1) \/ Returned
    /\ UNCHANGED <<handlerVars, stage, quotes, proposal, calls, proposals>>

\* The warm-up quote is ingested into Task 1; its failure only degrades health.
WarmUp ==
    /\ phase = "warmup"
    /\ \/ /\ phase' = "premarket" /\ degraded' \in BOOLEAN /\ UNCHANGED task1
       \/ Returned /\ UNCHANGED degraded
    /\ UNCHANGED <<cfg, at, ev, req, engine, enabled, signaled, trade, entry, exit, alloc, budget,
                   orders, posn, lpos, clock, faults, stage, quotes, proposal, calls, proposals>>

\* The premarket council, the playbook's validation and arm_playbook; without an
\* approved playbook only a cognitive session enters the loop.
Premarket ==
    /\ phase = "premarket"
    /\ \/ /\ cfg' = [cfg EXCEPT !.armed = TRUE]
          /\ engine' = Walk(engine, <<"WATCHING">>)
          /\ phase' = "loop"
       \/ /\ phase' = IF cfg.cognitive THEN "loop" ELSE "report"
          /\ UNCHANGED <<cfg, engine>>
    /\ UNCHANGED <<at, ev, req, enabled, signaled, trade, entry, exit, alloc, budget, orders, posn,
                   lpos, degraded, clock, faults, stage, quotes, proposal, calls, proposals,
                   task1>>

---------------------------------------------------------------------------
\* The loop polls the stock quote; a failed poll costs a tick.
PollFails ==
    /\ phase = "loop" /\ stage = "poll" /\ clock < Deadline /\ cfg.live
    /\ clock' = clock + 1
    /\ UNCHANGED <<cfg, at, ev, req, engine, enabled, signaled, trade, entry, exit, alloc, budget,
                   orders, posn, lpos, degraded, faults, runnerVars>>

\* A quote is ingested into MarketRuntime: an exception degrades the health, a
\* persisted snapshot restores it, success without one leaves it (compatibility.py).
IngestedHealth == {TRUE, FALSE, degraded}

PollQuote ==
    /\ phase = "loop" /\ stage = "poll" /\ clock < Deadline /\ cfg.live
    /\ clock' = clock + 1
    /\ degraded' \in IngestedHealth
    /\ ev' = Spy /\ at' = "entry" /\ stage' = "spy"
    /\ UNCHANGED <<cfg, req, engine, enabled, signaled, trade, entry, exit, alloc, budget, orders,
                   posn, lpos, faults, phase, quotes, proposal, calls, proposals, task1>>

\* ReplayRunner.run: every recorded event goes to the handler, in order.
ReplayEvent ==
    /\ phase = "loop" /\ stage = "poll" /\ clock < Deadline /\ ~cfg.live
    /\ clock' = clock + 1
    /\ ev' \in {Spy} \cup {OptionQuote(c, m) : c \in Contracts, m \in Premiums}
    /\ quotes' = IF ev'.kind = "option" THEN <<ev'>> ELSE quotes   \* latest_option_mid
    /\ at' = "entry" /\ stage' = "replay"
    /\ UNCHANGED <<cfg, req, engine, enabled, signaled, trade, entry, exit, alloc, budget, orders,
                   posn, lpos, degraded, faults, phase, proposal, calls, proposals,
                   task1>>

\* A call of the handler is over.
HandlerDone == at \in {"return", "acted"}
Idle == at' = "idle" /\ req' = None
keepHandler == <<cfg, ev, engine, enabled, signaled, trade, entry, exit, alloc, budget, orders,
                 posn, lpos, degraded, clock, faults>>

\* After the stock event: nothing more while health is degraded, the option
\* quotes of both at-the-money contracts while a trade is open, the agents else.
AfterSpyEvent ==
    /\ stage = "spy" /\ HandlerDone /\ Idle
    /\ \/ degraded /\ stage' = "poll" /\ UNCHANGED quotes
       \/ /\ ~degraded /\ trade # None
          /\ quotes' \in {[i \in DOMAIN ContractSeq |-> OptionQuote(ContractSeq[i], mids[i])] :
                             mids \in [DOMAIN ContractSeq -> Premiums]}
          /\ stage' = "options"
       \/ ~degraded /\ stage' = "agents" /\ UNCHANGED quotes
    /\ UNCHANGED <<keepHandler, phase, proposal, calls, proposals, task1>>

\* An exception of the handler while it handles the stock event is caught
\* outside the loop: the session is over.
SessionFails ==
    /\ stage \in {"spy", "replay"} /\ at = "raised" /\ Idle
    /\ phase' = "report"
    /\ UNCHANGED <<keepHandler, stage, quotes, proposal, calls, proposals, task1>>

\* Each option quote goes through the handler.
NextQuote ==
    /\ stage = "options" /\ quotes # <<>> /\ at \in {"idle", "return", "acted"}
    /\ ev' = Head(quotes) /\ quotes' = Tail(quotes)
    /\ at' = "entry" /\ req' = None
    /\ UNCHANGED <<cfg, engine, enabled, signaled, trade, entry, exit, alloc, budget, orders, posn,
                   lpos, degraded, clock, faults, phase, stage, proposal, calls, proposals, task1>>

\* After the last of them, or after one that raised.
QuotesDone ==
    /\ stage = "options" /\ Idle
    /\ at = "raised" \/ (HandlerDone /\ quotes = <<>>)
    /\ stage' = "agents" /\ quotes' = <<>>
    /\ UNCHANGED <<keepHandler, phase, proposal, calls, proposals, task1>>

---------------------------------------------------------------------------
\* The agent_led loop is disabled in a cognitive session; the council is the
\* branch taken whenever that loop is not the session's.
AgentLoop == cfg.agentLed /\ ~cfg.cognitive

\* No agent is due (interval, budget of calls, prefilter, an open trade).
SkipAgents ==
    /\ stage = "agents" /\ stage' = "poll"
    /\ UNCHANGED <<handlerVars, phase, quotes, proposal, calls, proposals, task1>>

MayDecide ==
    /\ stage = "agents" /\ AgentLoop
    /\ calls < MaxCalls /\ proposals < MaxProposals
    /\ trade = None /\ entry = None

\* A proposal that expired is dropped before the agent is asked.
Held == IF proposal # None /\ ConfirmGate(proposal, clock, FALSE, 0) = "expired"
        THEN None ELSE proposal

\* The agent's call fails: the proposal that expired stays dropped.
DecisionFails ==
    /\ MayDecide
    /\ proposal' = Held /\ stage' = "poll"
    /\ UNCHANGED <<handlerVars, phase, quotes, calls, proposals, task1>>

\* A decision's patch replaces the playbook's enabled setups.
ApplyPatch(d) == enabled' = IF d.patch = {} THEN enabled ELSE CHOOSE p \in d.patch : TRUE

\* hold, abandon, propose; enter without a proposal is taken for one; a confirm
\* without one, or one that its gates refuse, leaves things as they are.
DecideOnly ==
    /\ MayDecide
    /\ \E d \in Decisions, mid \in Premiums :
         /\ ApplyPatch(d)
         /\ \/ d.action = "hold" /\ proposal' = Held
            \/ d.action = "abandon" /\ proposal' = None
            \/ /\ d.action = "propose" \/ (d.action = "enter" /\ cfg.propose /\ Held = None)
               /\ proposal' = PendingFrom(d, mid, clock, calls + 1)
            \/ d.action = "confirm" /\ cfg.propose /\ Held = None /\ proposal' = Held
    /\ calls' = calls + 1 /\ stage' = "poll"
    /\ UNCHANGED <<cfg, at, ev, req, engine, signaled, trade, entry, exit, alloc, budget, orders,
                   posn, lpos, degraded, clock, faults, phase, quotes, proposals, task1>>

\* try_enter_from_decision picks the setup: the named one (whatever it buys), an
\* enabled one of the direction, or one made up for the direction.
DecidedRequest(d) ==
    LET suited == {s \in enabled : DirOf[s] = d.dir}
        setup == IF d.setup # {} THEN CHOOSE s \in d.setup : TRUE
                 ELSE IF suited # {} THEN CHOOSE s \in suited : TRUE ELSE d.dir
    IN  Request(setup, IF setup \in Setups THEN DirOf[setup] ELSE d.dir,
                By("agent_decision", d.n), d.hints)

\* confirm, or enter, of what was proposed: the gates are passed and the handler
\* attempts the entry, or one of them refuses.
Confirm ==
    /\ MayDecide
    /\ \E d \in Decisions, mid \in Premiums, drifted \in BOOLEAN, late \in {0, 1} :
         LET gate == IF Held = None THEN "ok" ELSE ConfirmGate(Held, clock + late, drifted, mid)
             pd == IF Held = None
                   THEN [dir |-> d.dir, setup |-> d.setup, n |-> calls + 1, hints |-> d.hints]
                   ELSE DecisionFromPending(Held, d)
             allowed == gate = "ok" /\ EvEntryAllowed(pd) /\ pd.hints.confidence >= MinConfidence
         IN  /\ d.action \in {"confirm", "enter"} /\ (Held # None \/ ~cfg.propose)
             /\ ApplyPatch(d)
             /\ proposal' = IF gate = "expired" THEN None ELSE Held
             /\ \/ allowed /\ at' = "attempt" /\ req' = DecidedRequest(pd) /\ stage' = "deciding"
                \/ ~allowed /\ stage' = "poll" /\ UNCHANGED <<at, req>>
    /\ calls' = calls + 1
    /\ UNCHANGED <<cfg, ev, engine, signaled, trade, entry, exit, alloc, budget, orders, posn, lpos,
                   degraded, clock, faults, phase, quotes, proposals, task1>>

\* Mutant: the proposal stays pending.
AfterDecisionKeeps ==
    /\ stage = "deciding" /\ at \in {"return", "acted", "raised"} /\ Idle
    /\ stage' = "poll"
    /\ proposals' = IF at = "acted" THEN proposals + 1 ELSE proposals
    /\ UNCHANGED <<keepHandler, phase, quotes, proposal, calls, task1>>

\* The attempt is over: an entry that was sent uses its proposal up.
AfterDecision ==
    /\ stage = "deciding" /\ at \in {"return", "acted", "raised"} /\ Idle
    /\ stage' = "poll"
    /\ proposals' = IF at = "acted" THEN proposals + 1 ELSE proposals
    /\ proposal' = IF at = "acted" THEN None ELSE proposal
    /\ UNCHANGED <<keepHandler, phase, quotes, calls, task1>>

---------------------------------------------------------------------------
\* The legacy intraday council.
MayConvene ==
    /\ stage = "agents" /\ ~AgentLoop /\ cfg.live /\ cfg.armed
    /\ calls < MaxCalls /\ proposals < MaxProposals /\ trade = None

\* try_enter_from_proposal's own checks: confidence, a known and enabled setup of
\* the proposed direction; under agent_led risk a setup may be made up.
ProposalAccepted(p, usable) ==
    /\ p.confidence >= MinConfidence
    /\ IF p.setup \in usable THEN DirOf[p.setup] = p.dir ELSE cfg.agentLed

\* The council's result may carry a patch, a proposal, or both: the patch is
\* applied first and the proposal meets the patched playbook.
Council ==
    /\ MayConvene
    /\ \/ stage' = "poll" /\ UNCHANGED <<at, req, enabled, calls>>   \* its call failed
       \/ /\ calls' = calls + 1
          /\ enabled' \in {enabled} \cup Patches
          /\ \/ stage' = "poll" /\ UNCHANGED <<at, req>>
             \/ \E p \in Proposals :
                  /\ ProposalAccepted(p, enabled')
                  /\ at' = "attempt" /\ stage' = "council"
                  /\ req' = Request(p.setup, p.dir, By("agent_proposal", calls + 1), NoHints)
    /\ UNCHANGED <<cfg, ev, engine, signaled, trade, entry, exit, alloc, budget, orders, posn, lpos,
                   degraded, clock, faults, phase, quotes, proposal, proposals, task1>>

AfterCouncil ==
    /\ stage = "council" /\ at \in {"return", "acted", "raised"} /\ Idle
    /\ stage' = "poll"
    /\ proposals' = IF at = "acted" THEN proposals + 1 ELSE proposals
    /\ UNCHANGED <<keepHandler, phase, quotes, proposal, calls, task1>>

---------------------------------------------------------------------------
AfterReplayEvent ==
    /\ stage = "replay" /\ HandlerDone /\ Idle
    /\ stage' = "poll"
    /\ UNCHANGED <<keepHandler, phase, quotes, proposal, calls, proposals, task1>>

\* The end of a replay tries the exit once more at the last option price.
ReplayFinish ==
    /\ phase = "loop" /\ stage = "poll" /\ clock = Deadline /\ ~cfg.live
    /\ trade # None /\ quotes # <<>>
    /\ ev' = Head(quotes) /\ at' = "quote" /\ stage' = "finish"
    /\ UNCHANGED <<cfg, req, engine, enabled, signaled, trade, entry, exit, alloc, budget, orders,
                   posn, lpos, degraded, clock, faults, phase, quotes, proposal, calls, proposals,
                   task1>>

\* The deadline, or the end of the recording: the loop is left with whatever is
\* open left open.
LoopEnds ==
    /\ phase = "loop"
    /\ \/ /\ stage = "poll" /\ clock = Deadline /\ UNCHANGED <<at, req>>
          /\ cfg.live \/ trade = None \/ quotes = <<>>
       \/ stage = "finish" /\ HandlerDone /\ Idle
    /\ phase' = "report"
    /\ UNCHANGED <<keepHandler, stage, quotes, proposal, calls, proposals, task1>>

\* Post-market lesson, summary, report and shutdown.
Report ==
    /\ phase = "report" /\ Returned
    /\ UNCHANGED <<handlerVars, stage, quotes, proposal, calls, proposals>>

Finished == phase = "returned" /\ UNCHANGED vars

Loop ==
    \/ PollFails \/ PollQuote \/ AfterSpyEvent \/ SessionFails \/ NextQuote \/ QuotesDone
    \/ SkipAgents \/ DecisionFails \/ DecideOnly \/ Confirm \/ AfterDecision
    \/ Council \/ AfterCouncil
Replay == ReplayEvent \/ AfterReplayEvent \/ ReplayFinish

Next ==
    \/ Authenticate \/ OpenOptions \/ WarmUp \/ Premarket
    \/ Loop \/ Replay \/ LoopEnds \/ Report
    \/ HandlerStep /\ UNCHANGED runnerVars
    \/ BrokerStep /\ UNCHANGED runnerVars
    \/ Finished

Spec == Init /\ [][Next]_vars

---------------------------------------------------------------------------
\* Properties.  Settled: between two calls of the handler.
Settled == at = "idle"

\* What the broker may do that the handler has no answer to: cancel an order
\* that is partly filled, or take an order whose call raised.
Awkward == \E k \in DOMAIN orders :
    \/ orders[k].known = "unknown"
    \/ orders[k].status = "cancelled" /\ orders[k].filled > 0

Events == {Spy} \cup {OptionQuote(c, m) : c \in Contracts, m \in Premiums}
Sources == {"exit", "structured_signal", "agent_decision", "agent_proposal"}
Orders == [side : {"buy", "sell"}, contract : Contracts, qty : Int, price : Int,
           by : [source : Sources, n : Int],
           status : {"open", "filled", "rejected", "cancelled"}, filled : Int, booked : Int,
           known : {"unknown", "accepted", "partially_filled", "filled", "rejected", "cancelled"}]
OpenTrades == [contract : Contracts, entry : Int, stop : Int, target : Int, since : Int,
               timeStop : {TimeStop}, qty : Int, peak : Int, trail : Int, reserved : Int]
PendingEntries == [order : DOMAIN orders, contract : Contracts, qty : Int, stop : Int,
                   target : Int]
PendingExits == [order : DOMAIN orders, contract : Contracts, before : Int,
                 reason : {"STOP_LOSS", "TAKE_PROFIT", "TIME_STOP", "END_OF_DAY"}]

\* Every variable has its type, and the engine never takes a transition its
\* table does not allow.
TypeOK ==
    /\ cfg \in Sessions
    /\ at \in {"idle", "entry", "exit", "quote", "again", "booked", "gate", "attempt", "submit",
              "promote", "acted", "return", "raised"}
    /\ engine \in EngineStates /\ enabled \subseteq Setups
    /\ ev \in Events /\ quotes \in Seq(Events)
    /\ at \in {"attempt", "submit"} =>
         req.contract \in Contracts /\ req.by \in [source : Sources, n : Int]
    /\ at = "attempt" => IsHints(req.hints)
    /\ at = "submit" => \A f \in {"entry", "qty", "stop", "target"} : req[f] \in Int
    /\ trade \in OpenTrades \cup {None}
    /\ entry \in PendingEntries \cup {None} /\ exit \in PendingExits \cup {None}
    /\ alloc \in Int /\ budget \in [reserved : Int, realized : Int, open : Int]
    /\ orders \in Seq(Orders)
    /\ posn \in [Contracts -> Int]
    /\ lpos \in [Contracts -> [qty : Int, avg : Int, realized : Int]]
    /\ proposal # None => /\ proposal.dir \in Contracts /\ IsHints(proposal.hints)
                          /\ proposal.born \in Int /\ proposal.n \in Int
    /\ clock \in Int /\ calls \in Int
    /\ phase \in {"auth", "options", "warmup", "premarket", "loop", "report", "returned"}
    /\ stage \in {"poll", "spy", "options", "agents", "deciding", "council", "replay", "finish"}

\* The capital reserved in the budget is exactly what the pending entry or the
\* open trade holds, never more than was authorized: fills, cancellations,
\* rejections and exits in any order neither leak it nor give it back twice.
\* (An entry whose submission raised is the exception: engine ENTERING.)
CapitalFollowsTrades ==
    Settled /\ cfg.live /\ engine # "ENTERING" =>
        /\ budget.reserved = alloc + (IF trade = None THEN 0 ELSE trade.reserved)
        /\ budget.open = IF trade # None \/ entry # None THEN 1 ELSE 0
        /\ budget.reserved <= Plan.authorized

\* A position at the broker belongs to the open trade or to the pending entry,
\* so that something will exit it (live sessions; see Awkward; while no purchase
\* is filled in part: see PartialSides).
NoUnmanagedPosition ==
    Settled /\ cfg.live /\ ~Awkward =>
        \A c \in OpenPositions :
            \/ trade # None /\ trade.contract = c
            \/ entry # None /\ entry.contract = c

\* Exits never sell more than is held, however often they are retried, cancelled
\* or filled late.
NeverShort == cfg.live /\ ~Awkward => \A c \in Contracts : posn[c] >= 0

\* When nothing is open, the profit the goal is measured by is the profit the
\* ledger realised: an exit is booked once, against the baseline before it.
BudgetPnlIsRealized ==
    Settled /\ cfg.live /\ ~Awkward /\ trade = None /\ entry = None =>
        budget.realized = MapThenSumSet(LAMBDA c : lpos[c].realized, Contracts)

\* The reactive engine agrees with the handler: OPEN_POSITION is an entry that is
\* pending, MANAGING_EXIT a trade that is open, so that neither a finished trade
\* blocks the session nor an open one is forgotten.
EngineAgrees ==
    Settled =>
        /\ engine = "MANAGING_EXIT" <=> trade # None
        /\ engine = "OPEN_POSITION" <=> entry # None

\* Under propose-then-confirm an entry of the decision agent confirms a proposal
\* of an earlier call that has not expired, and no proposal is used twice.
OneEntryPerProposal ==
    cfg.propose =>
        /\ at = "submit" /\ req.by.source = "agent_decision" =>
             /\ proposal # None /\ proposal.n = req.by.n
             /\ proposal.n < calls /\ clock - proposal.born <= ConfirmTtl
        /\ \A j, k \in DOMAIN orders :
             j # k /\ orders[j].by.source = "agent_decision" => orders[j].by # orders[k].by

\* In a cognitive session the legacy agents send no entry (the docstring of
\* tests/runtime/test_no_dual_agent_authority.py).
NoDualAuthority ==
    cfg.cognitive => \A k \in DOMAIN orders : orders[k].side = "sell"
==============================================================================
