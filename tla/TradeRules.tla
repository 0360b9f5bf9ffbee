----------------------------- MODULE TradeRules -----------------------------
(***************************************************************************)
(* The deterministic rules between a signal and an order, as operators:    *)
(* quote freshness (joker/data/freshness.py), the option selector and the  *)
(* exit manager (joker/execution), the risk governor (joker/risk/          *)
(* governor.py) and the propose/confirm gates (joker/agents/decision.py).  *)
(*                                                                         *)
(* A premium is a natural number; a stop, a trail and a target are in      *)
(* hundredths of the unit, so that percentages of a premium stay exact.    *)
(* Time is counted in ticks of the session.                                *)
(***************************************************************************)
EXTENDS CapitalBudget

CONSTANTS MaxPremium,      \* max_premium_usd
          MaxAge,          \* quote_max_age_seconds, in ticks
          MaxDelayedAge,   \* delayed_quote_max_age_seconds
          AllowDelayed,    \* allow_delayed_quotes
          MaxSilence,      \* feed_max_silence_seconds
          EodTick,         \* 15:55 in New York
          LateTick,        \* 45 minutes before the close
          ConfirmTtl       \* confirm_ttl_seconds

ASSUME TicksAssumption == EodTick \in Int /\ LateTick \in Int /\ ConfirmTtl \in Int

---------------------------------------------------------------------------
\* evaluate_quote_freshness: "ok" or the reason the quote is not fresh.  Only a
\* delayed quote is ever judged FEED_SILENT.
Freshness(q, now) ==
    LET age == now - q.quoted
        silence == now - q.received
    IN  IF q.delayed /\ ~AllowDelayed THEN "DELAYED_NOT_ALLOWED"
        ELSE IF q.delayed
             THEN IF silence > MaxSilence THEN "FEED_SILENT"
                  ELSE IF age > MaxDelayedAge THEN "STALE_QUOTE" ELSE "ok"
             ELSE IF age > MaxAge THEN "STALE_QUOTE" ELSE "ok"

\* OptionSelector._validate_quote: spread and premium only warn when liquidity
\* is advisory (agent_led).
ValidQuote(q, now, advisory) ==
    /\ q.mid > 0 /\ q.ask > 0
    /\ Freshness(q, now) = "ok"
    /\ advisory \/ (~q.wide /\ q.mid <= MaxPremium)

\* select_from_events: of the quotes of the direction's type, the valid one
\* whose strike is nearest to the underlying; an error is the empty set.
SelectFromEvents(quotes, contract, now, advisory) ==
    LET valid == {q \in quotes : q.contract = contract /\ ValidQuote(q, now, advisory)}
        nearest == {q \in valid : \A r \in valid : q.dist <= r.dist}
    IN  IF nearest = {} THEN {} ELSE {CHOOSE q \in nearest : TRUE}

---------------------------------------------------------------------------
\* ExitManager.stop_from_entry and target_from_entry.
StopFromEntry(entry, stopPct) == Greater(1, entry * (100 - stopPct))
TargetFromEntry(entry, targetPct) == entry * (100 + targetPct)

\* update_trailing: past 35 % of favourable excursion the stop follows the peak
\* at 20 % below it and never loosens.
UpdateTrailing(trade, premium) ==
    LET peak == Greater(trade.peak, premium)
        active == (peak - trade.entry) * 100 >= 35 * trade.entry
        floor == Greater(trade.stop, peak * 80)
    IN  [trade EXCEPT !.peak = peak,
                      !.trail = IF active THEN Greater(@, floor) ELSE @]

\* effective_stop: the trail once it is active, and 35 % below entry late in the
\* day.  0 stands for a trail that is not active.
EffectiveStop(trade, now) ==
    LET byTrail == Greater(trade.stop, trade.trail)
    IN  IF now >= LateTick THEN Greater(byTrail, trade.entry * 65) ELSE byTrail

\* check_exit: the first reason that holds, or "hold".  Nothing in the program
\* sets OpenTradeContext.invalidated.
CheckExit(trade, premium, now) ==
    IF premium * 100 <= EffectiveStop(trade, now) THEN "STOP_LOSS"
    ELSE IF premium * 100 >= trade.target THEN "TAKE_PROFIT"
    ELSE IF \E m \in trade.timeStop : now - trade.since >= m THEN "TIME_STOP"
    ELSE IF now >= EodTick THEN "END_OF_DAY"
    ELSE "hold"

---------------------------------------------------------------------------
\* The DailyState of a session as the runner builds it (live_paper_runner.py
\* 725-730): no code in the program writes it afterwards.
DailyState == [pnl |-> 0, trades |-> 0, open |-> 0]

\* RiskGovernor.evaluate: the reasons against a candidate; none approves it.
\* Symbol, expiry, direction and duplicate cannot fail for a candidate that the
\* handler built.
\* limits are the configured day limits, budget the capital the handler synced.
RiskReasons(cand, q, b, unresolved, now, agentLed, limits) ==
    LET fresh == Freshness(q, now) IN
        {r \in {"KILL_SWITCH"} : limits.kill}
    \cup {r \in {fresh} : fresh = "FEED_SILENT" \/ (fresh # "ok" /\ ~agentLed)}
    \cup {r \in {"NO_STOP"} : cand.stop <= 0}
    \cup {r \in {"NO_TAKE_PROFIT"} : cand.target <= 0}
    \cup {r \in {"UNRESOLVED_ORDER"} : unresolved}
    \cup {r \in {"CAPITAL_EXCEEDED"} : cand.entry * cand.qty > Available(b)}
    \cup (IF agentLed THEN {}
          ELSE {r \in {"WIDE_SPREAD"} : q.wide}
               \cup {r \in {"MAX_PREMIUM"} : cand.entry > MaxPremium}
               \cup {r \in {"MAX_DAILY_LOSS"} : DailyState.pnl <= -limits.maxLoss}
               \cup {r \in {"MAX_TRADES"} : DailyState.trades >= limits.maxTrades}
               \cup {r \in {"MAX_OPEN_POSITIONS"} : DailyState.open >= Plan.maxPositions})

---------------------------------------------------------------------------
\* pending_from_decision: what is remembered of a proposal; n numbers the
\* proposals (history).
PendingFrom(d, mid, now, n) ==
    [dir |-> d.dir, setup |-> d.setup, hints |-> d.hints, mid |-> mid, born |-> now, n |-> n]

\* confirm_gate: "ok" or why the proposal may not be confirmed; drifted says
\* whether the underlying moved too far, mid is the option's price now.
ConfirmGate(p, now, drifted, mid) ==
    IF now - p.born > ConfirmTtl THEN "expired"
    ELSE IF drifted THEN "drift"
    ELSE IF p.mid > 0 /\ (mid - p.mid) * 100 > 15 * p.mid THEN "worsened"
    ELSE "ok"

\* decision_from_pending: the confirmation's own sizing hints win over the
\* proposal's.
Prefer(new, old) == IF new # {} THEN new ELSE old
DecisionFromPending(p, d) ==
    [action |-> "confirm", dir |-> p.dir, setup |-> p.setup, n |-> p.n,
     hints |-> [fraction |-> Prefer(d.hints.fraction, p.hints.fraction),
                target |-> Prefer(d.hints.target, p.hints.target),
                confidence |-> IF d.hints.confidence # 0 THEN d.hints.confidence ELSE p.hints.confidence,
                style |-> d.hints.style,
                winProb |-> Prefer(d.hints.winProb, p.hints.winProb),
                expectedR |-> Prefer(d.hints.expectedR, p.hints.expectedR),
                ev |-> Prefer(d.hints.ev, p.hints.ev)]]

\* ev_entry_allowed for a confirmation or an entry.
EvEntryAllowed(d) ==
    /\ \A ev \in d.hints.ev : ev > 0
    /\ \A w \in d.hints.winProb : w >= Plan.minWin
==============================================================================
