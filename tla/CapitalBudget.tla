---------------------------- MODULE CapitalBudget ----------------------------
(***************************************************************************)
(* joker/risk/capital.py: the session's capital budget as operators on the *)
(* record the CapitalBudget object keeps, [reserved, realized, open].      *)
(*                                                                         *)
(* Money is in whole units of one contract's multiplier (premium 3 costs   *)
(* 3, not 300), fractions are integer percent, and an argument the code    *)
(* may leave None is a set of at most one element.                         *)
(***************************************************************************)
EXTENDS Integers

CONSTANT Plan   \* the CapitalPlan the user confirmed

\* CapitalPlan.__post_init__: what a plan must satisfy to be built.
PlanOK(p) ==
    /\ p.authorized > 0 /\ p.targetPct >= 0
    /\ p.maxPositions >= 1
    /\ p.minContracts \in 1..p.maxContracts

PlanNumbers == {"authorized", "targetPct", "maxPositions", "maxContracts", "minContracts",
                "kelly", "boost", "dampen", "minWin"}

ASSUME PlanAssumption == PlanOK(Plan) /\ \A f \in PlanNumbers : Plan[f] \in Int

Lesser(a, b) == IF a < b THEN a ELSE b
Greater(a, b) == IF a > b THEN a ELSE b
The(opt) == CHOOSE x \in opt : TRUE

\* A fresh CapitalBudget.
NewBudget == [reserved |-> 0, realized |-> 0, open |-> 0]

TargetProfit == (Plan.authorized * Plan.targetPct) \div 100
Available(b) == Greater(0, Plan.authorized - b.reserved)
GoalMet(b) == b.realized >= TargetProfit
CanOpenPosition(b) == b.open < Plan.maxPositions

\* progress_to_goal_pct, between 0 and 200.
Progress(b) ==
    IF TargetProfit <= 0 THEN IF b.realized >= 0 THEN 100 ELSE 0
    ELSE Greater(0, Lesser(200, (b.realized * 100) \div TargetProfit))

\* aggression_cap: the largest share of the capital one entry may take.
AggressionCap(b, minutesToClose) ==
    LET base == Plan.kelly
        p == Progress(b)
        byGoal == IF p < 50 THEN Lesser(85, base + (Plan.boost * (50 - p)) \div 50)
                  ELSE IF p >= 100 THEN Lesser(base, 15)
                  ELSE IF p >= 80 THEN Greater(15, base - Plan.dampen)
                  ELSE base
        byClock == IF minutesToClose < 30 THEN Lesser(byGoal, 25)
                   ELSE IF minutesToClose < 60 THEN Lesser(byGoal, Greater(20, base))
                   ELSE byGoal
    IN  IF Plan.adaptive THEN Greater(5, Lesser(85, byClock)) ELSE base

MaxAffordable(b, premium) ==
    IF premium <= 0 THEN 0
    ELSE Greater(0, Lesser(Available(b) \div premium, Plan.maxContracts))

\* Sizing hints: numbers, each given or not.
IsHints(h) ==
    /\ h.confidence \in Int
    /\ \A f \in {"fraction", "target", "winProb", "expectedR", "ev"} :
         h[f] \subseteq Int /\ \A x, y \in h[f] : x = y

\* The share asked for, before the aggression cap: the agent's own fraction or
\* the one its style and confidence stand for, scaled by the quality of the edge
\* (expected_r is in tenths).
WantedFraction(h) ==
    LET styled == IF h.fraction # {} THEN Greater(0, Lesser(100, The(h.fraction)))
                  ELSE CASE h.style = "aggressive" -> Lesser(100, 70 + (30 * h.confidence) \div 100)
                         [] h.style = "conservative" -> Lesser(35, 15 + (25 * h.confidence) \div 100)
                         [] h.style = "split" -> Lesser(55, 25 + (40 * h.confidence) \div 100)
                         [] OTHER -> Lesser(85, 20 + (70 * h.confidence) \div 100)
        hasR == \E r \in h.expectedR : r > 0
        byEdge == IF hasR THEN Lesser(100, (styled * Lesser(150, 50 + 5 * The(h.expectedR))) \div 100)
                  ELSE styled
    IN  IF h.winProb = {} THEN byEdge
        ELSE LET w == The(h.winProb) IN
             IF hasR THEN Lesser(byEdge, Greater(5, w - ((100 - w) * 10) \div The(h.expectedR)))
             ELSE (byEdge * (50 + w \div 2)) \div 100

\* The gates of allocate that refuse an entry whatever its size.
EntryRefused(b, premium, h) ==
    \/ ~CanOpenPosition(b)
    \/ premium <= 0
    \/ \E ev \in h.ev : ev <= 0
    \/ \E w \in h.winProb : w < Plan.minWin
    \/ MaxAffordable(b, premium) < Plan.minContracts

\* allocate: the number of contracts to buy, 0 when the entry is refused.
Allocate(b, premium, h, minutesToClose) ==
    LET cap == AggressionCap(b, minutesToClose)
        frac == Lesser(WantedFraction(h), cap)
        most == MaxAffordable(b, premium)
        desired == IF h.target # {} THEN The(h.target)
                   ELSE (Available(b) * frac) \div (100 * premium)
        qty == Greater(0, Lesser(desired, most))
        atLeast == IF qty >= Plan.minContracts THEN qty
                   ELSE IF frac > 0 THEN Plan.minContracts ELSE 0
    IN  IF EntryRefused(b, premium, h) THEN 0
        ELSE IF premium * atLeast > Available(b) THEN 0 ELSE atLeast

\* reserve (its error, a notional that is not available any more, is ruled out by
\* the governor's CAPITAL_EXCEEDED in the same call).
Reserve(b, notional) == [b EXCEPT !.reserved = @ + notional, !.open = @ + 1]

Release(b, notional, pnl) ==
    [b EXCEPT !.reserved = Greater(0, @ - Greater(0, notional)),
              !.open = Greater(0, @ - 1),
              !.realized = @ + pnl]
==============================================================================
