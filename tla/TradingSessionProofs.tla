------------------------- MODULE TradingSessionProofs -------------------------
(***************************************************************************)
(* Theorems about the trading session: LivePaperRunner and the             *)
(* MarketHandler, TradeRules and CapitalBudget it drives, for every plan,  *)
(* set of contracts, decision, proposal, option chain and number of        *)
(* faults.                                                                 *)
(*                                                                         *)
(* A call of the handler returns in the middle of what it was doing when   *)
(* an exception passes through it, so an invariant of the session between  *)
(* two calls is not inductive.  SessionInv says for each state of the      *)
(* reactive engine what the call, the pending entry and the open trade are *)
(* (EngineInv), what the budget then holds (CapitalInv) and which of the   *)
(* agent's proposals are spent (ProposalInv); DataOK and CallOK type the   *)
(* session's data and the call under way.  BooksInv relates the broker's   *)
(* positions, the ledger's and the orders under way, and ProfitInv the     *)
(* ledger's profit and the budget's.                                       *)
(***************************************************************************)
EXTENDS LivePaperRunner, FiniteSums

Before == {"auth", "options", "warmup", "premarket"}

\* The engine and the handler: RISK_CHECK is the state of an entry between its
\* reservation and its submission, and the handler is called by the loop only.
EngineInv ==
    /\ phase \in Before => stage = "poll" /\ engine = "IDLE"
    /\ stage \in {"poll", "agents"} => at = "idle"
    /\ engine \in {"IDLE", "WATCHING", "RISK_CHECK", "ENTERING", "OPEN_POSITION", "MANAGING_EXIT"}
    /\ engine = "RISK_CHECK" <=> at = "submit"
    /\ engine = "MANAGING_EXIT" <=> trade # None
    /\ engine = "OPEN_POSITION" <=> entry # None

Share == IF trade = None THEN 0 ELSE trade.reserved

\* The capital: reserved from the risk check to the end of the trade.
CapitalInv ==
    cfg.live /\ engine # "ENTERING" =>
        /\ alloc >= 0 /\ (alloc > 0 <=> engine \in {"RISK_CHECK", "OPEN_POSITION"})
        /\ Share >= 0
        /\ budget.reserved = alloc + Share
        /\ budget.open = IF engine \in {"RISK_CHECK", "OPEN_POSITION", "MANAGING_EXIT"} THEN 1 ELSE 0
        /\ budget.reserved <= Plan.authorized

Decided == req.by.source = "agent_decision"

\* A proposal is confirmed in the call that follows it; until the attempt is
\* over it stays pending, and no order has its number before it is sent.
ProposalInv ==
    cfg.propose =>
        /\ proposal # None => proposal.n <= calls
        /\ at \in {"attempt", "submit"} /\ Decided =>
             /\ stage = "deciding" /\ proposal # None /\ proposal.n = req.by.n
             /\ proposal.n < calls /\ clock - proposal.born <= ConfirmTtl
        /\ \A k \in DOMAIN orders : orders[k].by.source = "agent_decision" =>
             /\ orders[k].by.n <= calls
             /\ proposal # None /\ ~(stage = "deciding" /\ at \in {"promote", "acted"})
                  => orders[k].by.n # proposal.n
        /\ \A j, k \in DOMAIN orders :
             j # k /\ orders[j].by.source = "agent_decision" => orders[j].by # orders[k].by

-----------------------------------------------------------------------------
(* Types                                                                   *)

Budgets == [reserved : Int, realized : Int, open : Int]
Books == [Contracts -> [qty : Int, avg : Int, realized : Int]]

\* What the handler keeps: trade, pending orders, capital, and the books.
DataOK ==
    /\ trade \in OpenTrades \cup {None}
    /\ entry \in PendingEntries \cup {None} /\ exit \in PendingExits \cup {None}
    /\ alloc \in Int /\ budget \in Budgets
    /\ orders \in Seq(Orders)
    /\ posn \in [Contracts -> Int]
    /\ lpos \in Books

\* A position the ledger books a fill on is a position.
LEMMA BookType ==
    ASSUME NEW l \in Books, NEW o \in Orders, NEW n \in Int
    PROVE  Book(l, o, n) \in Books
<1>1. PICK c : c = o.contract /\ c \in Contracts
  BY DEF Orders
<1>2. PICK q, a, r : l[c] = [qty |-> q, avg |-> a, realized |-> r] /\ q \in Int /\ a \in Int /\ r \in Int
  BY <1>1 DEF Books
<1>3. PICK m : m = (IF n < q THEN n ELSE q) /\ m \in Int
  BY <1>2
<1>4. PICK v : v = r + (o.price - a) * m /\ v \in Int
  BY <1>2, <1>3 DEF Orders
<1>5. PICK p : p = l[c] /\ p \in [qty : Int, avg : Int, realized : Int]
               /\ p.qty = q /\ p.avg = a /\ p.realized = r
  BY <1>1, <1>2 DEF Books
<1>6. o.price \in Int
  BY DEF Orders
<1>7. PICK x : x = (IF o.side = "buy" THEN [p EXCEPT !.qty = @ + n, !.avg = o.price]
                    ELSE IF p.qty <= 0 THEN [p EXCEPT !.qty = @ - n, !.avg = o.price]
                    ELSE [p EXCEPT !.qty = @ - m, !.realized = @ + (o.price - p.avg) * m])
  OBVIOUS
<1>8. x \in [qty : Int, avg : Int, realized : Int]
  <2>0. PICK u, d, g, w : /\ u = p.qty + n /\ d = p.qty - n /\ g = p.qty - m /\ w = p.realized + (o.price - p.avg) * m
                          /\ u \in Int /\ d \in Int /\ g \in Int /\ w \in Int
    BY <1>2, <1>3, <1>4, <1>5
  <2>1. CASE o.side = "buy"
    <3>1. x = [p EXCEPT !.qty = u, !.avg = o.price]
      BY <1>7, <2>0, <2>1
    <3> QED BY <1>5, <1>6, <2>0, <3>1
  <2>2. CASE o.side # "buy" /\ p.qty <= 0
    <3>1. x = [p EXCEPT !.qty = d, !.avg = o.price]
      BY <1>7, <2>0, <2>2
    <3> QED BY <1>5, <1>6, <2>0, <3>1
  <2>3. CASE o.side # "buy" /\ ~(p.qty <= 0)
    <3>1. x = [p EXCEPT !.qty = g, !.realized = w]
      BY <1>7, <2>0, <2>3
    <3> QED BY <1>5, <2>0, <3>1
  <2> QED BY <2>1, <2>2, <2>3
<1>9. Book(l, o, n) = IF n = 0 THEN l ELSE [l EXCEPT ![c] = x]
  BY <1>1, <1>3, <1>5, <1>7 DEF Book
<1> QED BY <1>1, <1>8, <1>9 DEF Books

\* What a poll makes of an order is an order of the same contract and owner.
LEMMA PolledType ==
    ASSUME NEW o \in Orders
    PROVE  /\ Polled(o) \in Orders /\ Polled(o).by = o.by
           /\ Polled(o).contract = o.contract /\ Polled(o).side = o.side
<1>1. CASE o.status \in {"cancelled", "rejected"}
  <2>1. Polled(o) = [o EXCEPT !.known = o.status]
    BY <1>1 DEF Polled
  <2> QED BY <1>1, <2>1 DEF Orders
<1>2. CASE o.status = "filled" /\ Verified
  <2>1. Polled(o) = [o EXCEPT !.known = "filled", !.booked = o.qty]
    BY <1>2 DEF Polled
  <2> QED BY <1>2, <2>1 DEF Orders
<1>3. CASE ~(o.status \in {"cancelled", "rejected"}) /\ ~(o.status = "filled" /\ Verified)
  <2>1. Polled(o) = o
    BY <1>3 DEF Polled
  <2> QED BY <2>1
<1> QED BY <1>1, <1>2, <1>3

\* An order is placed with the owner it was asked for.
LEMMA PlacedType ==
    ASSUME cfg \in Sessions, NEW side \in {"buy", "sell"}, NEW c \in Contracts, NEW n \in Int,
           NEW price \in Int, NEW by \in [source : Sources, n : Int],
           NEW status \in {"open", "filled"}
    PROVE  /\ Placed(side, c, n, price, by, status) \in Orders
           /\ Placed(side, c, n, price, by, status).by = by
<1>1. PICK o : o = [side |-> side, contract |-> c, qty |-> n, price |-> price, by |-> by,
                    status |-> status, filled |-> IF status = "filled" THEN n ELSE 0,
                    known |-> "accepted", booked |-> 0]
  OBVIOUS
<1>2. o \in Orders /\ o.by = by
  BY <1>1 DEF Orders
<1>3. Placed(side, c, n, price, by, status) = (IF cfg.live THEN Polled(o) ELSE o)
  BY <1>1 DEF Placed
<1> QED BY <1>2, <1>3, PolledType

\* CapitalBudget.release never takes reserved or open below zero.
LEMMA ReleaseType ==
    ASSUME NEW b \in Budgets, NEW n \in Int, NEW pnl \in Int
    PROVE  /\ Release(b, n, pnl) \in Budgets
           /\ n >= 0 => Release(b, n, pnl).reserved = IF b.reserved < n THEN 0 ELSE b.reserved - n
           /\ Release(b, n, pnl).open = IF b.open < 1 THEN 0 ELSE b.open - 1
<1>1. PICK x, y, z : /\ x = Greater(0, b.reserved - Greater(0, n)) /\ y = b.realized + pnl
                     /\ z = Greater(0, b.open - 1)
                     /\ x \in Int /\ y \in Int /\ z \in Int
  BY DEF Greater, Budgets
<1>2. Release(b, n, pnl) = [b EXCEPT !.reserved = x, !.open = z, !.realized = y]
  BY <1>1 DEF Release
<1>3. /\ Release(b, n, pnl) \in Budgets
      /\ Release(b, n, pnl).reserved = x /\ Release(b, n, pnl).open = z
  BY <1>1, <1>2 DEF Budgets
<1> QED BY <1>1, <1>3 DEF Budgets, Greater

\* ExitManager.update_trailing leaves the capital of the trade alone.
LEMMA TrailingType ==
    ASSUME NEW t \in OpenTrades, NEW m \in Int
    PROVE  UpdateTrailing(t, m) \in OpenTrades /\ UpdateTrailing(t, m).reserved = t.reserved
<1>1. PICK p : p = Greater(t.peak, m) /\ p \in Int
  BY DEF Greater, OpenTrades
<1>2. PICK u : u = (IF (p - t.entry) * 100 >= 35 * t.entry
                    THEN Greater(t.trail, Greater(t.stop, p * 80)) ELSE t.trail)
               /\ u \in Int
  BY <1>1 DEF Greater, OpenTrades
<1>3. UpdateTrailing(t, m) = [t EXCEPT !.peak = p, !.trail = u]
  BY <1>1, <1>2, Zenon DEF UpdateTrailing
<1> QED BY <1>1, <1>2, <1>3 DEF OpenTrades

\* No trade and no pending order is mistaken for the absence of one.
LEMMA TradeIsSome ==
    /\ None \notin OpenTrades /\ None \notin PendingEntries /\ None \notin PendingExits
    /\ None \notin PendingEntries'
<1>1. DOMAIN None = {"none"}
  BY DEF None
<1>2. "peak" \notin DOMAIN None /\ "order" \notin DOMAIN None
  BY <1>1
<1>3. None \notin OpenTrades
  BY <1>2 DEF OpenTrades
<1>4. None \notin PendingEntries
  BY <1>2 DEF PendingEntries
<1>5. None \notin PendingExits
  BY <1>2 DEF PendingExits
<1>6. None \notin PendingEntries'
  BY <1>2 DEF PendingEntries
<1> QED BY <1>3, <1>4, <1>5, <1>6

\* The events the runner hands over are events.
LEMMA SetTypes ==
    /\ \A e \in Events : e.mid \in Int
    /\ \A c \in Contracts, m \in Premiums : OptionQuote(c, m) \in Events
    /\ Spy \in Events
<1>1. Spy.mid \in Int
  BY DEF Spy
<1>2. ASSUME NEW c \in Contracts, NEW m \in Premiums PROVE OptionQuote(c, m).mid \in Int
  <2>1. OptionQuote(c, m).mid = m
    BY DEF OptionQuote
  <2>2. m \in Int
    BY SessionAssumption
  <2> QED BY <2>1, <2>2
<1> QED BY <1>1, <1>2 DEF Events

-----------------------------------------------------------------------------
(* The size of an entry                                                    *)

\* Integer division stays within the integers.
LEMMA DivInt == ASSUME NEW a \in Int, NEW d \in Int, d > 0 PROVE a \div d \in Int
  OBVIOUS

\* The numbers of the trading plan.
LEMMA PlanInts ==
    /\ Plan.authorized \in Int /\ Plan.targetPct \in Int /\ Plan.maxPositions \in Int
    /\ Plan.maxContracts \in Int /\ Plan.minContracts \in Int /\ Plan.kelly \in Int
    /\ Plan.boost \in Int /\ Plan.dampen \in Int /\ Plan.minWin \in Int
    /\ Plan.authorized > 0 /\ Plan.minContracts >= 1
<1>1. PICK F : F = PlanNumbers /\ \A f \in F : Plan[f] \in Int
  BY PlanAssumption
<1>2. {"authorized", "targetPct", "maxPositions", "maxContracts", "minContracts",
       "kelly", "boost", "dampen", "minWin"} \subseteq F
  BY <1>1 DEF PlanNumbers
<1> QED BY <1>1, <1>2, PlanAssumption DEF PlanOK

\* The cap of the aggression on the day is a number.
LEMMA CapInt == ASSUME NEW b \in Budgets, NEW m \in Int PROVE AggressionCap(b, m) \in Int
<1>1. TargetProfit \in Int
  BY PlanInts, DivInt DEF TargetProfit
<1>2. Progress(b) \in Int
  <2>1. CASE TargetProfit <= 0
    BY <2>1 DEF Progress
  <2>2. CASE ~(TargetProfit <= 0)
    <3>1. b.realized * 100 \in Int
      BY DEF Budgets
    <3>2. (b.realized * 100) \div TargetProfit \in Int
      BY <1>1, <2>2, <3>1, DivInt
    <3> QED BY <2>2, <3>2 DEF Progress, Greater, Lesser
  <2> QED BY <2>1, <2>2
<1>3. (Plan.boost * (50 - Progress(b))) \div 50 \in Int
  <2>1. Plan.boost * (50 - Progress(b)) \in Int
    BY <1>2, PlanInts
  <2> QED BY <2>1, DivInt
<1> DEFINE base == Plan.kelly
           p == Progress(b)
           byGoal == IF p < 50 THEN Lesser(85, base + (Plan.boost * (50 - p)) \div 50)
                     ELSE IF p >= 100 THEN Lesser(base, 15)
                     ELSE IF p >= 80 THEN Greater(15, base - Plan.dampen)
                     ELSE base
           byClock == IF m < 30 THEN Lesser(byGoal, 25)
                      ELSE IF m < 60 THEN Lesser(byGoal, Greater(20, base))
                      ELSE byGoal
<1>4. byGoal \in Int
  BY <1>2, <1>3, PlanInts DEF Lesser, Greater
<1>5. byClock \in Int
  <2> HIDE DEF byGoal
  <2> QED BY <1>4, PlanInts DEF Lesser, Greater
<1>6. AggressionCap(b, m) = IF Plan.adaptive THEN Greater(5, Lesser(85, byClock)) ELSE base
  BY Zenon DEF AggressionCap
<1> HIDE DEF byClock
<1> QED BY <1>5, <1>6, PlanInts DEF Lesser, Greater

\* A hint that is given.
LEMMA TheInt ==
    ASSUME NEW h, IsHints(h), NEW f \in {"fraction", "target", "winProb", "expectedR", "ev"},
           h[f] # {}
    PROVE  The(h[f]) \in Int /\ The(h[f]) \in h[f] /\ \A x \in h[f] : x = The(h[f])
<1>1. PICK x : x \in h[f]
  OBVIOUS
<1>2. The(h[f]) \in h[f]
  BY <1>1, Zenon DEF The
<1> QED BY <1>2 DEF IsHints

\* The fraction of the capital that the hints ask for is a number.
LEMMA WantedInt == ASSUME NEW h, IsHints(h) PROVE WantedFraction(h) \in Int
<1> DEFINE styled == IF h.fraction # {} THEN Greater(0, Lesser(100, The(h.fraction)))
                     ELSE CASE h.style = "aggressive" -> Lesser(100, 70 + (30 * h.confidence) \div 100)
                            [] h.style = "conservative" -> Lesser(35, 15 + (25 * h.confidence) \div 100)
                            [] h.style = "split" -> Lesser(55, 25 + (40 * h.confidence) \div 100)
                            [] OTHER -> Lesser(85, 20 + (70 * h.confidence) \div 100)
           hasR == \E r \in h.expectedR : r > 0
           byEdge == IF hasR THEN Lesser(100, (styled * Lesser(150, 50 + 5 * The(h.expectedR))) \div 100)
                     ELSE styled
<1>1. h.confidence \in Int
  BY DEF IsHints
<1>2. styled \in Int
  <2>1. CASE h.fraction # {}
    BY <2>1, TheInt DEF Greater, Lesser
  <2>2. CASE h.fraction = {}
    <3>1. /\ Lesser(100, 70 + (30 * h.confidence) \div 100) \in Int
          /\ Lesser(35, 15 + (25 * h.confidence) \div 100) \in Int
          /\ Lesser(55, 25 + (40 * h.confidence) \div 100) \in Int
          /\ Lesser(85, 20 + (70 * h.confidence) \div 100) \in Int
      BY <1>1 DEF Lesser
    <3> QED BY <2>2, <3>1
  <2> QED BY <2>1, <2>2
<1>3. hasR => The(h.expectedR) \in Int /\ The(h.expectedR) > 0
  BY TheInt
<1>4. byEdge \in Int
  <2> HIDE DEF styled
  <2>1. CASE hasR
    <3>1. Lesser(150, 50 + 5 * The(h.expectedR)) \in Int
      BY <1>3, <2>1 DEF Lesser
    <3>2. styled * Lesser(150, 50 + 5 * The(h.expectedR)) \in Int
      BY <1>2, <3>1
    <3> QED BY <2>1, <3>2, DivInt DEF Lesser
  <2>2. CASE ~hasR
    BY <1>2, <2>2
  <2> QED BY <2>1, <2>2
<1>5. WantedFraction(h) =
        IF h.winProb = {} THEN byEdge
        ELSE IF hasR THEN Lesser(byEdge, Greater(5, The(h.winProb)
                                            - ((100 - The(h.winProb)) * 10) \div The(h.expectedR)))
        ELSE (byEdge * (50 + The(h.winProb) \div 2)) \div 100
  BY Zenon DEF WantedFraction
<1> HIDE DEF byEdge
<1>6. ASSUME h.winProb # {}, hasR
      PROVE  Greater(5, The(h.winProb) - ((100 - The(h.winProb)) * 10) \div The(h.expectedR)) \in Int
  <2>1. The(h.winProb) \in Int
    BY <1>6, TheInt
  <2>2. (100 - The(h.winProb)) * 10 \in Int
    BY <2>1
  <2>3. ((100 - The(h.winProb)) * 10) \div The(h.expectedR) \in Int
    BY <1>3, <1>6, <2>2, DivInt
  <2> QED BY <2>1, <2>3 DEF Greater
<1>7. ASSUME h.winProb # {}, ~hasR PROVE (byEdge * (50 + The(h.winProb) \div 2)) \div 100 \in Int
  <2>1. The(h.winProb) \in Int
    BY <1>7, TheInt
  <2>2. byEdge * (50 + The(h.winProb) \div 2) \in Int
    BY <1>4, <2>1
  <2> QED BY <2>2, DivInt
<1> HIDE DEF hasR
<1> QED BY <1>4, <1>5, <1>6, <1>7 DEF Lesser

\* An allocation is a number, and a premium is paid for at least one contract.
LEMMA AllocateInt ==
    ASSUME NEW b \in Budgets, NEW premium \in Int, NEW h, IsHints(h), NEW m \in Int
    PROVE  /\ Allocate(b, premium, h, m) \in Int
           /\ Allocate(b, premium, h, m) >= 1 => premium > 0
<1>1. CASE EntryRefused(b, premium, h)
  <2>1. Allocate(b, premium, h, m) = 0
    BY <1>1 DEF Allocate
  <2> QED BY <2>1
<1>2. CASE ~EntryRefused(b, premium, h)
  <2> DEFINE frac == Lesser(WantedFraction(h), AggressionCap(b, m))
             most == MaxAffordable(b, premium)
             desired == IF h.target # {} THEN The(h.target)
                        ELSE (Available(b) * frac) \div (100 * premium)
             qty == Greater(0, Lesser(desired, most))
             atLeast == IF qty >= Plan.minContracts THEN qty
                        ELSE IF frac > 0 THEN Plan.minContracts ELSE 0
  <2>1. premium > 0
    BY <1>2 DEF EntryRefused
  <2>2. Available(b) \in Int
    BY PlanInts DEF Available, Greater, Budgets
  <2>3. most \in Int
    BY <2>1, <2>2, PlanInts, DivInt DEF MaxAffordable, Greater, Lesser
  <2>4. frac \in Int
    BY WantedInt, CapInt DEF Lesser
  <2>5. desired \in Int
    <3> HIDE DEF frac
    <3>1. Available(b) * frac \in Int /\ 100 * premium \in Int /\ 100 * premium > 0
      BY <2>1, <2>2, <2>4
    <3> QED BY <3>1, DivInt, TheInt
  <2>6. Allocate(b, premium, h, m) = IF premium * atLeast > Available(b) THEN 0 ELSE atLeast
    BY <1>2, Zenon DEF Allocate
  <2> HIDE DEF desired, most, frac
  <2>7. atLeast \in Int
    BY <2>3, <2>5, PlanInts DEF Greater, Lesser
  <2> HIDE DEF atLeast
  <2> QED BY <2>1, <2>6, <2>7
<1> QED BY <1>1, <1>2

-----------------------------------------------------------------------------
(* Every step keeps the types of what the handler keeps                    *)

\* A pending order stays one while orders are only appended or changed.
LEMMA PendingKept ==
    ASSUME DOMAIN orders \subseteq DOMAIN orders'
    PROVE  PendingEntries \subseteq PendingEntries' /\ PendingExits \subseteq PendingExits'
  BY DEF PendingEntries, PendingExits

\* Polling an order of the session leaves orders and positions well-formed.
LEMMA PollBooks ==
    ASSUME DataOK, NEW k \in DOMAIN orders, NEW o, o = Polled(orders[k])
    PROVE  /\ o \in Orders /\ o.by = orders[k].by
           /\ Book(lpos, orders[k], o.booked - orders[k].booked) \in Books
           /\ [orders EXCEPT ![k] = o] \in Seq(Orders)
           /\ DOMAIN [orders EXCEPT ![k] = o] = DOMAIN orders
<1>1. orders[k] \in Orders
  BY DEF DataOK
<1>2. o \in Orders /\ o.by = orders[k].by
  BY <1>1, PolledType
<1>3. o.booked - orders[k].booked \in Int
  BY <1>1, <1>2 DEF Orders
<1>4. Book(lpos, orders[k], o.booked - orders[k].booked) \in Books
  BY <1>1, <1>3, BookType DEF DataOK
<1>5. [orders EXCEPT ![k] = o] \in Seq(Orders)
  BY <1>2 DEF DataOK
<1> QED BY <1>2, <1>4, <1>5

\* A filled entry becomes the open trade with the capital it had reserved.
LEMMA AttachType ==
    ASSUME DataOK, entry \in PendingEntries, clock \in Int, NEW q \in Int, NEW p \in Int,
           AttachOpenTrade(q, p)
    PROVE  /\ trade' \in OpenTrades /\ entry' = None /\ alloc' = 0 /\ budget' = budget
           /\ trade'.reserved = IF alloc # 0 THEN alloc ELSE p * q
<1>1. PICK r : r = (IF alloc # 0 THEN alloc ELSE p * q) /\ r \in Int
  BY DEF DataOK
<1>2. trade' = [contract |-> entry.contract, entry |-> p, stop |-> entry.stop,
                target |-> entry.target, since |-> clock, timeStop |-> TimeStop,
                qty |-> q, peak |-> p, trail |-> 0, reserved |-> r]
  BY <1>1 DEF AttachOpenTrade
<1>3. entry.contract \in Contracts /\ entry.stop \in Int /\ entry.target \in Int
  BY DEF PendingEntries
<1>4. trade' \in OpenTrades /\ trade'.reserved = r
  BY <1>1, <1>2, <1>3 DEF OpenTrades
<1> QED BY <1>1, <1>4 DEF AttachOpenTrade

\* An entry the broker gave up leaves no trade and no allocation.
LEMMA EntryGoneType ==
    ASSUME DataOK, EntryGone
    PROVE  trade' = trade /\ entry' = None /\ alloc' = 0 /\ budget' \in Budgets
<1>1. Release(budget, alloc, 0) \in Budgets
  BY ReleaseType DEF DataOK
<1> QED BY <1>1 DEF EntryGone, DataOK

\* Reconciling the pending entry keeps the types of the session data.
LEMMA ReconcileEntryType ==
    ASSUME DataOK, clock \in Int, ReconcilePendingEntry, UNCHANGED <<exit, posn>>
    PROVE  DataOK' /\ DOMAIN orders' = DOMAIN orders
<1>1. CASE UNCHANGED <<trade, entry, alloc, budget, engine, orders, lpos>>
  BY <1>1 DEF DataOK, PendingEntries, PendingExits
<1>2. CASE entry # None /\ trade = None /\ cfg.live /\ ReconcileEntryLedger
  <2>1. PICK k, o, l : /\ k = entry.order /\ o = Polled(orders[k])
                       /\ l = Book(lpos, orders[k], o.booked - orders[k].booked)
    OBVIOUS
  <2>2. entry \in PendingEntries /\ k \in DOMAIN orders /\ entry.contract \in Contracts
    BY <1>2, <2>1 DEF DataOK, PendingEntries
  <2>3. /\ l \in Books /\ [orders EXCEPT ![k] = o] \in Seq(Orders)
        /\ DOMAIN [orders EXCEPT ![k] = o] = DOMAIN orders
    BY <2>1, <2>2, PollBooks
  <2>4. /\ orders' = [orders EXCEPT ![k] = o] /\ lpos' = l
        /\ \/ EntryGone
           \/ AttachOpenTrade(l[entry.contract].qty, l[entry.contract].avg)
           \/ UNCHANGED <<trade, entry, alloc, budget, engine>>
    BY <1>2, <2>1 DEF ReconcileEntryLedger
  <2>5. l[entry.contract].qty \in Int /\ l[entry.contract].avg \in Int
    BY <2>2, <2>3 DEF Books
  <2>6. /\ trade' \in OpenTrades \cup {None} /\ entry' \in PendingEntries \cup {None}
        /\ alloc' \in Int /\ budget' \in Budgets
    <3>1. CASE EntryGone
      BY <3>1, EntryGoneType DEF DataOK
    <3>2. CASE AttachOpenTrade(l[entry.contract].qty, l[entry.contract].avg)
      BY <2>2, <2>5, <3>2, AttachType DEF DataOK
    <3>3. CASE UNCHANGED <<trade, entry, alloc, budget, engine>>
      BY <3>3 DEF DataOK
    <3> QED BY <2>4, <3>1, <3>2, <3>3
  <2>7. PendingEntries' = PendingEntries /\ PendingExits' = PendingExits /\ OpenTrades' = OpenTrades
    BY <2>3, <2>4 DEF PendingEntries, PendingExits, OpenTrades
  <2> QED BY <2>3, <2>4, <2>6, <2>7 DEF DataOK, Books, Budgets, Orders
<1>3. CASE entry # None /\ trade = None /\ ReconcileEntryBroker
  <2>1. orders' = orders /\ lpos' = lpos
    BY <1>3 DEF ReconcileEntryBroker
  <2>2. entry \in PendingEntries
    BY <1>3 DEF DataOK
  <2>3. entry.qty \in Int /\ orders[entry.order].price \in Int
    <3>1. entry.qty \in Int /\ entry.order \in DOMAIN orders
      BY <2>2 DEF PendingEntries
    <3>2. orders[entry.order] \in Orders
      BY <3>1 DEF DataOK
    <3> QED BY <3>1, <3>2 DEF Orders
  <2>4. /\ trade' \in OpenTrades \cup {None} /\ entry' \in PendingEntries \cup {None}
        /\ alloc' \in Int /\ budget' \in Budgets
    <3>1. CASE AttachOpenTrade(entry.qty, orders[entry.order].price)
      BY <2>2, <2>3, <3>1, AttachType DEF DataOK
    <3>2. CASE UNCHANGED <<trade, entry, alloc, budget, engine>>
      BY <3>2 DEF DataOK
    <3> QED BY <1>3, <3>1, <3>2 DEF ReconcileEntryBroker
  <2>5. PendingEntries' = PendingEntries /\ PendingExits' = PendingExits
    BY <2>1 DEF PendingEntries, PendingExits
  <2> QED BY <2>1, <2>4, <2>5 DEF DataOK
<1> QED BY <1>1, <1>2, <1>3 DEF ReconcilePendingEntry

\* A finished exit gives back the capital of its trade.
LEMMA FinalizeType ==
    ASSUME DataOK, trade # None, NEW pnl \in Int, FinalizeExit(pnl)
    PROVE  /\ trade' = None /\ exit' = None
           /\ budget' = Release(budget, trade.reserved, pnl) /\ budget' \in Budgets
<1>1. trade.reserved \in Int
  BY DEF DataOK, OpenTrades
<1>2. Release(budget, trade.reserved, pnl) \in Budgets
  BY <1>1, ReleaseType DEF DataOK
<1> QED BY <1>2 DEF FinalizeExit

\* What _reconcile_pending_exit does to the trade: nothing, another quantity,
\* or its end.
ExitEffect ==
    \/ UNCHANGED <<trade, budget, engine>>
    \/ /\ trade # None /\ trade' \in OpenTrades /\ trade'.reserved = trade.reserved
       /\ UNCHANGED <<budget, engine>>
    \/ /\ trade # None /\ \E pnl \in Int : FinalizeExit(pnl)

\* Reconciling the pending exit keeps the types, and the trade or releases it.
LEMMA ReconcileExitType ==
    ASSUME DataOK, ReconcilePendingExit, UNCHANGED <<entry, alloc, posn>>
    PROVE  DataOK' /\ ExitEffect /\ DOMAIN orders' = DOMAIN orders
<1>1. CASE UNCHANGED <<trade, exit, budget, engine, orders, lpos>>
  BY <1>1 DEF DataOK, PendingEntries, PendingExits, ExitEffect
<1>2. CASE exit # None /\ trade # None /\ ReconcileExitLedger
  <2>1. PICK k, o, l : /\ k = exit.order /\ o = Polled(orders[k])
                       /\ l = Book(lpos, orders[k], o.booked - orders[k].booked)
    OBVIOUS
  <2>2. /\ exit \in PendingExits /\ k \in DOMAIN orders /\ exit.contract \in Contracts
        /\ exit.before \in Int /\ trade \in OpenTrades
    BY <1>2, <2>1 DEF DataOK, PendingExits
  <2>3. /\ l \in Books /\ [orders EXCEPT ![k] = o] \in Seq(Orders)
        /\ DOMAIN [orders EXCEPT ![k] = o] = DOMAIN orders
    BY <2>1, <2>2, PollBooks
  <2>4. PICK left, pnl : /\ left = l[exit.contract].qty
                         /\ pnl = l[exit.contract].realized - exit.before
                         /\ left \in Int /\ pnl \in Int
    BY <2>2, <2>3, SMTT(20) DEF Books
  <2>5. /\ orders' = [orders EXCEPT ![k] = o] /\ lpos' = l
        /\ \/ exit' = None /\ UNCHANGED <<trade, budget, engine>>
           \/ FinalizeExit(pnl)
           \/ /\ trade' = [trade EXCEPT !.qty = IF left \in 1..@ THEN left ELSE @]
              /\ exit' \in {None, exit}
              /\ UNCHANGED <<budget, engine>>
    BY <1>2, <2>1, <2>4 DEF ReconcileExitLedger
  <2>6. /\ trade' \in OpenTrades \cup {None} /\ exit' \in PendingExits \cup {None}
        /\ budget' \in Budgets /\ ExitEffect
    <3>1. CASE exit' = None /\ UNCHANGED <<trade, budget, engine>>
      BY <3>1 DEF DataOK, ExitEffect
    <3>2. CASE FinalizeExit(pnl)
      BY <1>2, <2>4, <3>2, FinalizeType DEF DataOK, ExitEffect
    <3>3. CASE /\ trade' = [trade EXCEPT !.qty = IF left \in 1..@ THEN left ELSE @]
               /\ exit' \in {None, exit} /\ UNCHANGED <<budget, engine>>
      <4>1. PICK n : n = (IF left \in 1 .. trade.qty THEN left ELSE trade.qty) /\ n \in Int
        BY <2>2, <2>4 DEF OpenTrades
      <4>2. trade' = [trade EXCEPT !.qty = n]
        BY <3>3, <4>1
      <4>3. trade' \in OpenTrades /\ trade'.reserved = trade.reserved
        BY <2>2, <4>1, <4>2 DEF OpenTrades
      <4> QED BY <1>2, <2>2, <3>3, <4>3 DEF DataOK, ExitEffect
    <3> QED BY <2>5, <3>1, <3>2, <3>3
  <2>7. PendingEntries' = PendingEntries /\ PendingExits' = PendingExits
    BY <2>3, <2>5 DEF PendingEntries, PendingExits
  <2> QED BY <2>3, <2>5, <2>6, <2>7 DEF DataOK
<1> QED BY <1>1, <1>2 DEF ReconcilePendingExit

\* An order that is appended.
LEMMA TakeOrderType ==
    ASSUME DataOK, NEW o \in Orders, TakeOrder(o)
    PROVE  /\ orders' = Append(orders, o) /\ orders' \in Seq(Orders)
           /\ posn' \in [Contracts -> Int] /\ lpos' \in Books
           /\ DOMAIN orders' = DOMAIN orders \cup {Len(orders) + 1}
<1>1. orders \in Seq(Orders) /\ posn \in [Contracts -> Int] /\ lpos \in Books
  BY DEF DataOK
<1>2. orders' = Append(orders, o) /\ lpos' = Book(lpos, o, o.booked)
  BY DEF TakeOrder
<1>3. o.contract \in Contracts /\ o.booked \in Int /\ o.filled \in Int
  BY DEF Orders
<1>4. lpos' \in Books
  BY <1>1, <1>2, <1>3, BookType
<1>5. PICK p : p = posn[o.contract] + Signed(o, o.filled) /\ p \in Int
  BY <1>1, <1>3 DEF Signed
<1>6. posn' = [posn EXCEPT ![o.contract] = p]
  BY <1>5 DEF TakeOrder
<1>7. posn' \in [Contracts -> Int]
  BY <1>1, <1>3, <1>5, <1>6
<1> QED BY <1>1, <1>2, <1>4, <1>7

\* An order the broker took although the call raised belongs to no decision.
LEMMA LostOrderType ==
    ASSUME cfg \in Sessions, NEW side \in {"buy", "sell"}, NEW c \in Contracts, NEW n \in Int,
           NEW price \in Int
    PROVE  LET o == [Placed(side, c, n, price, NoOne, "open") EXCEPT !.known = "unknown"]
           IN  o \in Orders /\ o.by = NoOne
<1>1. NoOne \in [source : Sources, n : Int]
  BY DEF NoOne, By, Sources
<1>2. /\ Placed(side, c, n, price, NoOne, "open") \in Orders
      /\ Placed(side, c, n, price, NoOne, "open").by = NoOne
  BY <1>1, PlacedType
<1> QED BY <1>2 DEF Orders

\* The trade with its trailing stop updated keeps its capital.
LEMMA TrailedType ==
    ASSUME DataOK, ev \in Events
    PROVE  /\ trade = None => Trailed = None
           /\ trade # None => Trailed \in OpenTrades /\ Trailed.reserved = trade.reserved
<1>1. CASE trade # None /\ ev.kind = "option"
  <2>1. trade \in OpenTrades /\ ev.mid \in Int
    BY <1>1, SetTypes DEF DataOK
  <2>2. Trailed = UpdateTrailing(trade, ev.mid)
    BY <1>1 DEF Trailed
  <2> QED BY <1>1, <2>1, <2>2, TrailingType
<1>2. CASE ~(trade # None /\ ev.kind = "option")
  BY <1>2 DEF Trailed, DataOK
<1> QED BY <1>1, <1>2

\* The reasons check_exit gives.
LEMMA ReasonType ==
    ASSUME ExitReason # "hold"
    PROVE  /\ trade # None /\ exit = None
           /\ ExitReason \in {"STOP_LOSS", "TAKE_PROFIT", "TIME_STOP", "END_OF_DAY"}
<1>1. trade # None /\ exit = None /\ ExitReason = CheckExit(Trailed, ev.mid, clock)
  BY DEF ExitReason
<1>2. CheckExit(Trailed, ev.mid, clock) \in {"STOP_LOSS", "TAKE_PROFIT", "TIME_STOP", "END_OF_DAY", "hold"}
  BY DEF CheckExit
<1> QED BY <1>1, <1>2

\* A quote the handler only looks at changes no type.
LEMMA HandleQuoteType ==
    ASSUME DataOK, ev \in Events, HandleQuote
    PROVE  DataOK'
<1>1. trade' \in OpenTrades \cup {None}
  BY TrailedType DEF HandleQuote
<1>2. UNCHANGED <<entry, exit, alloc, budget, orders, posn, lpos>>
  BY DEF HandleQuote
<1>3. PendingEntries' = PendingEntries /\ PendingExits' = PendingExits
  BY <1>2 DEF PendingEntries, PendingExits
<1> QED BY <1>1, <1>2, <1>3 DEF DataOK

\* What _try_exit does to the trade and to the orders.
LEMMA TryExitType ==
    ASSUME DataOK, cfg \in Sessions, ev \in Events, TryExit
    PROVE  /\ DataOK' /\ trade # None /\ trade' # None /\ trade'.reserved = trade.reserved
           /\ orders' = orders \/ \E o \in Orders : o.by = NoOne /\ orders' = Append(orders, o)
<1>1. /\ trade # None /\ exit = None
      /\ ExitReason \in {"STOP_LOSS", "TAKE_PROFIT", "TIME_STOP", "END_OF_DAY"}
  BY ReasonType DEF TryExit
<1>2. trade \in OpenTrades /\ trade' \in OpenTrades /\ trade'.reserved = trade.reserved
  BY <1>1, TrailedType DEF TryExit, DataOK
<1>3. PICK c \in OpenPositions :
         \/ UNCHANGED <<exit, orders, posn, lpos>>
         \/ /\ UNCHANGED exit
            /\ TakeLostOrder("sell", c, trade.qty, ev.mid)
         \/ \E s \in SubmitResults \ {"rejected"} :
              /\ TakeOrder(Placed("sell", c, trade.qty, ev.mid, NoOne, s))
              /\ exit' = [order |-> Len(orders) + 1, contract |-> c,
                          reason |-> ExitReason, before |-> lpos[c].realized]
  BY DEF TryExit
<1>4. UNCHANGED <<entry, alloc, budget>>
  BY DEF TryExit
<1>5. c \in Contracts /\ trade.qty \in Int /\ ev.mid \in Int /\ lpos[c].realized \in Int
  BY <1>2, SetTypes DEF OpenPositions, OpenTrades, DataOK, Books
<1>6. CASE UNCHANGED <<exit, orders, posn, lpos>>
  <2>1. PendingEntries' = PendingEntries /\ PendingExits' = PendingExits
    BY <1>6 DEF PendingEntries, PendingExits
  <2>2. DataOK'
    BY <1>2, <1>4, <1>6, <2>1 DEF DataOK
  <2> QED BY <1>1, <1>2, <1>6, <2>2, TradeIsSome
<1>7. CASE UNCHANGED exit /\ TakeLostOrder("sell", c, trade.qty, ev.mid)
  <2>1. PICK o : o = [Placed("sell", c, trade.qty, ev.mid, NoOne, "open") EXCEPT !.known = "unknown"]
    OBVIOUS
  <2>2. o \in Orders /\ o.by = NoOne
    BY <1>5, <2>1, LostOrderType
  <2>3. TakeOrder(o)
    BY <1>7, <2>1 DEF TakeLostOrder
  <2>4. /\ orders' = Append(orders, o) /\ orders' \in Seq(Orders) /\ posn' \in [Contracts -> Int]
        /\ lpos' \in Books /\ DOMAIN orders \subseteq DOMAIN orders'
    BY <2>2, <2>3, TakeOrderType
  <2>5. PendingEntries \subseteq PendingEntries' /\ PendingExits \subseteq PendingExits'
    BY <2>4, PendingKept
  <2>6. DataOK'
    BY <1>2, <1>4, <1>7, <2>4, <2>5 DEF DataOK
  <2> QED BY <1>1, <1>2, <2>2, <2>4, <2>6, TradeIsSome
<1>8. ASSUME NEW s \in SubmitResults \ {"rejected"},
             TakeOrder(Placed("sell", c, trade.qty, ev.mid, NoOne, s)),
             exit' = [order |-> Len(orders) + 1, contract |-> c,
                      reason |-> ExitReason, before |-> lpos[c].realized]
      PROVE  DataOK' /\ \E o \in Orders : o.by = NoOne /\ orders' = Append(orders, o)
  <2>1. PICK o : o = Placed("sell", c, trade.qty, ev.mid, NoOne, s)
    OBVIOUS
  <2>2. s \in {"open", "filled"} /\ NoOne \in [source : Sources, n : Int]
    BY DEF SubmitResults, NoOne, By, Sources
  <2>3. o \in Orders /\ o.by = NoOne
    BY <1>5, <2>1, <2>2, PlacedType
  <2>4. /\ orders' = Append(orders, o) /\ orders' \in Seq(Orders) /\ posn' \in [Contracts -> Int]
        /\ lpos' \in Books /\ DOMAIN orders' = DOMAIN orders \cup {Len(orders) + 1}
    BY <1>8, <2>1, <2>3, TakeOrderType
  <2>5. PendingEntries \subseteq PendingEntries'
    BY <2>4, PendingKept
  <2>6. exit' \in PendingExits'
    BY <1>1, <1>5, <1>8, <2>4 DEF PendingExits
  <2>7. DataOK'
    BY <1>2, <1>4, <2>4, <2>5, <2>6 DEF DataOK
  <2> QED BY <2>3, <2>4, <2>7
<1> QED BY <1>1, <1>2, <1>3, <1>6, <1>7, <1>8, TradeIsSome

\* What an attempt ends in: nothing, a refusal of the governor, or a reservation
\* of n of the capital for an entry that is submitted next.
Reserves(n) ==
    /\ n \in Int /\ (cfg.live => n > 0) /\ n <= Available(budget)
    /\ alloc' = (IF cfg.live THEN n ELSE 0)
    /\ budget' = (IF cfg.live THEN Reserve(budget, n) ELSE budget)

AttemptEffect ==
    \/ at' = "return" /\ UNCHANGED <<engine, alloc, budget>>
    \/ /\ ~AttemptRefused
       /\ engine' = Walk(engine, <<"SIGNAL_DETECTED", "RISK_CHECK", "WATCHING">>)
       /\ at' = "return" /\ UNCHANGED <<alloc, budget>>
    \/ /\ ~AttemptRefused
       /\ engine' = Walk(engine, <<"SIGNAL_DETECTED", "RISK_CHECK">>)
       /\ at' = "submit"
       /\ \E n \in Int : Reserves(n)
       /\ req'.by = req.by /\ req'.contract = req.contract
       /\ \A f \in {"entry", "qty", "stop", "target"} : req'[f] \in Int
       /\ req'.qty >= 1

\* The option the selector chooses has a price.
LEMMA ChosenInt ==
    ASSUME NEW chain \in Chains, NEW c, NEW b, NEW q \in SelectFromEvents(chain, c, 0, b)
    PROVE  q.ask \in Int
<1> DEFINE valid == {r \in chain : r.contract = c /\ ValidQuote(r, 0, b)}
           nearest == {r \in valid : \A s \in valid : r.dist <= s.dist}
<1>1. SelectFromEvents(chain, c, 0, b) = IF nearest = {} THEN {} ELSE {CHOOSE r \in nearest : TRUE}
  BY Zenon DEF SelectFromEvents
<1>2. PICK r : r \in nearest
  BY <1>1
<1>3. (CHOOSE x \in nearest : TRUE) \in nearest
  BY <1>2, Zenon
<1>4. q \in nearest
  BY <1>1, <1>3
<1>5. q \in chain
  BY <1>4
<1> QED BY <1>5, HandlerAssumption

\* An attempt refuses the entry, or reserves capital for it before it is submitted.
LEMMA AttemptStep ==
    ASSUME DataOK, cfg \in Sessions, clock \in Int, IsHints(req.hints), AttemptEntry
    PROVE  AttemptEffect
<1>1. CASE UNCHANGED <<engine, alloc, budget>> /\ at' = "return"
  BY <1>1 DEF AttemptEffect
<1>2. ASSUME NEW chain \in Chains, NEW lag \in Lags,
             NEW q \in SelectFromEvents(chain, req.contract, 0, cfg.agentLed),
             NEW qty, qty = SizeForEntry(q), NEW cand, cand = Candidate(q, qty),
             NEW reasons, reasons = Evaluate(cand, q, lag),
             ~AttemptRefused, qty >= 1,
             \/ /\ GiveUp /\ UNCHANGED <<engine, alloc, budget>>
             \/ /\ engine' = Walk(engine, <<"SIGNAL_DETECTED", "RISK_CHECK", "WATCHING">>)
                /\ GiveUp /\ UNCHANGED <<alloc, budget>>
             \/ /\ reasons = {}
                /\ engine' = Walk(engine, <<"SIGNAL_DETECTED", "RISK_CHECK">>)
                /\ budget' = IF cfg.live THEN Reserve(budget, q.ask * qty) ELSE budget
                /\ alloc' = IF cfg.live THEN q.ask * qty ELSE 0
                /\ req' = cand
                /\ at' = "submit"
      PROVE  AttemptEffect
  <2>1. q.ask \in Int
    BY ChosenInt
  <2>2. qty \in Int /\ (cfg.live => q.ask > 0)
    <3>1. CASE cfg.live
      <4>1. (EodTick - clock) * 30 \in Int /\ budget \in Budgets
        BY TicksAssumption DEF DataOK
      <4>2. qty = Allocate(budget, q.ask, req.hints, (EodTick - clock) * 30)
        BY <1>2, <3>1 DEF SizeForEntry
      <4> QED BY <1>2, <2>1, <4>1, <4>2, AllocateInt
    <3>2. CASE ~cfg.live
      BY <1>2, <3>2 DEF SizeForEntry
    <3> QED BY <3>1, <3>2
  <2>3. PICK n : n = q.ask * qty
    OBVIOUS
  <2>4. n \in Int /\ (cfg.live => n > 0)
    BY <1>2, <2>1, <2>2, <2>3
  <2>5. CASE GiveUp /\ UNCHANGED <<engine, alloc, budget>>
    BY <2>5 DEF GiveUp, AttemptEffect
  <2>6. CASE /\ engine' = Walk(engine, <<"SIGNAL_DETECTED", "RISK_CHECK", "WATCHING">>)
             /\ GiveUp /\ UNCHANGED <<alloc, budget>>
    BY <1>2, <2>6 DEF GiveUp, AttemptEffect
  <2>7. CASE /\ reasons = {}
             /\ engine' = Walk(engine, <<"SIGNAL_DETECTED", "RISK_CHECK">>)
             /\ budget' = IF cfg.live THEN Reserve(budget, q.ask * qty) ELSE budget
             /\ alloc' = IF cfg.live THEN q.ask * qty ELSE 0
             /\ req' = cand
             /\ at' = "submit"
    <3>1. /\ cand.entry = q.ask /\ cand.qty = qty /\ cand.by = req.by /\ cand.contract = req.contract
          /\ cand.stop = StopFromEntry(q.ask, StopPct) /\ cand.target = TargetFromEntry(q.ask, TargetPct)
      BY <1>2 DEF Candidate
    <3>2. cand.stop \in Int /\ cand.target \in Int
      BY <2>1, <3>1, HandlerAssumption DEF StopFromEntry, TargetFromEntry, Greater
    <3>3. n <= Available(budget)
      <4>1. Available(budget) \in Int
        BY PlanInts DEF Available, Greater, DataOK, Budgets
      <4>2. SUFFICES ASSUME cand.entry * cand.qty > Available(budget) PROVE FALSE
        BY <2>3, <2>4, <3>1, <4>1
      <4>3. "CAPITAL_EXCEEDED" \in {r \in {"CAPITAL_EXCEEDED"} : cand.entry * cand.qty > Available(budget)}
        BY <4>2
      <4>4. "CAPITAL_EXCEEDED" \in reasons
        BY <1>2, <4>3, Zenon DEF Evaluate, RiskReasons
      <4> QED BY <2>7, <4>4
    <3>4. Reserves(n)
      BY <2>3, <2>4, <2>7, <3>3 DEF Reserves
    <3> QED BY <1>2, <2>1, <2>2, <2>4, <2>7, <3>1, <3>2, <3>4 DEF AttemptEffect
  <2> QED BY <1>2, <2>5, <2>6, <2>7
<1>3. ASSUME ~(UNCHANGED <<engine, alloc, budget>> /\ at' = "return")
      PROVE  \E chain \in Chains, lag \in Lags :
               \E q \in SelectFromEvents(chain, req.contract, 0, cfg.agentLed) :
                  LET qty == SizeForEntry(q)
                      cand == Candidate(q, qty)
                      reasons == Evaluate(cand, q, lag)
                  IN  /\ ~AttemptRefused /\ qty >= 1
                      /\ \/ /\ GiveUp /\ UNCHANGED <<engine, alloc, budget>>
                         \/ /\ engine' = Walk(engine, <<"SIGNAL_DETECTED", "RISK_CHECK", "WATCHING">>)
                            /\ GiveUp /\ UNCHANGED <<alloc, budget>>
                         \/ /\ reasons = {}
                            /\ engine' = Walk(engine, <<"SIGNAL_DETECTED", "RISK_CHECK">>)
                            /\ budget' = IF cfg.live THEN Reserve(budget, q.ask * qty) ELSE budget
                            /\ alloc' = IF cfg.live THEN q.ask * qty ELSE 0
                            /\ req' = cand
                            /\ at' = "submit"
  BY <1>3, Zenon DEF AttemptEntry, GiveUp
<1> QED BY <1>1, <1>2, <1>3

\* What a submission ends in: refused, an order and a pending entry, or an
\* exception, with or without an order.
SubmitEffect ==
    \/ /\ engine' = Walk(engine, <<"ENTERING", "WATCHING">>)
       /\ budget' = IF cfg.live THEN Release(budget, alloc, 0) ELSE budget
       /\ alloc' = 0 /\ at' = "return" /\ UNCHANGED <<entry, orders>>
    \/ /\ engine' = Walk(engine, <<"ENTERING", "OPEN_POSITION">>)
       /\ entry' \in PendingEntries' /\ at' = "promote" /\ UNCHANGED <<req, budget, alloc>>
       /\ \E o \in Orders : o.by = req.by /\ orders' = Append(orders, o)
    \/ /\ engine' = Walk(engine, <<"ENTERING">>)
       /\ at' = "raised" /\ UNCHANGED <<req, entry, budget, alloc>>
       /\ orders' = orders \/ \E o \in Orders : o.by = NoOne /\ orders' = Append(orders, o)

\* A submission refuses the entry, leaves it pending at the broker, or raises.
LEMMA SubmitStep ==
    ASSUME DataOK, cfg \in Sessions, SubmitEntry,
           req.contract \in Contracts, req.by \in [source : Sources, n : Int],
           \A f \in {"entry", "qty", "stop", "target"} : req[f] \in Int
    PROVE  DataOK' /\ SubmitEffect
<1>1. UNCHANGED <<trade, exit>>
  BY DEF SubmitEntry
<1>2. /\ req.entry \in Int /\ req.qty \in Int /\ req.stop \in Int /\ req.target \in Int
  OBVIOUS
<1>3. CASE /\ engine' = Walk(engine, <<"ENTERING", "WATCHING">>)
           /\ budget' = IF cfg.live THEN Release(budget, alloc, 0) ELSE budget
           /\ alloc' = 0 /\ GiveUp /\ UNCHANGED <<entry, orders, posn, lpos>>
  <2>1. budget' \in Budgets
    BY <1>3, ReleaseType DEF DataOK
  <2>2. PendingEntries' = PendingEntries /\ PendingExits' = PendingExits
    BY <1>3 DEF PendingEntries, PendingExits
  <2>3. DataOK'
    BY <1>1, <1>3, <2>1, <2>2 DEF DataOK
  <2> QED BY <1>3, <2>3 DEF SubmitEffect, GiveUp
<1>4. ASSUME NEW s \in SubmitResults \ {"rejected"},
             TakeOrder(Placed("buy", req.contract, req.qty, req.entry, req.by, s)),
             engine' = Walk(engine, <<"ENTERING", "OPEN_POSITION">>),
             entry' = [order |-> Len(orders) + 1, contract |-> req.contract, qty |-> req.qty,
                       stop |-> req.stop, target |-> req.target],
             at' = "promote", UNCHANGED <<req, budget, alloc>>
      PROVE  DataOK' /\ SubmitEffect
  <2>1. PICK o : o = Placed("buy", req.contract, req.qty, req.entry, req.by, s)
    OBVIOUS
  <2>2. s \in {"open", "filled"}
    BY DEF SubmitResults
  <2>3. o \in Orders /\ o.by = req.by
    BY <1>2, <2>1, <2>2, PlacedType
  <2>4. /\ orders' = Append(orders, o) /\ orders' \in Seq(Orders) /\ posn' \in [Contracts -> Int]
        /\ lpos' \in Books /\ DOMAIN orders' = DOMAIN orders \cup {Len(orders) + 1}
    BY <1>4, <2>1, <2>3, TakeOrderType
  <2>5. PendingExits \subseteq PendingExits'
    BY <2>4, PendingKept
  <2>6. entry' \in PendingEntries'
    BY <1>2, <1>4, <2>4 DEF PendingEntries
  <2>7. DataOK'
    BY <1>1, <1>4, <2>4, <2>5, <2>6 DEF DataOK
  <2> QED BY <1>4, <2>3, <2>4, <2>6, <2>7 DEF SubmitEffect
<1>5. ASSUME engine' = Walk(engine, <<"ENTERING">>), at' = "raised",
             \/ UNCHANGED <<orders, posn, lpos>>
             \/ TakeLostOrder("buy", req.contract, req.qty, req.entry),
             UNCHANGED <<req, entry, budget, alloc>>
      PROVE  DataOK' /\ SubmitEffect
  <2>1. CASE UNCHANGED <<orders, posn, lpos>>
    <3>1. PendingEntries' = PendingEntries /\ PendingExits' = PendingExits
      BY <2>1 DEF PendingEntries, PendingExits
    <3>2. DataOK'
      BY <1>1, <1>5, <2>1, <3>1 DEF DataOK
    <3> QED BY <1>5, <2>1, <3>2 DEF SubmitEffect
  <2>2. CASE TakeLostOrder("buy", req.contract, req.qty, req.entry)
    <3>1. PICK o : o = [Placed("buy", req.contract, req.qty, req.entry, NoOne, "open")
                          EXCEPT !.known = "unknown"]
      OBVIOUS
    <3>2. o \in Orders /\ o.by = NoOne
      BY <1>2, <3>1, LostOrderType
    <3>3. TakeOrder(o)
      BY <2>2, <3>1 DEF TakeLostOrder
    <3>4. /\ orders' = Append(orders, o) /\ orders' \in Seq(Orders) /\ posn' \in [Contracts -> Int]
          /\ lpos' \in Books /\ DOMAIN orders \subseteq DOMAIN orders'
      BY <3>2, <3>3, TakeOrderType
    <3>5. PendingEntries \subseteq PendingEntries' /\ PendingExits \subseteq PendingExits'
      BY <3>4, PendingKept
    <3>6. DataOK'
      BY <1>1, <1>5, <3>4, <3>5 DEF DataOK
    <3> QED BY <1>5, <3>2, <3>4, <3>6 DEF SubmitEffect
  <2> QED BY <1>5, <2>1, <2>2
<1> QED BY <1>3, <1>4, <1>5 DEF SubmitEntry

\* The broker changes an order, never whose it is.
LEMMA BrokerType ==
    ASSUME DataOK, BrokerStep
    PROVE  /\ DataOK' /\ DOMAIN orders' = DOMAIN orders
           /\ \A k \in DOMAIN orders : orders'[k].by = orders[k].by
<1>1. PICK k \in DOMAIN orders : BrokerFill(k) \/ BrokerPartialFill(k) \/ BrokerDrop(k)
  BY DEF BrokerStep
<1>2. PICK o : o = orders[k] /\ o \in Orders
  BY DEF DataOK
<1>3. o.contract \in Contracts /\ o.qty \in Int /\ o.filled \in Int /\ o.booked \in Int
  BY <1>2 DEF Orders
<1>4. UNCHANGED <<trade, entry, exit, alloc, budget>>
  BY DEF BrokerStep
<1>5. SUFFICES /\ \E x \in Orders : x.by = o.by /\ orders' = [orders EXCEPT ![k] = x]
               /\ posn' \in [Contracts -> Int] /\ lpos' \in Books
  <2>1. PICK x \in Orders : x.by = o.by /\ orders' = [orders EXCEPT ![k] = x]
    BY <1>5
  <2>2. orders \in Seq(Orders)
    BY DEF DataOK
  <2>3. /\ orders' \in Seq(Orders) /\ DOMAIN orders' = DOMAIN orders
        /\ \A j \in DOMAIN orders : orders'[j] = IF j = k THEN x ELSE orders[j]
    BY <2>1, <2>2
  <2>4. PendingEntries' = PendingEntries /\ PendingExits' = PendingExits
    BY <2>3 DEF PendingEntries, PendingExits
  <2>5. DataOK'
    BY <1>4, <1>5, <2>3, <2>4 DEF DataOK
  <2> QED BY <1>2, <2>1, <2>3, <2>5
<1>6. CASE BrokerFill(k)
  <2>1. PICK x : x = [o EXCEPT !.status = "filled", !.filled = o.qty]
    OBVIOUS
  <2>2. x \in Orders /\ x.by = o.by
    BY <1>2, <1>3, <2>1 DEF Orders
  <2>3. orders' = [orders EXCEPT ![k] = x]
    BY <1>2, <1>6, <2>1 DEF BrokerFill
  <2>4. PICK p : p = posn[o.contract] + Signed(o, o.qty - o.filled) /\ p \in Int
    BY <1>3 DEF DataOK, Signed
  <2>5. posn' = [posn EXCEPT ![o.contract] = p] /\ lpos' = lpos
    BY <1>2, <1>6, <2>4 DEF BrokerFill
  <2> QED BY <1>3, <2>2, <2>3, <2>4, <2>5 DEF DataOK
<1>7. CASE BrokerPartialFill(k)
  <2>0. PICK f, b : f = o.filled + 1 /\ b = o.booked + 1 /\ f \in Int /\ b \in Int
    BY <1>3
  <2>1. PICK x : x = [o EXCEPT !.filled = f, !.booked = b, !.known = "partially_filled"]
    OBVIOUS
  <2>2. x \in Orders /\ x.by = o.by
    BY <1>2, <2>0, <2>1 DEF Orders
  <2>3. orders' = [orders EXCEPT ![k] = x]
    BY <1>2, <1>7, <2>0, <2>1 DEF BrokerPartialFill
  <2>4. PICK p : p = posn[o.contract] + Signed(o, 1) /\ p \in Int
    BY <1>3 DEF DataOK, Signed
  <2>5. posn' = [posn EXCEPT ![o.contract] = p] /\ lpos' = Book(lpos, o, 1)
    BY <1>2, <1>7, <2>4 DEF BrokerPartialFill
  <2>6. lpos' \in Books
    BY <1>2, <2>5, BookType DEF DataOK
  <2> QED BY <1>3, <2>2, <2>3, <2>4, <2>5, <2>6 DEF DataOK
<1>8. CASE BrokerDrop(k)
  <2>1. PICK s \in {"cancelled", "rejected"} : orders' = [orders EXCEPT ![k].status = s]
    BY <1>8 DEF BrokerDrop
  <2>2. PICK x : x = [o EXCEPT !.status = s]
    OBVIOUS
  <2>3. x \in Orders /\ x.by = o.by
    BY <1>2, <2>2 DEF Orders
  <2>4. orders' = [orders EXCEPT ![k] = x]
    BY <1>2, <2>1, <2>2
  <2> QED BY <1>8, <2>3, <2>4 DEF BrokerDrop, DataOK
<1> QED BY <1>1, <1>6, <1>7, <1>8

-----------------------------------------------------------------------------
(* The types of the call under way and of the runner                       *)

Steps == {"idle", "entry", "exit", "quote", "again", "booked", "gate", "attempt", "submit",
          "promote", "acted", "return", "raised"}
Phases == {"auth", "options", "warmup", "premarket", "loop", "report", "returned"}
Stages == {"poll", "spy", "options", "agents", "deciding", "council", "replay", "finish"}

\* A request that may be attempted, and an entry that may be submitted.
MayAttempt(r) ==
    r.contract \in Contracts /\ r.by \in [source : Sources, n : Int] /\ IsHints(r.hints)
MaySubmit(r) ==
    /\ r.contract \in Contracts /\ r.by \in [source : Sources, n : Int]
    /\ \A f \in {"entry", "qty", "stop", "target"} : r[f] \in Int

Remembered(p) ==
    p.dir \in Contracts /\ IsHints(p.hints) /\ p.born \in Int /\ p.n \in Int

CallOK ==
    /\ cfg \in Sessions /\ at \in Steps /\ enabled \subseteq Setups
    /\ ev \in Events /\ quotes \in Seq(Events)
    /\ at = "attempt" => MayAttempt(req)
    /\ at = "submit" => MaySubmit(req)
    /\ proposal # None => Remembered(proposal)
    /\ clock \in Int /\ calls \in Int
    /\ phase \in Phases /\ stage \in Stages

\* The absence of hints is a record of hints.
LEMMA NoHintsType == IsHints(NoHints)
  BY DEF IsHints, NoHints

\* The decision that confirms a proposal has its direction and its number.
LEMMA ConfirmedHints ==
    ASSUME NEW p, Remembered(p), NEW d, IsHints(d.hints)
    PROVE  /\ IsHints(DecisionFromPending(p, d).hints)
           /\ DecisionFromPending(p, d).dir = p.dir /\ DecisionFromPending(p, d).n = p.n
<1>1. PICK g, h : g = d.hints /\ h = p.hints /\ IsHints(g) /\ IsHints(h)
  BY DEF Remembered
<1>2. PICK c : c = (IF g.confidence # 0 THEN g.confidence ELSE h.confidence) /\ c \in Int
  BY <1>1 DEF IsHints
<1>3. PICK a1, a2, a3, a4, a5 :
        /\ a1 = Prefer(g.fraction, h.fraction) /\ a2 = Prefer(g.target, h.target)
        /\ a3 = Prefer(g.winProb, h.winProb) /\ a4 = Prefer(g.expectedR, h.expectedR)
        /\ a5 = Prefer(g.ev, h.ev)
  OBVIOUS
<1>4. \A a \in {a1, a2, a3, a4, a5} : a \subseteq Int /\ \A x, y \in a : x = y
  BY <1>1, <1>3 DEF Prefer, IsHints
<1>5. DecisionFromPending(p, d) =
        [action |-> "confirm", dir |-> p.dir, setup |-> p.setup, n |-> p.n,
         hints |-> [fraction |-> a1, target |-> a2, confidence |-> c, style |-> g.style,
                    winProb |-> a3, expectedR |-> a4, ev |-> a5]]
  BY <1>1, <1>2, <1>3, Zenon DEF DecisionFromPending
<1> QED BY <1>2, <1>4, <1>5 DEF IsHints

\* The request of a decision is one the handler may attempt.
LEMMA DecidedType ==
    ASSUME NEW d, d.dir \in Contracts, IsHints(d.hints), d.n \in Int
    PROVE  MayAttempt(DecidedRequest(d)) /\ DecidedRequest(d).by = By("agent_decision", d.n)
<1>1. PICK setup : DecidedRequest(d) = Request(setup, IF setup \in Setups THEN DirOf[setup] ELSE d.dir,
                                               By("agent_decision", d.n), d.hints)
  BY Zenon DEF DecidedRequest
<1>2. (IF setup \in Setups THEN DirOf[setup] ELSE d.dir) \in Contracts
  BY HandlerAssumption
<1>3. By("agent_decision", d.n) \in [source : Sources, n : Int]
  BY DEF By, Sources
<1> QED BY <1>1, <1>2, <1>3 DEF Request, MayAttempt

\* The proposal that is held is the remembered one and has not expired.
LEMMA HeldType ==
    ASSUME CallOK
    PROVE  Held # None => Held = proposal /\ Remembered(proposal) /\ ConfirmGate(proposal, clock, FALSE, 0) # "expired"
  BY DEF Held, CallOK

\* What the runner leaves to the handler.
handlerData == <<engine, trade, entry, exit, alloc, budget, orders, posn, lpos>>

\* The runner changes none of the handler's data.
LEMMA RunnerKeeps ==
    ASSUME Authenticate \/ OpenOptions \/ WarmUp \/ Loop \/ Replay \/ LoopEnds \/ Report
           \/ Finished \/ UNCHANGED vars
    PROVE  UNCHANGED handlerData /\ cfg' = cfg
<1>1. CASE Authenticate \/ OpenOptions \/ WarmUp \/ LoopEnds \/ Report \/ Finished \/ UNCHANGED vars
  BY <1>1 DEF Authenticate, OpenOptions, WarmUp, LoopEnds, Report, Finished, vars, handlerVars,
              keepHandler, handlerData
<1>2. CASE Replay
  BY <1>2 DEF Replay, ReplayEvent, AfterReplayEvent, ReplayFinish, keepHandler, handlerData
<1>3. CASE PollFails \/ PollQuote \/ AfterSpyEvent \/ SessionFails \/ NextQuote \/ QuotesDone
  BY <1>3 DEF PollFails, PollQuote, AfterSpyEvent, SessionFails, NextQuote, QuotesDone,
              keepHandler, handlerData
<1>4. CASE SkipAgents \/ DecisionFails \/ DecideOnly \/ Confirm
  BY <1>4 DEF SkipAgents, DecisionFails, DecideOnly, Confirm, handlerVars, handlerData
<1>5. CASE AfterDecision \/ Council \/ AfterCouncil
  BY <1>5 DEF AfterDecision, Council, AfterCouncil, keepHandler, handlerData
<1> QED BY <1>1, <1>2, <1>3, <1>4, <1>5 DEF Loop

\* CapitalBudget.reserve adds to the reservation and counts a position.
LEMMA ReserveType ==
    ASSUME NEW b \in Budgets, NEW n \in Int
    PROVE  /\ Reserve(b, n) \in Budgets
           /\ Reserve(b, n).reserved = b.reserved + n /\ Reserve(b, n).open = b.open + 1
<1>1. PICK x, y : x = b.reserved + n /\ y = b.open + 1 /\ x \in Int /\ y \in Int
  BY DEF Budgets
<1>2. Reserve(b, n) = [b EXCEPT !.reserved = x, !.open = y]
  BY <1>1 DEF Reserve
<1> QED BY <1>1, <1>2 DEF Budgets

\* A step is the runner's, a part of the handler's call, or the broker's.
RunnerStep ==
    Authenticate \/ OpenOptions \/ WarmUp \/ Loop \/ Replay \/ LoopEnds \/ Report
    \/ Finished \/ UNCHANGED vars

\* A step is the runner's, the premarket's, the handler's or the broker's.
LEMMA NextCases ==
    ASSUME [Next]_vars
    PROVE  \/ RunnerStep \/ Premarket
           \/ HandlerStep /\ UNCHANGED runnerVars
           \/ BrokerStep /\ UNCHANGED runnerVars
  BY DEF Next, RunnerStep

\* The types of the data survive a step that leaves the data alone.
LEMMA SameData == ASSUME DataOK, UNCHANGED handlerData PROVE DataOK'
<1>1. UNCHANGED <<trade, entry, exit, alloc, budget, orders, posn, lpos>>
  BY DEF handlerData
<1>2. PendingEntries' = PendingEntries /\ PendingExits' = PendingExits
  BY <1>1 DEF PendingEntries, PendingExits
<1> QED BY <1>1, <1>2 DEF DataOK

\* Every step keeps the types of the data.
LEMMA DataStep == ASSUME CallOK, DataOK, [Next]_vars PROVE DataOK'
<1>1. CASE RunnerStep \/ Premarket
  <2>1. UNCHANGED <<trade, entry, exit, alloc, budget, orders, posn, lpos>>
    BY <1>1, RunnerKeeps DEF RunnerStep, Premarket, handlerData
  <2>2. PendingEntries' = PendingEntries /\ PendingExits' = PendingExits
    BY <2>1 DEF PendingEntries, PendingExits
  <2> QED BY <2>1, <2>2 DEF DataOK
<1>2. CASE BrokerStep
  BY <1>2, BrokerType
<1>3. CASE HandlerStep
  <2>1. CASE HandleEntry
    BY <2>1, ReconcileEntryType DEF HandleEntry, CallOK
  <2>2. CASE HandleExit
    BY <2>2, ReconcileExitType DEF HandleExit
  <2>3. CASE HandleQuote
    BY <2>3, HandleQuoteType DEF CallOK
  <2>4. CASE HandleExitAgain
    BY <2>4, ReconcileExitType DEF HandleExitAgain
  <2>5. CASE TryExit
    BY <2>5, TryExitType DEF CallOK
  <2>6. CASE HandleGate
    BY <2>6, SameData DEF HandleGate, handlerData
  <2>7. CASE AttemptEntry
    <3>1. AttemptEffect
      BY <2>7, AttemptStep DEF CallOK, AttemptEntry, MayAttempt
    <3>2. UNCHANGED <<trade, entry, exit, orders, posn, lpos>>
      BY <2>7 DEF AttemptEntry
    <3>3. alloc' \in Int /\ budget' \in Budgets
      <4>1. CASE UNCHANGED <<alloc, budget>>
        BY <4>1 DEF DataOK
      <4>2. ASSUME NEW n \in Int, Reserves(n) PROVE alloc' \in Int /\ budget' \in Budgets
        <5>1. Reserve(budget, n) \in Budgets
          BY ReserveType DEF DataOK
        <5> QED BY <4>2, <5>1 DEF Reserves, DataOK
      <4> QED BY <3>1, <4>1, <4>2 DEF AttemptEffect
    <3>4. PendingEntries' = PendingEntries /\ PendingExits' = PendingExits
      BY <3>2 DEF PendingEntries, PendingExits
    <3> QED BY <3>2, <3>3, <3>4 DEF DataOK
  <2>8. CASE SubmitEntry
    <3>1. MaySubmit(req)
      BY <2>8 DEF CallOK, SubmitEntry
    <3>2. /\ req.contract \in Contracts /\ req.by \in [source : Sources, n : Int]
          /\ \A f \in {"entry", "qty", "stop", "target"} : req[f] \in Int
      BY <3>1 DEF MaySubmit
    <3> QED BY <2>8, <3>2, SubmitStep DEF CallOK
  <2>9. CASE PromoteEntry
    BY <2>9, ReconcileEntryType DEF PromoteEntry, CallOK
  <2> QED BY <1>3, <2>1, <2>2, <2>3, <2>4, <2>5, <2>6, <2>7, <2>8, <2>9 DEF HandlerStep
<1> QED BY <1>1, <1>2, <1>3, NextCases

\* A call of the handler keeps what the runner gave it.
LEMMA HandlerCall ==
    ASSUME CallOK, DataOK, HandlerStep, UNCHANGED runnerVars
    PROVE  CallOK'
<1>1. /\ UNCHANGED <<cfg, enabled, ev, clock, phase, stage, quotes, proposal, calls>>
      /\ at' \in Steps /\ (at' = "attempt" => HandleGate) /\ (at' = "submit" => AttemptEntry)
  <2>1. CASE HandleEntry \/ HandleExit \/ HandleExitAgain \/ PromoteEntry
    BY <2>1 DEF HandleEntry, HandleExit, HandleExitAgain, PromoteEntry, Steps, runnerVars
  <2>2. CASE HandleQuote \/ TryExit
    BY <2>2 DEF HandleQuote, TryExit, Steps, runnerVars
  <2>3. CASE HandleGate
    BY <2>3 DEF HandleGate, Steps, runnerVars
  <2>4. CASE AttemptEntry
    BY <2>4 DEF AttemptEntry, Steps, runnerVars, GiveUp
  <2>5. CASE SubmitEntry
    BY <2>5 DEF SubmitEntry, Steps, runnerVars, GiveUp
  <2> QED BY <2>1, <2>2, <2>3, <2>4, <2>5 DEF HandlerStep
<1>2. at' = "attempt" => MayAttempt(req')
  <2>1. SUFFICES ASSUME at' = "attempt" PROVE MayAttempt(req')
    OBVIOUS
  <2>2. PICK s \in enabled \ signaled : req' = Request(s, DirOf[s], By("structured_signal", 0), NoHints)
    BY <1>1, <2>1 DEF HandleGate
  <2>3. DirOf[s] \in Contracts
    BY HandlerAssumption DEF CallOK
  <2>4. By("structured_signal", 0) \in [source : Sources, n : Int]
    BY DEF By, Sources
  <2> QED BY <2>2, <2>3, <2>4, NoHintsType DEF Request, MayAttempt
<1>3. at' = "submit" => MaySubmit(req')
  <2>1. SUFFICES ASSUME at' = "submit" PROVE MaySubmit(req')
    OBVIOUS
  <2>2. AttemptEntry /\ at = "attempt" /\ MayAttempt(req)
    BY <1>1, <2>1 DEF AttemptEntry, CallOK
  <2>3. AttemptEffect
    BY <2>2, AttemptStep DEF CallOK, MayAttempt
  <2>4. /\ req'.by = req.by /\ req'.contract = req.contract
        /\ \A f \in {"entry", "qty", "stop", "target"} : req'[f] \in Int
    BY <2>1, <2>3 DEF AttemptEffect
  <2> QED BY <2>2, <2>4 DEF MayAttempt, MaySubmit
<1> QED BY <1>1, <1>2, <1>3 DEF CallOK, MayAttempt, MaySubmit, Remembered, Events

\* The calls the runner makes of the handler.
LEMMA RunnerCall == ASSUME CallOK, RunnerStep \/ Premarket PROVE CallOK'
<1> USE DEF CallOK
<1>1. CASE Authenticate \/ OpenOptions \/ WarmUp \/ Report \/ Finished \/ UNCHANGED vars
  BY <1>1 DEF Authenticate, OpenOptions, WarmUp, Report, Finished, Returned, vars, handlerVars,
              runnerVars, Phases
<1>2. CASE Premarket
  <2>1. cfg' = cfg \/ cfg' = [cfg EXCEPT !.armed = TRUE]
    BY <1>2 DEF Premarket
  <2>2. cfg' \in Sessions
    BY <2>1 DEF Sessions
  <2>3. phase' \in Phases
    BY <1>2 DEF Premarket, Phases
  <2> QED BY <1>2, <2>2, <2>3 DEF Premarket
<1>3. CASE PollFails \/ PollQuote \/ AfterSpyEvent \/ SessionFails \/ QuotesDone
  <2>1. CASE PollFails
    BY <2>1 DEF PollFails, runnerVars
  <2>2. CASE PollQuote
    BY <2>2, SetTypes DEF PollQuote, Steps, Stages
  <2>3. CASE AfterSpyEvent
    <3>1. quotes' \in Seq(Events)
      <4>1. CASE quotes' = quotes
        BY <4>1
      <4>2. CASE quotes' \in {[i \in DOMAIN ContractSeq |-> OptionQuote(ContractSeq[i], mids[i])] :
                                 mids \in [DOMAIN ContractSeq -> Premiums]}
        <5>1. PICK mids \in [DOMAIN ContractSeq -> Premiums] :
                quotes' = [i \in DOMAIN ContractSeq |-> OptionQuote(ContractSeq[i], mids[i])]
          BY <4>2
        <5>2. ContractSeq \in Seq(Contracts)
          BY SessionAssumption
        <5>3. ASSUME NEW i \in DOMAIN ContractSeq PROVE OptionQuote(ContractSeq[i], mids[i]) \in Events
          BY <5>2, SetTypes
        <5>4. DOMAIN ContractSeq = 1 .. Len(ContractSeq) /\ Len(ContractSeq) \in Nat
          BY <5>2
        <5> QED BY <5>1, <5>3, <5>4
      <4> QED BY <2>3, <4>1, <4>2 DEF AfterSpyEvent
    <3> QED BY <2>3, <3>1 DEF AfterSpyEvent, Idle, Steps, Stages, keepHandler
  <2>4. CASE SessionFails
    BY <2>4 DEF SessionFails, Idle, Steps, Phases, keepHandler, Remembered
  <2>5. CASE QuotesDone
    <3>1. quotes' \in Seq(Events)
      BY <2>5 DEF QuotesDone
    <3> QED BY <2>5, <3>1 DEF QuotesDone, Idle, Steps, Stages, keepHandler, Remembered
  <2> QED BY <1>3, <2>1, <2>2, <2>3, <2>4, <2>5
<1>4. CASE NextQuote
  <2>1. Head(quotes) \in Events /\ Tail(quotes) \in Seq(Events)
    BY <1>4 DEF NextQuote
  <2> QED BY <1>4, <2>1 DEF NextQuote, Steps
<1>5. CASE SkipAgents \/ DecisionFails
  BY <1>5, HeldType DEF SkipAgents, DecisionFails, handlerVars, Stages, Remembered
<1>6. CASE DecideOnly
  <2>1. PICK d \in Decisions, mid \in Premiums :
          /\ ApplyPatch(d)
          /\ proposal' \in {Held, None, PendingFrom(d, mid, clock, calls + 1)}
    BY <1>6 DEF DecideOnly
  <2>2. enabled' \subseteq Setups
    <3>1. enabled' = enabled \/ enabled' \in d.patch
      BY <2>1, Zenon DEF ApplyPatch
    <3> QED BY <3>1, SessionAssumption
  <2>3. Remembered(PendingFrom(d, mid, clock, calls + 1))
    BY SessionAssumption DEF PendingFrom, Remembered
  <2>4. proposal' # None => Remembered(proposal')
    BY <2>1, <2>3, HeldType
  <2>5. UNCHANGED <<cfg, at, ev, req, clock, quotes, phase>> /\ calls' = calls + 1 /\ stage' = "poll"
    BY <1>6 DEF DecideOnly
  <2> QED BY <2>2, <2>4, <2>5 DEF Stages, Remembered
<1>7. CASE Confirm
  <2>1. PICK d \in Decisions, mid \in Premiums, drifted \in BOOLEAN, late \in {0, 1} :
         LET gate == IF Held = None THEN "ok" ELSE ConfirmGate(Held, clock + late, drifted, mid)
             pd == IF Held = None
                   THEN [dir |-> d.dir, setup |-> d.setup, n |-> calls + 1, hints |-> d.hints]
                   ELSE DecisionFromPending(Held, d)
             allowed == gate = "ok" /\ EvEntryAllowed(pd) /\ pd.hints.confidence >= MinConfidence
         IN  /\ ApplyPatch(d)
             /\ proposal' = IF gate = "expired" THEN None ELSE Held
             /\ \/ allowed /\ at' = "attempt" /\ req' = DecidedRequest(pd) /\ stage' = "deciding"
                \/ ~allowed /\ stage' = "poll" /\ UNCHANGED <<at, req>>
    BY <1>7, ZenonT(30) DEF Confirm
  <2>2. PICK pd : pd = IF Held = None
                       THEN [dir |-> d.dir, setup |-> d.setup, n |-> calls + 1, hints |-> d.hints]
                       ELSE DecisionFromPending(Held, d)
    OBVIOUS
  <2>3. /\ ApplyPatch(d) /\ proposal' \in {Held, None}
        /\ \/ at' = "attempt" /\ req' = DecidedRequest(pd) /\ stage' = "deciding"
           \/ stage' = "poll" /\ UNCHANGED <<at, req>>
    BY <2>1, <2>2
  <2>4. pd.dir \in Contracts /\ IsHints(pd.hints) /\ pd.n \in Int
    <3>1. CASE Held = None
      BY <2>2, <3>1, SessionAssumption
    <3>2. CASE Held # None
      <4>1. Remembered(Held) /\ IsHints(d.hints)
        BY <3>2, HeldType, SessionAssumption
      <4>2. Held.dir \in Contracts /\ Held.n \in Int
        BY <4>1 DEF Remembered
      <4> QED BY <2>2, <3>2, <4>1, <4>2, ConfirmedHints
    <3> QED BY <3>1, <3>2
  <2>5. MayAttempt(DecidedRequest(pd))
    BY <2>4, DecidedType
  <2>6. enabled' \subseteq Setups
    <3>1. enabled' = enabled \/ enabled' \in d.patch
      BY <2>3, Zenon DEF ApplyPatch
    <3> QED BY <3>1, SessionAssumption
  <2>7. proposal' # None => Remembered(proposal')
    BY <2>3, HeldType
  <2>8. UNCHANGED <<cfg, ev, clock, quotes, phase>> /\ calls' = calls + 1
    BY <1>7 DEF Confirm
  <2>9. CASE at' = "attempt" /\ req' = DecidedRequest(pd) /\ stage' = "deciding"
    BY <2>5, <2>6, <2>7, <2>8, <2>9 DEF Steps, Stages, Remembered, MayAttempt
  <2>10. CASE stage' = "poll" /\ UNCHANGED <<at, req>>
    BY <2>6, <2>7, <2>8, <2>10 DEF Stages, Remembered
  <2> QED BY <2>3, <2>9, <2>10
<1>8. CASE AfterDecision \/ AfterCouncil \/ AfterReplayEvent
  BY <1>8 DEF AfterDecision, AfterCouncil, AfterReplayEvent, Idle, Steps, Stages, keepHandler, Remembered
<1>9. CASE Council
  <2>1. /\ UNCHANGED <<cfg, ev, clock, phase, quotes, proposal>>
        /\ calls' \in {calls, calls + 1} /\ enabled' \in {enabled} \cup Patches
    BY <1>9 DEF Council
  <2>2. \/ stage' = "poll" /\ UNCHANGED <<at, req>>
        \/ \E p \in Proposals :
             /\ at' = "attempt" /\ stage' = "council"
             /\ req' = Request(p.setup, p.dir, By("agent_proposal", calls + 1), NoHints)
    BY <1>9 DEF Council
  <2>3. enabled' \subseteq Setups
    BY <2>1, SessionAssumption
  <2>4. CASE stage' = "poll" /\ UNCHANGED <<at, req>>
    BY <2>1, <2>3, <2>4 DEF Stages, Remembered
  <2>5. ASSUME NEW p \in Proposals, at' = "attempt", stage' = "council",
               req' = Request(p.setup, p.dir, By("agent_proposal", calls + 1), NoHints)
        PROVE  CallOK'
    <3>1. p.dir \in Contracts
      BY SessionAssumption
    <3>2. By("agent_proposal", calls + 1) \in [source : Sources, n : Int]
      BY DEF By, Sources
    <3>3. MayAttempt(req')
      BY <2>5, <3>1, <3>2, NoHintsType DEF Request, MayAttempt
    <3> QED BY <2>1, <2>3, <2>5, <3>3 DEF Steps, Stages, Remembered, MayAttempt
  <2> QED BY <2>2, <2>4, <2>5
<1>10. CASE ReplayEvent
  <2>1. ev' \in Events
    BY <1>10, SetTypes DEF ReplayEvent
  <2>2. quotes' \in Seq(Events)
    BY <1>10, <2>1 DEF ReplayEvent
  <2> QED BY <1>10, <2>1, <2>2 DEF ReplayEvent, Steps, Stages
<1>11. CASE ReplayFinish
  <2>1. Head(quotes) \in Events
    BY <1>11 DEF ReplayFinish
  <2> QED BY <1>11, <2>1 DEF ReplayFinish, Steps, Stages
<1>12. CASE LoopEnds
  BY <1>12 DEF LoopEnds, Idle, Steps, Phases, keepHandler
<1> QED BY <1>1, <1>2, <1>3, <1>4, <1>5, <1>6, <1>7, <1>8, <1>9, <1>10, <1>11, <1>12
        DEF RunnerStep, Loop, Replay

\* Every step keeps what is known of the call under way.
LEMMA CallStep == ASSUME CallOK, DataOK, [Next]_vars PROVE CallOK'
<1>1. CASE BrokerStep /\ UNCHANGED runnerVars
  BY <1>1 DEF BrokerStep, runnerVars, CallOK, MayAttempt, MaySubmit, Remembered
<1> QED BY <1>1, NextCases, RunnerCall, HandlerCall

-----------------------------------------------------------------------------
(* The engine agrees with the handler                                      *)

\* The paths the handler walks in the engine's table.
LEMMA Walks ==
    /\ Walk("IDLE", <<"WATCHING">>) = "WATCHING"
    /\ Walk("WATCHING", <<"SIGNAL_DETECTED", "RISK_CHECK", "WATCHING">>) = "WATCHING"
    /\ Walk("WATCHING", <<"SIGNAL_DETECTED", "RISK_CHECK">>) = "RISK_CHECK"
    /\ Walk("RISK_CHECK", <<"ENTERING", "WATCHING">>) = "WATCHING"
    /\ Walk("RISK_CHECK", <<"ENTERING", "OPEN_POSITION">>) = "OPEN_POSITION"
    /\ Walk("RISK_CHECK", <<"ENTERING">>) = "ENTERING"
    /\ Walk("OPEN_POSITION", <<"MANAGING_EXIT">>) = "MANAGING_EXIT"
    /\ Walk("MANAGING_EXIT", <<"EXITED", "COOLDOWN", "WATCHING">>) = "WATCHING"
<1>1. Walk("IDLE", <<"WATCHING">>) = "WATCHING"
  BY DEF Walk, ValidTransitions
<1>2. Walk("WATCHING", <<"SIGNAL_DETECTED", "RISK_CHECK", "WATCHING">>) = "WATCHING"
  BY DEF Walk, ValidTransitions
<1>3. Walk("WATCHING", <<"SIGNAL_DETECTED", "RISK_CHECK">>) = "RISK_CHECK"
  BY DEF Walk, ValidTransitions
<1>4. Walk("RISK_CHECK", <<"ENTERING", "WATCHING">>) = "WATCHING"
  BY DEF Walk, ValidTransitions
<1>5. Walk("RISK_CHECK", <<"ENTERING", "OPEN_POSITION">>) = "OPEN_POSITION"
  BY DEF Walk, ValidTransitions
<1>6. Walk("RISK_CHECK", <<"ENTERING">>) = "ENTERING"
  BY DEF Walk, ValidTransitions
<1>7. Walk("OPEN_POSITION", <<"MANAGING_EXIT">>) = "MANAGING_EXIT"
  BY DEF Walk, ValidTransitions
<1>8. Walk("MANAGING_EXIT", <<"EXITED", "COOLDOWN", "WATCHING">>) = "WATCHING"
  BY DEF Walk, ValidTransitions
<1> QED BY <1>1, <1>2, <1>3, <1>4, <1>5, <1>6, <1>7, <1>8

\* What _reconcile_pending_entry does: nothing, the entry is gone, or it is the
\* open trade and the trade holds its capital.
EntryEffect ==
    \/ UNCHANGED <<engine, trade, entry, alloc, budget>>
    \/ /\ engine = "OPEN_POSITION" /\ trade = None /\ entry' = None /\ alloc' = 0
       /\ \/ /\ engine' = "WATCHING" /\ trade' = None
             /\ budget' = IF alloc # 0 THEN Release(budget, alloc, 0) ELSE budget
          \/ /\ engine' = "MANAGING_EXIT" /\ trade' # None /\ budget' = budget
             /\ alloc # 0 => trade'.reserved = alloc

\* Reconciling the entry moves the engine with the trade and the entry.
LEMMA EntryStep ==
    ASSUME DataOK, EngineInv, clock \in Int, ReconcilePendingEntry
    PROVE  EntryEffect
<1>1. CASE UNCHANGED <<trade, entry, alloc, budget, engine, orders, lpos>>
  BY <1>1 DEF EntryEffect
<1>2. ASSUME entry # None, trade = None,
             \/ EntryGone
             \/ \E q \in Int, p \in Int : AttachOpenTrade(q, p)
             \/ UNCHANGED <<trade, entry, alloc, budget, engine>>
      PROVE  EntryEffect
  <2>1. engine = "OPEN_POSITION" /\ entry \in PendingEntries
    BY <1>2 DEF EngineInv, DataOK
  <2>2. CASE EntryGone
    BY <1>2, <2>1, <2>2 DEF EntryGone, EntryEffect
  <2>3. ASSUME NEW q \in Int, NEW p \in Int, AttachOpenTrade(q, p) PROVE EntryEffect
    <3>1. /\ trade' \in OpenTrades /\ entry' = None /\ alloc' = 0 /\ budget' = budget
          /\ alloc # 0 => trade'.reserved = alloc
      BY <2>1, <2>3, AttachType
    <3>2. engine' = "MANAGING_EXIT"
      BY <2>1, <2>3, Walks DEF AttachOpenTrade
    <3> QED BY <1>2, <2>1, <3>1, <3>2, TradeIsSome DEF EntryEffect
  <2>4. CASE UNCHANGED <<trade, entry, alloc, budget, engine>>
    BY <2>4 DEF EntryEffect
  <2> QED BY <1>2, <2>2, <2>3, <2>4
<1>3. CASE entry # None /\ trade = None /\ cfg.live /\ ReconcileEntryLedger
  <2>1. PICK k, o, l : /\ k = entry.order /\ o = Polled(orders[k])
                       /\ l = Book(lpos, orders[k], o.booked - orders[k].booked)
    OBVIOUS
  <2>2. k \in DOMAIN orders /\ entry.contract \in Contracts
    BY <1>3, <2>1 DEF DataOK, PendingEntries
  <2>3. l \in Books
    BY <2>1, <2>2, PollBooks
  <2>4. l[entry.contract].qty \in Int /\ l[entry.contract].avg \in Int
    BY <2>2, <2>3 DEF Books
  <2>5. \/ EntryGone
        \/ AttachOpenTrade(l[entry.contract].qty, l[entry.contract].avg)
        \/ UNCHANGED <<trade, entry, alloc, budget, engine>>
    BY <1>3, <2>1 DEF ReconcileEntryLedger
  <2> QED BY <1>2, <1>3, <2>4, <2>5
<1>4. CASE entry # None /\ trade = None /\ ReconcileEntryBroker
  <2>1. entry.qty \in Int /\ entry.order \in DOMAIN orders
    BY <1>4 DEF DataOK, PendingEntries
  <2>2. orders[entry.order] \in Orders
    BY <2>1 DEF DataOK
  <2>3. orders[entry.order].price \in Int
    BY <2>2 DEF Orders
  <2> QED BY <1>2, <1>4, <2>1, <2>3 DEF ReconcileEntryBroker
<1> QED BY <1>1, <1>3, <1>4 DEF ReconcilePendingEntry

\* The runner's steps keep engine, trade and entry in agreement.
LEMMA EngineRunner == ASSUME EngineInv, RunnerStep PROVE EngineInv'
<1>1. UNCHANGED <<engine, trade, entry>>
  BY RunnerKeeps DEF RunnerStep, handlerData
<1>2. SUFFICES /\ phase' \in Before => phase \in Before /\ stage' = "poll"
               /\ stage' \in {"poll", "agents"} => at' = "idle"
               /\ at' = "submit" <=> at = "submit"
  BY <1>1, <1>2 DEF EngineInv
<1>3. CASE Authenticate \/ OpenOptions \/ WarmUp \/ Report \/ Finished \/ UNCHANGED vars
  BY <1>3 DEF Authenticate, OpenOptions, WarmUp, Report, Finished, Returned, vars, handlerVars,
              runnerVars, EngineInv, Before
<1>4. CASE PollFails \/ PollQuote \/ ReplayEvent \/ ReplayFinish
  BY <1>4 DEF PollFails, PollQuote, ReplayEvent, ReplayFinish, EngineInv, Before, runnerVars
<1>5. CASE AfterSpyEvent \/ SessionFails \/ NextQuote \/ QuotesDone
  BY <1>5 DEF AfterSpyEvent, SessionFails, NextQuote, QuotesDone, Idle, HandlerDone, keepHandler,
              EngineInv, Before
<1>6. CASE SkipAgents \/ DecisionFails \/ DecideOnly
  BY <1>6 DEF SkipAgents, DecisionFails, DecideOnly, MayDecide, handlerVars, EngineInv, Before
<1>7. CASE Confirm
  <2>1. /\ stage = "agents" /\ phase' = phase
        /\ \/ at' = "attempt" /\ stage' = "deciding"
           \/ at' = at /\ stage' = "poll"
    BY <1>7 DEF Confirm, MayDecide
  <2> QED BY <2>1 DEF EngineInv, Before
<1>8. CASE Council
  <2>1. /\ stage = "agents" /\ phase' = phase
        /\ \/ at' = "attempt" /\ stage' = "council"
           \/ at' = at /\ stage' = "poll"
    BY <1>8 DEF Council, MayConvene
  <2> QED BY <2>1 DEF EngineInv, Before
<1>9. CASE AfterDecision \/ AfterCouncil \/ AfterReplayEvent \/ LoopEnds
  BY <1>9 DEF AfterDecision, AfterCouncil, AfterReplayEvent, LoopEnds, Idle, HandlerDone, keepHandler,
              EngineInv, Before
<1> QED BY <1>3, <1>4, <1>5, <1>6, <1>7, <1>8, <1>9 DEF RunnerStep, Loop, Replay

\* A step of the handler's call, by what it does to engine, trade and capital.
CallEffect ==
    \/ at # "submit" /\ at' # "submit" /\ EntryEffect
    \/ at # "submit" /\ at' # "submit" /\ UNCHANGED <<entry, alloc>> /\ ExitEffect
    \/ /\ at # "submit" /\ at' # "submit" /\ UNCHANGED <<engine, entry, alloc, budget>>
       /\ (trade' = None <=> trade = None) /\ (trade # None => trade'.reserved = trade.reserved)
    \/ at = "attempt" /\ UNCHANGED <<trade, entry>> /\ AttemptEffect
    \/ at = "submit" /\ UNCHANGED trade /\ SubmitEffect

\* Every step of a call has one of the effects on the engine listed above.
LEMMA HandlerEffect ==
    ASSUME CallOK, DataOK, EngineInv, HandlerStep
    PROVE  CallEffect
<1>1. CASE HandleEntry \/ PromoteEntry
  <2>1. EntryEffect
    BY <1>1, EntryStep DEF HandleEntry, PromoteEntry, CallOK
  <2> QED BY <1>1, <2>1 DEF HandleEntry, PromoteEntry, CallEffect
<1>2. CASE HandleExit \/ HandleExitAgain
  <2>1. ExitEffect
    BY <1>2, ReconcileExitType DEF HandleExit, HandleExitAgain
  <2> QED BY <1>2, <2>1 DEF HandleExit, HandleExitAgain, CallEffect
<1>3. CASE HandleQuote
  <2>1. (trade' = None <=> trade = None) /\ (trade # None => trade'.reserved = trade.reserved)
    BY <1>3, TrailedType, TradeIsSome DEF HandleQuote, CallOK
  <2> QED BY <1>3, <2>1 DEF HandleQuote, CallEffect
<1>4. CASE TryExit
  <2>1. trade # None /\ trade' # None /\ trade'.reserved = trade.reserved
    BY <1>4, TryExitType DEF CallOK
  <2>2. UNCHANGED <<engine, entry, alloc, budget>> /\ at = "quote" /\ at' \in {"gate", "booked"}
    BY <1>4 DEF TryExit
  <2> QED BY <2>1, <2>2 DEF CallEffect
<1>5. CASE HandleGate
  BY <1>5 DEF HandleGate, CallEffect
<1>6. CASE AttemptEntry
  <2>1. at = "attempt" /\ UNCHANGED <<trade, entry>>
    BY <1>6 DEF AttemptEntry
  <2>2. AttemptEffect
    BY <1>6, <2>1, AttemptStep DEF CallOK, MayAttempt
  <2> QED BY <2>1, <2>2 DEF CallEffect
<1>7. CASE SubmitEntry
  <2>1. at = "submit" /\ UNCHANGED trade
    BY <1>7 DEF SubmitEntry
  <2>2. /\ req.contract \in Contracts /\ req.by \in [source : Sources, n : Int]
        /\ \A f \in {"entry", "qty", "stop", "target"} : req[f] \in Int
    BY <2>1 DEF CallOK, MaySubmit
  <2>3. SubmitEffect
    BY <1>7, <2>2, SubmitStep DEF CallOK
  <2> QED BY <2>1, <2>3 DEF CallEffect
<1> QED BY <1>1, <1>2, <1>3, <1>4, <1>5, <1>6, <1>7 DEF HandlerStep

\* An attempt that is not refused finds the engine watching and nothing open.
LEMMA NotRefused ==
    ASSUME EngineInv, ~AttemptRefused
    PROVE  engine = "WATCHING" /\ trade = None /\ entry = None
  BY DEF EngineInv, AttemptRefused, ReadyStates

\* The handler's steps keep engine, trade and entry in agreement.
LEMMA EngineHandler ==
    ASSUME CallOK, DataOK, DataOK', EngineInv, HandlerStep, UNCHANGED runnerVars
    PROVE  EngineInv'
<1>1. CallEffect
  BY HandlerEffect
<1>2. UNCHANGED <<phase, stage>> /\ at # "idle"
  BY DEF runnerVars, HandlerStep, HandleEntry, HandleExit, HandleQuote, HandleExitAgain, TryExit,
         HandleGate, AttemptEntry, SubmitEntry, PromoteEntry
<1>3. phase \notin Before /\ stage \notin {"poll", "agents"}
  BY <1>2 DEF EngineInv
<1>4. SUFFICES /\ engine' \in {"IDLE", "WATCHING", "RISK_CHECK", "ENTERING", "OPEN_POSITION",
                               "MANAGING_EXIT"}
               /\ engine' = "RISK_CHECK" <=> at' = "submit"
               /\ engine' = "MANAGING_EXIT" <=> trade' # None
               /\ engine' = "OPEN_POSITION" <=> entry' # None
  BY <1>2, <1>3, <1>4 DEF EngineInv
<1>5. CASE at # "submit" /\ at' # "submit" /\ EntryEffect
  BY <1>5 DEF EntryEffect, EngineInv
<1>6. CASE at # "submit" /\ at' # "submit" /\ UNCHANGED <<entry, alloc>> /\ ExitEffect
  <2>1. CASE UNCHANGED <<trade, budget, engine>>
    BY <1>6, <2>1 DEF EngineInv
  <2>2. CASE trade # None /\ trade' \in OpenTrades /\ UNCHANGED <<budget, engine>>
    BY <1>6, <2>2, TradeIsSome DEF EngineInv
  <2>3. ASSUME trade # None, NEW pnl \in Int, FinalizeExit(pnl)
        PROVE  engine' = "WATCHING" /\ trade' = None /\ engine = "MANAGING_EXIT"
    <3>1. engine = "MANAGING_EXIT"
      BY <2>3 DEF EngineInv
    <3> QED BY <2>3, <3>1, Walks DEF FinalizeExit
  <2> QED BY <1>6, <2>1, <2>2, <2>3 DEF ExitEffect, EngineInv
<1>7. CASE /\ at # "submit" /\ at' # "submit" /\ UNCHANGED <<engine, entry, alloc, budget>>
           /\ (trade' = None <=> trade = None)
  BY <1>7 DEF EngineInv
<1>8. CASE at = "attempt" /\ UNCHANGED <<trade, entry>> /\ AttemptEffect
  BY <1>8, NotRefused, Walks DEF AttemptEffect, EngineInv
<1>9. CASE at = "submit" /\ UNCHANGED trade /\ SubmitEffect
  <2>1. engine = "RISK_CHECK" /\ trade = None /\ entry = None
    BY <1>9 DEF EngineInv
  <2>2. \/ engine' = "WATCHING" /\ entry' = None /\ at' # "submit"
        \/ engine' = "OPEN_POSITION" /\ entry' \in PendingEntries' /\ at' # "submit"
        \/ engine' = "ENTERING" /\ entry' = None /\ at' # "submit"
    BY <1>9, <2>1, Walks DEF SubmitEffect
  <2>3. entry' \in PendingEntries' => entry' # None
    BY TradeIsSome
  <2> QED BY <1>9, <2>1, <2>2, <2>3
<1> QED BY <1>1, <1>5, <1>6, <1>7, <1>8, <1>9 DEF CallEffect

\* Every step keeps engine, trade and entry in agreement.
LEMMA EngineStep == ASSUME CallOK, DataOK, EngineInv, [Next]_vars PROVE EngineInv'
<1>1. CASE RunnerStep
  BY <1>1, EngineRunner
<1>2. CASE Premarket
  <2>1. /\ phase = "premarket" /\ phase' \in {"loop", "report"}
        /\ UNCHANGED <<at, stage, trade, entry>>
        /\ engine' = engine \/ engine' = Walk(engine, <<"WATCHING">>)
    BY <1>2 DEF Premarket
  <2>2. stage = "poll" /\ engine = "IDLE"
    BY <2>1 DEF EngineInv, Before
  <2> QED BY <2>1, <2>2, Walks DEF EngineInv, Before
<1>3. CASE HandlerStep /\ UNCHANGED runnerVars
  BY <1>3, DataStep, EngineHandler
<1>4. CASE BrokerStep /\ UNCHANGED runnerVars
  BY <1>4 DEF BrokerStep, runnerVars, EngineInv
<1> QED BY <1>1, <1>2, <1>3, <1>4, NextCases

-----------------------------------------------------------------------------
(* The capital follows the trades                                          *)

Busy == {"RISK_CHECK", "OPEN_POSITION", "MANAGING_EXIT"}

\* The capital of the open trade is a number.
LEMMA ShareInt == ASSUME DataOK PROVE Share \in Int
  BY DEF DataOK, OpenTrades, Share

\* The handler's steps keep the budget equal to what is held.
LEMMA CapitalHandler ==
    ASSUME CallOK, DataOK, DataOK', EngineInv, EngineInv', CapitalInv, HandlerStep
    PROVE  CapitalInv'
<1>1. CallEffect /\ cfg' = cfg
  BY HandlerEffect DEF HandlerStep, HandleEntry, HandleExit, HandleQuote, HandleExitAgain, TryExit,
         HandleGate, AttemptEntry, SubmitEntry, PromoteEntry
<1>2. SUFFICES ASSUME cfg.live, engine' # "ENTERING"
               PROVE  /\ alloc' >= 0 /\ (alloc' > 0 <=> engine' \in {"RISK_CHECK", "OPEN_POSITION"})
                      /\ Share' >= 0
                      /\ budget'.reserved = alloc' + Share'
                      /\ budget'.open = IF engine' \in Busy THEN 1 ELSE 0
                      /\ budget'.reserved <= Plan.authorized
  BY <1>1, <1>2 DEF CapitalInv, Busy
<1>3. /\ alloc \in Int /\ Share \in Int /\ budget \in Budgets
      /\ budget.reserved \in Int /\ budget.open \in Int /\ Plan.authorized \in Int
      /\ Plan.authorized > 0
  BY ShareInt, PlanInts DEF DataOK, Budgets
<1>4. engine # "ENTERING" =>
        /\ alloc >= 0 /\ (alloc > 0 <=> engine \in {"RISK_CHECK", "OPEN_POSITION"})
        /\ Share >= 0 /\ budget.reserved = alloc + Share
        /\ budget.open = (IF engine \in Busy THEN 1 ELSE 0)
        /\ budget.reserved <= Plan.authorized
  BY <1>2 DEF CapitalInv, Busy
<1>5. CASE EntryEffect
  <2>1. CASE UNCHANGED <<engine, trade, entry, alloc, budget>>
    BY <1>2, <1>4, <2>1 DEF Share
  <2>2. CASE /\ engine = "OPEN_POSITION" /\ trade = None /\ alloc' = 0
             /\ engine' = "WATCHING" /\ trade' = None
             /\ budget' = IF alloc # 0 THEN Release(budget, alloc, 0) ELSE budget
    <3>1. alloc > 0 /\ Share = 0 /\ budget.reserved = alloc /\ budget.open = 1
      BY <1>3, <1>4, <2>2 DEF Share, Busy
    <3>2. budget' = Release(budget, alloc, 0)
      BY <1>3, <2>2, <3>1
    <3>3. budget'.reserved = 0 /\ budget'.open = 0
      BY <1>3, <3>1, <3>2, ReleaseType
    <3>4. Share' = 0
      BY <2>2 DEF Share
    <3> QED BY <1>3, <2>2, <3>3, <3>4 DEF Busy
  <2>3. CASE /\ engine = "OPEN_POSITION" /\ trade = None /\ alloc' = 0
             /\ engine' = "MANAGING_EXIT" /\ trade' # None /\ budget' = budget
             /\ alloc # 0 => trade'.reserved = alloc
    <3>1. alloc > 0 /\ Share = 0 /\ budget.reserved = alloc /\ budget.open = 1
      BY <1>3, <1>4, <2>3 DEF Share, Busy
    <3>2. Share' = alloc
      BY <1>3, <2>3, <3>1 DEF Share
    <3> QED BY <1>3, <1>4, <2>3, <3>1, <3>2 DEF Busy
  <2> QED BY <1>5, <2>1, <2>2, <2>3 DEF EntryEffect
<1>6. CASE UNCHANGED <<entry, alloc>> /\ ExitEffect
  <2>1. CASE UNCHANGED <<trade, budget, engine>>
    BY <1>2, <1>4, <1>6, <2>1 DEF Share
  <2>2. CASE /\ trade # None /\ trade' \in OpenTrades /\ trade'.reserved = trade.reserved
             /\ UNCHANGED <<budget, engine>>
    <3>1. Share' = Share
      BY <2>2, TradeIsSome DEF Share
    <3> QED BY <1>2, <1>4, <1>6, <2>2, <3>1
  <2>3. ASSUME trade # None, NEW pnl \in Int, FinalizeExit(pnl)
        PROVE  /\ engine = "MANAGING_EXIT" /\ engine' = "WATCHING" /\ Share' = 0
               /\ budget'.reserved = 0 /\ budget'.open = 0
    <3>1. engine = "MANAGING_EXIT"
      BY <2>3 DEF EngineInv
    <3>2. engine' = "WATCHING" /\ Share' = 0
      BY <2>3, <3>1, Walks DEF FinalizeExit, Share
    <3>3. alloc = 0 /\ trade.reserved = Share /\ Share >= 0 /\ budget.reserved = Share /\ budget.open = 1
      BY <1>3, <1>4, <2>3, <3>1 DEF Share, Busy
    <3>4. budget' = Release(budget, Share, pnl)
      BY <2>3, <3>3 DEF FinalizeExit
    <3>5. budget'.reserved = 0 /\ budget'.open = 0
      BY <1>3, <3>3, <3>4, ReleaseType
    <3> QED BY <3>1, <3>2, <3>5
  <2>4. ASSUME engine = "MANAGING_EXIT", engine' = "WATCHING", Share' = 0,
               budget'.reserved = 0, budget'.open = 0
        PROVE  alloc' = 0
    BY <1>3, <1>4, <1>6, <2>4
  <2> QED BY <1>3, <1>6, <2>1, <2>2, <2>3, <2>4 DEF ExitEffect, Busy
<1>7. CASE /\ UNCHANGED <<engine, entry, alloc, budget>>
           /\ (trade' = None <=> trade = None) /\ (trade # None => trade'.reserved = trade.reserved)
  <2>1. Share' = Share
    BY <1>7 DEF Share
  <2> QED BY <1>2, <1>4, <1>7, <2>1
<1>8. CASE UNCHANGED trade /\ AttemptEffect
  <2>1. Share' = Share
    BY <1>8 DEF Share
  <2>2. CASE UNCHANGED <<engine, alloc, budget>>
    BY <1>2, <1>4, <2>1, <2>2
  <2>3. CASE /\ ~AttemptRefused /\ UNCHANGED <<alloc, budget>>
             /\ engine' = Walk(engine, <<"SIGNAL_DETECTED", "RISK_CHECK", "WATCHING">>)
    <3>1. engine = "WATCHING" /\ engine' = "WATCHING"
      BY <2>3, NotRefused, Walks
    <3> QED BY <1>4, <2>1, <2>3, <3>1
  <2>4. ASSUME ~AttemptRefused, NEW n \in Int, Reserves(n),
               engine' = Walk(engine, <<"SIGNAL_DETECTED", "RISK_CHECK">>)
        PROVE  /\ engine' = "RISK_CHECK" /\ alloc' > 0 /\ alloc' >= 0 /\ Share' >= 0
               /\ budget'.reserved = alloc' + Share' /\ budget'.open = 1
               /\ budget'.reserved <= Plan.authorized
    <3>1. engine = "WATCHING" /\ trade = None /\ engine' = "RISK_CHECK"
      BY <2>4, NotRefused, Walks
    <3>2. Share = 0 /\ budget.reserved = 0 /\ budget.open = 0
      BY <1>3, <1>4, <3>1 DEF Share, Busy
    <3>3. n > 0 /\ alloc' = n /\ budget' = Reserve(budget, n) /\ n <= Available(budget)
      BY <1>2, <2>4 DEF Reserves
    <3>4. budget'.reserved = n /\ budget'.open = 1
      <4>1. budget'.reserved = budget.reserved + n /\ budget'.open = budget.open + 1
        BY <1>3, <3>3, ReserveType
      <4> QED BY <3>2, <4>1
    <3>5. Available(budget) = Plan.authorized
      BY <1>3, <3>2 DEF Available, Greater
    <3>6. alloc' + Share' = n
      BY <2>1, <2>4, <3>2, <3>3
    <3> QED BY <1>3, <2>1, <3>1, <3>2, <3>3, <3>4, <3>5, <3>6
  <2>5. \/ UNCHANGED <<engine, alloc, budget>>
        \/ /\ ~AttemptRefused /\ UNCHANGED <<alloc, budget>>
           /\ engine' = Walk(engine, <<"SIGNAL_DETECTED", "RISK_CHECK", "WATCHING">>)
        \/ /\ ~AttemptRefused /\ \E n \in Int : Reserves(n)
           /\ engine' = Walk(engine, <<"SIGNAL_DETECTED", "RISK_CHECK">>)
    BY <1>8 DEF AttemptEffect
  <2>6. CASE /\ ~AttemptRefused /\ \E n \in Int : Reserves(n)
             /\ engine' = Walk(engine, <<"SIGNAL_DETECTED", "RISK_CHECK">>)
    <3>1. /\ engine' = "RISK_CHECK" /\ alloc' > 0 /\ alloc' >= 0 /\ Share' >= 0
          /\ budget'.reserved = alloc' + Share' /\ budget'.open = 1
          /\ budget'.reserved <= Plan.authorized
      BY <2>4, <2>6
    <3> QED BY <3>1 DEF Busy
  <2> QED BY <2>2, <2>3, <2>5, <2>6
<1>9. CASE at = "submit" /\ UNCHANGED trade /\ SubmitEffect
  <2>1. engine = "RISK_CHECK" /\ trade = None
    BY <1>9 DEF EngineInv
  <2>2. alloc > 0 /\ Share = 0 /\ budget.reserved = alloc /\ budget.open = 1 /\ Share' = 0
    BY <1>3, <1>4, <1>9, <2>1 DEF Share, Busy
  <2>3. CASE /\ engine' = Walk(engine, <<"ENTERING", "WATCHING">>) /\ alloc' = 0
             /\ budget' = IF cfg.live THEN Release(budget, alloc, 0) ELSE budget
    <3>1. engine' = "WATCHING" /\ budget' = Release(budget, alloc, 0)
      BY <1>2, <2>1, <2>3, Walks
    <3>2. budget'.reserved = 0 /\ budget'.open = 0
      BY <1>3, <2>2, <3>1, ReleaseType
    <3> QED BY <1>3, <2>2, <2>3, <3>1, <3>2 DEF Busy
  <2>4. CASE engine' = Walk(engine, <<"ENTERING", "OPEN_POSITION">>) /\ UNCHANGED <<budget, alloc>>
    <3>1. engine' = "OPEN_POSITION"
      BY <2>1, <2>4, Walks
    <3> QED BY <1>3, <1>4, <2>1, <2>2, <2>4, <3>1 DEF Busy
  <2>5. engine' # Walk(engine, <<"ENTERING">>)
    BY <1>2, <2>1, Walks
  <2> QED BY <1>9, <2>3, <2>4, <2>5 DEF SubmitEffect
<1> QED BY <1>1, <1>5, <1>6, <1>7, <1>8, <1>9 DEF CallEffect

\* Every step keeps the budget equal to what is held.
LEMMA CapitalStep ==
    ASSUME CallOK, DataOK, EngineInv, CapitalInv, [Next]_vars
    PROVE  CapitalInv'
<1>1. CASE RunnerStep
  BY <1>1, RunnerKeeps DEF RunnerStep, handlerData, CapitalInv, Share
<1>2. CASE Premarket
  <2>1. /\ phase = "premarket" /\ UNCHANGED <<trade, alloc, budget>>
        /\ engine' = engine \/ engine' = Walk(engine, <<"WATCHING">>)
        /\ cfg' = cfg \/ cfg' = [cfg EXCEPT !.armed = TRUE]
    BY <1>2 DEF Premarket
  <2>2. cfg'.live <=> cfg.live
    BY <2>1 DEF CallOK, Sessions
  <2>3. engine = "IDLE" /\ engine' \in {"IDLE", "WATCHING"}
    BY <2>1, Walks DEF EngineInv, Before
  <2> QED BY <2>1, <2>2, <2>3 DEF CapitalInv, Share
<1>3. CASE HandlerStep /\ UNCHANGED runnerVars
  BY <1>3, DataStep, EngineStep, CapitalHandler
<1>4. CASE BrokerStep /\ UNCHANGED runnerVars
  BY <1>4 DEF BrokerStep, CapitalInv, Share
<1> QED BY <1>1, <1>2, <1>3, <1>4, NextCases

-----------------------------------------------------------------------------
(* One entry per proposal                                                  *)

\* What a step does to the orders: it keeps whose they are, or adds one.
KeepsOwners ==
    /\ DOMAIN orders' = DOMAIN orders
    /\ \A k \in DOMAIN orders : orders'[k].by = orders[k].by
AddsOrder(by) ==
    \E o \in Orders : o.by = by /\ orders' = Append(orders, o)

\* Polling the pending orders leaves every order with its owner.
LEMMA PollsOwners ==
    ASSUME DataOK, ReconcilePendingEntry \/ ReconcilePendingExit
    PROVE  KeepsOwners
<1>1. ASSUME NEW k \in DOMAIN orders, orders' = [orders EXCEPT ![k] = Polled(orders[k])]
      PROVE  KeepsOwners
  <2>1. PICK o : o = Polled(orders[k]) /\ o.by = orders[k].by
    BY PollBooks
  <2>2. orders' = [orders EXCEPT ![k] = o] /\ orders \in Seq(Orders)
    BY <1>1, <2>1 DEF DataOK
  <2> QED BY <2>1, <2>2 DEF KeepsOwners
<1>2. CASE orders' = orders
  BY <1>2 DEF KeepsOwners
<1>3. CASE entry # None /\ ReconcileEntryLedger
  <2>1. entry.order \in DOMAIN orders
    BY <1>3 DEF DataOK, PendingEntries
  <2>2. orders' = [orders EXCEPT ![entry.order] = Polled(orders[entry.order])]
    BY <1>3 DEF ReconcileEntryLedger
  <2> QED BY <1>1, <2>1, <2>2
<1>4. CASE exit # None /\ ReconcileExitLedger
  <2>1. exit.order \in DOMAIN orders
    BY <1>4 DEF DataOK, PendingExits
  <2>2. orders' = [orders EXCEPT ![exit.order] = Polled(orders[exit.order])]
    BY <1>4 DEF ReconcileExitLedger
  <2> QED BY <1>1, <2>1, <2>2
<1>5. CASE ReconcileEntryBroker
  BY <1>2, <1>5 DEF ReconcileEntryBroker
<1> QED BY <1>2, <1>3, <1>4, <1>5 DEF ReconcilePendingEntry, ReconcilePendingExit

\* A step of the handler's call, by what it does to the orders and to the
\* request under way.
LEMMA OrdersEffect ==
    ASSUME CallOK, DataOK, HandlerStep
    PROVE  /\ \/ KeepsOwners \/ AddsOrder(NoOne)
              \/ at = "submit" /\ at' = "promote" /\ AddsOrder(req.by)
           /\ at' = "attempt" => req'.by.source = "structured_signal"
           /\ at' = "submit" => at = "attempt" /\ req'.by = req.by
           /\ at # "acted" /\ (at = "promote" => at' = "acted")
           /\ cfg' = cfg /\ clock' = clock
<1>1. CASE HandleEntry \/ HandleExit \/ HandleExitAgain \/ PromoteEntry
  BY <1>1, PollsOwners DEF HandleEntry, HandleExit, HandleExitAgain, PromoteEntry
<1>2. CASE HandleQuote
  BY <1>2 DEF HandleQuote, KeepsOwners
<1>3. CASE TryExit
  <2>1. at = "quote" /\ at' \in {"gate", "booked"} /\ UNCHANGED <<cfg, clock>>
    BY <1>3 DEF TryExit
  <2>2. orders' = orders \/ AddsOrder(NoOne)
    BY <1>3, TryExitType DEF CallOK, AddsOrder
  <2> QED BY <2>1, <2>2 DEF KeepsOwners
<1>4. CASE HandleGate
  <2>1. /\ at = "gate" /\ at' \in {"return", "raised", "attempt"}
        /\ UNCHANGED <<cfg, clock, orders>>
    BY <1>4 DEF HandleGate
  <2>2. ASSUME at' = "attempt" PROVE req'.by.source = "structured_signal"
    <3>1. PICK s : req' = Request(s, DirOf[s], By("structured_signal", 0), NoHints)
      BY <1>4, <2>2 DEF HandleGate
    <3> QED BY <3>1 DEF Request, By
  <2> QED BY <2>1, <2>2 DEF KeepsOwners
<1>5. CASE AttemptEntry
  <2>1. at = "attempt" /\ UNCHANGED <<cfg, clock, orders>>
    BY <1>5 DEF AttemptEntry
  <2>2. AttemptEffect
    BY <1>5, <2>1, AttemptStep DEF CallOK, MayAttempt
  <2>3. at' \in {"return", "submit"} /\ (at' = "submit" => req'.by = req.by)
    BY <2>2 DEF AttemptEffect
  <2> QED BY <2>1, <2>3 DEF KeepsOwners
<1>6. CASE SubmitEntry
  <2>1. at = "submit" /\ UNCHANGED <<cfg, clock>>
    BY <1>6 DEF SubmitEntry
  <2>2. /\ req.contract \in Contracts /\ req.by \in [source : Sources, n : Int]
        /\ \A f \in {"entry", "qty", "stop", "target"} : req[f] \in Int
    BY <2>1 DEF CallOK, MaySubmit
  <2>3. SubmitEffect
    BY <1>6, <2>2, SubmitStep DEF CallOK
  <2>4. /\ at' \in {"return", "promote", "raised"}
        /\ orders' = orders \/ AddsOrder(NoOne) \/ (at' = "promote" /\ AddsOrder(req.by))
    BY <2>3 DEF SubmitEffect, AddsOrder
  <2> QED BY <2>1, <2>4 DEF KeepsOwners
<1> QED BY <1>1, <1>2, <1>3, <1>4, <1>5, <1>6 DEF HandlerStep

\* An order that is added comes last, and the others are as they were.
LEMMA AddedOrder ==
    ASSUME DataOK, NEW by, AddsOrder(by)
    PROVE  \E n : /\ n \notin DOMAIN orders /\ DOMAIN orders' = DOMAIN orders \cup {n}
                  /\ orders'[n].by = by
                  /\ \A k \in DOMAIN orders : orders'[k].by = orders[k].by
<1>1. PICK o \in Orders : o.by = by /\ orders' = Append(orders, o)
  BY DEF AddsOrder
<1>2. orders \in Seq(Orders)
  BY DEF DataOK
<1>3. PICK n : n = Len(orders) + 1
  OBVIOUS
<1>4. /\ n \notin DOMAIN orders /\ DOMAIN orders' = DOMAIN orders \cup {n} /\ orders'[n] = o
      /\ \A k \in DOMAIN orders : orders'[k] = orders[k]
  BY <1>1, <1>2, <1>3
<1> QED BY <1>1, <1>4

\* The orders of the decision agent.
OrdersOwned ==
    /\ \A k \in DOMAIN orders : orders[k].by.source = "agent_decision" =>
          /\ orders[k].by.n <= calls
          /\ proposal # None /\ ~(stage = "deciding" /\ at \in {"promote", "acted"})
               => orders[k].by.n # proposal.n
    /\ \A j, k \in DOMAIN orders :
          j # k /\ orders[j].by.source = "agent_decision" => orders[j].by # orders[k].by

Confirmed ==
    at \in {"attempt", "submit"} /\ Decided =>
        /\ stage = "deciding" /\ proposal # None /\ proposal.n = req.by.n
        /\ proposal.n < calls /\ clock - proposal.born <= ConfirmTtl

\* ProposalInv in the parts its proofs take one at a time.
LEMMA ProposalParts ==
    ProposalInv <=>
      (cfg.propose => /\ proposal # None => proposal.n <= calls
                      /\ Confirmed /\ OrdersOwned)
  BY DEF ProposalInv, Confirmed, OrdersOwned

\* A step of a call uses no proposal that is spent.
LEMMA ProposalHandler ==
    ASSUME CallOK, DataOK, ProposalInv, HandlerStep, UNCHANGED runnerVars, cfg.propose
    PROVE  Confirmed' /\ OrdersOwned'
<1>1. UNCHANGED <<stage, proposal, calls, clock, cfg>>
  BY OrdersEffect DEF runnerVars
<1>2. Confirmed /\ OrdersOwned /\ (proposal # None => proposal.n \in Int) /\ calls \in Int
  BY ProposalParts DEF CallOK, Remembered
<1>3. Confirmed'
  <2>1. CASE at' = "attempt"
    BY <2>1, OrdersEffect DEF Confirmed, Decided
  <2>2. CASE at' = "submit"
    BY <1>1, <1>2, <2>2, OrdersEffect DEF Confirmed, Decided
  <2> QED BY <2>1, <2>2 DEF Confirmed
<1>4. ASSUME stage = "deciding", at \in {"promote", "acted"}
      PROVE  stage' = "deciding" /\ at' \in {"promote", "acted"}
  BY <1>1, <1>4, OrdersEffect
<1>5. CASE KeepsOwners
  <2>1. /\ DOMAIN orders' = DOMAIN orders
        /\ \A k \in DOMAIN orders : orders'[k].by = orders[k].by
    BY <1>5 DEF KeepsOwners
  <2>2. ASSUME NEW k \in DOMAIN orders', orders'[k].by.source = "agent_decision"
        PROVE  /\ orders'[k].by.n <= calls'
               /\ proposal' # None /\ ~(stage' = "deciding" /\ at' \in {"promote", "acted"})
                    => orders'[k].by.n # proposal'.n
    BY <1>1, <1>2, <1>4, <2>1, <2>2 DEF OrdersOwned
  <2>3. ASSUME NEW j \in DOMAIN orders', NEW k \in DOMAIN orders', j # k,
               orders'[j].by.source = "agent_decision"
        PROVE  orders'[j].by # orders'[k].by
    BY <1>2, <2>1, <2>3 DEF OrdersOwned
  <2> QED BY <1>3, <2>2, <2>3 DEF OrdersOwned
<1>6. ASSUME NEW by, AddsOrder(by), by.source # "agent_decision"
      PROVE  OrdersOwned'
  <2>1. PICK n : /\ n \notin DOMAIN orders /\ DOMAIN orders' = DOMAIN orders \cup {n}
                 /\ orders'[n].by = by
                 /\ \A k \in DOMAIN orders : orders'[k].by = orders[k].by
    BY <1>6, AddedOrder
  <2> QED BY <1>1, <1>2, <1>4, <1>6, <2>1 DEF OrdersOwned
<1>7. CASE at = "submit" /\ at' = "promote" /\ AddsOrder(req.by) /\ Decided
  <2>1. PICK n : /\ n \notin DOMAIN orders /\ DOMAIN orders' = DOMAIN orders \cup {n}
                 /\ orders'[n].by = req.by
                 /\ \A k \in DOMAIN orders : orders'[k].by = orders[k].by
    BY <1>7, AddedOrder
  <2>2. /\ stage = "deciding" /\ proposal # None /\ proposal.n = req.by.n /\ req.by.n <= calls
    BY <1>2, <1>7 DEF Confirmed
  <2>3. \A k \in DOMAIN orders : orders[k].by.source = "agent_decision" => orders[k].by.n # req.by.n
    BY <1>2, <1>7, <2>2 DEF OrdersOwned
  <2>4. \A k \in DOMAIN orders : orders[k].by # req.by
    BY <1>7, <2>3 DEF Decided
  <2>5. ASSUME NEW k \in DOMAIN orders', orders'[k].by.source = "agent_decision"
        PROVE  orders'[k].by.n <= calls'
    BY <1>1, <1>2, <2>1, <2>2, <2>5 DEF OrdersOwned
  <2>6. ASSUME NEW j \in DOMAIN orders', NEW k \in DOMAIN orders', j # k,
               orders'[j].by.source = "agent_decision"
        PROVE  orders'[j].by # orders'[k].by
    BY <1>2, <2>1, <2>4, <2>6 DEF OrdersOwned
  <2>7. stage' = "deciding" /\ at' = "promote"
    BY <1>1, <1>7, <2>2
  <2> QED BY <1>3, <2>5, <2>6, <2>7 DEF OrdersOwned
<1>8. NoOne.source # "agent_decision"
  BY DEF NoOne, By
<1> QED BY <1>3, <1>5, <1>6, <1>7, <1>8, OrdersEffect DEF Decided

\* The number of the decision an order belongs to is a number.
LEMMA OwnerInt == ASSUME DataOK, NEW k \in DOMAIN orders PROVE orders[k].by.n \in Int
<1>1. orders[k] \in Orders
  BY DEF DataOK
<1>2. orders[k].by \in [source : Sources, n : Int]
  BY <1>1 DEF Orders
<1> QED BY <1>2

\* A proposal that passes the gate has not expired.
LEMMA GateOk ==
    ASSUME NEW p, NEW now, NEW drifted, NEW mid, ConfirmGate(p, now, drifted, mid) = "ok"
    PROVE  ~(now - p.born > ConfirmTtl)
<1>1. SUFFICES ASSUME now - p.born > ConfirmTtl PROVE FALSE
  OBVIOUS
<1>2. ConfirmGate(p, now, drifted, mid) = "expired"
  BY <1>1 DEF ConfirmGate
<1> QED BY <1>2

\* What the runner hands over, remembers or drops is no spent proposal.
LEMMA ProposalRunner ==
    ASSUME CallOK, DataOK, EngineInv, ProposalInv, RunnerStep, cfg.propose
    PROVE  (proposal' # None => proposal'.n <= calls') /\ Confirmed' /\ OrdersOwned'
<1>1. orders' = orders
  BY RunnerKeeps DEF RunnerStep, handlerData
<1>2. /\ proposal # None => proposal.n <= calls /\ proposal.n \in Int /\ proposal.born \in Int
      /\ Confirmed /\ OrdersOwned /\ calls \in Int /\ clock \in Int
  BY ProposalParts DEF CallOK, Remembered
<1>3. CASE Authenticate \/ OpenOptions \/ WarmUp \/ Report \/ Finished \/ UNCHANGED vars
  <2>1. UNCHANGED <<at, stage, req, proposal, calls, clock>>
    BY <1>3 DEF Authenticate, OpenOptions, WarmUp, Report, Finished, Returned, vars, handlerVars,
                runnerVars
  <2> QED BY <1>1, <1>2, <2>1 DEF Confirmed, OrdersOwned, Decided
\* No call is under way, nor a decision, before or after the step.
<1>4. ASSUME UNCHANGED <<proposal, calls>>, at' \notin {"attempt", "submit"},
             stage = "deciding" => at \notin {"promote", "acted"}
      PROVE  (proposal' # None => proposal'.n <= calls') /\ Confirmed' /\ OrdersOwned'
  <2>1. Confirmed'
    BY <1>4 DEF Confirmed
  <2>2. OrdersOwned'
    BY <1>1, <1>2, <1>4 DEF OrdersOwned
  <2> QED BY <1>2, <1>4, <2>1, <2>2
<1>5. CASE PollFails \/ PollQuote \/ ReplayEvent \/ ReplayFinish
  <2>1. UNCHANGED <<proposal, calls>> /\ at' \in {at, "entry", "quote"} /\ stage = "poll"
    BY <1>5 DEF PollFails, PollQuote, ReplayEvent, ReplayFinish, runnerVars
  <2>2. at = "idle"
    BY <2>1 DEF EngineInv
  <2> QED BY <1>4, <2>1, <2>2
<1>6. CASE AfterSpyEvent \/ SessionFails \/ NextQuote \/ QuotesDone \/ AfterCouncil \/ AfterReplayEvent
  <2>1. UNCHANGED <<proposal, calls>> /\ at' \in {"idle", "entry"} /\ stage # "deciding"
    BY <1>6 DEF AfterSpyEvent, SessionFails, NextQuote, QuotesDone, AfterCouncil, AfterReplayEvent, Idle
  <2> QED BY <1>4, <2>1
<1>7. CASE SkipAgents
  <2>1. UNCHANGED <<at, proposal, calls>> /\ stage = "agents"
    BY <1>7 DEF SkipAgents, handlerVars
  <2> QED BY <1>4, <2>1 DEF EngineInv
<1>8. CASE LoopEnds
  <2>1. UNCHANGED <<proposal, calls>> /\ at' \in {at, "idle"} /\ stage \in {"poll", "finish"}
        /\ (stage = "poll" \/ at' = "idle")
    BY <1>8 DEF LoopEnds, Idle
  <2> QED BY <1>4, <2>1 DEF EngineInv
<1>9. CASE AfterDecision
  <2>1. /\ stage = "deciding" /\ stage' = "poll" /\ at' = "idle" /\ calls' = calls
        /\ proposal' = IF at = "acted" THEN None ELSE proposal
        /\ at # "acted" => at \notin {"promote", "acted"}
    BY <1>9 DEF AfterDecision, Idle
  <2>2. Confirmed'
    BY <2>1 DEF Confirmed
  <2>3. OrdersOwned'
    BY <1>1, <1>2, <2>1 DEF OrdersOwned
  <2> QED BY <1>2, <2>1, <2>2, <2>3
\* A decision that attempts nothing: the proposal is kept, dropped or a new one.
<1>10. ASSUME stage = "agents", at' = at,
              \/ calls' \in {calls, calls + 1} /\ proposal' \in {proposal, None}
              \/ calls' = calls + 1 /\ proposal' # None /\ proposal'.n = calls + 1
       PROVE  (proposal' # None => proposal'.n <= calls') /\ Confirmed' /\ OrdersOwned'
  <2>1. at' = "idle"
    BY <1>10 DEF EngineInv
  <2>2. Confirmed'
    BY <2>1 DEF Confirmed
  <2>3. proposal' # None => proposal'.n <= calls'
    BY <1>2, <1>10
  <2>4. \A k \in DOMAIN orders : orders[k].by.source = "agent_decision" =>
          /\ orders[k].by.n <= calls'
          /\ proposal' # None => orders[k].by.n # proposal'.n
    <3>1. SUFFICES ASSUME NEW k \in DOMAIN orders, orders[k].by.source = "agent_decision"
                   PROVE  /\ orders[k].by.n <= calls'
                          /\ proposal' # None => orders[k].by.n # proposal'.n
      OBVIOUS
    <3>2. /\ orders[k].by.n <= calls
          /\ proposal # None => orders[k].by.n # proposal.n
      BY <1>2, <1>10, <3>1 DEF OrdersOwned
    <3>3. orders[k].by.n \in Int
      BY OwnerInt
    <3> QED BY <1>2, <1>10, <3>2, <3>3
  <2>5. OrdersOwned'
    BY <1>1, <1>2, <2>4 DEF OrdersOwned
  <2> QED BY <2>2, <2>3, <2>5
<1>11. CASE DecisionFails
  BY <1>10, <1>11 DEF DecisionFails, MayDecide, handlerVars, Held
<1>12. CASE DecideOnly
  <2>1. PICK d \in Decisions, mid \in Premiums :
          proposal' \in {Held, None, PendingFrom(d, mid, clock, calls + 1)}
    BY <1>12 DEF DecideOnly
  <2>2. PendingFrom(d, mid, clock, calls + 1).n = calls + 1
    BY DEF PendingFrom
  <2>3. stage = "agents" /\ at' = at /\ calls' = calls + 1
    BY <1>12 DEF DecideOnly, MayDecide
  <2> QED BY <1>10, <2>1, <2>2, <2>3 DEF Held

<1>13. CASE Confirm
  <2>1. stage = "agents" /\ at = "idle" /\ calls' = calls + 1 /\ clock' = clock
    BY <1>13 DEF Confirm, MayDecide, EngineInv
  <2>2. PICK d \in Decisions, mid \in Premiums, drifted \in BOOLEAN, late \in {0, 1} :
         LET gate == IF Held = None THEN "ok" ELSE ConfirmGate(Held, clock + late, drifted, mid)
             pd == IF Held = None
                   THEN [dir |-> d.dir, setup |-> d.setup, n |-> calls + 1, hints |-> d.hints]
                   ELSE DecisionFromPending(Held, d)
             allowed == gate = "ok" /\ EvEntryAllowed(pd) /\ pd.hints.confidence >= MinConfidence
         IN  /\ d.action \in {"confirm", "enter"} /\ (Held # None \/ ~cfg.propose)
             /\ ApplyPatch(d)
             /\ proposal' = IF gate = "expired" THEN None ELSE Held
             /\ \/ allowed /\ at' = "attempt" /\ req' = DecidedRequest(pd) /\ stage' = "deciding"
                \/ ~allowed /\ stage' = "poll" /\ UNCHANGED <<at, req>>
    BY <1>13, Zenon DEF Confirm
  <2>3. PICK gate, pd : gate = ConfirmGate(Held, clock + late, drifted, mid)
                        /\ pd = DecisionFromPending(Held, d)
    OBVIOUS
  <2>4. /\ Held # None /\ proposal' = IF gate = "expired" THEN None ELSE Held
        /\ \/ gate = "ok" /\ at' = "attempt" /\ req' = DecidedRequest(pd) /\ stage' = "deciding"
           \/ UNCHANGED at
    BY <2>2, <2>3
  <2>5. Held = proposal /\ proposal # None
    BY <2>4 DEF Held
  <2>6. CASE UNCHANGED at
    BY <1>10, <2>1, <2>4, <2>5, <2>6
  <2>7. CASE gate = "ok" /\ at' = "attempt" /\ req' = DecidedRequest(pd) /\ stage' = "deciding"
    <3>1. proposal' = proposal
      BY <2>4, <2>5, <2>7
    <3>2. req'.by = By("agent_decision", proposal.n)
      <4>1. Remembered(proposal) /\ IsHints(d.hints) /\ proposal.dir \in Contracts /\ proposal.n \in Int
        BY <2>5, SessionAssumption DEF CallOK, Remembered
      <4>2. pd.dir \in Contracts /\ IsHints(pd.hints) /\ pd.n \in Int /\ pd.n = proposal.n
        BY <2>3, <2>5, <4>1, ConfirmedHints
      <4> QED BY <2>7, <4>2, DecidedType
    <3>3. clock + late - proposal.born <= ConfirmTtl
      <4>1. ConfirmGate(proposal, clock + late, drifted, mid) = "ok"
        BY <2>3, <2>5, <2>7
      <4>2. ~((clock + late) - proposal.born > ConfirmTtl)
        BY <4>1, GateOk
      <4> QED BY <1>2, <2>5, <4>2, TicksAssumption
    <3>4. clock' - proposal'.born <= ConfirmTtl
      BY <1>2, <2>1, <2>5, <3>1, <3>3, TicksAssumption
    <3>5. proposal'.n = req'.by.n
      BY <3>1, <3>2 DEF By
    <3>6. proposal'.n < calls' /\ proposal'.n <= calls'
      BY <1>2, <2>1, <2>5, <3>1
    <3>7. Confirmed'
      BY <2>5, <2>7, <3>1, <3>4, <3>5, <3>6 DEF Confirmed
    <3>8. \A k \in DOMAIN orders : orders[k].by.source = "agent_decision" =>
            orders[k].by.n <= calls' /\ orders[k].by.n # proposal.n
      <4>1. ASSUME NEW k \in DOMAIN orders, orders[k].by.source = "agent_decision"
            PROVE  orders[k].by.n <= calls /\ orders[k].by.n # proposal.n /\ orders[k].by.n \in Int
        BY <1>2, <2>1, <2>5, <4>1, OwnerInt DEF OrdersOwned
      <4> QED BY <1>2, <2>1, <4>1
    <3>9. OrdersOwned'
      BY <1>1, <1>2, <3>1, <3>8 DEF OrdersOwned
    <3> QED BY <3>6, <3>7, <3>9
  <2> QED BY <2>4, <2>6, <2>7
<1>14. CASE Council
  <2>1. /\ stage = "agents" /\ at = "idle" /\ proposal' = proposal /\ calls' \in {calls, calls + 1}
        /\ \/ at' = at
           \/ at' = "attempt" /\ req'.by.source = "agent_proposal"
    BY <1>14 DEF Council, MayConvene, EngineInv, Request, By
  <2>2. CASE at' = at
    BY <1>10, <2>1, <2>2
  <2>3. CASE at' = "attempt" /\ req'.by.source = "agent_proposal"
    <3>1. Confirmed'
      BY <2>3 DEF Confirmed, Decided
    <3>2. \A k \in DOMAIN orders : orders[k].by.source = "agent_decision" =>
            /\ orders[k].by.n <= calls'
            /\ proposal # None => orders[k].by.n # proposal.n
      <4>1. ASSUME NEW k \in DOMAIN orders, orders[k].by.source = "agent_decision"
            PROVE  /\ orders[k].by.n <= calls /\ orders[k].by.n \in Int
                   /\ proposal # None => orders[k].by.n # proposal.n
        BY <1>2, <2>1, <4>1, OwnerInt DEF OrdersOwned
      <4> QED BY <1>2, <2>1, <4>1
    <3>3. OrdersOwned'
      BY <1>1, <1>2, <2>1, <3>2 DEF OrdersOwned
    <3> QED BY <1>2, <2>1, <3>1, <3>3
  <2> QED BY <2>1, <2>2, <2>3
<1> QED BY <1>3, <1>5, <1>6, <1>7, <1>8, <1>9, <1>11, <1>12, <1>13, <1>14 DEF RunnerStep, Loop, Replay

\* Every step keeps the order of proposals and entries.
LEMMA ProposalStep ==
    ASSUME CallOK, DataOK, EngineInv, ProposalInv, [Next]_vars
    PROVE  ProposalInv'
<1>1. cfg'.propose <=> cfg.propose
  <2>1. CASE Premarket
    <3>1. cfg' = cfg \/ cfg' = [cfg EXCEPT !.armed = TRUE]
      BY <2>1 DEF Premarket
    <3> QED BY <3>1 DEF CallOK, Sessions
  <2>2. CASE ~Premarket
    BY <2>2, NextCases, RunnerKeeps, OrdersEffect DEF RunnerStep, BrokerStep
  <2> QED BY <2>1, <2>2
<1>2. CASE ~cfg.propose
  BY <1>1, <1>2 DEF ProposalInv
<1>3. CASE cfg.propose
  <2>1. SUFFICES (proposal' # None => proposal'.n <= calls') /\ Confirmed' /\ OrdersOwned'
    BY <2>1 DEF ProposalInv, Confirmed, OrdersOwned
  <2>2. CASE RunnerStep
    BY <1>3, <2>2, ProposalRunner
  <2>3. CASE HandlerStep /\ UNCHANGED runnerVars
    <3>1. proposal' # None => proposal'.n <= calls'
      BY <1>3, <2>3, ProposalParts DEF runnerVars
    <3> QED BY <1>3, <2>3, <3>1, ProposalHandler
  <2>4. CASE Premarket
    <3>1. UNCHANGED <<at, stage, req, orders, proposal, calls, clock>>
      BY <2>4 DEF Premarket
    <3> QED BY <1>3, <3>1, ProposalParts DEF Confirmed, OrdersOwned, Decided
  <2>5. CASE BrokerStep /\ UNCHANGED runnerVars
    <3>1. UNCHANGED <<at, stage, req, proposal, calls, clock>>
      BY <2>5 DEF BrokerStep, runnerVars
    <3>2. /\ DOMAIN orders' = DOMAIN orders
          /\ \A k \in DOMAIN orders : orders'[k].by = orders[k].by
      BY <2>5, BrokerType
    <3>3. (proposal # None => proposal.n <= calls) /\ Confirmed /\ OrdersOwned
      BY <1>3, ProposalParts
    <3>4. Confirmed'
      BY <3>1, <3>3 DEF Confirmed, Decided
    <3>5. ASSUME NEW k \in DOMAIN orders', orders'[k].by.source = "agent_decision"
          PROVE  /\ orders'[k].by.n <= calls'
                 /\ proposal' # None /\ ~(stage' = "deciding" /\ at' \in {"promote", "acted"})
                      => orders'[k].by.n # proposal'.n
      BY <3>1, <3>2, <3>3, <3>5 DEF OrdersOwned
    <3>6. ASSUME NEW j \in DOMAIN orders', NEW k \in DOMAIN orders', j # k,
                 orders'[j].by.source = "agent_decision"
          PROVE  orders'[j].by # orders'[k].by
      BY <3>2, <3>3, <3>6 DEF OrdersOwned
    <3>7. OrdersOwned'
      BY <3>5, <3>6 DEF OrdersOwned
    <3> QED BY <3>1, <3>3, <3>4, <3>7
  <2> QED BY <2>2, <2>3, <2>4, <2>5, NextCases
<1> QED BY <1>2, <1>3

-----------------------------------------------------------------------------
(* The theorems                                                            *)

SessionInv == CallOK /\ DataOK /\ EngineInv /\ CapitalInv /\ ProposalInv

\* A session begins with nothing reserved, open or proposed.
LEMMA InitInv == Init => SessionInv
<1>1. SUFFICES ASSUME Init PROVE SessionInv
  OBVIOUS
<1>2. CallOK
  <2>1. cfg \in Sessions
    BY <1>1, HandlerAssumption DEF Init
  <2>2. quotes \in Seq(Events) /\ ev \in Events /\ proposal = None
    BY <1>1, SetTypes DEF Init
  <2>3. at \in Steps /\ at = "idle" /\ stage \in Stages /\ phase \in Phases
    BY <1>1 DEF Init, Steps, Stages, Phases
  <2> QED BY <1>1, <2>1, <2>2, <2>3 DEF Init, CallOK
<1>3. DataOK
  <2>1. budget \in Budgets
    BY <1>1 DEF Init, NewBudget, Budgets
  <2>2. posn \in [Contracts -> Int] /\ lpos \in Books
    BY <1>1 DEF Init, Books
  <2> QED BY <1>1, <2>1, <2>2 DEF Init, DataOK
<1>4. EngineInv
  BY <1>1 DEF Init, EngineInv
<1>5. CapitalInv
  BY <1>1, PlanInts DEF Init, CapitalInv, Share, NewBudget
<1>6. ProposalInv
  BY <1>1 DEF Init, ProposalInv
<1> QED BY <1>2, <1>3, <1>4, <1>5, <1>6 DEF SessionInv

\* The inductive invariant holds in every reachable state.
LEMMA SessionInvariant == Spec => []SessionInv
<1>1. SessionInv /\ [Next]_vars => SessionInv'
  BY CallStep, DataStep, EngineStep, CapitalStep, ProposalStep DEF SessionInv
<1> QED BY InitInv, <1>1, PTL DEF Spec

\* Every variable of the session, of the handler it calls and of the broker behind
\* it has its type, and the engine is never driven out of its transition table:
\* no StateMachineError is raised by the calls of market_handler.py.
THEOREM SessionTypeCorrect == Spec => []TypeOK
<1>1. SessionInv => TypeOK
  <2>1. SUFFICES ASSUME SessionInv PROVE TypeOK
    OBVIOUS
  <2>2. engine \in EngineStates
    BY <2>1 DEF SessionInv, EngineInv, EngineStates, ValidTransitions
  <2>3. /\ at \in {"attempt", "submit"} =>
             req.contract \in Contracts /\ req.by \in [source : Sources, n : Int]
        /\ at = "attempt" => IsHints(req.hints)
        /\ at = "submit" => \A f \in {"entry", "qty", "stop", "target"} : req[f] \in Int
    BY <2>1 DEF SessionInv, CallOK, MayAttempt, MaySubmit
  <2>4. /\ cfg \in Sessions /\ enabled \subseteq Setups /\ ev \in Events /\ quotes \in Seq(Events)
        /\ at \in Steps /\ clock \in Int /\ calls \in Int /\ phase \in Phases /\ stage \in Stages
        /\ proposal # None => /\ proposal.dir \in Contracts /\ IsHints(proposal.hints)
                              /\ proposal.born \in Int /\ proposal.n \in Int
    BY <2>1 DEF SessionInv, CallOK, Remembered
  <2>5. /\ trade \in OpenTrades \cup {None}
        /\ entry \in PendingEntries \cup {None} /\ exit \in PendingExits \cup {None}
        /\ alloc \in Int /\ budget \in [reserved : Int, realized : Int, open : Int]
        /\ orders \in Seq(Orders) /\ posn \in [Contracts -> Int]
        /\ lpos \in [Contracts -> [qty : Int, avg : Int, realized : Int]]
    BY <2>1 DEF SessionInv, DataOK, Budgets, Books
  <2> QED BY <2>2, <2>3, <2>4, <2>5 DEF TypeOK, Steps, Phases, Stages
<1> QED BY <1>1, SessionInvariant, PTL

\* CapitalBudget holds exactly what the pending entry or the open trade reserved,
\* one position at most, and never more than the plan authorized, however fills,
\* rejections, cancellations and faults fall between the handler's steps.
THEOREM CapitalAlwaysFollows == Spec => []CapitalFollowsTrades
<1>1. SessionInv => CapitalFollowsTrades
  <2>1. SUFFICES ASSUME SessionInv, Settled, cfg.live, engine # "ENTERING"
                 PROVE  /\ budget.reserved = alloc + (IF trade = None THEN 0 ELSE trade.reserved)
                        /\ budget.open = IF trade # None \/ entry # None THEN 1 ELSE 0
                        /\ budget.reserved <= Plan.authorized
    BY DEF CapitalFollowsTrades
  <2>2. /\ budget.reserved = alloc + Share /\ budget.reserved <= Plan.authorized
        /\ budget.open = IF engine \in Busy THEN 1 ELSE 0
    BY <2>1 DEF SessionInv, CapitalInv, Busy
  <2>3. engine \in Busy <=> trade # None \/ entry # None
    BY <2>1 DEF SessionInv, EngineInv, Settled, Busy
  <2> QED BY <2>2, <2>3 DEF Share
<1> QED BY <1>1, SessionInvariant, PTL

\* Between two calls the reactive engine is in MANAGING_EXIT exactly when a trade
\* is open and in OPEN_POSITION exactly when an entry is pending.
THEOREM EngineAlwaysAgrees == Spec => []EngineAgrees
<1>1. SessionInv => EngineAgrees
  BY DEF SessionInv, EngineInv, EngineAgrees
<1> QED BY <1>1, SessionInvariant, PTL

\* Under propose-then-confirm an entry of the decision agent confirms an earlier
\* proposal that has not expired (confirm_gate), and none is used twice.
THEOREM ProposalsUsedOnce == Spec => []OneEntryPerProposal
<1>1. SessionInv => OneEntryPerProposal
  BY DEF SessionInv, ProposalInv, OneEntryPerProposal, Decided
<1> QED BY <1>1, SessionInvariant, PTL

-----------------------------------------------------------------------------
(* The books of broker and ledger                                          *)
(*                                                                         *)
(* A call of the handler changes several of them in one step: it books what *)
(* a poll has found and then moves the trade.  What relates them is stated *)
(* of values, so that each half is a lemma of its own: os are the orders,  *)
(* p the broker's positions, l the ledger's, t the open trade, e and x the *)
(* pending entry and exit.                                                 *)

\* What broker and ledger may say of one order, unless it is an awkward one.
FillsOK(o) ==
    /\ 0 <= o.booked /\ o.booked <= o.filled /\ o.filled <= o.qty
    /\ o.status = "open" => o.filled < o.qty
    /\ o.status = "filled" => o.filled = o.qty
    /\ o.status \in {"cancelled", "rejected"} => o.filled = 0
    /\ o.known \in {"cancelled", "rejected"} => o.status \in {"cancelled", "rejected"}
    /\ o.known = "filled" => o.status = "filled" /\ o.booked = o.qty

Unbooked(o) == o.filled - o.booked

\* Positions and working orders are in the contract c.
Only(os, p, c) ==
    /\ \A d \in Contracts \ {c} : p[d] = 0
    /\ \A k \in DOMAIN os : os[k].status = "open" => os[k].contract = c

\* The ledger has no more than the broker once the entry's unbooked fills are
\* added; a working sale is the pending exit.
EntryCovered(os, p, l, t, e, x) ==
    e # None =>
        /\ t = None /\ x = None
        /\ os[e.order].side = "buy" /\ os[e.order].contract = e.contract
        /\ Only(os, p, e.contract)
        /\ l[e.contract].qty + Unbooked(os[e.order]) <= p[e.contract]

\* The trade is for no more than the ledger has, and so is what its exit has
\* still to sell.
TradeCovered(os, p, l, t, x) ==
    t # None =>
        /\ t.qty >= 1 /\ Only(os, p, t.contract)
        /\ x = None => t.qty <= l[t.contract].qty

ExitCovered(os, p, l, t, x) ==
    x # None =>
        /\ t # None /\ x.contract = t.contract
        /\ os[x.order].side = "sell" /\ os[x.order].contract = x.contract
        /\ t.qty <= os[x.order].qty
        /\ os[x.order].qty - os[x.order].booked <= l[x.contract].qty
        /\ l[x.contract].qty <= p[x.contract] + Unbooked(os[x.order])

Covered(os, p, l, t, e, x) ==
    /\ \A k \in DOMAIN os : FillsOK(os[k])
    /\ \A k \in DOMAIN os : os[k].status = "open" /\ os[k].side = "sell" => x # None /\ k = x.order
    /\ \A c \in Contracts : /\ 0 <= l[c].qty
                            /\ x = None \/ c # x.contract => l[c].qty <= p[c]
    /\ EntryCovered(os, p, l, t, e, x)
    /\ TradeCovered(os, p, l, t, x)
    /\ ExitCovered(os, p, l, t, x)

BooksTyped(os, p, l, t, e, x) ==
    /\ os \in Seq(Orders) /\ p \in [Contracts -> Int] /\ l \in Books
    /\ t # None => t.contract \in Contracts /\ t.qty \in Int
    /\ e # None => e.order \in DOMAIN os /\ e.contract \in Contracts
    /\ x # None => x.order \in DOMAIN os /\ x.contract \in Contracts

\* An order, its position at the broker and its position in the ledger move.
Moved(os, p, l, os2, p2, l2, k) ==
    /\ DOMAIN os2 = DOMAIN os /\ \A j \in DOMAIN os \ {k} : os2[j] = os[j]
    /\ os2[k].side = os[k].side /\ os2[k].contract = os[k].contract /\ os2[k].qty = os[k].qty
    /\ FillsOK(os2[k])
    /\ os[k].filled <= os2[k].filled /\ os[k].booked <= os2[k].booked
    /\ os2[k].status = "open" => os[k].status = "open"
    /\ \A c \in Contracts :
        /\ c # os[k].contract => p2[c] = p[c] /\ l2[c].qty = l[c].qty
        /\ c = os[k].contract =>
             /\ p2[c] = p[c] + Signed(os[k], os2[k].filled - os[k].filled)
             /\ l2[c].qty = l[c].qty + Signed(os[k], os2[k].booked - os[k].booked)

Own(k, e, x) == (e # None /\ k = e.order) \/ (x # None /\ k = x.order)

\* The numbers of an order.
LEMMA OrderFields ==
    ASSUME NEW o \in Orders
    PROVE  /\ o.qty \in Int /\ o.filled \in Int /\ o.booked \in Int /\ o.contract \in Contracts
           /\ o.side \in {"buy", "sell"} /\ o.status \in {"open", "filled", "rejected", "cancelled"}
BY DEF Orders

\* What moves is the pending entry or exit, or a working order whose fills are
\* booked no faster than they happen.
MayMove(os, p, l, os2, p2, l2, t, e, x, k) ==
    /\ k \in DOMAIN os /\ BooksTyped(os, p, l, t, e, x) /\ os2[k] \in Orders
    /\ Covered(os, p, l, t, e, x) /\ Moved(os, p, l, os2, p2, l2, k)
    /\ Own(k, e, x) \/ (/\ os[k].status = "open"
                         /\ os2[k].booked - os[k].booked <= os2[k].filled - os[k].filled)

\* Then the books stay covered.
LEMMA MoveCovered ==
    ASSUME NEW os, NEW p, NEW l, NEW os2, NEW p2, NEW l2, NEW t, NEW e, NEW x, NEW k,
           MayMove(os, p, l, os2, p2, l2, t, e, x, k)
    PROVE  Covered(os2, p2, l2, t, e, x)
<1>0. /\ k \in DOMAIN os /\ BooksTyped(os, p, l, t, e, x) /\ os2[k] \in Orders
      /\ Covered(os, p, l, t, e, x) /\ Moved(os, p, l, os2, p2, l2, k)
      /\ Own(k, e, x) \/ (/\ os[k].status = "open"
                           /\ os2[k].booked - os[k].booked <= os2[k].filled - os[k].filled)
  BY DEF MayMove
<1> USE <1>0
<1>1. PICK a, b, c : a = os[k] /\ b = os2[k] /\ c = a.contract
  OBVIOUS
<1>2. /\ DOMAIN os2 = DOMAIN os /\ \A j \in DOMAIN os \ {k} : os2[j] = os[j]
      /\ b.side = a.side /\ b.contract = c /\ b.qty = a.qty
      /\ FillsOK(b) /\ FillsOK(a) /\ a.filled <= b.filled /\ a.booked <= b.booked
      /\ b.status = "open" => a.status = "open"
  BY <1>1 DEF Moved, Covered
<1>3. /\ a \in Orders /\ b \in Orders /\ c \in Contracts
      /\ a.qty \in Int /\ a.filled \in Int /\ a.booked \in Int /\ a.side \in {"buy", "sell"}
      /\ b.qty \in Int /\ b.filled \in Int /\ b.booked \in Int
  <2>1. a \in Orders /\ b \in Orders
    BY <1>1, <1>2 DEF BooksTyped
  <2> QED BY <1>1, <2>1, OrderFields
<1>4. PICK df, db : df = b.filled - a.filled /\ db = b.booked - a.booked
                    /\ df \in Int /\ db \in Int /\ df >= 0 /\ db >= 0
  BY <1>2, <1>3
<1>5. /\ p2[c] = p[c] + Signed(a, df) /\ l2[c].qty = l[c].qty + Signed(a, db)
      /\ \A d \in Contracts \ {c} : p2[d] = p[d] /\ l2[d].qty = l[d].qty
  BY <1>1, <1>3, <1>4 DEF Moved
<1>6. /\ \A d \in Contracts : p[d] \in Int /\ l[d].qty \in Int
      /\ p[c] \in Int /\ l[c].qty \in Int
  BY <1>3 DEF BooksTyped, Books
<1>7. Signed(a, df) = (IF a.side = "buy" THEN df ELSE -df) /\ Signed(a, db) = (IF a.side = "buy" THEN db ELSE -db)
  BY DEF Signed
<1>8. b.booked <= b.filled /\ b.filled <= b.qty /\ a.booked <= a.filled
  BY <1>2 DEF FillsOK
<1>9. \/ a.status = "open" /\ db <= df
      \/ e # None /\ k = e.order
      \/ x # None /\ k = x.order
  BY <1>1, <1>4 DEF Own
<1>10. \A j \in DOMAIN os2 : FillsOK(os2[j])
  BY <1>1, <1>2 DEF Covered
<1>11. \A j \in DOMAIN os2 : os2[j].status = "open" /\ os2[j].side = "sell" => x # None /\ j = x.order
  BY <1>1, <1>2 DEF Covered
<1>12. ASSUME NEW f \in Contracts, Only(os, p, f), c = f PROVE Only(os2, p2, f)
  <2>1. ASSUME NEW j \in DOMAIN os2, os2[j].status = "open" PROVE os2[j].contract = f
    <3>1. CASE j = k
      BY <1>1, <1>2, <1>12, <3>1
    <3>2. CASE j # k
      BY <1>2, <1>12, <2>1, <3>2 DEF Only
    <3> QED BY <3>1, <3>2
  <2>2. \A d \in Contracts \ {f} : p2[d] = 0
    BY <1>5, <1>12 DEF Only
  <2> QED BY <2>1, <2>2 DEF Only
<1>13. /\ e # None => c = e.contract
       /\ t # None => c = t.contract
  <2>1. e # None => /\ t = None /\ x = None /\ os[e.order].contract = e.contract
                    /\ \A j \in DOMAIN os : os[j].status = "open" => os[j].contract = e.contract
    BY DEF Covered, EntryCovered, Only
  <2>2. t # None => \A j \in DOMAIN os : os[j].status = "open" => os[j].contract = t.contract
    BY DEF Covered, TradeCovered, Only
  <2>3. x # None => x.contract = t.contract /\ os[x.order].contract = x.contract
    BY DEF Covered, ExitCovered
  <2> QED BY <1>1, <1>9, <2>1, <2>2, <2>3
<1>14. /\ a.side = "sell" => x # None /\ k = x.order /\ c = x.contract
       /\ x # None /\ k = x.order => a.side = "sell" /\ c = x.contract /\ e = None
       /\ e # None /\ k = e.order => a.side = "buy" /\ x = None
  <2>1. e # None => x = None /\ os[e.order].side = "buy"
    BY DEF Covered, EntryCovered
  <2>2. x # None => os[x.order].side = "sell" /\ os[x.order].contract = x.contract
    BY DEF Covered, ExitCovered
  <2>3. a.status = "open" /\ a.side = "sell" => x # None /\ k = x.order
    BY <1>1 DEF Covered
  <2> QED BY <1>1, <1>9, <2>1, <2>2, <2>3
<1>15. /\ e # None => l[e.contract].qty + Unbooked(os[e.order]) <= p[e.contract]
       /\ x # None => /\ os[x.order].qty - os[x.order].booked <= l[x.contract].qty
                      /\ l[x.contract].qty <= p[x.contract] + Unbooked(os[x.order])
       /\ \A d \in Contracts : /\ 0 <= l[d].qty
                               /\ x = None \/ d # x.contract => l[d].qty <= p[d]
  BY DEF Covered, EntryCovered, ExitCovered
<1>16. Unbooked(a) = a.filled - a.booked /\ Unbooked(b) = b.filled - b.booked
  BY DEF Unbooked
<1>20. PICK pc, lc, aq, af, ab, bf, bb :
         /\ pc = p[c] /\ lc = l[c].qty /\ aq = a.qty /\ af = a.filled /\ ab = a.booked
         /\ bf = b.filled /\ bb = b.booked
         /\ pc \in Int /\ lc \in Int /\ aq \in Int /\ af \in Int /\ ab \in Int
         /\ bf \in Int /\ bb \in Int
         /\ df = bf - af /\ db = bb - ab /\ df \in Int /\ db \in Int /\ df >= 0 /\ db >= 0
         /\ bb <= bf /\ bf <= aq /\ ab <= af /\ b.qty = aq
  BY <1>2, <1>3, <1>4, <1>6, <1>8
<1>17. CASE a.side = "buy"
  <2>1. p2[c] = p[c] + df /\ l2[c].qty = l[c].qty + db /\ ~(x # None /\ k = x.order)
    BY <1>5, <1>7, <1>14, <1>17
  <2>2. /\ 0 <= l2[c].qty
        /\ x = None \/ c # x.contract => l2[c].qty <= p2[c]
    <3>1. CASE e # None /\ k = e.order
      <4>1. c = e.contract /\ os[e.order] = a
        BY <1>1, <1>13, <3>1
      <4>2. l[c].qty + (a.filled - a.booked) <= p[c]
        BY <1>15, <1>16, <3>1, <4>1
      <4> QED BY <1>15, <1>20, <1>3, <2>1, <4>2
    <3>2. CASE db <= df
      BY <1>3, <1>15, <1>20, <2>1, <3>2
    <3> QED BY <1>9, <2>1, <3>1, <3>2
  <2>3. \A d \in Contracts : /\ 0 <= l2[d].qty
                             /\ x = None \/ d # x.contract => l2[d].qty <= p2[d]
    BY <1>5, <1>15, <2>2
  <2>4. EntryCovered(os2, p2, l2, t, e, x)
    <3>1. SUFFICES ASSUME e # None PROVE EntryCovered(os2, p2, l2, t, e, x)
      BY DEF EntryCovered
    <3>2. /\ t = None /\ x = None /\ os[e.order].side = "buy" /\ os[e.order].contract = e.contract
          /\ Only(os, p, e.contract) /\ e.order \in DOMAIN os /\ e.contract \in Contracts /\ c = e.contract
      BY <1>13, <3>1 DEF Covered, EntryCovered, BooksTyped
    <3>3. Only(os2, p2, e.contract)
      BY <1>12, <3>2
    <3>4. os2[e.order].side = "buy" /\ os2[e.order].contract = e.contract
      BY <1>1, <1>2, <3>2
    <3>5. l2[c].qty + Unbooked(os2[e.order]) <= p2[c]
      <4>1. l[c].qty + Unbooked(os[e.order]) <= p[c]
        BY <1>15, <3>1, <3>2
      <4>2. CASE k = e.order
        <5>1. l[c].qty + (a.filled - a.booked) <= p[c]
          BY <1>1, <1>16, <4>1, <4>2
        <5>2. l2[c].qty + (b.filled - b.booked) <= p2[c]
          BY <1>20, <2>1, <5>1
        <5> QED BY <1>1, <1>16, <4>2, <5>2
      <4>3. CASE k # e.order
        <5>1. os2[e.order] = os[e.order] /\ db <= df
          BY <1>2, <1>9, <2>1, <3>2, <4>3
        <5>2. PICK u : u = Unbooked(os[e.order]) /\ u \in Int
          <6>1. os[e.order] \in Orders
            BY <3>2 DEF BooksTyped
          <6> QED BY <6>1, OrderFields DEF Unbooked
        <5> QED BY <1>20, <2>1, <4>1, <5>1, <5>2
      <4> QED BY <4>2, <4>3
    <3> QED BY <3>2, <3>3, <3>4, <3>5 DEF EntryCovered
  <2>5. TradeCovered(os2, p2, l2, t, x)
    <3>1. SUFFICES ASSUME t # None PROVE TradeCovered(os2, p2, l2, t, x)
      BY DEF TradeCovered
    <3>2. /\ t.qty >= 1 /\ Only(os, p, t.contract) /\ (x = None => t.qty <= l[c].qty)
          /\ t.contract \in Contracts /\ c = t.contract /\ t.qty \in Int
      BY <1>13, <3>1 DEF Covered, TradeCovered, BooksTyped
    <3>3. Only(os2, p2, t.contract)
      BY <1>12, <3>2
    <3>4. x = None => t.qty <= l2[c].qty
      BY <1>20, <2>1, <3>2
    <3> QED BY <3>2, <3>3, <3>4 DEF TradeCovered
  <2>6. ExitCovered(os2, p2, l2, t, x)
    <3>1. SUFFICES ASSUME x # None PROVE ExitCovered(os2, p2, l2, t, x)
      BY DEF ExitCovered
    <3>2. /\ t # None /\ x.contract = t.contract /\ x.order \in DOMAIN os /\ c = x.contract
          /\ os[x.order].side = "sell" /\ os[x.order].contract = x.contract
          /\ t.qty <= os[x.order].qty /\ e = None
      BY <1>13, <3>1 DEF Covered, ExitCovered, EntryCovered, BooksTyped
    <3>3. k # x.order /\ os2[x.order] = os[x.order] /\ db <= df
      BY <1>2, <1>9, <2>1, <3>1, <3>2
    <3>4. PICK u, v : /\ u = Unbooked(os[x.order]) /\ u \in Int
                      /\ v = os[x.order].qty - os[x.order].booked /\ v \in Int
      <4>1. os[x.order] \in Orders
        BY <3>2 DEF BooksTyped
      <4>2. /\ os[x.order].filled \in Int /\ os[x.order].booked \in Int /\ os[x.order].qty \in Int
        BY <4>1, OrderFields
      <4>3. Unbooked(os[x.order]) \in Int /\ os[x.order].qty - os[x.order].booked \in Int
        BY <4>2 DEF Unbooked
      <4> QED BY <4>3
    <3>5. v <= l[c].qty /\ l[c].qty <= p[c] + u
      BY <1>15, <3>1, <3>2, <3>4
    <3>6. v <= l2[c].qty /\ l2[c].qty <= p2[c] + u
      BY <1>20, <2>1, <3>3, <3>4, <3>5
    <3> QED BY <3>2, <3>3, <3>4, <3>6 DEF ExitCovered
  <2> QED BY <1>10, <1>11, <2>3, <2>4, <2>5, <2>6 DEF Covered
<1>18. CASE a.side = "sell"
  <2>1. /\ x # None /\ k = x.order /\ c = x.contract /\ e = None
        /\ p2[c] = p[c] - df /\ l2[c].qty = l[c].qty - db
    BY <1>3, <1>4, <1>5, <1>6, <1>7, <1>14, <1>18
  <2>2. /\ a.qty - a.booked <= l[c].qty /\ l[c].qty <= p[c] + (a.filled - a.booked)
    BY <1>1, <1>15, <1>16, <2>1
  <2>3. /\ b.qty - b.booked <= l2[c].qty /\ l2[c].qty <= p2[c] + (b.filled - b.booked)
        /\ 0 <= l2[c].qty
    BY <1>20, <2>1, <2>2
  <2>4. \A d \in Contracts : /\ 0 <= l2[d].qty
                             /\ x = None \/ d # x.contract => l2[d].qty <= p2[d]
    BY <1>5, <1>15, <2>1, <2>3
  <2>5. /\ t # None /\ x.contract = t.contract /\ t.qty <= a.qty /\ t.contract \in Contracts
    BY <1>1, <2>1 DEF Covered, ExitCovered, BooksTyped
  <2>6. Only(os2, p2, t.contract) /\ t.qty >= 1
    <3>1. Only(os, p, t.contract) /\ t.qty >= 1
      BY <2>5 DEF Covered, TradeCovered
    <3> QED BY <1>12, <2>1, <2>5, <3>1
  <2>7. ExitCovered(os2, p2, l2, t, x)
    BY <1>1, <1>2, <1>16, <1>18, <2>1, <2>3, <2>5 DEF ExitCovered
  <2>8. TradeCovered(os2, p2, l2, t, x) /\ EntryCovered(os2, p2, l2, t, e, x)
    BY <2>1, <2>6 DEF TradeCovered, EntryCovered
  <2> QED BY <1>10, <1>11, <2>4, <2>7, <2>8 DEF Covered
<1> QED BY <1>3, <1>17, <1>18

\* An entry that is gone leaves the books covered.
LEMMA EntryDropped ==
    ASSUME NEW os, NEW p, NEW l, NEW t, NEW e, NEW x, Covered(os, p, l, t, e, x)
    PROVE  Covered(os, p, l, t, None, x)
BY DEF Covered, EntryCovered, TradeCovered, ExitCovered

\* So does an entry that becomes the trade with what the ledger has.
LEMMA Attached ==
    ASSUME NEW os, NEW p, NEW l, NEW t, NEW e, NEW x, Covered(os, p, l, t, e, x), e # None,
           NEW t2, t2 # None, t2.contract = e.contract, t2.qty = l[e.contract].qty, l[e.contract].qty \in Int,
           t2.qty >= 1
    PROVE  Covered(os, p, l, t2, None, x)
<1>1. x = None /\ Only(os, p, t2.contract) /\ t2.qty <= l[t2.contract].qty
  BY DEF Covered, EntryCovered
<1>2. TradeCovered(os, p, l, t2, x) /\ ExitCovered(os, p, l, t2, x) /\ EntryCovered(os, p, l, t2, None, x)
  BY <1>1 DEF TradeCovered, ExitCovered, EntryCovered
<1> QED BY <1>2 DEF Covered

\* A trade that shrinks, or trails its stop, still has what it is for.
LEMMA Shrunk ==
    ASSUME NEW os, NEW p, NEW l, NEW t, NEW e, NEW x, Covered(os, p, l, t, e, x),
           BooksTyped(os, p, l, t, e, x),
           NEW t2, t # None, t2 # None, t2.contract = t.contract, t2.qty \in Int, t2.qty >= 1, t2.qty <= t.qty
    PROVE  Covered(os, p, l, t2, e, x)
<1>1. e = None /\ t.qty \in Int /\ t.contract \in Contracts /\ Only(os, p, t.contract)
      /\ (x = None => t.qty <= l[t.contract].qty)
  BY DEF Covered, EntryCovered, TradeCovered, BooksTyped
<1>2. l[t.contract].qty \in Int
  BY <1>1 DEF BooksTyped, Books
<1>3. TradeCovered(os, p, l, t2, x) /\ EntryCovered(os, p, l, t2, e, x)
  BY <1>1, <1>2 DEF TradeCovered, EntryCovered
<1>4. ExitCovered(os, p, l, t2, x)
  <2>1. SUFFICES ASSUME x # None PROVE ExitCovered(os, p, l, t2, x)
    BY DEF ExitCovered
  <2>2. /\ x.contract = t.contract /\ os[x.order].side = "sell" /\ os[x.order].contract = x.contract
        /\ t.qty <= os[x.order].qty /\ os[x.order].qty \in Int
        /\ os[x.order].qty - os[x.order].booked <= l[x.contract].qty
        /\ l[x.contract].qty <= p[x.contract] + Unbooked(os[x.order])
    <3>1. os[x.order] \in Orders
      BY <2>1 DEF BooksTyped
    <3> QED BY <2>1, <3>1, OrderFields DEF Covered, ExitCovered
  <2>3. t2.qty <= os[x.order].qty
    BY <1>1, <2>2
  <2> QED BY <2>2, <2>3 DEF ExitCovered
<1> QED BY <1>3, <1>4 DEF Covered

\* An exit whose order is over, with all its fills booked, may be forgotten: what
\* the trade is then for is held.
LEMMA ExitDropped ==
    ASSUME NEW os, NEW p, NEW l, NEW t, NEW e, NEW x, Covered(os, p, l, t, e, x),
           BooksTyped(os, p, l, t, e, x), x # None, os[x.order].status # "open",
           os[x.order].filled = os[x.order].booked,
           NEW t2, t2 # None, t2.contract = t.contract, t2.qty >= 1, t2.qty <= l[x.contract].qty
    PROVE  Covered(os, p, l, t2, e, None)
<1>1. /\ t # None /\ x.contract = t.contract /\ e = None /\ Only(os, p, t2.contract)
      /\ l[x.contract].qty <= p[x.contract] + Unbooked(os[x.order])
      /\ x.order \in DOMAIN os /\ x.contract \in Contracts
  BY DEF Covered, ExitCovered, EntryCovered, TradeCovered, BooksTyped
<1>2. /\ os[x.order] \in Orders /\ p[x.contract] \in Int /\ l[x.contract].qty \in Int
  BY <1>1 DEF BooksTyped, Books
<1>3. l[x.contract].qty <= p[x.contract]
  <2>1. os[x.order].filled \in Int
    BY <1>2, OrderFields
  <2>2. Unbooked(os[x.order]) = 0
    BY <2>1 DEF Unbooked
  <2> QED BY <1>1, <1>2, <2>2
<1>4. /\ \A k \in DOMAIN os : FillsOK(os[k])
      /\ \A k \in DOMAIN os : os[k].status = "open" /\ os[k].side = "sell" => FALSE
      /\ \A c \in Contracts : 0 <= l[c].qty /\ l[c].qty <= p[c]
  BY <1>3 DEF Covered
<1>5. /\ EntryCovered(os, p, l, t2, e, None) /\ TradeCovered(os, p, l, t2, None)
      /\ ExitCovered(os, p, l, t2, None)
  BY <1>1 DEF EntryCovered, TradeCovered, ExitCovered
<1> QED BY <1>4, <1>5 DEF Covered

\* An exit after which the ledger has nothing left has sold all it was sent for: the
\* trade is over.
LEMMA Closed ==
    ASSUME NEW os, NEW p, NEW l, NEW t, NEW e, NEW x, Covered(os, p, l, t, e, x),
           BooksTyped(os, p, l, t, e, x), x # None, l[x.contract].qty = 0
    PROVE  Covered(os, p, l, None, e, None)
<1>1. /\ t # None /\ x.contract = t.contract /\ e = None
      /\ os[x.order].qty - os[x.order].booked <= 0
      /\ 0 <= p[x.contract] + Unbooked(os[x.order])
      /\ x.order \in DOMAIN os /\ x.contract \in Contracts
  BY DEF Covered, ExitCovered, EntryCovered, BooksTyped
<1>2. /\ os[x.order] \in Orders /\ p[x.contract] \in Int
  BY <1>1 DEF BooksTyped
<1>3. /\ os[x.order].filled \in Int /\ os[x.order].booked \in Int /\ os[x.order].qty \in Int
      /\ FillsOK(os[x.order])
  BY <1>1, <1>2, OrderFields DEF Covered
<1>4. 0 <= p[x.contract] /\ os[x.order].status # "open"
  BY <1>1, <1>2, <1>3 DEF Unbooked, FillsOK
<1>5. /\ \A k \in DOMAIN os : FillsOK(os[k])
      /\ \A k \in DOMAIN os : os[k].status = "open" /\ os[k].side = "sell" => FALSE
      /\ \A c \in Contracts : 0 <= l[c].qty /\ l[c].qty <= p[c]
  BY <1>4 DEF Covered
<1>6. /\ EntryCovered(os, p, l, None, e, None) /\ TradeCovered(os, p, l, None, None)
      /\ ExitCovered(os, p, l, None, None)
  BY <1>1 DEF EntryCovered, TradeCovered, ExitCovered
<1> QED BY <1>5, <1>6 DEF Covered

\* One more order, and what it has filled and booked when it is taken.
Taken(os, p, l, os2, p2, l2, k) ==
    /\ k \notin DOMAIN os /\ DOMAIN os2 = DOMAIN os \cup {k}
    /\ \A j \in DOMAIN os : os2[j] = os[j]
    /\ os2[k] \in Orders /\ FillsOK(os2[k])
    /\ \A c \in Contracts :
        /\ c # os2[k].contract => p2[c] = p[c] /\ l2[c].qty = l[c].qty
        /\ c = os2[k].contract => /\ p2[c] = p[c] + Signed(os2[k], os2[k].filled)
                                  /\ l2[c].qty = l[c].qty + Signed(os2[k], os2[k].booked)

\* Nothing is held and nothing works when an entry is sent.
LEMMA Bought ==
    ASSUME NEW os, NEW p, NEW l, NEW os2, NEW p2, NEW l2, NEW k,
           BooksTyped(os, p, l, None, None, None), Covered(os, p, l, None, None, None),
           Taken(os, p, l, os2, p2, l2, k), os2[k].side = "buy",
           \A j \in DOMAIN os : os[j].status # "open", \A c \in Contracts : p[c] = 0,
           NEW e2, e2.order = k, e2.contract = os2[k].contract
    PROVE  Covered(os2, p2, l2, None, e2, None)
<1>1. PICK o, c : o = os2[k] /\ c = o.contract
  OBVIOUS
<1>2. /\ o \in Orders /\ FillsOK(o) /\ c \in Contracts /\ o.side = "buy"
      /\ o.filled \in Int /\ o.booked \in Int
      /\ e2.order = k /\ e2.contract = c
  BY <1>1, OrderFields DEF Taken
<1>3. /\ \A d \in Contracts : l[d].qty = 0
  <2>1. \A d \in Contracts : 0 <= l[d].qty /\ l[d].qty <= p[d] /\ p[d] = 0 /\ l[d].qty \in Int
    BY DEF Covered, BooksTyped, Books
  <2> QED BY <2>1
<1>4. /\ p2[c] = o.filled /\ l2[c].qty = o.booked
      /\ \A d \in Contracts \ {c} : p2[d] = 0 /\ l2[d].qty = 0
  <2>1. /\ p2[c] = p[c] + Signed(o, o.filled) /\ l2[c].qty = l[c].qty + Signed(o, o.booked)
        /\ \A d \in Contracts \ {c} : p2[d] = p[d] /\ l2[d].qty = l[d].qty
    BY <1>1, <1>2 DEF Taken
  <2> QED BY <1>2, <1>3, <2>1 DEF Signed
<1>5. 0 <= o.booked /\ o.booked <= o.filled
  BY <1>2 DEF FillsOK
<1>6. \A d \in Contracts : 0 <= l2[d].qty /\ l2[d].qty <= p2[d]
  BY <1>2, <1>4, <1>5
<1>7. /\ \A j \in DOMAIN os2 : FillsOK(os2[j])
      /\ \A j \in DOMAIN os2 : os2[j].status = "open" => j = k /\ os2[j] = o
  BY <1>1, <1>2 DEF Covered, Taken
<1>8. Only(os2, p2, c)
  BY <1>1, <1>4, <1>7 DEF Only
<1>9. l2[c].qty + Unbooked(os2[k]) <= p2[c]
  BY <1>1, <1>2, <1>4 DEF Unbooked
<1>10. /\ EntryCovered(os2, p2, l2, None, e2, None) /\ TradeCovered(os2, p2, l2, None, None)
       /\ ExitCovered(os2, p2, l2, None, None)
  BY <1>1, <1>2, <1>8, <1>9 DEF EntryCovered, TradeCovered, ExitCovered
<1>11. \A j \in DOMAIN os2 : ~(os2[j].status = "open" /\ os2[j].side = "sell")
  BY <1>2, <1>7
<1> QED BY <1>6, <1>7, <1>10, <1>11 DEF Covered

\* An exit is sent for the quantity of the trade, which the ledger has.
LEMMA Sold ==
    ASSUME NEW os, NEW p, NEW l, NEW t, NEW e, NEW os2, NEW p2, NEW l2, NEW k,
           BooksTyped(os, p, l, t, e, None), Covered(os, p, l, t, e, None),
           Taken(os, p, l, os2, p2, l2, k), os2[k].side = "sell",
           t # None, os2[k].contract = t.contract, os2[k].qty = t.qty,
           NEW x2, x2 # None, x2.order = k, x2.contract = t.contract
    PROVE  Covered(os2, p2, l2, t, e, x2)
<1>1. PICK o, c : o = os2[k] /\ c = o.contract
  OBVIOUS
<1>2. /\ o \in Orders /\ FillsOK(o) /\ c \in Contracts /\ o.side = "sell"
      /\ o.filled \in Int /\ o.booked \in Int /\ o.qty \in Int
      /\ x2.order = k /\ x2.contract = c /\ t.contract = c /\ o.qty = t.qty
  BY <1>1, OrderFields DEF Taken
<1>3. /\ e = None /\ t.qty >= 1 /\ Only(os, p, c) /\ t.qty <= l[c].qty /\ l[c].qty <= p[c]
      /\ p[c] \in Int /\ l[c].qty \in Int
      /\ \A d \in Contracts : 0 <= l[d].qty /\ l[d].qty <= p[d]
  BY <1>2 DEF Covered, EntryCovered, TradeCovered, BooksTyped, Books
<1>4. /\ p2[c] = p[c] - o.filled /\ l2[c].qty = l[c].qty - o.booked
      /\ \A d \in Contracts \ {c} : p2[d] = p[d] /\ l2[d].qty = l[d].qty
  <2>1. /\ p2[c] = p[c] + Signed(o, o.filled) /\ l2[c].qty = l[c].qty + Signed(o, o.booked)
        /\ \A d \in Contracts \ {c} : p2[d] = p[d] /\ l2[d].qty = l[d].qty
    BY <1>1, <1>2 DEF Taken
  <2> QED BY <1>2, <1>3, <2>1 DEF Signed
<1>5. 0 <= o.booked /\ o.booked <= o.filled /\ o.filled <= o.qty
  BY <1>2 DEF FillsOK
<1>6. /\ 0 <= l2[c].qty /\ o.qty - o.booked <= l2[c].qty
      /\ l2[c].qty <= p2[c] + (o.filled - o.booked)
  BY <1>2, <1>3, <1>4, <1>5
<1>7. \A d \in Contracts : /\ 0 <= l2[d].qty
                           /\ d # c => l2[d].qty <= p2[d]
  BY <1>3, <1>4, <1>6
<1>8. /\ \A j \in DOMAIN os2 : FillsOK(os2[j])
      /\ \A j \in DOMAIN os2 : os2[j].status = "open" => j = k \/ (j \in DOMAIN os /\ os2[j] = os[j])
  BY <1>1, <1>2 DEF Covered, Taken
<1>9. \A j \in DOMAIN os : ~(os[j].status = "open" /\ os[j].side = "sell")
  BY DEF Covered
<1>10. Only(os2, p2, c)
  BY <1>1, <1>3, <1>4, <1>8 DEF Only
<1>11. Unbooked(os2[k]) = o.filled - o.booked
  BY <1>1 DEF Unbooked
<1>12. ExitCovered(os2, p2, l2, t, x2)
  BY <1>1, <1>2, <1>3, <1>6, <1>11 DEF ExitCovered
<1>13. TradeCovered(os2, p2, l2, t, x2) /\ EntryCovered(os2, p2, l2, t, e, x2)
  BY <1>2, <1>3, <1>10 DEF EntryCovered, TradeCovered
<1>14. \A j \in DOMAIN os2 : os2[j].status = "open" /\ os2[j].side = "sell" => x2 # None /\ j = x2.order
  BY <1>2, <1>8, <1>9
<1>15. \A d \in Contracts : 0 <= l2[d].qty /\ (x2 = None \/ d # x2.contract => l2[d].qty <= p2[d])
  BY <1>2, <1>7
<1> QED BY <1>8, <1>12, <1>13, <1>14, <1>15 DEF Covered

-----------------------------------------------------------------------------
(* The steps of the session on these books                                 *)

(* Nothing is held that the session does not manage                        *)

\* Entries are filled as a whole.  Every working order is then the pending entry or
\* exit, and broker and ledger differ by no more than what is unbooked of these: what
\* is held is the entry's, or what the trade is for.
EntryWhole(os, p, l, t, e, x) ==
    /\ \A k \in DOMAIN os : os[k].side = "buy" =>
         /\ os[k].booked = 0 \/ os[k].booked = os[k].filled
         /\ os[k].status = "open" => e # None /\ k = e.order /\ os[k].filled = 0
    /\ t = None /\ e = None => \A c \in Contracts : p[c] = 0
    /\ e # None => /\ p[e.contract] = os[e.order].filled
                   /\ l[e.contract].qty = os[e.order].booked

TradeWhole(os, p, l, t, x) ==
    /\ t # None /\ x = None => p[t.contract] = l[t.contract].qty /\ t.qty = l[t.contract].qty
    /\ x # None => /\ p[x.contract] = l[x.contract].qty - Unbooked(os[x.order])
                   /\ l[x.contract].qty = os[x.order].qty - os[x.order].booked
                   /\ os[x.order].booked = 0 => t.qty = os[x.order].qty

Whole(os, p, l, t, e, x) ==
    /\ BooksTyped(os, p, l, t, e, x) /\ Covered(os, p, l, t, e, x)
    /\ EntryWhole(os, p, l, t, e, x) /\ TradeWhole(os, p, l, t, x)

\* What may move then: a purchase is filled at once, and booked as a whole.
MayMoveWhole(os, p, l, os2, p2, l2, t, e, x, k) ==
    /\ MayMove(os, p, l, os2, p2, l2, t, e, x, k)
    /\ BooksTyped(os2, p2, l2, t, e, x)
    /\ EntryWhole(os, p, l, t, e, x) /\ TradeWhole(os, p, l, t, x)
    /\ os[k].side = "buy" =>
         /\ os2[k].booked = 0 \/ os2[k].booked = os2[k].filled
         /\ os2[k].status = "open" => os2[k].filled = os[k].filled

\* An order that moves keeps the books whole.
LEMMA MoveWhole ==
    ASSUME NEW os, NEW p, NEW l, NEW os2, NEW p2, NEW l2, NEW t, NEW e, NEW x, NEW k,
           MayMoveWhole(os, p, l, os2, p2, l2, t, e, x, k)
    PROVE  Whole(os2, p2, l2, t, e, x)
<1>1. /\ k \in DOMAIN os /\ BooksTyped(os, p, l, t, e, x) /\ os2[k] \in Orders
      /\ Covered(os, p, l, t, e, x) /\ Moved(os, p, l, os2, p2, l2, k)
      /\ MayMove(os, p, l, os2, p2, l2, t, e, x, k)
      /\ EntryWhole(os, p, l, t, e, x) /\ TradeWhole(os, p, l, t, x)
      /\ BooksTyped(os2, p2, l2, t, e, x)
  BY DEF MayMove, MayMoveWhole
<1>2. PICK a, b, c : a = os[k] /\ b = os2[k] /\ c = a.contract
  OBVIOUS
<1>3. /\ a \in Orders /\ b \in Orders /\ c \in Contracts
      /\ a.qty \in Int /\ a.filled \in Int /\ a.booked \in Int /\ a.side \in {"buy", "sell"}
      /\ a.status \in {"open", "filled", "rejected", "cancelled"}
      /\ b.qty \in Int /\ b.filled \in Int /\ b.booked \in Int
  <2>1. a \in Orders /\ b \in Orders
    BY <1>1, <1>2 DEF BooksTyped
  <2> QED BY <1>2, <2>1, OrderFields
<1>4. /\ DOMAIN os2 = DOMAIN os /\ \A j \in DOMAIN os \ {k} : os2[j] = os[j]
      /\ b.side = a.side /\ b.contract = c /\ b.qty = a.qty
      /\ b.status = "open" => a.status = "open"
  BY <1>1, <1>2 DEF Moved
<1>5. PICK df, db : /\ df = b.filled - a.filled /\ db = b.booked - a.booked
                    /\ df \in Int /\ db \in Int
  BY <1>3
<1>6. /\ p2[c] = p[c] + Signed(a, df) /\ l2[c].qty = l[c].qty + Signed(a, db)
      /\ \A d \in Contracts \ {c} : p2[d] = p[d] /\ l2[d].qty = l[d].qty
  BY <1>1, <1>2, <1>3, <1>5 DEF Moved
<1>7. /\ p[c] \in Int /\ l[c].qty \in Int
  BY <1>1, <1>3 DEF BooksTyped, Books
<1>8. \/ e # None /\ k = e.order /\ a.side = "buy" /\ c = e.contract /\ t = None /\ x = None
      \/ x # None /\ k = x.order /\ a.side = "sell" /\ c = x.contract /\ t # None /\ e = None
  <2>1. e # None => /\ os[e.order].side = "buy" /\ os[e.order].contract = e.contract
                    /\ t = None /\ x = None
    BY <1>1 DEF Covered, EntryCovered
  <2>2. x # None => /\ os[x.order].side = "sell" /\ os[x.order].contract = x.contract
                    /\ t # None
    BY <1>1 DEF Covered, ExitCovered
  <2>3. (e # None /\ k = e.order) \/ (x # None /\ k = x.order)
    <3>1. Own(k, e, x) \/ a.status = "open"
      BY <1>1, <1>2 DEF MayMove
    <3>2. a.status = "open" /\ a.side = "sell" => x # None /\ k = x.order
      BY <1>1, <1>2 DEF Covered
    <3>3. a.status = "open" /\ a.side = "buy" => e # None /\ k = e.order
      BY <1>1, <1>2 DEF EntryWhole
    <3> QED BY <1>3, <3>1, <3>2, <3>3 DEF Own
  <2> QED BY <1>2, <2>1, <2>2, <2>3
<1>9. Covered(os2, p2, l2, t, e, x)
  BY <1>1, MoveCovered
<1>10. ASSUME NEW j \in DOMAIN os2, os2[j].side = "buy"
       PROVE  /\ os2[j].booked = 0 \/ os2[j].booked = os2[j].filled
              /\ os2[j].status = "open" => e # None /\ j = e.order /\ os2[j].filled = 0
  <2>1. CASE j # k
    BY <1>1, <1>4, <1>10, <2>1 DEF EntryWhole
  <2>2. CASE j = k
    <3>1. a.side = "buy" /\ e # None /\ k = e.order
      BY <1>2, <1>4, <1>8, <1>10, <2>2
    <3>2. /\ b.booked = 0 \/ b.booked = b.filled
          /\ b.status = "open" => b.filled = a.filled
      BY <1>2, <3>1 DEF MayMoveWhole
    <3>3. a.status = "open" => a.filled = 0
      BY <1>1, <1>2, <3>1 DEF EntryWhole
    <3> QED BY <1>2, <1>4, <2>2, <3>1, <3>2, <3>3
  <2> QED BY <2>1, <2>2
<1>11. CASE e # None /\ k = e.order /\ a.side = "buy" /\ c = e.contract /\ t = None /\ x = None
  <2>1. p[c] = a.filled /\ l[c].qty = a.booked
    BY <1>1, <1>2, <1>11 DEF EntryWhole
  <2>2. p2[c] = b.filled /\ l2[c].qty = b.booked
    BY <1>3, <1>5, <1>6, <1>11, <2>1 DEF Signed
  <2>3. EntryWhole(os2, p2, l2, t, e, x) /\ TradeWhole(os2, p2, l2, t, x)
    BY <1>2, <1>10, <1>11, <2>2 DEF EntryWhole, TradeWhole
  <2> QED BY <1>1, <1>9, <2>3 DEF Whole
<1>12. CASE x # None /\ k = x.order /\ a.side = "sell" /\ c = x.contract /\ t # None /\ e = None
  <2>1. /\ p[c] = l[c].qty - (a.filled - a.booked) /\ l[c].qty = a.qty - a.booked
        /\ a.booked = 0 => t.qty = a.qty
    BY <1>1, <1>2, <1>12 DEF TradeWhole, Unbooked
  <2>2. p2[c] = p[c] - df /\ l2[c].qty = l[c].qty - db
    BY <1>3, <1>5, <1>6, <1>7, <1>12 DEF Signed
  <2>3. p2[c] = l2[c].qty - (b.filled - b.booked) /\ l2[c].qty = b.qty - b.booked
    BY <1>3, <1>4, <1>5, <1>7, <2>1, <2>2
  <2>4. b.booked = 0 => t.qty = b.qty
    <3>1. a.booked <= b.booked /\ 0 <= a.booked
      BY <1>1, <1>2 DEF Moved, Covered, FillsOK
    <3> QED BY <1>3, <1>4, <2>1, <3>1
  <2>5. EntryWhole(os2, p2, l2, t, e, x) /\ TradeWhole(os2, p2, l2, t, x)
    BY <1>2, <1>10, <1>12, <2>3, <2>4 DEF EntryWhole, TradeWhole, Unbooked
  <2> QED BY <1>1, <1>9, <2>5 DEF Whole
<1> QED BY <1>8, <1>11, <1>12

\* An entry that is gone has filled nothing.
LEMMA WholeDropped ==
    ASSUME NEW os, NEW p, NEW l, NEW t, NEW e, NEW x, Whole(os, p, l, t, e, x),
           e # None, os[e.order].status # "open", os[e.order].filled = 0
    PROVE  EntryWhole(os, p, l, t, None, x) /\ TradeWhole(os, p, l, t, x)
<1>1. t = None /\ x = None /\ Only(os, p, e.contract) /\ e.contract \in Contracts
  BY DEF Whole, Covered, EntryCovered, BooksTyped
<1>2. \A c \in Contracts : p[c] = 0
  BY <1>1 DEF Whole, EntryWhole, Only
<1> QED BY <1>1, <1>2 DEF Whole, EntryWhole, TradeWhole

\* An entry of which the ledger has something is filled: the trade is for all of it.
LEMMA WholeAttached ==
    ASSUME NEW os, NEW p, NEW l, NEW t, NEW e, NEW x, Whole(os, p, l, t, e, x), e # None,
           l[e.contract].qty >= 1,
           NEW t2, t2 # None, t2.contract = e.contract, t2.qty = l[e.contract].qty
    PROVE  EntryWhole(os, p, l, t2, None, x) /\ TradeWhole(os, p, l, t2, x)
<1>1. /\ x = None /\ os[e.order].side = "buy" /\ e.order \in DOMAIN os
      /\ p[e.contract] = os[e.order].filled /\ l[e.contract].qty = os[e.order].booked
  BY DEF Whole, Covered, EntryCovered, EntryWhole, BooksTyped
<1>2. /\ os[e.order].filled \in Int /\ os[e.order].booked \in Int /\ FillsOK(os[e.order])
  <2>1. os[e.order] \in Orders
    BY <1>1 DEF Whole, BooksTyped
  <2> QED BY <1>1, <2>1, OrderFields DEF Whole, Covered
<1>3. os[e.order].booked = os[e.order].filled /\ os[e.order].status # "open"
  BY <1>1, <1>2 DEF Whole, EntryWhole, FillsOK
<1>4. \A k \in DOMAIN os : os[k].side = "buy" =>
         /\ os[k].booked = 0 \/ os[k].booked = os[k].filled
         /\ os[k].status # "open"
  BY <1>3 DEF Whole, EntryWhole
<1> QED BY <1>1, <1>3, <1>4 DEF EntryWhole, TradeWhole

\* An exit that is over has sold nothing, or all.
LEMMA WholeExitDropped ==
    ASSUME NEW os, NEW p, NEW l, NEW t, NEW e, NEW x, Whole(os, p, l, t, e, x), x # None,
           os[x.order].filled = os[x.order].booked, os[x.order].booked = 0
    PROVE  EntryWhole(os, p, l, t, e, None) /\ TradeWhole(os, p, l, t, None)
<1>1. /\ t # None /\ x.contract = t.contract /\ e = None
      /\ x.order \in DOMAIN os /\ x.contract \in Contracts
  BY DEF Whole, Covered, ExitCovered, EntryCovered, BooksTyped
<1>2. /\ os[x.order] \in Orders /\ l[x.contract].qty \in Int
  BY <1>1 DEF Whole, BooksTyped, Books
<1>3. p[x.contract] = l[x.contract].qty /\ t.qty = l[x.contract].qty
  BY <1>2, OrderFields DEF Whole, TradeWhole, Unbooked
<1> QED BY <1>1, <1>3 DEF Whole, EntryWhole, TradeWhole

\* A trade that is over leaves nothing.
LEMMA WholeClosed ==
    ASSUME NEW os, NEW p, NEW l, NEW t, NEW e, NEW x, Whole(os, p, l, t, e, x), x # None,
           l[x.contract].qty = 0
    PROVE  EntryWhole(os, p, l, None, e, None) /\ TradeWhole(os, p, l, None, None)
<1>1. /\ t # None /\ x.contract = t.contract /\ e = None /\ Only(os, p, t.contract)
      /\ x.order \in DOMAIN os /\ x.contract \in Contracts
  BY DEF Whole, Covered, ExitCovered, EntryCovered, TradeCovered, BooksTyped
<1>2. /\ os[x.order] \in Orders /\ FillsOK(os[x.order]) /\ p[x.contract] \in Int
  BY <1>1 DEF Whole, BooksTyped, Covered
<1>3. os[x.order].qty \in Int /\ os[x.order].filled \in Int /\ os[x.order].booked \in Int
  BY <1>2, OrderFields
<1>4. os[x.order].qty - os[x.order].booked = 0 /\ p[x.contract] = 0 - Unbooked(os[x.order])
  BY DEF Whole, TradeWhole
<1>5. p[x.contract] = 0
  BY <1>2, <1>3, <1>4 DEF FillsOK, Unbooked
<1>6. \A c \in Contracts : p[c] = 0
  BY <1>1, <1>5 DEF Only
<1> QED BY <1>1, <1>6 DEF Whole, EntryWhole, TradeWhole

\* A trade shrinks only as its exit is filled.
LEMMA WholeShrunk ==
    ASSUME NEW os, NEW p, NEW l, NEW t, NEW e, NEW x, Whole(os, p, l, t, e, x),
           NEW t2, t # None, t2 # None, t2.contract = t.contract,
           t2.qty = t.qty \/ (x # None /\ os[x.order].booked # 0)
    PROVE  EntryWhole(os, p, l, t2, e, x) /\ TradeWhole(os, p, l, t2, x)
  BY DEF Whole, EntryWhole, TradeWhole

\* An entry is bought while nothing is held.
LEMMA WholeBought ==
    ASSUME NEW os, NEW p, NEW l, NEW os2, NEW p2, NEW l2, NEW k,
           Whole(os, p, l, None, None, None),
           Taken(os, p, l, os2, p2, l2, k), os2[k].side = "buy",
           os2[k].booked = 0 \/ os2[k].booked = os2[k].filled,
           os2[k].status = "open" => os2[k].filled = 0,
           \A j \in DOMAIN os : os[j].status # "open", \A c \in Contracts : p[c] = 0,
           NEW e2, e2 # None, e2.order = k, e2.contract = os2[k].contract
    PROVE  EntryWhole(os2, p2, l2, None, e2, None) /\ TradeWhole(os2, p2, l2, None, None)
<1>1. PICK o, c : o = os2[k] /\ c = o.contract
  OBVIOUS
<1>2. /\ o \in Orders /\ c \in Contracts /\ o.filled \in Int /\ o.booked \in Int
      /\ \A j \in DOMAIN os : os2[j] = os[j]
      /\ DOMAIN os2 = DOMAIN os \cup {k}
  BY <1>1, OrderFields DEF Taken
<1>3. p[c] = 0 /\ l[c].qty = 0
  <2>1. 0 <= l[c].qty /\ l[c].qty <= p[c] /\ p[c] = 0 /\ l[c].qty \in Int
    BY <1>2 DEF Whole, Covered, BooksTyped, Books
  <2> QED BY <2>1
<1>4. p2[c] = o.filled /\ l2[c].qty = o.booked
  <2>1. p2[c] = p[c] + Signed(o, o.filled) /\ l2[c].qty = l[c].qty + Signed(o, o.booked)
    BY <1>1, <1>2 DEF Taken
  <2> QED BY <1>1, <1>2, <1>3, <2>1 DEF Signed
<1>5. \A j \in DOMAIN os2 : os2[j].side = "buy" =>
         /\ os2[j].booked = 0 \/ os2[j].booked = os2[j].filled
         /\ os2[j].status = "open" => j = k /\ os2[j].filled = 0
  BY <1>2 DEF Whole, EntryWhole
<1> QED BY <1>1, <1>4, <1>5 DEF EntryWhole, TradeWhole

\* An exit is for all that is held.
LEMMA WholeSold ==
    ASSUME NEW os, NEW p, NEW l, NEW t, NEW e, NEW os2, NEW p2, NEW l2, NEW k,
           Whole(os, p, l, t, e, None),
           Taken(os, p, l, os2, p2, l2, k), os2[k].side = "sell",
           t # None, os2[k].contract = t.contract, os2[k].qty = t.qty,
           NEW x2, x2 # None, x2.order = k, x2.contract = t.contract
    PROVE  EntryWhole(os2, p2, l2, t, e, x2) /\ TradeWhole(os2, p2, l2, t, x2)
<1>1. PICK o, c : o = os2[k] /\ c = o.contract
  OBVIOUS
<1>2. /\ o \in Orders /\ c \in Contracts /\ o.filled \in Int /\ o.booked \in Int /\ o.qty \in Int
      /\ \A j \in DOMAIN os : os2[j] = os[j]
      /\ DOMAIN os2 = DOMAIN os \cup {k}
      /\ x2.order = k /\ x2.contract = c /\ t.contract = c /\ o.qty = t.qty
  BY <1>1, OrderFields DEF Taken
<1>3. p[c] = l[c].qty /\ t.qty = l[c].qty /\ p[c] \in Int /\ l[c].qty \in Int /\ e = None
  BY <1>2 DEF Whole, TradeWhole, BooksTyped, Books, Covered, EntryCovered
<1>4. p2[c] = p[c] - o.filled /\ l2[c].qty = l[c].qty - o.booked
  <2>1. p2[c] = p[c] + Signed(o, o.filled) /\ l2[c].qty = l[c].qty + Signed(o, o.booked)
    BY <1>1, <1>2 DEF Taken
  <2> QED BY <1>1, <1>2, <1>3, <2>1 DEF Signed
<1>5. p2[c] = l2[c].qty - (o.filled - o.booked) /\ l2[c].qty = o.qty - o.booked
  BY <1>2, <1>3, <1>4
<1>6. TradeWhole(os2, p2, l2, t, x2)
  BY <1>1, <1>2, <1>5 DEF TradeWhole, Unbooked
<1>7. \A j \in DOMAIN os2 : os2[j].side = "buy" => j \in DOMAIN os /\ os2[j] = os[j]
  BY <1>2
<1>8. EntryWhole(os2, p2, l2, t, e, x2)
  BY <1>3, <1>7 DEF Whole, EntryWhole
<1> QED BY <1>6, <1>8

\* What a step does to whole books.
StaysWhole ==
    Whole(orders, posn, lpos, trade, entry, exit) =>
        /\ EntryWhole(orders', posn', lpos', trade', entry', exit')
        /\ TradeWhole(orders', posn', lpos', trade', exit')

\* What the books of the session are.
LEMMA TypedNow == ASSUME DataOK PROVE BooksTyped(orders, posn, lpos, trade, entry, exit)
<1>1. /\ trade # None => trade.contract \in Contracts /\ trade.qty \in Int
      /\ entry # None => entry.order \in DOMAIN orders /\ entry.contract \in Contracts
      /\ exit # None => exit.order \in DOMAIN orders /\ exit.contract \in Contracts
  BY DEF DataOK, OpenTrades, PendingEntries, PendingExits
<1> QED BY <1>1 DEF DataOK, BooksTyped

\* Booking a fill moves the ledger's position of its contract, unless a sale is
\* of more than the ledger has.
LEMMA BookMoves ==
    ASSUME NEW l \in Books, NEW o \in Orders, NEW n \in Int, n >= 0,
           o.side = "sell" => n <= l[o.contract].qty, NEW c \in Contracts
    PROVE  /\ c # o.contract => Book(l, o, n)[c].qty = l[c].qty
           /\ c = o.contract => Book(l, o, n)[c].qty = l[c].qty + Signed(o, n)
<1>1. PICK d : d = o.contract /\ d \in Contracts
  BY DEF Orders
<1>2. PICK q, a, r : l[d] = [qty |-> q, avg |-> a, realized |-> r] /\ q \in Int
  BY <1>1 DEF Books
<1>3. l[c].qty \in Int
  BY DEF Books
<1>4. CASE n = 0
  <2>1. Book(l, o, n) = l
    BY <1>4 DEF Book
  <2> QED BY <1>1, <1>3, <1>4, <2>1 DEF Signed
<1>5. CASE n # 0
  <2>1. PICK p : p = l[d] /\ p.qty = q /\ DOMAIN p = {"qty", "avg", "realized"}
    BY <1>2
  <2>2. PICK g : g = (p.realized + (o.price - p.avg) * (IF n < q THEN n ELSE q))
    OBVIOUS
  <2>3. PICK m : m = q - (IF n < q THEN n ELSE q)
    OBVIOUS
  <2>4. PICK u, v : u = q + n /\ v = q - n
    OBVIOUS
  <2>5. PICK x : x = (IF o.side = "buy" THEN [p EXCEPT !.qty = u, !.avg = o.price]
                      ELSE IF q <= 0 THEN [p EXCEPT !.qty = v, !.avg = o.price]
                      ELSE [p EXCEPT !.qty = m, !.realized = g])
    OBVIOUS
  <2>6. Book(l, o, n) = [l EXCEPT ![d] = x]
    BY <1>1, <1>5, <2>1, <2>2, <2>3, <2>4, <2>5 DEF Book
  <2>7. x.qty = IF o.side = "buy" THEN u ELSE IF q <= 0 THEN v ELSE m
    BY <2>1, <2>5
  <2>8. o.side \in {"buy", "sell"}
    BY OrderFields
  <2>9. o.side = "sell" => n <= q
    BY <1>1, <2>1
  <2>10. x.qty = q + Signed(o, n)
    BY <1>2, <1>5, <2>3, <2>4, <2>7, <2>8, <2>9 DEF Signed
  <2>11. DOMAIN l = Contracts
    BY DEF Books
  <2> QED BY <1>1, <2>1, <2>6, <2>10, <2>11
<1> QED BY <1>4, <1>5

\* A poll books the fills of an order, or learns that it is gone.
LEMMA PollFills ==
    ASSUME NEW a \in Orders, FillsOK(a), NEW b, b = Polled(a)
    PROVE  /\ b.side = a.side /\ b.contract = a.contract /\ b.qty = a.qty
           /\ b.status = a.status /\ b.filled = a.filled
           /\ FillsOK(b) /\ a.booked <= b.booked
           /\ b.booked = a.booked \/ b.booked = b.filled
           /\ a.known # "unknown" => b.known # "unknown"
<1>1. a.qty \in Int /\ a.filled \in Int /\ a.booked \in Int
  BY OrderFields
<1>2. CASE a.status \in {"cancelled", "rejected"}
  <2>1. b = [a EXCEPT !.known = a.status]
    BY <1>2 DEF Polled
  <2>2. /\ b.side = a.side /\ b.contract = a.contract /\ b.qty = a.qty /\ b.status = a.status
        /\ b.filled = a.filled /\ b.booked = a.booked /\ b.known = a.status
    BY <2>1 DEF Orders
  <2> QED BY <1>1, <1>2, <2>2 DEF FillsOK
<1>3. CASE a.status = "filled" /\ Verified
  <2>1. b = [a EXCEPT !.known = "filled", !.booked = a.qty]
    BY <1>3 DEF Polled
  <2>2. /\ b.side = a.side /\ b.contract = a.contract /\ b.qty = a.qty /\ b.status = a.status
        /\ b.filled = a.filled /\ b.booked = a.qty /\ b.known = "filled"
    BY <2>1 DEF Orders
  <2> QED BY <1>1, <1>3, <2>2 DEF FillsOK
<1>4. CASE ~(a.status \in {"cancelled", "rejected"}) /\ ~(a.status = "filled" /\ Verified)
  <2>1. b = a
    BY <1>4 DEF Polled
  <2> QED BY <1>1, <2>1
<1> QED BY <1>2, <1>3, <1>4

\* What a poll of the order k makes of it, of the orders and of the ledger.
Polls(k, o, os2, l2) ==
    /\ k \in DOMAIN orders /\ o = Polled(orders[k]) /\ os2 = [orders EXCEPT ![k] = o]
    /\ l2 = Book(lpos, orders[k], o.booked - orders[k].booked)

\* Polling the pending entry or exit keeps the books covered.
LEMMA PollCovered ==
    ASSUME DataOK, Covered(orders, posn, lpos, trade, entry, exit),
           NEW k, NEW o, NEW os2, NEW l2, Polls(k, o, os2, l2), Own(k, entry, exit)
    PROVE  /\ Covered(os2, posn, l2, trade, entry, exit)
           /\ BooksTyped(os2, posn, l2, trade, entry, exit)
           /\ os2[k] = o /\ FillsOK(o) /\ o.status = orders[k].status
           /\ Whole(orders, posn, lpos, trade, entry, exit) =>
                Whole(os2, posn, l2, trade, entry, exit)
<1>0. /\ k \in DOMAIN orders /\ o = Polled(orders[k]) /\ os2 = [orders EXCEPT ![k] = o]
      /\ l2 = Book(lpos, orders[k], o.booked - orders[k].booked)
  BY DEF Polls
<1> USE <1>0
<1>1. PICK a : a = orders[k] /\ a \in Orders /\ FillsOK(a)
  BY DEF DataOK, Covered
<1>2. /\ o.side = a.side /\ o.contract = a.contract /\ o.qty = a.qty
      /\ o.status = a.status /\ o.filled = a.filled
      /\ FillsOK(o) /\ a.booked <= o.booked
      /\ o.booked = a.booked \/ o.booked = o.filled
  BY <1>1, PollFills
<1>3. o \in Orders /\ l2 \in Books /\ os2 \in Seq(Orders) /\ DOMAIN os2 = DOMAIN orders
  BY PollBooks
<1>4. os2[k] = o /\ \A j \in DOMAIN orders \ {k} : os2[j] = orders[j]
  BY DEF DataOK
<1>5. /\ a.qty \in Int /\ a.filled \in Int /\ a.booked \in Int /\ o.booked \in Int
      /\ a.side \in {"buy", "sell"} /\ a.contract \in Contracts
  BY <1>1, <1>3, OrderFields
<1>6. a.side = "sell" => o.booked - a.booked <= lpos[a.contract].qty
  <2>1. SUFFICES ASSUME a.side = "sell" PROVE o.booked - a.booked <= lpos[a.contract].qty
    OBVIOUS
  <2>2. exit # None /\ k = exit.order
    BY <1>1, <2>1 DEF Own, Covered, EntryCovered
  <2>3. a.contract = exit.contract /\ a.qty - a.booked <= lpos[exit.contract].qty
    BY <1>1, <2>2 DEF Covered, ExitCovered
  <2>4. o.booked <= a.qty
    <3>1. o.filled \in Int /\ o.qty \in Int
      BY <1>3, OrderFields
    <3> QED BY <1>2, <1>5, <3>1 DEF FillsOK
  <2>5. lpos[a.contract].qty \in Int
    BY <1>5 DEF DataOK, Books
  <2> QED BY <1>5, <2>3, <2>4, <2>5
<1>7. o.booked - a.booked \in Int /\ o.booked - a.booked >= 0
  BY <1>2, <1>5
<1>8. lpos \in Books /\ posn \in [Contracts -> Int]
  BY DEF DataOK
<1>9. \A c \in Contracts :
         /\ c # a.contract => posn[c] = posn[c] /\ l2[c].qty = lpos[c].qty
         /\ c = a.contract => l2[c].qty = lpos[c].qty + Signed(a, o.booked - a.booked)
  BY <1>1, <1>6, <1>7, <1>8, BookMoves
<1>10. \A c \in Contracts : posn[c] = posn[c] + Signed(a, o.filled - a.filled)
  BY <1>2, <1>5, <1>8 DEF Signed
<1>11. Moved(orders, posn, lpos, os2, posn, l2, k)
  BY <1>1, <1>2, <1>3, <1>4, <1>5, <1>9, <1>10 DEF Moved
<1>12. MayMove(orders, posn, lpos, os2, posn, l2, trade, entry, exit, k)
  BY <1>3, <1>4, <1>11, TypedNow DEF MayMove
<1>13. BooksTyped(os2, posn, l2, trade, entry, exit)
  BY <1>3, TypedNow DEF BooksTyped
<1>14. ASSUME Whole(orders, posn, lpos, trade, entry, exit)
       PROVE  Whole(os2, posn, l2, trade, entry, exit)
  <2>1. EntryWhole(orders, posn, lpos, trade, entry, exit) /\ TradeWhole(orders, posn, lpos, trade, exit)
    BY <1>14 DEF Whole
  <2>2. a.side = "buy" => a.booked = 0 \/ a.booked = a.filled
    BY <1>1, <2>1 DEF EntryWhole
  <2>3. MayMoveWhole(orders, posn, lpos, os2, posn, l2, trade, entry, exit, k)
    BY <1>1, <1>2, <1>4, <1>12, <1>13, <2>1, <2>2 DEF MayMoveWhole
  <2> QED BY <2>3, MoveWhole
<1>15. Covered(os2, posn, l2, trade, entry, exit)
  BY <1>12, MoveCovered
<1> QED BY <1>1, <1>2, <1>4, <1>13, <1>14, <1>15

\* _reconcile_pending_entry keeps the books covered.
LEMMA EntryBooks ==
    ASSUME DataOK, Covered(orders, posn, lpos, trade, entry, exit), cfg.live,
           ReconcilePendingEntry, UNCHANGED <<posn, exit>>
    PROVE  Covered(orders', posn', lpos', trade', entry', exit') /\ StaysWhole
<1>1. CASE UNCHANGED <<trade, entry, alloc, budget, engine, orders, lpos>>
  BY <1>1 DEF Whole, StaysWhole
<1>2. CASE entry # None /\ trade = None /\ ReconcileEntryLedger
  <2>1. PICK k, o, l, os : /\ k = entry.order /\ o = Polled(orders[k])
                           /\ l = Book(lpos, orders[k], o.booked - orders[k].booked)
                           /\ os = [orders EXCEPT ![k] = o]
    OBVIOUS
  <2>2. k \in DOMAIN orders /\ entry.contract \in Contracts /\ Own(k, entry, exit)
    BY <1>2, <2>1 DEF DataOK, PendingEntries, Own
  <2>3. /\ Covered(os, posn, l, trade, entry, exit) /\ os[k] = o /\ FillsOK(o) /\ o \in Orders
        /\ Whole(orders, posn, lpos, trade, entry, exit) => Whole(os, posn, l, trade, entry, exit)
    <3>1. Polls(k, o, os, l)
      BY <2>1, <2>2 DEF Polls
    <3>2. o \in Orders
      BY <2>1, <2>2, PollBooks
    <3> QED BY <2>2, <3>1, <3>2, PollCovered
  <2>4. l \in Books
    BY <2>1, <2>2, PollBooks
  <2>5. /\ orders' = os /\ lpos' = l /\ posn' = posn /\ exit' = exit
        /\ \/ o.known \in {"cancelled", "rejected"} /\ EntryGone
           \/ /\ l[entry.contract].qty > 0
              /\ AttachOpenTrade(l[entry.contract].qty, l[entry.contract].avg)
           \/ UNCHANGED <<trade, entry, alloc, budget, engine>>
    BY <1>2, <2>1 DEF ReconcileEntryLedger
  <2>6. CASE o.known \in {"cancelled", "rejected"} /\ EntryGone
    <3>1. trade' = trade /\ entry' = None
      BY <2>6 DEF EntryGone
    <3>2. os[entry.order].status # "open" /\ os[entry.order].filled = 0
      BY <2>1, <2>3, <2>6 DEF FillsOK
    <3>3. StaysWhole
      BY <1>2, <2>3, <2>5, <3>1, <3>2, WholeDropped DEF StaysWhole
    <3> QED BY <2>3, <2>5, <3>1, <3>3, EntryDropped
  <2>7. CASE /\ l[entry.contract].qty > 0
             /\ AttachOpenTrade(l[entry.contract].qty, l[entry.contract].avg)
    <3>1. trade'.contract = entry.contract /\ trade'.qty = l[entry.contract].qty /\ entry' = None
      BY <2>7 DEF AttachOpenTrade
    <3>2. trade' # None
      <4>1. DOMAIN None = {"none"} /\ "peak" \in DOMAIN trade'
        BY <2>7 DEF None, AttachOpenTrade
      <4> QED BY <4>1
    <3>3. l[entry.contract].qty \in Int /\ trade'.qty >= 1
      BY <2>2, <2>4, <2>7, <3>1 DEF Books
    <3>4. StaysWhole
      BY <1>2, <2>3, <2>5, <3>1, <3>2, <3>3, WholeAttached DEF StaysWhole
    <3> QED BY <1>2, <2>3, <2>5, <3>1, <3>2, <3>3, <3>4, Attached
  <2>8. CASE UNCHANGED <<trade, entry, alloc, budget, engine>>
    BY <2>3, <2>5, <2>8 DEF Whole, StaysWhole
  <2> QED BY <2>5, <2>6, <2>7, <2>8
<1> QED BY <1>1, <1>2 DEF ReconcilePendingEntry

\* _reconcile_pending_exit keeps the books covered.
LEMMA ExitBooks ==
    ASSUME DataOK, Covered(orders, posn, lpos, trade, entry, exit),
           ReconcilePendingExit, UNCHANGED <<posn, entry>>
    PROVE  Covered(orders', posn', lpos', trade', entry', exit') /\ StaysWhole
<1>1. CASE UNCHANGED <<trade, exit, budget, engine, orders, lpos>>
  BY <1>1 DEF Whole, StaysWhole
<1>2. CASE exit # None /\ trade # None /\ ReconcileExitLedger
  <2>1. PICK k, o, l, os, c, left :
           /\ k = exit.order /\ o = Polled(orders[k])
           /\ l = Book(lpos, orders[k], o.booked - orders[k].booked)
           /\ os = [orders EXCEPT ![k] = o] /\ c = exit.contract /\ left = l[c].qty
    OBVIOUS
  <2>2. /\ k \in DOMAIN orders /\ c \in Contracts /\ Own(k, entry, exit)
        /\ trade \in OpenTrades /\ trade.qty \in Int
    BY <1>2, <2>1 DEF DataOK, PendingExits, Own, OpenTrades
  <2>3. /\ Covered(os, posn, l, trade, entry, exit) /\ BooksTyped(os, posn, l, trade, entry, exit)
        /\ os[k] = o /\ FillsOK(o)
        /\ Whole(orders, posn, lpos, trade, entry, exit) => Whole(os, posn, l, trade, entry, exit)
    <3>1. Polls(k, o, os, l)
      BY <2>1, <2>2 DEF Polls
    <3> QED BY <2>2, <3>1, PollCovered
  <2>4. l \in Books /\ o \in Orders /\ left \in Int
    <3>1. l \in Books /\ o \in Orders
      BY <2>1, <2>2, PollBooks, SMTT(20)
    <3> QED BY <2>1, <2>2, <3>1 DEF Books
  <2>5. /\ orders' = os /\ lpos' = l /\ posn' = posn /\ entry' = entry
        /\ \/ /\ o.known \in {"cancelled", "rejected"}
              /\ exit' = None /\ trade' = trade
           \/ left = 0 /\ trade' = None /\ exit' = None
           \/ /\ trade' = [trade EXCEPT !.qty = IF left \in 1..@ THEN left ELSE @]
              /\ exit' = IF o.known = "filled" /\ left > 0 THEN None ELSE exit
    <3>1. /\ orders' = os /\ lpos' = l
          /\ IF o.known \in {"cancelled", "rejected"} THEN exit' = None /\ UNCHANGED <<trade, budget, engine>>
             ELSE IF left = 0 THEN FinalizeExit(l[exit.contract].realized - exit.before)
             ELSE /\ trade' = [trade EXCEPT !.qty = IF left \in 1..@ THEN left ELSE @]
                  /\ exit' = IF o.known = "filled" /\ left > 0 THEN None ELSE exit
                  /\ UNCHANGED <<budget, engine>>
      <4>1. ReconcileExitLedger
        BY <1>2
      <4> QED BY <2>1, <4>1, Zenon DEF ReconcileExitLedger
    <3>2. ASSUME NEW pnl, FinalizeExit(pnl) PROVE trade' = None /\ exit' = None
      BY <3>2, Zenon DEF FinalizeExit
    <3> QED BY <3>1, <3>2, Zenon
  <2>6. /\ trade.contract = c /\ trade.qty <= o.qty /\ o.qty - o.booked <= left /\ trade.qty >= 1
    BY <1>2, <2>1, <2>3 DEF Covered, ExitCovered, TradeCovered
  <2>7. o.qty \in Int /\ o.filled \in Int /\ o.booked \in Int
    BY <2>4, OrderFields
  <2>8. CASE o.known \in {"cancelled", "rejected"} /\ exit' = None /\ trade' = trade
    <3>1. /\ os[exit.order].status # "open" /\ os[exit.order].filled = os[exit.order].booked
          /\ os[exit.order].booked = 0
          /\ trade.qty <= l[exit.contract].qty
      BY <2>1, <2>2, <2>3, <2>4, <2>6, <2>7, <2>8 DEF FillsOK
    <3>2. StaysWhole
      <4>1. Whole(orders, posn, lpos, trade, entry, exit)
               => EntryWhole(os, posn, l, trade, entry, None) /\ TradeWhole(os, posn, l, trade, None)
        BY <1>2, <2>3, <3>1, WholeExitDropped
      <4>2. /\ orders' = os /\ posn' = posn /\ lpos' = l /\ trade' = trade /\ entry' = entry /\ exit' = None
        BY <2>5, <2>8
      <4> QED BY <4>1, <4>2 DEF StaysWhole
    <3> QED BY <1>2, <2>3, <2>5, <2>6, <2>8, <3>1, <3>2, ExitDropped
  <2>9. CASE left = 0 /\ trade' = None /\ exit' = None
    <3>1. exit # None /\ l[exit.contract].qty = 0
      BY <1>2, <2>1, <2>9
    <3>2. Covered(os, posn, l, None, entry, None)
      BY <2>3, <3>1, Closed
    <3>3. Whole(orders, posn, lpos, trade, entry, exit)
             => EntryWhole(os, posn, l, None, entry, None) /\ TradeWhole(os, posn, l, None, None)
      BY <2>3, <3>1, WholeClosed
    <3>4. /\ orders' = os /\ posn' = posn /\ lpos' = l /\ trade' = None /\ entry' = entry /\ exit' = None
      BY <2>5, <2>9
    <3> QED BY <3>2, <3>3, <3>4 DEF StaysWhole
  <2>10. CASE /\ trade' = [trade EXCEPT !.qty = IF left \in 1..@ THEN left ELSE @]
              /\ exit' = IF o.known = "filled" /\ left > 0 THEN None ELSE exit
    <3>1. PICK n : n = (IF left \in 1 .. trade.qty THEN left ELSE trade.qty)
      OBVIOUS
    <3>2. n \in Int /\ n >= 1 /\ n <= trade.qty /\ (left > 0 => n <= left)
      BY <2>2, <2>4, <2>6, <3>1
    <3>3. trade' = [trade EXCEPT !.qty = n]
      BY <2>10, <3>1
    <3>4. trade'.contract = c /\ trade'.qty = n /\ trade' # None
      <4>1. trade'.contract = c /\ trade'.qty = n /\ trade' \in OpenTrades
        BY <2>2, <2>6, <3>2, <3>3 DEF OpenTrades
      <4> QED BY <4>1, TradeIsSome
    <3>5. CASE o.known = "filled" /\ left > 0
      <4>0. o.known = "filled" => o.status # "open" /\ o.filled = o.booked /\ o.booked = o.qty
        BY <2>3, <2>7 DEF FillsOK
      <4>1. /\ os[exit.order].status # "open" /\ os[exit.order].filled = os[exit.order].booked
        BY <2>1, <2>3, <3>5, <4>0
      <4>2. exit' = None /\ trade'.qty <= l[exit.contract].qty
        <5>1. left = l[exit.contract].qty /\ left > 0
          BY <2>1, <3>5
        <5>2. exit' = None
          BY <2>10, <3>5
        <5> QED BY <3>2, <3>4, <5>1, <5>2
      <4>3. ~Whole(os, posn, l, trade, entry, exit)
        <5> SUFFICES ASSUME Whole(os, posn, l, trade, entry, exit) PROVE FALSE
          OBVIOUS
        <5>1. left = o.qty - o.booked
          BY <1>2, <2>1, <2>3 DEF Whole, TradeWhole
        <5> QED BY <2>7, <3>5, <4>0, <5>1
      <4> QED BY <1>2, <2>3, <2>5, <2>6, <3>2, <3>4, <4>1, <4>2, <4>3, ExitDropped DEF StaysWhole
    <3>6. CASE ~(o.known = "filled" /\ left > 0)
      <4>1. exit' = exit
        BY <2>10, <3>6
      <4>2. ASSUME Whole(os, posn, l, trade, entry, exit)
            PROVE  EntryWhole(os, posn, l, trade', entry, exit) /\ TradeWhole(os, posn, l, trade', exit)
        <5>1. /\ left = o.qty - o.booked
              /\ o.booked = 0 => trade.qty = o.qty
          BY <1>2, <2>1, <2>3, <4>2 DEF Whole, TradeWhole
        <5>2. o.booked = 0 => n = trade.qty
          BY <2>2, <2>4, <2>6, <2>7, <3>1, <5>1
        <5> QED BY <1>2, <2>1, <2>3, <2>6, <3>4, <4>2, <5>2, WholeShrunk
      <4>3. StaysWhole
        BY <2>3, <2>5, <4>1, <4>2 DEF StaysWhole
      <4> QED BY <1>2, <2>3, <2>5, <2>6, <3>2, <3>4, <4>1, <4>3, Shrunk
    <3> QED BY <3>5, <3>6
  <2> QED BY <2>5, <2>8, <2>9, <2>10
<1> QED BY <1>1, <1>2 DEF ReconcilePendingExit

\* An order as it is placed: what it has filled at once may be booked already.
LEMMA PlacedFills ==
    ASSUME cfg \in Sessions, NEW side \in {"buy", "sell"}, NEW c \in Contracts, NEW n \in Int, n >= 1,
           NEW price \in Int, NEW by \in [source : Sources, n : Int],
           NEW status \in {"open", "filled"}, NEW o, o = Placed(side, c, n, price, by, status)
    PROVE  /\ o \in Orders /\ FillsOK(o) /\ o.known # "unknown"
           /\ o.side = side /\ o.contract = c /\ o.qty = n
           /\ o.booked = 0 \/ o.booked = o.filled
           /\ o.status = "open" => o.filled = 0
<1>1. PICK a : a = [side |-> side, contract |-> c, qty |-> n, price |-> price, by |-> by,
                    status |-> status, filled |-> IF status = "filled" THEN n ELSE 0,
                    known |-> "accepted", booked |-> 0]
  OBVIOUS
<1>2. /\ a \in Orders /\ FillsOK(a) /\ a.known # "unknown"
      /\ a.side = side /\ a.contract = c /\ a.qty = n
      /\ a.booked = 0
      /\ a.status = "open" => a.filled = 0
  BY <1>1 DEF Orders, FillsOK
<1>3. o = (IF cfg.live THEN Polled(a) ELSE a)
  BY <1>1 DEF Placed
<1>4. CASE o = Polled(a)
  <2>1. o \in Orders
    BY <1>2, <1>4, PolledType
  <2> QED BY <1>2, <1>4, <2>1, PollFills
<1> QED BY <1>2, <1>3, <1>4

\* An order that is taken is one more in the books.
LEMMA OrderTaken ==
    ASSUME DataOK, NEW o \in Orders, TakeOrder(o), FillsOK(o),
           o.side = "sell" => o.booked <= lpos[o.contract].qty
    PROVE  /\ Taken(orders, posn, lpos, orders', posn', lpos', Len(orders) + 1)
           /\ orders'[Len(orders) + 1] = o
<1>1. PICK k : k = Len(orders) + 1
  OBVIOUS
<1>2. orders \in Seq(Orders) /\ posn \in [Contracts -> Int] /\ lpos \in Books
  BY DEF DataOK
<1>3. orders' = Append(orders, o) /\ lpos' = Book(lpos, o, o.booked)
  BY DEF TakeOrder
<1>4. /\ k \notin DOMAIN orders /\ DOMAIN orders' = DOMAIN orders \cup {k} /\ orders'[k] = o
      /\ \A j \in DOMAIN orders : orders'[j] = orders[j]
  BY <1>1, <1>2, <1>3
<1>5. o.contract \in Contracts /\ o.booked \in Int /\ o.filled \in Int /\ o.booked >= 0
  BY OrderFields DEF FillsOK
<1>6. PICK p : p = posn[o.contract] + Signed(o, o.filled)
  OBVIOUS
<1>7. posn' = [posn EXCEPT ![o.contract] = p]
  BY <1>6 DEF TakeOrder
<1>8. \A c \in Contracts :
        /\ c # o.contract => posn'[c] = posn[c] /\ lpos'[c].qty = lpos[c].qty
        /\ c = o.contract => /\ posn'[c] = posn[c] + Signed(o, o.filled)
                             /\ lpos'[c].qty = lpos[c].qty + Signed(o, o.booked)
  BY <1>2, <1>3, <1>5, <1>6, <1>7, BookMoves
<1> QED BY <1>1, <1>4, <1>8 DEF Taken

\* An order whose call raised makes the session an awkward one.
LEMMA LostIsAwkward ==
    ASSUME DataOK, cfg \in Sessions, NEW side \in {"buy", "sell"}, NEW c \in Contracts,
           NEW n \in Int, NEW price \in Int, TakeLostOrder(side, c, n, price)
    PROVE  Awkward'
<1>1. PICK a : a = Placed(side, c, n, price, NoOne, "open")
  OBVIOUS
<1>2. PICK o : o = [a EXCEPT !.known = "unknown"]
  OBVIOUS
<1>3. a \in Orders
  <2>1. NoOne \in [source : Sources, n : Int]
    BY DEF NoOne, By, Sources
  <2> QED BY <1>1, <2>1, PlacedType
<1>4. o \in Orders /\ o.known = "unknown" /\ TakeOrder(o)
  BY <1>1, <1>2, <1>3 DEF Orders, TakeLostOrder
<1>5. orders' = Append(orders, o) /\ orders \in Seq(Orders)
  BY <1>4 DEF TakeOrder, DataOK
<1>6. Len(orders) + 1 \in DOMAIN orders' /\ orders'[Len(orders) + 1] = o
  BY <1>4, <1>5
<1> QED BY <1>4, <1>6 DEF Awkward

\* A quote moves the stop of the trade, not what it is for.
LEMMA TrailedSame ==
    ASSUME DataOK, trade # None
    PROVE  /\ Trailed # None /\ Trailed.contract = trade.contract /\ Trailed.qty = trade.qty
<1>1. trade \in OpenTrades
  BY DEF DataOK
<1>2. PICK t : t = UpdateTrailing(trade, ev.mid)
  OBVIOUS
<1>3. PICK p, u : t = [trade EXCEPT !.peak = p, !.trail = u]
  BY <1>2, Zenon DEF UpdateTrailing
<1>4. t.contract = trade.contract /\ t.qty = trade.qty /\ DOMAIN t = DOMAIN trade
  BY <1>1, <1>3 DEF OpenTrades
<1>5. t # None
  <2>1. DOMAIN None = {"none"} /\ "peak" \in DOMAIN trade
    BY <1>1 DEF None, OpenTrades
  <2> QED BY <1>4, <2>1
<1> QED BY <1>2, <1>4, <1>5 DEF Trailed

\* A quote that is looked at, and an exit that is sent, keep the books covered.
LEMMA QuoteBooks ==
    ASSUME CallOK, DataOK, Covered(orders, posn, lpos, trade, entry, exit), ~Awkward',
           HandleQuote \/ TryExit
    PROVE  Covered(orders', posn', lpos', trade', entry', exit') /\ StaysWhole
<1>1. trade' = Trailed /\ entry' = entry
  BY DEF HandleQuote, TryExit
<1>2. /\ Covered(orders, posn, lpos, trade', entry, exit)
      /\ Whole(orders, posn, lpos, trade, entry, exit) =>
           Whole(orders, posn, lpos, trade', entry, exit)
  <2>1. CASE trade = None
    <3>1. Trailed = trade
      BY <2>1 DEF Trailed
    <3> QED BY <1>1, <3>1
  <2>2. CASE trade # None
    <3>1. trade.qty \in Int /\ trade.qty >= 1 /\ trade.qty <= trade.qty
      BY <2>2 DEF DataOK, OpenTrades, Covered, TradeCovered
    <3>2. BooksTyped(orders, posn, lpos, trade, entry, exit)
      BY TypedNow
    <3>3. trade' # None /\ trade'.contract = trade.contract /\ trade'.qty = trade.qty
      BY <1>1, <2>2, TrailedSame
    <3>4. Covered(orders, posn, lpos, trade', entry, exit)
      BY <2>2, <3>1, <3>2, <3>3, Shrunk
    <3>5. BooksTyped(orders, posn, lpos, trade', entry, exit)
      BY <2>2, <3>1, <3>2, <3>3 DEF BooksTyped
    <3> QED BY <2>2, <3>3, <3>4, <3>5, WholeShrunk DEF Whole
  <2> QED BY <2>1, <2>2
<1>3. CASE UNCHANGED <<exit, orders, posn, lpos>>
  BY <1>1, <1>2, <1>3 DEF Whole, StaysWhole
<1>4. CASE ~UNCHANGED <<exit, orders, posn, lpos>>
  <2>1. TryExit /\ trade # None /\ exit = None
    BY <1>4, ReasonType DEF HandleQuote, TryExit
  <2>2. PICK c \in OpenPositions :
           \/ TakeLostOrder("sell", c, trade.qty, ev.mid)
           \/ \E s \in SubmitResults \ {"rejected"} :
                /\ TakeOrder(Placed("sell", c, trade.qty, ev.mid, NoOne, s))
                /\ exit' = [order |-> Len(orders) + 1, contract |-> c,
                            reason |-> ExitReason, before |-> lpos[c].realized]
    BY <1>4, <2>1 DEF TryExit
  <2>3. /\ c \in Contracts /\ trade.qty \in Int /\ ev.mid \in Int /\ cfg \in Sessions
        /\ NoOne \in [source : Sources, n : Int] /\ posn[c] # 0
    BY <2>1, SetTypes DEF OpenPositions, OpenTrades, DataOK, CallOK, NoOne, By, Sources
  <2>4. ~TakeLostOrder("sell", c, trade.qty, ev.mid)
    BY <2>3, LostIsAwkward
  <2>5. PICK s \in SubmitResults \ {"rejected"} :
                /\ TakeOrder(Placed("sell", c, trade.qty, ev.mid, NoOne, s))
                /\ exit' = [order |-> Len(orders) + 1, contract |-> c,
                            reason |-> ExitReason, before |-> lpos[c].realized]
    BY <2>2, <2>4
  <2>6. trade'.contract = c /\ trade'.qty = trade.qty /\ trade' # None
    <3>1. trade' # None /\ trade'.contract = trade.contract /\ trade'.qty = trade.qty
      BY <1>1, <2>1, TrailedSame
    <3>2. \A d \in Contracts \ {trade.contract} : posn[d] = 0
      BY <2>1 DEF Covered, TradeCovered, Only
    <3> QED BY <2>3, <3>1, <3>2
  <2>7. trade.qty >= 1 /\ trade.qty <= lpos[c].qty
    BY <1>2, <2>1, <2>6 DEF Covered, TradeCovered
  <2>8. PICK o : o = Placed("sell", c, trade.qty, ev.mid, NoOne, s)
    OBVIOUS
  <2>9. /\ o \in Orders /\ FillsOK(o) /\ o.side = "sell" /\ o.contract = c /\ o.qty = trade.qty
    <3>1. s \in {"open", "filled"}
      BY DEF SubmitResults
    <3> QED BY <2>3, <2>7, <2>8, <3>1, PlacedFills
  <2>10. o.booked <= lpos[c].qty
    <3>1. o.booked \in Int /\ o.filled \in Int /\ o.qty \in Int /\ lpos[c].qty \in Int
      BY <2>3, <2>9, OrderFields DEF DataOK, Books
    <3> QED BY <2>7, <2>9, <3>1 DEF FillsOK
  <2>11. /\ Taken(orders, posn, lpos, orders', posn', lpos', Len(orders) + 1)
         /\ orders'[Len(orders) + 1] = o
    <3>1. TakeOrder(o)
      BY <2>5, <2>8
    <3> QED BY <2>9, <2>10, <3>1, OrderTaken
  <2>12. exit' # None /\ exit'.order = Len(orders) + 1 /\ exit'.contract = c
    <3>1. DOMAIN None = {"none"} /\ "order" \in DOMAIN exit'
      BY <2>5 DEF None
    <3> QED BY <2>5, <3>1
  <2>13. BooksTyped(orders, posn, lpos, trade', entry, None)
    <3>1. BooksTyped(orders, posn, lpos, trade, entry, exit)
      BY TypedNow
    <3> QED BY <2>1, <2>3, <2>6, <3>1 DEF BooksTyped
  <2>14. Covered(orders, posn, lpos, trade', entry, None)
    BY <1>2, <2>1
  <2>15. Covered(orders', posn', lpos', trade', entry, exit')
    BY <2>6, <2>9, <2>11, <2>12, <2>13, <2>14, Sold
  <2>16. ASSUME Whole(orders, posn, lpos, trade, entry, exit)
         PROVE  EntryWhole(orders', posn', lpos', trade', entry, exit')
                /\ TradeWhole(orders', posn', lpos', trade', exit')
    <3>1. Whole(orders, posn, lpos, trade', entry, None)
      BY <1>2, <2>1, <2>16
    <3> QED BY <2>6, <2>9, <2>11, <2>12, <3>1, WholeSold
  <2> QED BY <1>1, <2>15, <2>16 DEF StaysWhole
<1> QED BY <1>3, <1>4

\* An entry is submitted while nothing is held and no order works.
Clear ==
    /\ req.qty >= 1 /\ Working = {}
    /\ \A c \in Contracts : posn[c] = 0

\* An entry that is sent for its contracts keeps the books covered.
LEMMA SubmitBooks ==
    ASSUME CallOK, DataOK, EngineInv, Covered(orders, posn, lpos, trade, entry, exit), ~Awkward',
           SubmitEntry, Clear
    PROVE  Covered(orders', posn', lpos', trade', entry', exit') /\ StaysWhole
<1>1. at = "submit" /\ trade' = trade /\ exit' = exit
  BY DEF SubmitEntry
<1>2. trade = None /\ entry = None /\ exit = None
  BY <1>1 DEF EngineInv, Covered, ExitCovered
<1>3. /\ req.contract \in Contracts /\ req.by \in [source : Sources, n : Int]
      /\ req.qty \in Int /\ req.entry \in Int /\ cfg \in Sessions /\ req.qty >= 1
  BY <1>1 DEF CallOK, MaySubmit, Clear
<1>4. CASE UNCHANGED <<entry, orders, posn, lpos>>
  BY <1>1, <1>4 DEF Whole, StaysWhole
<1>5. CASE ~UNCHANGED <<entry, orders, posn, lpos>>
  <2>1. \/ TakeLostOrder("buy", req.contract, req.qty, req.entry)
        \/ \E s \in SubmitResults \ {"rejected"} :
             /\ TakeOrder(Placed("buy", req.contract, req.qty, req.entry, req.by, s))
             /\ entry' = [order |-> Len(orders) + 1, contract |-> req.contract, qty |-> req.qty,
                          stop |-> req.stop, target |-> req.target]
    BY <1>5 DEF SubmitEntry
  <2>2. PICK s \in SubmitResults \ {"rejected"} :
             /\ TakeOrder(Placed("buy", req.contract, req.qty, req.entry, req.by, s))
             /\ entry' = [order |-> Len(orders) + 1, contract |-> req.contract, qty |-> req.qty,
                          stop |-> req.stop, target |-> req.target]
    BY <1>3, <2>1, LostIsAwkward
  <2>3. PICK o : o = Placed("buy", req.contract, req.qty, req.entry, req.by, s)
    OBVIOUS
  <2>4. /\ o \in Orders /\ FillsOK(o) /\ o.side = "buy" /\ o.contract = req.contract
        /\ o.booked = 0 \/ o.booked = o.filled
        /\ o.status = "open" => o.filled = 0
    <3>1. s \in {"open", "filled"}
      BY DEF SubmitResults
    <3> QED BY <1>3, <2>3, <3>1, PlacedFills
  <2>5. /\ Taken(orders, posn, lpos, orders', posn', lpos', Len(orders) + 1)
        /\ orders'[Len(orders) + 1] = o
    <3>1. TakeOrder(o)
      BY <2>2, <2>3
    <3> QED BY <2>4, <3>1, OrderTaken
  <2>6. /\ \A j \in DOMAIN orders : orders[j].status # "open"
        /\ \A c \in Contracts : posn[c] = 0
    BY DEF Clear, Working
  <2>7. BooksTyped(orders, posn, lpos, None, None, None)
    BY <1>2, TypedNow
  <2>8. Covered(orders, posn, lpos, None, None, None)
    BY <1>2
  <2>9. entry'.order = Len(orders) + 1 /\ entry'.contract = req.contract
    BY <2>2
  <2>10. Covered(orders', posn', lpos', None, entry', None)
    BY <2>4, <2>5, <2>6, <2>7, <2>8, <2>9, Bought
  <2>11. entry' # None
    <3>1. DOMAIN None = {"none"} /\ "order" \in DOMAIN entry'
      BY <2>2 DEF None
    <3> QED BY <3>1
  <2>12. ASSUME Whole(orders, posn, lpos, None, None, None)
         PROVE  EntryWhole(orders', posn', lpos', None, entry', None)
                /\ TradeWhole(orders', posn', lpos', None, None)
    BY <2>4, <2>5, <2>6, <2>9, <2>11, <2>12, WholeBought
  <2> QED BY <1>1, <1>2, <2>10, <2>12 DEF StaysWhole
<1> QED BY <1>4, <1>5

\* A fill, a partial fill or a drop of a working order keeps the books covered.
LEMMA BrokerBooks ==
    ASSUME DataOK, Covered(orders, posn, lpos, trade, entry, exit), ~Awkward', BrokerStep
    PROVE  /\ Covered(orders', posn', lpos', trade', entry', exit')
           /\ "buy" \notin PartialSides => StaysWhole
<1>1. PICK k \in DOMAIN orders : BrokerFill(k) \/ BrokerPartialFill(k) \/ BrokerDrop(k)
  BY DEF BrokerStep
<1>2. PICK a : a = orders[k] /\ a \in Orders /\ FillsOK(a)
  BY DEF DataOK, Covered
<1>3. /\ a.contract \in Contracts /\ a.qty \in Int /\ a.filled \in Int /\ a.booked \in Int
      /\ a.side \in {"buy", "sell"} /\ orders \in Seq(Orders) /\ posn \in [Contracts -> Int]
      /\ lpos \in Books
  BY <1>2, OrderFields DEF DataOK
<1>4. a.status = "open" /\ trade' = trade /\ entry' = entry /\ exit' = exit
  BY <1>1, <1>2 DEF BrokerFill, BrokerPartialFill, BrokerDrop, Working, BrokerStep
<1>5. SUFFICES \E b \in Orders :
           /\ orders' = [orders EXCEPT ![k] = b]
           /\ b.side = a.side /\ b.contract = a.contract /\ b.qty = a.qty /\ FillsOK(b)
           /\ a.filled <= b.filled /\ a.booked <= b.booked /\ b.booked - a.booked <= b.filled - a.filled
           /\ posn' = [posn EXCEPT ![a.contract] = posn[a.contract] + Signed(a, b.filled - a.filled)]
           /\ lpos' = Book(lpos, a, b.booked - a.booked)
           /\ a.side = "sell" => b.booked - a.booked <= lpos[a.contract].qty
           /\ a.side \notin PartialSides => b.booked = a.booked /\ b.status # "open"
  <2>1. PICK b \in Orders :
           /\ orders' = [orders EXCEPT ![k] = b]
           /\ b.side = a.side /\ b.contract = a.contract /\ b.qty = a.qty /\ FillsOK(b)
           /\ a.filled <= b.filled /\ a.booked <= b.booked /\ b.booked - a.booked <= b.filled - a.filled
           /\ posn' = [posn EXCEPT ![a.contract] = posn[a.contract] + Signed(a, b.filled - a.filled)]
           /\ lpos' = Book(lpos, a, b.booked - a.booked)
           /\ a.side = "sell" => b.booked - a.booked <= lpos[a.contract].qty
           /\ a.side \notin PartialSides => b.booked = a.booked /\ b.status # "open"
    BY <1>5
  <2>2. orders'[k] = b /\ DOMAIN orders' = DOMAIN orders /\ \A j \in DOMAIN orders \ {k} : orders'[j] = orders[j]
    BY <1>3, <2>1
  <2>3. b.booked - a.booked \in Int /\ b.booked - a.booked >= 0
    <3>1. b.booked \in Int
      BY OrderFields
    <3> QED BY <1>3, <2>1, <3>1
  <2>4. \A c \in Contracts :
          /\ c # a.contract => posn'[c] = posn[c] /\ lpos'[c].qty = lpos[c].qty
          /\ c = a.contract => /\ posn'[c] = posn[c] + Signed(a, b.filled - a.filled)
                               /\ lpos'[c].qty = lpos[c].qty + Signed(a, b.booked - a.booked)
    BY <1>2, <1>3, <2>1, <2>3, BookMoves
  <2>5. Moved(orders, posn, lpos, orders', posn', lpos', k)
    BY <1>2, <1>4, <2>1, <2>2, <2>4 DEF Moved
  <2>6. MayMove(orders, posn, lpos, orders', posn', lpos', trade, entry, exit, k)
    BY <1>2, <1>4, <2>1, <2>2, <2>5, TypedNow DEF MayMove
  <2>7. ASSUME "buy" \notin PartialSides, Whole(orders, posn, lpos, trade, entry, exit)
        PROVE  Whole(orders', posn', lpos', trade, entry, exit)
    <3>1. /\ BooksTyped(orders, posn, lpos, trade, entry, exit)
          /\ EntryWhole(orders, posn, lpos, trade, entry, exit) /\ TradeWhole(orders, posn, lpos, trade, exit)
      BY <2>7 DEF Whole
    <3>2. orders' \in Seq(Orders) /\ posn' \in [Contracts -> Int] /\ lpos' \in Books
      <4>1. lpos' \in Books
        BY <1>2, <1>3, <2>1, <2>3, BookType
      <4>2. b.filled \in Int /\ Signed(a, b.filled - a.filled) \in Int
        BY <1>3, OrderFields DEF Signed
      <4>3. posn' \in [Contracts -> Int]
        BY <1>3, <2>1, <4>2
      <4>4. orders' \in Seq(Orders)
        BY <1>3, <2>1
      <4> QED BY <4>1, <4>3, <4>4
    <3>3. BooksTyped(orders', posn', lpos', trade, entry, exit)
      BY <2>2, <3>1, <3>2 DEF BooksTyped
    <3>4. a.side = "buy" => a.filled = 0
      BY <1>2, <1>4, <3>1 DEF EntryWhole
    <3>5. a.side = "buy" => b.booked = 0 /\ b.status # "open"
      BY <1>2, <1>3, <2>1, <2>7, <3>4 DEF FillsOK
    <3>6. MayMoveWhole(orders, posn, lpos, orders', posn', lpos', trade, entry, exit, k)
      BY <1>2, <2>2, <2>6, <3>1, <3>3, <3>5 DEF MayMoveWhole
    <3> QED BY <3>6, MoveWhole
  <2>8. "buy" \notin PartialSides => StaysWhole
    BY <1>4, <2>7 DEF Whole, StaysWhole
  <2> QED BY <1>4, <2>6, <2>8, MoveCovered
<1>6. Book(lpos, a, 0) = lpos
  BY DEF Book
<1>7. CASE BrokerFill(k)
  <2>1. PICK b : b = [a EXCEPT !.status = "filled", !.filled = a.qty]
    OBVIOUS
  <2>2. /\ b \in Orders /\ b.side = a.side /\ b.contract = a.contract /\ b.qty = a.qty
        /\ b.status = "filled" /\ b.filled = a.qty /\ b.booked = a.booked /\ b.known = a.known
    BY <1>2, <1>3, <2>1 DEF Orders
  <2>3. FillsOK(b) /\ a.filled <= b.filled /\ b.booked - a.booked = 0
    BY <1>2, <1>3, <1>4, <2>2 DEF FillsOK
  <2>4. orders' = [orders EXCEPT ![k] = b]
    BY <1>2, <1>7, <2>1 DEF BrokerFill
  <2>5. /\ posn' = [posn EXCEPT ![a.contract] = posn[a.contract] + Signed(a, b.filled - a.filled)]
        /\ lpos' = lpos
    BY <1>2, <1>7, <2>2 DEF BrokerFill
  <2>6. a.side = "sell" => 0 <= lpos[a.contract].qty
    BY <1>3 DEF Covered
  <2>7. lpos' = Book(lpos, a, b.booked - a.booked)
    BY <1>6, <2>3, <2>5
  <2>8. /\ a.booked <= b.booked /\ b.booked - a.booked <= b.filled - a.filled
        /\ a.side = "sell" => b.booked - a.booked <= lpos[a.contract].qty
    BY <1>3, <2>2, <2>3, <2>6
  <2> QED BY <2>2, <2>3, <2>4, <2>5, <2>7, <2>8
<1>8. CASE BrokerPartialFill(k)
  <2>1. PICK f, n : f = a.filled + 1 /\ n = a.booked + 1 /\ f \in Int /\ n \in Int
    BY <1>3
  <2>2. PICK b : b = [a EXCEPT !.filled = f, !.booked = n, !.known = "partially_filled"]
    OBVIOUS
  <2>3. /\ b \in Orders /\ b.side = a.side /\ b.contract = a.contract /\ b.qty = a.qty
        /\ b.status = "open" /\ b.filled = f /\ b.booked = n /\ b.known = "partially_filled"
    BY <1>2, <1>3, <1>4, <2>1, <2>2 DEF Orders
  <2>4. f < a.qty
    BY <1>2, <1>8, <2>1 DEF BrokerPartialFill
  <2>5. /\ FillsOK(b) /\ a.filled <= b.filled /\ a.booked <= b.booked
        /\ b.filled - a.filled = 1 /\ b.booked - a.booked = 1
    BY <1>2, <1>3, <2>1, <2>3, <2>4 DEF FillsOK
  <2>6. orders' = [orders EXCEPT ![k] = b]
    BY <1>2, <1>8, <2>1, <2>2 DEF BrokerPartialFill
  <2>7. /\ posn' = [posn EXCEPT ![a.contract] = posn[a.contract] + Signed(a, b.filled - a.filled)]
        /\ lpos' = Book(lpos, a, b.booked - a.booked)
    BY <1>2, <1>8, <2>5 DEF BrokerPartialFill
  <2>8. a.side = "sell" => 1 <= lpos[a.contract].qty
    <3>1. SUFFICES ASSUME a.side = "sell" PROVE 1 <= lpos[a.contract].qty
      OBVIOUS
    <3>2. exit # None /\ k = exit.order
      BY <1>2, <1>4, <3>1 DEF Covered
    <3>3. a.qty - a.booked <= lpos[a.contract].qty
      BY <1>2, <3>2 DEF Covered, ExitCovered
    <3>4. lpos[a.contract].qty \in Int /\ a.booked <= a.filled
      BY <1>2, <1>3 DEF Books, FillsOK
    <3> QED BY <1>3, <2>1, <2>4, <3>3, <3>4
  <2>9. /\ b.booked - a.booked <= b.filled - a.filled
        /\ a.side = "sell" => b.booked - a.booked <= lpos[a.contract].qty
        /\ a.side \in PartialSides
    BY <1>2, <1>8, <2>5, <2>8 DEF BrokerPartialFill
  <2> QED BY <2>3, <2>5, <2>6, <2>7, <2>9
<1>9. CASE BrokerDrop(k)
  <2>1. PICK s \in {"cancelled", "rejected"} :
          /\ orders' = [orders EXCEPT ![k].status = s]
          /\ s = "rejected" => a.filled = 0
    BY <1>2, <1>9 DEF BrokerDrop
  <2>2. PICK b : b = [a EXCEPT !.status = s]
    OBVIOUS
  <2>3. /\ b \in Orders /\ b.side = a.side /\ b.contract = a.contract /\ b.qty = a.qty
        /\ b.status = s /\ b.filled = a.filled /\ b.booked = a.booked /\ b.known = a.known
    BY <1>2, <2>2 DEF Orders
  <2>4. orders' = [orders EXCEPT ![k] = b]
    BY <1>2, <2>1, <2>2
  <2>5. a.filled = 0
    <3>1. SUFFICES ASSUME a.filled # 0 PROVE FALSE
      OBVIOUS
    <3>2. s = "cancelled" /\ a.filled > 0
      BY <1>2, <1>3, <2>1, <3>1 DEF FillsOK
    <3>3. k \in DOMAIN orders' /\ orders'[k] = b
      BY <1>3, <2>4
    <3> QED BY <2>3, <3>2, <3>3 DEF Awkward
  <2>6. FillsOK(b) /\ b.booked - a.booked = 0 /\ b.filled - a.filled = 0
    BY <1>2, <1>3, <1>4, <2>3, <2>5 DEF FillsOK
  <2>7. posn' = posn /\ lpos' = lpos
    BY <1>9 DEF BrokerDrop
  <2>8. posn' = [posn EXCEPT ![a.contract] = posn[a.contract] + Signed(a, b.filled - a.filled)]
    <3>1. posn[a.contract] + Signed(a, b.filled - a.filled) = posn[a.contract]
      BY <1>3, <2>6 DEF Signed
    <3> QED BY <1>3, <2>7, <3>1
  <2>9. lpos' = Book(lpos, a, b.booked - a.booked)
    BY <1>6, <2>6, <2>7
  <2>10. /\ a.filled <= b.filled /\ a.booked <= b.booked
         /\ b.booked - a.booked <= b.filled - a.filled
         /\ a.side = "sell" => b.booked - a.booked <= lpos[a.contract].qty
    BY <1>3, <2>3, <2>6 DEF Covered
  <2> QED BY <2>3, <2>4, <2>6, <2>8, <2>9, <2>10
<1> QED BY <1>1, <1>7, <1>8, <1>9

-----------------------------------------------------------------------------
(* Exits never sell more than is held                                      *)

\* The ledger knows of the orders a call polls.
OwnOrders ==
    /\ entry # None => orders[entry.order].known # "unknown"
    /\ exit # None => orders[exit.order].known # "unknown"

\* Of an order that is still there: the ledger learns of it when it is taken or
\* never, and it is not taken back that the broker has dropped it half filled.
OrdersKept ==
    \A k \in DOMAIN orders :
        /\ k \in DOMAIN orders'
        /\ orders'[k].known = "unknown" <=> orders[k].known = "unknown"
        /\ orders[k].status = "cancelled" => orders'[k].status = "cancelled" /\ orders'[k].filled = orders[k].filled

\* What a poll makes of an order the ledger knows of.
LEMMA PollKeeps ==
    ASSUME DataOK, NEW k \in DOMAIN orders, orders[k].known # "unknown",
           orders' = [orders EXCEPT ![k] = Polled(orders[k])]
    PROVE  OrdersKept
<1>1. PICK a, b : a = orders[k] /\ b = Polled(a) /\ a \in Orders
  BY DEF DataOK
<1>2. b.known # "unknown" /\ b.status = a.status /\ b.filled = a.filled
  <2>1. CASE a.status \in {"cancelled", "rejected"}
    <3>1. b = [a EXCEPT !.known = a.status]
      BY <1>1, <2>1 DEF Polled
    <3> QED BY <1>1, <2>1, <3>1 DEF Orders
  <2>2. CASE a.status = "filled" /\ Verified
    <3>1. b = [a EXCEPT !.known = "filled", !.booked = a.qty]
      BY <1>1, <2>2 DEF Polled
    <3> QED BY <1>1, <2>2, <3>1 DEF Orders
  <2>3. CASE ~(a.status \in {"cancelled", "rejected"}) /\ ~(a.status = "filled" /\ Verified)
    BY <1>1, <2>3 DEF Polled
  <2> QED BY <2>1, <2>2, <2>3
<1>3. DOMAIN orders' = DOMAIN orders /\ orders'[k] = b /\ \A j \in DOMAIN orders \ {k} : orders'[j] = orders[j]
  BY <1>1 DEF DataOK
<1> QED BY <1>1, <1>2, <1>3 DEF OrdersKept

\* An order that is added leaves the others alone.
LEMMA TakeKeeps ==
    ASSUME DataOK, NEW o, TakeOrder(o)
    PROVE  OrdersKept /\ Len(orders) + 1 \in DOMAIN orders' /\ orders'[Len(orders) + 1] = o
<1>1. orders' = Append(orders, o) /\ orders \in Seq(Orders)
  BY DEF TakeOrder, DataOK
<1>2. /\ Len(orders) + 1 \in DOMAIN orders' /\ orders'[Len(orders) + 1] = o
      /\ \A j \in DOMAIN orders : j \in DOMAIN orders' /\ orders'[j] = orders[j]
  BY <1>1
<1> QED BY <1>2 DEF OrdersKept

\* What a pending order is between two steps: the one it was, or one that was
\* just placed and that the ledger knows of.
StillKnown(pending, pending2) ==
    pending2 \in {None, pending} \/ orders'[pending2.order].known # "unknown"

\* An order that was placed is known.
LEMMA PlacedKnown ==
    ASSUME NEW side, NEW c, NEW n, NEW price, NEW by, NEW status
    PROVE  Placed(side, c, n, price, by, status).known # "unknown"
<1>1. PICK a : a = [side |-> side, contract |-> c, qty |-> n, price |-> price, by |-> by,
                    status |-> status, filled |-> IF status = "filled" THEN n ELSE 0,
                    known |-> "accepted", booked |-> 0]
  OBVIOUS
<1>2. Placed(side, c, n, price, by, status) = (IF cfg.live THEN Polled(a) ELSE a)
  BY <1>1 DEF Placed
<1>3. Polled(a).known # "unknown"
  <2>1. CASE a.status \in {"cancelled", "rejected"}
    <3>1. Polled(a) = [a EXCEPT !.known = a.status]
      BY <2>1 DEF Polled
    <3> QED BY <1>1, <2>1, <3>1
  <2>2. CASE a.status = "filled" /\ Verified
    <3>1. Polled(a) = [a EXCEPT !.known = "filled", !.booked = a.qty]
      BY <2>2 DEF Polled
    <3> QED BY <1>1, <3>1
  <2>3. CASE ~(a.status \in {"cancelled", "rejected"}) /\ ~(a.status = "filled" /\ Verified)
    BY <1>1, <2>3 DEF Polled
  <2> QED BY <2>1, <2>2, <2>3
<1> QED BY <1>1, <1>2, <1>3

\* Every step keeps the orders, and polls or remembers only those it knows.
LEMMA OrdersStep ==
    ASSUME CallOK, DataOK, OwnOrders, [Next]_vars
    PROVE  OrdersKept /\ StillKnown(entry, entry') /\ StillKnown(exit, exit')
<1>1. CASE UNCHANGED <<orders, entry, exit>>
  BY <1>1 DEF OrdersKept, StillKnown
<1>2. CASE RunnerStep \/ Premarket
  <2>1. UNCHANGED <<orders, entry, exit>>
    BY <1>2, RunnerKeeps DEF RunnerStep, Premarket, handlerData
  <2> QED BY <1>1, <2>1
<1>3. CASE BrokerStep
  <2>1. UNCHANGED <<entry, exit>>
    BY <1>3 DEF BrokerStep
  <2>2. PICK k \in DOMAIN orders : BrokerFill(k) \/ BrokerPartialFill(k) \/ BrokerDrop(k)
    BY <1>3 DEF BrokerStep
  <2>3. PICK a : a = orders[k] /\ a \in Orders /\ a.status = "open"
    BY <2>2 DEF DataOK, BrokerFill, BrokerPartialFill, BrokerDrop, Working
  <2>4. PICK b : orders' = [orders EXCEPT ![k] = b] /\ (b.known = "unknown" <=> a.known = "unknown")
    <3>1. CASE BrokerFill(k)
      <4>1. PICK b : b = [a EXCEPT !.status = "filled", !.filled = a.qty]
        OBVIOUS
      <4>2. orders' = [orders EXCEPT ![k] = b]
        BY <2>3, <3>1, <4>1 DEF BrokerFill
      <4>3. b.known = a.known
        BY <2>3, <4>1 DEF Orders
      <4> QED BY <4>2, <4>3
    <3>2. CASE BrokerPartialFill(k)
      <4>1. PICK b : b = [a EXCEPT !.filled = a.filled + 1, !.booked = a.booked + 1,
                                   !.known = "partially_filled"]
        OBVIOUS
      <4>2. orders' = [orders EXCEPT ![k] = b] /\ a.known # "unknown"
        BY <2>3, <3>2, <4>1 DEF BrokerPartialFill
      <4>3. b.known = "partially_filled"
        BY <2>3, <4>1 DEF Orders
      <4> QED BY <4>2, <4>3
    <3>3. CASE BrokerDrop(k)
      <4>1. PICK s : orders' = [orders EXCEPT ![k].status = s]
        BY <3>3 DEF BrokerDrop
      <4>2. PICK b : b = [a EXCEPT !.status = s]
        OBVIOUS
      <4>3. orders' = [orders EXCEPT ![k] = b]
        BY <2>3, <4>1, <4>2
      <4>4. b.known = a.known
        BY <2>3, <4>2 DEF Orders
      <4> QED BY <4>3, <4>4
    <3> QED BY <2>2, <3>1, <3>2, <3>3
  <2>5. DOMAIN orders' = DOMAIN orders /\ orders'[k] = b /\ \A j \in DOMAIN orders \ {k} : orders'[j] = orders[j]
    BY <2>4 DEF DataOK
  <2>6. OrdersKept
    BY <2>3, <2>4, <2>5 DEF OrdersKept
  <2> QED BY <2>1, <2>6 DEF StillKnown
<1>4. CASE HandleEntry \/ PromoteEntry
  <2>1. ReconcilePendingEntry /\ exit' = exit
    BY <1>4 DEF HandleEntry, PromoteEntry
  <2>2. CASE orders' = orders
    <3>1. entry' \in {None, entry}
      BY <2>1 DEF ReconcilePendingEntry, ReconcileEntryLedger, ReconcileEntryBroker,
                  AttachOpenTrade, EntryGone
    <3> QED BY <2>1, <2>2, <3>1 DEF OrdersKept, StillKnown
  <2>3. CASE orders' # orders
    <3>1. entry # None /\ ReconcileEntryLedger
      BY <2>1, <2>3 DEF ReconcilePendingEntry, ReconcileEntryBroker
    <3>2. entry.order \in DOMAIN orders /\ orders[entry.order].known # "unknown"
      BY <3>1 DEF DataOK, PendingEntries, OwnOrders
    <3>3. /\ orders' = [orders EXCEPT ![entry.order] = Polled(orders[entry.order])]
          /\ entry' \in {None, entry}
      BY <3>1 DEF ReconcileEntryLedger, AttachOpenTrade, EntryGone
    <3> QED BY <2>1, <3>2, <3>3, PollKeeps DEF StillKnown
  <2> QED BY <2>2, <2>3
<1>5. CASE HandleExit \/ HandleExitAgain
  <2>1. ReconcilePendingExit /\ entry' = entry
    BY <1>5 DEF HandleExit, HandleExitAgain
  <2>2. CASE UNCHANGED <<orders, exit>>
    BY <1>1, <2>1, <2>2
  <2>3. CASE ~UNCHANGED <<orders, exit>>
    <3>1. exit # None /\ ReconcileExitLedger
      BY <2>1, <2>3 DEF ReconcilePendingExit
    <3>2. exit.order \in DOMAIN orders /\ orders[exit.order].known # "unknown"
      BY <3>1 DEF DataOK, PendingExits, OwnOrders
    <3>3. /\ orders' = [orders EXCEPT ![exit.order] = Polled(orders[exit.order])]
          /\ exit' \in {None, exit}
      BY <3>1 DEF ReconcileExitLedger, FinalizeExit
    <3> QED BY <2>1, <3>2, <3>3, PollKeeps DEF StillKnown
  <2> QED BY <2>2, <2>3
<1>6. CASE HandleQuote \/ HandleGate \/ AttemptEntry
  BY <1>1, <1>6 DEF HandleQuote, HandleGate, AttemptEntry
<1>7. CASE TryExit
  <2>1. trade # None /\ entry' = entry
    BY <1>7, ReasonType DEF TryExit
  <2>2. PICK c \in OpenPositions :
           \/ UNCHANGED <<exit, orders>>
           \/ exit' = exit /\ TakeLostOrder("sell", c, trade.qty, ev.mid)
           \/ \E s \in SubmitResults \ {"rejected"} :
                /\ TakeOrder(Placed("sell", c, trade.qty, ev.mid, NoOne, s))
                /\ exit' = [order |-> Len(orders) + 1, contract |-> c,
                            reason |-> ExitReason, before |-> lpos[c].realized]
    BY <1>7 DEF TryExit
  <2>3. CASE UNCHANGED <<exit, orders>>
    BY <1>1, <2>1, <2>3
  <2>4. CASE exit' = exit /\ TakeLostOrder("sell", c, trade.qty, ev.mid)
    BY <2>1, <2>4, TakeKeeps DEF TakeLostOrder, StillKnown
  <2>5. ASSUME NEW s \in SubmitResults \ {"rejected"},
               TakeOrder(Placed("sell", c, trade.qty, ev.mid, NoOne, s)),
               exit'.order = Len(orders) + 1
        PROVE  OrdersKept /\ StillKnown(exit, exit')
    <3>1. PICK o : o = Placed("sell", c, trade.qty, ev.mid, NoOne, s)
      OBVIOUS
    <3>2. o.known # "unknown"
      BY <3>1, PlacedKnown
    <3> QED BY <2>5, <3>1, <3>2, TakeKeeps DEF StillKnown
  <2> QED BY <2>1, <2>2, <2>3, <2>4, <2>5 DEF StillKnown
<1>8. CASE SubmitEntry
  <2>1. exit' = exit
    BY <1>8 DEF SubmitEntry
  <2>2. \/ UNCHANGED <<entry, orders>>
        \/ entry' = entry /\ TakeLostOrder("buy", req.contract, req.qty, req.entry)
        \/ \E s \in SubmitResults \ {"rejected"} :
             /\ TakeOrder(Placed("buy", req.contract, req.qty, req.entry, req.by, s))
             /\ entry' = [order |-> Len(orders) + 1, contract |-> req.contract, qty |-> req.qty,
                          stop |-> req.stop, target |-> req.target]
    BY <1>8 DEF SubmitEntry
  <2>3. CASE UNCHANGED <<entry, orders>>
    BY <1>1, <2>1, <2>3
  <2>4. CASE entry' = entry /\ TakeLostOrder("buy", req.contract, req.qty, req.entry)
    BY <2>1, <2>4, TakeKeeps DEF TakeLostOrder, StillKnown
  <2>5. ASSUME NEW s \in SubmitResults \ {"rejected"},
               TakeOrder(Placed("buy", req.contract, req.qty, req.entry, req.by, s)),
               entry'.order = Len(orders) + 1
        PROVE  OrdersKept /\ StillKnown(entry, entry')
    <3>1. PICK o : o = Placed("buy", req.contract, req.qty, req.entry, req.by, s)
      OBVIOUS
    <3>2. o.known # "unknown"
      BY <3>1, PlacedKnown
    <3> QED BY <2>5, <3>1, <3>2, TakeKeeps DEF StillKnown
  <2> QED BY <2>1, <2>2, <2>3, <2>4, <2>5 DEF StillKnown
<1> QED BY <1>2, <1>3, <1>4, <1>5, <1>6, <1>7, <1>8, NextCases DEF HandlerStep

\* The books of the session.  The ledger is behind the broker by the unbooked fills
\* of the entry and the exit; what the exit has still to sell is held.
BooksInv ==
    /\ OwnOrders
    /\ cfg.live /\ ~Awkward =>
         /\ Covered(orders, posn, lpos, trade, entry, exit)
         /\ at = "submit" => Clear
         /\ "buy" \notin PartialSides =>
              /\ EntryWhole(orders, posn, lpos, trade, entry, exit)
              /\ TradeWhole(orders, posn, lpos, trade, exit)

\* The broker stays awkward, and the ledger knows of the orders a call polls.
LEMMA OwnStep ==
    ASSUME CallOK, DataOK, OwnOrders, [Next]_vars
    PROVE  OwnOrders' /\ (Awkward => Awkward')
<1>1. OrdersKept /\ StillKnown(entry, entry') /\ StillKnown(exit, exit')
  BY OrdersStep
<1>2. Awkward => Awkward'
  BY <1>1 DEF Awkward, OrdersKept
<1>3. /\ entry # None => entry.order \in DOMAIN orders
      /\ exit # None => exit.order \in DOMAIN orders
  BY DEF DataOK, PendingEntries, PendingExits
<1>4. entry' # None => orders'[entry'.order].known # "unknown"
  BY <1>1, <1>3 DEF StillKnown, OrdersKept, OwnOrders
<1>5. exit' # None => orders'[exit'.order].known # "unknown"
  BY <1>1, <1>3 DEF StillKnown, OrdersKept, OwnOrders
<1> QED BY <1>2, <1>4, <1>5 DEF OwnOrders

\* The runner starts no submission.
LEMMA RunnerSubmits ==
    ASSUME RunnerStep \/ Premarket, at' = "submit"
    PROVE  UNCHANGED <<at, req>>
<1>1. CASE Authenticate \/ OpenOptions \/ WarmUp \/ Premarket \/ Report \/ Finished \/ UNCHANGED vars
  BY <1>1 DEF Authenticate, OpenOptions, WarmUp, Premarket, Report, Finished, vars, handlerVars
<1>2. CASE LoopEnds \/ Replay
  BY <1>2 DEF LoopEnds, Replay, ReplayEvent, AfterReplayEvent, ReplayFinish, Idle
<1>3. CASE PollFails \/ PollQuote \/ AfterSpyEvent \/ SessionFails \/ NextQuote \/ QuotesDone
  BY <1>3 DEF PollFails, PollQuote, AfterSpyEvent, SessionFails, NextQuote, QuotesDone, Idle
<1>4. CASE SkipAgents \/ DecisionFails \/ DecideOnly \/ Confirm
  BY <1>4 DEF SkipAgents, DecisionFails, DecideOnly, Confirm, handlerVars
<1>5. CASE AfterDecision \/ Council \/ AfterCouncil
  BY <1>5 DEF AfterDecision, Council, AfterCouncil, Idle
<1> QED BY <1>1, <1>2, <1>3, <1>4, <1>5 DEF RunnerStep, Loop

\* A session is live or not from its start.
LEMMA LiveStays == ASSUME CallOK, [Next]_vars PROVE cfg'.live = cfg.live
<1>1. CASE Premarket
  <2>1. cfg' = cfg \/ cfg' = [cfg EXCEPT !.armed = TRUE]
    BY <1>1 DEF Premarket
  <2> QED BY <2>1 DEF CallOK, Sessions
<1>2. CASE RunnerStep \/ BrokerStep
  BY <1>2, RunnerKeeps DEF RunnerStep, BrokerStep
<1>3. CASE HandlerStep
  BY <1>3 DEF HandlerStep, HandleEntry, HandleExit, HandleQuote, HandleExitAgain, TryExit,
              HandleGate, AttemptEntry, SubmitEntry, PromoteEntry
<1> QED BY <1>1, <1>2, <1>3, NextCases

\* Every step keeps the books.
LEMMA BooksStep == ASSUME CallOK, DataOK, EngineInv, BooksInv, [Next]_vars PROVE BooksInv'
<1>1. OwnOrders' /\ (Awkward => Awkward') /\ cfg'.live = cfg.live
  BY OwnStep, LiveStays DEF BooksInv
<1>2. SUFFICES ASSUME cfg.live, ~Awkward'
               PROVE  /\ Covered(orders', posn', lpos', trade', entry', exit')
                      /\ at' = "submit" => Clear'
                      /\ "buy" \notin PartialSides => StaysWhole
  <2>1. "buy" \notin PartialSides /\ BooksInv /\ cfg.live /\ ~Awkward =>
          Whole(orders, posn, lpos, trade, entry, exit)
    BY TypedNow DEF BooksInv, Whole
  <2> QED BY <1>1, <2>1 DEF BooksInv, StaysWhole
<1>3. Covered(orders, posn, lpos, trade, entry, exit) /\ (at = "submit" => Clear)
  BY <1>1, <1>2 DEF BooksInv
<1>4. CASE UNCHANGED <<orders, posn, lpos, trade, entry, exit>> /\ at' # "submit"
  BY <1>3, <1>4 DEF Whole, StaysWhole
<1>5. CASE RunnerStep \/ Premarket
  <2>1. UNCHANGED <<orders, posn, lpos, trade, entry, exit>>
    BY <1>5, RunnerKeeps DEF RunnerStep, Premarket, handlerData
  <2>2. at' = "submit" => UNCHANGED <<at, req>>
    BY <1>5, RunnerSubmits
  <2>3. StaysWhole
    BY <2>1 DEF Whole, StaysWhole
  <2> QED BY <1>3, <2>1, <2>2, <2>3 DEF Clear, Working
<1>6. CASE BrokerStep
  <2>1. at' = at /\ Working # {}
    BY <1>6 DEF BrokerStep, BrokerFill, BrokerPartialFill, BrokerDrop
  <2>2. at # "submit"
    BY <1>3, <2>1 DEF Clear
  <2> QED BY <1>2, <1>3, <1>6, <2>1, <2>2, BrokerBooks
<1>7. CASE HandleEntry \/ PromoteEntry
  BY <1>2, <1>3, <1>7, EntryBooks DEF HandleEntry, PromoteEntry
<1>8. CASE HandleExit \/ HandleExitAgain
  BY <1>3, <1>8, ExitBooks DEF HandleExit, HandleExitAgain
<1>9. CASE HandleQuote \/ TryExit
  <2>1. at' # "submit"
    BY <1>9 DEF HandleQuote, TryExit
  <2> QED BY <1>2, <1>3, <1>9, <2>1, QuoteBooks
<1>10. CASE HandleGate
  BY <1>4, <1>10 DEF HandleGate
<1>11. CASE AttemptEntry
  <2>1. UNCHANGED <<orders, posn, lpos, trade, entry, exit>> /\ at = "attempt"
    BY <1>11 DEF AttemptEntry
  <2>2. AttemptEffect
    BY <1>11, <2>1, AttemptStep DEF CallOK, MayAttempt
  <2>3. ASSUME at' = "submit" PROVE Clear'
    <3>1. ~AttemptRefused /\ req'.qty >= 1
      BY <2>2, <2>3 DEF AttemptEffect
    <3>2. Working = {} /\ \A c \in Contracts : posn[c] = 0
      BY <3>1 DEF AttemptRefused, BrokerBusy, OpenPositions
    <3> QED BY <2>1, <3>1, <3>2 DEF Clear, Working
  <2>4. StaysWhole
    BY <2>1 DEF Whole, StaysWhole
  <2> QED BY <1>3, <2>1, <2>3, <2>4
<1>12. CASE SubmitEntry
  <2>1. at = "submit" /\ at' # "submit"
    BY <1>12 DEF SubmitEntry, GiveUp
  <2> QED BY <1>2, <1>3, <1>12, <2>1, SubmitBooks
<1> QED BY <1>5, <1>6, <1>7, <1>8, <1>9, <1>10, <1>11, <1>12, NextCases DEF HandlerStep

\* The books hold of every session.
LEMMA BooksInvariant == Spec => [](SessionInv /\ BooksInv)
<1>1. Init => BooksInv
  <2>1. SUFFICES ASSUME Init PROVE BooksInv
    OBVIOUS
  <2>2. /\ orders = <<>> /\ trade = None /\ entry = None /\ exit = None /\ at = "idle"
        /\ \A c \in Contracts : posn[c] = 0 /\ lpos[c].qty = 0
    BY <2>1 DEF Init
  <2>3. DOMAIN orders = {}
    BY <2>2
  <2> QED BY <2>2, <2>3 DEF BooksInv, OwnOrders, Covered, EntryCovered, TradeCovered, ExitCovered,
                            EntryWhole, TradeWhole
<1>2. SessionInv /\ BooksInv /\ [Next]_vars => BooksInv'
  BY BooksStep DEF SessionInv
<1> QED BY <1>1, <1>2, SessionInvariant, PTL DEF Spec

\* The ledger of a session never has less than the exit under way has still to sell,
\* nor more than the broker once what is unbooked is settled: however exits are
\* cancelled, retried, filled in part or late, no position is ever short, unless
\* the broker took an order whose call raised or cancelled one half filled.
THEOREM NeverSellsShort == Spec => []NeverShort
<1>1. SessionInv /\ BooksInv => NeverShort
  <2>1. SUFFICES ASSUME SessionInv, BooksInv, cfg.live, ~Awkward, NEW c \in Contracts
                 PROVE  posn[c] >= 0
    BY DEF NeverShort
  <2>2. DataOK /\ Covered(orders, posn, lpos, trade, entry, exit)
    BY <2>1 DEF SessionInv, BooksInv
  <2>3. posn[c] \in Int /\ lpos[c].qty \in Int
    BY <2>2 DEF DataOK, Books
  <2>4. CASE exit = None \/ c # exit.contract
    BY <2>2, <2>3, <2>4 DEF Covered
  <2>5. CASE exit # None /\ c = exit.contract
    <3>1. PICK o : o = orders[exit.order] /\ o \in Orders /\ FillsOK(o)
      <4>1. exit.order \in DOMAIN orders
        BY <2>2, <2>5 DEF DataOK, PendingExits
      <4> QED BY <2>2, <4>1 DEF DataOK, Covered
    <3>2. /\ o.qty - o.booked <= lpos[c].qty /\ lpos[c].qty <= posn[c] + (o.filled - o.booked)
          /\ o.filled <= o.qty
      BY <2>2, <2>5, <3>1 DEF Covered, ExitCovered, Unbooked, FillsOK
    <3>3. o.qty \in Int /\ o.filled \in Int /\ o.booked \in Int
      BY <3>1, OrderFields
    <3> QED BY <2>3, <3>2, <3>3
  <2> QED BY <2>4, <2>5
<1> QED BY <1>1, BooksInvariant, PTL

\* Where the broker fills entries as a whole, what it holds is the open trade's or
\* the pending entry's: without a trade and an entry there is nothing, and with one
\* the position is in its contract.  (An entry that is filled in part becomes the
\* trade; what it fills after the exit belongs to nobody.)
THEOREM NothingUnmanaged ==
    ASSUME "buy" \notin PartialSides
    PROVE  Spec => []NoUnmanagedPosition
<1>1. SessionInv /\ BooksInv => NoUnmanagedPosition
  <2>1. SUFFICES ASSUME SessionInv, BooksInv, cfg.live, ~Awkward, NEW c \in Contracts, posn[c] # 0
                 PROVE  \/ trade # None /\ trade.contract = c
                        \/ entry # None /\ entry.contract = c
    BY DEF NoUnmanagedPosition, OpenPositions
  <2>2. /\ EntryWhole(orders, posn, lpos, trade, entry, exit)
        /\ EntryCovered(orders, posn, lpos, trade, entry, exit)
        /\ TradeCovered(orders, posn, lpos, trade, exit)
    BY <2>1 DEF BooksInv, Covered
  <2> QED BY <2>1, <2>2 DEF EntryWhole, EntryCovered, TradeCovered, Only
<1> QED BY <1>1, BooksInvariant, PTL

-----------------------------------------------------------------------------
(* The budget's profit is the ledger's                                     *)

RealizedBy(l) == [c \in Contracts |-> l[c].realized]
LedgerProfit(l) == SumOf(RealizedBy(l), Contracts)

\* What the exit under way has realised: the budget is told at the end of the trade.
Unsettled(l, x) == IF x = None THEN 0 ELSE l[x.contract].realized - x.before

\* All of the ledger's profit is the budget's but what the exit under way adds, and
\* that is nothing before a fill of the exit is booked.
Settling(os, l, x, b) ==
    /\ b.realized + Unsettled(l, x) = LedgerProfit(l)
    /\ x # None /\ os[x.order].booked = 0 => Unsettled(l, x) = 0

\* The profit follows the contract whose position realises it.
LEMMA ProfitMoves ==
    ASSUME NEW l \in Books, NEW l2 \in Books, NEW d \in Contracts,
           \A c \in Contracts \ {d} : l2[c].realized = l[c].realized
    PROVE  /\ LedgerProfit(l) \in Int
           /\ LedgerProfit(l2) = LedgerProfit(l) + l2[d].realized - l[d].realized
<1>1. PICK f, h : f = RealizedBy(l) /\ h = RealizedBy(l2)
  OBVIOUS
<1>2. /\ \A c \in Contracts : f[c] = l[c].realized /\ f[c] \in Int /\ h[c] = l2[c].realized /\ h[c] \in Int
      /\ \A c \in Contracts \ {d} : f[c] = h[c]
  BY <1>1 DEF RealizedBy, Books
<1>3. SumOf(h, Contracts) = SumOf(f, Contracts) + h[d] - f[d]
  BY <1>2, SumChange, HandlerAssumption
<1>4. SumOf(f, Contracts) \in Int
  BY <1>2, SumInt, HandlerAssumption
<1> QED BY <1>1, <1>2, <1>3, <1>4 DEF LedgerProfit

LEMMA ProfitSame ==
    ASSUME NEW l \in Books, NEW l2 \in Books,
           \A c \in Contracts : l2[c].realized = l[c].realized
    PROVE  LedgerProfit(l2) = LedgerProfit(l)
<1>1. RealizedBy(l2) = RealizedBy(l)
  BY DEF RealizedBy
<1> QED BY <1>1 DEF LedgerProfit

\* Only a sale realises a profit, in its contract.
LEMMA BookRealizes ==
    ASSUME NEW l \in Books, NEW o \in Orders, NEW n \in Int, NEW c \in Contracts,
           c # o.contract \/ o.side = "buy" \/ n = 0
    PROVE  Book(l, o, n)[c].realized = l[c].realized
<1>1. CASE n = 0
  BY <1>1 DEF Book
<1>2. CASE n # 0
  <2>1. PICK d, p : d = o.contract /\ p = l[d] /\ d \in Contracts
                    /\ p \in [qty : Int, avg : Int, realized : Int]
    BY DEF Orders, Books
  <2>2. PICK u : u = p.qty + n
    OBVIOUS
  <2>3. PICK y : Book(l, o, n) = [l EXCEPT ![d] = IF o.side = "buy" THEN [p EXCEPT !.qty = u, !.avg = o.price]
                                                  ELSE y]
    BY <1>2, <2>1, <2>2 DEF Book
  <2>4. CASE c # d
    BY <2>1, <2>3, <2>4 DEF Books
  <2>5. CASE c = d /\ o.side = "buy"
    <3>1. Book(l, o, n)[c] = [p EXCEPT !.qty = u, !.avg = o.price]
      BY <2>1, <2>3, <2>5 DEF Books
    <3> QED BY <2>1, <2>5, <3>1
  <2> QED BY <1>2, <2>1, <2>4, <2>5
<1> QED BY <1>1, <1>2

\* What may happen to the books while an exit stays as it is.
MayRealize(os, l, os2, l2, x, b) ==
    /\ l \in Books /\ l2 \in Books /\ b \in Budgets
    /\ x # None => x.contract \in Contracts /\ x.before \in Int
    /\ \A c \in Contracts : l2[c].realized = l[c].realized \/ (x # None /\ c = x.contract)
    /\ x # None /\ os2[x.order].booked = 0 =>
         os[x.order].booked = 0 /\ l2[x.contract].realized = l[x.contract].realized

LEMMA SettlingMoves ==
    ASSUME NEW os, NEW l, NEW os2, NEW l2, NEW x, NEW b,
           MayRealize(os, l, os2, l2, x, b), Settling(os, l, x, b)
    PROVE  Settling(os2, l2, x, b)
<1>1. l \in Books /\ l2 \in Books /\ b.realized \in Int
  BY DEF MayRealize, Budgets
<1>2. CASE x = None
  <2>1. LedgerProfit(l2) = LedgerProfit(l)
    BY <1>1, <1>2, ProfitSame DEF MayRealize
  <2> QED BY <1>2, <2>1 DEF Settling, Unsettled
<1>3. CASE x # None
  <2>1. PICK d : d = x.contract /\ d \in Contracts /\ x.before \in Int
    BY <1>3 DEF MayRealize
  <2>2. \A c \in Contracts \ {d} : l2[c].realized = l[c].realized
    BY <2>1 DEF MayRealize
  <2>3. /\ LedgerProfit(l) \in Int
        /\ LedgerProfit(l2) = LedgerProfit(l) + l2[d].realized - l[d].realized
    BY <1>1, <2>1, <2>2, ProfitMoves
  <2>4. l[d].realized \in Int /\ l2[d].realized \in Int
    BY <1>1, <2>1 DEF Books
  <2>5. b.realized + (l2[d].realized - x.before) = LedgerProfit(l2)
    BY <1>1, <1>3, <2>1, <2>3, <2>4 DEF Settling, Unsettled
  <2>6. os2[x.order].booked = 0 => l2[d].realized - x.before = 0
    BY <1>3, <2>1 DEF Settling, Unsettled, MayRealize
  <2> QED BY <1>3, <2>1, <2>5, <2>6 DEF Settling, Unsettled
<1> QED BY <1>2, <1>3

\* A poll of the pending entry or exit.
LEMMA PollSettles ==
    ASSUME DataOK, Covered(orders, posn, lpos, trade, entry, exit),
           NEW k, NEW o, NEW os2, NEW l2, Polls(k, o, os2, l2), Own(k, entry, exit),
           Settling(orders, lpos, exit, budget)
    PROVE  Settling(os2, l2, exit, budget)
<1>1. /\ k \in DOMAIN orders /\ o = Polled(orders[k]) /\ os2 = [orders EXCEPT ![k] = o]
      /\ l2 = Book(lpos, orders[k], o.booked - orders[k].booked)
  BY DEF Polls
<1>2. PICK a : a = orders[k] /\ a \in Orders /\ FillsOK(a)
  BY <1>1 DEF DataOK, Covered
<1>3. o \in Orders /\ l2 \in Books
  BY <1>1, PollBooks
<1>4. a.booked \in Int /\ o.booked \in Int /\ 0 <= a.booked /\ a.booked <= o.booked
  BY <1>1, <1>2, <1>3, PollFills, OrderFields DEF FillsOK
<1>5. PICK n : n = o.booked - a.booked /\ n \in Int
  BY <1>4
<1>6. \A c \in Contracts : c # a.contract \/ a.side = "buy" \/ n = 0 => l2[c].realized = lpos[c].realized
  BY <1>1, <1>2, <1>5, BookRealizes DEF DataOK
<1>7. \/ a.side = "buy" /\ exit = None
      \/ exit # None /\ k = exit.order /\ a.contract = exit.contract
  BY <1>2 DEF Own, Covered, EntryCovered, ExitCovered
<1>8. os2[k] = o
  BY <1>1 DEF DataOK
<1>9. exit # None => exit.contract \in Contracts /\ exit.before \in Int
  BY DEF DataOK, PendingExits
<1>10. MayRealize(orders, lpos, os2, l2, exit, budget)
  BY <1>2, <1>3, <1>4, <1>5, <1>6, <1>7, <1>8, <1>9 DEF MayRealize, DataOK
<1> QED BY <1>10, SettlingMoves

\* The budget's profit after a release.
LEMMA ReleaseRealizes ==
    ASSUME NEW b \in Budgets, NEW n \in Int, NEW pnl \in Int
    PROVE  Release(b, n, pnl).realized = b.realized + pnl
<1>1. PICK u, v, w : Release(b, n, pnl) = [b EXCEPT !.reserved = u, !.open = v, !.realized = w]
                     /\ w = b.realized + pnl
  BY DEF Release
<1> QED BY <1>1 DEF Budgets

\* The books settle alike with two budgets of the same profit.
LEMMA SettlingSame ==
    ASSUME NEW os, NEW l, NEW x, NEW b, NEW b2, b2.realized = b.realized, Settling(os, l, x, b)
    PROVE  Settling(os, l, x, b2)
BY DEF Settling

LEMMA EntrySettles ==
    ASSUME DataOK, Covered(orders, posn, lpos, trade, entry, exit), cfg.live,
           Settling(orders, lpos, exit, budget), ReconcilePendingEntry, UNCHANGED exit
    PROVE  Settling(orders', lpos', exit', budget')
<1>1. CASE UNCHANGED <<orders, lpos, budget>>
  BY <1>1
<1>2. CASE entry # None /\ ReconcileEntryLedger
  <2>1. PICK k, o, l, os : /\ k = entry.order /\ o = Polled(orders[k])
                           /\ l = Book(lpos, orders[k], o.booked - orders[k].booked)
                           /\ os = [orders EXCEPT ![k] = o]
    OBVIOUS
  <2>2. k \in DOMAIN orders /\ Own(k, entry, exit)
    BY <1>2, <2>1 DEF DataOK, PendingEntries, Own
  <2>3. Settling(os, l, exit, budget)
    <3>1. Polls(k, o, os, l)
      BY <2>1, <2>2 DEF Polls
    <3> QED BY <2>2, <3>1, PollSettles
  <2>4. orders' = os /\ lpos' = l
    BY <1>2, <2>1 DEF ReconcileEntryLedger
  <2>5. budget' = budget \/ budget' = Release(budget, alloc, 0)
    BY <1>2 DEF ReconcileEntryLedger, EntryGone, AttachOpenTrade
  <2>6. budget'.realized = budget.realized
    <3>1. Release(budget, alloc, 0).realized = budget.realized + 0 /\ budget.realized \in Int
      BY ReleaseRealizes DEF DataOK, Budgets
    <3> QED BY <2>5, <3>1
  <2> QED BY <2>3, <2>4, <2>6, SettlingSame
<1> QED BY <1>1, <1>2 DEF ReconcilePendingEntry

LEMMA ExitSettles ==
    ASSUME DataOK, Covered(orders, posn, lpos, trade, entry, exit),
           Whole(orders, posn, lpos, trade, entry, exit),
           Settling(orders, lpos, exit, budget), ReconcilePendingExit
    PROVE  Settling(orders', lpos', exit', budget')
<1>1. CASE UNCHANGED <<orders, lpos, exit, budget>>
  BY <1>1
<1>2. CASE exit # None /\ trade # None /\ ReconcileExitLedger
  <2>1. PICK k, o, l, os, c, left :
           /\ k = exit.order /\ o = Polled(orders[k])
           /\ l = Book(lpos, orders[k], o.booked - orders[k].booked)
           /\ os = [orders EXCEPT ![k] = o] /\ c = exit.contract /\ left = l[c].qty
    OBVIOUS
  <2>2. /\ k \in DOMAIN orders /\ c \in Contracts /\ Own(k, entry, exit) /\ exit.before \in Int
        /\ trade.reserved \in Int
    BY <1>2, <2>1 DEF DataOK, PendingExits, Own, OpenTrades
  <2>3. Polls(k, o, os, l)
    BY <2>1, <2>2 DEF Polls
  <2>4. /\ Settling(os, l, exit, budget) /\ Whole(os, posn, l, trade, entry, exit)
        /\ os[k] = o /\ FillsOK(o)
    BY <2>2, <2>3, PollSettles, PollCovered
  <2>5. l \in Books /\ o \in Orders
    BY <2>1, <2>2, PollBooks
  <2>6. /\ o.qty \in Int /\ o.filled \in Int /\ o.booked \in Int /\ left \in Int
        /\ l[c].realized \in Int /\ budget.realized \in Int
    BY <2>1, <2>2, <2>5, OrderFields DEF Books, DataOK, Budgets
  <2>7. left = o.qty - o.booked
    BY <1>2, <2>1, <2>4 DEF Whole, TradeWhole
  <2>8. /\ orders' = os /\ lpos' = l
        /\ \/ o.known \in {"cancelled", "rejected"} /\ exit' = None /\ budget' = budget
           \/ left = 0 /\ FinalizeExit(l[c].realized - exit.before)
           \/ /\ budget' = budget
              /\ exit' = IF o.known = "filled" /\ left > 0 THEN None ELSE exit
    BY <1>2, <2>1 DEF ReconcileExitLedger
  <2>9. CASE o.known \in {"cancelled", "rejected"} /\ exit' = None /\ budget' = budget
    <3>1. o.booked = 0
      BY <2>4, <2>6, <2>9 DEF FillsOK
    <3>2. Unsettled(l, exit) = 0 /\ Unsettled(l, exit') = 0
      BY <1>2, <2>1, <2>4, <2>9, <3>1 DEF Settling, Unsettled
    <3> QED BY <2>4, <2>8, <2>9, <3>2 DEF Settling
  <2>10. CASE left = 0 /\ FinalizeExit(l[c].realized - exit.before)
    <3>1. PICK pnl : pnl = l[c].realized - exit.before /\ pnl \in Int
      BY <2>2, <2>6
    <3>2. budget' = Release(budget, trade.reserved, pnl) /\ exit' = None
      BY <2>10, <3>1 DEF FinalizeExit
    <3>3. budget'.realized = budget.realized + pnl
      BY <2>2, <3>1, <3>2, ReleaseRealizes, SMTT(20) DEF DataOK
    <3>4. budget.realized + pnl = LedgerProfit(l)
      BY <1>2, <2>1, <2>4, <3>1 DEF Settling, Unsettled
    <3>5. budget'.realized + 0 = LedgerProfit(l)
      BY <2>6, <3>1, <3>3, <3>4
    <3> QED BY <2>8, <3>2, <3>5 DEF Settling, Unsettled
  <2>11. CASE /\ budget' = budget
              /\ exit' = IF o.known = "filled" /\ left > 0 THEN None ELSE exit
    <3>1. ~(o.known = "filled" /\ left > 0)
      BY <2>4, <2>6, <2>7 DEF FillsOK
    <3> QED BY <2>4, <2>8, <2>11, <3>1
  <2> QED BY <2>8, <2>9, <2>10, <2>11
<1> QED BY <1>1, <1>2 DEF ReconcilePendingExit

\* An order that is taken.
LEMMA TakeBooks ==
    ASSUME DataOK, NEW o \in Orders, TakeOrder(o), DataOK', NEW c \in Contracts,
           c # o.contract \/ o.side = "buy" \/ o.booked = 0
    PROVE  lpos'[c].realized = lpos[c].realized
<1>1. lpos' = Book(lpos, o, o.booked) /\ o.booked \in Int
  BY OrderFields DEF TakeOrder
<1> QED BY <1>1, BookRealizes DEF DataOK

\* An exit that is sent takes the profit before it for its baseline.
LEMMA QuoteSettles ==
    ASSUME CallOK, DataOK, DataOK', Covered(orders, posn, lpos, trade, entry, exit), ~Awkward',
           HandleQuote \/ TryExit, Settling(orders, lpos, exit, budget)
    PROVE  Settling(orders', lpos', exit', budget')
<1>1. budget' = budget
  BY DEF HandleQuote, TryExit
<1>2. CASE UNCHANGED <<exit, orders, lpos>>
  BY <1>1, <1>2
<1>3. CASE ~UNCHANGED <<exit, orders, lpos>>
  <2>1. TryExit /\ trade # None /\ exit = None
    BY <1>3, ReasonType DEF HandleQuote, TryExit
  <2>2. PICK c \in OpenPositions :
           \/ TakeLostOrder("sell", c, trade.qty, ev.mid)
           \/ \E s \in SubmitResults \ {"rejected"} :
                /\ TakeOrder(Placed("sell", c, trade.qty, ev.mid, NoOne, s))
                /\ exit' = [order |-> Len(orders) + 1, contract |-> c,
                            reason |-> ExitReason, before |-> lpos[c].realized]
    BY <1>3, <2>1 DEF TryExit
  <2>3. /\ c \in Contracts /\ trade.qty \in Int /\ trade.qty >= 1 /\ ev.mid \in Int /\ cfg \in Sessions
        /\ NoOne \in [source : Sources, n : Int]
    BY <2>1, SetTypes DEF OpenPositions, OpenTrades, DataOK, CallOK, NoOne, By, Sources,
                          Covered, TradeCovered
  <2>4. PICK s \in SubmitResults \ {"rejected"} :
                /\ TakeOrder(Placed("sell", c, trade.qty, ev.mid, NoOne, s))
                /\ exit' = [order |-> Len(orders) + 1, contract |-> c,
                            reason |-> ExitReason, before |-> lpos[c].realized]
    BY <2>2, <2>3, LostIsAwkward
  <2>5. PICK o : o = Placed("sell", c, trade.qty, ev.mid, NoOne, s)
    OBVIOUS
  <2>6. o \in Orders /\ o.contract = c /\ TakeOrder(o)
    <3>1. s \in {"open", "filled"}
      BY DEF SubmitResults
    <3> QED BY <2>3, <2>4, <2>5, <3>1, PlacedFills
  <2>7. orders'[exit'.order] = o /\ exit' # None /\ exit'.contract = c /\ exit'.before = lpos[c].realized
    <3>1. orders'[Len(orders) + 1] = o
      BY <2>6, TakeKeeps
    <3>2. DOMAIN None = {"none"} /\ "order" \in DOMAIN exit'
      BY <2>4 DEF None
    <3> QED BY <2>4, <3>1, <3>2
  <2>8. /\ \A d \in Contracts \ {c} : lpos'[d].realized = lpos[d].realized
        /\ o.booked = 0 => lpos'[c].realized = lpos[c].realized
    BY <2>3, <2>6, TakeBooks
  <2>9. lpos \in Books /\ lpos' \in Books /\ budget.realized \in Int
    BY DEF DataOK, Budgets
  <2>10. /\ LedgerProfit(lpos) \in Int
         /\ LedgerProfit(lpos') = LedgerProfit(lpos) + lpos'[c].realized - lpos[c].realized
    BY <2>3, <2>8, <2>9, ProfitMoves
  <2>11. lpos[c].realized \in Int /\ lpos'[c].realized \in Int
    BY <2>3, <2>9 DEF Books
  <2>12. budget.realized = LedgerProfit(lpos)
    BY <2>1, <2>9 DEF Settling, Unsettled
  <2>13. budget.realized + (lpos'[c].realized - lpos[c].realized) = LedgerProfit(lpos')
    BY <2>9, <2>10, <2>11, <2>12
  <2>14. o.booked = 0 => lpos'[c].realized - lpos[c].realized = 0
    BY <2>8, <2>11
  <2> QED BY <1>1, <2>7, <2>13, <2>14 DEF Settling, Unsettled
<1> QED BY <1>2, <1>3

\* An entry that is sent realises nothing.
LEMMA SubmitSettles ==
    ASSUME CallOK, DataOK, DataOK', EngineInv, Covered(orders, posn, lpos, trade, entry, exit),
           ~Awkward', SubmitEntry, Clear, Settling(orders, lpos, exit, budget)
    PROVE  Settling(orders', lpos', exit', budget')
<1>1. at = "submit" /\ exit' = exit
  BY DEF SubmitEntry
<1>2. exit = None
  BY <1>1 DEF EngineInv, Covered, ExitCovered
<1>3. /\ req.contract \in Contracts /\ req.by \in [source : Sources, n : Int]
      /\ req.qty \in Int /\ req.entry \in Int /\ cfg \in Sessions /\ req.qty >= 1
  BY <1>1 DEF CallOK, MaySubmit, Clear
<1>4. budget'.realized = budget.realized
  <2>1. budget' = budget \/ budget' = Release(budget, alloc, 0)
    BY DEF SubmitEntry
  <2>2. Release(budget, alloc, 0).realized = budget.realized + 0 /\ budget.realized \in Int
    BY ReleaseRealizes DEF DataOK, Budgets
  <2> QED BY <2>1, <2>2
<1>5. \A c \in Contracts : lpos'[c].realized = lpos[c].realized
  <2>1. CASE lpos' = lpos
    BY <2>1
  <2>2. CASE lpos' # lpos
    <3>1. PICK s \in SubmitResults \ {"rejected"} :
             TakeOrder(Placed("buy", req.contract, req.qty, req.entry, req.by, s))
      BY <1>3, <2>2, LostIsAwkward DEF SubmitEntry
    <3>2. PICK o : o = Placed("buy", req.contract, req.qty, req.entry, req.by, s)
      OBVIOUS
    <3>3. o \in Orders /\ o.side = "buy" /\ TakeOrder(o)
      <4>1. s \in {"open", "filled"}
        BY DEF SubmitResults
      <4> QED BY <1>3, <3>1, <3>2, <4>1, PlacedFills
    <3> QED BY <3>3, TakeBooks
  <2> QED BY <2>1, <2>2
<1>6. LedgerProfit(lpos') = LedgerProfit(lpos)
  BY <1>5, ProfitSame DEF DataOK
<1> QED BY <1>1, <1>2, <1>4, <1>6 DEF Settling, Unsettled

\* The broker's fills realise a profit only as the exit's are announced.
LEMMA BrokerSettles ==
    ASSUME DataOK, DataOK', Covered(orders, posn, lpos, trade, entry, exit), BrokerStep,
           Settling(orders, lpos, exit, budget)
    PROVE  Settling(orders', lpos', exit', budget')
<1>1. PICK k \in DOMAIN orders : BrokerFill(k) \/ BrokerPartialFill(k) \/ BrokerDrop(k)
  BY DEF BrokerStep
<1>2. PICK a : a = orders[k] /\ a \in Orders /\ FillsOK(a)
  BY DEF DataOK, Covered
<1>3. /\ a.filled \in Int /\ a.booked \in Int /\ 0 <= a.booked /\ orders \in Seq(Orders)
      /\ a.status = "open" /\ exit' = exit /\ budget' = budget
  BY <1>1, <1>2, OrderFields DEF DataOK, FillsOK, BrokerFill, BrokerPartialFill, BrokerDrop, Working,
                                 BrokerStep
<1>4. exit # None => exit.order \in DOMAIN orders /\ exit.contract \in Contracts /\ exit.before \in Int
  BY DEF DataOK, PendingExits
<1>5. CASE BrokerFill(k) \/ BrokerDrop(k)
  <2>1. lpos' = lpos
    BY <1>5 DEF BrokerFill, BrokerDrop
  <2>2. \A j \in DOMAIN orders : orders'[j].booked = orders[j].booked
    <3>1. CASE BrokerFill(k)
      <4>1. PICK b : b = [a EXCEPT !.status = "filled", !.filled = a.qty]
        OBVIOUS
      <4>2. orders' = [orders EXCEPT ![k] = b] /\ b.booked = a.booked
        BY <1>2, <3>1, <4>1 DEF BrokerFill, Orders
      <4> QED BY <1>2, <1>3, <4>2
    <3>2. CASE BrokerDrop(k)
      <4>1. PICK s : orders' = [orders EXCEPT ![k].status = s]
        BY <3>2 DEF BrokerDrop
      <4>2. PICK b : b = [a EXCEPT !.status = s]
        OBVIOUS
      <4>3. orders' = [orders EXCEPT ![k] = b] /\ b.booked = a.booked
        BY <1>2, <4>1, <4>2 DEF Orders
      <4> QED BY <1>2, <1>3, <4>3
    <3> QED BY <1>5, <3>1, <3>2
  <2>3. MayRealize(orders, lpos, orders', lpos', exit, budget)
    BY <1>4, <2>1, <2>2 DEF MayRealize, DataOK
  <2> QED BY <1>3, <2>3, SettlingMoves
<1>6. CASE BrokerPartialFill(k)
  <2>1. PICK n : n = a.booked + 1 /\ n \in Int /\ n # 0
    BY <1>3
  <2>2. PICK b : b = [a EXCEPT !.filled = a.filled + 1, !.booked = n, !.known = "partially_filled"]
    OBVIOUS
  <2>3. orders' = [orders EXCEPT ![k] = b] /\ lpos' = Book(lpos, a, 1)
    BY <1>2, <1>6, <2>1, <2>2 DEF BrokerPartialFill
  <2>4. /\ orders'[k].booked # 0
        /\ \A j \in DOMAIN orders \ {k} : orders'[j] = orders[j]
    BY <1>2, <1>3, <2>1, <2>2, <2>3 DEF Orders
  <2>5. \A c \in Contracts : c # a.contract \/ a.side = "buy" => lpos'[c].realized = lpos[c].realized
    BY <1>2, <2>3, BookRealizes DEF DataOK
  <2>6. a.side = "sell" => exit # None /\ k = exit.order /\ a.contract = exit.contract
    BY <1>2, <1>3 DEF Covered, ExitCovered
  <2>7. exit # None => orders[exit.order].side = "sell"
    BY DEF Covered, ExitCovered
  <2>8. a.side \in {"buy", "sell"}
    BY <1>2, OrderFields
  <2>9. \A c \in Contracts : lpos'[c].realized = lpos[c].realized \/ (exit # None /\ c = exit.contract)
    BY <2>5, <2>6, <2>8
  <2>10. exit # None /\ orders'[exit.order].booked = 0 =>
           orders[exit.order].booked = 0 /\ lpos'[exit.contract].realized = lpos[exit.contract].realized
    BY <1>2, <1>4, <2>4, <2>5, <2>6, <2>7, <2>8
  <2>11. MayRealize(orders, lpos, orders', lpos', exit, budget)
    BY <1>4, <2>9, <2>10 DEF MayRealize, DataOK
  <2> QED BY <1>3, <2>11, SettlingMoves
<1> QED BY <1>1, <1>5, <1>6

\* Profit and ledger, where the broker fills entries as a whole: an exit that is
\* over has then sold all of the trade, or nothing.
ProfitInv ==
    cfg.live /\ ~Awkward => Settling(orders, lpos, exit, budget)

LEMMA ProfitStep ==
    ASSUME "buy" \notin PartialSides, CallOK, DataOK, DataOK', EngineInv, BooksInv, ProfitInv,
           [Next]_vars
    PROVE  ProfitInv'
<1>1. (Awkward => Awkward') /\ cfg'.live = cfg.live
  BY OwnStep, LiveStays DEF BooksInv
<1>2. SUFFICES ASSUME cfg.live, ~Awkward'
               PROVE  Settling(orders', lpos', exit', budget')
  BY <1>1 DEF ProfitInv
<1>3. /\ Settling(orders, lpos, exit, budget)
      /\ Covered(orders, posn, lpos, trade, entry, exit) /\ (at = "submit" => Clear)
      /\ Whole(orders, posn, lpos, trade, entry, exit)
  BY <1>1, <1>2, TypedNow DEF ProfitInv, BooksInv, Whole
<1>4. CASE RunnerStep \/ Premarket
  <2>1. UNCHANGED <<orders, lpos, exit, budget>>
    BY <1>4, RunnerKeeps DEF RunnerStep, Premarket, handlerData
  <2> QED BY <1>3, <2>1
<1>5. CASE BrokerStep
  BY <1>3, <1>5, BrokerSettles
<1>6. CASE HandleEntry \/ PromoteEntry
  BY <1>2, <1>3, <1>6, EntrySettles DEF HandleEntry, PromoteEntry
<1>7. CASE HandleExit \/ HandleExitAgain
  BY <1>3, <1>7, ExitSettles DEF HandleExit, HandleExitAgain
<1>8. CASE HandleQuote \/ TryExit
  BY <1>2, <1>3, <1>8, QuoteSettles
<1>9. CASE HandleGate
  BY <1>3, <1>9 DEF HandleGate
<1>10. CASE AttemptEntry
  <2>1. UNCHANGED <<orders, lpos, exit>> /\ at = "attempt"
    BY <1>10 DEF AttemptEntry
  <2>2. AttemptEffect
    BY <1>10, <2>1, AttemptStep DEF CallOK, MayAttempt
  <2>3. budget' = budget \/ \E n \in Int : budget' = Reserve(budget, n)
    BY <2>2 DEF AttemptEffect, Reserves
  <2>4. budget'.realized = budget.realized
    <3>1. ASSUME NEW n \in Int PROVE Reserve(budget, n).realized = budget.realized
      BY DEF Reserve, DataOK, Budgets
    <3> QED BY <2>3, <3>1
  <2> QED BY <1>3, <2>1, <2>4, SettlingSame
<1>11. CASE SubmitEntry
  <2>1. at = "submit"
    BY <1>11 DEF SubmitEntry
  <2> QED BY <1>2, <1>3, <1>11, <2>1, SubmitSettles
<1> QED BY <1>4, <1>5, <1>6, <1>7, <1>8, <1>9, <1>10, <1>11, NextCases DEF HandlerStep

\* Nothing is realised before the first exit.
LEMMA ProfitInit == Init => ProfitInv
<1>1. SUFFICES ASSUME Init PROVE Settling(orders, lpos, exit, budget)
  BY DEF ProfitInv
<1>2. PICK f : f = RealizedBy(lpos)
  OBVIOUS
<1>3. \A c \in Contracts : f[c] = 0
  BY <1>1, <1>2 DEF Init, RealizedBy
<1>4. exit = None /\ budget.realized = 0
  BY <1>1 DEF Init, NewBudget
<1>5. SumOf(f, Contracts) = 0
  BY <1>3, SumZero, HandlerAssumption
<1> QED BY <1>2, <1>4, <1>5 DEF Settling, Unsettled, LedgerProfit

\* Where the broker fills entries as a whole, the profit the goal is measured by is the
\* one the ledger realised when nothing is open: each trade ends with one booking of
\* what its exits sold, against the profit before the exit that closed it.
THEOREM ProfitAlwaysRealized ==
    ASSUME "buy" \notin PartialSides
    PROVE  Spec => []BudgetPnlIsRealized
<1>1. SessionInv /\ BooksInv /\ ProfitInv => BudgetPnlIsRealized
  <2>1. SUFFICES ASSUME SessionInv, BooksInv, ProfitInv, cfg.live, ~Awkward, trade = None
                 PROVE  budget.realized = MapThenSumSet(LAMBDA c : lpos[c].realized, Contracts)
    BY DEF BudgetPnlIsRealized
  <2>2. exit = None /\ budget.realized \in Int
    BY <2>1 DEF SessionInv, DataOK, Budgets, BooksInv, Covered, ExitCovered
  <2>3. budget.realized = LedgerProfit(lpos)
    BY <2>1, <2>2 DEF ProfitInv, Settling, Unsettled
  <2>4. MapThenSumSet(LAMBDA c : lpos[c].realized, Contracts) = LedgerProfit(lpos)
    BY ZenonT(120) DEF LedgerProfit, RealizedBy, SumOf, MapThenSumSet, MapThenFoldSet
  <2> QED BY <2>3, <2>4
<1>2. SessionInv /\ SessionInv' /\ BooksInv /\ ProfitInv /\ [Next]_vars => ProfitInv'
  BY ProfitStep DEF SessionInv
<1> QED BY <1>1, <1>2, ProfitInit, BooksInvariant, PTL DEF Spec
=============================================================================
