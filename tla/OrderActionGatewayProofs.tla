---------------------- MODULE OrderActionGatewayProofs ----------------------
(***************************************************************************)
(* Proofs about OrderActionGateway for any contracts, order cap and number *)
(* of orders and requests: the ledger never has two entries of the         *)
(* decision worker at work, replacing an order repeats no fill but those   *)
(* the ledger did not know when it was cancelled, and validated closes do  *)
(* not oversell while nothing rests.                                       *)
(***************************************************************************)
EXTENDS OrderActionGateway, FiniteSums, TLAPS

-----------------------------------------------------------------------------
(* The inductive invariant                                                 *)

AllKinds == {"entry", "probe", "add", "reduce", "exit", "replace"}
Entries == {"entry", "probe"}

OrderRecords ==
    [kind: AllKinds, contract: Contracts, side: {"buy", "sell"}, qty: Nat \ {0}, filled: Nat,
     status: {"submitted", "accepted", "filled", "rejected", "cancelled"},
     live: {"none", "open", "filled", "cancelled"}, sent: Nat, rested: BOOLEAN, replaces: Nat]

\* What request and order have in common.
Fair(x) ==
    /\ x.kind \in AllKinds /\ x.contract \in Contracts /\ x.side \in {"buy", "sell"}
    /\ x.qty \in Nat \ {0} /\ x.replaces \in Nat
    /\ x.side = "buy" => x.qty <= MaxQty
    /\ x.kind \in Entries \cup {"add"} => x.side = "buy"
    /\ x.kind \in Sells => x.side = "sell"
    /\ x.kind # "replace" => x.replaces = NoId

\* An order's stages at the ledger and at the broker go together.
Stages(x) ==
    /\ x.status = "filled" => x.live = "filled" /\ x.filled = x.qty
    /\ x.status # "filled" => x.filled = 0
    /\ x.live = "none" => x.sent = 0 /\ x.status \in {"submitted", "rejected"}
    /\ x.live = "open" => x.status \in {"accepted", "rejected"} /\ x.rested /\ x.sent < x.qty
    /\ x.live = "cancelled" => x.status = "cancelled" /\ x.rested /\ x.sent < x.qty
    /\ x.live = "filled" => x.sent = x.qty /\ x.status \in {"accepted", "filled", "rejected"}
    /\ x.live = "filled" /\ x.status = "rejected" => x.rested

OrdersOK ==
    /\ orders \in Seq(OrderRecords)
    /\ \A o \in DOMAIN orders : Fair(orders[o]) /\ Stages(orders[o])

SameOrder(x, req) ==
    /\ x.kind = req.kind /\ x.contract = req.contract /\ x.side = req.side
    /\ x.qty = req.qty /\ x.replaces = req.replaces

\* A replaced order is cancelled first, and the replacement asks for no more.
Replaceable(o, n) == o \in DOMAIN orders /\ n <= orders[o].qty

CallOK(w, k) ==
    /\ k = [pc |-> k.pc, id |-> k.id, req |-> k.req]
    /\ k.pc \in {"idle", "cancel", "request", "send", "fill"} /\ k.id \in Nat
    /\ k.pc \notin {"send", "fill"} => k.id = NoId
    /\ k.pc # "idle" => Fair(k.req) /\ k.req.kind \in Kinds[w]
    /\ k.pc = "cancel" => k.req.kind = "replace" /\ Replaceable(k.req.replaces, k.req.qty)
    /\ k.pc = "request" /\ k.req.kind = "replace" =>
            /\ Replaceable(k.req.replaces, k.req.qty)
            /\ orders[k.req.replaces].live = "cancelled"
            /\ \A p \in DOMAIN orders : orders[p].replaces # k.req.replaces
    /\ k.pc \in {"send", "fill"} =>
            k.id \in DOMAIN orders /\ SameOrder(orders[k.id], k.req) /\ ~orders[k.id].rested
    /\ k.pc = "send" => orders[k.id].status = "submitted"
    /\ k.pc = "fill" => orders[k.id].live = "filled" /\ orders[k.id].status = "accepted"

WorkersOK ==
    /\ worker = [w \in Workers |-> worker[w]]
    /\ \A w \in Workers : CallOK(w, worker[w])
    /\ \A v, w \in Workers : worker[v].id = worker[w].id /\ worker[v].id # NoId => v = w

\* At most one replacement of an order, and only of a cancelled one.
ReplacedOK ==
    \A p \in DOMAIN orders : orders[p].replaces # NoId =>
        /\ Replaceable(orders[p].replaces, orders[p].qty)
        /\ orders[orders[p].replaces].live = "cancelled"
        /\ \A q \in DOMAIN orders : orders[q].replaces = orders[p].replaces => q = p

\* A fill at once is recorded by the call that sent the order.
LandingKnown ==
    \A o \in DOMAIN orders :
        orders[o].live = "filled" /\ orders[o].status # "filled" /\ ~orders[o].rested =>
            \E w \in Workers : worker[w].pc = "fill" /\ worker[w].id = o

NoEntry == \A o \in Working : orders[o].kind \notin Entries

EntryOK ==
    /\ \A w \in Workers : worker[w].pc = "request" /\ worker[w].req.kind \in Entries => NoEntry
    /\ \A o, p \in Working : orders[o].kind \in Entries /\ orders[p].kind \in Entries => o = p

\* What a call has bought or sold and not yet recorded.
Landing(w, k) ==
    IF w \in Workers /\ worker[w].pc = "fill" /\ worker[w].req.contract = k
    THEN Signed(worker[w].req, worker[w].req.qty) ELSE 0

AtOnce == \A o \in DOMAIN orders : ~orders[o].rested

Covered(w) ==
    worker[w].pc \in {"request", "send", "fill"} /\ worker[w].req.side = "sell" =>
        worker[w].req.qty <= Position(worker[w].req.contract)

\* While nothing rests: the broker's position is the projected one and what is
\* landing, and a sell under way is covered by the projected position.
HeldOK ==
    /\ held \in [Contracts -> Int]
    /\ AtOnce =>
        /\ \A k \in Contracts :
            /\ Position(k) >= 0
            /\ held[k] = Position(k) + Landing("decision", k) + Landing("position", k)
        /\ \A w \in Workers : Covered(w)

IInv == OrdersOK /\ WorkersOK /\ ReplacedOK /\ LandingKnown /\ EntryOK /\ HeldOK

-----------------------------------------------------------------------------
(* The projected position of a sequence of orders                          *)

Fills(s) == [o \in DOMAIN s |-> Signed(s[o], s[o].filled)]
OrdersFor(s, k) == {o \in DOMAIN s : s[o].contract = k}
Net(s, k) == SumOf(Fills(s), OrdersFor(s, k))

LEMMA PositionIsNet == ASSUME NEW k PROVE Position(k) = Net(orders, k) /\ Position(k)' = Net(orders', k)
BY ZenonT(30) DEF Position, Net, Fills, OrdersFor, SumOf, MapThenSumSet, MapThenFoldSet

LEMMA SignedInt == ASSUME NEW x, NEW n \in Int PROVE Signed(x, n) \in Int
BY DEF Signed

LEMMA FillsOK ==
  ASSUME NEW s \in Seq(OrderRecords), NEW k
  PROVE  /\ \A o \in DOMAIN s : Fills(s)[o] = Signed(s[o], s[o].filled) /\ Fills(s)[o] \in Int
         /\ IsFiniteSet(OrdersFor(s, k)) /\ OrdersFor(s, k) \subseteq DOMAIN s
         /\ Net(s, k) \in Int
<1>1. ASSUME NEW o \in DOMAIN s PROVE s[o].filled \in Int
  <2>1. s[o] \in OrderRecords
    OBVIOUS
  <2>2. s[o].filled \in Nat
    BY <2>1 DEF OrderRecords
  <2> QED BY <2>2
<1>2. \A o \in DOMAIN s : Fills(s)[o] = Signed(s[o], s[o].filled)
  BY DEF Fills
<1>3. \A o \in DOMAIN s : Fills(s)[o] \in Int
  BY <1>1, <1>2, SignedInt
<1>4. OrdersFor(s, k) \subseteq DOMAIN s
  BY DEF OrdersFor
<1>5. IsFiniteSet(OrdersFor(s, k))
  <2>1. PICK n \in Nat : DOMAIN s = 1..n
    OBVIOUS
  <2>2. IsFiniteSet(1..n)
    BY FS_Interval
  <2> QED BY <1>4, <2>1, <2>2, FS_Subset
<1>6. Net(s, k) \in Int
  BY <1>3, <1>4, <1>5, SumInt DEF Net
<1> QED BY <1>2, <1>3, <1>4, <1>5, <1>6

LEMMA NetSame ==
  ASSUME NEW s \in Seq(OrderRecords), NEW t \in Seq(OrderRecords), NEW k,
         DOMAIN t = DOMAIN s,
         \A o \in DOMAIN s : t[o].contract = s[o].contract /\ t[o].side = s[o].side /\ t[o].filled = s[o].filled
  PROVE  Net(t, k) = Net(s, k)
<1>1. OrdersFor(t, k) = OrdersFor(s, k)
  BY DEF OrdersFor
<1>2. \A o \in DOMAIN s : Signed(t[o], t[o].filled) = Signed(s[o], s[o].filled)
  BY DEF Signed
<1>3. \A o \in OrdersFor(s, k) : Fills(t)[o] = Fills(s)[o]
  BY <1>2, FillsOK, ZenonT(30)
<1> QED BY <1>1, <1>3, FillsOK, SumSame DEF Net

LEMMA NetChanged ==
  ASSUME NEW s \in Seq(OrderRecords), NEW t \in Seq(OrderRecords), NEW k,
         DOMAIN t = DOMAIN s, NEW o \in DOMAIN s,
         \A p \in DOMAIN s \ {o} : t[p] = s[p],
         t[o].contract = s[o].contract, t[o].side = s[o].side
  PROVE  Net(t, k) = IF s[o].contract = k
                     THEN Net(s, k) + Signed(s[o], t[o].filled) - Signed(s[o], s[o].filled)
                     ELSE Net(s, k)
<1>1. OrdersFor(t, k) = OrdersFor(s, k)
  BY DEF OrdersFor
<1>2. \A p \in OrdersFor(s, k) \ {o} : Fills(t)[p] = Fills(s)[p]
  <2>1. \A p \in OrdersFor(s, k) \ {o} : p \in DOMAIN s /\ t[p] = s[p]
    BY FillsOK
  <2> QED BY <2>1, FillsOK
<1>3. CASE s[o].contract = k
  <2>1. o \in OrdersFor(s, k)
    BY <1>3 DEF OrdersFor
  <2>2. \A p \in OrdersFor(s, k) : Fills(s)[p] \in Int /\ Fills(t)[p] \in Int
    BY FillsOK
  <2>3. Net(t, k) = Net(s, k) + Fills(t)[o] - Fills(s)[o]
    BY <1>1, <1>2, <2>1, <2>2, FillsOK, SumChange DEF Net
  <2>4. Fills(t)[o] = Signed(s[o], t[o].filled)
    <3>1. Fills(t)[o] = Signed(t[o], t[o].filled)
      BY FillsOK
    <3> QED BY <3>1 DEF Signed
  <2> QED BY <1>3, <2>3, <2>4, FillsOK
<1>4. CASE s[o].contract # k
  <2>1. \A p \in OrdersFor(s, k) : Fills(s)[p] = Fills(t)[p]
    BY <1>2, <1>4 DEF OrdersFor
  <2>2. Net(s, k) = Net(t, k)
    BY <1>1, <2>1, FillsOK, SumSame DEF Net
  <2> QED BY <1>4, <2>2
<1> QED BY <1>3, <1>4

\* A new order has filled nothing.
LEMMA NetAppended ==
  ASSUME NEW s \in Seq(OrderRecords), NEW x \in OrderRecords, x.filled = 0, NEW k
  PROVE  Net(Append(s, x), k) = Net(s, k)
<1>1. PICK t, n : t = Append(s, x) /\ n = Len(s) + 1
  OBVIOUS
<1>2. /\ t \in Seq(OrderRecords) /\ DOMAIN t = DOMAIN s \cup {n} /\ n \notin DOMAIN s
      /\ t[n] = x /\ \A o \in DOMAIN s : t[o] = s[o]
  BY <1>1
<1>3. \A o \in OrdersFor(s, k) : Fills(t)[o] = Fills(s)[o]
  BY <1>2, FillsOK
<1>4. SumOf(Fills(t), OrdersFor(s, k)) = Net(s, k)
  BY <1>3, FillsOK, SumSame DEF Net
<1>5. Fills(t)[n] = 0
  <2>1. Fills(t)[n] = Signed(x, 0)
    BY <1>2, FillsOK
  <2>2. Signed(x, 0) = 0 \/ Signed(x, 0) = -0
    BY DEF Signed
  <2> QED BY <2>1, <2>2
<1>6. CASE x.contract = k
  <2>1. OrdersFor(t, k) = OrdersFor(s, k) \cup {n}
    BY <1>2, <1>6 DEF OrdersFor
  <2>2. n \notin OrdersFor(s, k) /\ \A o \in OrdersFor(s, k) \cup {n} : Fills(t)[o] \in Int
    BY <1>2, FillsOK
  <2>3. SumOf(Fills(t), OrdersFor(s, k) \cup {n}) = 0 + Net(s, k)
    BY <1>4, <1>5, <2>2, FillsOK, SumAdd
  <2> QED BY <1>1, <2>1, <2>3, FillsOK DEF Net
<1>7. CASE x.contract # k
  <2>1. OrdersFor(t, k) = OrdersFor(s, k)
    BY <1>2, <1>7 DEF OrdersFor
  <2> QED BY <1>1, <1>4, <2>1 DEF Net
<1> QED BY <1>6, <1>7

-----------------------------------------------------------------------------
(* Steps on one order, and steps of one worker                             *)

Live == {"submitted", "accepted", "partially_filled"}

\* An order moves on: what was asked for stays, a cancelled order stays so, and
\* none comes back to work.
Touched(o) ==
    /\ orders' \in Seq(OrderRecords) /\ DOMAIN orders' = DOMAIN orders
    /\ \A p \in DOMAIN orders \ {o} : orders'[p] = orders[p]
    /\ SameOrder(orders'[o], orders[o]) /\ Stages(orders'[o])
    /\ orders'[o].status \in Live => orders[o].status \in Live
    /\ orders[o].live = "cancelled" => orders'[o].live = "cancelled"
    /\ orders[o].rested => orders'[o].rested

LEMMA RecordOf == ASSUME OrdersOK, NEW o \in DOMAIN orders
                  PROVE  orders[o] \in OrderRecords /\ Fair(orders[o]) /\ Stages(orders[o])
BY DEF OrdersOK

LEMMA OrderSet ==
  ASSUME OrdersOK, NEW o \in DOMAIN orders, NEW x \in OrderRecords, orders' = [orders EXCEPT ![o] = x]
  PROVE  /\ orders' \in Seq(OrderRecords) /\ DOMAIN orders' = DOMAIN orders /\ orders'[o] = x
         /\ \A p \in DOMAIN orders \ {o} : orders'[p] = orders[p]
<1>1. orders \in Seq(OrderRecords)
  BY DEF OrdersOK
<1> QED BY <1>1

LEMMA TouchedOrders ==
  ASSUME IInv, NEW o \in DOMAIN orders, Touched(o)
  PROVE  /\ OrdersOK' /\ ReplacedOK'
         /\ \A p \in DOMAIN orders : SameOrder(orders'[p], orders[p])
         /\ \A p \in DOMAIN orders : orders[p].live = "cancelled" => orders'[p].live = "cancelled"
<1>1. OrdersOK /\ ReplacedOK
  BY DEF IInv
<1>2. \A p \in DOMAIN orders : SameOrder(orders'[p], orders[p])
  BY DEF Touched, SameOrder
<1>3. \A p \in DOMAIN orders : orders[p].live = "cancelled" => orders'[p].live = "cancelled"
  BY DEF Touched
<1>4. OrdersOK'
  <2>1. ASSUME NEW p \in DOMAIN orders PROVE Fair(orders'[p])
    <3>1. Fair(orders[p]) /\ SameOrder(orders'[p], orders[p])
      BY <1>1, <1>2, RecordOf
    <3> QED BY <3>1 DEF Fair, SameOrder
  <2>2. ASSUME NEW p \in DOMAIN orders PROVE Stages(orders'[p])
    <3>1. CASE p = o
      BY <3>1 DEF Touched
    <3>2. CASE p # o
      BY <1>1, <3>2, RecordOf DEF Touched
    <3> QED BY <3>1, <3>2
  <2>3. orders' \in Seq(OrderRecords) /\ DOMAIN orders' = DOMAIN orders
    BY DEF Touched
  <2> QED BY <2>1, <2>2, <2>3 DEF OrdersOK
<1>5. ReplacedOK'
  <2>1. DOMAIN orders' = DOMAIN orders
    BY DEF Touched
  <2> QED BY <1>1, <1>2, <1>3, <2>1 DEF ReplacedOK, Replaceable, SameOrder
<1> QED BY <1>2, <1>3, <1>4, <1>5

LEMMA TouchedEntries ==
  ASSUME IInv, NEW o \in DOMAIN orders, Touched(o)
  PROVE  /\ Working' \subseteq Working
         /\ NoEntry => NoEntry'
         /\ \A a, b \in Working' : orders'[a].kind \in Entries /\ orders'[b].kind \in Entries => a = b
         /\ AtOnce' => AtOnce
<1>1. Working' \subseteq Working
  <2>1. \A p \in DOMAIN orders : orders'[p].status \in Live => orders[p].status \in Live
    BY DEF Touched
  <2>2. DOMAIN orders' = DOMAIN orders
    BY DEF Touched
  <2> QED BY <2>1, <2>2 DEF Working, Live
<1>2. \A p \in DOMAIN orders : orders'[p].kind = orders[p].kind
  BY TouchedOrders DEF SameOrder
<1>3. Working \subseteq DOMAIN orders
  BY DEF Working
<1>4. NoEntry => NoEntry'
  BY <1>1, <1>2, <1>3 DEF NoEntry
<1>5. \A a, b \in Working' : orders'[a].kind \in Entries /\ orders'[b].kind \in Entries => a = b
  BY <1>1, <1>2, <1>3 DEF IInv, EntryOK
<1>6. AtOnce' => AtOnce
  <2>1. \A p \in DOMAIN orders : orders[p].rested => orders'[p].rested
    BY DEF Touched
  <2>2. DOMAIN orders' = DOMAIN orders
    BY DEF Touched
  <2> QED BY <2>1, <2>2 DEF AtOnce
<1> QED BY <1>1, <1>4, <1>5, <1>6

\* A call that does not hold the order that moves.
LEMMA CallKept ==
  ASSUME IInv, NEW o \in DOMAIN orders, Touched(o), NEW v, NEW k, CallOK(v, k), k.id # o
  PROVE  CallOK(v, k)'
<1>1. DOMAIN orders' = DOMAIN orders /\ \A p \in DOMAIN orders \ {o} : orders'[p] = orders[p]
  BY DEF Touched
<1>2. /\ \A p \in DOMAIN orders : SameOrder(orders'[p], orders[p])
      /\ \A p \in DOMAIN orders : orders[p].live = "cancelled" => orders'[p].live = "cancelled"
  BY TouchedOrders
<1>3. \A p : \A n : Replaceable(p, n) => Replaceable(p, n)'
  BY <1>1, <1>2 DEF Replaceable, SameOrder
<1>4. k.pc = "request" /\ k.req.kind = "replace" =>
            /\ Replaceable(k.req.replaces, k.req.qty)'
            /\ orders'[k.req.replaces].live = "cancelled"
            /\ \A p \in DOMAIN orders' : orders'[p].replaces # k.req.replaces
  BY <1>1, <1>2, <1>3 DEF CallOK, SameOrder, Replaceable
<1>5. k.pc \in {"send", "fill"} => k.id \in DOMAIN orders /\ orders'[k.id] = orders[k.id]
  BY <1>1 DEF CallOK
<1> QED BY <1>1, <1>3, <1>4, <1>5 DEF CallOK

LEMMA WorkersKept ==
  ASSUME WorkersOK, NEW w \in Workers, NEW k, worker' = [worker EXCEPT ![w] = k], CallOK(w, k)',
         \A v \in Workers \ {w} : \A c : c = worker[v] => CallOK(v, c)',
         k.id = NoId \/ (\A v \in Workers \ {w} : worker[v].id # k.id)
  PROVE  WorkersOK' /\ worker'[w] = k /\ \A v \in Workers \ {w} : worker'[v] = worker[v]
<1>1. worker = [v \in Workers |-> worker[v]]
  BY DEF WorkersOK
<1>2. worker'[w] = k /\ \A v \in Workers \ {w} : worker'[v] = worker[v]
  BY <1>1
<1>3. worker' = [v \in Workers |-> worker'[v]]
  BY <1>1
<1>4. \A v \in Workers : CallOK(v, worker[v])'
  <2> SUFFICES ASSUME NEW v \in Workers PROVE CallOK(v, worker[v])'
    OBVIOUS
  <2>1. CASE v = w
    BY <1>2, <2>1
  <2>2. CASE v # w
    <3>1. PICK c : c = worker[v]
      OBVIOUS
    <3>2. CallOK(v, c)' /\ worker'[v] = c
      BY <1>2, <2>2, <3>1
    <3> QED BY <3>2
  <2> QED BY <2>1, <2>2
<1>5. \A u, v \in Workers : worker'[u].id = worker'[v].id /\ worker'[u].id # NoId => u = v
  BY <1>2 DEF WorkersOK
<1> QED BY <1>2, <1>3, <1>4, <1>5 DEF WorkersOK

LEMMA KindsAre ==
  /\ Kinds["decision"] = Entries /\ Kinds.decision = Entries
  /\ Kinds["position"] = {"add", "reduce", "exit", "replace"}
  /\ \A w \in Workers : w = "decision" \/ w = "position"
BY GatewayAssumption DEF Kinds, Entries

LEMMA IdleIs == Idle.pc = "idle" /\ Idle.id = NoId /\ Idle = [pc |-> Idle.pc, id |-> Idle.id, req |-> Idle.req]
BY DEF Idle

LEMMA IdleOK == ASSUME NEW w, NEW k, k = Idle PROVE CallOK(w, k)' /\ k.id = NoId /\ k.pc = "idle"
<1>1. k.pc = "idle" /\ k.id = NoId /\ k = [pc |-> k.pc, id |-> k.id, req |-> k.req]
  BY IdleIs
<1> QED BY <1>1 DEF CallOK, NoId

LEMMA CallsSame == ASSUME orders' = orders, NEW v, NEW k, CallOK(v, k) PROVE CallOK(v, k)'
BY DEF CallOK, Replaceable

\* The call of a worker, by itself.
LEMMA CallOf ==
  ASSUME IInv, NEW w \in Workers
  PROVE  CallOK(w, worker[w]) /\ OrdersOK /\ WorkersOK
BY DEF IInv, WorkersOK

\* The position of a contract while its orders do not change.
LEMMA PositionKept ==
  ASSUME OrdersOK, OrdersOK', NEW k, DOMAIN orders' = DOMAIN orders,
         \A o \in DOMAIN orders : /\ orders'[o].contract = orders[o].contract
                                  /\ orders'[o].side = orders[o].side
                                  /\ orders'[o].filled = orders[o].filled
  PROVE  Position(k)' = Position(k)
<1>1. PICK s, t : s = orders /\ t = orders'
  OBVIOUS
<1>2. s \in Seq(OrderRecords) /\ t \in Seq(OrderRecords)
  BY <1>1 DEF OrdersOK
<1>3. Net(t, k) = Net(s, k)
  BY <1>1, <1>2, NetSame
<1> QED BY <1>1, <1>3, PositionIsNet

LEMMA PositionInt == ASSUME OrdersOK, NEW k PROVE Position(k) \in Int
BY PositionIsNet, FillsOK DEF OrdersOK

\* Nothing lands and nothing is recorded: what is held stays accounted for.
LEMMA HeldKept ==
  ASSUME HeldOK, held' = held, AtOnce' => AtOnce,
         \A k \in Contracts : Position(k)' = Position(k),
         \A k \in Contracts : Landing("decision", k)' = Landing("decision", k)
                              /\ Landing("position", k)' = Landing("position", k),
         AtOnce' => \A w \in Workers : Covered(w)'
  PROVE  HeldOK'
<1>1. held' \in [Contracts -> Int]
  BY DEF HeldOK
<1>2. ASSUME AtOnce', NEW k \in Contracts
      PROVE  Position(k)' >= 0 /\ held'[k] = Position(k)' + Landing("decision", k)' + Landing("position", k)'
  BY <1>2 DEF HeldOK
<1> QED BY <1>1, <1>2 DEF HeldOK

-----------------------------------------------------------------------------
(* submit                                                                  *)

LEMMA NoEntryFound == ASSUME OrdersOK, ~HasWorkingEntry(Working) PROVE NoEntry
<1> SUFFICES ASSUME NEW o \in Working, orders[o].kind \in Entries PROVE FALSE
  BY DEF NoEntry
<1>1. o \in DOMAIN orders /\ orders[o].status # "filled"
  BY DEF Working
<1>2. Fair(orders[o]) /\ Stages(orders[o])
  BY <1>1, RecordOf
<1>3. orders[o].side = "buy" /\ orders[o].filled = 0 /\ orders[o].qty \in Nat \ {0}
  BY <1>1, <1>2 DEF Fair, Stages
<1>4. Remaining(o) > 0
  BY <1>3 DEF Remaining
<1> QED BY <1>3, <1>4 DEF HasWorkingEntry

\* A request as Submit builds it.
Asked(w, req) ==
    /\ req = [kind |-> req.kind, contract |-> req.contract, side |-> req.side, qty |-> req.qty,
              market |-> req.market, replaces |-> req.replaces]
    /\ req.kind \in Kinds[w] /\ req.contract \in Contracts /\ req.qty \in 1..(MaxQty + 1)
    /\ req.kind \in Sells => req.side = "sell"
    /\ req.kind \in Entries \cup {"add"} => req.side = "buy"
    /\ req.side \in {"buy", "sell"}
    /\ req.kind # "replace" => req.replaces = NoId
    /\ req.kind = "replace" => req.replaces \in DOMAIN orders

LEMMA DecideOK ==
  ASSUME IInv, NEW w \in Workers, NEW req, Asked(w, req), NEW k, k = Decide(req)
  PROVE  /\ CallOK(w, k) /\ k.id = NoId /\ k.pc \in {"idle", "cancel", "request"}
         /\ k.pc = "request" /\ k.req.kind \in Entries => NoEntry
         /\ k.pc = "request" /\ k.req.side = "sell" => k.req.qty <= Position(k.req.contract)
<1>0. MaxQty \in Nat
  BY GatewayAssumption
<1>1. OrdersOK
  BY DEF IInv
<1>2. req.kind \in AllKinds /\ req.qty \in Nat \ {0} /\ req.replaces \in Nat
  <2>1. DOMAIN orders \subseteq Nat
    BY <1>1 DEF OrdersOK
  <2> QED BY <1>0, <2>1, KindsAre DEF Asked, AllKinds, Entries, NoId
<1>3. CASE Validate(req)
  <2>1. PICK pc : pc = IF req.kind = "replace" THEN "cancel" ELSE "request"
    OBVIOUS
  <2>2. k = [pc |-> pc, id |-> NoId, req |-> req]
    BY <1>3, <2>1 DEF Decide
  <2>3. k.pc = pc /\ k.id = NoId /\ k.req = req /\ k = [pc |-> k.pc, id |-> k.id, req |-> k.req]
    BY <2>2
  <2>4. req.qty <= MaxQty
    BY <1>0, <1>3 DEF Validate
  <2>5. Fair(req)
    BY <1>2, <2>4 DEF Fair, Asked
  <2>6. ASSUME req.kind = "replace" PROVE Replaceable(req.replaces, req.qty)
    <3>1. ValidReplace(req)
      BY <1>3, <2>6 DEF Validate, Sells
    <3>2. req.replaces \in DOMAIN orders /\ req.qty <= Remaining(req.replaces)
      BY <3>1 DEF ValidReplace, Working
    <3>3. orders[req.replaces].qty \in Nat /\ orders[req.replaces].filled \in Nat
      <4>1. orders[req.replaces] \in OrderRecords
        BY <1>1, <3>2, RecordOf
      <4> QED BY <4>1 DEF OrderRecords
    <3>4. Remaining(req.replaces) <= orders[req.replaces].qty /\ Remaining(req.replaces) \in Int
      BY <3>3 DEF Remaining
    <3>5. req.qty <= orders[req.replaces].qty
      BY <1>2, <3>2, <3>3, <3>4
    <3> QED BY <3>2, <3>5 DEF Replaceable
  <2>7. ASSUME pc = "request", req.kind \in Entries PROVE NoEntry
    <3>1. ValidEntry(req)
      BY <1>3, <2>7 DEF Validate, Entries, Sells
    <3> QED BY <1>1, <3>1, NoEntryFound DEF ValidEntry
  <2>8. ASSUME pc = "request", req.side = "sell" PROVE req.qty <= Position(req.contract)
    <3>0. req.kind # "replace"
      BY <2>1, <2>8
    <3>1. req.kind \in Sells
      <4>1. req.kind \notin Entries \cup {"add"}
        BY <2>8 DEF Asked
      <4> QED BY <1>2, <3>0, <4>1 DEF AllKinds, Entries, Sells
    <3>2. ValidClose(req)
      BY <1>3, <3>1 DEF Validate, Sells
    <3> QED BY <3>2 DEF ValidClose
  <2>9. k.pc # "idle" => Fair(k.req) /\ k.req.kind \in Kinds[w]
    BY <2>3, <2>5 DEF Asked
  <2>10. CallOK(w, k)
    <3>1. k.pc \in {"cancel", "request"} /\ (k.pc = "cancel" <=> k.req.kind = "replace")
      BY <2>1, <2>3
    <3> QED BY <2>3, <2>6, <2>9, <3>1 DEF CallOK, NoId
  <2> QED BY <2>1, <2>3, <2>7, <2>8, <2>10
<1>4. CASE ~Validate(req) /\ DegradedClose(req)
  <2>1. PICK n \in Int : n = Position(req.contract) /\ n > 0
    BY <1>1, <1>4, PositionInt DEF DegradedClose
  <2>2. PICK m : m = Min({req.qty, n})
    OBVIOUS
  <2>3. m \in Nat \ {0} /\ m <= n
    <3>1. \E x \in {req.qty, n} : \A y \in {req.qty, n} : x <= y
      BY <1>2, <2>1
    <3>2. m \in {req.qty, n} /\ \A y \in {req.qty, n} : m <= y
      BY <2>2, <3>1 DEF Min
    <3> QED BY <1>2, <2>1, <3>2
  <2>4. PICK r : r = [req EXCEPT !.qty = m]
    OBVIOUS
  <2>5. k = [pc |-> "request", id |-> NoId, req |-> r]
    BY <1>4, <2>1, <2>2, <2>4, Zenon DEF Decide
  <2>6. k.pc = "request" /\ k.id = NoId /\ k.req = r /\ k = [pc |-> k.pc, id |-> k.id, req |-> k.req]
    BY <2>5
  <2>7. req.kind \in Sells
    BY <1>4 DEF DegradedClose
  <2>8. /\ r.kind = req.kind /\ r.contract = req.contract /\ r.side = req.side /\ r.replaces = req.replaces
        /\ r.qty = m
    BY <2>4 DEF Asked
  <2>9. r.side = "sell" /\ r.kind \in Sells /\ r.kind \notin Entries /\ r.kind # "replace"
    BY <2>7, <2>8 DEF Asked, Sells, Entries
  <2>10. Fair(r) /\ r.kind \in Kinds[w]
    BY <1>2, <2>3, <2>8, <2>9 DEF Fair, Asked, Sells, Entries
  <2>11. CallOK(w, k)
    BY <2>6, <2>9, <2>10 DEF CallOK, NoId
  <2> QED BY <2>1, <2>3, <2>6, <2>8, <2>9, <2>11
<1>5. CASE ~Validate(req) /\ ~DegradedClose(req)
  <2>1. k = Idle
    BY <1>5 DEF Decide
  <2>2. k.pc = "idle" /\ k.id = NoId /\ k = [pc |-> k.pc, id |-> k.id, req |-> k.req]
    BY <2>1, IdleIs
  <2> QED BY <2>2 DEF CallOK, NoId
<1> QED BY <1>3, <1>4, <1>5

\* A step of a worker that neither lands nor records anything.
LEMMA LandingSame ==
  ASSUME NEW w \in Workers, worker[w].pc # "fill", worker'[w].pc # "fill",
         \A v \in Workers \ {w} : worker'[v] = worker[v], NEW v, NEW k
  PROVE  Landing(v, k)' = Landing(v, k)
<1>1. CASE v = w
  BY <1>1 DEF Landing
<1>2. CASE v # w
  BY <1>2 DEF Landing
<1> QED BY <1>1, <1>2

LEMMA CoverKept ==
  ASSUME NEW w \in Workers, \A k : Position(k)' = Position(k),
         \A v \in Workers \ {w} : worker'[v] = worker[v], \A v \in Workers : Covered(v), Covered(w)'
  PROVE  \A v \in Workers : Covered(v)'
<1> SUFFICES ASSUME NEW v \in Workers PROVE Covered(v)'
  OBVIOUS
<1>1. CASE v = w
  BY <1>1
<1>2. CASE v # w
  BY <1>2 DEF Covered
<1> QED BY <1>1, <1>2

\* A worker's call goes on without an effect.
LEMMA CallSet ==
  ASSUME IInv, NEW w \in Workers, orders' = orders, held' = held, worker[w].pc # "fill",
         NEW k, worker' = [worker EXCEPT ![w] = k],
         CallOK(w, k), k.id = NoId, k.pc \in {"idle", "cancel", "request"},
         k.pc = "request" /\ k.req.kind \in Entries => NoEntry,
         k.pc = "request" /\ k.req.side = "sell" => k.req.qty <= Position(k.req.contract)
  PROVE  IInv'
<1>1. OrdersOK /\ WorkersOK /\ CallOK(w, worker[w])
  BY CallOf
<1>2. CallOK(w, k)' /\ \A v \in Workers : \A c : c = worker[v] => CallOK(v, c)'
  <2>1. \A v \in Workers : \A c : c = worker[v] => CallOK(v, c)
    BY <1>1 DEF WorkersOK
  <2> QED BY <2>1, CallsSame
<1>3. WorkersOK' /\ worker'[w] = k /\ \A v \in Workers \ {w} : worker'[v] = worker[v]
  BY <1>1, <1>2, WorkersKept
<1>4. OrdersOK' /\ ReplacedOK' /\ Working' = Working /\ (NoEntry <=> NoEntry')
  BY DEF IInv, OrdersOK, ReplacedOK, Replaceable, Working, NoEntry
<1>5. LandingKnown'
  BY <1>3 DEF IInv, LandingKnown
<1>6. EntryOK'
  BY <1>3, <1>4 DEF IInv, EntryOK
<1>7. \A c : Position(c)' = Position(c)
  BY <1>1, <1>4, PositionKept
<1>8. AtOnce' <=> AtOnce
  BY DEF AtOnce
<1>9. Covered(w)'
  BY <1>3, <1>7 DEF Covered
<1>10. AtOnce' => \A v \in Workers : Covered(v)'
  <2>1. AtOnce => \A v \in Workers : Covered(v)
    BY DEF IInv, HeldOK
  <2> QED BY <1>3, <1>7, <1>8, <1>9, <2>1, CoverKept
<1>11. \A v, c : Landing(v, c)' = Landing(v, c)
  BY <1>3, LandingSame
<1>12. HeldOK'
  BY <1>7, <1>8, <1>10, <1>11, HeldKept DEF IInv
<1> QED BY <1>3, <1>4, <1>5, <1>6, <1>12 DEF IInv

LEMMA SubmitKeeps ==
  ASSUME IInv, NEW w \in Workers, NEW kind \in Kinds[w], NEW q \in Contracts,
         NEW n \in 1..(MaxQty + 1), NEW m, Submit(w, kind, q, n, m)
  PROVE  IInv'
<1>1. orders' = orders /\ held' = held /\ worker[w].pc = "idle"
  BY DEF Submit
<1>2. OrdersOK /\ WorkersOK /\ CallOK(w, worker[w])
  BY CallOf
<1>3. PICK o \in IF kind = "replace" THEN DOMAIN orders ELSE {NoId} :
        LET side == IF kind \in Sells THEN "sell" ELSE IF o = NoId THEN "buy" ELSE orders[o].side IN
        /\ o # NoId => q = orders[o].contract
        /\ worker' = [worker EXCEPT ![w] =
                Decide([kind |-> kind, contract |-> q, side |-> side, qty |-> n,
                        market |-> m, replaces |-> o])]
  BY DEF Submit
<1>4. PICK side : side = IF kind \in Sells THEN "sell" ELSE IF o = NoId THEN "buy" ELSE orders[o].side
  OBVIOUS
<1>5. PICK req : req = [kind |-> kind, contract |-> q, side |-> side, qty |-> n, market |-> m, replaces |-> o]
  OBVIOUS
<1>6. PICK k : k = Decide(req)
  OBVIOUS
<1>7. worker' = [worker EXCEPT ![w] = k]
  BY <1>3, <1>4, <1>5, <1>6, Zenon
<1>8. Asked(w, req)
  <2>1. /\ req.kind = kind /\ req.contract = q /\ req.side = side /\ req.qty = n /\ req.replaces = o
        /\ req = [kind |-> req.kind, contract |-> req.contract, side |-> req.side, qty |-> req.qty,
                  market |-> req.market, replaces |-> req.replaces]
    BY <1>5
  <2>2. (kind # "replace" => o = NoId) /\ (kind = "replace" => o \in DOMAIN orders)
    BY <1>3
  <2>3. kind \in Sells => side = "sell" /\ kind # "replace"
    BY <1>4 DEF Sells
  <2>4. kind \in Entries \cup {"add"} => kind \notin Sells /\ kind # "replace"
    BY DEF Sells, Entries
  <2>5. kind \in Entries \cup {"add"} => side = "buy"
    BY <1>4, <2>2, <2>4
  <2>6. side \in {"buy", "sell"}
    <3>1. CASE o \in DOMAIN orders
      <4>1. Fair(orders[o])
        BY <1>2, <3>1, RecordOf
      <4> QED BY <1>4, <4>1 DEF Fair
    <3>2. CASE o = NoId
      BY <1>4, <3>2
    <3> QED BY <1>3, <3>1, <3>2
  <2> QED BY <2>1, <2>2, <2>3, <2>5, <2>6 DEF Asked
<1>9. /\ CallOK(w, k) /\ k.id = NoId /\ k.pc \in {"idle", "cancel", "request"}
      /\ k.pc = "request" /\ k.req.kind \in Entries => NoEntry
      /\ k.pc = "request" /\ k.req.side = "sell" => k.req.qty <= Position(k.req.contract)
  BY <1>6, <1>8, DecideOK
<1> QED BY <1>1, <1>2, <1>7, <1>9, CallSet

\* A step on one order leaves the calls that do not hold it alone.
LEMMA OthersKept ==
  ASSUME IInv, NEW w, NEW o \in DOMAIN orders, Touched(o), \A v \in Workers \ {w} : worker[v].id # o
  PROVE  \A v \in Workers \ {w} : \A c : c = worker[v] => CallOK(v, c)'
<1>1. \A v \in Workers : \A c : c = worker[v] => CallOK(v, c)
  BY DEF IInv, WorkersOK
<1> QED BY <1>1, CallKept

LEMMA EntriesKept ==
  ASSUME IInv, NEW w, NEW o \in DOMAIN orders, Touched(o),
         \A v \in Workers \ {w} : worker'[v] = worker[v],
         w \in Workers => (worker'[w].pc = "request" => worker'[w].req.kind \notin Entries)
  PROVE  EntryOK'
<1>1. NoEntry => NoEntry'
  BY TouchedEntries
<1>2. \A v \in Workers : worker'[v].pc = "request" /\ worker'[v].req.kind \in Entries => NoEntry
  BY DEF IInv, EntryOK
<1> QED BY <1>1, <1>2, TouchedEntries DEF EntryOK

\* An order has one holder, whose call has asked for it and not rested it.
LEMMA Holder ==
  ASSUME IInv, NEW o \in DOMAIN orders, NEW v \in Workers, worker[v].id = o
  PROVE  worker[v].pc \in {"send", "fill"} /\ ~orders[o].rested
<1>1. o # NoId
  BY DEF IInv, OrdersOK, NoId
<1> QED BY <1>1, CallOf DEF CallOK

-----------------------------------------------------------------------------
(* The cancellation of a replaced order                                    *)

LEMMA CancelFirstKeeps ==
  ASSUME IInv, NEW w \in Workers, CancelFirst(w)
  PROVE  IInv'
<1>1. PICK c, o, x : c = worker[w] /\ o = c.req.replaces /\ x = orders[o]
  OBVIOUS
<1>2. held' = held /\ c.pc = "cancel"
  BY <1>1 DEF CancelFirst
<1>3. OrdersOK /\ WorkersOK /\ CallOK(w, c)
  BY <1>1, CallOf
<1>4. o \in DOMAIN orders /\ c.req.kind = "replace" /\ c.id = NoId /\ Replaceable(o, c.req.qty)
  BY <1>1, <1>2, <1>3 DEF CallOK, Replaceable
<1>5. x \in OrderRecords /\ Fair(x) /\ Stages(x)
  BY <1>1, <1>3, <1>4, RecordOf
<1>6. CASE ~(orders[o].live = "open" /\ orders[o].status # "rejected")
  <2>1. orders' = orders
    BY <1>1, <1>6 DEF CancelFirst
  <2>2. PICK k : k = Idle
    OBVIOUS
  <2>3. worker' = [worker EXCEPT ![w] = k]
    BY <1>1, <1>6, <2>2 DEF CancelFirst
  <2>4. k.pc = "idle" /\ k.id = NoId /\ k = [pc |-> k.pc, id |-> k.id, req |-> k.req]
    BY <2>2, IdleIs
  <2>5. CallOK(w, k)
    BY <2>4 DEF CallOK, NoId
  <2> QED BY <1>1, <1>2, <2>1, <2>3, <2>4, <2>5, CallSet
<1>7. CASE orders[o].live = "open" /\ orders[o].status # "rejected"
  <2>1. PICK y : y = [x EXCEPT !.live = "cancelled", !.status = "cancelled"]
    OBVIOUS
  <2>2. /\ y \in OrderRecords /\ SameOrder(y, x) /\ y.sent = x.sent /\ y.filled = x.filled
        /\ y.live = "cancelled" /\ y.status = "cancelled" /\ y.rested = x.rested
    BY <1>5, <2>1 DEF OrderRecords, SameOrder
  <2>3. x.live = "open" /\ x.status = "accepted" /\ x.rested /\ x.sent < x.qty /\ x.filled = 0
    BY <1>1, <1>5, <1>7 DEF Stages
  <2>4. Stages(y)
    BY <2>2, <2>3 DEF Stages, SameOrder
  <2>5. orders' = [orders EXCEPT ![o] = y]
    BY <1>1, <1>3, <1>4, <1>7, <2>1 DEF CancelFirst, OrdersOK
  <2>6. Touched(o) /\ orders'[o] = y
    <3>1. /\ orders' \in Seq(OrderRecords) /\ DOMAIN orders' = DOMAIN orders /\ orders'[o] = y
          /\ \A p \in DOMAIN orders \ {o} : orders'[p] = orders[p]
      BY <1>3, <1>4, <2>2, <2>5, OrderSet
    <3> QED BY <1>1, <2>2, <2>3, <2>4, <3>1 DEF Touched, Live
  <2>7. \A v \in Workers : worker[v].id # o
    BY <1>1, <1>4, <2>3, Holder
  <2>8. PICK k : k = [c EXCEPT !.pc = "request"]
    OBVIOUS
  <2>9. k.pc = "request" /\ k.id = NoId /\ k.req = c.req /\ k = [pc |-> k.pc, id |-> k.id, req |-> k.req]
    <3>1. c = [pc |-> c.pc, id |-> c.id, req |-> c.req]
      BY <1>3 DEF CallOK
    <3>2. k = [pc |-> "request", id |-> c.id, req |-> c.req]
      BY <2>8, <3>1
    <3> QED BY <1>4, <3>2
  <2>10. worker' = [worker EXCEPT ![w] = k]
    <3>1. worker = [v \in Workers |-> worker[v]]
      BY <1>3 DEF WorkersOK
    <3>2. worker' = [worker EXCEPT ![w].pc = "request"]
      BY <1>1, <1>7 DEF CancelFirst
    <3> QED BY <1>1, <2>8, <3>1, <3>2
  <2>11. CallOK(w, k)'
    <3>1. Replaceable(o, c.req.qty)' /\ orders'[o].live = "cancelled"
      BY <1>1, <1>4, <2>2, <2>6 DEF Replaceable, Touched, SameOrder
    <3>2. \A p \in DOMAIN orders : orders[p].replaces # o
      <4>1. o # NoId
        BY <1>3, <1>4 DEF OrdersOK, NoId
      <4> QED BY <1>1, <2>3, <4>1 DEF IInv, ReplacedOK
    <3>3. \A p \in DOMAIN orders' : orders'[p].replaces # o
      BY <1>4, <2>6, <3>2, TouchedOrders DEF Touched, SameOrder
    <3>4. Fair(k.req) /\ k.req.kind \in Kinds[w]
      BY <1>2, <1>3, <2>9 DEF CallOK
    <3> QED BY <1>1, <1>4, <2>9, <3>1, <3>3, <3>4 DEF CallOK, NoId
  <2>12. WorkersOK' /\ worker'[w] = k /\ \A v \in Workers \ {w} : worker'[v] = worker[v]
    BY <1>3, <1>4, <2>6, <2>7, <2>9, <2>10, <2>11, OthersKept, WorkersKept
  <2>13. OrdersOK' /\ ReplacedOK'
    BY <1>4, <2>6, TouchedOrders
  <2>14. LandingKnown'
    BY <1>1, <1>2, <1>4, <2>2, <2>6, <2>12 DEF IInv, LandingKnown, Touched
  <2>15. EntryOK'
    <3>1. worker'[w].req.kind \notin Entries
      BY <1>4, <2>9, <2>12 DEF Entries
    <3> QED BY <1>4, <2>6, <2>12, <3>1, EntriesKept
  <2>16. ~AtOnce'
    BY <1>4, <2>2, <2>3, <2>6 DEF AtOnce, Touched
  <2>17. HeldOK'
    BY <1>2, <2>16 DEF IInv, HeldOK
  <2> QED BY <2>12, <2>13, <2>14, <2>15, <2>17 DEF IInv
<1> QED BY <1>6, <1>7

-----------------------------------------------------------------------------
(* The submission request                                                  *)

\* What NewOrder makes of a call's request.
LEMMA NewOrderOK ==
  ASSUME NEW req, Fair(req), NEW x, x = NewOrder(req)
  PROVE  /\ x \in OrderRecords /\ Fair(x) /\ Stages(x) /\ SameOrder(x, req)
         /\ x.filled = 0 /\ ~x.rested /\ x.status = "submitted" /\ x.live = "none"
<1>1. /\ x.kind = req.kind /\ x.contract = req.contract /\ x.side = req.side /\ x.qty = req.qty
      /\ x.replaces = req.replaces /\ x.filled = 0 /\ x.status = "submitted" /\ x.live = "none"
      /\ x.sent = 0 /\ x.rested = FALSE
  BY DEF NewOrder
<1>2. x \in OrderRecords
  BY DEF NewOrder, Fair, OrderRecords
<1>3. Fair(x)
  BY <1>1 DEF Fair
<1>4. Stages(x)
  BY <1>1 DEF Stages
<1> QED BY <1>1, <1>2, <1>3, <1>4 DEF SameOrder

\* Only one worker replaces, and only one enters.
LEMMA OneOfAKind ==
  ASSUME NEW v \in Workers, NEW w \in Workers, v # w, NEW a \in Kinds[v], NEW b \in Kinds[w]
  PROVE  (a = "replace" => b # "replace") /\ (a \in Entries => b \notin Entries)
<1>1. (v = "decision" /\ w = "position") \/ (v = "position" /\ w = "decision")
  BY KindsAre
<1>2. CASE v = "decision" /\ w = "position"
  BY <1>2, KindsAre DEF Entries
<1>3. CASE v = "position" /\ w = "decision"
  BY <1>3, KindsAre DEF Entries
<1> QED BY <1>1, <1>2, <1>3

LEMMA RequestKeeps ==
  ASSUME IInv, NEW w \in Workers, Request(w)
  PROVE  IInv'
<1>1. PICK c, x, n : c = worker[w] /\ x = NewOrder(c.req) /\ n = Len(orders) + 1
  OBVIOUS
<1>2. held' = held /\ c.pc = "request" /\ orders' = Append(orders, x)
  BY <1>1 DEF Request
<1>3. OrdersOK /\ WorkersOK /\ CallOK(w, c)
  BY <1>1, CallOf
<1>4. Fair(c.req) /\ c.req.kind \in Kinds[w] /\ c.id = NoId
  BY <1>2, <1>3 DEF CallOK
<1>5. /\ x \in OrderRecords /\ Fair(x) /\ Stages(x) /\ SameOrder(x, c.req)
      /\ x.filled = 0 /\ ~x.rested /\ x.status = "submitted" /\ x.live = "none"
  BY <1>1, <1>4, NewOrderOK
<1>6. /\ orders \in Seq(OrderRecords) /\ orders' \in Seq(OrderRecords)
      /\ DOMAIN orders' = DOMAIN orders \cup {n} /\ n \notin DOMAIN orders /\ n \in Nat \ {0}
      /\ orders'[n] = x /\ \A o \in DOMAIN orders : orders'[o] = orders[o]
      /\ NoId \notin DOMAIN orders
  <2>1. orders \in Seq(OrderRecords)
    BY <1>3 DEF OrdersOK
  <2> QED BY <1>1, <1>2, <1>5, <2>1 DEF NoId
<1>7. OrdersOK'
  BY <1>3, <1>5, <1>6 DEF OrdersOK
<1>8. x.replaces # NoId =>
        /\ Replaceable(x.replaces, x.qty) /\ orders[x.replaces].live = "cancelled"
        /\ \A p \in DOMAIN orders : orders[p].replaces # x.replaces
  <2>1. x.replaces # NoId => c.req.kind = "replace"
    BY <1>5 DEF Fair, SameOrder
  <2> QED BY <1>2, <1>3, <1>5, <2>1 DEF CallOK, SameOrder
<1>9. \A p, q : Replaceable(p, q) => Replaceable(p, q)'
  BY <1>6 DEF Replaceable
<1>10. PICK k : k = [c EXCEPT !.pc = "send", !.id = n]
  OBVIOUS
<1>11. k.pc = "send" /\ k.id = n /\ k.req = c.req /\ k = [pc |-> k.pc, id |-> k.id, req |-> k.req]
  <2>1. c = [pc |-> c.pc, id |-> c.id, req |-> c.req]
    BY <1>3 DEF CallOK
  <2>2. k = [pc |-> "send", id |-> n, req |-> c.req]
    BY <1>10, <2>1
  <2> QED BY <2>2
<1>12. worker' = [worker EXCEPT ![w] = k]
  <2>1. worker = [v \in Workers |-> worker[v]]
    BY <1>3 DEF WorkersOK
  <2>2. worker' = [worker EXCEPT ![w].pc = "send", ![w].id = n]
    BY <1>1 DEF Request
  <2> QED BY <1>1, <1>10, <2>1, <2>2
<1>13. CallOK(w, k)'
  BY <1>4, <1>5, <1>6, <1>11 DEF CallOK
<1>14. \A v \in Workers \ {w} : \A d : d = worker[v] => CallOK(v, d)'
  <2> SUFFICES ASSUME NEW v \in Workers, v # w, NEW d, d = worker[v] PROVE CallOK(v, d)'
    OBVIOUS
  <2>1. CallOK(v, d)
    BY CallOf
  <2>2. d.pc = "request" /\ d.req.kind = "replace" =>
            /\ Replaceable(d.req.replaces, d.req.qty)'
            /\ orders'[d.req.replaces].live = "cancelled"
            /\ \A p \in DOMAIN orders' : orders'[p].replaces # d.req.replaces
    <3> SUFFICES ASSUME d.pc = "request", d.req.kind = "replace"
                 PROVE  /\ Replaceable(d.req.replaces, d.req.qty)'
                        /\ orders'[d.req.replaces].live = "cancelled"
                        /\ \A p \in DOMAIN orders' : orders'[p].replaces # d.req.replaces
      OBVIOUS
    <3>1. /\ Replaceable(d.req.replaces, d.req.qty) /\ orders[d.req.replaces].live = "cancelled"
          /\ \A p \in DOMAIN orders : orders[p].replaces # d.req.replaces
          /\ d.req.kind \in Kinds[v]
      BY <2>1 DEF CallOK
    <3>2. c.req.kind # "replace"
      BY <1>4, <3>1, OneOfAKind
    <3>3. x.replaces = NoId
      BY <1>4, <1>5, <3>2 DEF Fair, SameOrder
    <3>4. d.req.replaces \in DOMAIN orders
      BY <3>1 DEF Replaceable
    <3> QED BY <1>6, <1>9, <3>1, <3>3, <3>4
  <2>3. d.pc = "cancel" => Replaceable(d.req.replaces, d.req.qty)'
    BY <1>9, <2>1 DEF CallOK
  <2> QED BY <1>6, <2>1, <2>2, <2>3 DEF CallOK
<1>15. \A v \in Workers \ {w} : worker[v].id # k.id
  <2> SUFFICES ASSUME NEW v \in Workers PROVE worker[v].id # n
    BY <1>11
  <2>1. CallOK(v, worker[v])
    BY CallOf
  <2> QED BY <1>6, <2>1 DEF CallOK, NoId
<1>16. WorkersOK' /\ worker'[w] = k /\ \A v \in Workers \ {w} : worker'[v] = worker[v]
  BY <1>3, <1>12, <1>13, <1>14, <1>15, WorkersKept
<1>17. ReplacedOK'
  <2> SUFFICES ASSUME NEW p \in DOMAIN orders', orders'[p].replaces # NoId
               PROVE  /\ orders'[p].replaces \in DOMAIN orders'
                      /\ orders'[p].qty <= orders'[orders'[p].replaces].qty
                      /\ orders'[orders'[p].replaces].live = "cancelled"
                      /\ \A q \in DOMAIN orders' : orders'[q].replaces = orders'[p].replaces => q = p
    BY DEF ReplacedOK, Replaceable
  <2>1. CASE p = n
    <3>1. x.replaces \in DOMAIN orders
      BY <1>6, <1>8, <2>1 DEF Replaceable
    <3> QED BY <1>6, <1>8, <2>1, <3>1 DEF Replaceable
  <2>2. CASE p \in DOMAIN orders
    <3>1. /\ Replaceable(orders[p].replaces, orders[p].qty)
          /\ orders[orders[p].replaces].live = "cancelled"
          /\ \A q \in DOMAIN orders : orders[q].replaces = orders[p].replaces => q = p
      BY <1>6, <2>2 DEF IInv, ReplacedOK
    <3>2. x.replaces # orders[p].replaces
      BY <1>6, <1>8, <2>2
    <3> QED BY <1>6, <2>2, <3>1, <3>2 DEF Replaceable
  <2> QED BY <1>6, <2>1, <2>2
<1>18. LandingKnown'
  BY <1>1, <1>2, <1>5, <1>6, <1>16 DEF IInv, LandingKnown
<1>19. Working' = Working \cup {n}
  BY <1>5, <1>6 DEF Working
<1>20. x.kind \in Entries => NoEntry
  BY <1>1, <1>2, <1>5 DEF IInv, EntryOK, SameOrder
<1>21. EntryOK'
  <2>1. ASSUME NEW v \in Workers, worker'[v].pc = "request", worker'[v].req.kind \in Entries PROVE NoEntry'
    <3>1. v # w /\ worker'[v] = worker[v]
      BY <1>11, <1>16, <2>1
    <3>2. NoEntry
      BY <2>1, <3>1 DEF IInv, EntryOK
    <3>3. worker[v].req.kind \in Kinds[v]
      BY <2>1, <3>1, CallOf DEF CallOK
    <3>4. x.kind \notin Entries
      BY <1>4, <1>5, <2>1, <3>1, <3>3, OneOfAKind DEF SameOrder
    <3> QED BY <1>6, <1>19, <3>2, <3>4 DEF NoEntry, Working
  <2>2. ASSUME NEW a \in Working', NEW b \in Working', orders'[a].kind \in Entries, orders'[b].kind \in Entries
        PROVE  a = b
    <3>1. \A o \in Working : o \in DOMAIN orders /\ orders'[o] = orders[o]
      BY <1>6 DEF Working
    <3> QED BY <1>6, <1>19, <1>20, <2>2, <3>1 DEF IInv, EntryOK, NoEntry
  <2> QED BY <2>1, <2>2 DEF EntryOK
<1>22. \A q : Position(q)' = Position(q)
  <2> SUFFICES ASSUME NEW q PROVE Position(q)' = Position(q)
    OBVIOUS
  <2>1. PICK s, t : s = orders /\ t = orders' /\ t = Append(s, x)
    BY <1>2
  <2>2. Net(t, q) = Net(s, q)
    BY <1>5, <1>6, <2>1, NetAppended
  <2> QED BY <2>1, <2>2, PositionIsNet
<1>23. AtOnce' => AtOnce
  BY <1>6 DEF AtOnce
<1>24. AtOnce' => \A v \in Workers : Covered(v)'
  <2> SUFFICES ASSUME AtOnce' PROVE \A v \in Workers : Covered(v)'
    OBVIOUS
  <2>1. \A v \in Workers : Covered(v)
    BY <1>23 DEF IInv, HeldOK
  <2>2. Covered(w)'
    BY <1>1, <1>2, <1>11, <1>16, <1>22, <2>1 DEF Covered
  <2> QED BY <1>16, <1>22, <2>1, <2>2, CoverKept
<1>25. \A v, q : Landing(v, q)' = Landing(v, q)
  BY <1>1, <1>2, <1>11, <1>16, LandingSame
<1>26. HeldOK'
  BY <1>2, <1>22, <1>23, <1>24, <1>25, HeldKept DEF IInv
<1> QED BY <1>7, <1>16, <1>17, <1>18, <1>21, <1>26 DEF IInv

-----------------------------------------------------------------------------
(* The broker's answer                                                     *)

\* The call that holds an order moves it on.
LEMMA HolderSteps ==
  ASSUME IInv, NEW w \in Workers, NEW o \in DOMAIN orders, worker[w].id = o, Touched(o),
         NEW k, worker' = [worker EXCEPT ![w] = k], CallOK(w, k)', k.id \in {NoId, o}, k.pc # "request"
  PROVE  /\ OrdersOK' /\ ReplacedOK' /\ WorkersOK' /\ EntryOK'
         /\ worker'[w] = k /\ \A v \in Workers \ {w} : worker'[v] = worker[v]
<1>1. \A v \in Workers \ {w} : worker[v].id # o
  <2>1. o # NoId
    BY DEF IInv, OrdersOK, NoId
  <2> QED BY <2>1 DEF IInv, WorkersOK
<1>2. WorkersOK
  BY DEF IInv
<1>3. WorkersOK' /\ worker'[w] = k /\ \A v \in Workers \ {w} : worker'[v] = worker[v]
  BY <1>1, <1>2, OthersKept, WorkersKept
<1>4. EntryOK'
  BY <1>3, EntriesKept
<1> QED BY <1>3, <1>4, TouchedOrders

LEMMA LandingInt == ASSUME IInv, NEW v, NEW q PROVE Landing(v, q) \in Int
<1>1. CASE v \in Workers /\ worker[v].pc = "fill"
  <2>1. worker[v].req.qty \in Int
    <3>1. Fair(worker[v].req)
      BY <1>1, CallOf DEF CallOK
    <3> QED BY <3>1 DEF Fair
  <2> QED BY <2>1, SignedInt DEF Landing
<1>2. CASE ~(v \in Workers /\ worker[v].pc = "fill")
  BY <1>2 DEF Landing
<1> QED BY <1>1, <1>2

\* What is landing in all, when one call lands or records something.
LEMMA LandingMoved ==
  ASSUME IInv, NEW w \in Workers, \A v \in Workers \ {w} : worker'[v] = worker[v], NEW q, NEW d \in Int,
         Landing(w, q)' = Landing(w, q) + d
  PROVE  Landing("decision", q)' + Landing("position", q)' =
            Landing("decision", q) + Landing("position", q) + d
<1>1. PICK a \in Int, b \in Int : a = Landing("decision", q) /\ b = Landing("position", q)
  BY LandingInt
<1>2. \A v : v # w => Landing(v, q)' = Landing(v, q)
  BY DEF Landing
<1>3. CASE w = "decision"
  <2>1. Landing("decision", q)' = a + d /\ Landing("position", q)' = b
    BY <1>1, <1>2, <1>3
  <2> QED BY <1>1, <2>1
<1>4. CASE w = "position"
  <2>1. Landing("decision", q)' = a /\ Landing("position", q)' = b + d
    BY <1>1, <1>2, <1>4
  <2> QED BY <1>1, <2>1
<1> QED BY <1>3, <1>4, KindsAre

LEMMA SendKeeps ==
  ASSUME IInv, NEW w \in Workers, Send(w)
  PROVE  IInv'
<1>1. PICK c, o, x, idle : c = worker[w] /\ o = c.id /\ x = orders[o] /\ idle = Idle
  OBVIOUS
<1>2. OrdersOK /\ WorkersOK /\ CallOK(w, c) /\ c.pc = "send"
  BY <1>1, CallOf DEF Send
<1>3. /\ o \in DOMAIN orders /\ SameOrder(x, c.req) /\ ~x.rested /\ x.status = "submitted"
      /\ Fair(c.req) /\ c.req.kind \in Kinds[w] /\ o \in Nat
  BY <1>1, <1>2 DEF CallOK
<1>4. x \in OrderRecords /\ Fair(x) /\ Stages(x)
  BY <1>1, <1>2, <1>3, RecordOf
<1>5. x.live = "none" /\ x.sent = 0 /\ x.filled = 0
  <2>1. x.live \in {"none", "open", "filled", "cancelled"}
    BY <1>4 DEF OrderRecords
  <2> QED BY <1>3, <1>4, <2>1 DEF Stages
<1>6. CallOK(w, idle)' /\ idle.id = NoId /\ idle.pc = "idle"
  BY <1>1, IdleOK
<1>7. ASSUME NEW y \in OrderRecords, orders' = [orders EXCEPT ![o] = y], SameOrder(y, x), Stages(y),
             y.live # "cancelled", y.filled = 0
      PROVE  /\ Touched(o) /\ orders'[o] = y
             /\ \A p \in DOMAIN orders : SameOrder(orders'[p], orders[p])
             /\ \A q : Position(q)' = Position(q)
  <2>1. /\ orders' \in Seq(OrderRecords) /\ DOMAIN orders' = DOMAIN orders /\ orders'[o] = y
        /\ \A p \in DOMAIN orders \ {o} : orders'[p] = orders[p]
    BY <1>2, <1>3, <1>7, OrderSet
  <2>2. Touched(o)
    BY <1>1, <1>3, <1>5, <1>7, <2>1 DEF Touched, Live
  <2>3. OrdersOK' /\ \A p \in DOMAIN orders : SameOrder(orders'[p], orders[p])
    BY <1>3, <2>2, TouchedOrders
  <2>4. \A p \in DOMAIN orders : orders'[p].filled = orders[p].filled
    BY <1>1, <1>5, <1>7, <2>1
  <2>5. \A q : Position(q)' = Position(q)
    BY <1>2, <2>1, <2>3, <2>4, PositionKept DEF SameOrder
  <2> QED BY <2>1, <2>2, <2>3, <2>5
<1>8. ASSUME NEW st \in {"accepted", "rejected"},
             orders' = [orders EXCEPT ![o].live = "open", ![o].status = st, ![o].rested = TRUE],
             worker' = [worker EXCEPT ![w] = Idle], held' = held
      PROVE  IInv'
  <2>1. PICK y : y = [x EXCEPT !.live = "open", !.status = st, !.rested = TRUE]
    OBVIOUS
  <2>2. /\ y \in OrderRecords /\ SameOrder(y, x) /\ y.sent = x.sent /\ y.filled = x.filled
        /\ y.live = "open" /\ y.status = st /\ y.rested
    BY <1>4, <1>8, <2>1 DEF OrderRecords, SameOrder
  <2>3. Stages(y)
    BY <1>4, <1>5, <1>8, <2>2 DEF Stages, Fair, SameOrder
  <2>4. orders' = [orders EXCEPT ![o] = y]
    BY <1>1, <1>2, <1>3, <1>8, <2>1 DEF OrdersOK
  <2>5. Touched(o) /\ orders'[o] = y
    BY <1>5, <1>7, <2>2, <2>3, <2>4
  <2>6. /\ OrdersOK' /\ ReplacedOK' /\ WorkersOK' /\ EntryOK'
        /\ worker'[w] = idle /\ \A v \in Workers \ {w} : worker'[v] = worker[v]
    BY <1>1, <1>3, <1>6, <1>8, <2>5, HolderSteps
  <2>7. LandingKnown'
    BY <1>1, <1>2, <1>3, <2>2, <2>5, <2>6 DEF IInv, LandingKnown, Touched
  <2>8. ~AtOnce'
    BY <1>3, <2>2, <2>5 DEF AtOnce, Touched
  <2>9. HeldOK'
    BY <1>8, <2>8 DEF IInv, HeldOK
  <2> QED BY <2>6, <2>7, <2>9 DEF IInv
<1>9. CASE /\ orders' = [orders EXCEPT ![o].status = "rejected"]
           /\ worker' = [worker EXCEPT ![w] = Idle] /\ held' = held
  <2>1. PICK y : y = [x EXCEPT !.status = "rejected"]
    OBVIOUS
  <2>2. /\ y \in OrderRecords /\ SameOrder(y, x) /\ y.sent = x.sent /\ y.filled = x.filled
        /\ y.live = "none" /\ y.status = "rejected" /\ y.rested = x.rested
    BY <1>4, <1>5, <2>1 DEF OrderRecords, SameOrder
  <2>3. Stages(y)
    BY <1>5, <2>2 DEF Stages
  <2>4. orders' = [orders EXCEPT ![o] = y]
    BY <1>1, <1>2, <1>3, <1>9, <2>1 DEF OrdersOK
  <2>5. Touched(o) /\ orders'[o] = y /\ \A q : Position(q)' = Position(q)
    BY <1>5, <1>7, <2>2, <2>3, <2>4
  <2>6. /\ OrdersOK' /\ ReplacedOK' /\ WorkersOK' /\ EntryOK'
        /\ worker'[w] = idle /\ \A v \in Workers \ {w} : worker'[v] = worker[v]
    BY <1>1, <1>3, <1>6, <1>9, <2>5, HolderSteps
  <2>7. LandingKnown'
    BY <1>1, <1>2, <1>3, <2>2, <2>5, <2>6 DEF IInv, LandingKnown, Touched
  <2>8. AtOnce' => AtOnce
    BY <1>3, <2>5, TouchedEntries
  <2>9. AtOnce' => \A v \in Workers : Covered(v)'
    <3>1. Covered(w)'
      BY <1>6, <2>6 DEF Covered
    <3> QED BY <2>5, <2>6, <2>8, <3>1, CoverKept DEF IInv, HeldOK
  <2>10. \A v, q : Landing(v, q)' = Landing(v, q)
    BY <1>1, <1>2, <1>6, <2>6, LandingSame
  <2>11. HeldOK'
    BY <1>9, <2>5, <2>8, <2>9, <2>10, HeldKept DEF IInv
  <2> QED BY <2>6, <2>7, <2>11 DEF IInv
<1>10. CASE /\ orders' = [orders EXCEPT ![o].live = "filled", ![o].sent = x.qty, ![o].status = "accepted"]
            /\ held' = [held EXCEPT ![x.contract] = @ + Signed(x, x.qty)]
            /\ worker' = [worker EXCEPT ![w].pc = "fill"]
  <2>1. PICK y : y = [x EXCEPT !.live = "filled", !.sent = x.qty, !.status = "accepted"]
    OBVIOUS
  <2>2. /\ y \in OrderRecords /\ SameOrder(y, x) /\ y.sent = x.qty /\ y.filled = x.filled
        /\ y.live = "filled" /\ y.status = "accepted" /\ y.rested = x.rested
    BY <1>4, <2>1 DEF OrderRecords, SameOrder
  <2>3. Stages(y)
    BY <1>5, <2>2 DEF Stages, SameOrder
  <2>4. orders' = [orders EXCEPT ![o] = y]
    BY <1>1, <1>2, <1>3, <1>10, <2>1 DEF OrdersOK
  <2>5. Touched(o) /\ orders'[o] = y /\ \A q : Position(q)' = Position(q)
    BY <1>5, <1>7, <2>2, <2>3, <2>4
  <2>6. PICK k : k = [c EXCEPT !.pc = "fill"]
    OBVIOUS
  <2>7. k.pc = "fill" /\ k.id = o /\ k.req = c.req /\ k = [pc |-> k.pc, id |-> k.id, req |-> k.req]
    <3>1. c = [pc |-> c.pc, id |-> c.id, req |-> c.req]
      BY <1>2 DEF CallOK
    <3>2. k = [pc |-> "fill", id |-> c.id, req |-> c.req]
      BY <2>6, <3>1
    <3> QED BY <1>1, <3>2
  <2>8. worker' = [worker EXCEPT ![w] = k]
    <3>1. worker = [v \in Workers |-> worker[v]]
      BY <1>2 DEF WorkersOK
    <3> QED BY <1>1, <1>10, <2>6, <3>1
  <2>9. CallOK(w, k)'
    <3>1. o \in DOMAIN orders'
      BY <1>3, <2>5 DEF Touched
    <3>2. SameOrder(orders'[o], k.req) /\ ~orders'[o].rested
      BY <1>3, <2>2, <2>5, <2>7 DEF SameOrder
    <3> QED BY <1>3, <2>2, <2>5, <2>7, <3>1, <3>2 DEF CallOK
  <2>10. /\ OrdersOK' /\ ReplacedOK' /\ WorkersOK' /\ EntryOK'
         /\ worker'[w] = k /\ \A v \in Workers \ {w} : worker'[v] = worker[v]
    BY <1>1, <1>3, <2>5, <2>7, <2>8, <2>9, HolderSteps
  <2>11. LandingKnown'
    BY <1>1, <1>2, <1>3, <2>5, <2>7, <2>10 DEF IInv, LandingKnown, Touched
  <2>12. AtOnce' => AtOnce
    BY <1>3, <2>5, TouchedEntries
  <2>13. PICK d \in Int : d = Signed(x, x.qty)
    BY <1>4, SignedInt DEF Fair
  <2>14. held' \in [Contracts -> Int] /\ \A q \in Contracts : held'[q] = held[q] + (IF x.contract = q THEN d ELSE 0)
    BY <1>4, <1>10, <2>13 DEF IInv, HeldOK, Fair
  <2>15. ASSUME AtOnce', NEW q \in Contracts
         PROVE  Position(q)' >= 0 /\ held'[q] = Position(q)' + Landing("decision", q)' + Landing("position", q)'
    <3>1. PICK e \in Int : e = IF x.contract = q THEN d ELSE 0
      OBVIOUS
    <3>2. Landing(w, q) = 0 /\ Landing(w, q)' = e
      <4>1. Landing(w, q) = 0
        BY <1>1, <1>2 DEF Landing
      <4>2. c.req.contract = x.contract /\ Signed(c.req, c.req.qty) = d
        BY <1>3, <2>13 DEF SameOrder, Signed
      <4>3. Landing(w, q)' = IF c.req.contract = q THEN Signed(c.req, c.req.qty) ELSE 0
        BY <2>7, <2>10 DEF Landing, Signed
      <4> QED BY <3>1, <4>1, <4>2, <4>3
    <3>3. Landing("decision", q)' + Landing("position", q)' = Landing("decision", q) + Landing("position", q) + e
      BY <2>10, <3>2, LandingMoved
    <3>4. Position(q)' = Position(q) /\ Position(q) >= 0
          /\ held[q] = Position(q) + Landing("decision", q) + Landing("position", q)
      BY <2>5, <2>12, <2>15 DEF IInv, HeldOK
    <3>5. held'[q] = held[q] + e
      BY <2>14, <3>1
    <3>6. PICK a \in Int, b \in Int, i \in Int : a = Landing("decision", q) /\ b = Landing("position", q) /\ i = Position(q)
      BY <1>2, LandingInt, PositionInt
    <3>7. PICK a1, b1 : a1 = Landing("decision", q)' /\ b1 = Landing("position", q)'
      OBVIOUS
    <3>8. a1 \in Int /\ b1 \in Int
      <4>1. \A v : v # w => Landing(v, q)' = Landing(v, q)
        BY <2>10 DEF Landing
      <4>2. \A v : Landing(v, q)' \in Int
        BY <3>1, <3>2, <4>1, LandingInt
      <4> QED BY <3>7, <4>2
    <3> QED BY <3>3, <3>4, <3>5, <3>6, <3>7, <3>8
  <2>16. AtOnce' => \A v \in Workers : Covered(v)'
    <3> SUFFICES ASSUME AtOnce' PROVE \A v \in Workers : Covered(v)'
      OBVIOUS
    <3>1. \A v \in Workers : Covered(v)
      BY <2>12 DEF IInv, HeldOK
    <3>2. Covered(w)'
      BY <1>1, <1>2, <2>5, <2>7, <2>10, <3>1 DEF Covered
    <3> QED BY <2>5, <2>10, <3>1, <3>2, CoverKept
  <2>17. HeldOK'
    BY <2>14, <2>15, <2>16 DEF HeldOK
  <2> QED BY <2>10, <2>11, <2>17 DEF IInv
<1> QED BY <1>1, <1>8, <1>9, <1>10 DEF Send

-----------------------------------------------------------------------------
(* The fill is recorded                                                    *)

\* A buy raises the projected position, a sell lowers it.
LEMMA SignedSides ==
  ASSUME NEW x, NEW n \in Nat, x.side \in {"buy", "sell"}
  PROVE  (x.side = "buy" => Signed(x, n) = n) /\ (x.side = "sell" => Signed(x, n) = -n) /\ Signed(x, 0) = 0
<1>1. Signed(x, 0) = 0 \/ Signed(x, 0) = -0
  BY DEF Signed
<1>2. Signed(x, 0) = 0
  BY <1>1
<1>3. x.side = "buy" => Signed(x, n) = n
  BY DEF Signed
<1>4. x.side = "sell" => Signed(x, n) = -n
  BY DEF Signed
<1> QED BY <1>2, <1>3, <1>4

LEMMA FillKeeps ==
  ASSUME IInv, NEW w \in Workers, Fill(w)
  PROVE  IInv'
<1>1. PICK c, o, x, idle : c = worker[w] /\ o = c.id /\ x = orders[o] /\ idle = Idle
  OBVIOUS
<1>2. OrdersOK /\ WorkersOK /\ CallOK(w, c) /\ c.pc = "fill" /\ held' = held
  BY <1>1, CallOf DEF Fill
<1>3. /\ o \in DOMAIN orders /\ SameOrder(x, c.req) /\ ~x.rested /\ x.status = "accepted" /\ x.live = "filled"
      /\ Fair(c.req) /\ c.req.kind \in Kinds[w]
  BY <1>1, <1>2 DEF CallOK
<1>4. x \in OrderRecords /\ Fair(x) /\ Stages(x)
  BY <1>1, <1>2, <1>3, RecordOf
<1>5. x.sent = x.qty /\ x.filled = 0
  BY <1>3, <1>4 DEF Stages
<1>6. CallOK(w, idle)' /\ idle.id = NoId /\ idle.pc = "idle"
  BY <1>1, IdleOK
<1>7. PICK y : y = [x EXCEPT !.status = "filled", !.filled = x.sent]
  OBVIOUS
<1>8. /\ y \in OrderRecords /\ SameOrder(y, x) /\ y.sent = x.sent /\ y.filled = x.sent
      /\ y.live = "filled" /\ y.status = "filled" /\ y.rested = x.rested
  BY <1>3, <1>4, <1>7 DEF OrderRecords, SameOrder
<1>9. Stages(y)
  BY <1>5, <1>8 DEF Stages, SameOrder
<1>10. orders' = [orders EXCEPT ![o] = y] /\ worker' = [worker EXCEPT ![w] = idle]
  BY <1>1, <1>2, <1>3, <1>7 DEF Fill, OrdersOK
<1>11. /\ orders' \in Seq(OrderRecords) /\ DOMAIN orders' = DOMAIN orders /\ orders'[o] = y
       /\ \A p \in DOMAIN orders \ {o} : orders'[p] = orders[p]
  BY <1>2, <1>3, <1>8, <1>10, OrderSet
<1>12. Touched(o)
  BY <1>1, <1>3, <1>8, <1>9, <1>11 DEF Touched, Live
<1>13. /\ OrdersOK' /\ ReplacedOK' /\ WorkersOK' /\ EntryOK'
       /\ worker'[w] = idle /\ \A v \in Workers \ {w} : worker'[v] = worker[v]
  BY <1>1, <1>3, <1>6, <1>10, <1>12, HolderSteps
<1>14. LandingKnown'
  <2> SUFFICES ASSUME NEW p \in DOMAIN orders, orders'[p].live = "filled", orders'[p].status # "filled",
                      ~orders'[p].rested
               PROVE  \E v \in Workers : worker'[v].pc = "fill" /\ worker'[v].id = p
    BY <1>11 DEF LandingKnown
  <2>1. p # o /\ orders'[p] = orders[p]
    BY <1>8, <1>11
  <2>2. PICK v \in Workers : worker[v].pc = "fill" /\ worker[v].id = p
    BY <2>1 DEF IInv, LandingKnown
  <2>3. v # w
    BY <1>1, <2>1, <2>2
  <2> QED BY <1>13, <2>2, <2>3
<1>15. AtOnce' => AtOnce
  BY <1>3, <1>12, TouchedEntries
<1>16. PICK d \in Int : d = Signed(x, x.qty) /\ (x.side = "buy" => d = x.qty) /\ (x.side = "sell" => d = -x.qty)
  <2>1. x.qty \in Nat /\ x.side \in {"buy", "sell"}
    BY <1>4 DEF Fair
  <2> QED BY <2>1, SignedInt, SignedSides
<1>17. \A q : Position(q)' = IF x.contract = q THEN Position(q) + d ELSE Position(q)
  <2> SUFFICES ASSUME NEW q PROVE Position(q)' = IF x.contract = q THEN Position(q) + d ELSE Position(q)
    OBVIOUS
  <2>1. PICK s, t : s = orders /\ t = orders'
    OBVIOUS
  <2>2. s \in Seq(OrderRecords) /\ s[o] = x /\ t[o] = y
    BY <1>1, <1>2, <1>11, <2>1 DEF OrdersOK
  <2>3. Net(t, q) = IF s[o].contract = q
                    THEN Net(s, q) + Signed(s[o], t[o].filled) - Signed(s[o], s[o].filled) ELSE Net(s, q)
    BY <1>3, <1>8, <1>11, <2>1, <2>2, NetChanged DEF SameOrder
  <2>4. Signed(s[o], t[o].filled) = d /\ Signed(s[o], s[o].filled) = 0
    <3>1. Signed(x, 0) = 0
      BY <1>4, SignedSides DEF Fair
    <3> QED BY <1>5, <1>8, <1>16, <2>2, <3>1
  <2>5. Net(s, q) \in Int
    BY <2>2, FillsOK
  <2>6. Net(t, q) = IF x.contract = q THEN Net(s, q) + d ELSE Net(s, q)
    BY <2>2, <2>3, <2>4, <2>5
  <2> QED BY <2>1, <2>6, PositionIsNet
<1>18. ASSUME AtOnce', NEW q \in Contracts
       PROVE  Position(q)' >= 0 /\ held'[q] = Position(q)' + Landing("decision", q)' + Landing("position", q)'
  <2>1. PICK e \in Int : e = IF x.contract = q THEN d ELSE 0
    OBVIOUS
  <2>2. Landing(w, q)' = 0 /\ Landing(w, q) = e
    <3>1. Landing(w, q)' = 0
      BY <1>6, <1>13 DEF Landing
    <3>2. c.req.contract = x.contract /\ Signed(c.req, c.req.qty) = d
      BY <1>3, <1>16 DEF SameOrder, Signed
    <3>3. Landing(w, q) = IF c.req.contract = q THEN Signed(c.req, c.req.qty) ELSE 0
      BY <1>1, <1>2 DEF Landing
    <3> QED BY <2>1, <3>1, <3>2, <3>3
  <2>3. PICK a \in Int, b \in Int, i \in Int : a = Landing("decision", q) /\ b = Landing("position", q) /\ i = Position(q)
    BY <1>2, LandingInt, PositionInt
  <2>4. PICK f \in Int : f = -e
    OBVIOUS
  <2>5. Landing("decision", q)' + Landing("position", q)' = a + b + f
    <3>1. Landing(w, q)' = Landing(w, q) + f
      BY <2>1, <2>2, <2>4
    <3> QED BY <1>13, <2>3, <3>1, LandingMoved
  <2>6. held[q] = i + a + b /\ i >= 0
    BY <1>15, <1>18, <2>3 DEF IInv, HeldOK
  <2>7. Position(q)' = i + e
    BY <1>17, <2>1, <2>3
  <2>8. i + e >= 0
    <3>1. CASE x.contract = q /\ x.side = "sell"
      <4>1. c.req.qty <= Position(q) /\ c.req.qty = x.qty
        <5>1. Covered(w)
          BY <1>15, <1>18 DEF IInv, HeldOK
        <5> QED BY <1>1, <1>2, <1>3, <3>1, <5>1 DEF Covered, SameOrder
      <4>2. e = -x.qty /\ x.qty \in Nat
        BY <1>4, <1>16, <2>1, <3>1 DEF Fair
      <4> QED BY <2>3, <4>1, <4>2
    <3>2. CASE x.contract # q
      BY <2>1, <2>6, <3>2
    <3>3. CASE x.contract = q /\ x.side = "buy"
      <4>1. e = x.qty /\ x.qty \in Nat
        BY <1>4, <1>16, <2>1, <3>3 DEF Fair
      <4> QED BY <2>6, <4>1
    <3> QED BY <1>4, <3>1, <3>2, <3>3 DEF Fair
  <2>9. PICK a1, b1 : a1 = Landing("decision", q)' /\ b1 = Landing("position", q)'
    OBVIOUS
  <2>10. a1 \in Int /\ b1 \in Int
    <3>1. \A v : v # w => Landing(v, q)' = Landing(v, q)
      BY <1>13 DEF Landing
    <3>2. \A v : Landing(v, q)' \in Int
      BY <2>2, <3>1, LandingInt
    <3> QED BY <2>9, <3>2
  <2> QED BY <1>2, <2>4, <2>5, <2>6, <2>7, <2>8, <2>9, <2>10
<1>19. ASSUME AtOnce', NEW v \in Workers PROVE Covered(v)'
  <2>1. CASE v = w
    BY <1>6, <1>13, <2>1 DEF Covered
  <2>2. CASE v # w
    <3> SUFFICES ASSUME worker[v].pc \in {"request", "send", "fill"}, worker[v].req.side = "sell"
                 PROVE  worker[v].req.qty <= Position(worker[v].req.contract)'
      BY <1>13, <2>2 DEF Covered
    <3>1. Covered(v) /\ Fair(worker[v].req) /\ worker[v].req.kind \in Kinds[v]
      BY <1>15, <1>19, CallOf DEF IInv, HeldOK, CallOK
    <3>2. worker[v].req.kind \notin Entries
      BY <3>1 DEF Fair
    <3>3. v = "position" /\ w = "decision"
      BY <2>2, <3>1, <3>2, KindsAre
    <3>4. x.side = "buy"
      BY <1>3, <3>3, KindsAre DEF Fair, SameOrder
    <3>5. d \in Nat
      BY <1>4, <1>16, <3>4 DEF Fair
    <3>0. PICK g : g = worker[v].req.contract
      OBVIOUS
    <3>6. PICK i \in Int : i = Position(g)
      BY <1>2, PositionInt
    <3>7. Position(g)' >= i /\ Position(g)' \in Int
      BY <1>17, <3>5, <3>6
    <3>8. worker[v].req.qty <= i /\ worker[v].req.qty \in Int
      BY <3>0, <3>1, <3>6 DEF Covered, Fair
    <3> QED BY <1>13, <2>2, <3>0, <3>6, <3>7, <3>8
  <2> QED BY <2>1, <2>2
<1>20. HeldOK'
  BY <1>2, <1>18, <1>19 DEF IInv, HeldOK
<1> QED BY <1>13, <1>14, <1>20 DEF IInv

-----------------------------------------------------------------------------
(* The market and the polls                                                *)

\* An order that rested moves on by itself.
LEMMA RestedMoves ==
  ASSUME IInv, NEW o \in DOMAIN orders, Touched(o), orders[o].rested, worker' = worker,
         held' \in [Contracts -> Int]
  PROVE  IInv'
<1>1. \A v \in Workers : worker[v].id # o
  BY Holder
<1>2. WorkersOK'
  <2>1. \A v \in Workers : CallOK(v, worker[v])'
    <3> SUFFICES ASSUME NEW v \in Workers PROVE CallOK(v, worker[v])'
      OBVIOUS
    <3>1. PICK c : c = worker[v]
      OBVIOUS
    <3>2. CallOK(v, c)'
      BY <1>1, <3>1, CallOf, CallKept
    <3> QED BY <3>1, <3>2
  <2> QED BY <2>1 DEF IInv, WorkersOK
<1>3. OrdersOK' /\ ReplacedOK'
  BY TouchedOrders
<1>4. LandingKnown'
  BY DEF IInv, LandingKnown, Touched
<1>5. EntryOK'
  <2>1. NoEntry => NoEntry'
    BY TouchedEntries
  <2> QED BY <2>1, TouchedEntries DEF IInv, EntryOK
<1>6. HeldOK'
  <2>1. ~AtOnce'
    BY DEF AtOnce, Touched
  <2> QED BY <2>1 DEF HeldOK
<1> QED BY <1>2, <1>3, <1>4, <1>5, <1>6 DEF IInv

LEMMA BrokerFillsKeeps ==
  ASSUME IInv, NEW o \in DOMAIN orders, NEW n \in 1..MaxQty, BrokerFills(o, n)
  PROVE  IInv'
<1>1. PICK x : x = orders[o]
  OBVIOUS
<1>2. OrdersOK /\ n \in Nat \ {0}
  BY GatewayAssumption DEF IInv
<1>3. x \in OrderRecords /\ Fair(x) /\ Stages(x) /\ x.live = "open" /\ x.sent + n <= x.qty
  BY <1>1, <1>2, RecordOf DEF BrokerFills
<1>4. x.status \in {"accepted", "rejected"} /\ x.rested /\ x.filled = 0 /\ x.sent \in Nat /\ x.qty \in Nat
  BY <1>3 DEF Stages, OrderRecords
<1>5. PICK y : y = [x EXCEPT !.sent = x.sent + n, !.live = IF x.sent + n = x.qty THEN "filled" ELSE x.live]
  OBVIOUS
<1>6. /\ y \in OrderRecords /\ SameOrder(y, x) /\ y.sent = x.sent + n /\ y.filled = x.filled
      /\ y.live = (IF x.sent + n = x.qty THEN "filled" ELSE "open")
      /\ y.status = x.status /\ y.rested = x.rested
  <2>1. PICK z \in Nat : z = x.sent + n
    BY <1>2, <1>4
  <2>2. PICK l \in {"open", "filled"} : l = IF x.sent + n = x.qty THEN "filled" ELSE "open"
    OBVIOUS
  <2>3. y = [x EXCEPT !.sent = z, !.live = l]
    BY <1>3, <1>5, <2>1, <2>2
  <2>4. /\ y \in OrderRecords /\ SameOrder(y, x) /\ y.sent = z /\ y.filled = x.filled
        /\ y.live = l /\ y.status = x.status /\ y.rested = x.rested
    BY <1>3, <2>3 DEF OrderRecords, SameOrder
  <2> QED BY <2>1, <2>2, <2>4
<1>7. Stages(y)
  <2>1. y.qty = x.qty
    BY <1>6 DEF SameOrder
  <2>2. CASE x.sent + n = x.qty
    BY <1>4, <1>6, <2>1, <2>2 DEF Stages
  <2>3. CASE x.sent + n # x.qty
    <3>1. y.sent < y.qty
      BY <1>2, <1>3, <1>4, <1>6, <2>1, <2>3
    <3> QED BY <1>4, <1>6, <2>3, <3>1 DEF Stages
  <2> QED BY <2>2, <2>3
<1>8. orders' = [orders EXCEPT ![o] = y]
  BY <1>1, <1>2, <1>5 DEF BrokerFills, OrdersOK
<1>9. Touched(o)
  <2>1. /\ orders' \in Seq(OrderRecords) /\ DOMAIN orders' = DOMAIN orders /\ orders'[o] = y
        /\ \A p \in DOMAIN orders \ {o} : orders'[p] = orders[p]
    BY <1>2, <1>6, <1>8, OrderSet
  <2> QED BY <1>1, <1>3, <1>4, <1>6, <1>7, <2>1 DEF Touched, Live
<1>10. held' \in [Contracts -> Int] /\ worker' = worker
  <2>1. Signed(x, n) \in Int
    BY <1>2, SignedInt
  <2> QED BY <1>1, <1>3, <2>1 DEF BrokerFills, IInv, HeldOK, Fair
<1> QED BY <1>1, <1>4, <1>9, <1>10, RestedMoves

LEMMA PollKeeps ==
  ASSUME IInv, NEW o \in DOMAIN orders, Poll(o)
  PROVE  IInv'
<1>1. PICK x : x = orders[o]
  OBVIOUS
<1>2. OrdersOK
  BY DEF IInv
<1>3. x \in OrderRecords /\ Fair(x) /\ Stages(x) /\ x.live = "filled" /\ x.status = "accepted"
  BY <1>1, <1>2, RecordOf DEF Poll
<1>4. x.rested /\ x.sent = x.qty /\ x.status = "accepted" /\ x.qty \in Nat
  <2>1. x.rested
    BY <1>1, <1>3 DEF IInv, LandingKnown, Poll
  <2> QED BY <1>3, <2>1 DEF Stages, Fair
<1>5. PICK y : y = [x EXCEPT !.status = "filled", !.filled = x.qty]
  OBVIOUS
<1>6. /\ y \in OrderRecords /\ SameOrder(y, x) /\ y.sent = x.sent /\ y.filled = x.qty
      /\ y.live = "filled" /\ y.status = "filled" /\ y.rested = x.rested
  BY <1>3, <1>4, <1>5 DEF OrderRecords, SameOrder
<1>7. Stages(y)
  BY <1>4, <1>6 DEF Stages, SameOrder
<1>8. orders' = [orders EXCEPT ![o] = y]
  BY <1>1, <1>2, <1>5 DEF Poll, OrdersOK
<1>9. Touched(o)
  <2>1. /\ orders' \in Seq(OrderRecords) /\ DOMAIN orders' = DOMAIN orders /\ orders'[o] = y
        /\ \A p \in DOMAIN orders \ {o} : orders'[p] = orders[p]
    BY <1>2, <1>6, <1>8, OrderSet
  <2> QED BY <1>1, <1>3, <1>6, <1>7, <2>1 DEF Touched, Live
<1>10. held' \in [Contracts -> Int] /\ worker' = worker
  BY DEF Poll, IInv, HeldOK
<1> QED BY <1>1, <1>4, <1>9, <1>10, RestedMoves

-----------------------------------------------------------------------------
(* The invariant holds                                                     *)

LEMMA InitIInv == Init => IInv
<1> SUFFICES ASSUME Init PROVE IInv
  OBVIOUS
<1>1. orders = <<>> /\ held = [k \in Contracts |-> 0] /\ worker = [w \in Workers |-> Idle]
  BY DEF Init
<1>2. DOMAIN orders = {} /\ orders \in Seq(OrderRecords)
  BY <1>1
<1>3. OrdersOK /\ ReplacedOK /\ LandingKnown
  BY <1>2 DEF OrdersOK, ReplacedOK, LandingKnown
<1>4. \A w \in Workers : worker[w] = Idle
  BY <1>1
<1>5. WorkersOK
  <2>1. \A w \in Workers : CallOK(w, worker[w])
    <3> SUFFICES ASSUME NEW w \in Workers PROVE CallOK(w, worker[w])
      OBVIOUS
    <3>1. worker[w].pc = "idle" /\ worker[w].id = NoId
          /\ worker[w] = [pc |-> worker[w].pc, id |-> worker[w].id, req |-> worker[w].req]
      BY <1>4, IdleIs
    <3> QED BY <3>1 DEF CallOK, NoId
  <2>2. worker = [w \in Workers |-> worker[w]]
    BY <1>1
  <2>3. \A w \in Workers : worker[w].id = NoId
    BY <1>4, IdleIs
  <2> QED BY <2>1, <2>2, <2>3 DEF WorkersOK
<1>6. \A w \in Workers : worker[w].pc = "idle"
  BY <1>4, IdleIs
<1>7. EntryOK
  BY <1>2, <1>6 DEF EntryOK, Working
<1>8. HeldOK
  <2>1. held \in [Contracts -> Int] /\ \A k \in Contracts : held[k] = 0
    BY <1>1
  <2>2. \A w \in Workers : Covered(w)
    BY <1>6 DEF Covered
  <2>3. \A v, k : Landing(v, k) = 0
    BY <1>6 DEF Landing
  <2>4. ASSUME NEW k PROVE Position(k) = 0
    <3>1. OrdersFor(orders, k) = {}
      BY <1>2 DEF OrdersFor
    <3> QED BY <3>1, PositionIsNet, SumEmpty DEF Net
  <2>5. \A k \in Contracts : Position(k) >= 0 /\ held[k] = Position(k) + Landing("decision", k) + Landing("position", k)
    BY <2>1, <2>3, <2>4
  <2> QED BY <2>1, <2>2, <2>5 DEF HeldOK
<1> QED BY <1>3, <1>5, <1>7, <1>8 DEF IInv

LEMMA IInvStep == IInv /\ [Next]_vars => IInv'
<1> SUFFICES ASSUME IInv, [Next]_vars PROVE IInv'
  OBVIOUS
<1>1. ASSUME NEW w \in Workers, NEW kind \in Kinds[w], NEW k \in Contracts,
             NEW n \in 1..MaxQty + 1, NEW m \in {"good", "degraded"}, Submit(w, kind, k, n, m)
      PROVE  IInv'
  BY <1>1, SubmitKeeps
<1>2. ASSUME NEW w \in Workers, CancelFirst(w) PROVE IInv'
  BY <1>2, CancelFirstKeeps
<1>3. ASSUME NEW w \in Workers, Request(w) PROVE IInv'
  BY <1>3, RequestKeeps
<1>4. ASSUME NEW w \in Workers, Send(w) PROVE IInv'
  BY <1>4, SendKeeps
<1>5. ASSUME NEW w \in Workers, Fill(w) PROVE IInv'
  BY <1>5, FillKeeps
<1>6. ASSUME NEW o \in DOMAIN orders, Poll(o) PROVE IInv'
  BY <1>6, PollKeeps
<1>7. ASSUME NEW o \in DOMAIN orders, NEW n \in 1..MaxQty, BrokerFills(o, n) PROVE IInv'
  BY <1>7, BrokerFillsKeeps
<1>8. CASE UNCHANGED vars
  <2>1. orders' = orders /\ held' = held /\ worker' = worker
    BY <1>8 DEF vars
  <2>2. \A k : Position(k)' = Position(k)
    BY <2>1, PositionIsNet
  <2>3. OrdersOK' /\ ReplacedOK' /\ LandingKnown'
    BY <2>1 DEF IInv, OrdersOK, ReplacedOK, Replaceable, LandingKnown
  <2>4. WorkersOK'
    BY <2>1 DEF IInv, WorkersOK, CallOK, Replaceable
  <2>5. EntryOK'
    BY <2>1 DEF IInv, EntryOK, NoEntry, Working
  <2>6. \A v, k : Landing(v, k)' = Landing(v, k)
    BY <2>1 DEF Landing
  <2>7. AtOnce' <=> AtOnce
    BY <2>1 DEF AtOnce
  <2>8. \A w \in Workers : Covered(w) => Covered(w)'
    BY <2>1, <2>2 DEF Covered
  <2>9. HeldOK'
    BY <2>1, <2>2, <2>6, <2>7, <2>8 DEF IInv, HeldOK
  <2> QED BY <2>3, <2>4, <2>5, <2>9 DEF IInv
<1> QED BY <1>1, <1>2, <1>3, <1>4, <1>5, <1>6, <1>7, <1>8 DEF Next

LEMMA InvariantHolds == Spec => []IInv
BY InitIInv, IInvStep, PTL DEF Spec

-----------------------------------------------------------------------------
(* The theorems                                                            *)

\* Ledger and broker quantities stay in order: what the ledger knows as filled
\* is at most what the broker filled, which is at most what was asked for, and
\* no buy is above the gateway's cap.
THEOREM GatewayTypeCorrect == Spec => []TypeOK
<1>1. ASSUME IInv PROVE TypeOK
  <2>1. OrdersOK /\ held \in [Contracts -> Int]
    BY <1>1 DEF IInv, HeldOK
  <2>2. ASSUME NEW o \in DOMAIN orders
        PROVE  /\ orders[o].contract \in Contracts /\ orders[o].side \in {"buy", "sell"}
               /\ orders[o].qty > 0 /\ (orders[o].side = "buy" => orders[o].qty <= MaxQty)
               /\ orders[o].filled <= orders[o].sent /\ orders[o].sent <= orders[o].qty
    <3>1. PICK x : x = orders[o]
      OBVIOUS
    <3>2. x \in OrderRecords /\ Fair(x) /\ Stages(x)
      BY <2>1, <3>1, RecordOf
    <3>3. /\ x.qty \in Nat \ {0} /\ x.sent \in Nat /\ x.filled \in Nat
          /\ x.live \in {"none", "open", "filled", "cancelled"}
      BY <3>2 DEF OrderRecords
    <3>4. x.filled <= x.sent
      BY <3>2, <3>3 DEF Stages
    <3>5. x.sent <= x.qty
      BY <3>2, <3>3 DEF Stages
    <3> QED BY <3>1, <3>2, <3>3, <3>4, <3>5 DEF Fair
  <2> QED BY <2>1, <2>2 DEF TypeOK
<1> QED BY <1>1, InvariantHolds, PTL

\* _validate_and_compile's "conflicting working entry order exists": of the
\* decision worker's orders the ledger has at most one submitted or accepted,
\* though the check and the submission request are separate steps.
THEOREM OneEntryAlways == Spec => []OneWorkingEntry
<1>1. ASSUME IInv PROVE OneWorkingEntry
  <2> SUFFICES ASSUME NEW o \in Working, NEW p \in Working,
                      {orders[o].kind, orders[p].kind} \subseteq Kinds.decision
               PROVE  o = p
    BY DEF OneWorkingEntry
  <2>1. orders[o].kind \in Entries /\ orders[p].kind \in Entries
    BY KindsAre
  <2> QED BY <1>1, <2>1 DEF IInv, EntryOK
<1> QED BY <1>1, InvariantHolds, PTL

\* "sell quantity exceeds open quantity": while every order fills or fails at
\* once, no sequence of validated closes takes the broker's position in a
\* contract below zero, whatever the two workers interleave.
THEOREM NeverOversoldAtOnce == Spec => []NotOversoldAtOnce
<1>1. ASSUME IInv PROVE NotOversoldAtOnce
  <2> SUFFICES ASSUME AtOnce, NEW k \in Contracts PROVE held[k] >= 0
    BY DEF NotOversoldAtOnce, AtOnce
  <2>1. /\ Position(k) >= 0 /\ held[k] = Position(k) + Landing("decision", k) + Landing("position", k)
        /\ \A w \in Workers : Covered(w)
    BY <1>1 DEF IInv, HeldOK
  <2>2. PICK a \in Int, b \in Int, i \in Int :
            a = Landing("decision", k) /\ b = Landing("position", k) /\ i = Position(k)
    BY <1>1, LandingInt, PositionInt DEF IInv
  <2>3. ASSUME NEW w \in Workers, worker[w].pc = "fill"
        PROVE  Fair(worker[w].req) /\ worker[w].req.kind \in Kinds[w]
    BY <1>1, <2>3, CallOf DEF CallOK
  <2>4. a >= 0
    <3>1. CASE "decision" \in Workers /\ worker["decision"].pc = "fill" /\ worker["decision"].req.contract = k
      <4>1. PICK r : r = worker["decision"].req
        OBVIOUS
      <4>2. r.side = "buy" /\ r.qty \in Nat
        BY <2>3, <3>1, <4>1, KindsAre DEF Fair
      <4>3. a = Signed(r, r.qty)
        BY <2>2, <3>1, <4>1 DEF Landing
      <4> QED BY <4>2, <4>3 DEF Signed
    <3>2. CASE ~("decision" \in Workers /\ worker["decision"].pc = "fill" /\ worker["decision"].req.contract = k)
      BY <2>2, <3>2 DEF Landing
    <3> QED BY <3>1, <3>2
  <2>5. i + b >= 0
    <3>1. CASE "position" \in Workers /\ worker["position"].pc = "fill" /\ worker["position"].req.contract = k
      <4>1. PICK r : r = worker["position"].req
        OBVIOUS
      <4>2. r.side \in {"buy", "sell"} /\ r.qty \in Nat
        BY <2>3, <3>1, <4>1 DEF Fair
      <4>3. b = Signed(r, r.qty)
        BY <2>2, <3>1, <4>1 DEF Landing
      <4>4. r.side = "sell" => r.qty <= i
        BY <2>1, <2>2, <3>1, <4>1 DEF Covered
      <4>5. (r.side = "buy" => b = r.qty) /\ (r.side = "sell" => b = -r.qty)
        BY <4>2, <4>3, SignedSides
      <4> QED BY <2>1, <2>2, <4>2, <4>4, <4>5
    <3>2. CASE ~("position" \in Workers /\ worker["position"].pc = "fill" /\ worker["position"].req.contract = k)
      <4>1. b = 0
        BY <2>2, <3>2 DEF Landing
      <4> QED BY <2>1, <2>2, <4>1
    <3> QED BY <3>1, <3>2
  <2> QED BY <2>1, <2>2, <2>4, <2>5
<1> QED BY <1>1, InvariantHolds, PTL

Sents(s, S) == [p \in S |-> s[p].sent]

LEMMA SentSum ==
  ASSUME NEW S PROVE MapThenSumSet(LAMBDA p : orders[p].sent, S) = SumOf(Sents(orders, S), S)
BY Zenon DEF Sents, SumOf, MapThenSumSet, MapThenFoldSet

\* cancel_order before the submission of a replacement: an order and its
\* replacements together fill more than the order was for only if the order was
\* cancelled, and by no more than the broker had filled of it without the ledger
\* knowing, whatever fills or loses its reply between validation, cancellation
\* and submission.
THEOREM ReplacingRepeatsOnlyUnknown == Spec => []OnlyUnknownFillsRepeat
<1>1. ASSUME IInv PROVE OnlyUnknownFillsRepeat
  <2> SUFFICES ASSUME NEW o \in DOMAIN orders
               PROVE  MapThenSumSet(LAMBDA p : orders[p].sent, Chain(o)) <=
                          orders[o].qty + IF orders[o].live = "cancelled"
                                          THEN orders[o].sent - orders[o].filled ELSE 0
    BY DEF OnlyUnknownFillsRepeat
  <2>1. OrdersOK /\ \A p \in DOMAIN orders : orders[p] \in OrderRecords /\ Stages(orders[p])
    BY <1>1, RecordOf DEF IInv
  <2>2. PICK f : f = Sents(orders, Chain(o))
    OBVIOUS
  <2>3. MapThenSumSet(LAMBDA p : orders[p].sent, Chain(o)) = SumOf(f, Chain(o))
    BY <2>2, SentSum, Zenon
  <2>4. Chain(o) \subseteq DOMAIN orders /\ o \in Chain(o)
    BY DEF Chain
  <2>5. ASSUME NEW p \in Chain(o)
        PROVE  f[p] = orders[p].sent /\ f[p] \in Nat /\ f[p] <= orders[p].qty /\ orders[p].qty \in Nat
    <3>1. f[p] = orders[p].sent
      BY <2>2 DEF Sents
    <3>2. PICK x : x = orders[p] /\ x \in OrderRecords /\ Stages(x)
      BY <2>1, <2>4
    <3>3. x.sent \in Nat /\ x.qty \in Nat /\ x.live \in {"none", "open", "filled", "cancelled"}
      BY <3>2 DEF OrderRecords
    <3>4. x.sent <= x.qty
      BY <3>2, <3>3 DEF Stages
    <3> QED BY <3>1, <3>2, <3>3, <3>4
  <2>6. PICK a \in Nat, n \in Nat : a = f[o] /\ n = orders[o].qty /\ a <= n
    BY <2>4, <2>5
  <2>7. SumOf(f, {o}) = a
    <3>1. SumOf(f, {} \cup {o}) = f[o] + SumOf(f, {})
      <4>1. IsFiniteSet({}) /\ o \notin {}
        BY FS_EmptySet
      <4>2. \A q \in {} \cup {o} : f[q] \in Int
        BY <2>6
      <4> QED BY <4>1, <4>2, SumAdd
    <3>2. {} \cup {o} = {o}
      OBVIOUS
    <3> QED BY <2>6, <3>1, <3>2, SumEmpty
  <2>8. o # NoId
    BY <2>1 DEF OrdersOK, NoId
  <2>9. orders[o].live = "cancelled" => orders[o].sent - orders[o].filled = a
    <3>1. PICK x : x = orders[o] /\ Stages(x)
      BY <2>1
    <3>2. x.live = "cancelled" => x.filled = 0
      BY <3>1 DEF Stages
    <3>3. x.sent = a
      BY <2>4, <2>5, <2>6, <3>1
    <3> QED BY <2>6, <3>1, <3>2, <3>3
  <2>10. CASE Chain(o) = {o}
    BY <2>3, <2>6, <2>7, <2>9, <2>10
  <2>11. CASE Chain(o) # {o}
    <3>1. PICK p \in DOMAIN orders : orders[p].replaces = o /\ p # o
      BY <2>4, <2>11 DEF Chain
    <3>2. /\ Replaceable(o, orders[p].qty) /\ orders[o].live = "cancelled"
          /\ \A q \in DOMAIN orders : orders[q].replaces = o => q = p
      BY <1>1, <2>8, <3>1 DEF IInv, ReplacedOK
    <3>3. Chain(o) = {o} \cup {p}
      BY <3>1, <3>2 DEF Chain
    <3>4. SumOf(f, {o} \cup {p}) = f[p] + SumOf(f, {o})
      <4>1. IsFiniteSet({o}) /\ p \notin {o}
        BY <3>1, FS_Singleton
      <4>2. \A q \in {o} \cup {p} : f[q] \in Int
        BY <2>5, <3>3
      <4> QED BY <4>1, <4>2, SumAdd
    <3>5. f[p] \in Nat /\ f[p] <= orders[p].qty /\ orders[p].qty \in Nat
      BY <2>5, <3>3
    <3>6. orders[p].qty <= n
      BY <2>6, <3>2 DEF Replaceable
    <3>7. f[p] <= n
      BY <2>6, <3>5, <3>6
    <3>8. SumOf(f, Chain(o)) = f[p] + a
      BY <2>7, <3>3, <3>4
    <3> QED BY <2>3, <2>6, <2>9, <3>2, <3>5, <3>7, <3>8
  <2> QED BY <2>10, <2>11
<1> QED BY <1>1, InvariantHolds, PTL
=============================================================================
