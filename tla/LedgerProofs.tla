----------------------------- MODULE LedgerProofs -----------------------------
(***************************************************************************)
(* Theorems about the ledger: LedgerProjector, for every set of orders,  *)
(* contracts, keys and every stream of ledger events, and LedgerStore, for*)
(* every set of calls, every assignment of keys and business fields and  *)
(* any number of faults and crashes.                                     *)
(***************************************************************************)
EXTENDS LedgerProjector, LedgerStore, FiniteSums, TLAPS

-----------------------------------------------------------------------------
(* What the operators on orders and positions return                     *)

\* A placeholder for an order that is not in the dict is an order record.
LEMMA NoOrderType == NoOrder \in OrderLifecycle
BY StreamAssumption DEF NoOrder, OrderLifecycle, OrderStatus, Sides

\* _MutableOrder(...) built from any event is an order record.
LEMMA NewOrderType ==
    ASSUME NEW ev \in LedgerEvent, NEW n \in Nat
    PROVE  NewOrder(ev, n) \in OrderLifecycle
BY DEF NewOrder, OrderLifecycle, LedgerEvent, OrderStatus

\* _ensure_order returns an order record that is in the dict.
LEMMA EnsureOrderType ==
    ASSUME TypeOK, NEW ev \in LedgerEvent
    PROVE  EnsureOrder(ev) \in OrderLifecycle /\ EnsureOrder(ev).known
<1>1. orders[ev.order] \in OrderLifecycle
  BY DEF TypeOK, LedgerEvent
<1>2. NewOrder(ev, IF ev.type \in FillTypes THEN ev.qty ELSE 0) \in OrderLifecycle
  BY NewOrderType DEF LedgerEvent
<1> QED BY <1>1, <1>2 DEF EnsureOrder, NewOrder

\* Recording the broker's id keeps an order record and its other fields.
LEMMA WithBrokerType ==
    ASSUME NEW ord \in OrderLifecycle, NEW ev \in LedgerEvent
    PROVE  /\ WithBroker(ord, ev) \in OrderLifecycle
           /\ \A f \in {"known", "status", "submitted", "filled"} : WithBroker(ord, ev)[f] = ord[f]
BY DEF WithBroker, OrderLifecycle, LedgerEvent

\* A guarded status assignment keeps an order record and its quantities.
LEMMA MoveUnlessType ==
    ASSUME NEW ord \in OrderLifecycle, NEW T, NEW s \in OrderStatus
    PROVE  /\ MoveUnless(ord, T, s) \in OrderLifecycle
           /\ \A f \in {"known", "submitted", "filled"} : MoveUnless(ord, T, s)[f] = ord[f]
           /\ MoveUnless(ord, T, s).status = IF ord.status \in T THEN ord.status ELSE s
BY DEF MoveUnless, OrderLifecycle

\* The request branch yields an order record for the requested quantity.
LEMMA RequestedType ==
    ASSUME TypeOK, NEW ev \in LedgerEvent
    PROVE  Requested(ev) \in OrderLifecycle
<1>1. orders[ev.order] \in OrderLifecycle
  BY DEF TypeOK, LedgerEvent
<1>2. NewOrder(ev, ev.qty) \in OrderLifecycle
  BY NewOrderType DEF LedgerEvent
<1>3. WithBroker(orders[ev.order], ev) \in OrderLifecycle
  BY <1>1, WithBrokerType
<1>4. [WithBroker(orders[ev.order], ev) EXCEPT
            !.submitted = ev.qty, !.side = ev.side, !.contract = ev.contract] \in OrderLifecycle
  BY <1>3 DEF OrderLifecycle, LedgerEvent
<1> QED BY <1>2, <1>4, MoveUnlessType DEF Requested, OrderStatus

\* The acceptance branch keeps fills; it may only raise a submitted
\* quantity of zero.
LEMMA AcceptedType ==
    ASSUME TypeOK, NEW ev \in LedgerEvent
    PROVE  /\ Accepted(ev) \in OrderLifecycle
           /\ Accepted(ev).known
           /\ Accepted(ev).filled = EnsureOrder(ev).filled
           /\ EnsureOrder(ev).submitted # 0 => Accepted(ev).submitted = EnsureOrder(ev).submitted
           /\ Accepted(ev).status =
                 IF EnsureOrder(ev).status \in {"filled", "cancelled", "rejected", "partially_filled"}
                 THEN EnsureOrder(ev).status ELSE "accepted"
<1> DEFINE ord == WithBroker(EnsureOrder(ev), ev)
           mid == [ord EXCEPT !.submitted = IF @ = 0 THEN ev.qty ELSE @]
<1>1. ord \in OrderLifecycle /\ ord.known /\ ord.filled = EnsureOrder(ev).filled
        /\ ord.submitted = EnsureOrder(ev).submitted /\ ord.status = EnsureOrder(ev).status
  BY EnsureOrderType, WithBrokerType
<1>2. mid \in OrderLifecycle /\ mid.known /\ mid.filled = ord.filled /\ mid.status = ord.status
        /\ (ord.submitted # 0 => mid.submitted = ord.submitted)
  BY <1>1 DEF OrderLifecycle, LedgerEvent
<1>3. Accepted(ev) = MoveUnless(mid, {"filled", "cancelled", "rejected", "partially_filled"}, "accepted")
  BY DEF Accepted
<1> HIDE DEF ord, mid
<1> QED BY <1>1, <1>2, <1>3, MoveUnlessType DEF OrderStatus

\* The clamp of _accumulate_fill: never more than the event's quantity and,
\* without allow_overfill, never more than what remains of the order.
LEMMA AppliedQtyBound ==
    ASSUME NEW ord \in OrderLifecycle, NEW ev \in LedgerEvent
    PROVE  /\ AppliedQty(ord, ev) \in Nat
           /\ AppliedQty(ord, ev) <= ev.qty
           /\ ~ev.overfill /\ ord.submitted > 0 /\ ord.filled <= ord.submitted
                => ord.filled + AppliedQty(ord, ev) <= ord.submitted
BY DEF AppliedQty, Least, OrderLifecycle, LedgerEvent

\* A fill that is applied keeps an order record, adds the applied quantity
\* and reports the order filled when nothing remains.
LEMMA FilledOrderType ==
    ASSUME NEW ord \in OrderLifecycle, NEW ev \in LedgerEvent
    PROVE  /\ FilledOrder(ord, ev) \in OrderLifecycle
           /\ FilledOrder(ord, ev).known = ord.known
           /\ FilledOrder(ord, ev).submitted = ord.submitted
           /\ FilledOrder(ord, ev).filled = ord.filled + AppliedQty(ord, ev)
           /\ FilledOrder(ord, ev).status =
                IF \/ ev.type = "final_fill"
                   \/ ord.submitted > 0 /\ ord.filled + AppliedQty(ord, ev) >= ord.submitted
                THEN "filled" ELSE "partially_filled"
<1>1. AppliedQty(ord, ev) \in Nat
  BY AppliedQtyBound
<1> DEFINE f == ord.filled + AppliedQty(ord, ev)
           st == IF ev.type = "final_fill" \/ (ord.submitted > 0 /\ f >= ord.submitted)
                 THEN "filled" ELSE "partially_filled"
<1>2. f \in Nat /\ st \in OrderStatus
  BY <1>1 DEF OrderLifecycle, OrderStatus
<1>3. FilledOrder(ord, ev) = [ord EXCEPT !.filled = f, !.avg = TRUE, !.status = st]
  BY DEF FilledOrder
<1>4. [ord EXCEPT !.filled = f, !.avg = TRUE, !.status = st] \in OrderLifecycle
  <2> HIDE DEF f, st
  <2> QED BY <1>2 DEF OrderLifecycle
<1>5. /\ FilledOrder(ord, ev).known = ord.known
      /\ FilledOrder(ord, ev).submitted = ord.submitted
      /\ FilledOrder(ord, ev).filled = f
      /\ FilledOrder(ord, ev).status = st
  <2> HIDE DEF f, st
  <2> QED BY <1>3 DEF OrderLifecycle
<1> QED BY <1>3, <1>4, <1>5

\* A correction keeps an order record.
LEMMA CorrectedOrderType ==
    ASSUME TypeOK, NEW ev \in LedgerEvent
    PROVE  /\ CorrectedOrder(ev) \in OrderLifecycle
           /\ ev.kind \notin {"order_status", "order_fill_qty"} =>
                CorrectedOrder(ev) = orders[ev.order]
           /\ CorrectedOrder(ev).known = orders[ev.order].known
<1>1. orders[ev.order] \in OrderLifecycle
  BY DEF TypeOK, LedgerEvent
<1>2. CASE ~orders[ev.order].known
  BY <1>1, <1>2 DEF CorrectedOrder
<1>3. CASE orders[ev.order].known /\ ev.kind = "order_status" /\ ev.status \in OrderStatus
  <2>1. CorrectedOrder(ev) = [orders[ev.order] EXCEPT !.status = ev.status]
    BY <1>3 DEF CorrectedOrder
  <2> QED BY <1>1, <1>3, <2>1 DEF OrderLifecycle
<1>4. CASE orders[ev.order].known /\ ev.kind = "order_fill_qty"
  <2>1. ev.qty \in Nat /\ ev.priced \in BOOLEAN
    BY DEF LedgerEvent
  <2>2. \E st \in OrderStatus, avg \in BOOLEAN :
           CorrectedOrder(ev) = [orders[ev.order] EXCEPT !.filled = ev.qty, !.avg = avg, !.status = st]
    <3>1. orders[ev.order].status \in OrderStatus /\ orders[ev.order].avg \in BOOLEAN
      BY <1>1 DEF OrderLifecycle
    <3>2. PICK st : st = IF orders[ev.order].submitted > 0 /\ ev.qty >= orders[ev.order].submitted THEN "filled"
                         ELSE IF ev.qty > 0 THEN "partially_filled" ELSE orders[ev.order].status
      OBVIOUS
    <3>3. st \in OrderStatus
      BY <3>1, <3>2 DEF OrderStatus
    <3>4. CorrectedOrder(ev) = [orders[ev.order] EXCEPT !.filled = ev.qty, !.avg = ev.priced \/ @, !.status = st]
      BY <1>1, <1>4, <3>2 DEF CorrectedOrder, OrderLifecycle
    <3> QED BY <2>1, <3>1, <3>3, <3>4
  <2> QED BY <1>1, <1>4, <2>1, <2>2 DEF OrderLifecycle
<1>5. CASE ev.kind \notin {"order_status", "order_fill_qty"}
  BY <1>1, <1>5 DEF CorrectedOrder
<1>6. CASE ev.kind = "order_status" /\ ev.status \notin OrderStatus
  BY <1>1, <1>6 DEF CorrectedOrder
<1> QED BY <1>2, <1>3, <1>4, <1>5, <1>6

\* Fees never touch anything but the fee total.
LEMMA WithOrderFeesType ==
    ASSUME NEW ord \in OrderLifecycle, NEW ev \in LedgerEvent
    PROVE  /\ WithOrderFees(ord, ev) \in OrderLifecycle
           /\ \A f \in {"known", "status", "submitted", "filled"} : WithOrderFees(ord, ev)[f] = ord[f]
BY DEF WithOrderFees, OrderLifecycle, LedgerEvent

\* The placeholder for a contract without a position is a position record.
LEMMA NoPositionType == NoPosition \in PositionState
BY DEF NoPosition, PositionState

\* What CapitalIsCounted says of the position of contract c, S being the
\* orders and contracts corrected so far.
Counted(pos, c, S) ==
    /\ pos.open <=> pos.qty # 0
    /\ pos.avg => pos.open
    /\ pos.open => pos.avg \/ c \in S

\* Two position records that differ at most in fees.
Same(p, q) == p.qty = q.qty /\ p.avg = q.avg /\ p.open = q.open

\* What CapitalIsCounted says carries over to a record that differs in fees.
LEMMA SameCounted ==
    ASSUME NEW p \in PositionState, NEW q \in PositionState, NEW c, NEW S, NEW T,
           Same(p, q), Counted(q, c, S), S \subseteq T
    PROVE  Counted(p, c, T)
<1>1. p.avg \in BOOLEAN /\ q.avg \in BOOLEAN /\ p.open \in BOOLEAN /\ q.open \in BOOLEAN
  BY DEF PositionState
<1> QED BY Zenon, <1>1 DEF Same, Counted

\* A fill keeps a position record, its cost basis, and its side of zero.
LEMMA FilledPositionType ==
    ASSUME NEW pos \in PositionState, NEW side \in Sides, NEW n \in Nat \ {0}, NEW c, NEW S
    PROVE  /\ FilledPosition(pos, side, n) \in PositionState
           /\ Counted(pos, c, S) => Counted(FilledPosition(pos, side, n), c, S)
           /\ pos.qty > 0 => FilledPosition(pos, side, n).qty >= 0
           /\ pos.qty < 0 => FilledPosition(pos, side, n).qty <= 0
<1> DEFINE close == Least(Abs(pos.qty), n)
           qty == IF ~Opposite(pos, side) THEN pos.qty + Signed(side, n)
                  ELSE IF pos.qty > 0 THEN pos.qty - close ELSE pos.qty + close
           res == FilledPosition(pos, side, n)
<1>1. /\ qty \in Int
      /\ pos.qty > 0 => qty >= 0
      /\ pos.qty < 0 => qty <= 0
      /\ Opposite(pos, side) => pos.qty # 0
  BY DEF PositionState, Opposite, Signed, Abs, Least, Sides
<1>2. res = [pos EXCEPT !.known = TRUE, !.qty = qty, !.open = qty # 0,
                !.avg = IF qty = 0 THEN FALSE ELSE IF Opposite(pos, side) THEN @ ELSE TRUE]
  BY DEF FilledPosition
<1> HIDE DEF qty, close
<1>3. res \in PositionState
  BY <1>1, <1>2 DEF PositionState
<1>4. res.qty = qty
  BY <1>1, <1>2 DEF PositionState
<1>5. res.open <=> qty # 0
  BY <1>1, <1>2 DEF PositionState
<1>6. res.avg <=> qty # 0 /\ (~Opposite(pos, side) \/ pos.avg)
  BY <1>1, <1>2 DEF PositionState
<1>7. ASSUME Counted(pos, c, S) PROVE Counted(res, c, S)
  BY <1>1, <1>4, <1>5, <1>6, <1>7 DEF Counted
<1> QED BY <1>1, <1>3, <1>4, <1>7

\* A quantity correction keeps a position record and clears the cost basis
\* of a flat one.
LEMMA CorrectedPositionType ==
    ASSUME NEW pos \in PositionState, NEW ev \in LedgerEvent, NEW c, NEW S, c \in S
    PROVE  /\ CorrectedPosition(pos, ev) \in PositionState
           /\ Counted(CorrectedPosition(pos, ev), c, S)
<1> DEFINE qty == IF ev.absolute THEN ev.target ELSE Signed(ev.side, ev.qty)
           res == CorrectedPosition(pos, ev)
<1>1. qty \in Int
  BY DEF Signed, LedgerEvent
<1>2. res = [pos EXCEPT !.known = TRUE, !.qty = qty, !.open = qty # 0,
                !.avg = qty # 0 /\ (ev.priced \/ @)]
  BY DEF CorrectedPosition
<1> HIDE DEF qty
<1>3. res \in PositionState
  BY <1>1, <1>2 DEF PositionState
<1>4. res.qty = qty
  BY <1>1, <1>2 DEF PositionState
<1>5. res.open <=> qty # 0
  BY <1>1, <1>2 DEF PositionState
<1>6. res.avg => qty # 0
  BY <1>1, <1>2 DEF PositionState
<1> QED BY <1>3, <1>4, <1>5, <1>6 DEF Counted

\* Fees never touch a position's quantity or cost basis.
LEMMA WithPositionFeesType ==
    ASSUME NEW pos \in PositionState, NEW ev \in LedgerEvent
    PROVE  /\ WithPositionFees(pos, ev) \in PositionState
           /\ Same(WithPositionFees(pos, ev), pos)
<1>1. pos.fees + ev.fees \in Nat
  BY DEF PositionState, LedgerEvent
<1>2. [pos EXCEPT !.known = TRUE, !.fees = @ + ev.fees] \in PositionState
  BY <1>1 DEF PositionState
<1>3. /\ [pos EXCEPT !.known = TRUE, !.fees = @ + ev.fees].qty = pos.qty
      /\ [pos EXCEPT !.known = TRUE, !.fees = @ + ev.fees].avg = pos.avg
      /\ [pos EXCEPT !.known = TRUE, !.fees = @ + ev.fees].open = pos.open
  BY DEF PositionState
<1>4. Same([pos EXCEPT !.known = TRUE, !.fees = @ + ev.fees], pos) /\ Same(pos, pos)
  BY <1>3 DEF Same
<1> QED BY <1>2, <1>4 DEF WithPositionFees

-----------------------------------------------------------------------------
(* The projector, every stream                                           *)

\* One applied event writes one order and one position, of known shape.
LEMMA UpdateType ==
    ASSUME TypeOK, NEW ev \in LedgerEvent, NEW ord \in OrderLifecycle,
           NEW pos \in PositionState, Update(ev, ord, pos)
    PROVE  /\ orders' \in [Orders -> OrderLifecycle]
           /\ positions' \in [Contracts -> PositionState]
           /\ positions' = [positions EXCEPT ![ev.contract] = WithPositionFees(pos, ev)]
           /\ orders' = [orders EXCEPT ![ev.order] = WithOrderFees(ord, ev)]
<1>1. WithOrderFees(ord, ev) \in OrderLifecycle
  BY WithOrderFeesType
<1>2. WithPositionFees(pos, ev) \in PositionState
  BY WithPositionFeesType
<1> QED BY <1>1, <1>2 DEF Update, TypeOK, LedgerEvent

\* What one event does to the position of its contract: nothing but fees, a
\* fill of n contracts, or a correction that is on record.
PositionStep(ev) ==
    \E pos \in PositionState :
        /\ positions' = [positions EXCEPT ![ev.contract] = pos]
        /\ \/ Same(pos, positions[ev.contract])
           \/ \E side \in Sides, n \in Nat \ {0} :
                Same(pos, FilledPosition(positions[ev.contract], side, n))
           \/ Counted(pos, ev.contract, corrected') /\ ev.contract \in corrected'

\* Every branch of _apply preserves the types and moves at most one position
\* in one of the three ways of PositionStep.
LEMMA ApplyStep ==
    ASSUME TypeOK, NEW ev \in LedgerEvent, Apply(ev)
    PROVE  /\ orders' \in [Orders -> OrderLifecycle]
           /\ positions' \in [Contracts -> PositionState]
           /\ corrected \subseteq corrected' /\ corrected' \subseteq Orders \cup Contracts
           /\ overclosed' \subseteq Contracts
           /\ PositionStep(ev)
<1> DEFINE p == positions[ev.contract]
           o == orders[ev.order]
           Goal == /\ orders' \in [Orders -> OrderLifecycle]
                   /\ positions' \in [Contracts -> PositionState]
                   /\ corrected \subseteq corrected' /\ corrected' \subseteq Orders \cup Contracts
                   /\ overclosed' \subseteq Contracts
                   /\ PositionStep(ev)
<1>1. /\ p \in PositionState /\ o \in OrderLifecycle
      /\ ev.order \in Orders /\ ev.contract \in Contracts /\ ev.side \in Sides
  BY DEF TypeOK, LedgerEvent
<1>0. WithPositionFees(p, ev) \in PositionState /\ Same(WithPositionFees(p, ev), p)
  BY <1>1, WithPositionFeesType
<1>2. ASSUME NEW ord \in OrderLifecycle, Update(ev, ord, p), UNCHANGED history PROVE Goal
  <2>1. positions' = [positions EXCEPT ![ev.contract] = WithPositionFees(p, ev)]
    BY <1>1, <1>2, UpdateType
  <2>2. PositionStep(ev)
    BY <1>0, <2>1 DEF PositionStep
  <2> QED BY <1>1, <1>2, <2>2, UpdateType DEF history, TypeOK
<1>3. CASE ApplyRequested(ev)
  BY <1>2, <1>3, RequestedType DEF ApplyRequested
<1>4. CASE ApplyAccepted(ev)
  BY <1>2, <1>4, AcceptedType DEF ApplyAccepted
<1>5. CASE ApplyUnusableFill(ev)
  <2>1. positions' = [positions EXCEPT ![ev.contract] = p]
    BY <1>5, <1>1 DEF ApplyUnusableFill, TypeOK
  <2> QED BY <1>1, <1>5, <2>1 DEF ApplyUnusableFill, PositionStep, TypeOK, history
<1>6. CASE ApplyFill(ev)
  <2> DEFINE ord == WithBroker(EnsureOrder(ev), ev)
             n == AppliedQty(ord, ev)
  <2>1. ord \in OrderLifecycle /\ n \in Nat
    BY EnsureOrderType, WithBrokerType, AppliedQtyBound
  <2>2. corrected \subseteq corrected' /\ corrected' \subseteq Orders \cup Contracts
          /\ overclosed' \subseteq Contracts
    BY <1>1, <1>6 DEF ApplyFill, TypeOK
  <2>3. CASE n = 0
    <3>1. Update(ev, ord, p)
      BY <1>6, <2>3 DEF ApplyFill
    <3> HIDE DEF ord, n
    <3>2. positions' = [positions EXCEPT ![ev.contract] = WithPositionFees(p, ev)]
      BY <1>1, <2>1, <3>1, UpdateType
    <3>3. PositionStep(ev)
      BY <1>0, <3>2 DEF PositionStep
    <3> QED BY <1>1, <2>1, <2>2, <3>1, <3>3, UpdateType
  <2>4. CASE n # 0
    <3> DEFINE fp == FilledPosition(p, ev.side, n)
               fo == FilledOrder(ord, ev)
    <3>1. Update(ev, fo, fp)
      BY <1>6, <2>4 DEF ApplyFill
    <3>2. fo \in OrderLifecycle /\ fp \in PositionState
      BY <1>1, <2>1, <2>4, FilledOrderType, FilledPositionType
    <3> HIDE DEF fo, ord, n
    <3>3. WithPositionFees(fp, ev) \in PositionState /\ Same(WithPositionFees(fp, ev), fp)
      BY <3>2, WithPositionFeesType
    <3>4. positions' = [positions EXCEPT ![ev.contract] = WithPositionFees(fp, ev)]
      BY <3>1, <3>2, UpdateType
    <3>5. PositionStep(ev)
      BY <1>1, <2>1, <2>4, <3>3, <3>4 DEF PositionStep
    <3> HIDE DEF fp
    <3> QED BY <1>1, <2>2, <3>1, <3>2, <3>5, UpdateType
  <2> QED BY <2>3, <2>4
<1>7. CASE ApplyCancellation(ev)
  <2>1. MoveUnless(EnsureOrder(ev), {"filled", "rejected"}, "cancelled") \in OrderLifecycle
    BY EnsureOrderType, MoveUnlessType DEF OrderStatus
  <2> QED BY <1>2, <1>7, <2>1 DEF ApplyCancellation
<1>8. CASE ApplyRejection(ev)
  <2>1. MoveUnless(EnsureOrder(ev), {"filled", "cancelled"}, "rejected") \in OrderLifecycle
    BY EnsureOrderType, MoveUnlessType DEF OrderStatus
  <2> QED BY <1>2, <1>8, <2>1 DEF ApplyRejection
<1>9. CASE ApplyFee(ev)
  BY <1>1, <1>2, <1>9 DEF ApplyFee
<1>10. CASE ApplyPositionEvent(ev)
  <2>1. positions' = [positions EXCEPT ![ev.contract] = WithPositionFees(p, ev)]
    BY <1>10 DEF ApplyPositionEvent
  <2>2. PositionStep(ev)
    BY <1>0, <2>1 DEF PositionStep
  <2> QED BY <1>0, <1>1, <1>10, <2>1, <2>2 DEF ApplyPositionEvent, TypeOK, history
<1>11. CASE ApplyCorrection(ev)
  <2> DEFINE q == IF ev.kind = "position_quantity" THEN CorrectedPosition(p, ev) ELSE p
             r == WithPositionFees(q, ev)
  <2>1. q \in PositionState 
    BY <1>1, CorrectedPositionType
  <2>2. CorrectedOrder(ev) \in OrderLifecycle
    BY CorrectedOrderType
  <2>3. Update(ev, CorrectedOrder(ev), q)
    BY <1>11 DEF ApplyCorrection
  <2>4. /\ corrected \subseteq corrected' /\ corrected' \subseteq Orders \cup Contracts
        /\ overclosed' \subseteq Contracts
        /\ ev.kind = "position_quantity" => ev.contract \in corrected'
    BY <1>1, <1>11 DEF ApplyCorrection, TypeOK
  <2>5. ev.kind # "position_quantity" => q = p
    OBVIOUS
  <2> HIDE DEF q
  <2>6. r \in PositionState /\ Same(r, q)
    BY <2>1, WithPositionFeesType
  <2>7. positions' = [positions EXCEPT ![ev.contract] = r]
    BY <2>1, <2>2, <2>3, UpdateType
  <2> HIDE DEF r
  <2>8. PositionStep(ev)
    <3>1. CASE ev.kind = "position_quantity"
      <4>1. Counted(q, ev.contract, corrected')
        BY <1>1, <2>4, <3>1, CorrectedPositionType DEF q
      <4>2. Counted(r, ev.contract, corrected')
        BY <2>1, <2>6, <4>1, SameCounted
      <4> QED BY <2>4, <2>6, <2>7, <3>1, <4>2 DEF PositionStep
    <3>2. CASE ev.kind # "position_quantity"
      BY <2>5, <2>6, <2>7, <3>2 DEF PositionStep
    <3> QED BY <3>1, <3>2
  <2> QED BY <2>1, <2>2, <2>3, <2>4, <2>8, UpdateType
<1> QED BY <1>3, <1>4, <1>5, <1>6, <1>7, <1>8, <1>9, <1>10, <1>11 DEF Apply

\* The inductive invariant of the unrestricted specification.
PositionInv == TypeOK /\ CapitalIsCounted

\* A projection step keeps PositionInv and never carries an uncorrected
\* position across zero.
LEMMA PositionInvStep ==
    ASSUME PositionInv, [Next]_vars
    PROVE  /\ PositionInv'
           /\ \A c \in Contracts :
                (positions[c].qty > 0 /\ positions'[c].qty < 0)
                    \/ (positions[c].qty < 0 /\ positions'[c].qty > 0)
                => c \in corrected'
<1>1. CASE UNCHANGED vars
  BY <1>1 DEF PositionInv, TypeOK, CapitalIsCounted, vars, PositionState
<1>2. ASSUME NEW ev \in Stream, Project(ev)
      PROVE  /\ PositionInv'
             /\ \A c \in Contracts :
                  (positions[c].qty > 0 /\ positions'[c].qty < 0)
                      \/ (positions[c].qty < 0 /\ positions'[c].qty > 0)
                  => c \in corrected'
  <2>1. ev \in LedgerEvent /\ TypeOK /\ Apply(ev)
    BY <1>2, StreamAssumption DEF PositionInv, Project
  <2>2. /\ orders' \in [Orders -> OrderLifecycle]
        /\ positions' \in [Contracts -> PositionState]
        /\ corrected \subseteq corrected' /\ corrected' \subseteq Orders \cup Contracts
        /\ overclosed' \subseteq Contracts
        /\ PositionStep(ev)
    BY <2>1, ApplyStep
  <2>3. TypeOK'
    BY <1>2, <2>1, <2>2 DEF TypeOK, Project, LedgerEvent
  <2>4. ASSUME NEW c \in Contracts
        PROVE  /\ Counted(positions'[c], c, corrected')
               /\ positions[c].qty > 0 /\ positions'[c].qty < 0 => c \in corrected'
               /\ positions[c].qty < 0 /\ positions'[c].qty > 0 => c \in corrected'
    <3> DEFINE was == positions[c]
               now == positions'[c]
    <3>1. was \in PositionState /\ Counted(was, c, corrected) /\ corrected \subseteq corrected'
      BY <2>1, <2>2 DEF PositionInv, CapitalIsCounted, TypeOK, Counted
    <3>2. CASE c # ev.contract
      <4>1. now = was
        BY <2>1, <2>2, <3>2 DEF PositionStep, TypeOK
      <4> QED BY <3>1, <4>1 DEF Counted, PositionState
    <3>3. CASE c = ev.contract
      <4>1. PICK pos \in PositionState :
              /\ positions' = [positions EXCEPT ![ev.contract] = pos]
              /\ \/ Same(pos, was)
                 \/ \E side \in Sides, n \in Nat \ {0} : Same(pos, FilledPosition(was, side, n))
                 \/ Counted(pos, ev.contract, corrected') /\ ev.contract \in corrected'
        BY <2>2, <3>3 DEF PositionStep
      <4>2. now = pos
        BY <2>1, <3>3, <4>1 DEF TypeOK
      <4>3. CASE Same(pos, was)
        <5>1. Counted(pos, c, corrected')
          BY <3>1, <4>3, SameCounted
        <5> QED BY <3>1, <4>2, <4>3, <5>1 DEF Same, PositionState
      <4>4. CASE \E side \in Sides, n \in Nat \ {0} : Same(pos, FilledPosition(was, side, n))
        <5>1. PICK side \in Sides, n \in Nat \ {0} : Same(pos, FilledPosition(was, side, n))
          BY <4>4
        <5> DEFINE fp == FilledPosition(was, side, n)
        <5>2. /\ Counted(was, c, corrected) => Counted(fp, c, corrected)
              /\ was.qty > 0 => fp.qty >= 0
              /\ was.qty < 0 => fp.qty <= 0
              /\ fp \in PositionState
          BY <3>1, FilledPositionType
        <5>3. Counted(fp, c, corrected)
          BY <3>1, <5>2
        <5>4. Same(pos, fp)
          BY <5>1
        <5> HIDE DEF fp
        <5>5. Counted(pos, c, corrected')
          BY <3>1, <5>2, <5>3, <5>4, SameCounted
        <5> QED BY <3>1, <4>2, <5>2, <5>4, <5>5 DEF PositionState, Same
      <4>5. CASE Counted(pos, ev.contract, corrected') /\ ev.contract \in corrected'
        BY <3>3, <4>2, <4>5 DEF Counted
      <4> QED BY <4>1, <4>3, <4>4, <4>5
    <3> QED BY <3>2, <3>3
  <2>5. CapitalIsCounted'
    BY <2>4 DEF CapitalIsCounted, Counted
  <2> QED BY <2>3, <2>4, <2>5 DEF PositionInv
<1> QED BY <1>1, <1>2 DEF Next, SkipDuplicate

\* The empty dicts the loop starts from satisfy the invariant.
LEMMA PositionInvInit == Init => PositionInv
BY NoOrderType, NoPositionType DEF Init, PositionInv, TypeOK, CapitalIsCounted, NoPosition

\* Type correctness of the projector's locals for every stream of events.
THEOREM ProjectorTypeCorrect == Spec => []TypeOK
<1>1. Init => PositionInv
  BY PositionInvInit
<1>2. PositionInv /\ [Next]_vars => PositionInv'
  BY PositionInvStep
<1>3. PositionInv => TypeOK
  BY DEF PositionInv
<1> QED BY <1>1, <1>2, <1>3, PTL DEF Spec

\* Open positions and cost basis agree for every stream of events.
THEOREM CapitalAlwaysCounted == Spec => []CapitalIsCounted
<1>1. Init => PositionInv
  BY PositionInvInit
<1>2. PositionInv /\ [Next]_vars => PositionInv'
  BY PositionInvStep
<1>3. PositionInv => CapitalIsCounted
  BY DEF PositionInv
<1> QED BY <1>1, <1>2, <1>3, PTL DEF Spec

\* No fill ever turns a long position short or back, for every stream.
THEOREM PositionsNeverFlip == Spec => NeverFlips
<1> DEFINE A == \A c \in Contracts :
                (positions[c].qty > 0 /\ positions'[c].qty < 0)
                    \/ (positions[c].qty < 0 /\ positions'[c].qty > 0)
                => c \in corrected'
<1>1. Init => PositionInv
  BY PositionInvInit
<1>2. PositionInv /\ [Next]_vars => PositionInv'
  BY PositionInvStep
<1>3. PositionInv /\ [Next]_vars => [A]_vars
  BY PositionInvStep
<1>4. NeverFlips <=> [][A]_vars
  BY DEF NeverFlips
<1> QED BY <1>1, <1>2, <1>3, <1>4, PTL DEF Spec

-----------------------------------------------------------------------------
(* Positions and fills                                                   *)

\* What the orders of a table have filled, with its sign, and the orders of
\* a contract in it.
Fills(t) == [o \in Orders |-> Signed(t[o].side, t[o].filled)]
OrdersOf(t, c) == {o \in Orders : t[o].known /\ t[o].contract = c}
Net(t, c) == SumOf(Fills(t), OrdersOf(t, c))

LEMMA NetFilledIsNet ==
    ASSUME NEW c PROVE NetFilled(c) = Net(orders, c) /\ NetFilled(c)' = Net(orders', c)
BY ZenonT(120) DEF NetFilled, Net, Fills, OrdersOf, SumOf, MapThenSumSet, MapThenFoldSet

LEMMA SignedInt == ASSUME NEW s, NEW n \in Int PROVE Signed(s, n) \in Int
BY DEF Signed

LEMMA SignedZero == ASSUME NEW s PROVE Signed(s, 0) = 0
<1>1. Signed(s, 0) = 0 \/ Signed(s, 0) = -0
  BY DEF Signed
<1> QED BY <1>1

LEMMA SignedSum == ASSUME NEW s, NEW m \in Int, NEW n \in Int PROVE Signed(s, m + n) = Signed(s, m) + Signed(s, n)
BY DEF Signed

LEMMA FillsInt ==
    ASSUME NEW t \in [Orders -> OrderLifecycle], NEW c
    PROVE  /\ \A o \in Orders : Fills(t)[o] = Signed(t[o].side, t[o].filled) /\ Fills(t)[o] \in Int
           /\ OrdersOf(t, c) \subseteq Orders /\ IsFiniteSet(OrdersOf(t, c))
           /\ Net(t, c) \in Int
<1>1. \A o \in Orders : t[o].filled \in Int
  BY DEF OrderLifecycle
<1>2. \A o \in Orders : Fills(t)[o] = Signed(t[o].side, t[o].filled)
  BY DEF Fills
<1>3. \A o \in Orders : Fills(t)[o] \in Int
  BY <1>1, <1>2, SignedInt
<1>4. OrdersOf(t, c) \subseteq Orders
  BY DEF OrdersOf
<1>5. IsFiniteSet(OrdersOf(t, c))
  BY <1>4, OrderAssumption, FS_Subset
<1>6. Net(t, c) \in Int
  BY <1>3, <1>4, <1>5, SumInt DEF Net
<1> QED BY <1>2, <1>3, <1>4, <1>5, <1>6

\* A step that keeps which orders a contract has and what they have filled
\* keeps the net.
LEMMA NetSame ==
    ASSUME NEW t \in [Orders -> OrderLifecycle], NEW u \in [Orders -> OrderLifecycle], NEW c,
           OrdersOf(u, c) = OrdersOf(t, c),
           \A o \in OrdersOf(t, c) : u[o].side = t[o].side /\ u[o].filled = t[o].filled
    PROVE  Net(u, c) = Net(t, c)
<1>1. \A o \in OrdersOf(t, c) : o \in Orders
  BY DEF OrdersOf
<1>2. \A o \in OrdersOf(t, c) : Fills(u)[o] = Fills(t)[o]
  <2>1. \A o \in OrdersOf(t, c) : Signed(u[o].side, u[o].filled) = Signed(t[o].side, t[o].filled)
    BY Zenon
  <2> QED BY <1>1, <2>1, FillsInt
<1> QED BY <1>2, FillsInt, SumSame DEF Net

\* The table t becomes u: order o of contract c fills n more, from zero if it
\* was not known.
Grown(t, u, o, c, n) ==
    /\ t \in [Orders -> OrderLifecycle] /\ u \in [Orders -> OrderLifecycle]
    /\ o \in Orders /\ n \in Nat /\ \A p \in Orders \ {o} : u[p] = t[p]
    /\ u[o].contract = c /\ u[o].known
    /\ t[o].known => u[o].filled = t[o].filled + n
    /\ ~t[o].known => u[o].filled = n
    /\ t[o].known => t[o].contract = c /\ t[o].side = u[o].side

\* The net of the contract grows by the signed quantity.
LEMMA NetGrows ==
    ASSUME NEW t, NEW u, NEW o, NEW c, NEW n, Grown(t, u, o, c, n)
    PROVE  Net(u, c) = Net(t, c) + Signed(u[o].side, n)
<1>0. PICK ord \in OrderLifecycle : ord = u[o]
  BY DEF Grown
<1>1. PICK A, B : A = OrdersOf(t, c) /\ B = OrdersOf(u, c)
  OBVIOUS
<1>2. /\ t \in [Orders -> OrderLifecycle] /\ u \in [Orders -> OrderLifecycle] /\ u[o] = ord
      /\ \A p \in Orders \ {o} : u[p] = t[p]
      /\ o \in Orders /\ n \in Nat /\ ord.contract = c /\ ord.known
      /\ t[o].known => ord.filled = t[o].filled + n /\ t[o].contract = c /\ t[o].side = ord.side
      /\ ~t[o].known => ord.filled = n
  BY <1>0 DEF Grown
<1>3. /\ \A p \in Orders : Fills(u)[p] \in Int /\ Fills(t)[p] \in Int
      /\ \A p \in Orders \ {o} : Fills(u)[p] = Fills(t)[p]
      /\ Fills(u)[o] = Signed(ord.side, ord.filled)
      /\ Fills(t)[o] = Signed(t[o].side, t[o].filled)
  BY <1>2, FillsInt
<1>4. A \subseteq Orders /\ IsFiniteSet(A) /\ Net(t, c) \in Int /\ Net(t, c) = SumOf(Fills(t), A)
        /\ Net(u, c) = SumOf(Fills(u), B)
  BY <1>1, <1>2, FillsInt DEF Net
<1>5. Signed(ord.side, n) \in Int
  BY <1>2, SignedInt
<1>6. CASE t[o].known
  <2>1. o \in A /\ B = A
    BY <1>1, <1>2, <1>6 DEF OrdersOf
  <2>2. SumOf(Fills(u), A) = SumOf(Fills(t), A) + Fills(u)[o] - Fills(t)[o]
    <3>1. PICK f, h : f = Fills(t) /\ h = Fills(u)
      OBVIOUS
    <3>2. /\ \A y \in A : f[y] \in Int /\ h[y] \in Int
          /\ \A y \in A \ {o} : f[y] = h[y]
      BY <1>3, <1>4, <3>1
    <3>3. SumOf(h, A) = SumOf(f, A) + h[o] - f[o]
      BY <1>4, <2>1, <3>2, SumChange
    <3> QED BY <3>1, <3>3
  <2>3. t[o].filled \in Int /\ ord.filled = t[o].filled + n /\ t[o].side = ord.side
    BY <1>2, <1>6 DEF OrderLifecycle
  <2>4. Fills(u)[o] = Fills(t)[o] + Signed(ord.side, n)
    <3>1. PICK s \in Sides, m \in Int : s = ord.side /\ m = t[o].filled
      BY <1>0, <2>3 DEF OrderLifecycle
    <3>2. Fills(u)[o] = Signed(s, m + n) /\ Fills(t)[o] = Signed(s, m)
      BY <1>3, <2>3, <3>1
    <3>3. Signed(s, m + n) = Signed(s, m) + Signed(s, n)
      <4>1. n \in Int
        BY <1>2
      <4> QED BY <4>1, SignedSum
    <3> QED BY <3>1, <3>2, <3>3
  <2>5. PICK a \in Int, b \in Int, d \in Int : a = Net(t, c) /\ b = Fills(t)[o] /\ d = Signed(ord.side, n)
    BY <1>2, <1>3, <1>4, <1>5
  <2>6. Net(u, c) = a + (b + d) - b
    BY <1>4, <2>1, <2>2, <2>4, <2>5
  <2>7. Net(u, c) = a + d
    BY <2>5, <2>6
  <2> QED BY <1>0, <2>5, <2>7
<1>7. CASE ~t[o].known
  <2>1. o \notin A /\ B = A \cup {o}
    BY <1>1, <1>2, <1>7 DEF OrdersOf
  <2>2. \A p \in A : Fills(u)[p] = Fills(t)[p]
    BY <1>3, <1>4, <2>1
  <2>3. SumOf(Fills(u), A) = SumOf(Fills(t), A)
    BY <1>4, <2>2, SumSame, Zenon
  <2>4. SumOf(Fills(u), A \cup {o}) = Fills(u)[o] + SumOf(Fills(u), A)
    <3>1. \A y \in A \cup {o} : Fills(u)[y] \in Int
      BY <1>2, <1>3, <1>4
    <3> QED BY <1>4, <2>1, <3>1, SumAdd
  <2>5. ord.filled = n
    BY <1>2, <1>7
  <2>6. PICK a \in Int, d \in Int : a = Net(t, c) /\ d = Signed(ord.side, n)
    BY <1>4, <1>5
  <2>7. Net(u, c) = d + a
    BY <1>3, <1>4, <2>1, <2>3, <2>4, <2>5, <2>6
  <2> QED BY <1>0, <2>6, <2>7
<1> QED BY <1>6, <1>7

\* What one event does to its order and to the position of its contract.
\* Either neither moves except by a correction that is on record, or an event
\* that names the order's contract and side fills n more of the order and
\* moves the position by as much, unless it closes more than is open.
Quiet(ev, ord, pos) ==
    /\ ord.known = orders[ev.order].known
    /\ ord.contract = orders[ev.order].contract /\ ord.side = orders[ev.order].side
    /\ ev.order \in corrected' \/ ord.filled = orders[ev.order].filled
    /\ ev.contract \in corrected' \/ pos.qty = positions[ev.contract].qty

FillsMore(ev, ord, pos, n) ==
    /\ ev.type \in OrderTypes /\ ord.known
    /\ ord.contract = ev.contract /\ ord.side = ev.side
    /\ ord.filled = (IF orders[ev.order].known THEN orders[ev.order].filled ELSE 0) + n
    /\ ev.contract \in overclosed' \/ pos.qty = positions[ev.contract].qty + Signed(ev.side, n)

NetStep(ev) ==
    /\ corrected \subseteq corrected' /\ overclosed \subseteq overclosed'
    /\ \E ord \in OrderLifecycle, pos \in PositionState :
        /\ orders' = [orders EXCEPT ![ev.order] = ord]
        /\ positions' = [positions EXCEPT ![ev.contract] = pos]
        /\ Quiet(ev, ord, pos) \/ \E n \in Nat : FillsMore(ev, ord, pos, n)

\* A known order has the contract and the side its events carry.
Linked ==
    \A ev \in Stream :
        ev.type \in OrderTypes /\ orders[ev.order].known
            => orders[ev.order].contract = ev.contract /\ orders[ev.order].side = ev.side

\* What writes an order record keeps its contract and side.
LEMMA KeepsTerms ==
    ASSUME NEW ord \in OrderLifecycle, NEW ev \in LedgerEvent, NEW T, NEW s \in OrderStatus
    PROVE  \A f \in {"contract", "side"} :
              /\ WithBroker(ord, ev)[f] = ord[f]
              /\ MoveUnless(ord, T, s)[f] = ord[f]
              /\ WithOrderFees(ord, ev)[f] = ord[f]
              /\ FilledOrder(ord, ev)[f] = ord[f]
BY DEF WithBroker, MoveUnless, WithOrderFees, FilledOrder, OrderLifecycle, LedgerEvent

\* _ensure_order yields the order of the event, with nothing filled if it is new.
LEMMA EnsureOrderTerms ==
    ASSUME TypeOK, Linked, NEW ev \in Stream, ev.type \in OrderTypes
    PROVE  /\ EnsureOrder(ev).contract = ev.contract /\ EnsureOrder(ev).side = ev.side
           /\ EnsureOrder(ev).filled = IF orders[ev.order].known THEN orders[ev.order].filled ELSE 0
BY DEF EnsureOrder, NewOrder, Linked

\* A branch that writes an order record of the event without filling it.
LEMMA WrittenStep ==
    ASSUME TypeOK, NEW ev \in Stream, ev.type \in OrderTypes, NEW ord \in OrderLifecycle,
           ord.known, ord.contract = ev.contract, ord.side = ev.side,
           ord.filled = (IF orders[ev.order].known THEN orders[ev.order].filled ELSE 0),
           Update(ev, ord, positions[ev.contract]),
           corrected \subseteq corrected', overclosed \subseteq overclosed'
    PROVE  NetStep(ev)
<1>1. ev \in LedgerEvent /\ positions[ev.contract] \in PositionState
  BY StreamAssumption DEF TypeOK, LedgerEvent
<1>2. PICK r, p : r = WithOrderFees(ord, ev) /\ p = WithPositionFees(positions[ev.contract], ev)
  OBVIOUS
<1>3. /\ r \in OrderLifecycle /\ r.known = ord.known /\ r.filled = ord.filled
      /\ p \in PositionState /\ p.qty = positions[ev.contract].qty
  BY <1>1, <1>2, WithOrderFeesType, WithPositionFeesType DEF Same
<1>4. r.contract = ord.contract /\ r.side = ord.side
  BY <1>1, <1>2, KeepsTerms DEF OrderStatus
<1>5. orders' = [orders EXCEPT ![ev.order] = r] /\ positions' = [positions EXCEPT ![ev.contract] = p]
  BY <1>2 DEF Update
<1>6. FillsMore(ev, r, p, 0)
  <2>1. p.qty = positions[ev.contract].qty + Signed(ev.side, 0)
    BY <1>1, <1>3, SignedZero DEF PositionState
  <2>2. r.filled = (IF orders[ev.order].known THEN orders[ev.order].filled ELSE 0) + 0
    BY <1>3 DEF OrderLifecycle
  <2> QED BY <1>3, <1>4, <2>1, <2>2 DEF FillsMore
<1> QED BY <1>3, <1>5, <1>6 DEF NetStep

LEMMA RequestedStep ==
    ASSUME TypeOK, Linked, NEW ev \in Stream, ApplyRequested(ev)
    PROVE  NetStep(ev)
<1>1. ev \in LedgerEvent /\ ev.type \in OrderTypes /\ orders[ev.order] \in OrderLifecycle
  BY StreamAssumption DEF ApplyRequested, OrderTypes, TypeOK, LedgerEvent
<1>2. Requested(ev) \in OrderLifecycle
  BY <1>1, RequestedType
<1>3. /\ Requested(ev).known /\ Requested(ev).contract = ev.contract /\ Requested(ev).side = ev.side
      /\ Requested(ev).filled = IF orders[ev.order].known THEN orders[ev.order].filled ELSE 0
  <2>1. CASE ~orders[ev.order].known
    BY <2>1 DEF Requested, NewOrder
  <2>2. CASE orders[ev.order].known
    <3>1. PICK b : b = WithBroker(orders[ev.order], ev)
      OBVIOUS
    <3>2. b \in OrderLifecycle /\ b.known /\ b.filled = orders[ev.order].filled
      BY <1>1, <2>2, <3>1, WithBrokerType
    <3>3. PICK m : m = [b EXCEPT !.submitted = ev.qty, !.side = ev.side, !.contract = ev.contract]
      OBVIOUS
    <3>4. /\ m \in OrderLifecycle /\ m.known /\ m.filled = b.filled
          /\ m.side = ev.side /\ m.contract = ev.contract
      BY <1>1, <3>2, <3>3 DEF OrderLifecycle, LedgerEvent
    <3>5. Requested(ev) = MoveUnless(m, {"filled", "cancelled", "rejected"}, "submitted")
      BY <2>2, <3>1, <3>3 DEF Requested
    <3>6. "submitted" \in OrderStatus
      BY DEF OrderStatus
    <3>7. Requested(ev).known = m.known /\ Requested(ev).filled = m.filled
      <4>1. PICK r, T : r = MoveUnless(m, T, "submitted") /\ r = Requested(ev)
        BY <3>5
      <4>2. m \in OrderLifecycle
        BY <3>4
      <4> QED BY <3>6, <4>1, <4>2, MoveUnlessType
    <3>8. Requested(ev).contract = m.contract /\ Requested(ev).side = m.side
      <4>1. PICK r, T : r = MoveUnless(m, T, "submitted") /\ r = Requested(ev)
        BY <3>5
      <4> QED BY <1>1, <3>4, <3>6, <4>1, KeepsTerms
    <3> QED BY <2>2, <3>2, <3>4, <3>7, <3>8
  <2> QED BY <2>1, <2>2
<1> QED BY <1>1, <1>2, <1>3, WrittenStep DEF ApplyRequested, history

LEMMA AcceptedStep ==
    ASSUME TypeOK, Linked, NEW ev \in Stream, ApplyAccepted(ev)
    PROVE  NetStep(ev)
<1>1. ev \in LedgerEvent /\ ev.type \in OrderTypes
  BY StreamAssumption DEF ApplyAccepted, OrderTypes
<1>2. PICK e, b : e = EnsureOrder(ev) /\ b = WithBroker(e, ev)
  OBVIOUS
<1>3. /\ e \in OrderLifecycle /\ e.known /\ e.contract = ev.contract /\ e.side = ev.side
      /\ e.filled = IF orders[ev.order].known THEN orders[ev.order].filled ELSE 0
  BY <1>1, <1>2, EnsureOrderType, EnsureOrderTerms
<1>4. b \in OrderLifecycle /\ b.contract = e.contract /\ b.side = e.side
  BY <1>1, <1>2, <1>3, WithBrokerType, KeepsTerms DEF OrderStatus
<1>5. PICK m : m = [b EXCEPT !.submitted = IF @ = 0 THEN ev.qty ELSE @]
  OBVIOUS
<1>6. m \in OrderLifecycle /\ m.contract = b.contract /\ m.side = b.side
  BY <1>1, <1>4, <1>5 DEF OrderLifecycle, LedgerEvent
<1>7. Accepted(ev) = MoveUnless(m, {"filled", "cancelled", "rejected", "partially_filled"}, "accepted")
  BY <1>2, <1>5 DEF Accepted
<1>8. Accepted(ev).contract = m.contract /\ Accepted(ev).side = m.side
  <2>1. "accepted" \in OrderStatus
    BY DEF OrderStatus
  <2> QED BY <1>1, <1>6, <1>7, <2>1, KeepsTerms
<1>9. Accepted(ev) \in OrderLifecycle /\ Accepted(ev).known /\ Accepted(ev).filled = e.filled
  BY <1>1, <1>2, AcceptedType
<1> QED BY <1>1, <1>3, <1>4, <1>6, <1>8, <1>9, WrittenStep DEF ApplyAccepted, history

\* A cancellation or a rejection moves the status alone.
LEMMA EndedStep ==
    ASSUME TypeOK, Linked, NEW ev \in Stream, ApplyCancellation(ev) \/ ApplyRejection(ev)
    PROVE  NetStep(ev)
<1>1. ev \in LedgerEvent /\ ev.type \in OrderTypes
  BY StreamAssumption DEF ApplyCancellation, ApplyRejection, OrderTypes
<1>2. PICK T \in SUBSET OrderStatus, s \in OrderStatus : Update(ev, MoveUnless(EnsureOrder(ev), T, s), positions[ev.contract])
  <2>1. {"filled", "rejected"} \in SUBSET OrderStatus /\ {"filled", "cancelled"} \in SUBSET OrderStatus
          /\ "cancelled" \in OrderStatus /\ "rejected" \in OrderStatus
    BY DEF OrderStatus
  <2>2. \E T \in SUBSET OrderStatus, s \in OrderStatus :
            Update(ev, MoveUnless(EnsureOrder(ev), T, s), positions[ev.contract])
    BY <2>1, Zenon DEF ApplyCancellation, ApplyRejection
  <2> QED BY <2>2
<1>3. PICK e, m : e = EnsureOrder(ev) /\ m = MoveUnless(e, T, s)
  OBVIOUS
<1>4. /\ e \in OrderLifecycle /\ e.known /\ e.contract = ev.contract /\ e.side = ev.side
      /\ e.filled = IF orders[ev.order].known THEN orders[ev.order].filled ELSE 0
  BY <1>1, <1>3, EnsureOrderType, EnsureOrderTerms
<1>5. m \in OrderLifecycle /\ m.known = e.known /\ m.filled = e.filled
  <2>1. e \in OrderLifecycle /\ s \in OrderStatus
    BY <1>2, <1>4
  <2>2. \A f \in {"known", "submitted", "filled"} : MoveUnless(e, T, s)[f] = e[f]
    BY <2>1, MoveUnlessType
  <2>3. MoveUnless(e, T, s) \in OrderLifecycle
    BY <2>1, MoveUnlessType
  <2> QED BY <1>3, <2>2, <2>3
<1>6. m.contract = e.contract /\ m.side = e.side
  BY <1>1, <1>3, <1>4, KeepsTerms
<1>7. UNCHANGED history
  BY DEF ApplyCancellation, ApplyRejection
<1> QED BY <1>1, <1>2, <1>3, <1>4, <1>5, <1>6, <1>7, WrittenStep DEF history

\* Away from an overclose, a fill moves the position by its signed quantity.
LEMMA FilledPositionMoves ==
    ASSUME NEW pos \in PositionState, NEW side \in Sides, NEW n \in Nat \ {0},
           ~(Opposite(pos, side) /\ n > Abs(pos.qty))
    PROVE  FilledPosition(pos, side, n).qty = pos.qty + Signed(side, n)
<1> DEFINE close == Least(Abs(pos.qty), n)
           qty == IF ~Opposite(pos, side) THEN pos.qty + Signed(side, n)
                  ELSE IF pos.qty > 0 THEN pos.qty - close ELSE pos.qty + close
<1>1. qty = pos.qty + Signed(side, n)
  BY DEF PositionState, Opposite, Signed, Abs, Least, Sides
<1>2. FilledPosition(pos, side, n) = [pos EXCEPT !.known = TRUE, !.qty = qty, !.open = qty # 0,
                !.avg = IF qty = 0 THEN FALSE ELSE IF Opposite(pos, side) THEN @ ELSE TRUE]
  BY DEF FilledPosition
<1> HIDE DEF qty, close
<1>3. FilledPosition(pos, side, n).qty = qty
  BY <1>2 DEF PositionState
<1> QED BY <1>1, <1>3

LEMMA FillStep ==
    ASSUME TypeOK, Linked, NEW ev \in Stream, ApplyFill(ev)
    PROVE  NetStep(ev)
<1>1. /\ ev \in LedgerEvent /\ ev.type \in OrderTypes /\ ev.side \in Sides
      /\ positions[ev.contract] \in PositionState
  BY StreamAssumption DEF ApplyFill, OrderTypes, TypeOK, LedgerEvent
<1>2. PICK e, ord, n, p : /\ e = EnsureOrder(ev) /\ ord = WithBroker(e, ev)
                          /\ n = AppliedQty(ord, ev) /\ p = positions[ev.contract]
  OBVIOUS
<1>3. /\ e \in OrderLifecycle /\ e.known /\ e.contract = ev.contract /\ e.side = ev.side
      /\ e.filled = IF orders[ev.order].known THEN orders[ev.order].filled ELSE 0
  BY <1>1, <1>2, EnsureOrderType, EnsureOrderTerms
<1>4. /\ ord \in OrderLifecycle /\ ord.known = e.known /\ ord.filled = e.filled
  BY <1>1, <1>2, <1>3, WithBrokerType
<1>5. ord.contract = e.contract /\ ord.side = e.side
  BY <1>1, <1>2, <1>3, KeepsTerms DEF OrderStatus
<1>6. n \in Nat
  BY <1>1, <1>2, <1>4, AppliedQtyBound
<1>7. corrected \subseteq corrected' /\ overclosed \subseteq overclosed'
  BY DEF ApplyFill
<1>8. CASE n = 0
  <2>1. Update(ev, ord, p)
    BY <1>2, <1>8 DEF ApplyFill
  <2> QED BY <1>1, <1>2, <1>3, <1>4, <1>5, <1>7, <2>1, WrittenStep
<1>9. CASE n # 0
  <2>1. PICK fo, fp : fo = FilledOrder(ord, ev) /\ fp = FilledPosition(p, ev.side, n)
    OBVIOUS
  <2>2. Update(ev, fo, fp)
    BY <1>2, <1>9, <2>1 DEF ApplyFill
  <2>3. fo \in OrderLifecycle /\ fo.known = ord.known /\ fo.filled = ord.filled + n
    BY <1>1, <1>2, <1>4, <2>1, FilledOrderType
  <2>4. fo.contract = ord.contract /\ fo.side = ord.side
    BY <1>1, <1>4, <2>1, KeepsTerms DEF OrderStatus
  <2>5. fp \in PositionState
    BY <1>1, <1>2, <1>6, <1>9, <2>1, FilledPositionType
  <2>6. PICK r, q : r = WithOrderFees(fo, ev) /\ q = WithPositionFees(fp, ev)
    OBVIOUS
  <2>7. /\ r \in OrderLifecycle /\ r.known = fo.known /\ r.filled = fo.filled
        /\ q \in PositionState /\ q.qty = fp.qty
    BY <1>1, <2>3, <2>5, <2>6, WithOrderFeesType, WithPositionFeesType DEF Same
  <2>8. r.contract = fo.contract /\ r.side = fo.side
    BY <1>1, <2>3, <2>6, KeepsTerms DEF OrderStatus
  <2>9. orders' = [orders EXCEPT ![ev.order] = r] /\ positions' = [positions EXCEPT ![ev.contract] = q]
    BY <2>2, <2>6 DEF Update
  <2>10. ev.contract \in overclosed' \/ q.qty = p.qty + Signed(ev.side, n)
    <3>1. Opposite(p, ev.side) /\ n > Abs(p.qty) => ev.contract \in overclosed'
      BY <1>2 DEF ApplyFill
    <3>2. ~(Opposite(p, ev.side) /\ n > Abs(p.qty)) => fp.qty = p.qty + Signed(ev.side, n)
      BY <1>1, <1>2, <1>6, <1>9, <2>1, FilledPositionMoves
    <3> QED BY <2>7, <3>1, <3>2
  <2>11. FillsMore(ev, r, q, n)
    BY <1>1, <1>2, <1>3, <1>4, <1>5, <2>3, <2>4, <2>7, <2>8, <2>10 DEF FillsMore
  <2> QED BY <1>6, <1>7, <2>7, <2>9, <2>11 DEF NetStep
<1> QED BY <1>8, <1>9

\* A correction, a fee, a position event and an unusable fill write no fill.
LEMMA QuietStep ==
    ASSUME TypeOK, NEW ev \in Stream,
           ApplyUnusableFill(ev) \/ ApplyFee(ev) \/ ApplyPositionEvent(ev) \/ ApplyCorrection(ev)
    PROVE  NetStep(ev)
<1>1. PICK o, p : o = orders[ev.order] /\ p = positions[ev.contract]
  OBVIOUS
<1>2. ev \in LedgerEvent /\ o \in OrderLifecycle /\ p \in PositionState
  BY <1>1, StreamAssumption DEF TypeOK, LedgerEvent
<1>3. PICK f : f = WithPositionFees(p, ev)
  OBVIOUS
<1>4. f \in PositionState /\ f.qty = p.qty
  BY <1>2, <1>3, WithPositionFeesType DEF Same
<1>5. orders = [orders EXCEPT ![ev.order] = o] /\ positions = [positions EXCEPT ![ev.contract] = p]
  BY <1>1 DEF TypeOK
<1>6. CASE ApplyUnusableFill(ev)
  <2>1. Quiet(ev, o, p)
    BY <1>1, <1>2 DEF Quiet, OrderLifecycle, PositionState
  <2> QED BY <1>2, <1>5, <1>6, <2>1 DEF ApplyUnusableFill, NetStep, history
<1>7. CASE ApplyPositionEvent(ev)
  <2>1. Quiet(ev, o, f)
    BY <1>1, <1>2, <1>4 DEF Quiet, OrderLifecycle, PositionState
  <2> QED BY <1>1, <1>2, <1>3, <1>4, <1>5, <1>7, <2>1 DEF ApplyPositionEvent, NetStep, history
<1>8. ASSUME NEW ord \in OrderLifecycle, NEW pos \in PositionState, Update(ev, ord, pos),
             corrected \subseteq corrected', overclosed \subseteq overclosed',
             Quiet(ev, ord, pos)
      PROVE  NetStep(ev)
  <2>1. PICK r, q : r = WithOrderFees(ord, ev) /\ q = WithPositionFees(pos, ev)
    OBVIOUS
  <2>2. /\ r \in OrderLifecycle /\ r.known = ord.known /\ r.filled = ord.filled
        /\ q \in PositionState /\ q.qty = pos.qty
    BY <1>2, <2>1, WithOrderFeesType, WithPositionFeesType DEF Same
  <2>3. r.contract = ord.contract /\ r.side = ord.side
    BY <1>2, <2>1, KeepsTerms DEF OrderStatus
  <2>4. orders' = [orders EXCEPT ![ev.order] = r] /\ positions' = [positions EXCEPT ![ev.contract] = q]
    BY <1>8, <2>1 DEF Update
  <2>5. Quiet(ev, r, q)
    BY <1>8, <2>2, <2>3 DEF Quiet
  <2> QED BY <1>8, <2>2, <2>4, <2>5 DEF NetStep
<1>9. CASE ApplyFee(ev)
  <2>1. Quiet(ev, o, p)
    BY <1>1, <1>2 DEF Quiet, OrderLifecycle, PositionState
  <2> QED BY <1>1, <1>2, <1>8, <1>9, <2>1 DEF ApplyFee, history
<1>10. CASE ApplyCorrection(ev)
  <2>1. PICK ord, pos : /\ ord = CorrectedOrder(ev)
                        /\ pos = IF ev.kind = "position_quantity" THEN CorrectedPosition(p, ev) ELSE p
    OBVIOUS
  <2>2. Update(ev, ord, pos) /\ corrected \subseteq corrected' /\ overclosed \subseteq overclosed'
    BY <1>1, <1>10, <2>1 DEF ApplyCorrection
  <2>3. ord \in OrderLifecycle /\ ord.known = o.known
    BY <1>1, <1>2, <2>1, CorrectedOrderType
  <2>4. ord.contract = o.contract /\ ord.side = o.side
    BY <1>1, <1>2, <2>1 DEF CorrectedOrder, OrderLifecycle, LedgerEvent
  <2>5. ev.order \in corrected' \/ ord.filled = o.filled
    <3>1. CASE ev.kind \in {"none", "position_quantity"}
      BY <1>1, <1>2, <2>1, <3>1, CorrectedOrderType
    <3>2. CASE ev.kind \notin {"none", "position_quantity"}
      BY <1>10, <3>2 DEF ApplyCorrection
    <3> QED BY <3>1, <3>2
  <2>6. pos \in PositionState
    BY <1>2, <2>1, CorrectedPositionType
  <2>7. ev.contract \in corrected' \/ pos.qty = p.qty
    BY <1>10, <2>1 DEF ApplyCorrection
  <2>8. Quiet(ev, ord, pos)
    BY <1>1, <2>3, <2>4, <2>5, <2>7 DEF Quiet
  <2> QED BY <1>8, <2>2, <2>3, <2>6, <2>8
<1> QED BY <1>6, <1>7, <1>9, <1>10

\* With no known order of contract c corrected, and c neither corrected nor
\* overclosed, the position is the net of the fills.  Unlike
\* PositionIsNetOfFills this leaves out the orders that are not known: the
\* placeholder of an order has a contract too, and loses it at its first event.
Netted(c) ==
    /\ \A o \in Orders : orders[o].known /\ orders[o].contract = c => o \notin corrected
    /\ c \notin corrected /\ c \notin overclosed
    => positions[c].qty = Net(orders, c)

\* The inductive invariant: what links an order to its contract goes with it,
\* since a fill is booked on the event's contract and the order's own.
NetInv == PositionInv /\ Linked /\ \A c \in Contracts : Netted(c)

LEMMA LinkedStep ==
    ASSUME TypeOK, Linked, NEW ev \in Stream, NetStep(ev)
    PROVE  Linked'
<1> SUFFICES ASSUME NEW b \in Stream, b.type \in OrderTypes, orders'[b.order].known
             PROVE  orders'[b.order].contract = b.contract /\ orders'[b.order].side = b.side
  BY DEF Linked
<1>1. ev.order \in Orders /\ b.order \in Orders
  BY StreamAssumption DEF LedgerEvent
<1>2. PICK ord \in OrderLifecycle, pos \in PositionState :
        /\ orders' = [orders EXCEPT ![ev.order] = ord]
        /\ Quiet(ev, ord, pos) \/ \E n \in Nat : FillsMore(ev, ord, pos, n)
  BY DEF NetStep
<1>3. CASE b.order # ev.order
  <2>1. orders'[b.order] = orders[b.order]
    BY <1>1, <1>2, <1>3 DEF TypeOK
  <2> QED BY <2>1 DEF Linked
<1>4. CASE b.order = ev.order
  <2>1. orders'[b.order] = ord
    BY <1>1, <1>2, <1>4 DEF TypeOK
  <2>2. CASE Quiet(ev, ord, pos)
    BY <1>4, <2>1, <2>2 DEF Quiet, Linked
  <2>3. CASE \E n \in Nat : FillsMore(ev, ord, pos, n)
    <3>1. ev.type \in OrderTypes /\ ord.contract = ev.contract /\ ord.side = ev.side
      BY <2>3 DEF FillsMore
    <3> QED BY <1>4, <2>1, <3>1, OrderAssumption
  <2> QED BY <1>2, <2>2, <2>3
<1> QED BY <1>3, <1>4

\* One event keeps the net of every contract.
LEMMA NettedStep ==
    ASSUME TypeOK, Linked, NEW ev \in Stream, NetStep(ev), orders' \in [Orders -> OrderLifecycle],
           NEW c \in Contracts, Netted(c)
    PROVE  Netted(c)'
<1> SUFFICES ASSUME \A o \in Orders : orders'[o].known /\ orders'[o].contract = c => o \notin corrected',
                    c \notin corrected', c \notin overclosed'
             PROVE  positions'[c].qty = Net(orders', c)
  BY DEF Netted
<1>1. ev.order \in Orders /\ ev.contract \in Contracts /\ orders \in [Orders -> OrderLifecycle]
        /\ positions \in [Contracts -> PositionState]
  BY StreamAssumption DEF LedgerEvent, TypeOK
<1>2. PICK ord \in OrderLifecycle, pos \in PositionState :
        /\ orders' = [orders EXCEPT ![ev.order] = ord]
        /\ positions' = [positions EXCEPT ![ev.contract] = pos]
        /\ Quiet(ev, ord, pos) \/ \E n \in Nat : FillsMore(ev, ord, pos, n)
  BY DEF NetStep
<1>3. /\ orders'[ev.order] = ord /\ \A o \in Orders \ {ev.order} : orders'[o] = orders[o]
      /\ c = ev.contract => positions'[c] = pos
      /\ c # ev.contract => positions'[c] = positions[c]
  BY <1>1, <1>2
<1>4. orders[ev.order].known => ord.known /\ ord.contract = orders[ev.order].contract /\ ord.side = orders[ev.order].side
  BY <1>2 DEF Quiet, FillsMore, Linked
<1>5. positions[c].qty = Net(orders, c)
  <2>1. corrected \subseteq corrected' /\ overclosed \subseteq overclosed'
    BY DEF NetStep
  <2>2. ASSUME NEW o \in Orders, orders[o].known, orders[o].contract = c PROVE o \notin corrected
    <3>1. orders'[o].known /\ orders'[o].contract = c
      BY <1>3, <1>4, <2>2
    <3> QED BY <2>1, <3>1
  <2> QED BY <2>1, <2>2 DEF Netted
<1>6. CASE ord.known /\ ord.contract = c
  <2>1. ev.order \notin corrected'
    BY <1>1, <1>3, <1>6
  <2>2. CASE Quiet(ev, ord, pos)
    <3>1. /\ ord.filled = orders[ev.order].filled /\ ord.side = orders[ev.order].side
          /\ orders[ev.order].contract = c /\ orders[ev.order].known
      BY <1>6, <2>1, <2>2 DEF Quiet
    <3>2. OrdersOf(orders', c) = OrdersOf(orders, c)
      BY <1>1, <1>3, <1>6, <3>1 DEF OrdersOf
    <3>3. \A o \in OrdersOf(orders, c) : orders'[o].side = orders[o].side /\ orders'[o].filled = orders[o].filled
      BY <1>1, <1>3, <3>1 DEF OrdersOf
    <3>4. Net(orders', c) = Net(orders, c)
      BY <1>1, <3>2, <3>3, NetSame
    <3>5. positions'[c].qty = positions[c].qty
      BY <1>3, <2>2 DEF Quiet
    <3> QED BY <1>5, <3>4, <3>5
  <2>3. CASE \E n \in Nat : FillsMore(ev, ord, pos, n)
    <3>1. PICK n \in Nat : FillsMore(ev, ord, pos, n)
      BY <2>3
    <3>2. /\ ord.contract = ev.contract /\ ord.side = ev.side
          /\ ord.filled = (IF orders[ev.order].known THEN orders[ev.order].filled ELSE 0) + n
          /\ pos.qty = positions[c].qty + Signed(ord.side, n)
      BY <1>6, <3>1 DEF FillsMore
    <3>3. orders[ev.order].known => orders[ev.order].contract = ord.contract /\ orders[ev.order].side = ord.side
      BY <1>4
    <3>4. Net(orders', c) = Net(orders, c) + Signed(ord.side, n)
      <4>1. orders'[ev.order] = ord /\ orders'[ev.order].side = ord.side
        BY <1>3
      <4>2. Grown(orders, orders', ev.order, c, n)
        BY <1>1, <1>3, <1>6, <3>1, <3>2, <3>3 DEF Grown
      <4>3. Net(orders', c) = Net(orders, c) + Signed(orders'[ev.order].side, n)
        BY <4>2, NetGrows
      <4> QED BY <4>1, <4>3
    <3>6. positions'[c].qty = pos.qty
      BY <1>3, <1>6, <3>2
    <3> QED BY <1>5, <3>2, <3>4, <3>6
  <2> QED BY <1>2, <2>2, <2>3
<1>7. CASE ~(ord.known /\ ord.contract = c)
  <2>1. ev.order \notin OrdersOf(orders', c)
    BY <1>3, <1>7 DEF OrdersOf
  <2>2. ev.order \notin OrdersOf(orders, c)
    BY <1>4, <1>7 DEF OrdersOf
  <2>3. OrdersOf(orders', c) = OrdersOf(orders, c)
    BY <1>3, <2>1, <2>2 DEF OrdersOf
  <2>4. \A o \in OrdersOf(orders, c) : orders'[o].side = orders[o].side /\ orders'[o].filled = orders[o].filled
    BY <1>3, <2>2 DEF OrdersOf
  <2>5. Net(orders', c) = Net(orders, c)
    BY <1>1, <2>3, <2>4, NetSame
  <2>6. positions'[c].qty = positions[c].qty
    BY <1>2, <1>3, <1>7 DEF Quiet, FillsMore
  <2> QED BY <1>5, <2>5, <2>6
<1> QED BY <1>6, <1>7

LEMMA NetInvStep == NetInv /\ [Next]_vars => NetInv'
<1> SUFFICES ASSUME NetInv, [Next]_vars PROVE NetInv'
  OBVIOUS
<1>1. PositionInv' /\ TypeOK /\ TypeOK' /\ Linked
  BY PositionInvStep DEF NetInv, PositionInv
<1>2. CASE UNCHANGED vars
  <2>1. orders' = orders /\ positions' = positions /\ corrected' = corrected /\ overclosed' = overclosed
    BY <1>2 DEF vars
  <2>2. Linked'
    BY <1>1, <2>1 DEF Linked
  <2>3. \A c \in Contracts : Netted(c)'
    BY <2>1 DEF NetInv, Netted
  <2> QED BY <1>1, <2>2, <2>3 DEF NetInv
<1>3. ASSUME NEW ev \in Stream, Project(ev) PROVE NetInv'
  <2>1. NetStep(ev)
    BY <1>1, <1>3, RequestedStep, AcceptedStep, EndedStep, FillStep, QuietStep DEF Project, Apply
  <2>2. Linked'
    BY <1>1, <2>1, LinkedStep
  <2>3. orders' \in [Orders -> OrderLifecycle]
    BY <1>1 DEF TypeOK
  <2>4. \A c \in Contracts : Netted(c)'
    BY <1>1, <2>1, <2>3, NettedStep DEF NetInv
  <2> QED BY <1>1, <2>2, <2>4 DEF NetInv
<1> QED BY <1>2, <1>3 DEF Next, SkipDuplicate

LEMMA NetInvInit == Init => NetInv
<1> SUFFICES ASSUME Init PROVE NetInv
  OBVIOUS
<1>1. \A o \in Orders : ~orders[o].known
  BY DEF Init, NoOrder
<1>2. Linked
  BY <1>1, StreamAssumption DEF Linked, LedgerEvent
<1>3. ASSUME NEW c \in Contracts PROVE Netted(c)
  <2>1. OrdersOf(orders, c) = {}
    BY <1>1 DEF OrdersOf
  <2>2. Net(orders, c) = 0
    BY <2>1, SumEmpty DEF Net
  <2>3. positions[c].qty = 0
    BY DEF Init, NoPosition
  <2> QED BY <2>2, <2>3 DEF Netted
<1> QED BY <1>2, <1>3, PositionInvInit DEF NetInv

LEMMA NetInvNets == NetInv => PositionIsNetOfFills
<1> SUFFICES ASSUME NetInv, NEW c \in Contracts,
                    \A o \in Orders : orders[o].contract = c => o \notin corrected,
                    c \notin corrected \cup overclosed
             PROVE  positions[c].qty = NetFilled(c)
  BY DEF PositionIsNetOfFills
<1>1. positions[c].qty = Net(orders, c)
  BY DEF NetInv, Netted
<1> QED BY <1>1, NetFilledIsNet

\* The position of a contract is the signed sum of what its orders have
\* filled, unless a correction or an overclosing fill is on record: the order
\* half and the position half of _apply_fill never drift apart, for every
\* stream of events in any order.
THEOREM PositionAlwaysNets == Spec => []PositionIsNetOfFills
<1>1. Init => NetInv
  BY NetInvInit
<1>2. NetInv /\ [Next]_vars => NetInv'
  BY NetInvStep
<1>3. NetInv => PositionIsNetOfFills
  BY NetInvNets
<1> QED BY <1>1, <1>2, <1>3, PTL DEF Spec

-----------------------------------------------------------------------------
(* Causal streams: the request of an order is its first event            *)

\* What holds of the record of order o, S being what was corrected so far: a
\* known order has a submitted quantity, so the clamp is always on; without a
\* correction its fills fit and agree with its status.
Sound(o, ord, S) ==
    /\ ~ord.known => ord.filled = 0 /\ ord.status = "submitted"
    /\ ord.known => ord.submitted > 0
    /\ ord.known /\ o \notin S =>
            /\ ord.filled <= ord.submitted
            /\ ord.status \in {"submitted", "accepted"} => ord.filled = 0
            /\ ord.status = "partially_filled" => ord.filled \in 1 .. (ord.submitted - 1)
            /\ ord.status = "filled" => ord.filled > 0

\* The request of every known order has been applied, and its key is used up.
RequestsSeen ==
    \A ev \in Stream :
        ev.type = "order_submission_requested" /\ orders[ev.order].known => ev.key \in seenKeys

\* The inductive invariant of the causal specification.
OrderInv ==
    /\ PositionInv
    /\ RequestsSeen
    /\ \A o \in Orders : Sound(o, orders[o], corrected)

\* The step form of FullyFilledIsFinal for the record of one order.
KeepsFilled(old, ord) ==
    old.status = "filled" /\ old.filled = old.submitted
        => ord.status = "filled" /\ ord.filled = old.filled

\* What _apply does to the order of an event in a causal stream.
OrderStep(ev) ==
    \E ord \in OrderLifecycle :
        /\ orders' = [orders EXCEPT ![ev.order] = ord]
        /\ Sound(ev.order, ord, corrected')
        /\ ev.order \notin corrected' => KeepsFilled(orders[ev.order], ord)
        /\ ord.known /\ ~orders[ev.order].known => ev.type = "order_submission_requested"

\* Fees do not disturb the soundness of an order record.
LEMMA FeesKeepOrder ==
    ASSUME TypeOK, NEW ev \in LedgerEvent, NEW ord \in OrderLifecycle, NEW pos, Update(ev, ord, pos),
           Sound(ev.order, ord, corrected'),
           ev.order \notin corrected' => KeepsFilled(orders[ev.order], ord),
           ord.known /\ ~orders[ev.order].known => ev.type = "order_submission_requested"
    PROVE  OrderStep(ev)
<1> DEFINE r == WithOrderFees(ord, ev)
<1>1. /\ r \in OrderLifecycle /\ r.known = ord.known /\ r.status = ord.status
      /\ r.submitted = ord.submitted /\ r.filled = ord.filled
  BY WithOrderFeesType
<1>2. orders' = [orders EXCEPT ![ev.order] = r]
  BY DEF Update
<1> HIDE DEF r
<1>3. Sound(ev.order, r, corrected')
  <2>1. r.known \in BOOLEAN /\ ord.known \in BOOLEAN
    BY <1>1 DEF OrderLifecycle
  <2> QED BY <1>1, <2>1 DEF Sound
<1>4. ev.order \notin corrected' => KeepsFilled(orders[ev.order], r)
  BY <1>1 DEF KeepsFilled
<1>5. r.known => ord.known
  BY <1>1
<1> QED BY <1>1, <1>2, <1>3, <1>4, <1>5 DEF OrderStep

\* An event that leaves the order alone is an OrderStep.
LEMMA IdleOrderStep ==
    ASSUME TypeOK, NEW ev \in LedgerEvent, Sound(ev.order, orders[ev.order], corrected),
           UNCHANGED orders, corrected \subseteq corrected'
    PROVE  OrderStep(ev)
<1>1. orders[ev.order] \in OrderLifecycle /\ orders' = [orders EXCEPT ![ev.order] = orders[ev.order]]
  BY DEF TypeOK, LedgerEvent
<1>2. Sound(ev.order, orders[ev.order], corrected')
  BY DEF Sound
<1> QED BY <1>1, <1>2 DEF OrderStep, KeepsFilled

\* Every branch of _apply treats its order soundly in a causal stream.
LEMMA CausalApply ==
    ASSUME OrderInv, NEW ev \in Stream, Causal(ev), ~Duplicate(ev), Apply(ev)
    PROVE  OrderStep(ev)
<1> DEFINE o == orders[ev.order]
<1>1. /\ ev \in LedgerEvent /\ TypeOK /\ o \in OrderLifecycle
      /\ ev.order \in Orders /\ ev.contract \in Contracts /\ ev.qty \in Nat
  BY StreamAssumption DEF OrderInv, PositionInv, TypeOK, LedgerEvent
<1>2. Sound(ev.order, o, corrected)
  BY <1>1 DEF OrderInv
<1>3. ev.type # "order_submission_requested" => o.known /\ EnsureOrder(ev) = o
  BY DEF Causal, EnsureOrder
<1>4. CASE ApplyRequested(ev)
  <2>1. ~o.known /\ ev.qty > 0
    BY <1>1, <1>4, RequestAssumption DEF OrderInv, RequestsSeen, Duplicate, ApplyRequested
  <2>2. Requested(ev) = NewOrder(ev, ev.qty)
    BY <2>1 DEF Requested
  <2>3. NewOrder(ev, ev.qty) \in OrderLifecycle
    BY <1>1, NewOrderType
  <2>4. Sound(ev.order, NewOrder(ev, ev.qty), corrected')
    BY <1>1, <2>1 DEF NewOrder, Sound
  <2>5. KeepsFilled(o, NewOrder(ev, ev.qty))
    BY <1>2, <2>1 DEF Sound, KeepsFilled
  <2>6. Update(ev, NewOrder(ev, ev.qty), positions[ev.contract])
    BY <1>4, <2>2 DEF ApplyRequested
  <2> QED BY <1>1, <1>4, <2>3, <2>4, <2>5, <2>6, FeesKeepOrder DEF ApplyRequested
<1>5. CASE ApplyAccepted(ev)
  <2> DEFINE a == Accepted(ev)
  <2>1. o.known /\ EnsureOrder(ev) = o
    BY <1>3, <1>5 DEF ApplyAccepted
  <2>2. /\ a \in OrderLifecycle /\ a.known /\ a.filled = o.filled
        /\ o.submitted # 0 => a.submitted = o.submitted
        /\ a.status = IF o.status \in {"filled", "cancelled", "rejected", "partially_filled"}
                      THEN o.status ELSE "accepted"
    BY <1>1, <2>1, AcceptedType
  <2>3. Update(ev, a, positions[ev.contract]) /\ corrected' = corrected
    BY <1>5 DEF ApplyAccepted, history
  <2> HIDE DEF a
  <2>4. Sound(ev.order, a, corrected') /\ KeepsFilled(o, a)
    BY <1>1, <1>2, <2>1, <2>2, <2>3 DEF Sound, KeepsFilled, OrderLifecycle, OrderStatus
  <2> QED BY <1>1, <2>1, <2>2, <2>3, <2>4, FeesKeepOrder
<1>6. CASE ApplyUnusableFill(ev)
  BY <1>1, <1>2, <1>6, IdleOrderStep DEF ApplyUnusableFill, history
<1>7. CASE ApplyFill(ev)
  <2> DEFINE ord == WithBroker(EnsureOrder(ev), ev)
             n == AppliedQty(ord, ev)
  <2>1. o.known /\ EnsureOrder(ev) = o
    BY <1>3, <1>7 DEF ApplyFill, FillTypes
  <2>2. /\ ord \in OrderLifecycle /\ ord.known = o.known /\ ord.status = o.status
        /\ ord.submitted = o.submitted /\ ord.filled = o.filled
    <3>1. ord = WithBroker(o, ev)
      BY <2>1
    <3> HIDE DEF ord, o
    <3> QED BY <1>1, <3>1, WithBrokerType
  <2>3. /\ n \in Nat
        /\ ~ev.overfill /\ o.submitted > 0 /\ o.filled <= o.submitted => o.filled + n <= o.submitted
    BY <1>1, <2>2, AppliedQtyBound
  <2>4. corrected \subseteq corrected' /\ (ev.overfill => ev.order \in corrected')
    BY <1>7 DEF ApplyFill
  <2>5. CASE n = 0
    <3>1. Update(ev, ord, positions[ev.contract])
      BY <1>7, <2>5 DEF ApplyFill
    <3> HIDE DEF ord, n
    <3>2. Sound(ev.order, ord, corrected') /\ KeepsFilled(o, ord)
      BY <1>2, <2>1, <2>2, <2>4 DEF Sound, KeepsFilled
    <3> QED BY <1>1, <2>1, <2>2, <3>1, <3>2, FeesKeepOrder
  <2>6. CASE n # 0
    <3> DEFINE fo == FilledOrder(ord, ev)
    <3>1. Update(ev, fo, FilledPosition(positions[ev.contract], ev.side, n))
      BY <1>7, <2>6 DEF ApplyFill
    <3>2. /\ fo \in OrderLifecycle /\ fo.known = ord.known
          /\ fo.submitted = o.submitted /\ fo.filled = o.filled + n
          /\ fo.status = IF ev.type = "final_fill" \/ (o.submitted > 0 /\ o.filled + n >= o.submitted)
                         THEN "filled" ELSE "partially_filled"
      BY <1>1, <2>2, FilledOrderType
    <3> HIDE DEF fo, ord, n
    <3>3. Sound(ev.order, fo, corrected')
      BY <1>1, <1>2, <2>1, <2>2, <2>3, <2>4, <2>6, <3>2 DEF Sound, OrderLifecycle
    <3>4. ev.order \notin corrected' => KeepsFilled(o, fo)
      BY <1>1, <1>2, <2>1, <2>3, <2>4, <2>6, <3>2 DEF Sound, KeepsFilled, OrderLifecycle
    <3> QED BY <1>1, <2>1, <3>1, <3>2, <3>3, <3>4, FeesKeepOrder
  <2> QED BY <2>5, <2>6
<1>8. ASSUME NEW T, NEW st \in {"cancelled", "rejected"}, "filled" \in T, o.known, UNCHANGED history,
             Update(ev, MoveUnless(o, T, st), positions[ev.contract])
      PROVE  OrderStep(ev)
  <2> DEFINE m == MoveUnless(o, T, st)
  <2>1. /\ m \in OrderLifecycle /\ m.known = o.known
        /\ m.submitted = o.submitted /\ m.filled = o.filled
        /\ m.status = IF o.status \in T THEN o.status ELSE st
    BY <1>1, MoveUnlessType DEF OrderStatus
  <2>2. Update(ev, m, positions[ev.contract]) /\ corrected' = corrected
    BY <1>8 DEF history
  <2> HIDE DEF m
  <2>3. Sound(ev.order, m, corrected') /\ KeepsFilled(o, m)
    BY <1>2, <1>8, <2>1, <2>2 DEF Sound, KeepsFilled
  <2> QED BY <1>1, <1>8, <2>1, <2>2, <2>3, FeesKeepOrder
<1>9. CASE ApplyCancellation(ev)
  BY <1>3, <1>8, <1>9 DEF ApplyCancellation
<1>10. CASE ApplyRejection(ev)
  BY <1>3, <1>8, <1>10 DEF ApplyRejection
<1>11. CASE ApplyFee(ev)
  <2>1. Sound(ev.order, o, corrected') /\ Update(ev, o, positions[ev.contract])
    BY <1>2, <1>11 DEF ApplyFee, history
  <2> QED BY <1>1, <2>1, FeesKeepOrder DEF KeepsFilled
<1>12. CASE ApplyPositionEvent(ev)
  BY <1>1, <1>2, <1>12, IdleOrderStep DEF ApplyPositionEvent, history
<1>13. CASE ApplyCorrection(ev)
  <2> DEFINE c == CorrectedOrder(ev)
  <2>1. c \in OrderLifecycle /\ c.known = o.known /\ o.known
          /\ (ev.kind \notin {"order_status", "order_fill_qty"} => c = o)
    BY <1>1, <1>3, <1>13, CorrectedOrderType DEF ApplyCorrection
  <2>2. c.submitted = o.submitted
    BY <1>1 DEF CorrectedOrder, OrderLifecycle
  <2>3. corrected \subseteq corrected'
          /\ (ev.kind \in {"order_status", "order_fill_qty"} => ev.order \in corrected')
    BY <1>13 DEF ApplyCorrection
  <2>4. PICK pos : Update(ev, c, pos)
    BY <1>13 DEF ApplyCorrection
  <2> HIDE DEF c
  <2>5. Sound(ev.order, c, corrected')
    BY <1>2, <2>1, <2>2, <2>3 DEF Sound
  <2>6. ev.order \notin corrected' => KeepsFilled(o, c)
    BY <2>1, <2>3 DEF KeepsFilled
  <2> QED BY <1>1, <2>1, <2>4, <2>5, <2>6, FeesKeepOrder
<1> QED BY <1>4, <1>5, <1>6, <1>7, <1>9, <1>10, <1>11, <1>12, <1>13 DEF Apply

\* A causal step keeps OrderInv and lets no complete order go.
LEMMA OrderInvStep ==
    ASSUME OrderInv, [CausalNext]_vars
    PROVE  /\ OrderInv'
           /\ \A o \in Orders : o \notin corrected' => KeepsFilled(orders[o], orders'[o])
<1>1. CASE UNCHANGED vars
  <2>1. PositionInv'
    BY <1>1, PositionInvStep DEF OrderInv
  <2> QED BY <1>1, <2>1 DEF OrderInv, RequestsSeen, vars, KeepsFilled
<1>2. ASSUME NEW ev \in Stream, Causal(ev), Project(ev)
      PROVE  /\ OrderInv'
             /\ \A o \in Orders : o \notin corrected' => KeepsFilled(orders[o], orders'[o])
  <2>1. PositionInv' /\ TypeOK
    BY <1>2, PositionInvStep DEF OrderInv, Next, PositionInv
  <2>2. OrderStep(ev)
    BY <1>2, CausalApply DEF Project
  <2>3. PICK ord \in OrderLifecycle :
          /\ orders' = [orders EXCEPT ![ev.order] = ord]
          /\ Sound(ev.order, ord, corrected')
          /\ ev.order \notin corrected' => KeepsFilled(orders[ev.order], ord)
          /\ ord.known /\ ~orders[ev.order].known => ev.type = "order_submission_requested"
    BY <2>2 DEF OrderStep
  <2>4. corrected \subseteq corrected'
    BY <1>2, <2>1, ApplyStep, StreamAssumption DEF Project
  <2>5. ASSUME NEW o \in Orders
        PROVE  Sound(o, orders'[o], corrected') /\ (o \notin corrected' => KeepsFilled(orders[o], orders'[o]))
    <3>1. CASE o = ev.order
      BY <2>1, <2>3, <3>1 DEF TypeOK
    <3>2. CASE o # ev.order
      <4>1. orders'[o] = orders[o]
        BY <2>1, <2>3, <3>2 DEF TypeOK
      <4>2. Sound(o, orders[o], corrected)
        BY DEF OrderInv
      <4>3. Sound(o, orders[o], corrected')
        BY <2>4, <4>2 DEF Sound
      <4> QED BY <4>1, <4>3 DEF KeepsFilled
    <3> QED BY <3>1, <3>2
  <2>6. RequestsSeen'
    <3> SUFFICES ASSUME NEW e \in Stream, e.type = "order_submission_requested",
                        orders'[e.order].known
                 PROVE  e.key \in seenKeys'
      BY DEF RequestsSeen
    <3>1. seenKeys' = seenKeys \cup {ev.key}
      BY <1>2 DEF Project
    <3>2. CASE orders[e.order].known
      BY <3>1, <3>2 DEF OrderInv, RequestsSeen
    <3>3. CASE ~orders[e.order].known
      <4>1. e.order = ev.order /\ ev.type = "order_submission_requested"
        BY <2>1, <2>3, <3>3, StreamAssumption DEF TypeOK, LedgerEvent
      <4> QED BY <3>1, <4>1, RequestAssumption
    <3> QED BY <3>2, <3>3
  <2> QED BY <2>1, <2>5, <2>6 DEF OrderInv
<1> QED BY <1>1, <1>2 DEF CausalNext, SkipDuplicate

\* With no order in the dict, every order record is sound.
LEMMA OrderInvInit == Init => OrderInv
<1> SUFFICES ASSUME Init PROVE OrderInv
  OBVIOUS
<1>1. PositionInv /\ \A o \in Orders : orders[o] = NoOrder
  BY PositionInvInit DEF Init
<1>2. ~NoOrder.known /\ NoOrder.filled = 0 /\ NoOrder.status = "submitted"
  BY DEF NoOrder
<1>3. \A ev \in Stream : ev.order \in Orders
  BY StreamAssumption DEF LedgerEvent
<1> QED BY <1>1, <1>2, <1>3 DEF OrderInv, RequestsSeen, Sound

\* The hard rule holds for every causal stream: no order is filled beyond its
\* submitted quantity without a correction.
THEOREM CausalNoOverfill == CausalSpec => []NoOverfill
<1>1. Init => OrderInv
  BY OrderInvInit
<1>2. OrderInv /\ [CausalNext]_vars => OrderInv'
  BY OrderInvStep
<1>3. OrderInv => NoOverfill
  BY DEF OrderInv, PositionInv, TypeOK, NoOverfill, Sound, OrderLifecycle
<1> QED BY <1>1, <1>2, <1>3, PTL DEF CausalSpec

\* Status and quantities of every order agree for every causal stream.
THEOREM CausalStatusMatchesFills == CausalSpec => []StatusMatchesFills
<1>1. Init => OrderInv
  BY OrderInvInit
<1>2. OrderInv /\ [CausalNext]_vars => OrderInv'
  BY OrderInvStep
<1>3. OrderInv => StatusMatchesFills
  BY DEF OrderInv, StatusMatchesFills, Sound
<1> QED BY <1>1, <1>2, <1>3, PTL DEF CausalSpec

\* A completely filled order stays filled in every causal stream.
THEOREM CausalFullyFilledIsFinal == CausalSpec => FullyFilledIsFinal
<1> DEFINE A == \A o \in Orders :
            /\ orders[o].status = "filled" /\ orders[o].filled = orders[o].submitted
            /\ o \notin corrected'
            => orders'[o].status = "filled" /\ orders'[o].filled = orders[o].filled
<1>1. Init => OrderInv
  BY OrderInvInit
<1>2. OrderInv /\ [CausalNext]_vars => OrderInv'
  BY OrderInvStep
<1>3. OrderInv /\ [CausalNext]_vars => [A]_vars
  BY OrderInvStep DEF KeepsFilled
<1>4. FullyFilledIsFinal <=> [][A]_vars
  BY DEF FullyFilledIsFinal
<1> QED BY <1>1, <1>2, <1>3, <1>4, PTL DEF CausalSpec

-----------------------------------------------------------------------------
(* The store                                                             *)
(*                                                                       *)
(* What append returned says nothing about the open transaction: the row *)
(* may still wait there, and any other call may discard it.  The invariant*)
(* says who answers for an open transaction (Owned), that a call which was*)
(* never overlapped is alone as long as it runs (Solo), and what such a  *)
(* call knows of its row at each of its awaits (Noted).                  *)

Holds(q, x) == \E i \in DOMAIN q : q[i] = x
Distinct(q) == \A i, j \in DOMAIN q : q[i] = q[j] => i = j

\* The operation of the call waits for the thread, or its result for the loop.
Queued(w) == Holds(queue, w)
Answered(w) == Holds(ready, w)

Types ==
    /\ StoreTypeOK
    /\ queue \in Seq(Writers) /\ ready \in Seq(Writers)

\* A call has requested at most one operation, which waits in one place.
OneTicket ==
    /\ Distinct(queue) /\ Distinct(ready)
    /\ \A w \in Writers : ~(Queued(w) /\ Answered(w))

\* A call that will end the open transaction: it has inserted, or it is about
\* to commit or roll back, or its commit has failed.
Owner(w) ==
    \/ pc[w] = "insert" /\ Answered(w) /\ outcome[w] = "ok"
    \/ pc[w] = "commit" /\ (Answered(w) => outcome[w] = "error")
    \/ pc[w] = "rollback" /\ ~Answered(w)

Owned == pending # {} => \E w \in Writers : Owner(w)

\* A call no other has overlapped is the only one under way.
Solo == \A w \in Active : w \in overlapped \/ Active = {w}

\* What the call w has found out: the row its SELECT returned is on disk, its
\* own row is in the transaction it commits, and on disk once that succeeded.
NotedBy(w) ==
    /\ pc[w] \in {"select", "reselect"} /\ Answered(w) => found[w] \in committed \cup {NoRow}
    /\ pc[w] \in {"fetch", "refetch"} => found[w] \in committed \cup {NoRow}
    /\ pc[w] = "insert" /\ Answered(w) /\ outcome[w] = "ok" => Row(w) \in Visible
    /\ pc[w] = "commit" /\ ~Answered(w) => Row(w) \in Visible
    /\ pc[w] = "commit" /\ Answered(w) /\ outcome[w] = "ok" => Row(w) \in committed

Noted == \A w \in Writers \ overlapped : NotedBy(w)

IInv ==
    /\ Types
    /\ OneTicket
    /\ Owned
    /\ Solo
    /\ Noted
    /\ SerialAppendIsDurable

-----------------------------------------------------------------------------
(* Queues of calls                                                       *)

\* An appended call is held, and the ones held before stay.
LEMMA AppendHolds ==
    ASSUME NEW S, NEW q \in Seq(S), NEW x \in S
    PROVE  /\ Append(q, x) \in Seq(S)
           /\ \A y : Holds(Append(q, x), y) <=> Holds(q, y) \/ y = x
           /\ Distinct(q) /\ ~Holds(q, x) => Distinct(Append(q, x))
<1>1. /\ Append(q, x) \in Seq(S)
      /\ DOMAIN q = 1 .. Len(q) /\ Len(q) \in Nat
      /\ DOMAIN Append(q, x) = 1 .. Len(q) + 1
      /\ Append(q, x)[Len(q) + 1] = x
      /\ \A i \in 1 .. Len(q) : Append(q, x)[i] = q[i]
  OBVIOUS
<1>2. ASSUME NEW y PROVE Holds(Append(q, x), y) <=> Holds(q, y) \/ y = x
  <2>1. Holds(Append(q, x), y) => Holds(q, y) \/ y = x
    <3> SUFFICES ASSUME NEW i \in 1 .. Len(q) + 1, Append(q, x)[i] = y, y # x
                 PROVE  Holds(q, y)
      BY <1>1 DEF Holds
    <3>1. i \in 1 .. Len(q)
      BY <1>1
    <3> QED BY <3>1, <1>1 DEF Holds
  <2>2. Holds(q, y) => Holds(Append(q, x), y)
    <3> SUFFICES ASSUME NEW i \in 1 .. Len(q), q[i] = y PROVE Holds(Append(q, x), y)
      BY <1>1 DEF Holds
    <3>1. i \in 1 .. Len(q) + 1
      BY <1>1
    <3> QED BY <3>1, <1>1 DEF Holds
  <2>3. Holds(Append(q, x), x)
    <3>1. Len(q) + 1 \in 1 .. Len(q) + 1
      BY <1>1
    <3> QED BY <3>1, <1>1 DEF Holds
  <2> QED BY <2>1, <2>2, <2>3
<1>3. ASSUME Distinct(q), ~Holds(q, x) PROVE Distinct(Append(q, x))
  <2> SUFFICES ASSUME NEW i \in 1 .. Len(q) + 1, NEW j \in 1 .. Len(q) + 1,
                      Append(q, x)[i] = Append(q, x)[j]
               PROVE  i = j
    BY <1>1 DEF Distinct
  <2>1. CASE i \in 1 .. Len(q) /\ j \in 1 .. Len(q)
    BY <2>1, <1>1, <1>3 DEF Distinct
  <2>2. CASE i = Len(q) + 1 /\ j = Len(q) + 1
    BY <2>2
  <2>3. CASE i \in 1 .. Len(q) /\ j = Len(q) + 1
    BY <2>3, <1>1, <1>3 DEF Holds
  <2>4. CASE i = Len(q) + 1 /\ j \in 1 .. Len(q)
    BY <2>4, <1>1, <1>3 DEF Holds
  <2> QED BY <2>1, <2>2, <2>3, <2>4, <1>1
<1> QED BY <1>1, <1>2, <1>3

\* Of a queue without repetition, all but the first stay held.
LEMMA TailHolds ==
    ASSUME NEW S, NEW q \in Seq(S), q # <<>>, Distinct(q)
    PROVE  /\ Tail(q) \in Seq(S) /\ Head(q) \in S
           /\ Holds(q, Head(q))
           /\ \A y : Holds(Tail(q), y) <=> Holds(q, y) /\ y # Head(q)
           /\ Distinct(Tail(q))
<1>1. /\ Tail(q) \in Seq(S)
      /\ Len(q) \in Nat \ {0} /\ DOMAIN q = 1 .. Len(q)
      /\ DOMAIN Tail(q) = 1 .. Len(q) - 1
      /\ Head(q) = q[1]
      /\ \A i \in 1 .. Len(q) - 1 : Tail(q)[i] = q[i + 1]
  OBVIOUS
<1>2. 1 \in DOMAIN q /\ Head(q) \in S
  BY <1>1
<1>3. ASSUME NEW y PROVE Holds(Tail(q), y) <=> Holds(q, y) /\ y # Head(q)
  <2>1. ASSUME NEW i \in 1 .. Len(q) - 1, Tail(q)[i] = y PROVE Holds(q, y) /\ y # Head(q)
    <3>1. i + 1 \in DOMAIN q /\ i + 1 # 1 /\ q[i + 1] = y
      BY <2>1, <1>1
    <3> QED BY <3>1, <1>1, <1>2 DEF Holds, Distinct
  <2>2. ASSUME NEW i \in DOMAIN q, q[i] = y, y # Head(q) PROVE Holds(Tail(q), y)
    <3>1. i # 1 /\ i - 1 \in 1 .. Len(q) - 1 /\ (i - 1) + 1 = i
      BY <2>2, <1>1
    <3>2. Tail(q)[i - 1] = y
      BY <3>1, <1>1, <2>2
    <3> QED BY <3>1, <3>2, <1>1 DEF Holds
  <2> QED BY <2>1, <2>2, <1>1 DEF Holds
<1>4. Distinct(Tail(q))
  <2> SUFFICES ASSUME NEW i \in 1 .. Len(q) - 1, NEW j \in 1 .. Len(q) - 1,
                      Tail(q)[i] = Tail(q)[j]
               PROVE  i = j
    BY <1>1 DEF Distinct
  <2>1. i + 1 \in DOMAIN q /\ j + 1 \in DOMAIN q /\ q[i + 1] = q[j + 1]
    BY <1>1
  <2> QED BY <2>1, <1>1 DEF Distinct
<1> QED BY <1>1, <1>2, <1>3, <1>4 DEF Holds

-----------------------------------------------------------------------------
(* The connection's thread                                               *)

\* A call with a ticket is under way.
LEMMA TicketIsActive ==
    ASSUME Types, NEW w, Queued(w) \/ Answered(w)
    PROVE  w \in Active
BY DEF Types, StoreTypeOK, Queued, Answered, Holds

\* The thread moves the first call from its queue to the event loop's.
LEMMA AnswerMoves ==
    ASSUME Types, OneTicket, queue # <<>>, NEW w, w = Head(queue), NEW how, Answer(w, how)
    PROVE  /\ w \in Active /\ w \in Writers /\ ~Answered(w)
           /\ queue' \in Seq(Writers) /\ ready' \in Seq(Writers)
           /\ \A i \in DOMAIN queue' : queue'[i] \in Active
           /\ \A i \in DOMAIN ready' : ready'[i] \in Active
           /\ \A v : Holds(ready', v) <=> Answered(v) \/ v = w
           /\ OneTicket'
           /\ pc' = pc /\ Active' = Active /\ overlapped' = overlapped /\ result' = result
           /\ outcome' = [outcome EXCEPT ![w] = how]
<1>1. queue \in Seq(Writers) /\ ready \in Seq(Writers) /\ Distinct(queue) /\ Distinct(ready)
  BY DEF Types, OneTicket
<1>2. queue' = Tail(queue) /\ ready' = Append(ready, w) /\ pc' = pc /\ result' = result
      /\ overlapped' = overlapped /\ outcome' = [outcome EXCEPT ![w] = how]
  BY DEF Answer
<1>3. /\ w \in Writers /\ Queued(w) /\ queue' \in Seq(Writers) /\ Distinct(queue')
      /\ \A v : Holds(queue', v) <=> Queued(v) /\ v # w
  BY <1>1, <1>2, TailHolds DEF Queued
<1>4. w \in Active /\ ~Answered(w)
  BY <1>3, TicketIsActive DEF OneTicket
<1>5. /\ ready' \in Seq(Writers) /\ Distinct(ready')
      /\ \A v : Holds(ready', v) <=> Answered(v) \/ v = w
  BY <1>1, <1>2, <1>3, <1>4, AppendHolds DEF Answered
<1>6. OneTicket'
  BY <1>3, <1>5 DEF OneTicket, Queued, Answered
<1>7. Active' = Active
  BY <1>2 DEF Active
<1>8. /\ \A v : Holds(queue', v) => v \in Active
      /\ \A v : Holds(ready', v) => v \in Active
  BY <1>3, <1>4, <1>5, TicketIsActive
<1> QED BY <1>2, <1>3, <1>4, <1>5, <1>6, <1>7, <1>8 DEF Holds

\* A row the open transaction holds has an owner under way, so a call that is
\* alone owns it.
LEMMA AloneOwns ==
    ASSUME Types, Owned, Solo, NEW w \in Active, w \notin overlapped, pending # {}
    PROVE  Owner(w)
<1>1. PICK v \in Writers : Owner(v)
  BY DEF Owned
<1>2. v \in Active
  BY <1>1 DEF Owner, Active, Ops
<1> QED BY <1>1, <1>2 DEF Solo

\* Only the call that is served learns something: the others that were never
\* overlapped are not under way.
LEMMA OthersNoted ==
    ASSUME Types, Solo, NEW w \in Active, NEW v \in Writers, v \notin overlapped, v # w,
           pc'[v] = pc[v]
    PROVE  NotedBy(v)'
<1>1. v \notin Active
  BY DEF Solo
<1>2. pc'[v] \notin Ops
  BY <1>1 DEF Active
<1> QED BY <1>2 DEF NotedBy, Ops

\* Every operation of the connection's thread keeps the invariant.
LEMMA ExecuteKeeps == ASSUME IInv, Execute PROVE IInv'
<1> PICK w : w = Head(queue)
  OBVIOUS
<1>0. PICK how \in {"ok", "integrity", "error"} :
        /\ queue # <<>> /\ Answer(w, how)
        /\ \/ /\ ExecuteSelect /\ how = "ok"
           \/ /\ ExecuteFetch /\ how = "ok"
           \/ /\ ExecuteInsert /\ how = IF Matching(w) = {} THEN "ok" ELSE "integrity"
           \/ /\ ExecuteFault /\ how = "error"
           \/ /\ ExecuteCommit /\ how = "ok"
           \/ /\ ExecuteRollback /\ how = outcome[w]
  <2>1. CASE ExecuteSelect
    BY <2>1 DEF ExecuteSelect
  <2>2. CASE ExecuteFetch
    BY <2>2 DEF ExecuteFetch
  <2>3. CASE ExecuteInsert
    BY <2>3 DEF ExecuteInsert
  <2>4. CASE ExecuteFault
    BY <2>4 DEF ExecuteFault
  <2>5. CASE ExecuteCommit
    BY <2>5 DEF ExecuteCommit
  <2>6. CASE ExecuteRollback
    <3>1. queue # <<>> /\ queue \in Seq(Writers) /\ outcome \in [Writers -> {"ok", "integrity", "error"}]
      BY <2>6 DEF ExecuteRollback, IInv, Types, StoreTypeOK
    <3>2. outcome[w] \in {"ok", "integrity", "error"}
      BY <3>1
    <3> QED BY <2>6, <3>2 DEF ExecuteRollback
  <2> QED BY <2>1, <2>2, <2>3, <2>4, <2>5, <2>6 DEF Execute
<1>1. /\ w \in Active /\ w \in Writers /\ ~Answered(w)
      /\ queue' \in Seq(Writers) /\ ready' \in Seq(Writers)
      /\ \A i \in DOMAIN queue' : queue'[i] \in Active
      /\ \A i \in DOMAIN ready' : ready'[i] \in Active
      /\ \A v : Holds(ready', v) <=> Answered(v) \/ v = w
      /\ OneTicket'
      /\ pc' = pc /\ Active' = Active /\ overlapped' = overlapped /\ result' = result
      /\ outcome' = [outcome EXCEPT ![w] = how]
  <2>1. Types /\ OneTicket
    BY DEF IInv
  <2> QED BY <2>1, <1>0, AnswerMoves
<1>2. outcome \in [Writers -> {"ok", "integrity", "error"}] /\ found \in [Writers -> Rows \cup {NoRow}]
      /\ committed \subseteq Rows /\ pending \subseteq Rows
  BY DEF IInv, Types, StoreTypeOK
<1>3. outcome'[w] = how /\ \A v \in Writers \ {w} : outcome'[v] = outcome[v]
  BY <1>1, <1>2
<1>4. found' = found \/ (ExecuteSelect /\ found' = [found EXCEPT ![w] = Lookup(w)])
  BY <1>0 DEF ExecuteSelect, ExecuteFetch, ExecuteInsert, ExecuteFault, ExecuteCommit, ExecuteRollback
<1>5. committed \subseteq committed' /\ committed' \subseteq Rows /\ pending' \subseteq Rows
  <2>1. Row(w) \in Rows
    BY <1>1 DEF Rows
  <2> QED BY <1>0, <1>2, <2>1 DEF ExecuteSelect, ExecuteFetch, ExecuteInsert, ExecuteFault, ExecuteCommit, ExecuteRollback
<1>6. Types'
  <2>1. Lookup(w) \in Rows \cup {NoRow}
    BY <1>2 DEF Lookup, Matching, Visible
  <2>2. found' \in [Writers -> Rows \cup {NoRow}]
    BY <1>2, <1>4, <2>1
  <2>3. outcome' \in [Writers -> {"ok", "integrity", "error"}]
    BY <1>1, <1>2
  <2>4. pc \in [Writers -> Ops \cup {"idle", "done"}] /\ result \in [Writers -> Results \cup {"none"}]
        /\ overlapped \subseteq Writers
    BY DEF IInv, Types, StoreTypeOK
  <2> QED BY <1>1, <1>5, <2>2, <2>3, <2>4 DEF Types, StoreTypeOK
<1>7. Solo'
  BY <1>1 DEF IInv, Solo
<1>8. SerialAppendIsDurable'
  BY <1>1, <1>5 DEF IInv, SerialAppendIsDurable, Row
<1>9. Owned'
  <2>1. CASE ExecuteInsert /\ how = "ok"
    <3>1. pc'[w] = "insert"
      BY <2>1, <1>1 DEF ExecuteInsert
    <3> QED BY <3>1, <2>1, <1>1, <1>3 DEF Owned, Owner, Answered
  <2>2. CASE ExecuteCommit \/ ExecuteRollback
    BY <2>2 DEF ExecuteCommit, ExecuteRollback, Owned
  <2>3. CASE ~(ExecuteInsert /\ how = "ok") /\ ~ExecuteCommit /\ ~ExecuteRollback
    <3>1. pending' = pending
      BY <1>0, <2>3 DEF ExecuteSelect, ExecuteFetch, ExecuteInsert, ExecuteFault
    <3> SUFFICES ASSUME pending # {} PROVE \E v \in Writers : Owner(v)'
      BY <3>1 DEF Owned
    <3>2. PICK v \in Writers : Owner(v)
      BY DEF IInv, Owned
    <3>3. CASE v # w
      BY <3>2, <3>3, <1>1, <1>3 DEF Owner, Answered
    <3>4. CASE v = w
      <4>1. pc[w] \in {"commit", "rollback"}
        BY <3>2, <3>4, <1>1 DEF Owner
      <4>2. ExecuteFault /\ how = "error" /\ pc[w] = "commit"
        BY <4>1, <1>0, <2>3 DEF ExecuteSelect, ExecuteFetch, ExecuteInsert, ExecuteFault
      <4> QED BY <4>2, <1>1, <1>3 DEF Owner, Answered
    <3> QED BY <3>3, <3>4
  <2> QED BY <2>1, <2>2, <2>3
<1>10. Noted'
  <2> SUFFICES ASSUME NEW v \in Writers, v \notin overlapped PROVE NotedBy(v)'
    BY <1>1 DEF Noted
  <2>1. CASE v # w
    BY <2>1, <1>1, OthersNoted DEF IInv
  <2>2. CASE v = w
    <3> w \notin overlapped
      BY <2>2
    <3>1. pending # {} => Owner(w)
      BY <1>1, AloneOwns DEF IInv
    <3>2. NotedBy(w)
      BY <1>1 DEF IInv, Noted
    <3>3. Row(w)' = Row(w)
      BY DEF Row
    <3>4. pc'[w] = pc[w] /\ Holds(ready', w)
      BY <1>1
    <3>5. CASE ExecuteSelect
      <4>1. pc[w] \in {"select", "reselect"} /\ found'[w] = Lookup(w) /\ committed' = committed
        BY <3>5, <1>1, <1>2 DEF ExecuteSelect
      <4>2. pending = {}
        BY <4>1, <3>1 DEF Owner
      <4>3. Lookup(w) \in committed \cup {NoRow}
        BY <4>2 DEF Lookup, Matching, Visible
      <4> QED BY <4>1, <4>3, <3>4, <2>2 DEF NotedBy
    <3>6. CASE ExecuteFetch
      BY <3>6, <3>2, <3>4, <2>2 DEF ExecuteFetch, NotedBy
    <3>7. CASE ExecuteInsert
      <4>1. pc'[w] = "insert" /\ outcome'[w] = how
        BY <3>7, <1>1, <1>3 DEF ExecuteInsert
      <4>2. how = "ok" => Row(w) \in pending'
        BY <3>7, <1>0, <3>4, <1>3 DEF ExecuteInsert, Answer, ExecuteSelect, ExecuteFetch, ExecuteFault, ExecuteCommit, ExecuteRollback
      <4> QED BY <4>1, <4>2, <3>3, <2>2 DEF NotedBy, Visible
    <3>8. CASE ExecuteFault
      <4>1. pc'[w] \in {"insert", "commit"} /\ outcome'[w] = "error"
        BY <3>8, <1>1, <1>2 DEF ExecuteFault, Answer
      <4> QED BY <4>1, <3>4, <2>2 DEF NotedBy, Answered
    <3>9. CASE ExecuteCommit
      <4>1. pc[w] = "commit" /\ committed' = committed \cup pending
        BY <3>9 DEF ExecuteCommit
      <4>2. Row(w) \in committed'
        BY <4>1, <3>2, <1>1 DEF NotedBy, Visible
      <4> QED BY <4>1, <4>2, <3>3, <3>4, <2>2 DEF NotedBy, Answered
    <3>10. CASE ExecuteRollback
      BY <3>10, <3>4, <2>2 DEF ExecuteRollback, NotedBy
    <3> QED BY <3>5, <3>6, <3>7, <3>8, <3>9, <3>10 DEF Execute
  <2> QED BY <2>1, <2>2
<1> QED BY <1>1, <1>6, <1>7, <1>8, <1>9, <1>10 DEF IInv

-----------------------------------------------------------------------------
(* The event loop                                                        *)

\* The loop takes the first answered call, which requests its next operation
\* or returns.
LEMMA ResumeMoves ==
    ASSUME Types, OneTicket, ready # <<>>, NEW w, w = Head(ready), ready' = Tail(ready),
           \/ \E op \in Ops : Request(w, op)
           \/ \E res \in Results : Return(w, res)
    PROVE  /\ w \in Active /\ w \in Writers /\ Answered(w)
           /\ queue' \in Seq(Writers) /\ ready' \in Seq(Writers)
           /\ \A i \in DOMAIN queue' : queue'[i] \in Active'
           /\ \A i \in DOMAIN ready' : ready'[i] \in Active'
           /\ \A v : Holds(ready', v) <=> Answered(v) /\ v # w
           /\ OneTicket'
           /\ pc' \in [Writers -> Ops \cup {"idle", "done"}]
           /\ \A v \in Writers \ {w} : pc'[v] = pc[v]
           /\ Active' \subseteq Active
<1>1. queue \in Seq(Writers) /\ ready \in Seq(Writers) /\ Distinct(queue) /\ Distinct(ready)
      /\ pc \in [Writers -> Ops \cup {"idle", "done"}]
  BY DEF Types, StoreTypeOK, OneTicket
<1>2. /\ w \in Writers /\ Answered(w) /\ ready' \in Seq(Writers) /\ Distinct(ready')
      /\ \A v : Holds(ready', v) <=> Answered(v) /\ v # w
  BY <1>1, TailHolds DEF Answered
<1>3. w \in Active /\ ~Queued(w)
  BY <1>2, TicketIsActive DEF OneTicket
<1>4. /\ pc' \in [Writers -> Ops \cup {"idle", "done"}]
      /\ \A v \in Writers \ {w} : pc'[v] = pc[v]
  BY <1>1, <1>2 DEF Request, Return
<1>5. Active' \subseteq Active
  BY <1>3, <1>4 DEF Active
<1>6. \A v \in Active : v # w => v \in Active'
  BY <1>4 DEF Active
<1>7. CASE \E op \in Ops : Request(w, op)
  <2>1. queue' = Append(queue, w) /\ w \in Active'
    BY <1>7, <1>1, <1>2 DEF Request, Active
  <2>2. /\ queue' \in Seq(Writers) /\ Distinct(queue')
        /\ \A v : Holds(queue', v) <=> Queued(v) \/ v = w
    BY <1>1, <1>2, <1>3, <2>1, AppendHolds DEF Queued
  <2>3. OneTicket'
    BY <1>2, <2>2 DEF OneTicket, Queued, Answered
  <2>4. /\ \A v : Holds(queue', v) => v \in Active'
        /\ \A v : Holds(ready', v) => v \in Active'
    BY <1>2, <1>6, <2>1, <2>2, TicketIsActive
  <2> QED BY <1>2, <1>3, <1>4, <1>5, <2>2, <2>3, <2>4 DEF Holds
<1>8. CASE \E res \in Results : Return(w, res)
  <2>1. queue' = queue
    BY <1>8 DEF Return
  <2>2. OneTicket'
    BY <1>1, <1>2, <2>1 DEF OneTicket, Queued, Answered
  <2>3. /\ \A v : Holds(queue', v) => v \in Active'
        /\ \A v : Holds(ready', v) => v \in Active'
    BY <1>2, <1>3, <1>6, <2>1, TicketIsActive DEF Queued
  <2> QED BY <1>1, <1>2, <1>3, <1>4, <1>5, <2>1, <2>2, <2>3 DEF Holds
<1> QED BY <1>7, <1>8

\* What the loop makes of an answer: the next operation or a return, by the
\* operation answered, its outcome and the row found.
Continues(w) ==
    \/ pc[w] = "select" /\ Request(w, "fetch") /\ UNCHANGED result
    \/ pc[w] = "reselect" /\ Request(w, "refetch") /\ UNCHANGED result
    \/ AfterFetch(w) \/ AfterInsert(w) \/ AfterCommit(w)
    \/ AfterRollback(w) \/ AfterRefetch(w)

\* Every resumption of append keeps the invariant.
LEMMA ResumeKeeps == ASSUME IInv, Resume PROVE IInv'
<1> PICK w : w = Head(ready)
  OBVIOUS
<1>0. /\ ready # <<>> /\ ready' = Tail(ready)
      /\ found' = found /\ outcome' = outcome /\ overlapped' = overlapped
      /\ committed' = committed /\ pending' = pending
      /\ Continues(w)
  BY DEF Resume, database, Continues
<1>1. \/ \E op \in Ops : Request(w, op) /\ result' = result
      \/ \E res \in Results : Return(w, res)
  BY <1>0 DEF Continues, AfterFetch, AfterInsert, AfterCommit, AfterRollback, AfterRefetch, Ops, Results
<1>2. /\ w \in Active /\ w \in Writers /\ Answered(w)
      /\ queue' \in Seq(Writers) /\ ready' \in Seq(Writers)
      /\ \A i \in DOMAIN queue' : queue'[i] \in Active'
      /\ \A i \in DOMAIN ready' : ready'[i] \in Active'
      /\ \A v : Holds(ready', v) <=> Answered(v) /\ v # w
      /\ OneTicket'
      /\ pc' \in [Writers -> Ops \cup {"idle", "done"}]
      /\ \A v \in Writers \ {w} : pc'[v] = pc[v]
      /\ Active' \subseteq Active
  <2>1. Types /\ OneTicket
    BY DEF IInv
  <2> QED BY <2>1, <1>0, <1>1, ResumeMoves
<1>3. pc \in [Writers -> Ops \cup {"idle", "done"}] /\ result \in [Writers -> Results \cup {"none"}]
  BY DEF IInv, Types, StoreTypeOK
<1>4. Types'
  <2>1. result' \in [Writers -> Results \cup {"none"}]
    BY <1>1, <1>3 DEF Return
  <2> QED BY <1>0, <1>2, <2>1 DEF IInv, Types, StoreTypeOK
<1>5. Solo'
  BY <1>0, <1>2 DEF IInv, Solo
<1>6. w \notin overlapped => NotedBy(w)
  BY <1>2 DEF IInv, Noted
<1>7. SerialAppendIsDurable'
  <2> SUFFICES ASSUME NEW v \in Writers, v \notin overlapped, result'[v] \in {"inserted", "replay"}
               PROVE  Row(v) \in committed
    BY <1>0 DEF SerialAppendIsDurable, Row
  <2>1. CASE result'[v] = result[v]
    BY <2>1 DEF IInv, SerialAppendIsDurable
  <2>2. CASE result'[v] # result[v]
    <3>1. v = w
      BY <2>2, <1>1, <1>2, <1>3 DEF Return
    <3>2. CASE AfterFetch(w) \/ AfterRefetch(w)
      <4>1. pc[w] \in {"fetch", "refetch"} /\ result'[w] = "replay" => Equivalent(w, found[w])
        BY <3>1, <3>2, <2>2, <1>2, <1>3 DEF AfterFetch, AfterRefetch, Return
      <4>2. pc[w] \in {"fetch", "refetch"} /\ result'[w] # "inserted"
        BY <3>1, <3>2, <2>2, <1>2, <1>3 DEF AfterFetch, AfterRefetch, Return
      <4>3. found[w] = Row(w) /\ found[w] \in committed \cup {NoRow}
        BY <4>1, <4>2, <3>1, <1>6 DEF Equivalent, NotedBy
      <4>4. Row(w) # NoRow
        BY <1>2, NoRowAssumption DEF Rows
      <4> QED BY <4>3, <4>4, <3>1
    <3>3. CASE AfterCommit(w)
      <4>1. pc[w] = "commit" /\ outcome[w] = "ok"
        BY <3>1, <3>3, <2>2 DEF AfterCommit
      <4> QED BY <4>1, <3>1, <1>2, <1>6 DEF NotedBy
    <3>4. CASE AfterRollback(w)
      BY <3>1, <3>4, <2>2, <1>2, <1>3 DEF AfterRollback, Return
    <3> QED BY <3>1, <3>2, <3>3, <3>4, <2>2, <1>0 DEF Continues, AfterInsert
  <2> QED BY <2>1, <2>2
<1>8. Owned'
  <2> SUFFICES ASSUME pending # {} PROVE \E v \in Writers : Owner(v)'
    BY <1>0 DEF Owned
  <2>1. PICK v \in Writers : Owner(v)
    BY DEF IInv, Owned
  <2>2. CASE v # w
    BY <2>1, <2>2, <1>0, <1>2 DEF Owner, Answered
  <2>3. CASE v = w
    <3>1. \/ pc[w] = "insert" /\ outcome[w] = "ok"
          \/ pc[w] = "commit" /\ outcome[w] = "error"
      BY <2>1, <2>3, <1>2 DEF Owner
    <3>2. Request(w, "commit") \/ Request(w, "rollback")
      BY <3>1, <1>0 DEF Continues, AfterFetch, AfterInsert, AfterCommit, AfterRollback, AfterRefetch
    <3>3. pc'[w] \in {"commit", "rollback"} /\ ~Holds(ready', w)
      BY <3>2, <1>2, <1>3 DEF Request
    <3> QED BY <3>3, <1>2 DEF Owner, Answered
  <2> QED BY <2>2, <2>3
<1>9. Noted'
  <2> SUFFICES ASSUME NEW v \in Writers, v \notin overlapped PROVE NotedBy(v)'
    BY <1>0 DEF Noted
  <2>1. CASE v # w
    <3>1. pc'[v] = pc[v]
      BY <2>1, <1>2
    <3> QED BY <3>1, <2>1, <1>2, OthersNoted DEF IInv
  <2>2. CASE v = w
    <3>1. /\ pc'[w] \in {"fetch", "refetch"} => pc[w] \in {"select", "reselect"}
          /\ pc'[w] = "commit" => pc[w] = "insert" /\ outcome[w] = "ok"
      BY <1>0, <1>2, <1>3 DEF Continues, AfterFetch, AfterInsert, AfterCommit, AfterRollback, AfterRefetch,
                              Request, Return
    <3>2. NotedBy(w) /\ ~Holds(ready', w)
      BY <2>2, <1>2, <1>6
    <3>3. Row(w)' = Row(w) /\ Visible' = Visible
      BY <1>0 DEF Row, Visible
    <3> QED BY <3>1, <3>2, <3>3, <2>2, <1>0, <1>2 DEF NotedBy, Answered
  <2> QED BY <2>1, <2>2
<1> QED BY <1>2, <1>4, <1>5, <1>7, <1>8, <1>9 DEF IInv

-----------------------------------------------------------------------------
(* A call, a crash and the theorems                                      *)

\* The calls that were alone stop being so when another begins.
LEMMA StartKeeps == ASSUME IInv, NEW w \in Writers, Start(w) PROVE IInv'
<1>1. /\ pc[w] = "idle" /\ pc' = [pc EXCEPT ![w] = "select"] /\ queue' = Append(queue, w)
      /\ overlapped' = IF Active = {} THEN overlapped ELSE overlapped \cup Active \cup {w}
      /\ found' = found /\ outcome' = outcome /\ result' = result /\ ready' = ready
      /\ committed' = committed /\ pending' = pending
  BY DEF Start, Request, database
<1>2. Types /\ OneTicket /\ pc \in [Writers -> Ops \cup {"idle", "done"}]
      /\ queue \in Seq(Writers) /\ overlapped \subseteq Writers
  BY DEF IInv, Types, StoreTypeOK
<1>3. w \notin Active /\ Active' = Active \cup {w}
  BY <1>1, <1>2 DEF Active, Ops
<1>4. ~Queued(w) /\ ~Answered(w)
  BY <1>2, <1>3, TicketIsActive
<1>5. /\ queue' \in Seq(Writers) /\ Distinct(queue')
      /\ \A v : Holds(queue', v) <=> Queued(v) \/ v = w
  BY <1>1, <1>2, <1>4, AppendHolds DEF Queued, OneTicket
<1>6. \A v : Holds(ready', v) <=> Answered(v)
  BY <1>1 DEF Answered
<1>7. OneTicket'
  BY <1>1, <1>2, <1>4, <1>5, <1>6 DEF OneTicket, Queued, Answered
<1>8. Types'
  <2>1. /\ \A v : Holds(queue', v) => v \in Active'
        /\ \A v : Holds(ready', v) => v \in Active'
    BY <1>2, <1>3, <1>5, <1>6, TicketIsActive
  <2>2. pc' \in [Writers -> Ops \cup {"idle", "done"}]
    BY <1>1, <1>2 DEF Ops
  <2>3. overlapped' \subseteq Writers
    BY <1>1, <1>2 DEF Active
  <2> QED BY <1>1, <1>5, <2>1, <2>2, <2>3 DEF IInv, Types, StoreTypeOK, Holds
<1>9. Solo'
  BY <1>1, <1>3 DEF Solo
<1>10. \A v \in Writers \ {w} : pc'[v] = pc[v]
  BY <1>1, <1>2
<1>11. Owned'
  <2> SUFFICES ASSUME pending # {} PROVE \E v \in Writers : Owner(v)'
    BY <1>1 DEF Owned
  <2>1. PICK v \in Writers : Owner(v)
    BY DEF IInv, Owned
  <2>2. v # w
    BY <2>1, <1>1 DEF Owner
  <2> QED BY <2>1, <2>2, <1>1, <1>6, <1>10 DEF Owner, Answered
<1>12. Noted'
  <2> SUFFICES ASSUME NEW v \in Writers, v \notin overlapped' PROVE NotedBy(v)'
    BY DEF Noted
  <2>1. CASE v = w
    <3>1. pc'[v] = "select" /\ ~Holds(ready', v)
      BY <2>1, <1>1, <1>2, <1>4, <1>6
    <3> QED BY <3>1 DEF NotedBy, Answered
  <2>2. CASE v # w
    <3>1. v \notin Active
      BY <1>1
    <3>2. pc'[v] \notin Ops
      BY <3>1, <2>2, <1>10 DEF Active
    <3> QED BY <3>2 DEF NotedBy, Ops
  <2> QED BY <2>1, <2>2
<1>13. SerialAppendIsDurable'
  BY <1>1 DEF IInv, SerialAppendIsDurable, Row
<1> QED BY <1>7, <1>8, <1>9, <1>11, <1>12, <1>13 DEF IInv

\* A crash leaves no call under way and no transaction open.
LEMMA CrashKeeps == ASSUME IInv, Crash PROVE IInv'
<1>1. /\ pc' = [w \in Writers |-> IF pc[w] = "done" THEN "done" ELSE "idle"]
      /\ found' = [w \in Writers |-> NoRow] /\ outcome' = [w \in Writers |-> "ok"]
      /\ queue' = <<>> /\ ready' = <<>> /\ pending' = {}
      /\ result' = result /\ committed' = committed /\ overlapped' = overlapped
  BY DEF Crash
<1>2. \A w \in Writers : pc'[w] \notin Ops
  BY <1>1 DEF Ops
<1>3. Active' = {}
  BY <1>2 DEF Active
<1>4. Types'
  <2>1. queue' \in Seq(Writers) /\ ready' \in Seq(Writers) /\ DOMAIN queue' = {} /\ DOMAIN ready' = {}
    BY <1>1
  <2> QED BY <1>1, <2>1 DEF IInv, Types, StoreTypeOK
<1>5. OneTicket'
  BY <1>1 DEF OneTicket, Distinct, Queued, Holds
<1>6. Noted'
  BY <1>2 DEF Noted, NotedBy, Ops
<1> QED BY <1>1, <1>3, <1>4, <1>5, <1>6 DEF IInv, Owned, Solo, SerialAppendIsDurable, Row

\* The invariant holds before the first call.
LEMMA InitIInv == StoreInit => IInv
<1> SUFFICES ASSUME StoreInit PROVE IInv
  OBVIOUS
<1>1. \A w \in Writers : pc[w] \notin Ops /\ result[w] = "none"
  BY DEF StoreInit, Ops
<1>2. Active = {}
  BY <1>1 DEF Active
<1>3. Types
  <2>1. queue \in Seq(Writers) /\ ready \in Seq(Writers) /\ DOMAIN queue = {} /\ DOMAIN ready = {}
    BY DEF StoreInit
  <2> QED BY <2>1 DEF StoreInit, Types, StoreTypeOK
<1>4. OneTicket
  BY DEF StoreInit, OneTicket, Distinct, Queued, Holds
<1>5. Noted
  BY <1>1 DEF Noted, NotedBy, Ops
<1> QED BY <1>1, <1>2, <1>3, <1>4, <1>5 DEF StoreInit, IInv, Owned, Solo, SerialAppendIsDurable

\* Every step of the store and its callers keeps the invariant.
LEMMA IInvStep == ASSUME IInv, [StoreNext]_storeVars PROVE IInv'
<1>1. CASE \E w \in Writers : Start(w)
  BY <1>1, StartKeeps
<1>2. CASE Execute
  BY <1>2, ExecuteKeeps
<1>3. CASE Resume
  BY <1>3, ResumeKeeps
<1>4. CASE Crash
  BY <1>4, CrashKeeps
<1>5. CASE UNCHANGED storeVars
  BY <1>5 DEF storeVars, IInv, Types, StoreTypeOK, Active, OneTicket, Distinct, Queued, Answered, Holds, Owned,
              Owner, Solo, Noted, NotedBy, Visible, Row, SerialAppendIsDurable
<1> QED BY <1>1, <1>2, <1>3, <1>4, <1>5 DEF StoreNext

\* The inductive invariant, for any number of calls, faults and crashes.
LEMMA InvariantHolds == StoreSpec => []IInv
<1>1. StoreInit => IInv
  BY InitIInv
<1>2. IInv /\ [StoreNext]_storeVars => IInv'
  BY IInvStep
<1> QED BY <1>1, <1>2, PTL DEF StoreSpec

\* Type correctness of the store: every waiting ticket belongs to a call that
\* is under way, and what is on disk are rows of events.
THEOREM StoreTypeCorrect == StoreSpec => []StoreTypeOK
<1>1. IInv => StoreTypeOK
  BY DEF IInv, Types
<1> QED BY <1>1, InvariantHolds, PTL

\* append's promise, for every number of calls, keys, faults and crashes: what
\* a call that was never overlapped reported as inserted, or as a replay, is
\* on disk from then on.
THEOREM SerialAppendAlwaysDurable == StoreSpec => []SerialAppendIsDurable
<1>1. IInv => SerialAppendIsDurable
  BY DEF IInv
<1> QED BY <1>1, InvariantHolds, PTL
===============================================================================
