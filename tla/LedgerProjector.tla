--------------------------- MODULE LedgerProjector ---------------------------
(***************************************************************************)
(* joker/ledger/projector.py: the deterministic projection of the          *)
(* append-only execution ledger into order lifecycles and positions.       *)
(*                                                                         *)
(* LedgerProjector.project is a loop over an iterable of ledger events     *)
(* with four mutable locals.  The locals are the VARIABLES of this module  *)
(* and one iteration of the loop is one step, so a behaviour of Spec is    *)
(* the projection of one sequence of events, and a property of every       *)
(* behaviour is a property of every sequence the store can hand over.      *)
(*                                                                         *)
(* Prices are abstracted to their presence (price is None or not), so the  *)
(* averages and the realised P&L are not numbers here.  Quantities are     *)
(* whole contracts.                                                        *)
(***************************************************************************)
EXTENDS Integers, FiniteSets, FiniteSetsExt

CONSTANTS Orders,      \* client_order_id values
          Contracts,   \* contract_id values
          BrokerIds,   \* broker_order_id values
          NoBroker,    \* broker_order_id is None
          Keys,        \* idempotency keys (and ledger_event_id values)
          Stream       \* the ledger events the iterable is made of

FillTypes == {"partial_fill", "final_fill"}
PositionTypes == {"position_opened", "position_resized", "position_closed"}
EventTypes == FillTypes \cup PositionTypes \cup
    {"order_submission_requested", "broker_order_accepted", "cancellation",
     "rejection", "fee_recorded", "reconciliation_correction"}

\* The events whose branch creates an order or writes its contract and side.
OrderTypes == FillTypes \cup
    {"order_submission_requested", "broker_order_accepted", "cancellation", "rejection"}

OrderStatus == {"submitted", "accepted", "partially_filled", "filled",
                "cancelled", "rejected"}
Sides == {"buy", "sell"}
CorrectionKinds == {"none", "order_status", "order_fill_qty", "position_quantity"}

\* correction_kind, status, absolute_quantity and allow_overfill are the
\* metadata entries the projector reads.  status is a raw string there: it
\* may be a broker's word ("open") that is no OrderStatus.
LedgerEvent ==
    [key: Keys, id: Keys, type: EventTypes, order: Orders, broker: BrokerIds \cup {NoBroker},
     contract: Contracts, side: Sides, qty: Nat, priced: BOOLEAN, fees: Nat,
     overfill: BOOLEAN, kind: CorrectionKinds, status: OrderStatus \cup {"open", "none"},
     absolute: BOOLEAN, target: Int]

ASSUME StreamAssumption ==
    /\ Stream \subseteq LedgerEvent
    /\ NoBroker \notin BrokerIds
    /\ Contracts # {} /\ Orders \cap Contracts = {}

\* submit_execution_command: a request is for at least one contract and its
\* key is a function of the client order id.
ASSUME RequestAssumption ==
    \A a, b \in {ev \in Stream : ev.type = "order_submission_requested"} :
        a.qty > 0 /\ (a.order = b.order => a.key = b.key)

\* submit_execution_command, on_broker_update, record_verified_fill: events of
\* an order are built from its intent or from the broker's order for that
\* intent, so they agree on the contract and the side.
ASSUME OrderAssumption ==
    /\ IsFiniteSet(Orders)
    /\ \A a, b \in {ev \in Stream : ev.type \in OrderTypes} :
            a.order = b.order => a.contract = b.contract /\ a.side = b.side

OrderLifecycle ==
    [known: BOOLEAN, status: OrderStatus, submitted: Nat, filled: Nat,
     avg: BOOLEAN, fees: Nat, side: Sides, contract: Contracts,
     broker: BrokerIds \cup {NoBroker}]

PositionState ==
    [known: BOOLEAN, qty: Int, avg: BOOLEAN, fees: Nat, open: BOOLEAN]

VARIABLES orders,     \* dict client_order_id -> _MutableOrder
          positions,  \* dict contract_id -> _MutablePosition
          seenIds,    \* ledger_event_id values applied
          seenKeys,   \* idempotency keys applied
          corrected,  \* history: orders and contracts an explicit override has touched
          overclosed  \* history: contracts a fill tried to close beyond zero

vars == <<orders, positions, seenIds, seenKeys, corrected, overclosed>>
history == <<corrected, overclosed>>

Abs(n) == IF n < 0 THEN -n ELSE n
Least(m, n) == IF m <= n THEN m ELSE n

-----------------------------------------------------------------------------
(* Orders                                                                  *)

NoOrder ==
    [known |-> FALSE, status |-> "submitted", submitted |-> 0, filled |-> 0,
     avg |-> FALSE, fees |-> 0, side |-> "buy", contract |-> CHOOSE c \in Contracts : TRUE,
     broker |-> NoBroker]

NewOrder(ev, submitted) ==
    [known |-> TRUE, status |-> "submitted", submitted |-> submitted, filled |-> 0,
     avg |-> FALSE, fees |-> 0, side |-> ev.side, contract |-> ev.contract,
     broker |-> ev.broker]

\* _ensure_order: an order first met through a fill is taken to be for the
\* filled quantity, through any other event for a quantity of zero.
EnsureOrder(ev) ==
    IF orders[ev.order].known THEN orders[ev.order]
    ELSE NewOrder(ev, IF ev.type \in FillTypes THEN ev.qty ELSE 0)

WithBroker(ord, ev) ==
    IF ev.broker = NoBroker THEN ord ELSE [ord EXCEPT !.broker = ev.broker]

MoveUnless(ord, terminal, status) ==
    IF ord.status \in terminal THEN ord ELSE [ord EXCEPT !.status = status]

Requested(ev) ==
    IF ~orders[ev.order].known THEN NewOrder(ev, ev.qty)
    ELSE MoveUnless(
            [WithBroker(orders[ev.order], ev) EXCEPT
                !.submitted = ev.qty, !.side = ev.side, !.contract = ev.contract],
            {"filled", "cancelled", "rejected"}, "submitted")

\* Mutant: PARTIALLY_FILLED is missing from the statuses acceptance keeps.
AcceptedRegresses(ev) ==
    LET ord == WithBroker(EnsureOrder(ev), ev) IN
    MoveUnless([ord EXCEPT !.submitted = IF @ = 0 THEN ev.qty ELSE @],
               {"filled", "cancelled", "rejected"}, "accepted")

Accepted(ev) ==
    LET ord == WithBroker(EnsureOrder(ev), ev) IN
    MoveUnless([ord EXCEPT !.submitted = IF @ = 0 THEN ev.qty ELSE @],
               {"filled", "cancelled", "rejected", "partially_filled"}, "accepted")

\* Mutant: no clamp.
AppliedQtyUnclamped(ord, ev) == ev.qty

\* _accumulate_fill: the quantity really applied after the clamp at the
\* submitted quantity; the clamp is off for an unknown submitted quantity.
AppliedQty(ord, ev) ==
    IF ev.overfill \/ ord.submitted = 0 THEN ev.qty
    ELSE IF ord.submitted <= ord.filled THEN 0
    ELSE Least(ev.qty, ord.submitted - ord.filled)

FilledOrder(ord, ev) ==
    LET filled == ord.filled + AppliedQty(ord, ev) IN
    [ord EXCEPT !.filled = filled, !.avg = TRUE,
        !.status = IF \/ ev.type = "final_fill"
                      \/ ord.submitted > 0 /\ filled >= ord.submitted
                   THEN "filled" ELSE "partially_filled"]

CorrectedOrder(ev) ==
    LET ord == orders[ev.order]
        refilled == [ord EXCEPT !.filled = ev.qty, !.avg = ev.priced \/ @] IN
    IF ~ord.known THEN ord
    ELSE IF ev.kind = "order_status" /\ ev.status \in OrderStatus
    THEN [ord EXCEPT !.status = ev.status]
    ELSE IF ev.kind = "order_fill_qty"
    THEN [refilled EXCEPT !.status =
                IF ord.submitted > 0 /\ ev.qty >= ord.submitted THEN "filled"
                ELSE IF ev.qty > 0 THEN "partially_filled" ELSE @]
    ELSE ord

WithOrderFees(ord, ev) ==
    IF ord.known THEN [ord EXCEPT !.fees = @ + ev.fees] ELSE ord

-----------------------------------------------------------------------------
(* Positions                                                               *)

NoPosition == [known |-> FALSE, qty |-> 0, avg |-> FALSE, fees |-> 0, open |-> FALSE]

Signed(side, n) == IF side = "buy" THEN n ELSE -n

Opposite(pos, side) == IF side = "buy" THEN pos.qty < 0 ELSE pos.qty > 0

\* Mutant: the cost basis of a position that is closed is not cleared.
FilledPositionKeepsBasis(pos, side, n) ==
    LET close == Least(Abs(pos.qty), n)
        qty == IF ~Opposite(pos, side) THEN pos.qty + Signed(side, n)
               ELSE IF pos.qty > 0 THEN pos.qty - close ELSE pos.qty + close
    IN  [pos EXCEPT !.known = TRUE, !.qty = qty, !.open = qty # 0, !.avg = TRUE]

\* _apply_fill_to_position, _resize_position: a fill against the position
\* closes at most what is open, it never carries the quantity past zero.
FilledPosition(pos, side, n) ==
    LET signed == Signed(side, n)
        close == Least(Abs(pos.qty), n)
        opposite == Opposite(pos, side)
        qty == IF ~opposite THEN pos.qty + signed
               ELSE IF pos.qty > 0 THEN pos.qty - close ELSE pos.qty + close
    IN  [pos EXCEPT !.known = TRUE, !.qty = qty, !.open = qty # 0,
            !.avg = IF qty = 0 THEN FALSE ELSE IF opposite THEN @ ELSE TRUE]

CorrectedPosition(pos, ev) ==
    LET qty == IF ev.absolute THEN ev.target ELSE Signed(ev.side, ev.qty)
    IN  [pos EXCEPT !.known = TRUE, !.qty = qty, !.open = qty # 0,
            !.avg = qty # 0 /\ (ev.priced \/ @)]

\* _add_fees, position half: fees of an order event are dropped while the
\* contract has no position, only position and fee events create one.
WithPositionFees(pos, ev) ==
    IF ev.fees > 0 /\ (pos.known \/ ev.type \in PositionTypes \cup {"fee_recorded"})
    THEN [pos EXCEPT !.known = TRUE, !.fees = @ + ev.fees] ELSE pos

-----------------------------------------------------------------------------
(* _apply, one branch of the dispatch per action                           *)

Update(ev, ord, pos) ==
    /\ orders' = [orders EXCEPT ![ev.order] = WithOrderFees(ord, ev)]
    /\ positions' = [positions EXCEPT ![ev.contract] = WithPositionFees(pos, ev)]

ApplyRequested(ev) ==
    /\ ev.type = "order_submission_requested"
    /\ Update(ev, Requested(ev), positions[ev.contract])
    /\ UNCHANGED history

ApplyAccepted(ev) ==
    /\ ev.type = "broker_order_accepted"
    /\ Update(ev, Accepted(ev), positions[ev.contract])
    /\ UNCHANGED history

\* A fill without a price or a quantity is ignored, its fees included.
ApplyUnusableFill(ev) ==
    /\ ev.type \in FillTypes
    /\ ~ev.priced \/ ev.qty = 0
    /\ UNCHANGED <<orders, positions, history>>

ApplyFill(ev) ==
    LET ord == WithBroker(EnsureOrder(ev), ev)
        n == AppliedQty(ord, ev)
    IN  /\ ev.type \in FillTypes
        /\ ev.priced /\ ev.qty > 0
        /\ IF n = 0 THEN Update(ev, ord, positions[ev.contract])
           ELSE Update(ev, FilledOrder(ord, ev),
                       FilledPosition(positions[ev.contract], ev.side, n))
        /\ corrected' = IF ev.overfill THEN corrected \cup {ev.order} ELSE corrected
        /\ overclosed' = IF Opposite(positions[ev.contract], ev.side) /\ n > Abs(positions[ev.contract].qty)
                         THEN overclosed \cup {ev.contract} ELSE overclosed

\* Mutant: a cancellation that lost the race against the last fill wins.
ApplyLateCancellation(ev) ==
    /\ ev.type = "cancellation"
    /\ Update(ev, [EnsureOrder(ev) EXCEPT !.status = "cancelled"], positions[ev.contract])
    /\ UNCHANGED history

ApplyCancellation(ev) ==
    /\ ev.type = "cancellation"
    /\ Update(ev, MoveUnless(EnsureOrder(ev), {"filled", "rejected"}, "cancelled"),
              positions[ev.contract])
    /\ UNCHANGED history

ApplyRejection(ev) ==
    /\ ev.type = "rejection"
    /\ Update(ev, MoveUnless(EnsureOrder(ev), {"filled", "cancelled"}, "rejected"),
              positions[ev.contract])
    /\ UNCHANGED history

ApplyFee(ev) ==
    /\ ev.type = "fee_recorded"
    /\ Update(ev, orders[ev.order], positions[ev.contract])
    /\ UNCHANGED history

\* Mutant: a legacy position event moves the quantity a second time.
ApplyPositionEventCounts(ev) ==
    /\ ev.type \in PositionTypes
    /\ positions' = [positions EXCEPT ![ev.contract] =
            WithPositionFees(FilledPosition(positions[ev.contract], ev.side, ev.qty), ev)]
    /\ UNCHANGED <<orders, history>>

\* Legacy position events never move a quantity; only their fees count.
ApplyPositionEvent(ev) ==
    /\ ev.type \in PositionTypes
    /\ positions' = [positions EXCEPT
                        ![ev.contract] = WithPositionFees(positions[ev.contract], ev)]
    /\ UNCHANGED <<orders, history>>

ApplyCorrection(ev) ==
    /\ ev.type = "reconciliation_correction"
    /\ Update(ev, CorrectedOrder(ev),
              IF ev.kind = "position_quantity"
              THEN CorrectedPosition(positions[ev.contract], ev)
              ELSE positions[ev.contract])
    /\ corrected' = corrected \cup
            (IF ev.kind = "position_quantity" THEN {ev.contract}
             ELSE IF ev.kind = "none" THEN {} ELSE {ev.order})
    /\ UNCHANGED overclosed

Apply(ev) ==
    \/ ApplyRequested(ev) \/ ApplyAccepted(ev)
    \/ ApplyUnusableFill(ev) \/ ApplyFill(ev)
    \/ ApplyCancellation(ev) \/ ApplyRejection(ev)
    \/ ApplyFee(ev) \/ ApplyPositionEvent(ev) \/ ApplyCorrection(ev)

-----------------------------------------------------------------------------
(* project: the loop over the events                                       *)

Duplicate(ev) == ev.id \in seenIds \/ ev.key \in seenKeys

SkipDuplicate(ev) == Duplicate(ev) /\ UNCHANGED vars

Project(ev) ==
    /\ ~Duplicate(ev)
    /\ seenIds' = seenIds \cup {ev.id}
    /\ seenKeys' = seenKeys \cup {ev.key}
    /\ Apply(ev)

Init ==
    /\ orders = [o \in Orders |-> NoOrder]
    /\ positions = [c \in Contracts |-> NoPosition]
    /\ seenIds = {}
    /\ seenKeys = {}
    /\ corrected = {}
    /\ overclosed = {}

Next == \E ev \in Stream : Project(ev) \/ SkipDuplicate(ev)

Spec == Init /\ [][Next]_vars

\* The streams ExecutionRuntime writes: the submission request of an order is
\* appended before anything else is, and the session is read back in order.
Causal(ev) == ev.type = "order_submission_requested" \/ orders[ev.order].known

CausalNext == \E ev \in Stream : Causal(ev) /\ (Project(ev) \/ SkipDuplicate(ev))

CausalSpec == Init /\ [][CausalNext]_vars

-----------------------------------------------------------------------------
(* Properties                                                              *)

TypeOK ==
    /\ orders \in [Orders -> OrderLifecycle]
    /\ positions \in [Contracts -> PositionState]
    /\ seenIds \subseteq Keys
    /\ seenKeys \subseteq Keys
    /\ corrected \subseteq Orders \cup Contracts
    /\ overclosed \subseteq Contracts

\* An open position is exactly one with a quantity, a flat one has no cost
\* basis left, and only an explicit correction can open a position without
\* one: capital_usage sums over positions with an average price, so every
\* other open position is counted in it.
CapitalIsCounted ==
    \A c \in Contracts :
        LET pos == positions[c] IN
        /\ pos.open <=> pos.qty # 0
        /\ pos.avg => pos.open
        /\ pos.open => pos.avg \/ c \in corrected

\* The hard rule of _accumulate_fill for the streams the runtime writes: the
\* filled quantity never exceeds the submitted one unless a correction or an
\* allow_overfill event said so, however often and in whatever order partial
\* fills, final fills and cancellations arrive.
NoOverfill ==
    \A o \in Orders : o \notin corrected => orders[o].filled <= orders[o].submitted

\* The status the runtime and the gateway branch on agrees with the
\* quantities: a working order is not completely filled, an order not yet
\* reported filled has no fills, and a filled one has some.
StatusMatchesFills ==
    \A o \in Orders :
        LET ord == orders[o] IN
        ord.known /\ o \notin corrected =>
            /\ ord.status \in {"submitted", "accepted"} => ord.filled = 0
            /\ ord.status = "partially_filled" => ord.filled \in 1 .. (ord.submitted - 1)
            /\ ord.status = "filled" => ord.filled > 0

\* An order filled to its submitted quantity stays FILLED whatever late
\* acceptance, cancellation, rejection or repeated fill follows, unless a
\* correction names it.
FullyFilledIsFinal ==
    [][\A o \in Orders :
            /\ orders[o].status = "filled" /\ orders[o].filled = orders[o].submitted
            /\ o \notin corrected'
            => orders'[o].status = "filled" /\ orders'[o].filled = orders[o].filled]_vars

\* Closing fills cannot drive a quantity past zero: only a step that records
\* a correction of the contract turns a long position short or back.
NeverFlips ==
    [][\A c \in Contracts :
            (positions[c].qty > 0 /\ positions'[c].qty < 0)
                \/ (positions[c].qty < 0 /\ positions'[c].qty > 0)
            => c \in corrected']_vars

NetFilled(c) ==
    MapThenSumSet(LAMBDA o : Signed(orders[o].side, orders[o].filled),
                  {o \in Orders : orders[o].known /\ orders[o].contract = c})

\* Fills are the only source of position quantity: with no correction and no
\* fill that closed more than was open, a position is the signed sum of what
\* the orders of its contract have filled; the two are accumulated by
\* separate code paths.
PositionIsNetOfFills ==
    \A c \in Contracts :
        (\A o \in Orders : orders[o].contract = c => o \notin corrected)
            /\ c \notin corrected \cup overclosed
        => positions[c].qty = NetFilled(c)
=============================================================================
