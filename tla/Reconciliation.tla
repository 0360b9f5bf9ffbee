---------------------------- MODULE Reconciliation ----------------------------
(***************************************************************************)
(* joker/ledger/reconciliation.py and its callers: the comparison of the   *)
(* projected ledger with the broker, the correction events built from it,  *)
(* and the part of SessionSupervisor.start that reconciles after a restart *)
(* and decides whether the session may claim recovery.  SessionSupervisor  *)
(* puts the steps together.                                                *)
(*                                                                         *)
(* The ledger is represented by its projection (LedgerProjector's subject) *)
(* and a submission by its steps at the broker and in the ledger           *)
(* (ExecutionRuntime's subject), so that a crash may fall between them.    *)
(* One option contract, one broker order per client order id.              *)
(***************************************************************************)
EXTENDS Integers, Sequences, SequencesExt, FiniteSets

CONSTANTS Clients,     \* client_order_id values
          Side, Size,  \* side and quantity of each client's order
          Adapters,    \* broker adapters the session may be started with
          Foreign,     \* clients whose order may be at the broker from an earlier session
          MaxCrashes   \* bound on restarts

ASSUME ReconciliationAssumption ==
    /\ IsFiniteSet(Clients)
    /\ Side \in [Clients -> {"buy", "sell"}]
    /\ Size \in [Clients -> Nat \ {0}]
    /\ Adapters \subseteq {"paper", "webull"}
    /\ Foreign \subseteq Clients /\ MaxCrashes \in Nat

VARIABLES adapter,   \* the broker adapter of the session
          order,     \* projected orders: status ("none" when absent) and filled quantity
          pos,       \* projected position quantity
          recorded,  \* clients with a broker order id in the ledger
          book,      \* the broker's orders: status and filled quantity
          rows,      \* quantities of the open rows of list_positions
          seen,      \* orders the adapter can report
          sending,   \* submissions under way: ORDER_SUBMISSION_REQUESTED or accepted at the broker
          phase,     \* where SessionSupervisor.start is; "up" when it has returned
          report,    \* corrections of the report that are still to be appended
          written,   \* corrections of the report appended so far
          unresolved,    \* ExecutionRuntime._unresolved is set
          supUnresolved, \* SessionSupervisor._unresolved is set
          crashes

ledger == <<order, pos, recorded>>
broker == <<adapter, book, rows, seen>>
startup == <<phase, report, written, unresolved, supUnresolved>>
vars == <<ledger, broker, sending, startup, crashes>>

\* Webull: replies may be lost, orders fill in parts, positions are netted
\* into one row, and WebullClient forgets its orders when the process dies.
\* PaperBroker: orders fill at once or rest, a row per buy.
Remote == adapter = "webull"
Remembers == adapter = "paper"

OrderStatus == {"none", "submitted", "accepted", "partially_filled", "filled",
                "cancelled", "rejected"}
BrokerStatus == {"none", "pending", "open", "filled", "cancelled", "rejected"}
Phases == {"compare", "apply", "recheck", "up", "failed"}

Total == FoldSeq(+, 0, rows)
Signed(c, n) == IF Side[c] = "buy" THEN n ELSE -n

-----------------------------------------------------------------------------
(* BrokerReconciler.reconcile                                              *)

Active(c) == order[c].status \in {"submitted", "accepted", "partially_filled"}

\* list_open_orders: what run_reconciliation builds its order views from.
\* The view's filled_qty is zero for every order that still works.
Working(c) == c \in seen /\ book[c].status \in {"pending", "open"}

\* _statuses_compatible, for the statuses a working order can have.
Compatible(c) ==
    CASE book[c].status = "open" -> TRUE
      [] OTHER -> order[c].status = "submitted"

\* A correction: what RECONCILIATION_CORRECTION tells the projector.
Correct(outcome, kind, c, status, qty) ==
    [outcome |-> outcome, kind |-> kind, client |-> c, status |-> status, qty |-> qty]

\* Mutant: the submitted instead of the filled quantity is written back.
OrderFindingsSubmitted(c) ==
    IF ~Active(c)
    THEN IF Working(c) /\ order[c].status = "none"
         THEN {Correct("unknown_broker_order", "order_status", c, book[c].status, Size[c])} ELSE {}
    ELSE IF ~Working(c)
    THEN {Correct("missing_broker_order", "order_status", c, "none", Size[c] - order[c].filled)}
    ELSE {f \in {Correct("quantity_mismatch", "order_fill_qty", c, "none", Size[c])} : order[c].filled # 0}

\* correction_events takes broker_quantity or projected_quantity: a broker
\* quantity of zero counts as absent, so the projected one is written back.
OrderFindings(c) ==
    IF ~Active(c)
    THEN IF Working(c) /\ order[c].status = "none"
         THEN {Correct("unknown_broker_order", "order_status", c, book[c].status, Size[c])} ELSE {}
    ELSE IF ~Working(c)
    THEN {Correct("missing_broker_order", "order_status", c, "none", Size[c] - order[c].filled)}
    ELSE {f \in {Correct("quantity_mismatch", "order_fill_qty", c, "none", order[c].filled)} :
             order[c].filled # 0}
         \cup {f \in {Correct("status_mismatch", "order_status", c, book[c].status, order[c].filled)} :
             ~Compatible(c)}

\* Positions by contract: of several rows the last one is compared.
PositionFindings ==
    LET toBroker(outcome, n) == Correct(outcome, "position_quantity", "none", "none", n) IN
    CASE pos # 0 /\ rows = <<>> -> << toBroker("missing_broker_position", pos) >>
      [] pos # 0 /\ rows # <<>> ->
            IF Last(rows) = pos THEN <<>> ELSE << toBroker("quantity_mismatch", Last(rows)) >>
      [] OTHER -> [i \in DOMAIN rows |-> toBroker("unexpected_broker_position", rows[i])]

Report == SetToSeq(UNION {OrderFindings(c) : c \in Clients}) \o PositionFindings

Consistent == Report = <<>>

\* _apply_correction of the projector.
ApplyToOrder(ord, c, f) ==
    IF f.client # c \/ ord.status = "none" THEN ord
    ELSE IF f.kind = "order_fill_qty"
    THEN [status |-> IF f.qty >= Size[c] THEN "filled" ELSE "partially_filled", filled |-> f.qty]
    ELSE [ord EXCEPT !.status = IF f.status \in OrderStatus \ {"none"} THEN f.status ELSE @]

-----------------------------------------------------------------------------
(* SessionSupervisor.start                                                 *)

\* run_reconciliation: a consistent report clears ExecutionRuntime's mark.
StartCompare ==
    /\ phase = "compare"
    /\ report' = Report
    /\ written' = {}
    /\ unresolved' = (unresolved /\ ~Consistent)
    /\ phase' = IF Consistent THEN "up" ELSE "apply"
    /\ UNCHANGED <<ledger, broker, sending, supUnresolved, crashes>>

\* apply_reconciliation_corrections appends one correction; the key is made
\* of the report, the outcome and the entity.
SameKey(f, g) == f.outcome = g.outcome /\ f.client = g.client /\ f.kind = g.kind

StartApply ==
    LET f == Head(report) IN
    /\ phase = "apply" /\ report # <<>>
    /\ ~ \E g \in written : SameKey(f, g)
    /\ report' = Tail(report)
    /\ written' = written \cup {f}
    /\ order' = [c \in Clients |-> ApplyToOrder(order[c], c, f)]
    /\ pos' = IF f.kind = "position_quantity" THEN f.qty ELSE pos
    /\ UNCHANGED <<recorded, broker, sending, phase, unresolved, supUnresolved, crashes>>

\* A second row of the contract has the key of the first: the append returns
\* False for an equal quantity and raises LedgerConflict otherwise.
StartApplyAgain ==
    LET f == Head(report) IN
    /\ phase = "apply" /\ report # <<>>
    /\ \E g \in written : SameKey(f, g)
    /\ report' = Tail(report)
    /\ phase' = IF f \in written THEN phase ELSE "failed"
    /\ UNCHANGED <<ledger, broker, sending, written, unresolved, supUnresolved, crashes>>

\* Mutant: start corrects until the report is consistent.
StartFollowUpRepeats ==
    /\ phase = "apply" /\ report = <<>>
    /\ unresolved' = ~Consistent
    /\ phase' = IF Consistent THEN "recheck" ELSE "compare"
    /\ UNCHANGED <<ledger, broker, sending, report, written, supUnresolved, crashes>>

StartFollowUp ==
    /\ phase = "apply" /\ report = <<>>
    /\ unresolved' = ~Consistent
    /\ phase' = "recheck"
    /\ UNCHANGED <<ledger, broker, sending, report, written, supUnresolved, crashes>>

\* Mutant: the report made before the corrections decides.
StartRecheckStale ==
    /\ phase = "recheck"
    /\ unresolved' = FALSE
    /\ phase' = "up"
    /\ UNCHANGED <<ledger, broker, sending, report, written, supUnresolved, crashes>>

StartRecheck ==
    /\ phase = "recheck"
    /\ unresolved' = (unresolved /\ ~Consistent)
    /\ supUnresolved' = ~Consistent
    /\ phase' = "up"
    /\ UNCHANGED <<ledger, broker, sending, report, written, crashes>>

\* run_reconciliation after a cancellation or from the market handler.
Reconcile ==
    /\ phase = "up"
    /\ unresolved' = (unresolved /\ ~Consistent)
    /\ UNCHANGED <<ledger, broker, sending, phase, report, written, supUnresolved, crashes>>

ClaimsRecovery == phase = "up" /\ ~unresolved /\ ~supUnresolved

\* The supervisor ends anywhere and another one is started, with the client
\* object the caller holds or in a new process.  (A new process has an empty
\* PaperBroker, with which there is nothing to reconcile.)
Crash ==
    /\ crashes < MaxCrashes
    /\ crashes' = crashes + 1
    /\ sending' = {}
    /\ seen' \in IF Remembers THEN {seen} ELSE {seen, {}}
    /\ phase' = "compare"
    /\ report' = <<>>
    /\ written' = {}
    /\ unresolved' = FALSE
    /\ supUnresolved' = FALSE
    /\ UNCHANGED <<ledger, adapter, book, rows>>

-----------------------------------------------------------------------------
(* Trading between two starts                                              *)

\* Positions of the broker after a fill: one netted row, or the rows of
\* PaperBroker, where a sell closes every open row of the contract.
RowsAfter(c, n) ==
    IF Remote
    THEN IF Total + Signed(c, n) = 0 THEN <<>> ELSE << Total + Signed(c, n) >>
    ELSE IF Side[c] = "buy" THEN Append(rows, n) ELSE <<>>

\* The projected position after a fill (LedgerProjector.FilledPosition).
PosAfter(c, n) ==
    LET next == pos + Signed(c, n) IN
    IF pos * Signed(c, 1) < 0 /\ pos * next < 0 THEN 0 ELSE next

\* A client order id of this session is new, or submitted once more.
Request(c) ==
    /\ phase = "up" /\ c \notin sending
    /\ order[c].status = "none" => book[c].status = "none"
    /\ order' = [order EXCEPT ![c].status = IF @ = "none" THEN "submitted" ELSE @]
    /\ sending' = sending \cup {c}
    /\ UNCHANGED <<pos, recorded, broker, startup, crashes>>

\* broker.submit_order takes the order; PaperBroker fills it at once or never.
Send(c) ==
    /\ c \in sending /\ book[c].status = "none"
    /\ \/ /\ \E st \in IF Remote THEN {"pending", "open"} ELSE {"open"} :
                book' = [book EXCEPT ![c].status = st]
          /\ UNCHANGED rows
       \/ /\ ~Remote
          /\ book' = [book EXCEPT ![c] = [status |-> "filled", filled |-> Size[c]]]
          /\ rows' = RowsAfter(c, Size[c])
    /\ seen' = seen \cup {c}
    /\ UNCHANGED <<ledger, adapter, sending, startup, crashes>>

\* broker.submit_order raises, with the order not placed or with its reply lost.
SendFails(c) ==
    /\ c \in sending /\ book[c].status = "none"
    /\ order' = [order EXCEPT ![c].status = IF @ \in {"filled", "cancelled"} THEN @ ELSE "rejected"]
    /\ \E st \in {"none"} \cup IF Remote THEN {"open"} ELSE {} : book' = [book EXCEPT ![c].status = st]
    /\ sending' = sending \ {c}
    /\ UNCHANGED <<pos, recorded, adapter, rows, seen, startup, crashes>>

\* BROKER_ORDER_ACCEPTED, after Send or for an order found by its intent.
Accept(c) ==
    /\ c \in sending /\ c \in seen /\ book[c].status # "none"
    /\ recorded' = recorded \cup {c}
    /\ order' = [order EXCEPT ![c].status = IF @ = "submitted" THEN "accepted" ELSE @]
    /\ sending' = sending \ {c}
    /\ UNCHANGED <<pos, broker, startup, crashes>>

\* record_verified_fill, from a submission or a poll; an unverified price
\* leaves the ledger as it is.
RecordFill(c) ==
    LET n == Size[c] - order[c].filled IN
    /\ phase = "up" /\ c \in recorded /\ c \in seen
    /\ book[c].status = "filled"
    /\ order[c].status # "filled"
    /\ order' = [order EXCEPT ![c] = [status |-> "filled", filled |-> Size[c]]]
    /\ pos' = IF n = 0 THEN pos ELSE PosAfter(c, n)
    /\ UNCHANGED <<recorded, broker, sending, startup, crashes>>

RecordPartial(c) ==
    /\ phase = "up" /\ c \in recorded /\ c \in seen
    /\ order[c].filled < book[c].filled /\ book[c].filled < Size[c]
    /\ order' = [order EXCEPT ![c] = [status |-> "partially_filled", filled |-> book[c].filled]]
    /\ pos' = PosAfter(c, book[c].filled - order[c].filled)
    /\ UNCHANGED <<recorded, broker, sending, startup, crashes>>

\* cancel_order or a poll of a cancelled order; run_reconciliation follows.
RecordCancel(c) ==
    /\ phase = "up" /\ c \in recorded /\ c \in seen
    /\ book[c].status \in {"open", "pending", "cancelled"}
    /\ book' = [book EXCEPT ![c].status = "cancelled"]
    /\ order' = [order EXCEPT ![c].status = IF @ \in {"filled", "rejected"} THEN @ ELSE "cancelled"]
    /\ UNCHANGED <<pos, recorded, adapter, rows, seen, sending, startup, crashes>>

\* The market fills a working order, contract by contract.
BrokerFills(c) ==
    LET filled == book[c].filled + 1 IN
    /\ Remote /\ book[c].status \in {"pending", "open"}
    /\ book' = [book EXCEPT ![c] =
            [status |-> IF filled = Size[c] THEN "filled" ELSE "open", filled |-> filled]]
    /\ rows' = RowsAfter(c, 1)
    /\ UNCHANGED <<ledger, adapter, seen, sending, startup, crashes>>

Init ==
    /\ adapter \in Adapters
    /\ order = [c \in Clients |-> [status |-> "none", filled |-> 0]]
    /\ pos = 0
    /\ recorded = {}
    /\ \E F \in SUBSET Foreign :
        /\ book = [c \in Clients |-> [status |-> IF c \in F THEN "open" ELSE "none", filled |-> 0]]
        /\ seen = IF Remembers THEN F ELSE {}
    /\ rows \in {<<>>, <<1>>} \cup IF Remote THEN {} ELSE {<<1, 1>>, <<1, 2>>}
    /\ sending = {}
    /\ phase = "compare"
    /\ report = <<>>
    /\ written = {}
    /\ unresolved = FALSE
    /\ supUnresolved = FALSE
    /\ crashes = 0

Start == StartCompare \/ StartApply \/ StartApplyAgain \/ StartFollowUp \/ StartRecheck

-----------------------------------------------------------------------------
(* Properties                                                              *)

TypeOK ==
    /\ order \in [Clients -> [status: OrderStatus, filled: Nat]]
    /\ pos \in Int
    /\ recorded \subseteq Clients /\ seen \subseteq Clients /\ sending \subseteq Clients
    /\ book \in [Clients -> [status: BrokerStatus, filled: Nat]]
    /\ \A i \in DOMAIN rows : rows[i] # 0
    /\ phase \in Phases

\* When start returns with a claim of recovery, the projection agrees with
\* what the adapter reports at that moment: same position, every order the
\* ledger takes for active works at the broker, every working order is in the
\* ledger.  Of several rows of a contract only the last one is compared.
\* UnresolvedReconciliation: "system must not claim recovery" otherwise.
Agrees ==
    /\ pos = Total
    /\ \A c \in Clients : (Active(c) => Working(c)) /\ (Working(c) => order[c].status # "none")

RecoveryIsHonest ==
    [][phase # "up" /\ phase' = "up" /\ ClaimsRecovery' /\ Len(rows) < 2 => Agrees']_vars

\* Corrections and late fills never credit an order with more than the
\* broker filled, whatever the report made of partial fills.
FillsAreReal == \A c \in Clients : order[c].filled <= book[c].filled
=============================================================================
