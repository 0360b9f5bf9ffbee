--------------------------- MODULE ExecutionRuntime ---------------------------
(***************************************************************************)
(* joker/runtime/execution_runtime.py with the broker adapters of          *)
(* joker/broker: submission, cancellation and polling of orders, the       *)
(* ledger events they append and the position events they publish, with    *)
(* concurrent callers and restarts of the process.                         *)
(*                                                                         *)
(* A step is what the coroutine does between two awaits.  append of the    *)
(* ledger is one step (its own interleavings are LedgerStore's subject)    *)
(* and idempotent by key.  Calls of the broker adapter are synchronous.    *)
(* Every order is for one contract of the same option: the position is     *)
(* what LedgerProjector makes of the fills.                                *)
(***************************************************************************)
EXTENDS Integers, Sequences, SequencesExt, FiniteSets

CONSTANTS Clients,     \* client_order_id values; the intent of a client id is fixed
          Side,        \* side of each client's intent
          Tasks,       \* concurrent callers of the runtime
          Adapters,    \* broker adapters the session may be started with
          LostReplies, \* how often the reply to an order placed with Webull may be lost
          MaxOrders,   \* bound on orders the broker ever takes
          MaxCalls,    \* bound on calls of the runtime
          MaxCrashes   \* bound on restarts

ASSUME RuntimeAssumption ==
    /\ Side \in [Clients -> {"buy", "sell"}]
    /\ Adapters \subseteq {"paper", "webull"}
    /\ {LostReplies, MaxOrders, MaxCalls, MaxCrashes} \subseteq Nat

NoOrder == 0
BrokerStatus == {"open", "filled", "cancelled", "rejected"}

VARIABLES adapter,    \* the broker adapter of the session
          broker,     \* the broker's books: the orders it took, by broker order id
          known,      \* broker order ids the adapter has in _orders
          ledger,     \* ledger events of the session, in order
          mapping,    \* _client_to_broker, NoOrder when absent
          task,       \* what each caller is doing
          announced,  \* POSITION_* events published
          raced,      \* history: two fills were being recorded at the same time
          calls, crashes, lost

vars == <<adapter, broker, known, ledger, mapping, task, announced, raced, calls, crashes, lost>>
bounds == <<adapter, raced, calls, crashes, lost>>

\* The PaperBroker object outlives the runtime that is restarted
\* (tests/runtime/test_restart_recovery.py) and knows the price of a fill;
\* WebullClient forgets its orders and reports fills without a price.
Remembers == adapter = "paper"
PriceKnown == adapter = "paper"

Event(type, c, b) == [type |-> type, client |-> c, order |-> b]
InLedger(ev) == \E i \in DOMAIN ledger : ledger[i] = ev

\* SqliteLedgerStore.append: False for a key that is there already.
AppendEvent(ev) == ledger' = IF InLedger(ev) THEN ledger ELSE Append(ledger, ev)

\* restore_order_mappings: the last broker order id recorded for a client.
Recorded(c) ==
    LET ids == {i \in DOMAIN ledger : ledger[i].client = c /\ ledger[i].order # NoOrder}
    IN  IF ids = {} THEN NoOrder ELSE ledger[CHOOSE i \in ids : \A j \in ids : j <= i].order

Restored == [c \in Clients |-> Recorded(c)]

\* get_order: an adapter that does not know the id returns None.
GetOrder(b) == b # NoOrder /\ b \in known

\* _find_broker_order_by_intent: open orders first, then the adapter's table.
OrdersOf(c) == {b \in known : broker[b].client = c}
OpenOrdersOf(c) == {b \in OrdersOf(c) : broker[b].status = "open"}
FirstOf(S) == CHOOSE b \in S : \A d \in S : b <= d

\* Mutant: only open orders are looked for.
FindOpenByIntent(c) == IF OpenOrdersOf(c) = {} THEN NoOrder ELSE FirstOf(OpenOrdersOf(c))

FindByIntent(c) ==
    IF OpenOrdersOf(c) # {} THEN FirstOf(OpenOrdersOf(c))
    ELSE IF OrdersOf(c) # {} THEN FirstOf(OrdersOf(c)) ELSE NoOrder

\* The projected position: every fill of the ledger moves it by one contract
\* to its side.  Orders are for one contract, so the projector's clamp at
\* zero has nothing to cut.
FillsOf(side) ==
    {i \in DOMAIN ledger : ledger[i].type = "final_fill" /\ Side[ledger[i].client] = side}

Position == Cardinality(FillsOf("buy")) - Cardinality(FillsOf("sell"))

-----------------------------------------------------------------------------
Resting == [pc |-> "idle", client |-> "none", order |-> NoOrder, before |-> 0]

Goto(t, pc, b) == task' = [task EXCEPT ![t].pc = pc, ![t].order = b]

Call(t, c, b, pc) ==
    /\ task[t].pc \in {"idle", "returned", "polled", "raised"}
    /\ calls < MaxCalls
    /\ calls' = calls + 1
    /\ task' = [task EXCEPT ![t] = [Resting EXCEPT !.pc = pc, !.client = c, !.order = b]]
    /\ UNCHANGED <<broker, known, ledger, mapping, announced, adapter, raced, crashes, lost>>

(* submit_execution_command                                                *)

Submit(t, c) == Call(t, c, NoOrder, "restore")

SubmitRestore(t) ==
    LET c == task[t].client IN
    /\ task[t].pc = "restore"
    /\ mapping' = Restored
    /\ IF GetOrder(Recorded(c)) THEN Goto(t, "returned", Recorded(c)) ELSE Goto(t, "resolve", NoOrder)
    /\ UNCHANGED <<broker, known, ledger, announced, bounds>>

\* _resolve_existing_submission reads the session a second time.
SubmitResolve(t) ==
    LET c == task[t].client IN
    /\ task[t].pc = "resolve"
    /\ mapping' = IF Recorded(c) = NoOrder THEN mapping ELSE [mapping EXCEPT ![c] = Recorded(c)]
    /\ IF GetOrder(Recorded(c)) THEN Goto(t, "returned", Recorded(c)) ELSE Goto(t, "request", NoOrder)
    /\ UNCHANGED <<broker, known, ledger, announced, bounds>>

SubmitRequest(t) ==
    /\ task[t].pc = "request"
    /\ AppendEvent(Event("requested", task[t].client, NoOrder))
    /\ Goto(t, "send", NoOrder)
    /\ UNCHANGED <<broker, known, mapping, announced, bounds>>

\* The order is at the broker already: an earlier call was cut off after it.
SubmitRecover(t) ==
    LET c == task[t].client
        b == FindByIntent(c)
    IN  /\ task[t].pc = "send" /\ b # NoOrder
        /\ mapping' = [mapping EXCEPT ![c] = b]
        /\ Goto(t, "recovered", b)
        /\ UNCHANGED <<broker, known, ledger, announced, bounds>>

\* broker.submit_order returns an order, resting or filled at once.
SubmitPlaced(t) ==
    LET c == task[t].client
        b == Len(broker) + 1
    IN  /\ task[t].pc = "send" /\ FindByIntent(c) = NoOrder
        /\ b <= MaxOrders
        /\ \E st \in {"open", "filled"} : broker' = Append(broker, [client |-> c, status |-> st])
        /\ known' = known \cup {b}
        /\ mapping' = [mapping EXCEPT ![c] = b]
        /\ Goto(t, "accept", b)
        /\ UNCHANGED <<ledger, announced, bounds>>

\* broker.submit_order raises: nothing was placed.
SubmitFails(t) ==
    /\ task[t].pc = "send" /\ FindByIntent(task[t].client) = NoOrder
    /\ Goto(t, "reject", NoOrder)
    /\ UNCHANGED <<broker, known, ledger, mapping, announced, bounds>>

\* place_order reaches the broker but its reply is lost: the adapter raises
\* before it has put the order into its table.
SubmitReplyLost(t) ==
    /\ task[t].pc = "send" /\ FindByIntent(task[t].client) = NoOrder
    /\ adapter = "webull" /\ lost < LostReplies /\ Len(broker) < MaxOrders
    /\ lost' = lost + 1
    /\ broker' = Append(broker, [client |-> task[t].client, status |-> "open"])
    /\ Goto(t, "reject", NoOrder)
    /\ UNCHANGED <<known, ledger, mapping, announced, adapter, raced, calls, crashes>>

SubmitReject(t) ==
    /\ task[t].pc = "reject"
    /\ AppendEvent(Event("rejection", task[t].client, NoOrder))
    /\ Goto(t, "raised", NoOrder)
    /\ UNCHANGED <<broker, known, mapping, announced, bounds>>

\* The recovered order is returned as it is; a fill is left to a later poll.
SubmitRecovered(t) ==
    /\ task[t].pc = "recovered"
    /\ AppendEvent(Event("accepted", task[t].client, task[t].order))
    /\ Goto(t, "returned", task[t].order)
    /\ UNCHANGED <<broker, known, mapping, announced, bounds>>

SubmitAccept(t) ==
    LET b == task[t].order IN
    /\ task[t].pc = "accept"
    /\ AppendEvent(Event("accepted", task[t].client, b))
    /\ Goto(t, IF broker[b].status = "filled" /\ PriceKnown THEN "fill" ELSE "returned", b)
    /\ UNCHANGED <<broker, known, mapping, announced, bounds>>

-----------------------------------------------------------------------------
(* record_verified_fill                                                    *)

FillBefore(t) ==
    /\ task[t].pc = "fill"
    /\ task' = [task EXCEPT ![t].pc = "record", ![t].before = Position]
    /\ raced' = (raced \/ \E u \in Tasks : task[u].pc \in {"record", "announce"})
    /\ UNCHANGED <<broker, known, ledger, mapping, announced, adapter, calls, crashes, lost>>

\* A fill recorded before publishes nothing.
FillRecord(t) ==
    LET ev == Event("final_fill", task[t].client, task[t].order) IN
    /\ task[t].pc = "record"
    /\ AppendEvent(ev)
    /\ mapping' = [mapping EXCEPT ![task[t].client] = IF @ = NoOrder THEN task[t].order ELSE @]
    /\ Goto(t, IF InLedger(ev) THEN "returned" ELSE "announce", task[t].order)
    /\ UNCHANGED <<broker, known, announced, bounds>>

Transition(before, after) ==
    IF before = after THEN <<>>
    ELSE IF before = 0 THEN <<"opened">>
    ELSE IF after = 0 THEN <<"closed">> ELSE <<"changed">>

\* Mutant: the transition is announced from the order's side instead of from
\* the projection before and after.
FillAnnounceSide(t) ==
    /\ task[t].pc = "announce"
    /\ announced' = Append(announced, IF Side[task[t].client] = "buy" THEN "opened" ELSE "closed")
    /\ Goto(t, "returned", task[t].order)
    /\ UNCHANGED <<broker, known, ledger, mapping, bounds>>

\* _publish_position_transitions: from the projection before to the one now.
FillAnnounce(t) ==
    /\ task[t].pc = "announce"
    /\ announced' = announced \o Transition(task[t].before, Position)
    /\ Goto(t, "returned", task[t].order)
    /\ UNCHANGED <<broker, known, ledger, mapping, bounds>>

-----------------------------------------------------------------------------
(* poll_order_status, cancel_order and on_broker_update                    *)

\* Where on_broker_update goes for the status the adapter reports.
UpdateFor(b) ==
    CASE broker[b].status = "cancelled" -> "cancellation"
      [] broker[b].status = "rejected" -> "rejection"
      [] broker[b].status = "filled" /\ PriceKnown -> "fill"
      [] OTHER -> "polled"

Poll(t, c) == Call(t, c, NoOrder, "poll")

PollMapped(t) ==
    LET b == mapping[task[t].client] IN
    /\ task[t].pc = "poll" /\ b # NoOrder
    /\ Goto(t, IF GetOrder(b) THEN UpdateFor(b) ELSE "polled", b)
    /\ UNCHANGED <<broker, known, ledger, mapping, announced, bounds>>

PollUnmapped(t) ==
    /\ task[t].pc = "poll" /\ mapping[task[t].client] = NoOrder
    /\ Goto(t, "reload", NoOrder)
    /\ UNCHANGED <<broker, known, ledger, mapping, announced, bounds>>

\* The session was read: the whole mapping is replaced by what it holds.
PollRestore(t) ==
    LET b == Recorded(task[t].client) IN
    /\ task[t].pc = "reload"
    /\ mapping' = Restored
    /\ Goto(t, IF GetOrder(b) THEN UpdateFor(b) ELSE "polled", b)
    /\ UNCHANGED <<broker, known, ledger, announced, bounds>>

UpdateRecord(t) ==
    /\ task[t].pc \in {"cancellation", "rejection"}
    /\ AppendEvent(Event(task[t].pc, task[t].client, task[t].order))
    /\ Goto(t, "returned", task[t].order)
    /\ UNCHANGED <<broker, known, mapping, announced, bounds>>

Cancel(t, c) == Call(t, c, NoOrder, "cancel")

\* No mapping, or the broker refuses: the order does not rest any more.
CancelRefused(t) ==
    LET b == Recorded(task[t].client) IN
    /\ task[t].pc = "cancel"
    /\ mapping' = Restored
    /\ b # NoOrder => broker[b].status # "open"
    /\ Goto(t, "raised", NoOrder)
    /\ UNCHANGED <<broker, known, ledger, announced, bounds>>

\* Mutant: the cancellation is recorded whether the broker agreed or not.
CancelAnyway(t) ==
    LET b == Recorded(task[t].client) IN
    /\ task[t].pc = "cancel"
    /\ mapping' = Restored
    /\ b # NoOrder
    /\ broker' = IF broker[b].status = "open" THEN [broker EXCEPT ![b].status = "cancelled"] ELSE broker
    /\ Goto(t, "cancellation", b)
    /\ UNCHANGED <<known, ledger, announced, bounds>>

\* The broker cancels.  An adapter that has lost its table raises after it:
\* the ledger does not learn of the cancellation.
CancelSent(t) ==
    LET b == Recorded(task[t].client) IN
    /\ task[t].pc = "cancel"
    /\ mapping' = Restored
    /\ b # NoOrder /\ broker[b].status # "filled"
    /\ broker' = [broker EXCEPT ![b].status = "cancelled"]
    /\ Goto(t, IF b \in known THEN "cancellation" ELSE "raised", b)
    /\ UNCHANGED <<known, ledger, announced, bounds>>

\* cancel_order_by_broker_id, of an order the adapter knows.
CancelById(t, b) == b \in known /\ Call(t, broker[b].client, b, "by_id")

\* The ledger names the order: it is cancelled by its client id.
CancelByIdRecorded(t) ==
    /\ task[t].pc = "by_id"
    /\ Recorded(task[t].client) = task[t].order
    /\ mapping' = Restored
    /\ Goto(t, "cancel", NoOrder)
    /\ UNCHANGED <<broker, known, ledger, announced, bounds>>

\* It does not: the order is cancelled first and mapped by its intent.
CancelByIdUnrecorded(t) ==
    LET b == task[t].order IN
    /\ task[t].pc = "by_id"
    /\ Recorded(task[t].client) # b
    /\ IF broker[b].status = "filled" \/ b \notin known
       THEN broker' = broker /\ mapping' = Restored /\ Goto(t, "raised", NoOrder)
       ELSE /\ broker' = [broker EXCEPT ![b].status = "cancelled"]
            /\ mapping' = [Restored EXCEPT ![task[t].client] = b]
            /\ Goto(t, "cancellation", b)
    /\ UNCHANGED <<known, ledger, announced, bounds>>

-----------------------------------------------------------------------------
(* The broker and the process                                              *)

\* The market fills, or the exchange rejects, an order that rests.
BrokerActs(b) ==
    /\ broker[b].status = "open"
    /\ \E st \in {"filled", "rejected"} : broker' = [broker EXCEPT ![b].status = st]
    /\ UNCHANGED <<known, ledger, mapping, task, announced, bounds>>

\* The process dies and starts again: SessionSupervisor.start restores the
\* mappings before anybody calls the runtime.
Restart ==
    /\ crashes < MaxCrashes
    /\ crashes' = crashes + 1
    /\ task' = [t \in Tasks |-> Resting]
    /\ mapping' = Restored
    /\ known' = IF Remembers THEN known ELSE {}
    /\ UNCHANGED <<adapter, broker, ledger, announced, raced, calls, lost>>

Init ==
    /\ adapter \in Adapters
    /\ raced = FALSE
    /\ broker = <<>>
    /\ known = {}
    /\ ledger = <<>>
    /\ mapping = [c \in Clients |-> NoOrder]
    /\ task = [t \in Tasks |-> Resting]
    /\ announced = <<>>
    /\ calls = 0
    /\ crashes = 0
    /\ lost = 0

Step(t) ==
    \/ SubmitRestore(t) \/ SubmitResolve(t) \/ SubmitRequest(t)
    \/ SubmitRecover(t) \/ SubmitPlaced(t) \/ SubmitFails(t) \/ SubmitReplyLost(t)
    \/ SubmitReject(t) \/ SubmitRecovered(t) \/ SubmitAccept(t)
    \/ FillBefore(t) \/ FillRecord(t) \/ FillAnnounce(t)
    \/ PollMapped(t) \/ PollUnmapped(t) \/ PollRestore(t)
    \/ UpdateRecord(t) \/ CancelRefused(t) \/ CancelSent(t)
    \/ CancelByIdRecorded(t) \/ CancelByIdUnrecorded(t)

Next ==
    \/ \E t \in Tasks, c \in Clients : Submit(t, c) \/ Poll(t, c) \/ Cancel(t, c)
    \/ \E t \in Tasks, b \in DOMAIN broker : CancelById(t, b)
    \/ \E t \in Tasks : Step(t)
    \/ \E b \in DOMAIN broker : BrokerActs(b)
    \/ Restart

Spec == Init /\ [][Next]_vars

-----------------------------------------------------------------------------
(* Properties                                                              *)

TypeOK ==
    /\ adapter \in Adapters /\ raced \in BOOLEAN
    /\ \A b \in DOMAIN broker : broker[b].client \in Clients /\ broker[b].status \in BrokerStatus
    /\ known \subseteq DOMAIN broker
    /\ mapping \in [Clients -> {NoOrder} \cup DOMAIN broker]
    /\ \A t \in Tasks : task[t].order \in {NoOrder} \cup DOMAIN broker

OneOrderPerClient ==
    \A b, d \in DOMAIN broker : broker[b].client = broker[d].client => b = d

\* submit_execution_command's docstring: a client order id is submitted to
\* the broker once, whatever concurrent or repeated submissions, failures
\* and restarts between any two steps there are.  It is stated for the
\* adapter that still knows its orders after a restart.
RememberedOncePerClient == Remembers => OneOrderPerClient

\* The ledger never claims what the broker does not know: every event names
\* an order the broker took for that client, a fill is of a filled and a
\* cancellation of a cancelled order, although status and event are an
\* await apart.
LedgerIsTrue ==
    \A i \in DOMAIN ledger :
        LET ev == ledger[i] IN
        ev.order # NoOrder =>
            /\ broker[ev.order].client = ev.client
            /\ ev.type = "final_fill" => broker[ev.order].status = "filled"
            /\ ev.type = "cancellation" => broker[ev.order].status = "cancelled"

Settled == \A t \in Tasks : task[t].pc \notin {"record", "announce"}

\* _publish_position_transitions: while no fill is being recorded and no two
\* were recorded at the same time, the last POSITION_* event tells whether
\* the projected position is open, although the position before a fill is
\* read two awaits ahead of the append.
AnnouncementMatches ==
    Settled /\ crashes = 0 /\ ~raced =>
        IF Position = 0 THEN announced = <<>> \/ Last(announced) = "closed"
        ELSE announced # <<>> /\ Last(announced) # "closed"
=============================================================================
