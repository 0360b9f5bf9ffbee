---------------------------- MODULE RuntimeProofs -----------------------------
(***************************************************************************)
(* Theorems about ExecutionRuntime, for any clients, callers, orders,      *)
(* calls, lost replies and restarts.                                       *)
(*                                                                         *)
(* A ledger event is appended at least one await after the broker's status *)
(* was read.  The invariant carries the evidence across: an order id is    *)
(* passed on only together with the client the broker took it for, and a   *)
(* caller on its way to record a fill or a cancellation holds an order in  *)
(* that state, which the broker never leaves.                              *)
(*                                                                         *)
(* Theorems about CognitiveAgentRuntime, for any numbers of snapshots,     *)
(* order events, shutdowns and crashes.  The queue of order events is in   *)
(* the order of their arrival, all of it after what was worked on; the     *)
(* snapshot a handler is routing between its awaits is the newest, and     *)
(* neither the queue, the pending slot, the worker nor the registry has it.*)
(***************************************************************************)
EXTENDS ExecutionRuntime, CognitiveAgentRuntime, FiniteSetTheorems, WellFoundedInduction, TLAPS

Order == [client: Clients, status: BrokerStatus]
EventTypes == {"requested", "accepted", "rejection", "cancellation", "final_fill"}
Entry == [type: EventTypes, client: Clients, order: Nat]
PCs == {"idle", "returned", "polled", "raised", "restore", "resolve", "request", "send", "reject",
        "recovered", "accept", "fill", "record", "announce", "poll", "reload", "cancel", "by_id",
        "cancellation", "rejection"}

\* The broker took order b, if it is one, for client c.
Belongs(b, c) == b # NoOrder => b \in DOMAIN broker /\ broker[b].client = c
InStatus(b, st) == b # NoOrder /\ b \in DOMAIN broker /\ broker[b].status = st

BrokerOK ==
    /\ adapter \in Adapters /\ raced \in BOOLEAN
    /\ broker \in Seq(Order)
    /\ known \subseteq DOMAIN broker
    /\ Remembers => known = DOMAIN broker

MappingOK ==
    /\ mapping \in [Clients -> Nat]
    /\ \A c \in Clients : Belongs(mapping[c], c)

True(ev) ==
    /\ Belongs(ev.order, ev.client)
    /\ ev.type = "final_fill" => InStatus(ev.order, "filled")
    /\ ev.type = "cancellation" => InStatus(ev.order, "cancelled")

LedgerOK ==
    /\ ledger \in Seq(Entry)
    /\ \A i \in DOMAIN ledger : True(ledger[i])

\* What a caller at pc must hold to go on.
Evidence(pc, b) ==
    /\ pc \in {"fill", "record"} => InStatus(b, "filled")
    /\ pc = "cancellation" => InStatus(b, "cancelled")
    /\ pc \in {"accept", "by_id"} => b # NoOrder

TaskOK(k) ==
    /\ k = [pc |-> k.pc, client |-> k.client, order |-> k.order, before |-> k.before]
    /\ k.pc \in PCs /\ k.order \in Nat
    /\ k.pc # "idle" => k.client \in Clients
    /\ Belongs(k.order, k.client)
    /\ Evidence(k.pc, k.order)

TasksOK ==
    /\ task = [t \in Tasks |-> task[t]]
    /\ \A t \in Tasks : TaskOK(task[t])

IInv ==
    /\ BrokerOK
    /\ MappingOK
    /\ LedgerOK
    /\ TasksOK
    /\ RememberedOncePerClient

-----------------------------------------------------------------------------
(* What the runtime finds                                                  *)

LEMMA LeastExists ==
    ASSUME NEW T, T \subseteq Nat, T # {}
    PROVE  \E x \in T : \A y \in T : x <= y
<1>1. PICK R : R = {ss \in Nat \X Nat : ss[1] < ss[2]}
  OBVIOUS
<1>2. OpToRel(<, Nat) = {ss \in Nat \X Nat : ss[1] < ss[2]}
  BY DEF OpToRel
<1>3. IsWellFoundedOn(R, Nat)
  BY <1>1, <1>2, NatLessThanWellFounded, Zenon
<1>4. \E x \in T : \A y \in T : ~(<<y, x>> \in R)
  BY <1>3, WFMin
<1>5. \A x, y \in Nat : ~(<<y, x>> \in R) => x <= y
  BY <1>1
<1> QED BY <1>4, <1>5

LEMMA GreatestExists ==
    ASSUME NEW n \in Nat, NEW T, T \subseteq 1 .. n, T # {}
    PROVE  \E x \in T : \A y \in T : y <= x
<1>1. PICK U : U = {n - y : y \in T}
  OBVIOUS
<1>2. U \subseteq Nat /\ U # {}
  <2>1. ASSUME NEW y \in T PROVE n - y \in Nat /\ n - y \in U
    <3>1. y \in 1 .. n
      OBVIOUS
    <3>2. n - y \in Nat
      BY <3>1
    <3>3. n - y \in U
      BY <1>1
    <3> QED BY <3>2, <3>3
  <2>2. \A u \in U : \E y \in T : u = n - y
    BY <1>1
  <2> QED BY <2>1, <2>2
<1>3. PICK u \in U : \A v \in U : u <= v
  BY <1>2, LeastExists
<1>4. PICK x \in T : u = n - x
  BY <1>1, <1>3
<1>5. ASSUME NEW y \in T PROVE y <= x
  <2>1. n - y \in U /\ x \in 1 .. n /\ y \in 1 .. n
    BY <1>1
  <2>2. n - x <= n - y
    BY <1>3, <1>4, <2>1
  <2> QED BY <2>1, <2>2
<1> QED BY <1>5

\* restore_order_mappings returns an order id some event of the client names.
LEMMA RecordedIsNamed ==
    ASSUME LedgerOK, NEW c
    PROVE  \/ Recorded(c) = NoOrder
           \/ \E i \in DOMAIN ledger : ledger[i].client = c /\ ledger[i].order = Recorded(c)
<1> PICK ids : ids = {i \in DOMAIN ledger : ledger[i].client = c /\ ledger[i].order # NoOrder}
  OBVIOUS
<1>1. CASE ids = {}
  BY <1>1 DEF Recorded
<1>2. CASE ids # {}
  <2>1. ids \subseteq 1 .. Len(ledger) /\ Len(ledger) \in Nat
    BY DEF LedgerOK
  <2>2. \E i \in ids : \A j \in ids : j <= i
    BY <1>2, <2>1, GreatestExists
  <2>3. PICK i \in ids : i = CHOOSE k \in ids : \A j \in ids : j <= k
    BY <2>2
  <2>4. Recorded(c) = ledger[i].order
    BY <1>2, <2>3 DEF Recorded
  <2> QED BY <2>4
<1> QED BY <1>1, <1>2

\* So it belongs to the client it is recorded for.
LEMMA RecordedBelongs ==
    ASSUME LedgerOK, NEW c
    PROVE  Recorded(c) \in Nat /\ Belongs(Recorded(c), c)
<1>1. CASE Recorded(c) = NoOrder
  BY <1>1 DEF NoOrder, Belongs
<1>2. CASE \E i \in DOMAIN ledger : ledger[i].client = c /\ ledger[i].order = Recorded(c)
  <2>1. PICK i \in DOMAIN ledger : ledger[i].client = c /\ ledger[i].order = Recorded(c)
    BY <1>2
  <2>2. ledger[i] \in Entry /\ True(ledger[i])
    BY DEF LedgerOK
  <2>3. ledger[i].order \in Nat
    BY <2>2 DEF Entry
  <2> QED BY <2>1, <2>2, <2>3 DEF True
<1> QED BY <1>1, <1>2, RecordedIsNamed

LEMMA RestoredOK ==
    ASSUME LedgerOK
    PROVE  /\ Restored \in [Clients -> Nat]
           /\ \A c \in Clients : Belongs(Restored[c], c)
BY RecordedBelongs DEF Restored

\* _find_broker_order_by_intent returns an order of the client, and none only
\* if the adapter knows of none.
LEMMA FindByIntentFinds ==
    ASSUME BrokerOK, NEW c
    PROVE  /\ FindByIntent(c) \in Nat /\ Belongs(FindByIntent(c), c)
           /\ FindByIntent(c) = NoOrder => OrdersOf(c) = {}
<1>1. OrdersOf(c) \subseteq Nat /\ OpenOrdersOf(c) \subseteq OrdersOf(c) /\ NoOrder \notin OrdersOf(c)
  BY DEF OrdersOf, OpenOrdersOf, BrokerOK, NoOrder
<1>2. ASSUME NEW S, S \subseteq OrdersOf(c), S # {} PROVE FirstOf(S) \in OrdersOf(c)
  <2>1. \E b \in S : \A d \in S : b <= d
    BY <1>1, <1>2, LeastExists
  <2> QED BY <1>2, <2>1 DEF FirstOf
<1>3. \/ FindByIntent(c) = NoOrder /\ OrdersOf(c) = {}
      \/ FindByIntent(c) \in OrdersOf(c)
  BY <1>1, <1>2 DEF FindByIntent
<1>4. \A b \in OrdersOf(c) : Belongs(b, c)
  BY DEF OrdersOf, Belongs, BrokerOK
<1> QED BY <1>1, <1>3, <1>4 DEF Belongs, NoOrder

-----------------------------------------------------------------------------
(* What every step keeps                                                   *)

\* The broker forgets no order, and a filled or cancelled one stays so.
Grows ==
    \A b \in DOMAIN broker :
        /\ b \in DOMAIN broker' /\ broker'[b].client = broker[b].client
        /\ broker[b].status \in {"filled", "cancelled"} => broker'[b].status = broker[b].status

LEMMA Grown ==
    ASSUME Grows
    PROVE  /\ \A b, c : Belongs(b, c) => Belongs(b, c)'
           /\ \A ev : True(ev) => True(ev)'
           /\ \A pc, b : Evidence(pc, b) => Evidence(pc, b)'
           /\ \A k : TaskOK(k) => TaskOK(k)'
<1>1. \A b, c : Belongs(b, c) => Belongs(b, c)'
  BY DEF Grows, Belongs
<1>2. \A b : \A st \in {"filled", "cancelled"} : InStatus(b, st) => InStatus(b, st)'
  BY DEF Grows, InStatus
<1>3. \A ev : True(ev) => True(ev)'
  BY <1>1, <1>2 DEF True
<1>4. \A pc, b : Evidence(pc, b) => Evidence(pc, b)'
  BY <1>2 DEF Evidence
<1> QED BY <1>1, <1>3, <1>4 DEF TaskOK

\* A caller moves on with an order of its client and the evidence it needs.
LEMMA MovedTask ==
    ASSUME TasksOK, Grows, NEW t \in Tasks, NEW pc \in PCs, NEW b \in Nat,
           NEW c \in Clients, c = task[t].client, Goto(t, pc, b),
           Belongs(b, c)', Evidence(pc, b)'
    PROVE  TasksOK'
<1>1. /\ task = [u \in Tasks |-> task[u]] /\ TaskOK(task[t])
      /\ task' = [task EXCEPT ![t].pc = pc, ![t].order = b]
  BY DEF TasksOK, Goto
<1>2. PICK k : k = [pc |-> pc, client |-> c, order |-> b, before |-> task[t].before]
  OBVIOUS
<1>3. task'[t] = k
  BY <1>1, <1>2 DEF TaskOK
<1>4. TaskOK(k)'
  BY <1>2 DEF TaskOK
<1>5. task' = [u \in Tasks |-> task'[u]] /\ \A u \in Tasks : u # t => task'[u] = task[u]
  BY <1>1
<1>6. ASSUME NEW u \in Tasks PROVE TaskOK(task[u])'
  <2>1. CASE u = t
    BY <2>1, <1>3, <1>4
  <2>2. CASE u # t
    <3>1. PICK j : j = task[u]
      OBVIOUS
    <3>2. TaskOK(j)' /\ task'[u] = j
      BY <3>1, <2>2, <1>5, Grown DEF TasksOK
    <3> QED BY <3>2
  <2> QED BY <2>1, <2>2
<1> QED BY <1>5, <1>6 DEF TasksOK

LEMMA KeptTasks == ASSUME TasksOK, Grows, task' = task PROVE TasksOK'
BY Grown DEF TasksOK

LEMMA KeptLedger == ASSUME LedgerOK, Grows, ledger' = ledger PROVE LedgerOK'
BY Grown DEF LedgerOK

\* An appended event that is true keeps the ledger true.
LEMMA EnteredEvent ==
    ASSUME LedgerOK, Grows, NEW ev \in Entry, AppendEvent(ev), True(ev)'
    PROVE  LedgerOK'
<1>1. CASE ledger' = ledger
  BY <1>1, KeptLedger
<1>2. CASE ledger' = Append(ledger, ev)
  <2>1. /\ ledger' \in Seq(Entry) /\ Len(ledger) \in Nat
        /\ DOMAIN ledger = 1 .. Len(ledger) /\ DOMAIN ledger' = 1 .. Len(ledger) + 1
        /\ ledger'[Len(ledger) + 1] = ev
        /\ \A i \in 1 .. Len(ledger) : ledger'[i] = ledger[i]
    BY <1>2 DEF LedgerOK
  <2>2. ASSUME NEW i \in 1 .. Len(ledger) + 1 PROVE True(ledger[i])'
    <3>1. CASE i = Len(ledger) + 1
      BY <3>1, <2>1
    <3>2. CASE i \in 1 .. Len(ledger)
      <4>1. PICK e : e = ledger[i] /\ True(e)
        BY <3>2, <2>1 DEF LedgerOK
      <4>2. ledger'[i] = e /\ True(e)'
        BY <3>2, <4>1, <2>1, Grown
      <4> QED BY <4>2
    <3> QED BY <3>1, <3>2, <2>1
  <2> QED BY <2>1, <2>2 DEF LedgerOK
<1> QED BY <1>1, <1>2 DEF AppendEvent

LEMMA KeptMapping == ASSUME MappingOK, Grows, mapping' = mapping PROVE MappingOK'
BY Grown DEF MappingOK

LEMMA ReplacedMapping ==
    ASSUME LedgerOK, Grows, mapping' = Restored
    PROVE  MappingOK'
<1>1. PICK m : m = Restored
  OBVIOUS
<1>2. m \in [Clients -> Nat] /\ \A c \in Clients : Belongs(m[c], c)
  BY <1>1, RestoredOK
<1>3. \A c \in Clients : Belongs(m[c], c)'
  BY <1>2, Grown
<1>4. mapping' = m
  BY <1>1
<1> QED BY <1>2, <1>3, <1>4 DEF MappingOK

\* One client is mapped to an order of its own.
LEMMA AddedMapping ==
    ASSUME Grows, NEW m \in [Clients -> Nat], \A d \in Clients : Belongs(m[d], d),
           NEW c \in Clients, NEW b \in Nat, mapping' = [m EXCEPT ![c] = b], Belongs(b, c)'
    PROVE  MappingOK'
<1>1. mapping' \in [Clients -> Nat] /\ mapping'[c] = b /\ \A d \in Clients : d # c => mapping'[d] = m[d]
  OBVIOUS
<1>2. ASSUME NEW d \in Clients PROVE Belongs(mapping[d], d)'
  <2>1. CASE d = c
    BY <2>1, <1>1
  <2>2. CASE d # c
    <3>1. PICK x : x = m[d]
      OBVIOUS
    <3>2. Belongs(x, d)' /\ mapping'[d] = x
      BY <3>1, <2>2, <1>1, Grown
    <3> QED BY <3>2
  <2> QED BY <2>1, <2>2
<1> QED BY <1>1, <1>2 DEF MappingOK

LEMMA SameBroker ==
    ASSUME BrokerOK, RememberedOncePerClient, UNCHANGED <<broker, known, adapter>>, raced' \in BOOLEAN
    PROVE  BrokerOK' /\ RememberedOncePerClient' /\ Grows
BY DEF BrokerOK, RememberedOncePerClient, OneOrderPerClient, Remembers, Grows

\* The status of an order that is not filled, nor cancelled for good, changes.
LEMMA StatusSet ==
    ASSUME BrokerOK, RememberedOncePerClient, NEW b \in DOMAIN broker, NEW st \in BrokerStatus,
           broker' = [broker EXCEPT ![b].status = st],
           broker[b].status # "filled", broker[b].status = "cancelled" => st = "cancelled",
           UNCHANGED <<known, adapter, raced>>
    PROVE  /\ BrokerOK' /\ RememberedOncePerClient' /\ Grows
           /\ DOMAIN broker' = DOMAIN broker /\ broker'[b].status = st
<1>1. broker \in Seq(Order) /\ broker[b] \in Order
  BY DEF BrokerOK
<1>2. PICK r : r = [broker[b] EXCEPT !.status = st]
  OBVIOUS
<1>3. r \in Order /\ r.client = broker[b].client /\ r.status = st
  BY <1>1, <1>2 DEF Order
<1>4. broker' = [broker EXCEPT ![b] = r]
  BY <1>2
<1>5. /\ broker' \in Seq(Order) /\ DOMAIN broker' = DOMAIN broker /\ broker'[b] = r
      /\ \A d \in DOMAIN broker : d # b => broker'[d] = broker[d]
  BY <1>1, <1>3, <1>4
<1>6. Grows
  BY <1>3, <1>5 DEF Grows
<1>7. BrokerOK'
  BY <1>5 DEF BrokerOK, Remembers
<1>8. RememberedOncePerClient'
  BY <1>5, <1>6 DEF RememberedOncePerClient, OneOrderPerClient, Remembers, Grows
<1> QED BY <1>3, <1>5, <1>6, <1>7, <1>8

\* The broker takes an order: the adapter that remembers enters it into its
\* table, and has looked for the client's orders there before.
LEMMA OrderTaken ==
    ASSUME BrokerOK, RememberedOncePerClient, NEW c \in Clients, NEW st \in BrokerStatus,
           NEW n \in Nat, n = Len(broker) + 1, broker' = Append(broker, [client |-> c, status |-> st]),
           UNCHANGED <<adapter, raced>>,
           \/ known' = known \cup {n} /\ OrdersOf(c) = {}
           \/ known' = known /\ adapter = "webull"
    PROVE  /\ BrokerOK' /\ RememberedOncePerClient' /\ Grows
           /\ n # NoOrder /\ n \in DOMAIN broker' /\ broker'[n].client = c /\ broker'[n].status = st
<1>1. PICK r : r = [client |-> c, status |-> st]
  OBVIOUS
<1>2. r \in Order /\ r.client = c /\ r.status = st /\ broker \in Seq(Order)
  BY <1>1 DEF Order, BrokerOK
<1>3. broker' = Append(broker, r)
  BY <1>1
<1>4. /\ broker' \in Seq(Order) /\ Len(broker) \in Nat
      /\ DOMAIN broker = 1 .. Len(broker) /\ DOMAIN broker' = 1 .. Len(broker) + 1
      /\ broker'[n] = r /\ \A d \in DOMAIN broker : broker'[d] = broker[d]
  BY <1>2, <1>3
<1>5. DOMAIN broker' = DOMAIN broker \cup {n} /\ n # 0
  BY <1>4
<1>6. Grows
  BY <1>4, <1>5 DEF Grows
<1>7. BrokerOK'
  BY <1>4, <1>5 DEF BrokerOK, Remembers
<1>8. RememberedOncePerClient'
  <2> SUFFICES ASSUME Remembers PROVE OneOrderPerClient'
    BY DEF RememberedOncePerClient, Remembers
  <2>1. OrdersOf(c) = {} /\ known = DOMAIN broker
    BY DEF Remembers, BrokerOK
  <2>2. \A d \in DOMAIN broker : broker[d].client # c
    BY <2>1 DEF OrdersOf
  <2>3. \A d \in DOMAIN broker : broker'[d].client = broker[d].client
    BY <1>4
  <2>4. OneOrderPerClient
    BY DEF RememberedOncePerClient
  <2> QED BY <1>2, <1>4, <1>5, <2>2, <2>3, <2>4 DEF OneOrderPerClient
<1> QED BY <1>2, <1>4, <1>5, <1>6, <1>7, <1>8 DEF NoOrder

-----------------------------------------------------------------------------
(* The actions                                                             *)

\* A call of the runtime starts with no order, or with one it was given.
LEMMA CallKeeps ==
    ASSUME IInv, NEW t \in Tasks, NEW c \in Clients, NEW b \in Nat, Belongs(b, c),
           NEW pc \in PCs, pc \notin {"fill", "record", "cancellation", "accept"},
           pc = "by_id" => b # NoOrder, Call(t, c, b, pc)
    PROVE  IInv'
<1>1. /\ task' = [task EXCEPT ![t] = [Resting EXCEPT !.pc = pc, !.client = c, !.order = b]]
      /\ UNCHANGED <<broker, known, ledger, mapping, adapter, raced>>
  BY DEF Call
<1>2. BrokerOK' /\ RememberedOncePerClient' /\ Grows
  BY <1>1, SameBroker DEF IInv, BrokerOK
<1>3. MappingOK' /\ LedgerOK'
  BY <1>1, <1>2, KeptMapping, KeptLedger DEF IInv
<1>4. PICK z : /\ z = Resting
               /\ z = [pc |-> z.pc, client |-> z.client, order |-> z.order, before |-> z.before]
  <2>1. Resting.pc = "idle" /\ Resting.client = "none" /\ Resting.order = NoOrder /\ Resting.before = 0
    BY DEF Resting
  <2>2. Resting = [pc |-> Resting.pc, client |-> Resting.client, order |-> Resting.order,
                   before |-> Resting.before]
    BY <2>1 DEF Resting
  <2> QED BY <2>2
<1>5. PICK k : k = [z EXCEPT !.pc = pc, !.client = c, !.order = b]
  OBVIOUS
<1>6. TaskOK(k)
  <2>1. k.pc = pc /\ k.client = c /\ k.order = b
    BY <1>4, <1>5
  <2>2. k = [pc |-> k.pc, client |-> k.client, order |-> k.order, before |-> k.before]
    BY <1>4, <1>5
  <2> QED BY <2>1, <2>2 DEF TaskOK, Evidence
<1>7. task = [u \in Tasks |-> task[u]] /\ \A u \in Tasks : TaskOK(task[u])
  BY DEF IInv, TasksOK
<1>8. task' = [task EXCEPT ![t] = k]
  BY <1>1, <1>4, <1>5
<1>9. task' = [u \in Tasks |-> task'[u]] /\ \A u \in Tasks : TaskOK(task'[u])
  BY <1>6, <1>7, <1>8
<1>10. TasksOK'
  <2>1. \A u \in Tasks : TaskOK(task[u])'
    <3> TAKE u \in Tasks
    <3>1. PICK j : j = task'[u] /\ TaskOK(j)
      BY <1>9
    <3>2. TaskOK(j)'
      BY <3>1, <1>2, Grown
    <3> QED BY <3>1, <3>2
  <2> QED BY <1>9, <2>1 DEF TasksOK
<1> QED BY <1>2, <1>3, <1>10 DEF IInv

\* A step that leaves the broker and the ledger alone: the caller moves on,
\* and the mapping is kept or replaced by what the ledger holds.
LEMMA ReadingStep ==
    ASSUME IInv, NEW t \in Tasks, NEW pc \in PCs, NEW b \in Nat, NEW c \in Clients, c = task[t].client,
           Goto(t, pc, b), Belongs(b, c), Evidence(pc, b), MappingOK',
           UNCHANGED <<broker, known, ledger, adapter, raced>>
    PROVE  IInv'
<1>1. BrokerOK' /\ RememberedOncePerClient' /\ Grows
  BY SameBroker DEF IInv, BrokerOK
<1>2. Belongs(b, c)' /\ Evidence(pc, b)'
  BY <1>1, Grown
<1>3. TasksOK'
  BY <1>1, <1>2, MovedTask DEF IInv
<1>4. LedgerOK'
  BY <1>1, KeptLedger DEF IInv
<1> QED BY <1>1, <1>3, <1>4 DEF IInv

\* A step that appends a true event to the ledger.
LEMMA RecordingStep ==
    ASSUME IInv, NEW t \in Tasks, NEW pc \in PCs, NEW b \in Nat, NEW c \in Clients, c = task[t].client,
           Goto(t, pc, b), Belongs(b, c), Evidence(pc, b), MappingOK',
           NEW ev \in Entry, True(ev), AppendEvent(ev),
           UNCHANGED <<broker, known, adapter, raced>>
    PROVE  IInv'
<1>1. BrokerOK' /\ RememberedOncePerClient' /\ Grows
  BY SameBroker DEF IInv, BrokerOK
<1>2. Belongs(b, c)' /\ Evidence(pc, b)' /\ True(ev)'
  BY <1>1, Grown
<1>3. TasksOK'
  BY <1>1, <1>2, MovedTask DEF IInv
<1>4. LedgerOK'
  BY <1>1, <1>2, EnteredEvent DEF IInv
<1> QED BY <1>1, <1>3, <1>4 DEF IInv

\* The order and client of a caller under way, and what the ledger names.
LEMMA CallerHolds ==
    ASSUME IInv, NEW t \in Tasks, task[t].pc # "idle"
    PROVE  \E c \in Clients, b \in Nat :
               /\ c = task[t].client /\ b = task[t].order
               /\ Belongs(b, c) /\ Evidence(task[t].pc, b)
               /\ Recorded(c) \in Nat /\ Belongs(Recorded(c), c)
BY RecordedBelongs DEF IInv, TasksOK, TaskOK

LEMMA NoOrderHeld ==
    ASSUME NEW c, NEW pc, pc \notin {"fill", "record", "cancellation", "accept", "by_id"}
    PROVE  NoOrder \in Nat /\ Belongs(NoOrder, c) /\ \A b : Evidence(pc, b)
BY DEF NoOrder, Belongs, Evidence

\* submit_execution_command reads the session, finds the order or goes on.
LEMMA SubmitReads ==
    ASSUME IInv, NEW t \in Tasks,
           SubmitRestore(t) \/ SubmitResolve(t) \/ SubmitRecover(t) \/ SubmitFails(t)
    PROVE  IInv'
<1>0. task[t].pc # "idle"
  BY DEF SubmitRestore, SubmitResolve, SubmitRecover, SubmitFails
<1>1. PICK c \in Clients, b \in Nat :
        /\ c = task[t].client /\ b = task[t].order
        /\ Belongs(b, c) /\ Evidence(task[t].pc, b)
        /\ Recorded(c) \in Nat /\ Belongs(Recorded(c), c)
  BY <1>0, CallerHolds
<1>2. UNCHANGED <<broker, known, ledger, adapter, raced>>
  BY DEF SubmitRestore, SubmitResolve, SubmitRecover, SubmitFails, bounds
<1>3. BrokerOK /\ LedgerOK /\ MappingOK /\ RememberedOncePerClient /\ raced' \in BOOLEAN
  BY <1>2 DEF IInv, BrokerOK
<1>4. Grows
  BY <1>2, <1>3, SameBroker
<1>5. PICK r \in Nat : r = Recorded(c) /\ Belongs(r, c)
  BY <1>1
<1>6. PICK f \in Nat : f = FindByIntent(c) /\ Belongs(f, c)
  BY <1>3, FindByIntentFinds
<1>7. CASE SubmitRestore(t)
  <2>1. MappingOK'
    BY <1>3, <1>4, <1>7, ReplacedMapping DEF SubmitRestore
  <2>2. Goto(t, "returned", r) \/ Goto(t, "resolve", NoOrder)
    BY <1>1, <1>5, <1>7 DEF SubmitRestore
  <2> QED BY <1>1, <1>2, <1>5, <2>1, <2>2, NoOrderHeld, ReadingStep DEF PCs
<1>8. CASE SubmitResolve(t)
  <2>1. MappingOK'
    <3>1. CASE mapping' = mapping
      BY <3>1, <1>3, <1>4, KeptMapping
    <3>2. CASE mapping' = [mapping EXCEPT ![c] = r]
      <4>1. Belongs(r, c)'
        BY <1>4, <1>5, Grown
      <4> QED BY <3>2, <4>1, <1>3, <1>4, AddedMapping DEF MappingOK
    <3> QED BY <3>1, <3>2, <1>1, <1>5, <1>8 DEF SubmitResolve
  <2>2. Goto(t, "returned", r) \/ Goto(t, "request", NoOrder)
    BY <1>1, <1>5, <1>8 DEF SubmitResolve
  <2> QED BY <1>1, <1>2, <1>5, <2>1, <2>2, NoOrderHeld, ReadingStep DEF PCs
<1>9. CASE SubmitRecover(t)
  <2>1. mapping' = [mapping EXCEPT ![c] = f] /\ Goto(t, "recovered", f)
    BY <1>1, <1>6, <1>9 DEF SubmitRecover
  <2>2. Belongs(f, c)'
    BY <1>4, <1>6, Grown
  <2>3. MappingOK'
    BY <2>1, <2>2, <1>3, <1>4, AddedMapping DEF MappingOK
  <2> QED BY <1>1, <1>2, <1>6, <2>1, <2>3, NoOrderHeld, ReadingStep DEF PCs
<1>10. CASE SubmitFails(t)
  <2>1. Goto(t, "reject", NoOrder) /\ MappingOK'
    BY <1>3, <1>4, <1>10, KeptMapping DEF SubmitFails
  <2> QED BY <1>1, <1>2, <2>1, NoOrderHeld, ReadingStep DEF PCs
<1> QED BY <1>7, <1>8, <1>9, <1>10

\* What submit_execution_command records names no order, or the one it holds.
LEMMA SubmitRecords ==
    ASSUME IInv, NEW t \in Tasks,
           SubmitRequest(t) \/ SubmitReject(t) \/ SubmitRecovered(t) \/ SubmitAccept(t)
    PROVE  IInv'
<1>0. task[t].pc # "idle"
  BY DEF SubmitRequest, SubmitReject, SubmitRecovered, SubmitAccept
<1>1. PICK c \in Clients, b \in Nat :
        /\ c = task[t].client /\ b = task[t].order
        /\ Belongs(b, c) /\ Evidence(task[t].pc, b)
  BY <1>0, CallerHolds
<1>2. UNCHANGED <<broker, known, adapter, raced>> /\ mapping' = mapping
  BY DEF SubmitRequest, SubmitReject, SubmitRecovered, SubmitAccept, bounds
<1>3. BrokerOK /\ MappingOK /\ RememberedOncePerClient /\ raced' \in BOOLEAN
  BY <1>2 DEF IInv, BrokerOK
<1>4. MappingOK'
  BY <1>2, <1>3, SameBroker, KeptMapping
<1>5. ASSUME NEW type \in {"requested", "accepted", "rejection"}, NEW d \in {NoOrder, b}
      PROVE  Event(type, c, d) \in Entry /\ True(Event(type, c, d))
  BY <1>1, NoOrderHeld DEF Event, Entry, EventTypes, True, Belongs, NoOrder
<1>6. CASE SubmitRequest(t)
  <2>1. AppendEvent(Event("requested", c, NoOrder)) /\ Goto(t, "send", NoOrder)
    BY <1>1, <1>6 DEF SubmitRequest
  <2> QED BY <1>1, <1>2, <1>4, <1>5, <2>1, NoOrderHeld, RecordingStep DEF PCs
<1>7. CASE SubmitReject(t)
  <2>1. AppendEvent(Event("rejection", c, NoOrder)) /\ Goto(t, "raised", NoOrder)
    BY <1>1, <1>7 DEF SubmitReject
  <2> QED BY <1>1, <1>2, <1>4, <1>5, <2>1, NoOrderHeld, RecordingStep DEF PCs
<1>8. CASE SubmitRecovered(t)
  <2>1. AppendEvent(Event("accepted", c, b)) /\ Goto(t, "returned", b)
    BY <1>1, <1>8 DEF SubmitRecovered
  <2> QED BY <1>1, <1>2, <1>4, <1>5, <2>1, NoOrderHeld, RecordingStep DEF PCs
<1>9. CASE SubmitAccept(t)
  <2>1. /\ AppendEvent(Event("accepted", c, b))
        /\ Goto(t, "returned", b) \/ (Goto(t, "fill", b) /\ broker[b].status = "filled")
        /\ b # NoOrder
    BY <1>1, <1>9 DEF SubmitAccept, Evidence
  <2>2. broker[b].status = "filled" => Evidence("fill", b)
    BY <2>1, <1>1 DEF Evidence, InStatus, Belongs
  <2> QED BY <1>1, <1>2, <1>4, <1>5, <2>1, <2>2, NoOrderHeld, RecordingStep DEF PCs
<1> QED BY <1>6, <1>7, <1>8, <1>9

\* An order reaches the broker, with or without its reply.
LEMMA SubmitPlaces ==
    ASSUME IInv, NEW t \in Tasks, SubmitPlaced(t) \/ SubmitReplyLost(t)
    PROVE  IInv'
<1>0. task[t].pc # "idle" /\ FindByIntent(task[t].client) = NoOrder
  BY DEF SubmitPlaced, SubmitReplyLost
<1>1. PICK c \in Clients : c = task[t].client
  BY <1>0, CallerHolds
<1>2. BrokerOK /\ LedgerOK /\ MappingOK /\ TasksOK /\ RememberedOncePerClient
  BY DEF IInv
<1>3. OrdersOf(c) = {}
  BY <1>0, <1>1, <1>2, FindByIntentFinds
<1>4. PICK n \in Nat : n = Len(broker) + 1
  BY <1>2 DEF BrokerOK
<1>5. CASE SubmitPlaced(t)
  <2>1. PICK st \in {"open", "filled"} : broker' = Append(broker, [client |-> c, status |-> st])
    BY <1>1, <1>5 DEF SubmitPlaced
  <2>2. /\ known' = known \cup {n} /\ mapping' = [mapping EXCEPT ![c] = n] /\ Goto(t, "accept", n)
        /\ UNCHANGED <<adapter, raced>> /\ ledger' = ledger
    BY <1>1, <1>4, <1>5 DEF SubmitPlaced, bounds
  <2>3. st \in BrokerStatus
    BY DEF BrokerStatus
  <2>4. /\ BrokerOK' /\ RememberedOncePerClient' /\ Grows
        /\ n # NoOrder /\ n \in DOMAIN broker' /\ broker'[n].client = c
    <3>1. known' = known \cup {n} /\ OrdersOf(c) = {} /\ UNCHANGED <<adapter, raced>>
      BY <1>3, <2>2
    <3>2. BrokerOK /\ RememberedOncePerClient
      BY <1>2
    <3> QED BY <3>1, <3>2, <1>4, <2>1, <2>3, OrderTaken, Zenon
  <2>5. Belongs(n, c)' /\ Evidence("accept", n)'
    BY <2>4 DEF Belongs, Evidence
  <2>6. MappingOK'
    BY <1>2, <2>2, <2>4, <2>5, AddedMapping DEF MappingOK
  <2>7. TasksOK'
    <3>1. "accept" \in PCs
      BY DEF PCs
    <3> QED BY <1>1, <1>2, <2>2, <2>4, <2>5, <3>1, MovedTask
  <2>8. LedgerOK'
    BY <1>2, <2>2, <2>4, KeptLedger
  <2> QED BY <2>4, <2>6, <2>7, <2>8 DEF IInv
<1>6. CASE SubmitReplyLost(t)
  <2>1. /\ broker' = Append(broker, [client |-> c, status |-> "open"]) /\ adapter = "webull"
        /\ known' = known /\ mapping' = mapping /\ Goto(t, "reject", NoOrder)
        /\ UNCHANGED <<adapter, raced>> /\ ledger' = ledger
    BY <1>1, <1>6 DEF SubmitReplyLost
  <2>2. "open" \in BrokerStatus
    BY DEF BrokerStatus
  <2>3. BrokerOK' /\ RememberedOncePerClient' /\ Grows
    BY <1>2, <1>3, <1>4, <2>1, <2>2, OrderTaken
  <2>4. NoOrder \in Nat /\ Belongs(NoOrder, c)' /\ Evidence("reject", NoOrder)'
    BY DEF NoOrder, Belongs, Evidence
  <2>5. TasksOK'
    BY <1>1, <1>2, <2>1, <2>3, <2>4, MovedTask DEF PCs
  <2> QED BY <1>2, <2>1, <2>3, <2>5, KeptLedger, KeptMapping DEF IInv
<1> QED BY <1>5, <1>6

\* record_verified_fill is entered with a filled order, which stays filled.
LEMMA FillKeeps ==
    ASSUME IInv, NEW t \in Tasks, FillBefore(t) \/ FillRecord(t) \/ FillAnnounce(t)
    PROVE  IInv'
<1>0. task[t].pc # "idle"
  BY DEF FillBefore, FillRecord, FillAnnounce
<1>1. PICK c \in Clients, b \in Nat :
        /\ c = task[t].client /\ b = task[t].order
        /\ Belongs(b, c) /\ Evidence(task[t].pc, b)
  BY <1>0, CallerHolds
<1>2. BrokerOK /\ LedgerOK /\ MappingOK /\ TasksOK /\ RememberedOncePerClient /\ raced \in BOOLEAN
  BY DEF IInv, BrokerOK
<1>3. CASE FillBefore(t)
  <2>1. /\ task' = [task EXCEPT ![t].pc = "record", ![t].before = Position]
        /\ raced' \in BOOLEAN /\ UNCHANGED <<broker, known, adapter>>
        /\ ledger' = ledger /\ mapping' = mapping /\ task[t].pc = "fill"
    BY <1>2, <1>3 DEF FillBefore
  <2>2. BrokerOK' /\ RememberedOncePerClient' /\ Grows
    BY <1>2, <2>1, SameBroker
  <2>3. PICK p : p = Position
    OBVIOUS
  <2>4. PICK k : k = [pc |-> "record", client |-> c, order |-> b, before |-> p]
    OBVIOUS
  <2>5. /\ task'[t] = k /\ task' = [u \in Tasks |-> task'[u]]
        /\ \A u \in Tasks : u # t => task'[u] = task[u]
    <3>1. task = [u \in Tasks |-> task[u]] /\ TaskOK(task[t])
      BY <1>2 DEF TasksOK
    <3> QED BY <1>1, <2>1, <2>3, <2>4, <3>1 DEF TaskOK
  <2>6. Evidence("record", b)
    BY <1>1, <2>1 DEF Evidence
  <2>7. TaskOK(k)
    <3>1. k.pc = "record" /\ k.client = c /\ k.order = b
      BY <2>4
    <3>2. k = [pc |-> k.pc, client |-> k.client, order |-> k.order, before |-> k.before]
      BY <2>4
    <3> QED BY <1>1, <2>6, <3>1, <3>2 DEF TaskOK, PCs
  <2>8. TasksOK'
    <3>1. ASSUME NEW u \in Tasks PROVE TaskOK(task[u])'
      <4>1. PICK j : j = task'[u] /\ TaskOK(j)
        BY <1>2, <2>5, <2>7 DEF TasksOK
      <4>2. TaskOK(j)'
        BY <4>1, <2>2, Grown
      <4> QED BY <4>1, <4>2
    <3> QED BY <2>5, <3>1 DEF TasksOK
  <2> QED BY <1>2, <2>1, <2>2, <2>8, KeptLedger, KeptMapping DEF IInv
<1>4. CASE FillRecord(t)
  <2>1. PICK ev : ev = Event("final_fill", c, b)
    OBVIOUS
  <2>2. /\ AppendEvent(ev) /\ (Goto(t, "returned", b) \/ Goto(t, "announce", b))
        /\ UNCHANGED <<broker, known, adapter, raced>> /\ task[t].pc = "record"
    BY <1>1, <1>4, <2>1 DEF FillRecord, bounds
  <2>3. mapping' = [mapping EXCEPT ![c] = IF @ = NoOrder THEN b ELSE @]
    BY <1>1, <1>4 DEF FillRecord
  <2>4. Grows
    BY <1>2, <2>2, SameBroker
  <2>5. InStatus(b, "filled")
    BY <1>1, <2>2 DEF Evidence
  <2>6. ev \in Entry /\ True(ev)
    BY <1>1, <2>1, <2>5 DEF Event, Entry, EventTypes, True
  <2>7. PICK m \in Nat : /\ m = IF mapping[c] = NoOrder THEN b ELSE mapping[c]
                         /\ Belongs(m, c)
    BY <1>1, <1>2 DEF MappingOK
  <2>8. mapping' = [mapping EXCEPT ![c] = m] /\ Belongs(m, c)'
    BY <2>3, <2>4, <2>7, Grown
  <2>9. MappingOK'
    BY <1>2, <2>4, <2>8, AddedMapping DEF MappingOK
  <2> QED BY <1>1, <2>2, <2>6, <2>9, NoOrderHeld, RecordingStep DEF PCs
<1>5. CASE FillAnnounce(t)
  <2>1. Goto(t, "returned", b) /\ UNCHANGED <<broker, known, ledger, adapter, raced>> /\ mapping' = mapping
    BY <1>1, <1>5 DEF FillAnnounce, bounds
  <2>2. MappingOK'
    BY <1>2, <2>1, SameBroker, KeptMapping
  <2> QED BY <1>1, <2>1, <2>2, NoOrderHeld, ReadingStep DEF PCs
<1> QED BY <1>3, <1>4, <1>5

\* on_broker_update goes on by the status the adapter reports.
LEMMA UpdateHasEvidence ==
    ASSUME NEW c, NEW b, Belongs(b, c), GetOrder(b)
    PROVE  UpdateFor(b) \in PCs /\ Evidence(UpdateFor(b), b)
<1>1. b # NoOrder /\ b \in DOMAIN broker
  BY DEF GetOrder, Belongs
<1>2. \/ UpdateFor(b) = "cancellation" /\ broker[b].status = "cancelled"
      \/ UpdateFor(b) = "fill" /\ broker[b].status = "filled"
      \/ UpdateFor(b) \in {"rejection", "polled"}
  BY DEF UpdateFor
<1> QED BY <1>1, <1>2 DEF Evidence, InStatus, PCs

LEMMA PollKeeps ==
    ASSUME IInv, NEW t \in Tasks,
           PollMapped(t) \/ PollUnmapped(t) \/ PollRestore(t) \/ CancelRefused(t) \/ CancelByIdRecorded(t)
    PROVE  IInv'
<1>0. task[t].pc # "idle"
  BY DEF PollMapped, PollUnmapped, PollRestore, CancelRefused, CancelByIdRecorded
<1>1. PICK c \in Clients, b \in Nat :
        /\ c = task[t].client /\ b = task[t].order
        /\ Recorded(c) \in Nat /\ Belongs(Recorded(c), c)
  BY <1>0, CallerHolds
<1>2. BrokerOK /\ LedgerOK /\ MappingOK /\ RememberedOncePerClient /\ raced \in BOOLEAN
  BY DEF IInv, BrokerOK
<1>3. UNCHANGED <<broker, known, ledger, adapter, raced>>
  BY DEF PollMapped, PollUnmapped, PollRestore, CancelRefused, CancelByIdRecorded, bounds
<1>4. Grows
  BY <1>2, <1>3, SameBroker
<1>5. MappingOK'
  <2>1. mapping' = mapping \/ mapping' = Restored
    BY DEF PollMapped, PollUnmapped, PollRestore, CancelRefused, CancelByIdRecorded
  <2> QED BY <2>1, <1>2, <1>4, KeptMapping, ReplacedMapping
<1>6. PICK r \in Nat : r = Recorded(c) /\ Belongs(r, c)
  BY <1>1
<1>7. PICK m \in Nat : m = mapping[c] /\ Belongs(m, c)
  BY <1>2 DEF MappingOK
<1>8. CASE PollMapped(t)
  <2>1. \/ GetOrder(m) /\ Goto(t, UpdateFor(m), m)
        \/ Goto(t, "polled", m)
    BY <1>1, <1>7, <1>8 DEF PollMapped
  <2> QED BY <1>1, <1>3, <1>5, <1>7, <2>1, UpdateHasEvidence, NoOrderHeld, ReadingStep DEF PCs
<1>9. CASE PollUnmapped(t)
  <2>1. Goto(t, "reload", NoOrder)
    BY <1>9 DEF PollUnmapped
  <2> QED BY <1>1, <1>3, <1>5, <2>1, NoOrderHeld, ReadingStep DEF PCs
<1>10. CASE PollRestore(t)
  <2>1. \/ GetOrder(r) /\ Goto(t, UpdateFor(r), r)
        \/ Goto(t, "polled", r)
    BY <1>1, <1>6, <1>10 DEF PollRestore
  <2> QED BY <1>1, <1>3, <1>5, <1>6, <2>1, UpdateHasEvidence, NoOrderHeld, ReadingStep DEF PCs
<1>11. CASE CancelRefused(t)
  <2>1. Goto(t, "raised", NoOrder)
    BY <1>11 DEF CancelRefused
  <2> QED BY <1>1, <1>3, <1>5, <2>1, NoOrderHeld, ReadingStep DEF PCs
<1>12. CASE CancelByIdRecorded(t)
  <2>1. Goto(t, "cancel", NoOrder)
    BY <1>12 DEF CancelByIdRecorded
  <2> QED BY <1>1, <1>3, <1>5, <2>1, NoOrderHeld, ReadingStep DEF PCs
<1> QED BY <1>8, <1>9, <1>10, <1>11, <1>12

\* A cancellation or rejection is recorded as the caller learned of it.
LEMMA UpdateRecordKeeps == ASSUME IInv, NEW t \in Tasks, UpdateRecord(t) PROVE IInv'
<1>1. PICK c \in Clients, b \in Nat :
        /\ c = task[t].client /\ b = task[t].order
        /\ Belongs(b, c) /\ Evidence(task[t].pc, b)
  BY CallerHolds DEF UpdateRecord
<1>2. PICK pc \in {"cancellation", "rejection"} : pc = task[t].pc
  BY DEF UpdateRecord
<1>3. PICK ev : ev = Event(pc, c, b)
  OBVIOUS
<1>4. AppendEvent(ev) /\ Goto(t, "returned", b) /\ UNCHANGED <<broker, known, adapter, raced>>
      /\ mapping' = mapping
  BY <1>1, <1>2, <1>3 DEF UpdateRecord, bounds
<1>5. BrokerOK /\ MappingOK /\ RememberedOncePerClient /\ raced' \in BOOLEAN
  BY <1>4 DEF IInv, BrokerOK
<1>6. MappingOK'
  BY <1>4, <1>5, SameBroker, KeptMapping
<1>7. ev \in Entry /\ True(ev)
  BY <1>1, <1>2, <1>3 DEF Event, Entry, EventTypes, True, Evidence
<1> QED BY <1>1, <1>4, <1>6, <1>7, NoOrderHeld, RecordingStep DEF PCs

\* The broker agrees to cancel: the order is cancelled before it is recorded.
LEMMA CancelKeeps ==
    ASSUME IInv, NEW t \in Tasks, CancelSent(t) \/ CancelByIdUnrecorded(t)
    PROVE  IInv'
<1>0. task[t].pc # "idle"
  BY DEF CancelSent, CancelByIdUnrecorded
<1>1. PICK c \in Clients, b \in Nat :
        /\ c = task[t].client /\ b = task[t].order
        /\ Belongs(b, c) /\ Evidence(task[t].pc, b)
        /\ Recorded(c) \in Nat /\ Belongs(Recorded(c), c)
  BY <1>0, CallerHolds
<1>2. BrokerOK /\ LedgerOK /\ MappingOK /\ TasksOK /\ RememberedOncePerClient /\ raced \in BOOLEAN
  BY DEF IInv, BrokerOK
<1>3. UNCHANGED <<known, adapter, raced>> /\ ledger' = ledger
  BY DEF CancelSent, CancelByIdUnrecorded, bounds
<1>4. "cancelled" \in BrokerStatus
  BY DEF BrokerStatus
\* The order d of the client is cancelled at the broker and the caller moves on.
<1>5. ASSUME NEW d \in Nat, d # NoOrder, Belongs(d, c), broker[d].status # "filled",
             broker' = [broker EXCEPT ![d].status = "cancelled"],
             NEW pc \in {"cancellation", "raised"}, Goto(t, pc, d),
             mapping' = Restored \/ mapping' = [Restored EXCEPT ![c] = d]
      PROVE  IInv'
  <2>1. d \in DOMAIN broker
    BY <1>5 DEF Belongs
  <2>2. /\ BrokerOK' /\ RememberedOncePerClient' /\ Grows
        /\ DOMAIN broker' = DOMAIN broker /\ broker'[d].status = "cancelled"
    BY <1>2, <1>3, <1>4, <1>5, <2>1, StatusSet
  <2>3. Belongs(d, c)'
    BY <1>5, <2>2, Grown
  <2>4. Evidence(pc, d)'
    BY <1>5, <2>1, <2>2 DEF Evidence, InStatus
  <2>5. TasksOK'
    <3>1. pc \in PCs
      BY DEF PCs
    <3> QED BY <1>1, <1>2, <1>5, <2>2, <2>3, <2>4, <3>1, MovedTask
  <2>6. MappingOK'
    <3>1. CASE mapping' = Restored
      BY <3>1, <1>2, <2>2, ReplacedMapping
    <3>2. CASE mapping' = [Restored EXCEPT ![c] = d]
      <4>1. Restored \in [Clients -> Nat] /\ \A e \in Clients : Belongs(Restored[e], e)
        BY <1>2, RestoredOK
      <4> QED BY <3>2, <4>1, <2>2, <2>3, AddedMapping
    <3> QED BY <3>1, <3>2, <1>5
  <2>7. LedgerOK'
    BY <1>2, <1>3, <2>2, KeptLedger
  <2> QED BY <2>2, <2>5, <2>6, <2>7 DEF IInv
<1>6. CASE CancelSent(t)
  <2>1. PICK r \in Nat : r = Recorded(c) /\ Belongs(r, c)
    BY <1>1
  <2>2. /\ r # NoOrder /\ broker[r].status # "filled" /\ mapping' = Restored
        /\ broker' = [broker EXCEPT ![r].status = "cancelled"]
        /\ Goto(t, "cancellation", r) \/ Goto(t, "raised", r)
    BY <1>1, <1>6, <2>1 DEF CancelSent
  <2> QED BY <1>5, <2>1, <2>2
<1>7. CASE CancelByIdUnrecorded(t)
  <2>1. b # NoOrder
    BY <1>1, <1>7 DEF CancelByIdUnrecorded, Evidence
  <2>2. CASE broker[b].status = "filled" \/ b \notin known
    <3>1. broker' = broker /\ mapping' = Restored /\ Goto(t, "raised", NoOrder)
      BY <1>1, <1>7, <2>2 DEF CancelByIdUnrecorded
    <3>2. UNCHANGED <<broker, known, adapter>> /\ UNCHANGED <<broker, known, ledger, adapter, raced>>
          /\ raced' \in BOOLEAN
      BY <1>2, <1>3, <3>1
    <3>3. Grows
      BY <1>2, <3>2, SameBroker
    <3>4. MappingOK'
      BY <1>2, <3>1, <3>3, ReplacedMapping
    <3> QED BY <1>1, <3>1, <3>2, <3>4, NoOrderHeld, ReadingStep DEF PCs
  <2>3. CASE ~(broker[b].status = "filled" \/ b \notin known)
    <3>1. /\ broker' = [broker EXCEPT ![b].status = "cancelled"] /\ broker[b].status # "filled"
          /\ mapping' = [Restored EXCEPT ![c] = b] /\ Goto(t, "cancellation", b)
      BY <1>1, <1>7, <2>3 DEF CancelByIdUnrecorded
    <3> QED BY <1>1, <1>5, <2>1, <3>1
  <2> QED BY <2>2, <2>3
<1> QED BY <1>6, <1>7

\* The market fills or the exchange rejects an order that rests.
LEMMA BrokerActsKeeps == ASSUME IInv, NEW b \in DOMAIN broker, BrokerActs(b) PROVE IInv'
<1>1. PICK st \in {"filled", "rejected"} : broker' = [broker EXCEPT ![b].status = st]
  BY DEF BrokerActs
<1>2. /\ broker[b].status = "open" /\ UNCHANGED <<known, adapter, raced>>
      /\ ledger' = ledger /\ mapping' = mapping /\ task' = task
  BY DEF BrokerActs, bounds
<1>3. st \in BrokerStatus /\ BrokerOK /\ RememberedOncePerClient
  BY DEF BrokerStatus, IInv
<1>4. BrokerOK' /\ RememberedOncePerClient' /\ Grows
  BY <1>1, <1>2, <1>3, StatusSet
<1> QED BY <1>2, <1>4, KeptLedger, KeptMapping, KeptTasks DEF IInv

LEMMA RestingOK == TaskOK(Resting)
<1>1. Resting.pc = "idle" /\ Resting.client = "none" /\ Resting.order = NoOrder /\ Resting.before = 0
  BY DEF Resting
<1>2. Resting = [pc |-> Resting.pc, client |-> Resting.client, order |-> Resting.order,
                 before |-> Resting.before]
  BY <1>1 DEF Resting
<1> QED BY <1>1, <1>2 DEF TaskOK, PCs, NoOrder, Belongs, Evidence

\* A restart drops the callers and, with WebullClient, the adapter's table.
LEMMA RestartKeeps == ASSUME IInv, Restart PROVE IInv'
<1>1. /\ task' = [t \in Tasks |-> Resting] /\ mapping' = Restored
      /\ known' = IF Remembers THEN known ELSE {}
      /\ UNCHANGED <<adapter, broker, raced>> /\ ledger' = ledger
  BY DEF Restart
<1>2. Grows
  BY <1>1 DEF Grows
<1>3. BrokerOK' /\ RememberedOncePerClient'
  BY <1>1 DEF IInv, BrokerOK, RememberedOncePerClient, OneOrderPerClient, Remembers
<1>4. MappingOK' /\ LedgerOK'
  BY <1>1, <1>2, ReplacedMapping, KeptLedger DEF IInv
<1>5. TasksOK'
  <2>1. PICK k : k = Resting /\ TaskOK(k)
    BY RestingOK
  <2>2. TaskOK(k)' /\ \A t \in Tasks : task'[t] = k
    BY <1>1, <1>2, <2>1, Grown
  <2>3. task' = [t \in Tasks |-> task'[t]]
    BY <1>1
  <2> QED BY <2>2, <2>3 DEF TasksOK
<1> QED BY <1>3, <1>4, <1>5 DEF IInv

LEMMA InitIInv == Init => IInv
<1> SUFFICES ASSUME Init PROVE IInv
  OBVIOUS
<1>1. BrokerOK
  <2>1. adapter \in Adapters /\ raced \in BOOLEAN
    BY Zenon DEF Init
  <2>2. broker = <<>> /\ known = {}
    BY DEF Init
  <2>3. broker \in Seq(Order) /\ DOMAIN broker = {}
    BY <2>2
  <2> QED BY <2>1, <2>2, <2>3 DEF BrokerOK
<1>2. MappingOK
  BY DEF Init, MappingOK, Belongs, NoOrder
<1>3. LedgerOK
  BY DEF Init, LedgerOK
<1>4. TasksOK
  BY RestingOK DEF Init, TasksOK
<1>5. RememberedOncePerClient
  BY DEF Init, RememberedOncePerClient, OneOrderPerClient
<1> QED BY <1>1, <1>2, <1>3, <1>4, <1>5 DEF IInv

\* Every step of the runtime, its callers and the broker keeps the invariant.
LEMMA IInvStep == ASSUME IInv, [Next]_vars PROVE IInv'
<1>1. ASSUME NEW t \in Tasks, NEW c \in Clients, Submit(t, c) \/ Poll(t, c) \/ Cancel(t, c) PROVE IInv'
  <2>1. \E pc \in {"restore", "poll", "cancel"} : Call(t, c, NoOrder, pc)
    BY <1>1 DEF Submit, Poll, Cancel
  <2> QED BY <2>1, NoOrderHeld, CallKeeps DEF PCs
<1>2. ASSUME NEW t \in Tasks, NEW b \in DOMAIN broker, CancelById(t, b) PROVE IInv'
  <2>1. broker \in Seq(Order) /\ Call(t, broker[b].client, b, "by_id")
    BY <1>2 DEF CancelById, IInv, BrokerOK
  <2>2. PICK c \in Clients : c = broker[b].client
    <3>1. broker[b] \in Order
      BY <2>1
    <3> QED BY <3>1 DEF Order
  <2>3. b \in Nat /\ b # NoOrder /\ Belongs(b, c)
    BY <2>1, <2>2 DEF NoOrder, Belongs
  <2>4. "by_id" \in PCs /\ Call(t, c, b, "by_id")
    BY <2>1, <2>2 DEF PCs
  <2> QED BY <2>3, <2>4, CallKeeps
<1>3. ASSUME NEW t \in Tasks, Step(t) PROVE IInv'
  BY <1>3, SubmitReads, SubmitRecords, SubmitPlaces, FillKeeps, PollKeeps, UpdateRecordKeeps, CancelKeeps
     DEF Step
<1>4. ASSUME NEW b \in DOMAIN broker, BrokerActs(b) PROVE IInv'
  BY <1>4, BrokerActsKeeps
<1>5. CASE Restart
  BY <1>5, RestartKeeps
<1>6. CASE UNCHANGED vars
  <2>1. UNCHANGED <<broker, known, adapter>> /\ raced' = raced
        /\ ledger' = ledger /\ mapping' = mapping /\ task' = task
    BY <1>6 DEF vars
  <2>2. raced' \in BOOLEAN /\ BrokerOK /\ RememberedOncePerClient
    BY <2>1 DEF IInv, BrokerOK
  <2>3. BrokerOK' /\ RememberedOncePerClient' /\ Grows
    BY <2>1, <2>2, SameBroker
  <2> QED BY <2>1, <2>3, KeptLedger, KeptMapping, KeptTasks DEF IInv
<1> QED BY <1>1, <1>2, <1>3, <1>4, <1>5, <1>6 DEF Next

LEMMA InvariantHolds == Spec => []IInv
<1>1. Init => IInv
  BY InitIInv
<1>2. IInv /\ [Next]_vars => IInv'
  BY IInvStep
<1> QED BY <1>1, <1>2, PTL DEF Spec

\* Type correctness of the runtime: mappings and callers name orders of the
\* broker's books, and so does the adapter's table.
THEOREM RuntimeTypeCorrect == Spec => []TypeOK
<1>1. ASSUME IInv PROVE TypeOK
  <2>1. BrokerOK /\ MappingOK /\ TasksOK /\ broker \in Seq(Order)
    BY <1>1 DEF IInv, BrokerOK
  <2>2. ASSUME NEW b \in DOMAIN broker
        PROVE  broker[b].client \in Clients /\ broker[b].status \in BrokerStatus
    <3>1. broker[b] \in Order
      BY <2>1
    <3> QED BY <3>1 DEF Order
  <2>3. mapping \in [Clients -> {NoOrder} \cup DOMAIN broker]
    BY <2>1 DEF MappingOK, Belongs
  <2>4. \A t \in Tasks : task[t].order \in {NoOrder} \cup DOMAIN broker
    BY <2>1 DEF TasksOK, TaskOK, Belongs
  <2> QED BY <2>1, <2>2, <2>3, <2>4 DEF TypeOK, BrokerOK
<1> QED BY <1>1, InvariantHolds, PTL

\* submit_execution_command places a client order id once, for any number of
\* clients, concurrent callers, calls and restarts, with an adapter that keeps
\* its table of orders.
THEOREM AlwaysOncePerClient == Spec => []RememberedOncePerClient
<1>1. IInv => RememberedOncePerClient
  BY DEF IInv
<1> QED BY <1>1, InvariantHolds, PTL

\* The ledger never claims what the broker does not know, for any number of
\* clients, concurrent callers, lost replies and restarts.
THEOREM LedgerAlwaysTrue == Spec => []LedgerIsTrue
<1>1. IInv => LedgerIsTrue
  BY DEF IInv, LedgerOK, True, Belongs, InStatus, LedgerIsTrue
<1> QED BY <1>1, InvariantHolds, PTL
-----------------------------------------------------------------------------
(* What is announced                                                       *)

\* A caller between reading the position and announcing its change.
Recording == {"record", "announce"}

\* The last announcement tells whether p is an open position.
Told(p) ==
    IF p = 0 THEN announced = <<>> \/ Last(announced) = "closed"
    ELSE announced # <<>> /\ Last(announced) # "closed"

\* Without a race one caller records at a time.  Until it announces, the last
\* announcement tells of the position it has read, and until it appends that
\* position is still the projected one.
AnnouncedOK ==
    /\ \A t, u \in Tasks : task[t].pc \in Recording /\ task[u].pc \in Recording => t = u
    /\ Settled => Told(Position)
    /\ \A t \in Tasks :
        /\ task[t].pc \in Recording => Told(task[t].before)
        /\ task[t].pc = "record" => task[t].before = Position

AnnounceInv ==
    /\ crashes \in Nat
    /\ announced \in Seq({"opened", "closed", "changed"})
    /\ crashes = 0 /\ ~raced => AnnouncedOK

\* Only a fill moves the projected position.
LEMMA PositionKept ==
    ASSUME LedgerOK, NEW ev, ev.type # "final_fill", AppendEvent(ev)
    PROVE  Position' = Position
<1>1. ledger \in Seq(Entry)
  BY DEF LedgerOK
<1>2. CASE InLedger(ev)
  BY <1>2 DEF AppendEvent, Position, FillsOf
<1>3. CASE ~InLedger(ev)
  <2>1. ledger' = Append(ledger, ev)
    BY <1>3 DEF AppendEvent
  <2>2. /\ DOMAIN ledger' = DOMAIN ledger \cup {Len(ledger) + 1}
        /\ ledger'[Len(ledger) + 1] = ev
        /\ \A i \in DOMAIN ledger : ledger'[i] = ledger[i]
    BY <1>1, <2>1
  <2>3. ASSUME NEW s PROVE FillsOf(s)' = FillsOf(s)
    BY <2>2 DEF FillsOf
  <2> QED BY <2>3 DEF Position
<1> QED BY <1>2, <1>3

\* A step of caller t that neither enters nor leaves the recording of a fill.
Aside(t) ==
    /\ announced' = announced /\ raced' = raced /\ crashes' = crashes /\ Position' = Position
    /\ task[t].pc \notin Recording /\ task'[t].pc \notin Recording
    /\ \A u \in Tasks \ {t} : task'[u] = task[u]

LEMMA AsideKeeps == ASSUME AnnounceInv, NEW t \in Tasks, Aside(t) PROVE AnnounceInv'
<1>1. crashes' \in Nat /\ announced' \in Seq({"opened", "closed", "changed"})
  BY DEF AnnounceInv, Aside
<1>2. ASSUME crashes' = 0, ~raced' PROVE AnnouncedOK'
  <2>1. AnnouncedOK
    BY <1>2 DEF AnnounceInv, Aside
  <2>2. ASSUME NEW p PROVE Told(p)' <=> Told(p)
    BY DEF Told, Aside
  <2>3. \A u \in Tasks : task'[u].pc \in Recording => task'[u] = task[u]
    BY DEF Aside
  <2>4. Settled' => Settled
    <3>1. \A u \in Tasks : task[u].pc \in Recording => task'[u] = task[u]
      BY DEF Aside
    <3> QED BY <3>1 DEF Settled, Recording
  <2>5. (Settled => Told(Position))'
    BY <2>1, <2>4 DEF AnnouncedOK, Told, Aside
  <2>6. ASSUME NEW u \in Tasks, task'[u].pc \in Recording
        PROVE  Told(task[u].before)' /\ (task'[u].pc = "record" => task'[u].before = Position')
    <3>1. task'[u] = task[u]
      BY <2>3, <2>6
    <3>2. Told(task[u].before)
      BY <2>1, <2>6, <3>1 DEF AnnouncedOK
    <3>3. Told(task[u].before)'
      BY <3>1, <3>2 DEF Told, Aside
    <3> QED BY <2>1, <2>6, <3>1, <3>3 DEF AnnouncedOK, Aside
  <2>7. \A u \in Tasks : task'[u].pc = "record" => task'[u].pc \in Recording
    BY DEF Recording
  <2>8. ASSUME NEW u \in Tasks, NEW v \in Tasks, task'[u].pc \in Recording, task'[v].pc \in Recording
        PROVE  u = v
    BY <2>1, <2>3, <2>8 DEF AnnouncedOK
  <2> QED BY <2>5, <2>6, <2>7, <2>8 DEF AnnouncedOK
<1> QED BY <1>1, <1>2 DEF AnnounceInv

\* The coroutines outside record_verified_fill.
Elsewhere(t) ==
    \/ SubmitRestore(t) \/ SubmitResolve(t) \/ SubmitRequest(t)
    \/ SubmitRecover(t) \/ SubmitPlaced(t) \/ SubmitFails(t) \/ SubmitReplyLost(t)
    \/ SubmitReject(t) \/ SubmitRecovered(t) \/ SubmitAccept(t)
    \/ PollMapped(t) \/ PollUnmapped(t) \/ PollRestore(t)
    \/ UpdateRecord(t) \/ CancelRefused(t) \/ CancelSent(t)
    \/ CancelByIdRecorded(t) \/ CancelByIdUnrecorded(t)

LEMMA ElsewhereIsAside == ASSUME IInv, NEW t \in Tasks, Elsewhere(t) PROVE Aside(t)
<1>1. announced' = announced /\ raced' = raced /\ crashes' = crashes
  BY DEF Elsewhere, SubmitRestore, SubmitResolve, SubmitRequest, SubmitRecover, SubmitPlaced, SubmitFails,
         SubmitReplyLost, SubmitReject, SubmitRecovered, SubmitAccept, PollMapped, PollUnmapped, PollRestore,
         UpdateRecord, CancelRefused, CancelSent, CancelByIdRecorded, CancelByIdUnrecorded, bounds
<1>2. Position' = Position
  <2>1. LedgerOK
    BY DEF IInv
  <2>2. CASE ledger' = ledger
    BY <2>2 DEF Position, FillsOf
  <2>3. ASSUME NEW type, NEW b, type # "final_fill", AppendEvent(Event(type, task[t].client, b))
        PROVE  Position' = Position
    <3>1. Event(type, task[t].client, b).type # "final_fill"
      BY <2>3 DEF Event
    <3> QED BY <2>1, <2>3, <3>1, PositionKept
  <2>4. CASE SubmitRequest(t) \/ SubmitReject(t) \/ SubmitRecovered(t) \/ SubmitAccept(t) \/ UpdateRecord(t)
    <3>1. \E type \in {"requested", "rejection", "accepted", "cancellation"}, b \in {NoOrder, task[t].order} :
                AppendEvent(Event(type, task[t].client, b))
      BY <2>4 DEF SubmitRequest, SubmitReject, SubmitRecovered, SubmitAccept, UpdateRecord
    <3> QED BY <2>3, <3>1
  <2>5. CASE ~(SubmitRequest(t) \/ SubmitReject(t) \/ SubmitRecovered(t) \/ SubmitAccept(t) \/ UpdateRecord(t))
    <3>1. ledger' = ledger
      BY <2>5 DEF Elsewhere, SubmitRestore, SubmitResolve, SubmitRecover, SubmitPlaced, SubmitFails,
         SubmitReplyLost, PollMapped, PollUnmapped, PollRestore,
         CancelRefused, CancelSent, CancelByIdRecorded, CancelByIdUnrecorded
    <3> QED BY <2>2, <3>1
  <2> QED BY <2>4, <2>5
<1>3. task[t].pc \notin Recording
  BY DEF Elsewhere, SubmitRestore, SubmitResolve, SubmitRequest, SubmitRecover, SubmitPlaced, SubmitFails,
         SubmitReplyLost, SubmitReject, SubmitRecovered, SubmitAccept, PollMapped, PollUnmapped, PollRestore,
         UpdateRecord, CancelRefused, CancelSent, CancelByIdRecorded, CancelByIdUnrecorded, Recording
<1>4. PICK pc, b : pc \notin Recording /\ Goto(t, pc, b)
  <2>1. \A d : UpdateFor(d) \notin Recording
    BY DEF UpdateFor, Recording
  <2>2. \E pc : pc \notin Recording /\ \E b : Goto(t, pc, b)
    BY <2>1 DEF Elsewhere, SubmitRestore, SubmitResolve, SubmitRequest, SubmitRecover, SubmitPlaced, SubmitFails,
         SubmitReplyLost, SubmitReject, SubmitRecovered, SubmitAccept, PollMapped, PollUnmapped, PollRestore,
         UpdateRecord, CancelRefused, CancelSent, CancelByIdRecorded, CancelByIdUnrecorded, Recording
  <2> QED BY <2>2
<1>5. task'[t].pc = pc /\ \A u \in Tasks \ {t} : task'[u] = task[u]
  <2>1. PICK k : task[t] = [pc |-> k.pc, client |-> k.client, order |-> k.order, before |-> k.before]
    BY DEF IInv, TasksOK, TaskOK
  <2> QED BY <1>4, <2>1 DEF Goto, IInv, TasksOK
<1> QED BY <1>1, <1>2, <1>3, <1>4, <1>5 DEF Aside

LEMMA CallIsAside ==
    ASSUME IInv, NEW t \in Tasks, NEW c, NEW b, NEW pc, pc \notin Recording, Call(t, c, b, pc)
    PROVE  Aside(t)
<1>1. announced' = announced /\ raced' = raced /\ crashes' = crashes /\ ledger' = ledger
  BY DEF Call
<1>2. Position' = Position
  BY <1>1 DEF Position, FillsOf
<1>3. task[t].pc \notin Recording
  BY DEF Call, Recording
<1>4. PICK k : k = [Resting EXCEPT !.pc = pc, !.client = c, !.order = b]
  OBVIOUS
<1>5. k.pc = pc
  BY <1>4 DEF Resting
<1>6. task'[t] = k /\ \A u \in Tasks \ {t} : task'[u] = task[u]
  BY <1>4 DEF Call, IInv, TasksOK
<1> QED BY <1>1, <1>2, <1>3, <1>5, <1>6 DEF Aside

\* What recording the fill and announcing it do to the record of the caller.
LEMMA MovedCaller ==
    ASSUME IInv, NEW t \in Tasks, NEW pc, NEW b, Goto(t, pc, b)
    PROVE  /\ task'[t].pc = pc /\ task'[t].before = task[t].before
           /\ \A u \in Tasks \ {t} : task'[u] = task[u]
<1>1. PICK k : task[t] = [pc |-> k.pc, client |-> k.client, order |-> k.order, before |-> k.before]
  BY DEF IInv, TasksOK, TaskOK
<1> QED BY <1>1 DEF Goto, IInv, TasksOK

LEMMA FillBeforeAnnounced == ASSUME IInv, AnnounceInv, NEW t \in Tasks, FillBefore(t) PROVE AnnounceInv'
<1>1. /\ announced' = announced /\ crashes' = crashes /\ ledger' = ledger
      /\ raced' = (raced \/ \E u \in Tasks : task[u].pc \in Recording)
  BY DEF FillBefore, Recording
<1>2. Position' = Position
  BY <1>1 DEF Position, FillsOf
<1>3. /\ task'[t].pc = "record" /\ task'[t].before = Position
      /\ \A u \in Tasks \ {t} : task'[u] = task[u]
  <2>1. PICK k : task[t] = [pc |-> k.pc, client |-> k.client, order |-> k.order, before |-> k.before]
    BY DEF IInv, TasksOK, TaskOK
  <2> QED BY <2>1 DEF FillBefore, IInv, TasksOK
<1>4. ASSUME crashes' = 0, ~raced' PROVE AnnouncedOK'
  <2>1. AnnouncedOK /\ \A u \in Tasks : task[u].pc \notin Recording
    BY <1>1, <1>4 DEF AnnounceInv
  <2>2. Told(Position)
    BY <2>1 DEF AnnouncedOK, Settled, Recording
  <2>3. \A u \in Tasks : task'[u].pc \in Recording => u = t
    BY <1>3, <2>1
  <2>4. ~Settled'
    BY <1>3 DEF Settled
  <2>5. \A p : p = Position => Told(p)'
    BY <1>1, <2>2 DEF Told
  <2>6. \A u \in Tasks : task'[u].pc = "record" => task'[u].pc \in Recording
    BY DEF Recording
  <2>7. \A p : p = task'[t].before => Told(p)'
    BY <1>3, <2>5
  <2>8. Told(task[t].before)'
    BY <1>1, <1>2, <1>3, <2>2 DEF Told
  <2> QED BY <1>2, <1>3, <2>3, <2>4, <2>6, <2>8 DEF AnnouncedOK
<1> QED BY <1>1, <1>4 DEF AnnounceInv

LEMMA FillRecordAnnounced == ASSUME IInv, AnnounceInv, NEW t \in Tasks, FillRecord(t) PROVE AnnounceInv'
<1>1. announced' = announced /\ crashes' = crashes /\ raced' = raced /\ task[t].pc = "record"
  BY DEF FillRecord, bounds
<1>2. PICK ev : ev = Event("final_fill", task[t].client, task[t].order)
  OBVIOUS
<1>3. AppendEvent(ev) /\ Goto(t, IF InLedger(ev) THEN "returned" ELSE "announce", task[t].order)
  BY <1>2 DEF FillRecord
<1>4. /\ task'[t].pc = (IF InLedger(ev) THEN "returned" ELSE "announce")
      /\ task'[t].before = task[t].before
      /\ \A u \in Tasks \ {t} : task'[u] = task[u]
  <2>1. CASE InLedger(ev)
    <3>1. Goto(t, "returned", task[t].order)
      BY <1>3, <2>1
    <3> QED BY <2>1, <3>1, MovedCaller
  <2>2. CASE ~InLedger(ev)
    <3>1. Goto(t, "announce", task[t].order)
      BY <1>3, <2>2
    <3> QED BY <2>2, <3>1, MovedCaller
  <2> QED BY <2>1, <2>2
<1>5. ASSUME crashes' = 0, ~raced' PROVE AnnouncedOK'
  <2>1. AnnouncedOK
    BY <1>1, <1>5 DEF AnnounceInv
  <2>2. Told(task[t].before) /\ task[t].before = Position /\ \A u \in Tasks \ {t} : task[u].pc \notin Recording
    BY <1>1, <2>1 DEF AnnouncedOK, Recording
  <2>3. \A u \in Tasks \ {t} : task'[u].pc \notin Recording
    BY <1>4, <2>2
  <2>4. CASE InLedger(ev)
    <3>1. Position' = Position
      BY <1>3, <2>4 DEF AppendEvent, Position, FillsOf
    <3>2. Told(Position)'
      BY <1>1, <2>2, <3>1 DEF Told
    <3>3. \A u \in Tasks : task'[u].pc \notin Recording /\ task'[u].pc # "record"
      BY <1>4, <2>3, <2>4 DEF Recording
    <3> QED BY <3>2, <3>3 DEF AnnouncedOK
  <2>5. CASE ~InLedger(ev)
    <3>1. task'[t].pc = "announce"
      BY <1>4, <2>5
    <3>2. Told(task[t].before)'
      BY <1>1, <1>4, <2>2 DEF Told
    <3>3. ~Settled'
      BY <3>1 DEF Settled
    <3>4. \A u \in Tasks : task'[u].pc \in Recording => u = t
      BY <2>3
    <3>5. \A u \in Tasks : task'[u].pc # "record"
      BY <2>3, <3>1 DEF Recording
    <3> QED BY <3>2, <3>3, <3>4, <3>5 DEF AnnouncedOK
  <2> QED BY <2>4, <2>5
<1> QED BY <1>1, <1>5 DEF AnnounceInv

LEMMA LastAppended ==
    ASSUME NEW S, NEW a \in Seq(S), NEW w \in S
    PROVE  /\ Append(a, w) = a \o <<w>> /\ Append(a, w) \in Seq(S)
           /\ Append(a, w) # <<>> /\ Last(Append(a, w)) = w
<1>1. Append(a, w) \in Seq(S) /\ Len(Append(a, w)) = Len(a) + 1 /\ Append(a, w)[Len(a) + 1] = w
  OBVIOUS
<1>2. Append(a, w) # <<>>
  BY <1>1
<1>3. Append(a, w) = a \o <<w>>
  OBVIOUS
<1> QED BY <1>1, <1>2, <1>3 DEF Last

\* What is appended for a change from p to q tells of q.
LEMMA TransitionTells ==
    ASSUME AnnounceInv, NEW p, NEW q, Told(p), announced' = announced \o Transition(p, q)
    PROVE  Told(q)'
<1>1. announced \in Seq({"opened", "closed", "changed"})
  BY DEF AnnounceInv
<1>2. CASE p = q
  <2>1. announced' = announced
    BY <1>1, <1>2 DEF Transition
  <2> QED BY <1>2, <2>1 DEF Told
<1>3. CASE p # q
  <2>1. PICK w \in {"opened", "closed", "changed"} :
            announced' = announced \o <<w>> /\ (q = 0 <=> w = "closed")
    BY <1>3 DEF Transition
  <2>2. PICK a : a = announced /\ a \in Seq({"opened", "closed", "changed"})
    BY <1>1
  <2>3. announced' = Append(a, w)
    BY <2>1, <2>2, LastAppended
  <2>4. Append(a, w) # <<>> /\ Last(Append(a, w)) = w
    BY <2>1, <2>2, LastAppended
  <2> QED BY <2>1, <2>3, <2>4 DEF Told
<1> QED BY <1>2, <1>3

LEMMA FillAnnounceAnnounced == ASSUME IInv, AnnounceInv, NEW t \in Tasks, FillAnnounce(t) PROVE AnnounceInv'
<1>1. PICK p, q : p = task[t].before /\ q = Position
  OBVIOUS
<1>2. /\ crashes' = crashes /\ raced' = raced /\ task[t].pc = "announce" /\ ledger' = ledger
      /\ announced' = announced \o Transition(p, q)
      /\ Goto(t, "returned", task[t].order)
  BY <1>1 DEF FillAnnounce, bounds
<1>3. Position' = q
  BY <1>1, <1>2 DEF Position, FillsOf
<1>4. task'[t].pc = "returned" /\ \A u \in Tasks \ {t} : task'[u] = task[u]
  BY <1>2, MovedCaller
<1>5. announced' \in Seq({"opened", "closed", "changed"})
  <2>1. announced \in Seq({"opened", "closed", "changed"})
    BY DEF AnnounceInv
  <2>2. \/ Transition(p, q) = <<>>
        \/ \E w \in {"opened", "closed", "changed"} : Transition(p, q) = <<w>>
    BY DEF Transition
  <2>3. CASE Transition(p, q) = <<>>
    BY <1>2, <2>1, <2>3
  <2>4. ASSUME NEW w \in {"opened", "closed", "changed"}, Transition(p, q) = <<w>>
        PROVE  announced' \in Seq({"opened", "closed", "changed"})
    BY <1>2, <2>1, <2>4, LastAppended
  <2> QED BY <2>2, <2>3, <2>4
<1>6. ASSUME crashes' = 0, ~raced' PROVE AnnouncedOK'
  <2>1. AnnouncedOK
    BY <1>2, <1>6 DEF AnnounceInv
  <2>2. Told(p) /\ \A u \in Tasks \ {t} : task[u].pc \notin Recording
    BY <1>1, <1>2, <2>1 DEF AnnouncedOK, Recording
  <2>3. \A u \in Tasks : task'[u].pc \notin Recording /\ task'[u].pc # "record"
    BY <1>4, <2>2 DEF Recording
  <2>4. Told(q)'
    BY <1>2, <2>2, TransitionTells
  <2>5. Told(Position)'
    BY <1>3, <2>4 DEF Told
  <2> QED BY <2>3, <2>5 DEF AnnouncedOK
<1> QED BY <1>2, <1>5, <1>6 DEF AnnounceInv

LEMMA AnnounceInvInit == Init => AnnounceInv
<1> SUFFICES ASSUME Init PROVE AnnounceInv
  OBVIOUS
<1>1. crashes = 0 /\ announced = <<>> /\ ledger = <<>>
  BY DEF Init
<1>2. Position = 0
  <2>1. ASSUME NEW s PROVE FillsOf(s) = {}
    BY <1>1 DEF FillsOf
  <2>2. Cardinality({}) = 0
    BY FS_EmptySet
  <2> QED BY <2>1, <2>2 DEF Position
<1>3. \A t \in Tasks : task[t].pc = "idle"
  BY DEF Init, Resting
<1>4. AnnouncedOK
  BY <1>1, <1>2, <1>3 DEF AnnouncedOK, Recording, Told
<1> QED BY <1>1, <1>4 DEF AnnounceInv

LEMMA AnnounceInvStep == ASSUME IInv, AnnounceInv, [Next]_vars PROVE AnnounceInv'
<1>1. ASSUME NEW t \in Tasks, NEW c \in Clients, Submit(t, c) \/ Poll(t, c) \/ Cancel(t, c) PROVE AnnounceInv'
  <2>1. \E pc \in {"restore", "poll", "cancel"} : Call(t, c, NoOrder, pc)
    BY <1>1 DEF Submit, Poll, Cancel
  <2>2. Aside(t)
    BY <2>1, CallIsAside DEF Recording
  <2> QED BY <2>2, AsideKeeps
<1>2. ASSUME NEW t \in Tasks, NEW b \in DOMAIN broker, CancelById(t, b) PROVE AnnounceInv'
  <2>1. PICK c : Call(t, c, b, "by_id")
    BY <1>2 DEF CancelById
  <2>2. Aside(t)
    BY <2>1, CallIsAside DEF Recording
  <2> QED BY <2>2, AsideKeeps
<1>3. ASSUME NEW t \in Tasks, Step(t) PROVE AnnounceInv'
  <2>1. Elsewhere(t) \/ FillBefore(t) \/ FillRecord(t) \/ FillAnnounce(t)
    BY <1>3 DEF Step, Elsewhere
  <2> QED BY <2>1, ElsewhereIsAside, AsideKeeps, FillBeforeAnnounced, FillRecordAnnounced, FillAnnounceAnnounced
<1>4. CASE UNCHANGED <<ledger, task, announced, raced, crashes>>
  <2>1. Position' = Position
    BY <1>4 DEF Position, FillsOf
  <2>2. ASSUME NEW t \in Tasks PROVE Told(task[t].before)' <=> Told(task[t].before)
    BY <1>4 DEF Told
  <2>3. Told(Position)' <=> Told(Position)
    BY <1>4, <2>1 DEF Told
  <2>4. AnnouncedOK => AnnouncedOK'
    BY <1>4, <2>1, <2>2, <2>3 DEF AnnouncedOK, Settled
  <2> QED BY <1>4, <2>4 DEF AnnounceInv
<1>5. ASSUME NEW b \in DOMAIN broker, BrokerActs(b) PROVE AnnounceInv'
  BY <1>4, <1>5 DEF BrokerActs, bounds
<1>6. CASE Restart
  <2>1. crashes' = crashes + 1 /\ announced' = announced
    BY <1>6 DEF Restart
  <2> QED BY <2>1 DEF AnnounceInv
<1>7. CASE UNCHANGED vars
  BY <1>4, <1>7 DEF vars
<1> QED BY <1>1, <1>2, <1>3, <1>5, <1>6, <1>7 DEF Next

\* The last POSITION_* event of a session without a restart and without two
\* fills recorded at once tells whether the projected position is open, for
\* any number of callers and whatever they do between the reading of the
\* position, the append and the announcement.
THEOREM AnnouncementAlwaysMatches == Spec => []AnnouncementMatches
<1>1. Init => AnnounceInv
  BY AnnounceInvInit
<1>2. IInv /\ AnnounceInv /\ [Next]_vars => AnnounceInv'
  BY AnnounceInvStep
<1>3. AnnounceInv => AnnouncementMatches
  BY DEF AnnounceInv, AnnouncedOK, Told, AnnouncementMatches
<1> QED BY <1>1, <1>2, <1>3, InvariantHolds, PTL DEF Spec

-----------------------------------------------------------------------------
(* CognitiveAgentRuntime                                                   *)

InvokingCycle == [pc : {"invoke", "graph", "submitted"}, snap : 1..snaps, coalesced : BOOLEAN]

\* What the worker of order events will find: the queue is in the order in which
\* the events came, and all of it came after what was worked on.
InOrder ==
    /\ \A v, w \in positionQ : v.seq = w.seq => v = w
    /\ \A v, w \in positionQ : v.prio = Critical /\ w.prio = Critical /\ v.seq < w.seq => v.item < w.item
    /\ \A d \in handled : \A e \in Working \cup Waiting : d < e
    /\ \A d \in Working : \A e \in Waiting : d < e
    /\ handled \cup Working \cup Waiting \subseteq queued
    /\ phase \in {"resuming", "up", "stopping"} => queued = handled \cup Working \cup Waiting

\* The snapshot that a handler is routing is the newest, and nothing else has it.
Routing ==
    handler.pc # "idle" => /\ handler.snap = snaps /\ snaps \in Nat \ {0}
                           /\ snaps \notin Cycles \cup About \cup Held
                           /\ \A i \in DOMAIN decisionQ : decisionQ[i] # snaps

\* What is run or resumed has a cycle already.
Known ==
    /\ decider.pc \in {"graph", "submitted"} => decider.snap \in Cycles
    /\ resume \subseteq Cycles

AgentIInv == AgentTypeOK /\ InOrder /\ Routing /\ Known /\ SnapshotDecidesOnce

LEMMA DeciderRuns ==
    AgentTypeOK /\ decider.pc \in {"invoke", "graph", "submitted"} => decider \in InvokingCycle
BY DEF AgentTypeOK, Free, Gone, Dead, InvokingCycle

LEMMA AgentInitInv == AgentInit => AgentIInv
<1> SUFFICES ASSUME AgentInit PROVE AgentIInv
    OBVIOUS
<1> USE DEF AgentInit, None
<1>1. AgentTypeOK
    <2>1. decider \in {Free, Gone, Dead} /\ positioner \in [pc : {"idle", "gone", "critical", "snapshot"}, snap : Nat]
        BY DEF Gone
    <2>2. handler \in [pc : {"idle", "positions", "route"}, snap : 0..snaps, open : BOOLEAN]
        BY DEF Quiet
    <2>3. decisionQ \in Seq(1..snaps) /\ pending \in 0..snaps
        OBVIOUS
    <2>4. positionQ \subseteq [prio : {Critical, PositionSnapshot}, seq : 1..sequence, item : Nat]
        OBVIOUS
    <2> QED
        BY <2>1, <2>2, <2>3, <2>4 DEF AgentTypeOK
<1>2. InOrder
    BY DEF InOrder, Gone, Working, Waiting
<1>3. Routing /\ Known /\ SnapshotDecidesOnce
    BY DEF Routing, Known, SnapshotDecidesOnce, Quiet, Gone, Cycles, About, Held
<1> QED
    BY <1>1, <1>2, <1>3 DEF AgentIInv

LEMMA AgentTypeKept == AgentTypeOK /\ InOrder /\ Routing /\ [AgentNext]_agentVars => AgentTypeOK'
<1> SUFFICES ASSUME AgentTypeOK, InOrder, Routing, [AgentNext]_agentVars PROVE AgentTypeOK'
    OBVIOUS
<1> USE DEF AgentTypeOK, projection, input, queues, history, None
<1>r. decider.pc \in {"invoke", "graph", "submitted"} => decider \in InvokingCycle
    BY DeciderRuns
<1>a. Free \in {Free, Gone, Dead} /\ Again \in {Free, Gone, Dead}
    BY DEF Again
<1>1. CASE CriticalEvent
    <2>1. criticals' \in Nat /\ criticals < criticals' /\ sequence' \in Nat
        BY <1>1 DEF CriticalEvent, Enqueue
    <2>2. positionQ' \subseteq [prio : {Critical, PositionSnapshot}, seq : 1..sequence', item : Nat]
        BY <1>1 DEF CriticalEvent, Enqueue
    <2>3. handled' \subseteq queued' /\ queued' \subseteq 1..criticals'
        <3>1. handled \subseteq queued /\ queued \subseteq 1..criticals /\ handled' = handled
              /\ criticals' = criticals + 1 /\ queued' \in {queued, queued \cup {criticals + 1}}
            BY <1>1 DEF CriticalEvent
        <3>2. \A e \in queued' : e \in 1..criticals'
            BY <3>1, criticals \in Nat
        <3> QED
            BY <3>1, <3>2
    <2> QED
        BY <1>1, <2>1, <2>2, <2>3 DEF CriticalEvent
<1>2. CASE SnapshotEvent
    <2>1. snaps' \in Nat /\ snaps' = snaps + 1 /\ 1..snaps \subseteq 1..snaps' /\ 0..snaps \subseteq 0..snaps'
        BY <1>2 DEF SnapshotEvent
    <2>2. handler' \in [pc : {"idle", "positions", "route"}, snap : 0..snaps', open : BOOLEAN]
        BY <1>2, <2>1 DEF SnapshotEvent, Quiet
    <2>3. decisionQ' \in Seq(1..snaps') /\ pending' \in 0..snaps'
        <3>1. decisionQ \in Seq(1..snaps')
            BY <2>1
        <3> QED
            BY <1>2, <2>1, <3>1 DEF SnapshotEvent
    <2>4. decider' \in {Free, Gone, Dead} \cup InvokingCycle'
        BY <1>2, <2>1 DEF SnapshotEvent, InvokingCycle
    <2>5. registry' \subseteq [snap : 1..snaps', status : {"running", "completed"}]
          /\ resume' \subseteq 1..snaps' /\ ordered' \subseteq 1..snaps'
        BY <1>2, <2>1 DEF SnapshotEvent
    <2>6. UNCHANGED <<position, entry, sequence, stops, phase, positionQ, criticals, positioner, handled, queued>>
        BY <1>2 DEF SnapshotEvent
    <2> QED
        BY <2>1, <2>2, <2>3, <2>4, <2>5, <2>6 DEF InvokingCycle
<1>3. CASE ReadPositions
    <2>1. /\ handler' = [[handler EXCEPT !.pc = "route"] EXCEPT !.open = position]
          /\ UNCHANGED <<projection, input, phase, queues, decider, positioner, registry, resume, history, stops>>
        BY <1>3 DEF ReadPositions
    <2>2. handler' \in [pc : {"idle", "positions", "route"}, snap : 0..snaps, open : BOOLEAN]
        BY <2>1
    <2> QED
        BY <2>1, <2>2
<1>4. CASE RouteSnapshot
    <2>2. handler' \in [pc : {"idle", "positions", "route"}, snap : 0..snaps, open : BOOLEAN]
        BY <1>4 DEF RouteSnapshot, Quiet
    <2>3. UNCHANGED <<projection, input, phase, decider, positioner, registry, resume, history, stops>>
        BY <1>4 DEF RouteSnapshot
    <2>4. /\ sequence' \in Nat /\ pending' \in 0..snaps
          /\ positionQ' \subseteq [prio : {Critical, PositionSnapshot}, seq : 1..sequence', item : Nat]
        BY <1>4 DEF RouteSnapshot, Enqueue
    <2>5. decisionQ' \in Seq(1..snaps)
        <3>1. decisionQ' = Append(decisionQ, handler.snap) \/ decisionQ' = decisionQ
            BY <1>4 DEF RouteSnapshot
        <3>2. handler.snap \in 1..snaps
            BY <1>4 DEF RouteSnapshot, Routing
        <3>3. ASSUME NEW S, NEW q \in Seq(S), NEW x \in S PROVE Append(q, x) \in Seq(S)
            OBVIOUS
        <3>4. Append(decisionQ, handler.snap) \in Seq(1..snaps)
            BY <3>2, <3>3
        <3> QED
            BY <3>1, <3>4
    <2>6. UNCHANGED <<position, entry, snaps, criticals, phase, decider, positioner, registry, resume,
                      ordered, queued, handled, stops>>
        BY <2>3
    <2> QED
        BY <2>2, <2>4, <2>5, <2>6
<1>5. CASE DecisionTake
    <2>1. /\ decisionQ # <<>> /\ decider' = Invoking(Head(decisionQ), FALSE) /\ decisionQ' = Tail(decisionQ)
          /\ UNCHANGED <<projection, input, phase, handler, positionQ, sequence, pending, positioner,
                         registry, resume, history, stops>>
        BY <1>5 DEF DecisionTake
    <2>2. Head(decisionQ) \in 1..snaps /\ decisionQ' \in Seq(1..snaps)
        BY <2>1
    <2>3. decider' \in InvokingCycle
        BY <2>1, <2>2 DEF Invoking, InvokingCycle
    <2>4. UNCHANGED <<projection, input, phase, handler, positionQ, sequence, pending, positioner,
                      registry, resume, history, stops>>
        BY <2>1
    <2> QED
        BY <2>2, <2>3, <2>4 DEF InvokingCycle
<1>6. CASE DecisionPending
    <2>1. /\ pending # None /\ decider' = Invoking(pending, TRUE) /\ pending' = None
          /\ UNCHANGED <<projection, input, phase, handler, decisionQ, positionQ, sequence, positioner,
                         registry, resume, history, stops>>
        BY <1>6 DEF DecisionPending
    <2>2. decider' \in InvokingCycle
        BY <2>1 DEF Invoking, InvokingCycle
    <2>3. UNCHANGED <<projection, input, phase, handler, decisionQ, positionQ, sequence, positioner,
                      registry, resume, history, stops>>
        BY <2>1
    <2>4. pending' \in 0..snaps
        BY <2>1
    <2> QED
        BY <2>2, <2>3, <2>4 DEF InvokingCycle
<1>7. CASE DecisionInvoke
    <2>1. /\ decider \in InvokingCycle
          /\ \/ decider' = Again /\ registry' = registry
             \/ decider' = [decider EXCEPT !.pc = "graph"] /\ registry' = Registered(decider.snap)
          /\ UNCHANGED <<projection, input, phase, handler, queues, positioner, resume, history, stops>>
        BY <1>7, <1>r DEF DecisionInvoke
    <2>2. decider' \in {Free, Gone, Dead} \cup InvokingCycle
        BY <2>1, <1>a DEF InvokingCycle
    <2>3. registry' \subseteq [snap : 1..snaps, status : {"running", "completed"}]
        BY <2>1 DEF InvokingCycle, Registered
    <2> QED
        BY <2>1, <2>2, <2>3 DEF InvokingCycle
<1>8. CASE InvokeRaises
    <2>1. /\ decider \in InvokingCycle /\ decider' \in {Dead, Again}
          /\ registry' \in {registry, Registered(decider.snap)}
          /\ UNCHANGED <<projection, input, phase, handler, queues, positioner, resume, history, stops>>
        BY <1>8, <1>r DEF InvokeRaises
    <2>2. registry' \subseteq [snap : 1..snaps, status : {"running", "completed"}]
        BY <2>1 DEF InvokingCycle, Registered
    <2>3. decider' \in {Free, Gone, Dead}
        BY <2>1, <1>a
    <2> QED
        BY <2>1, <2>2, <2>3
<1>9. CASE DecisionSubmits
    <2>1. /\ decider \in InvokingCycle /\ decider' = [decider EXCEPT !.pc = "submitted"]
          /\ position' \in BOOLEAN /\ entry' \in BOOLEAN /\ ordered' = ordered \cup {decider.snap}
          /\ UNCHANGED <<input, phase, handler, queues, positioner, registry, resume, queued, handled, stops>>
        BY <1>9, <1>r DEF DecisionSubmits
    <2>2. decider' \in InvokingCycle /\ ordered' \subseteq 1..snaps
        BY <2>1 DEF InvokingCycle
    <2> QED
        BY <2>1, <2>2 DEF InvokingCycle
<1>10. CASE DecisionEnds
    <2>1. /\ decider \in InvokingCycle /\ decider' = Again /\ registry' \in {registry, Completed(decider.snap)}
          /\ UNCHANGED <<projection, input, phase, handler, queues, positioner, resume, history, stops>>
        BY <1>10, <1>r DEF DecisionEnds
    <2>2. registry' \subseteq [snap : 1..snaps, status : {"running", "completed"}]
        BY <2>1 DEF InvokingCycle, Completed
    <2>3. decider' \in {Free, Gone, Dead}
        BY <2>1, <1>a
    <2> QED
        BY <2>1, <2>2, <2>3
<1>11. CASE PositionTake
    <2>1. PICK w \in positionQ :
            /\ positionQ' = positionQ \ {w}
            /\ positioner' = [pc |-> IF w.prio = Critical THEN "critical" ELSE "snapshot", snap |-> w.item]
        BY <1>11 DEF PositionTake
    <2>2. UNCHANGED <<projection, input, phase, handler, decisionQ, sequence, pending, decider,
                      registry, resume, history, stops>>
        BY <1>11 DEF PositionTake
    <2>3. positioner' \in [pc : {"idle", "gone", "critical", "snapshot"}, snap : Nat]
        BY <2>1
    <2>4. positionQ' \subseteq positionQ
        BY <2>1
    <2> QED
        BY <2>2, <2>3, <2>4
<1>12. CASE PositionEnds
    <2>1. /\ positioner' \in {Free, Gone} /\ position' \in BOOLEAN /\ entry' \in BOOLEAN
          /\ handled' = IF positioner.pc = "critical" THEN handled \cup {positioner.snap} ELSE handled
          /\ UNCHANGED <<input, phase, handler, queues, decider, registry, resume, ordered, queued, stops>>
        BY <1>12 DEF PositionEnds, Again
    <2>2. positioner' \in [pc : {"idle", "gone", "critical", "snapshot"}, snap : Nat]
        BY <2>1 DEF Free, Gone
    <2>3. handled' \subseteq queued'
        BY <2>1 DEF InOrder, Working
    <2> QED
        BY <2>1, <2>2, <2>3
<1>13. CASE Start
    <2>1. /\ phase' = "resuming" /\ resume' = Running
          /\ decisionQ' = <<>> /\ positionQ' = {} /\ sequence' = 0 /\ pending' = None
          /\ decider' = Free /\ positioner' = Free /\ handler' = Quiet
          /\ queued' = {} /\ handled' = {}
          /\ UNCHANGED <<projection, input, registry, ordered, stops>>
        BY <1>13 DEF Start
    <2>2. resume' \subseteq 1..snaps
        BY <2>1 DEF Running
    <2>3. /\ positioner' \in [pc : {"idle", "gone", "critical", "snapshot"}, snap : Nat]
          /\ handler' \in [pc : {"idle", "positions", "route"}, snap : 0..snaps, open : BOOLEAN]
        BY <2>1 DEF Free, Quiet
    <2>4. decisionQ' \in Seq(1..snaps)
        BY <2>1
    <2> QED
        BY <2>1, <2>2, <2>3, <2>4
<1>14. CASE ResumeCycle
    <2>1. PICK n \in resume :
            /\ resume' = resume \ {n} /\ registry' \in {registry, Completed(n)}
            /\ ordered' \in {ordered, ordered \cup {n}}
        BY <1>14 DEF ResumeCycle
    <2>2. /\ position' \in BOOLEAN /\ entry' \in BOOLEAN
          /\ UNCHANGED <<input, phase, handler, queues, decider, positioner, queued, handled, stops>>
        BY <1>14 DEF ResumeCycle
    <2>3. registry' \subseteq [snap : 1..snaps, status : {"running", "completed"}]
        BY <2>1 DEF Completed
    <2>4. resume' \subseteq 1..snaps /\ ordered' \subseteq 1..snaps
        BY <2>1
    <2> QED
        BY <2>2, <2>3, <2>4
<1>15. CASE ResumeFails
    BY <1>15 DEF ResumeFails
<1>16. CASE Resumed
    BY <1>16 DEF Resumed
<1>17. CASE ShutdownBegins
    BY <1>17 DEF ShutdownBegins
<1>18. CASE ShutdownEnds
    <2>1. /\ phase' = "stopped" /\ decider' = Gone /\ positioner' \in {Gone, positioner}
          /\ UNCHANGED <<projection, input, handler, queues, registry, resume, history, stops>>
        BY <1>18 DEF ShutdownEnds
    <2>2. positioner' \in [pc : {"idle", "gone", "critical", "snapshot"}, snap : Nat]
        BY <2>1 DEF Gone
    <2> QED
        BY <2>1, <2>2
<1>19. CASE Crash
    <2>1. /\ stops' = stops + 1 /\ phase' = "off"
          /\ decider' = Gone /\ positioner' = Gone /\ handler' = Quiet
          /\ decisionQ' = <<>> /\ positionQ' = {} /\ sequence' = 0 /\ pending' = None /\ resume' = {}
          /\ UNCHANGED <<projection, input, registry, history>>
        BY <1>19 DEF Crash
    <2>2. /\ positioner' \in [pc : {"idle", "gone", "critical", "snapshot"}, snap : Nat]
          /\ handler' \in [pc : {"idle", "positions", "route"}, snap : 0..snaps, open : BOOLEAN]
        BY <2>1 DEF Gone, Quiet
    <2>3. decisionQ' \in Seq(1..snaps)
        BY <2>1
    <2> QED
        BY <2>1, <2>2, <2>3
<1>20. CASE Market
    <2>1. position' \in BOOLEAN /\ entry' \in BOOLEAN
        BY <1>20 DEF Market
    <2>2. UNCHANGED <<input, phase, handler, queues, decider, positioner, registry, resume, history, stops>>
        BY <1>20 DEF Market
    <2> QED
        BY <2>1, <2>2
<1>21. CASE UNCHANGED agentVars
    BY <1>21 DEF agentVars, InvokingCycle
<1> QED
    BY <1>1, <1>2, <1>3, <1>4, <1>5, <1>6, <1>7, <1>8, <1>9, <1>10, <1>11, <1>12, <1>13, <1>14, <1>15,
       <1>16, <1>17, <1>18, <1>19, <1>20, <1>21 DEF AgentNext, Workers

\* The queue of order events is read and changed by few steps.
LEMMA OrderUndisturbed ==
    InOrder /\ UNCHANGED <<positionQ, handled, positioner, queued>> /\ phase' \in {phase, "off", "stopped"} => InOrder'
<1> SUFFICES ASSUME InOrder, UNCHANGED <<positionQ, handled, positioner, queued>>,
                    phase' \in {phase, "off", "stopped"}
             PROVE  InOrder'
    OBVIOUS
<1>1. Working' = Working /\ Waiting' = Waiting
    BY DEF Working, Waiting
<1> QED
    BY <1>1 DEF InOrder

LEMMA OrderKept == AgentTypeOK /\ InOrder /\ [AgentNext]_agentVars => InOrder'
<1> SUFFICES ASSUME AgentTypeOK, InOrder, [AgentNext]_agentVars PROVE InOrder'
    OBVIOUS
<1> USE DEF projection, input, queues, history, None
<1>t. /\ sequence \in Nat /\ criticals \in Nat /\ handled \subseteq queued /\ queued \subseteq 1..criticals
      /\ positionQ \subseteq [prio : {Critical, PositionSnapshot}, seq : 1..sequence, item : Nat]
    BY DEF AgentTypeOK
<1>1. CASE CriticalEvent
    <2>1. CASE ~Accepting
        BY <1>1, <2>1, OrderUndisturbed DEF CriticalEvent
    <2>2. CASE Accepting
        <3> DEFINE e == criticals + 1
                   w == [prio |-> Critical, seq |-> sequence + 1, item |-> e]
        <3>1. /\ positionQ' = positionQ \cup {w} /\ queued' = queued \cup {e}
              /\ UNCHANGED <<handled, positioner, phase>>
            BY <1>1, <2>2 DEF CriticalEvent, Enqueue
        <3>2. Working' = Working /\ Waiting' = Waiting \cup {e}
            <4>1. Working' = Working
                BY <3>1 DEF Working
            <4>2. w.prio = Critical /\ w.item = e
                OBVIOUS
            <4> QED
                BY <3>1, <4>1, <4>2 DEF Waiting
        <3>3. handled \cup Working \cup Waiting \subseteq queued /\ \A d \in queued : d < e
            BY <1>t DEF InOrder
        <3>4. \A v \in positionQ : v.seq < w.seq /\ w.seq # v.seq
            BY <1>t
        <3>5. \A v \in positionQ : v.prio = Critical => v.item < w.item
            BY <3>3 DEF Waiting
        <3>6. \A v, u \in positionQ' : v.seq = u.seq => v = u
            BY <3>1, <3>4 DEF InOrder
        <3>7. \A v, u \in positionQ' : v.prio = Critical /\ u.prio = Critical /\ v.seq < u.seq => v.item < u.item
            <4> SUFFICES ASSUME NEW v \in positionQ', NEW u \in positionQ',
                                v.prio = Critical, u.prio = Critical, v.seq < u.seq
                         PROVE  v.item < u.item
                OBVIOUS
            <4>1. v \in positionQ
                <5> SUFFICES ASSUME v = w PROVE FALSE
                    BY <3>1
                <5>1. u.seq \in Int /\ u.seq <= w.seq /\ w.seq \in Int
                    BY <3>1, <3>4, <1>t
                <5> QED
                    BY <5>1
            <4> QED
                BY <3>1, <3>5, <4>1 DEF InOrder
        <3>8. /\ \A d \in handled' : \A f \in Working' \cup Waiting' : d < f
              /\ \A d \in Working' : \A f \in Waiting' : d < f
            BY <3>1, <3>2, <3>3 DEF InOrder
        <3>9. handled' \cup Working' \cup Waiting' \subseteq queued'
            BY <3>1, <3>2, <3>3
        <3>10. phase' \in {"resuming", "up", "stopping"} => queued' = handled' \cup Working' \cup Waiting'
            BY <3>1, <3>2 DEF InOrder
        <3> QED
            BY <3>6, <3>7, <3>8, <3>9, <3>10 DEF InOrder
    <2> QED
        BY <2>1, <2>2
<1>2. CASE RouteSnapshot
    <2>1. CASE positionQ' = positionQ
        BY <1>2, <2>1, OrderUndisturbed DEF RouteSnapshot
    <2>2. CASE positionQ' # positionQ
        <3> DEFINE w == [prio |-> PositionSnapshot, seq |-> sequence + 1, item |-> handler.snap]
        <3>1. positionQ' = positionQ \cup {w} /\ UNCHANGED <<handled, positioner, phase, queued>>
            BY <1>2, <2>2 DEF RouteSnapshot, Enqueue
        <3>2. w.prio # Critical
            BY DEF Critical, PositionSnapshot
        <3>3. Working' = Working /\ Waiting' = Waiting
            BY <3>1, <3>2 DEF Working, Waiting
        <3>4. \A v \in positionQ : v.seq < w.seq /\ w.seq # v.seq
            BY <1>t
        <3>5. \A v, u \in positionQ' : v.seq = u.seq => v = u
            BY <3>1, <3>4 DEF InOrder
        <3>6. \A v, u \in positionQ' : v.prio = Critical /\ u.prio = Critical /\ v.seq < u.seq => v.item < u.item
            BY <3>1, <3>2 DEF InOrder
        <3> QED
            BY <3>1, <3>3, <3>5, <3>6 DEF InOrder
    <2> QED
        BY <2>1, <2>2
<1>3. CASE PositionTake
    <2>1. PICK w \in positionQ :
            /\ FirstInQueue(w) /\ positionQ' = positionQ \ {w}
            /\ positioner' = [pc |-> IF w.prio = Critical THEN "critical" ELSE "snapshot", snap |-> w.item]
        BY <1>3 DEF PositionTake
    <2>2. positioner.pc = "idle" /\ UNCHANGED <<phase, handled, queued>>
        BY <1>3 DEF PositionTake
    <2>3. Working = {}
        BY <2>2 DEF Working
    <2>4. Working' = IF w.prio = Critical THEN {w.item} ELSE {}
        BY <2>1 DEF Working
    <2>5. /\ Waiting = Working' \cup Waiting'
          /\ \A v \in positionQ : v.prio = Critical => v.item \in Waiting
        <3>1. \A v \in positionQ : v # w => v \in positionQ'
            BY <2>1
        <3>2. ASSUME NEW e \in Waiting PROVE e \in Working' \cup Waiting'
            <4>1. PICK v \in positionQ : v.prio = Critical /\ v.item = e
                BY DEF Waiting
            <4> QED
                BY <2>4, <3>1, <4>1 DEF Waiting
        <3>3. Waiting' \subseteq Waiting
            BY <2>1 DEF Waiting
        <3>4. Working' \subseteq Waiting
            BY <2>4 DEF Waiting
        <3>5. \A v \in positionQ : v.prio = Critical => v.item \in Waiting
            BY DEF Waiting
        <3> QED
            BY <3>2, <3>3, <3>4, <3>5
    <2>6. \A d \in Working' : \A e \in Waiting' : d < e
        <3> SUFFICES ASSUME NEW d \in Working', NEW e \in Waiting' PROVE d < e
            OBVIOUS
        <3>1. PICK v \in positionQ \ {w} : v.prio = Critical /\ v.item = e
            BY <2>1 DEF Waiting
        <3>2. w.prio = Critical /\ d = w.item
            BY <2>4
        <3>3. w.prio \in Int /\ w.seq < v.seq
            BY <2>1, <3>1, <3>2 DEF FirstInQueue, Before, Critical
        <3> QED
            BY <3>1, <3>2, <3>3 DEF InOrder
    <2>7. \A d \in handled' : \A e \in Working' \cup Waiting' : d < e
        BY <2>2, <2>5 DEF InOrder
    <2>8. /\ handled' \cup Working' \cup Waiting' \subseteq queued'
          /\ phase' \in {"resuming", "up", "stopping"} => queued' = handled' \cup Working' \cup Waiting'
        BY <2>2, <2>3, <2>5 DEF InOrder
    <2>9. /\ \A v, u \in positionQ' : v.seq = u.seq => v = u
          /\ \A v, u \in positionQ' : v.prio = Critical /\ u.prio = Critical /\ v.seq < u.seq => v.item < u.item
        BY <2>1 DEF InOrder
    <2> QED
        BY <2>6, <2>7, <2>8, <2>9 DEF InOrder
<1>4. CASE PositionEnds
    <2>1. /\ positioner' \in {Free, Gone} /\ handled' = handled \cup Working
          /\ UNCHANGED <<positionQ, queued, phase>>
        BY <1>4 DEF PositionEnds, Again, Working
    <2>2. Working' = {} /\ Waiting' = Waiting
        BY <2>1 DEF Working, Waiting, Free, Gone
    <2> QED
        BY <2>1, <2>2 DEF InOrder
<1>5. CASE Start
    <2>1. /\ positionQ' = {} /\ positioner' = Free /\ queued' = {} /\ handled' = {}
        BY <1>5 DEF Start
    <2>2. Working' = {} /\ Waiting' = {}
        BY <2>1 DEF Working, Waiting, Free
    <2> QED
        BY <2>1, <2>2 DEF InOrder
<1>6. CASE Crash
    <2>1. positionQ' = {} /\ positioner' = Gone /\ UNCHANGED <<queued, handled>> /\ phase' = "off"
        BY <1>6 DEF Crash
    <2>2. Working' = {} /\ Waiting' = {}
        BY <2>1 DEF Working, Waiting, Gone
    <2> QED
        BY <2>1, <2>2 DEF InOrder
<1>7. CASE ShutdownEnds
    <2>1. positioner' \in {Gone, positioner} /\ UNCHANGED <<positionQ, queued, handled>> /\ phase' = "stopped"
        BY <1>7 DEF ShutdownEnds
    <2>2. Working' \subseteq Working /\ Waiting' = Waiting
        BY <2>1 DEF Working, Waiting, Gone
    <2> QED
        BY <2>1, <2>2 DEF InOrder
<1>8. CASE ResumeFails \/ Resumed \/ ShutdownBegins
    <2>1. /\ UNCHANGED <<positionQ, handled, positioner, queued>>
          /\ phase \in {"resuming", "up"}
        BY <1>8 DEF ResumeFails, Resumed, ShutdownBegins
    <2>2. Working' = Working /\ Waiting' = Waiting
        BY <2>1 DEF Working, Waiting
    <2> QED
        BY <2>1, <2>2 DEF InOrder
<1>9. CASE SnapshotEvent \/ ReadPositions \/ DecisionTake \/ DecisionPending \/ DecisionInvoke \/ InvokeRaises
    <2>1. UNCHANGED <<positionQ, handled, positioner, queued, phase>>
        BY <1>9 DEF SnapshotEvent, ReadPositions, DecisionTake, DecisionPending, DecisionInvoke, InvokeRaises
    <2> QED
        BY <2>1, OrderUndisturbed
<1>10. CASE DecisionSubmits \/ DecisionEnds \/ ResumeCycle \/ Market \/ UNCHANGED agentVars
    <2>1. UNCHANGED <<positionQ, handled, positioner, queued, phase>>
        BY <1>10 DEF DecisionSubmits, DecisionEnds, ResumeCycle, Market, agentVars
    <2> QED
        BY <2>1, OrderUndisturbed
<1> QED
    BY <1>1, <1>2, <1>3, <1>4, <1>5, <1>6, <1>7, <1>8, <1>9, <1>10 DEF AgentNext, Workers

LEMMA CyclesOf ==
    ASSUME NEW n, registry' \in {Registered(n), Completed(n)}
    PROVE  Cycles' = Cycles \cup {n}
<1> DEFINE run == [snap |-> n, status |-> "running"]
           end == [snap |-> n, status |-> "completed"]
<1>1. \A r \in registry' : r \in registry \/ r.snap = n
    BY DEF Registered, Completed
<1>2. \E r \in registry' : r.snap = n
    <2>1. run \in registry' \/ end \in registry'
        BY DEF Registered, Completed
    <2> QED
        BY <2>1
<1>3. \A r \in registry : r \in registry' \/ r.snap = n
    BY DEF Registered, Completed
<1> QED
    BY <1>1, <1>2, <1>3 DEF Cycles

\* A step by which the worker ends its claim on a snapshot, or its cycle begins.
LEMMA CyclesSettled ==
    ASSUME Routing, SnapshotDecidesOnce, UNCHANGED <<decisionQ, pending, handler, snaps>>,
           Cycles' \cup About' \subseteq Cycles \cup About, About' \cap Cycles' = {}
    PROVE  Routing' /\ SnapshotDecidesOnce'
<1>1. Held' = Held
    BY DEF Held
<1>2. Routing'
    BY <1>1 DEF Routing
<1>3. (About' \cup Held') \cap Cycles' = {} /\ About' \cap Held' = {}
    BY <1>1 DEF SnapshotDecidesOnce
<1>4. \A i \in DOMAIN decisionQ' :
        /\ decisionQ'[i] \notin Cycles' \cup About' \cup Held'
        /\ \A j \in DOMAIN decisionQ' : j # i => decisionQ'[j] # decisionQ'[i]
    BY <1>1 DEF SnapshotDecidesOnce
<1> QED
    BY <1>2, <1>3, <1>4 DEF SnapshotDecidesOnce

LEMMA CyclesKept ==
    AgentTypeOK /\ Routing /\ Known /\ SnapshotDecidesOnce /\ [AgentNext]_agentVars
        => Routing' /\ Known' /\ SnapshotDecidesOnce'
<1> SUFFICES ASSUME AgentTypeOK, Routing, Known, SnapshotDecidesOnce, [AgentNext]_agentVars
             PROVE  Routing' /\ Known' /\ SnapshotDecidesOnce'
    OBVIOUS
<1> USE DEF projection, input, queues, history
<1>t. /\ snaps \in Nat /\ decisionQ \in Seq(1..snaps) /\ pending \in 0..snaps
      /\ Cycles \subseteq 1..snaps /\ About \subseteq 1..snaps /\ Held \subseteq 1..snaps
    <2>1. About \subseteq 1..snaps
        BY DeciderRuns DEF About, InvokingCycle
    <2>2. Held \subseteq 1..snaps
        BY DEF AgentTypeOK, Held, None
    <2> QED
        BY <2>1, <2>2 DEF AgentTypeOK, Cycles
<1>1. CASE CriticalEvent \/ PositionTake \/ PositionEnds \/ Resumed \/ ShutdownBegins \/ Market \/ UNCHANGED agentVars
    <2>1. UNCHANGED <<decisionQ, pending, handler, snaps, decider, registry, resume>>
        BY <1>1 DEF CriticalEvent, PositionTake, PositionEnds, Resumed, ShutdownBegins, Market, agentVars
    <2>2. Cycles' = Cycles /\ About' = About
        BY <2>1 DEF Cycles, About
    <2>3. Routing' /\ SnapshotDecidesOnce'
        BY <2>1, <2>2, CyclesSettled DEF SnapshotDecidesOnce
    <2> QED
        BY <2>1, <2>2, <2>3 DEF Known
<1>2. CASE SnapshotEvent
    <2>1. /\ snaps' = snaps + 1 /\ UNCHANGED <<decisionQ, pending, decider, registry, resume>>
          /\ handler'.pc # "idle" => handler'.snap = snaps'
        BY <1>2 DEF SnapshotEvent, Quiet
    <2>2. Cycles' = Cycles /\ About' = About /\ Held' = Held
        BY <2>1 DEF Cycles, About, Held
    <2>3. snaps' \notin 1..snaps /\ \A i \in DOMAIN decisionQ : decisionQ[i] # snaps'
        BY <1>t, <2>1
    <2>4. snaps' \in Nat \ {0}
        BY <1>t, <2>1
    <2>5. Routing'
        BY <1>t, <2>1, <2>2, <2>3, <2>4 DEF Routing
    <2> QED
        BY <2>1, <2>2, <2>5 DEF Known, SnapshotDecidesOnce
<1>3. CASE ReadPositions
    <2>1. /\ handler.pc # "idle" /\ handler'.snap = handler.snap
          /\ UNCHANGED <<snaps, decisionQ, pending, decider, registry, resume>>
        BY <1>3 DEF ReadPositions, AgentTypeOK
    <2>2. Cycles' = Cycles /\ About' = About /\ Held' = Held
        BY <2>1 DEF Cycles, About, Held
    <2>3. Routing'
        BY <2>1, <2>2 DEF Routing
    <2> QED
        BY <2>1, <2>2, <2>3 DEF Known, SnapshotDecidesOnce
<1>4. CASE RouteSnapshot
    <2>1. /\ handler.pc # "idle" /\ handler' = Quiet /\ UNCHANGED <<snaps, decider, registry, resume>>
          /\ \/ UNCHANGED <<decisionQ, pending>>
             \/ pending' = handler.snap /\ decisionQ' = decisionQ
             \/ decisionQ' = Append(decisionQ, handler.snap) /\ pending' = pending
        BY <1>4 DEF RouteSnapshot
    <2>2. Cycles' = Cycles /\ About' = About
        BY <2>1 DEF Cycles, About
    <2>3. /\ handler.snap = snaps /\ snaps \notin Cycles \cup About \cup Held
          /\ \A i \in DOMAIN decisionQ : decisionQ[i] # snaps
        BY <2>1 DEF Routing
    <2>4. Routing' /\ Known'
        BY <2>1, <2>2 DEF Routing, Quiet, Known
    <2>5. CASE UNCHANGED <<decisionQ, pending>>
        <3>1. Held' = Held
            BY <2>5 DEF Held
        <3> QED
            BY <2>2, <2>4, <2>5, <3>1 DEF SnapshotDecidesOnce
    <2>6. CASE pending' = handler.snap /\ decisionQ' = decisionQ
        <3>1. Held' \subseteq {snaps}
            BY <2>3, <2>6 DEF Held
        <3> QED
            BY <2>2, <2>3, <2>4, <2>6, <3>1 DEF SnapshotDecidesOnce
    <2>7. CASE decisionQ' = Append(decisionQ, handler.snap) /\ pending' = pending
        <3>1. Held' = Held
            BY <2>7 DEF Held
        <3>2. /\ Len(decisionQ) \in Nat /\ DOMAIN decisionQ = 1..Len(decisionQ)
              /\ DOMAIN decisionQ' = 1..(Len(decisionQ) + 1)
              /\ \A i \in DOMAIN decisionQ : decisionQ'[i] = decisionQ[i]
              /\ decisionQ'[Len(decisionQ) + 1] = snaps
            BY <1>t, <2>3, <2>7
        <3>3. \A i \in DOMAIN decisionQ' : i \in DOMAIN decisionQ \/ i = Len(decisionQ) + 1
            BY <3>2
        <3>4. \A i \in DOMAIN decisionQ' :
                /\ decisionQ'[i] \notin Cycles' \cup About' \cup Held'
                /\ \A j \in DOMAIN decisionQ' : j # i => decisionQ'[j] # decisionQ'[i]
            BY <2>2, <2>3, <3>1, <3>2, <3>3 DEF SnapshotDecidesOnce
        <3>5. (About' \cup Held') \cap Cycles' = {} /\ About' \cap Held' = {}
            BY <2>2, <3>1 DEF SnapshotDecidesOnce
        <3> QED
            BY <2>4, <3>4, <3>5 DEF SnapshotDecidesOnce
    <2> QED
        BY <2>1, <2>5, <2>6, <2>7
<1>5. CASE DecisionTake
    <2>1. /\ decider.pc = "idle" /\ decisionQ # <<>> /\ decider' = Invoking(Head(decisionQ), FALSE)
          /\ decisionQ' = Tail(decisionQ) /\ UNCHANGED <<snaps, handler, pending, registry, resume>>
        BY <1>5 DEF DecisionTake
    <2>2. Cycles' = Cycles /\ About = {} /\ Held' = Held
        BY <2>1 DEF Cycles, About, Held
    <2>3. decider'.pc = "invoke" /\ About' = {decisionQ[1]}
        BY <1>t, <2>1 DEF About, Invoking
    <2>4. /\ 1 \in DOMAIN decisionQ
          /\ \A i \in DOMAIN decisionQ' : /\ i + 1 \in DOMAIN decisionQ /\ i + 1 # 1 /\ i \in Int
                                          /\ decisionQ'[i] = decisionQ[i + 1]
        BY <1>t, <2>1
    <2>5. Routing'
        BY <2>1, <2>2, <2>3, <2>4 DEF Routing
    <2>6. (About' \cup Held') \cap Cycles' = {} /\ About' \cap Held' = {}
        BY <2>2, <2>3, <2>4 DEF SnapshotDecidesOnce
    <2>7. ASSUME NEW i \in DOMAIN decisionQ'
          PROVE  /\ decisionQ'[i] \notin Cycles' \cup About' \cup Held'
                 /\ \A j \in DOMAIN decisionQ' : j # i => decisionQ'[j] # decisionQ'[i]
        <3>1. decisionQ'[i] \notin Cycles' \cup About' \cup Held'
            BY <2>2, <2>3, <2>4 DEF SnapshotDecidesOnce
        <3>2. ASSUME NEW j \in DOMAIN decisionQ', j # i PROVE decisionQ'[j] # decisionQ'[i]
            <4>1. i + 1 # j + 1
                BY <2>4, <3>2
            <4> QED
                BY <2>4, <4>1 DEF SnapshotDecidesOnce
        <3> QED
            BY <3>1, <3>2
    <2>8. Known'
        BY <2>1, <2>2, <2>3 DEF Known
    <2> QED
        BY <2>5, <2>6, <2>7, <2>8 DEF SnapshotDecidesOnce
<1>6. CASE DecisionPending
    <2>1. /\ decider.pc = "idle" /\ decisionQ = <<>> /\ pending # None /\ decider' = Invoking(pending, TRUE)
          /\ pending' = None /\ UNCHANGED <<snaps, handler, decisionQ, registry, resume>>
        BY <1>6 DEF DecisionPending
    <2>2. Cycles' = Cycles /\ Held' = {} /\ decider'.pc = "invoke" /\ About' = Held
        BY <2>1 DEF Cycles, About, Held, Invoking
    <2>3. Routing' /\ Known'
        BY <2>1, <2>2 DEF Routing, Known
    <2>4. DOMAIN decisionQ' = {}
        BY <2>1
    <2> QED
        BY <2>2, <2>3, <2>4 DEF SnapshotDecidesOnce
<1>7. CASE DecisionInvoke \/ InvokeRaises
    <2>1. /\ decider.pc = "invoke" /\ UNCHANGED <<snaps, handler, decisionQ, pending, resume>>
          /\ \/ decider' \in {Dead, Again} /\ registry' \in {registry, Registered(decider.snap)}
             \/ decider' = [decider EXCEPT !.pc = "graph"] /\ registry' = Registered(decider.snap)
        BY <1>7 DEF DecisionInvoke, InvokeRaises
    <2>2. decider \in InvokingCycle /\ About = {decider.snap}
        BY <2>1, DeciderRuns DEF About
    <2>3. Cycles' \in {Cycles, Cycles \cup {decider.snap}}
        <3>1. CASE registry' = registry
            BY <3>1 DEF Cycles
        <3>2. CASE registry' = Registered(decider.snap)
            BY <3>2, CyclesOf
        <3> QED
            BY <2>1, <3>1, <3>2
    <2>4. decider'.pc # "invoke"
        BY <2>1, <2>2 DEF Dead, Again, Gone, Free, InvokingCycle
    <2>5. About' = {}
        BY <2>4 DEF About
    <2>6. Routing' /\ SnapshotDecidesOnce'
        BY <2>1, <2>2, <2>3, <2>5, CyclesSettled
    <2>7. CASE decider' \in {Dead, Again}
        BY <2>1, <2>3, <2>6, <2>7 DEF Known, Dead, Again, Gone, Free
    <2>8. CASE decider' = [decider EXCEPT !.pc = "graph"] /\ registry' = Registered(decider.snap)
        <3>1. Cycles' = Cycles \cup {decider.snap} /\ decider'.snap = decider.snap
            BY <2>2, <2>8, CyclesOf DEF InvokingCycle
        <3> QED
            BY <2>1, <2>6, <3>1 DEF Known
    <2> QED
        BY <2>1, <2>7, <2>8
<1>8. CASE DecisionSubmits \/ DecisionEnds
    <2>1. /\ decider.pc \in {"graph", "submitted"} /\ UNCHANGED <<snaps, handler, decisionQ, pending, resume>>
          /\ registry' \in {registry, Completed(decider.snap)}
          /\ decider' \in {Again, [decider EXCEPT !.pc = "submitted"]}
        BY <1>8 DEF DecisionSubmits, DecisionEnds
    <2>2. decider \in InvokingCycle /\ decider.snap \in Cycles
        BY <2>1, DeciderRuns DEF Known
    <2>3. Cycles' = Cycles
        <3>1. CASE registry' = registry
            BY <3>1 DEF Cycles
        <3>2. CASE registry' = Completed(decider.snap)
            BY <2>2, <3>2, CyclesOf
        <3> QED
            BY <2>1, <3>1, <3>2
    <2>4. decider'.pc \in {"idle", "gone", "submitted"} /\ (decider'.pc = "submitted" => decider'.snap = decider.snap)
        BY <2>1, <2>2 DEF Again, Gone, Free, InvokingCycle
    <2>5. About' = {}
        BY <2>4 DEF About
    <2>6. Routing' /\ SnapshotDecidesOnce'
        BY <2>1, <2>3, <2>5, CyclesSettled
    <2> QED
        BY <2>1, <2>2, <2>3, <2>4, <2>6 DEF Known
<1>9. CASE Start \/ Crash
    <2>1. /\ handler' = Quiet /\ decider' \in {Free, Gone} /\ decisionQ' = <<>> /\ pending' = None
          /\ registry' = registry /\ resume' \in {{}, Running}
        BY <1>9 DEF Start, Crash
    <2>2. Cycles' = Cycles /\ About' = {} /\ Held' = {} /\ DOMAIN decisionQ' = {}
        BY <2>1 DEF Cycles, About, Held, Free, Gone
    <2>3. Running \subseteq Cycles
        BY DEF Running, Cycles
    <2> QED
        BY <2>1, <2>2, <2>3 DEF Routing, Known, SnapshotDecidesOnce, Quiet, Free, Gone
<1>10. CASE ResumeCycle
    <2>1. PICK n \in resume : resume' = resume \ {n} /\ registry' \in {registry, Completed(n)}
        BY <1>10 DEF ResumeCycle
    <2>2. UNCHANGED <<snaps, handler, decisionQ, pending, decider>>
        BY <1>10 DEF ResumeCycle
    <2>3. Cycles' = Cycles
        <3>1. CASE registry' = registry
            BY <3>1 DEF Cycles
        <3>2. CASE registry' = Completed(n)
            BY <2>1, <3>2, CyclesOf DEF Known
        <3> QED
            BY <2>1, <3>1, <3>2
    <2>4. About' = About
        BY <2>2 DEF About
    <2>5. Routing' /\ SnapshotDecidesOnce'
        BY <2>2, <2>3, <2>4, CyclesSettled DEF SnapshotDecidesOnce
    <2> QED
        BY <2>1, <2>2, <2>3, <2>5 DEF Known
<1>11. CASE ResumeFails
    <2>1. resume' = {} /\ UNCHANGED <<snaps, handler, decisionQ, pending, decider, registry>>
        BY <1>11 DEF ResumeFails
    <2>2. Cycles' = Cycles /\ About' = About
        BY <2>1 DEF Cycles, About
    <2>3. Routing' /\ SnapshotDecidesOnce'
        BY <2>1, <2>2, CyclesSettled DEF SnapshotDecidesOnce
    <2> QED
        BY <2>1, <2>2, <2>3 DEF Known
<1>12. CASE ShutdownEnds
    <2>1. decider' = Gone /\ UNCHANGED <<snaps, handler, decisionQ, pending, registry, resume>>
        BY <1>12 DEF ShutdownEnds
    <2>2. Cycles' = Cycles /\ About' = {} /\ decider'.pc = "gone"
        BY <2>1 DEF Cycles, About, Gone
    <2>3. Routing' /\ SnapshotDecidesOnce'
        BY <2>1, <2>2, CyclesSettled
    <2> QED
        BY <2>1, <2>2, <2>3 DEF Known
<1> QED
    BY <1>1, <1>2, <1>3, <1>4, <1>5, <1>6, <1>7, <1>8, <1>9, <1>10, <1>11, <1>12 DEF AgentNext, Workers

LEMMA AgentInvariant == AgentSpec => []AgentIInv
<1>1. AgentIInv /\ [AgentNext]_agentVars => AgentIInv'
    BY AgentTypeKept, OrderKept, CyclesKept DEF AgentIInv
<1> QED
    BY <1>1, AgentInitInv, PTL DEF AgentSpec

\* The state of the agent runtime is always of its type: queues, workers, the
\* cycle registry and the cycles to resume speak of snapshots and events that
\* were published.
THEOREM AgentTypeCorrect == AgentSpec => []AgentTypeOK
<1>1. AgentIInv => AgentTypeOK
    BY DEF AgentIInv
<1> QED
    BY <1>1, AgentInvariant, PTL

\* _drain_position_queue never drops an order or position event nor changes their
\* order, for any number of events, snapshots, exceptions and shutdowns: an
\* accepted one waits, is worked on or is done with, and comes after all those
\* done with before it.
THEOREM CriticalAlwaysKept == AgentSpec => []CriticalKept
<1>1. AgentIInv => CriticalKept
    BY DEF AgentIInv, InOrder, CriticalKept
<1> QED
    BY <1>1, AgentInvariant, PTL

\* No snapshot starts a second decision cycle, whichever way it came to the
\* worker (the queue, or coalesced behind a cycle in flight) and whatever was
\* resumed after a restart.
THEOREM SnapshotAlwaysDecidesOnce == AgentSpec => []SnapshotDecidesOnce
<1>1. AgentIInv => SnapshotDecidesOnce
    BY DEF AgentIInv
<1> QED
    BY <1>1, AgentInvariant, PTL
=============================================================================
