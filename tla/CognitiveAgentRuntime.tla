------------------------ MODULE CognitiveAgentRuntime -------------------------
(***************************************************************************)
(* joker/runtime/cognitive_agent_runtime.py: the event handler, the        *)
(* coalescing of market snapshots, the decision and the position worker,   *)
(* the cycle registry, shutdown, and the resumption of unfinished cycles   *)
(* after a restart.                                                        *)
(*                                                                         *)
(* Snapshots are numbered in the order in which they are published; they   *)
(* belong to one stream of the bus, so one handler of them runs at a time. *)
(* A graph invocation is abstracted to its outcome.  The ledger is two     *)
(* facts of its projection: a position is open, an entry order works.      *)
(***************************************************************************)
EXTENDS Integers, Sequences, FiniteSets

CONSTANTS MaxSnapshots, \* bound on MARKET_SNAPSHOT_CREATED events
          MaxCritical,  \* bound on order and position events
          MaxStops      \* bound on shutdowns and crashes

ASSUME AgentAssumption == {MaxSnapshots, MaxCritical, MaxStops} \subseteq Nat

VARIABLES position,   \* the projection has an open position
          entry,      \* the projection has a working entry order
          snaps,      \* snapshots published so far
          criticals,  \* order and position events published so far
          phase,      \* "off", "resuming", "up", "stopping", "stopped"
          handler,    \* on_event for a snapshot, between its awaits
          decisionQ,  \* snapshots, in order
          positionQ,  \* critical events and position snapshots, with sequence numbers
          sequence,   \* _sequence
          pending,    \* _pending_new_entry_snapshot, 0 when None
          decider,    \* the decision worker: what it runs
          positioner, \* the position worker: what it runs
          registry,   \* cycle registry: status by cycle
          resume,     \* cycles start has still to resume
          ordered,    \* cycles whose order the ledger has
          queued, handled, \* history: critical events this process accepted, and worked on
          stops

agentVars == <<position, entry, snaps, criticals, phase, handler, decisionQ, positionQ, sequence,
          pending, decider, positioner, registry, resume, ordered, queued, handled, stops>>
projection == <<position, entry>>
input == <<snaps, criticals>>
queues == <<decisionQ, positionQ, sequence, pending>>
history == <<ordered, queued, handled>>

None == 0
Free == [pc |-> "idle", snap |-> None]
Gone == [pc |-> "gone", snap |-> None]
Dead == [pc |-> "dead", snap |-> None]
Invoking(n, coalesced) == [pc |-> "invoke", snap |-> n, coalesced |-> coalesced]
Quiet == [pc |-> "idle", snap |-> None, open |-> FALSE]

\* _started and not _shutdown: start raises the flag before it resumes.
Accepting == phase \in {"resuming", "up"}
InFlight == decider.pc \in {"invoke", "graph", "submitted"}

\* _Priority: CRITICAL before POSITION_SNAPSHOT.
Critical == 0
PositionSnapshot == 1

Enqueue(prio, item) ==
    /\ positionQ' = positionQ \cup {[prio |-> prio, seq |-> sequence + 1, item |-> item]}
    /\ sequence' = sequence + 1

-----------------------------------------------------------------------------
(* on_event                                                                *)

CriticalEvent ==
    /\ criticals < MaxCritical
    /\ criticals' = criticals + 1
    /\ IF Accepting
       THEN Enqueue(Critical, criticals + 1) /\ queued' = queued \cup {criticals + 1}
       ELSE UNCHANGED <<positionQ, sequence, queued>>
    /\ UNCHANGED <<projection, snaps, phase, handler, decisionQ, pending, decider, positioner,
                   registry, resume, ordered, handled, stops>>

SnapshotEvent ==
    /\ snaps < MaxSnapshots
    /\ handler.pc = "idle"
    /\ snaps' = snaps + 1
    /\ handler' = IF Accepting THEN [pc |-> "positions", snap |-> snaps + 1, open |-> FALSE] ELSE Quiet
    /\ UNCHANGED <<projection, criticals, phase, queues, decider, positioner, registry, resume, history, stops>>

\* _enqueue_snapshot_work reads the projection for positions ...
ReadPositions ==
    /\ handler.pc = "positions"
    /\ handler' = [handler EXCEPT !.pc = "route", !.open = position]
    /\ UNCHANGED <<projection, input, phase, queues, decider, positioner, registry, resume, history, stops>>

\* ... and again for entry orders, then routes without another await.
RouteSnapshot ==
    LET n == handler.snap IN
    /\ handler.pc = "route"
    /\ handler' = Quiet
    /\ \/ /\ handler.open
          /\ Enqueue(PositionSnapshot, n)
          /\ UNCHANGED <<decisionQ, pending>>
       \/ /\ ~handler.open /\ entry
          /\ UNCHANGED queues
       \/ /\ ~handler.open /\ ~entry /\ InFlight
          /\ pending' = n
          /\ UNCHANGED <<decisionQ, positionQ, sequence>>
       \/ /\ ~handler.open /\ ~entry /\ ~InFlight
          /\ decisionQ' = Append(decisionQ, n)
          /\ sequence' = sequence + 1
          /\ UNCHANGED <<positionQ, pending>>
    /\ UNCHANGED <<projection, input, phase, decider, positioner, registry, resume, history, stops>>

-----------------------------------------------------------------------------
(* The decision worker                                                     *)

\* The loop tests _shutdown before it waits: a worker that waits already
\* takes what a handler puts into the queue during a shutdown.
DecisionTake ==
    /\ phase \in {"up", "stopping"} /\ decider.pc = "idle" /\ decisionQ # <<>>
    /\ decider' = Invoking(Head(decisionQ), FALSE)
    /\ decisionQ' = Tail(decisionQ)
    /\ UNCHANGED <<projection, input, phase, handler, positionQ, sequence, pending, positioner,
                   registry, resume, history, stops>>

\* Mutant: the coalesced snapshot is run only while a cycle is in flight.
DecisionPendingInverted ==
    /\ phase \in {"up", "stopping"} /\ decider.pc = "idle" /\ InFlight /\ pending # None
    /\ decider' = Invoking(pending, TRUE)
    /\ pending' = None
    /\ UNCHANGED <<projection, input, phase, handler, decisionQ, positionQ, sequence, positioner,
                   registry, resume, history, stops>>

\* Mutant: the coalesced snapshot stays pending.
DecisionPendingKept ==
    /\ phase \in {"up", "stopping"} /\ decider.pc = "idle" /\ decisionQ = <<>> /\ pending # None
    /\ decider' = Invoking(pending, TRUE)
    /\ UNCHANGED <<projection, input, phase, handler, queues, positioner, registry, resume, history, stops>>

\* _run_coalesced_new_entry, when the wait for the queue times out.
DecisionPending ==
    /\ phase \in {"up", "stopping"} /\ decider.pc = "idle" /\ decisionQ = <<>> /\ pending # None
    /\ decider' = Invoking(pending, TRUE)
    /\ pending' = None
    /\ UNCHANGED <<projection, input, phase, handler, decisionQ, positionQ, sequence, positioner,
                   registry, resume, history, stops>>

\* A worker that ends its work looks at _shutdown before it waits again.
Again == IF phase \in {"stopping", "stopped"} THEN Gone ELSE Free

Registered(n) == registry \cup {[snap |-> n, status |-> "running"]}

\* _invoke_decision_graph: no cycle while an entry works, else it is registered.
DecisionInvoke ==
    /\ decider.pc = "invoke"
    /\ IF entry
       THEN decider' = Again /\ UNCHANGED registry
       ELSE /\ decider' = [decider EXCEPT !.pc = "graph"]
            /\ registry' = Registered(decider.snap)
    /\ UNCHANGED <<projection, input, phase, handler, queues, positioner, resume, history, stops>>

\* The registry raises, or the bus after it.  The loop catches what a queued
\* snapshot raises; the coalesced one runs in the handler of the loop's
\* TimeoutError, and its exception ends the worker.
InvokeRaises ==
    /\ decider.pc = "invoke" /\ ~entry
    /\ decider' = IF decider.coalesced THEN Dead ELSE Again
    /\ registry' \in {registry, Registered(decider.snap)}
    /\ UNCHANGED <<projection, input, phase, handler, queues, positioner, resume, history, stops>>

\* The graph's submit node: the gateway lets an entry pass while none works.
\* PaperBroker fills at once, at Webull the order works.
DecisionSubmits ==
    /\ decider.pc = "graph" /\ ~entry
    /\ \/ entry' = TRUE /\ UNCHANGED position
       \/ position' = TRUE /\ UNCHANGED entry
    /\ decider' = [decider EXCEPT !.pc = "submitted"]
    /\ ordered' = ordered \cup {decider.snap}
    /\ UNCHANGED <<input, phase, handler, queues, positioner, registry, resume, queued, handled, stops>>

Completed(n) ==
    (registry \ {[snap |-> n, status |-> "running"]}) \cup {[snap |-> n, status |-> "completed"]}

\* The graph ends: with a terminal outcome, or by an error, a block or the
\* timeout, which leave the cycle "running" in the registry.
DecisionEnds ==
    /\ decider.pc \in {"graph", "submitted"}
    /\ decider' = Again
    /\ registry' \in {registry, Completed(decider.snap)}
    /\ UNCHANGED <<projection, input, phase, handler, queues, positioner, resume, history, stops>>

-----------------------------------------------------------------------------
(* The position worker                                                     *)

\* Mutant: within a priority, the latest first.
BeforeLatest(v, w) == v.prio < w.prio \/ (v.prio = w.prio /\ v.seq > w.seq)

Before(v, w) == v.prio < w.prio \/ (v.prio = w.prio /\ v.seq < w.seq)

FirstInQueue(w) == \A v \in positionQ : v = w \/ Before(w, v)

PositionTake ==
    /\ phase \in {"up", "stopping", "stopped"} /\ positioner.pc = "idle"
    /\ \E w \in positionQ :
        /\ FirstInQueue(w)
        /\ positionQ' = positionQ \ {w}
        /\ positioner' = [pc |-> IF w.prio = Critical THEN "critical" ELSE "snapshot", snap |-> w.item]
    /\ UNCHANGED <<projection, input, phase, handler, decisionQ, sequence, pending, decider,
                   registry, resume, history, stops>>

\* Mutant: an exception ends the worker.
PositionEndsWorker ==
    /\ positioner.pc \in {"critical", "snapshot"}
    /\ positioner' = Gone
    /\ handled' = IF positioner.pc = "critical" THEN handled \cup {positioner.snap} ELSE handled
    /\ UNCHANGED <<projection, input, phase, handler, queues, decider, registry, resume, ordered, queued, stops>>

\* The work ends, by an exception too; a position cycle may have closed the
\* position or sent an ADD.
PositionEnds ==
    /\ positioner.pc \in {"critical", "snapshot"}
    /\ positioner' = Again
    /\ handled' = IF positioner.pc = "critical" THEN handled \cup {positioner.snap} ELSE handled
    /\ \/ position' \in {position, FALSE} /\ UNCHANGED entry
       \/ position /\ ~entry /\ entry' = TRUE /\ UNCHANGED position
    /\ UNCHANGED <<input, phase, handler, queues, decider, registry, resume, ordered, queued, stops>>

-----------------------------------------------------------------------------
(* start, shutdown and crashes                                             *)

Running == {r.snap : r \in {q \in registry : q.status = "running"}}

\* A new process: queues and the pending snapshot are those of a new object.
Start ==
    /\ phase \in {"off", "stopped"}
    /\ phase' = "resuming"
    /\ resume' = Running
    /\ decisionQ' = <<>> /\ positionQ' = {} /\ sequence' = 0 /\ pending' = None
    /\ decider' = Free /\ positioner' = Free /\ handler' = Quiet
    /\ queued' = {} /\ handled' = {}
    /\ UNCHANGED <<projection, input, registry, ordered, stops>>

\* _resume_unfinished_cycles, one cycle.  Its checkpoint may lie before the
\* submit node: the order is then placed now, or found in the ledger by its
\* client order id, or the node is blocked (by its own working order too) and
\* the cycle stays "running".
ResumeCycle ==
    /\ phase = "resuming" /\ resume # {}
    /\ \E n \in resume :
        /\ resume' = resume \ {n}
        /\ \/ /\ registry' \in {registry, Completed(n)}
              /\ UNCHANGED <<projection, ordered>>
           \/ /\ n \notin ordered /\ ~entry
              /\ registry' = Completed(n)
              /\ ordered' = ordered \cup {n}
              /\ \/ entry' = TRUE /\ UNCHANGED position
                 \/ position' = TRUE /\ UNCHANGED entry
    /\ UNCHANGED <<input, phase, handler, queues, decider, positioner, queued, handled, stops>>

\* The registry itself raises: start logs it, gives up the rest and goes on.
ResumeFails ==
    /\ phase = "resuming" /\ resume # {}
    /\ phase' = "up"
    /\ resume' = {}
    /\ UNCHANGED <<projection, input, handler, queues, decider, positioner, registry, history, stops>>

Resumed ==
    /\ phase = "resuming" /\ resume = {}
    /\ phase' = "up"
    /\ UNCHANGED <<projection, input, handler, queues, decider, positioner, registry, resume, history, stops>>

ShutdownBegins ==
    /\ phase = "up" /\ stops < MaxStops
    /\ phase' = "stopping"
    /\ stops' = stops + 1
    /\ UNCHANGED <<projection, input, handler, queues, decider, positioner, registry, resume, history>>

\* After at most five seconds tasks and workers are cancelled; what the
\* queues hold stays there.  The exception of a dead decision worker is raised
\* again by the await of it, and nobody cancels the position worker.
ShutdownEnds ==
    /\ phase = "stopping"
    /\ phase' = "stopped"
    /\ decider' = Gone /\ positioner' \in {Gone} \cup (IF decider.pc = "dead" THEN {positioner} ELSE {})
    /\ UNCHANGED <<projection, input, handler, queues, registry, resume, history, stops>>

Crash ==
    /\ phase \in {"resuming", "up"} /\ stops < MaxStops
    /\ stops' = stops + 1
    /\ phase' = "off"
    /\ decider' = Gone /\ positioner' = Gone /\ handler' = Quiet
    /\ decisionQ' = <<>> /\ positionQ' = {} /\ sequence' = 0 /\ pending' = None
    /\ resume' = {}
    /\ UNCHANGED <<projection, input, registry, history>>

\* The broker: the working entry fills or ends, the position is closed.
Market ==
    /\ \/ entry /\ entry' = FALSE /\ position' \in {position, TRUE}
       \/ position /\ position' = FALSE /\ UNCHANGED entry
    /\ UNCHANGED <<input, phase, handler, queues, decider, positioner, registry, resume, history, stops>>

AgentInit ==
    /\ position = FALSE /\ entry = FALSE
    /\ snaps = 0 /\ criticals = 0
    /\ phase = "off"
    /\ handler = Quiet
    /\ decisionQ = <<>> /\ positionQ = {} /\ sequence = 0 /\ pending = None
    /\ decider = Gone /\ positioner = Gone
    /\ registry = {} /\ resume = {}
    /\ ordered = {} /\ queued = {} /\ handled = {}
    /\ stops = 0

Workers ==
    \/ DecisionTake \/ DecisionPending \/ DecisionInvoke \/ InvokeRaises \/ DecisionSubmits \/ DecisionEnds
    \/ PositionTake \/ PositionEnds

AgentNext ==
    \/ CriticalEvent \/ SnapshotEvent \/ ReadPositions \/ RouteSnapshot
    \/ Workers
    \/ Start \/ ResumeCycle \/ ResumeFails \/ Resumed \/ ShutdownBegins \/ ShutdownEnds \/ Crash
    \/ Market

\* The loop runs what is ready, and shutdown's wait has a limit of its own.
\* Decision cycles end by max_cycle_seconds; position cycles and resumed
\* cycles have no limit of their own and are assumed to end, except while the
\* runtime is shutting down.
AgentFairness ==
    /\ WF_agentVars(ShutdownEnds)
    /\ WF_agentVars(ReadPositions \/ RouteSnapshot)
    /\ WF_agentVars(DecisionTake \/ DecisionPending \/ DecisionInvoke \/ InvokeRaises \/ DecisionEnds)
    /\ WF_agentVars(ResumeCycle \/ ResumeFails \/ Resumed)
    /\ WF_agentVars(phase = "up" /\ (PositionTake \/ PositionEnds))

AgentSpec == AgentInit /\ [][AgentNext]_agentVars /\ AgentFairness

-----------------------------------------------------------------------------
(* Properties                                                              *)

AgentTypeOK ==
    /\ position \in BOOLEAN /\ entry \in BOOLEAN
    /\ snaps \in Nat /\ criticals \in Nat /\ sequence \in Nat /\ stops \in Nat
    /\ phase \in {"off", "resuming", "up", "stopping", "stopped"}
    /\ handler \in [pc : {"idle", "positions", "route"}, snap : 0..snaps, open : BOOLEAN]
    /\ decisionQ \in Seq(1..snaps) /\ pending \in 0..snaps
    /\ positionQ \subseteq [prio : {Critical, PositionSnapshot}, seq : 1..sequence, item : Nat]
    /\ decider \in {Free, Gone, Dead}
                  \cup [pc : {"invoke", "graph", "submitted"}, snap : 1..snaps, coalesced : BOOLEAN]
    /\ positioner \in [pc : {"idle", "gone", "critical", "snapshot"}, snap : Nat]
    /\ registry \subseteq [snap : 1..snaps, status : {"running", "completed"}]
    /\ resume \subseteq 1..snaps /\ ordered \subseteq 1..snaps
    /\ handled \subseteq queued /\ queued \subseteq 1..criticals

Halted == phase \in {"off", "stopping", "stopped"}

\* The critical events that wait, and the one that is worked on.
Waiting == {w.item : w \in {v \in positionQ : v.prio = Critical}}
Working == IF positioner.pc = "critical" THEN {positioner.snap} ELSE {}

\* "never drops position/order events": each one accepted is waiting, being
\* worked on or done with, none of them twice, and they are done in the order in
\* which they came, whatever snapshots are queued between them.
CriticalKept ==
    phase \in {"resuming", "up", "stopping"} =>
        /\ queued = handled \cup Working \cup Waiting
        /\ \A d \in handled : \A e \in Working \cup Waiting : d < e
        /\ \A d \in Working : \A e \in Waiting : d < e

\* The snapshots with a cycle, and what the worker is about to register or may
\* still come to.
Cycles == {r.snap : r \in registry}
About == IF decider.pc = "invoke" THEN {decider.snap} ELSE {}
Held == IF pending = None THEN {} ELSE {pending}

\* A snapshot is decided on once: what waits in the queue or is coalesced, and
\* what the worker is about to register, has no cycle yet, and no two of them
\* are the same.
SnapshotDecidesOnce ==
    /\ (About \cup Held) \cap Cycles = {} /\ About \cap Held = {}
    /\ \A i \in DOMAIN decisionQ :
        /\ decisionQ[i] \notin Cycles \cup About \cup Held
        /\ \A j \in DOMAIN decisionQ : j # i => decisionQ[j] # decisionQ[i]

\* While the runtime is up, every order and position event it took is worked
\* on to the end, whatever exceptions earlier work raised and whatever becomes
\* of the decision worker.
CriticalServed ==
    \A e \in 1..MaxCritical : []<>(e \in queued => e \in handled \/ Halted)

\* A snapshot that was coalesced is not forgotten: the worker, unless an
\* exception ended it, gets to it or to a later one.
PendingServed ==
    \A n \in 1..MaxSnapshots : []<>(pending # n \/ decider.pc = "dead" \/ Halted)
=============================================================================
