--------------------------- MODULE SessionSupervisor ---------------------------
(***************************************************************************)
(* joker/runtime/session_supervisor.py around the reconciliation of        *)
(* Reconciliation.tla: the restored and saved checkpoints of the graph     *)
(* state (joker/graph/checkpoints.py), the agent that is started last and  *)
(* stopped first, the health of the bridge (joker/runtime/compatibility.py)*)
(* and the shutdown, whose steps the agent's tasks interleave with.        *)
(*                                                                         *)
(* The session id is the one of a cognitive session, which survives a      *)
(* restart; any other session starts with an empty ledger and without a    *)
(* checkpoint.  Of the graph state only its errors are kept.               *)
(***************************************************************************)
EXTENDS Reconciliation

CONSTANT MaxOutages   \* bound on failures of the market data; every restart counts as one

ASSUME OutagesAssumption == MaxOutages \in Nat

VARIABLES errors,    \* the codes in graph_state["errors"]
          saved,     \* the errors of the latest checkpoint, a set of at most one set
          degraded,  \* Task1RuntimeHealth.degraded
          agent,     \* the injected agent runtime: "off" or "on"
          stop,      \* where SessionSupervisor.shutdown is; "no" before it is called
          outages

audit == <<errors, saved>>
lifecycle == <<agent, stop>>
supVars == <<audit, degraded, lifecycle, outages>>
allVars == <<vars, supVars>>

Codes == {"unresolved_reconciliation", "task1_truth_degraded"}

-----------------------------------------------------------------------------
(* Checkpoints                                                             *)

\* SqliteCheckpointStore.save adds a row, and load_latest reads the newest.
Save(state) == saved' = {state}
LoadLatest == UNION saved

-----------------------------------------------------------------------------
(* start                                                                   *)

\* Mutant: the checkpoint is saved before the error is added.
RecordStartEarly ==
    /\ errors' = errors \cup {e \in {"unresolved_reconciliation"} : supUnresolved'}
    /\ IF phase' = "up" THEN Save(errors) ELSE UNCHANGED saved

\* A report that the corrections have not settled is an error, and the graph
\* state is saved at the end of start.
RecordStart ==
    /\ errors' = errors \cup {e \in {"unresolved_reconciliation"} : supUnresolved'}
    /\ IF phase' = "up" THEN Save(errors') ELSE UNCHANGED saved

SupervisorStart == Start /\ RecordStart /\ UNCHANGED <<degraded, lifecycle, outages>>

\* start_agent_runtime, after the cognitive graph is bound to the stores and the
\* execution runtime of start, and before the runner polls.
StartAgent ==
    /\ phase = "up" /\ agent = "off" /\ stop = "no"
    /\ agent' = "on"
    /\ UNCHANGED <<vars, audit, degraded, stop, outages>>

\* The process or the supervisor ends anywhere, and the next one restores the
\* graph state.  The bridge and its health are new.
Restart ==
    /\ Crash
    /\ errors' = LoadLatest
    /\ degraded' = FALSE /\ agent' = "off" /\ stop' = "no"
    /\ UNCHANGED <<saved, outages>>

-----------------------------------------------------------------------------
(* The session                                                             *)

\* The session runner and the agent call the execution runtime.  The runner
\* begins when the agent is started and has ended its calls when it calls
\* shutdown, the agent goes on until it is stopped.  (The bridge refuses the
\* runner's orders while the market data are degraded; the agent's do not pass
\* the bridge.)
Running == agent = "on"

\* _sync_health_to_graph
SyncHealth(deg) ==
    (errors \ {"task1_truth_degraded"}) \cup {e \in {"task1_truth_degraded"} : deg}

\* _ingest_fail: an ingestion or a tick raised.
IngestFail ==
    /\ Running /\ stop = "no" /\ outages + crashes < MaxOutages
    /\ outages' = outages + 1
    /\ degraded' = TRUE
    /\ errors' = SyncHealth(TRUE)
    /\ UNCHANGED <<vars, saved, lifecycle>>

\* _ingest_ok: a snapshot was stored.  Only a health that was degraded is
\* brought into the graph state, so that an error restored from a checkpoint
\* stays.
IngestOk ==
    /\ Running /\ stop = "no" /\ degraded
    /\ degraded' = FALSE
    /\ errors' = SyncHealth(FALSE)
    /\ UNCHANGED <<vars, saved, lifecycle, outages>>

Trade(c) ==
    /\ \/ /\ Running
          /\ \/ Request(c) \/ Send(c) \/ SendFails(c) \/ Accept(c)
             \/ RecordFill(c) \/ RecordPartial(c) \/ RecordCancel(c)
       \/ BrokerFills(c)
    /\ UNCHANGED supVars

Recheck == Running /\ Reconcile /\ UNCHANGED supVars

-----------------------------------------------------------------------------
(* shutdown                                                                *)

\* SESSION_ENDING.  What is under way is the agent's.
ShutdownBegins ==
    /\ Running /\ stop = "no"
    /\ stop' = "reconcile"
    /\ UNCHANGED <<vars, audit, degraded, agent, outages>>

\* The final reconciliation, while the agent still works.
ShutdownReconciles ==
    /\ stop = "reconcile"
    /\ Reconcile
    /\ stop' = "checkpoint"
    /\ UNCHANGED <<audit, degraded, agent, outages>>

\* The broker does not answer: shutdown raises, the bridge cancels every task of
\* its loop and the runner goes on.
ShutdownAborts ==
    /\ stop = "reconcile" /\ Remote
    /\ stop' = "aborted"
    /\ agent' = "off"
    /\ sending' = {}
    /\ UNCHANGED <<ledger, broker, startup, crashes, audit, degraded, outages>>

ShutdownCheckpoints ==
    /\ stop = "checkpoint"
    /\ Save(errors)
    /\ stop' = "agent"
    /\ UNCHANGED <<vars, errors, degraded, agent, outages>>

\* agent.shutdown waits for its tasks and cancels those that take too long,
\* wherever they are.  Then the bus is drained and closed, and the stores are.
ShutdownCloses ==
    /\ stop = "agent"
    /\ sending' = {}
    /\ agent' = "off"
    /\ stop' = "done"
    /\ UNCHANGED <<ledger, broker, startup, crashes, audit, degraded, outages>>

Shutdown ==
    ShutdownReconciles \/ ShutdownAborts \/ ShutdownCheckpoints \/ ShutdownCloses

SupervisorInit ==
    /\ Init
    /\ errors = {} /\ saved = {}
    /\ degraded = FALSE /\ agent = "off" /\ stop = "no" /\ outages = 0

Next ==
    \/ SupervisorStart \/ StartAgent \/ Restart
    \/ IngestFail \/ IngestOk \/ Recheck
    \/ \E c \in Clients : Trade(c)
    \/ ShutdownBegins \/ Shutdown

Spec == SupervisorInit /\ [][Next]_allVars /\ WF_allVars(SupervisorStart) /\ WF_allVars(Shutdown)

-----------------------------------------------------------------------------
(* Properties                                                              *)

SupervisorTypeOK ==
    /\ TypeOK
    /\ errors \subseteq Codes /\ \A s \in saved : s \subseteq Codes
    /\ degraded \in BOOLEAN /\ agent \in {"off", "on"}
    /\ stop \in {"no", "reconcile", "checkpoint", "agent", "done", "aborted"}

\* The audit trail: a session that may not claim recovery says so in every
\* checkpoint from the end of its start on, however often it reconciles and
\* whatever was restored; one whose market data are degraded says so in its graph
\* state and in the checkpoint of its shutdown.
AuditIsKept ==
    phase = "up" =>
        /\ ~ClaimsRecovery => \A s \in {errors} \cup saved : "unresolved_reconciliation" \in s
        /\ saved # {}
        /\ degraded => \A s \in {errors} \cup (IF stop \in {"agent", "done"} THEN saved ELSE {}) :
                            "task1_truth_degraded" \in s

\* Start and shutdown come to an end, wherever they are: start corrects once and
\* returns or raises, and no task of the agent, no order under way and no broker
\* that is silent keeps shutdown from returning.
LifecycleEnds ==
    /\ []<>(phase \in {"up", "failed"})
    /\ []<>(stop \in {"done", "aborted", "no"})
=============================================================================
