----------------------------- MODULE LedgerStore -----------------------------
(***************************************************************************)
(* joker/ledger/store.py: SqliteLedgerStore.append called by concurrent    *)
(* asyncio tasks.                                                          *)
(*                                                                         *)
(* All tasks share the one aiosqlite connection of the store.  aiosqlite   *)
(* runs the operations of a connection on one thread, in the order they    *)
(* were requested (queue), and the event loop resumes the awaiting tasks   *)
(* in the order the results arrive (ready).  Every await of append is a    *)
(* point where other tasks run.  A sqlite connection has one transaction:  *)
(* an INSERT of any task joins it, and commit and rollback end it for all. *)
(***************************************************************************)
EXTENDS Naturals, Sequences, FiniteSets

CONSTANTS Writers,      \* calls of append
          Key,          \* idempotency_key of the event each call appends
          Payload,      \* the business fields _events_equivalent compares
          MaxInFlight,  \* how many calls may be under way at once
          MaxFaults,    \* how often sqlite fails for another reason (a locked database)
          MaxCrashes    \* how often the process dies and the calls are made again

ASSUME StoreAssumption ==
    /\ MaxInFlight \in Nat \ {0}
    /\ MaxFaults \in Nat /\ MaxCrashes \in Nat

Ops == {"select", "fetch", "insert", "commit", "rollback", "reselect", "refetch"}
Results == {"inserted", "replay", "conflict", "error"}

VARIABLES pc,         \* the operation a call has requested, "idle" or "done"
          found,      \* the row its last SELECT returned
          outcome,    \* how its last statement ended
          result,     \* what append returned or raised, "none" before
          queue,      \* calls whose operation waits for the connection's thread
          ready,      \* calls whose result waits for the event loop
          committed,  \* rows on disk
          pending,    \* rows of the connection's open transaction
          overlapped, \* history: calls that were under way together with another
          faults, crashes

storeVars == <<pc, found, outcome, result, queue, ready, committed, pending, overlapped, faults, crashes>>
database == <<committed, pending, faults, crashes>>

Row(w) == [key |-> Key[w], payload |-> Payload[w]]
Rows == {Row(w) : w \in Writers}
Visible == committed \cup pending
NoRow == [key |-> "none", payload |-> "none"]

\* No event has the business fields of the row that stands for "no row".
ASSUME NoRowAssumption == NoRow \notin Rows

Matching(w) == {r \in Visible : r.key = Key[w]}
Lookup(w) == IF Matching(w) = {} THEN NoRow ELSE CHOOSE r \in Matching(w) : TRUE

\* _events_equivalent: event id and stamps are not part of Payload.
Equivalent(w, row) == row = Row(w)

Active == {w \in Writers : pc[w] \in Ops}

Request(w, op) ==
    /\ pc' = [pc EXCEPT ![w] = op]
    /\ queue' = Append(queue, w)

Return(w, res) ==
    /\ pc' = [pc EXCEPT ![w] = "done"]
    /\ result' = [result EXCEPT ![w] = res]
    /\ UNCHANGED queue

\* append is called: the first SELECT is requested.
Start(w) ==
    /\ pc[w] = "idle"
    /\ Cardinality(Active) < MaxInFlight
    /\ overlapped' = IF Active = {} THEN overlapped ELSE overlapped \cup Active \cup {w}
    /\ Request(w, "select")
    /\ UNCHANGED <<found, outcome, result, ready, database>>

-----------------------------------------------------------------------------
(* The connection's thread                                                 *)

Answer(w, how) ==
    /\ outcome' = [outcome EXCEPT ![w] = how]
    /\ queue' = Tail(queue)
    /\ ready' = Append(ready, w)
    /\ UNCHANGED <<pc, result, overlapped, crashes>>

ExecuteSelect ==
    /\ queue # <<>> /\ pc[Head(queue)] \in {"select", "reselect"}
    /\ found' = [found EXCEPT ![Head(queue)] = Lookup(Head(queue))]
    /\ Answer(Head(queue), "ok")
    /\ UNCHANGED <<committed, pending, faults>>

ExecuteFetch ==
    /\ queue # <<>> /\ pc[Head(queue)] \in {"fetch", "refetch"}
    /\ Answer(Head(queue), "ok")
    /\ UNCHANGED <<found, committed, pending, faults>>

\* The UNIQUE constraint fails the statement, not the transaction.
ExecuteInsert ==
    /\ queue # <<>> /\ pc[Head(queue)] = "insert"
    /\ IF Matching(Head(queue)) = {}
       THEN pending' = pending \cup {Row(Head(queue))} /\ Answer(Head(queue), "ok")
       ELSE UNCHANGED pending /\ Answer(Head(queue), "integrity")
    /\ UNCHANGED <<found, committed, faults>>

ExecuteFault ==
    /\ queue # <<>> /\ pc[Head(queue)] \in {"insert", "commit"}
    /\ faults < MaxFaults
    /\ faults' = faults + 1
    /\ Answer(Head(queue), "error")
    /\ UNCHANGED <<found, committed, pending>>

ExecuteCommit ==
    /\ queue # <<>> /\ pc[Head(queue)] = "commit"
    /\ committed' = committed \cup pending
    /\ pending' = {}
    /\ Answer(Head(queue), "ok")
    /\ UNCHANGED <<found, faults>>

ExecuteRollback ==
    /\ queue # <<>> /\ pc[Head(queue)] = "rollback"
    /\ pending' = {}
    /\ Answer(Head(queue), outcome[Head(queue)])
    /\ UNCHANGED <<found, committed, faults>>

Execute ==
    \/ ExecuteSelect \/ ExecuteFetch \/ ExecuteInsert \/ ExecuteFault
    \/ ExecuteCommit \/ ExecuteRollback

-----------------------------------------------------------------------------
(* The event loop resumes append after an await                            *)

AfterFetch(w) ==
    /\ pc[w] = "fetch"
    /\ IF found[w] = NoRow THEN Request(w, "insert") /\ UNCHANGED result
       ELSE Return(w, IF Equivalent(w, found[w]) THEN "replay" ELSE "conflict")

\* Mutant: append returns before it commits.
AfterInsertEarly(w) ==
    /\ pc[w] = "insert"
    /\ IF outcome[w] = "ok" THEN Return(w, "inserted")
       ELSE Request(w, "rollback") /\ UNCHANGED result

AfterInsert(w) ==
    /\ pc[w] = "insert"
    /\ Request(w, IF outcome[w] = "ok" THEN "commit" ELSE "rollback")
    /\ UNCHANGED result

AfterCommit(w) ==
    /\ pc[w] = "commit"
    /\ IF outcome[w] = "ok" THEN Return(w, "inserted")
       ELSE Request(w, "rollback") /\ UNCHANGED result

\* Mutant: a failed insert is tried again instead of being given up.
AfterRollbackRetries(w) ==
    /\ pc[w] = "rollback"
    /\ Request(w, "insert") /\ UNCHANGED result

\* The IntegrityError handler looks again, the general one raises LedgerError.
AfterRollback(w) ==
    /\ pc[w] = "rollback"
    /\ IF outcome[w] = "integrity" THEN Request(w, "reselect") /\ UNCHANGED result
       ELSE Return(w, "error")

AfterRefetch(w) ==
    /\ pc[w] = "refetch"
    /\ Return(w, IF Equivalent(w, found[w]) THEN "replay" ELSE "conflict")

Resume ==
    LET w == Head(ready) IN
    /\ ready # <<>>
    /\ ready' = Tail(ready)
    /\ \/ pc[w] = "select" /\ Request(w, "fetch") /\ UNCHANGED result
       \/ pc[w] = "reselect" /\ Request(w, "refetch") /\ UNCHANGED result
       \/ AfterFetch(w) \/ AfterInsert(w) \/ AfterCommit(w)
       \/ AfterRollback(w) \/ AfterRefetch(w)
    /\ UNCHANGED <<found, outcome, overlapped, database>>

\* The process dies: the open transaction is lost, calls that had not
\* returned are made again after the restart.
Crash ==
    /\ crashes < MaxCrashes
    /\ crashes' = crashes + 1
    /\ pc' = [w \in Writers |-> IF pc[w] = "done" THEN "done" ELSE "idle"]
    /\ found' = [w \in Writers |-> NoRow]
    /\ outcome' = [w \in Writers |-> "ok"]
    /\ queue' = <<>>
    /\ ready' = <<>>
    /\ pending' = {}
    /\ UNCHANGED <<result, committed, overlapped, faults>>

StoreInit ==
    /\ pc = [w \in Writers |-> "idle"]
    /\ found = [w \in Writers |-> NoRow]
    /\ outcome = [w \in Writers |-> "ok"]
    /\ result = [w \in Writers |-> "none"]
    /\ queue = <<>>
    /\ ready = <<>>
    /\ committed = {}
    /\ pending = {}
    /\ overlapped = {}
    /\ faults = 0
    /\ crashes = 0

StoreNext == (\E w \in Writers : Start(w)) \/ Execute \/ Resume \/ Crash

Fairness == WF_storeVars(Execute) /\ WF_storeVars(Resume) /\ \A w \in Writers : WF_storeVars(Start(w))

StoreSpec == StoreInit /\ [][StoreNext]_storeVars /\ Fairness

-----------------------------------------------------------------------------
(* Properties                                                              *)

StoreTypeOK ==
    /\ pc \in [Writers -> Ops \cup {"idle", "done"}]
    /\ found \in [Writers -> Rows \cup {NoRow}]
    /\ outcome \in [Writers -> {"ok", "integrity", "error"}]
    /\ result \in [Writers -> Results \cup {"none"}]
    /\ \A i \in DOMAIN queue : queue[i] \in Active
    /\ \A i \in DOMAIN ready : ready[i] \in Active
    /\ committed \subseteq Rows /\ pending \subseteq Rows
    /\ overlapped \subseteq Writers

\* append's promise: an event whose append returned True or False is in the
\* ledger from then on, although statements fail and the process dies at any
\* await.  It is stated for the calls no other call overlapped: the rollback
\* of one call discards what another has inserted and not yet committed.
SerialAppendIsDurable ==
    \A w \in Writers \ overlapped :
        result[w] \in {"inserted", "replay"} => Row(w) \in committed

\* Every call of append returns: no order of the awaits of several calls
\* leaves one of them waiting.
AppendReturns == <>(\A w \in Writers : pc[w] = "done")
=============================================================================
