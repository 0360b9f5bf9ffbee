----------------------------- MODULE ModelRouter ------------------------------
(***************************************************************************)
(* joker/models/router.py and the model_calls table of                     *)
(* joker/cognition/artifacts.py: which profile a role is routed to, the    *)
(* schema repairs and the one escalation of a call, and the durable row    *)
(* that lets a resumed cycle take a completed answer instead of asking     *)
(* again.                                                                  *)
(*                                                                         *)
(* A row belongs to the request that inserted it: a later request with the *)
(* same idempotency key finds it, but marks its own request id complete or *)
(* failed, which no row has.  The text of an answer is abstracted to the   *)
(* part of it that the graphs read.                                        *)
(***************************************************************************)
EXTENDS Integers, Sequences, SequencesExt, TLC

CONSTANTS MaxSchemaRepair, \* max_schema_repair_attempts
          MaxEscalations   \* max_provider_escalations

ASSUME RouterAssumption == {MaxSchemaRepair, MaxEscalations} \subseteq Nat

Remote == "remote_escalation"

CriticRoles == {"strategy_advocate", "falsifier", "historical_critic", "execution_critic",
                "alternative_explanation"}
DeepLocalRoles == {"meta_decision", "entry_tactician", "order_manager", "position_thesis",
                   "position_decision"}
FastRoles == {"anomaly", "temporal_context"}

\* No caller forces a profile, names one in the request or asks to escalate.
SelectProfile(role, deepEnabled) ==
    CASE role \in CriticRoles -> "independent_critic"
      [] role \in DeepLocalRoles /\ deepEnabled -> "deep_local"
      [] role \in FastRoles -> "fast_structured"
      [] OTHER -> "general_reasoning"

Profiles == {"independent_critic", "deep_local", "fast_structured", "general_reasoning", Remote}

-----------------------------------------------------------------------------
(* One call: the answers of the providers and what becomes of the row      *)

\* What a provider does with a request: an answer that validates, one that
\* does not (StructuredOutputFailure), unavailable (any other ModelError), or
\* an exception the router does not catch (a body that is not JSON, an answer
\* without choices).
LocalAnswers == {"valid", "malformed", "unavailable", "broken"}    \* Ollama
RemoteAnswers == {"valid", "malformed", "unavailable", "broken"}   \* OpenAI
Answers == LocalAnswers \cup RemoteAnswers

NewCall(profile) ==
    [profile |-> profile, repairs |-> 0, escalations |-> 0,
     row |-> "in_progress", result |-> "pending"]

EscalateOrRaise(call) ==
    IF call.profile = Remote \/ call.escalations >= MaxEscalations
    THEN [call EXCEPT !.result = "failed"]
    ELSE [call EXCEPT !.profile = Remote, !.escalations = @ + 1, !.repairs = 0]

\* mark_model_call_complete refuses a row that has been marked failed.
MarkComplete(row) == IF row = "failed" THEN row ELSE "completed"
\* mark_model_call_failed refuses a completed one; a call fails only before.
MarkFailed(row) == IF row = "completed" THEN row ELSE "failed"

Retried(call, answer) ==
    CASE answer = "valid" -> [call EXCEPT !.result = "valid", !.row = MarkComplete(@)]
      [] answer = "broken" -> [call EXCEPT !.result = "raised"]
      [] answer = "malformed" /\ call.repairs < MaxSchemaRepair -> [call EXCEPT !.repairs = @ + 1]
      [] OTHER -> EscalateOrRaise([call EXCEPT !.row = MarkFailed(@)])

\* _complete_with_retries over the providers' answers, in turn.
CompleteWithRetries(profile, answers) ==
    FoldLeft(LAMBDA call, a : IF call.result = "pending" THEN Retried(call, a) ELSE call,
             NewCall(profile), answers)

MaxAnswers == (MaxSchemaRepair + 1) * (MaxEscalations + 1)

\* What a call of a profile can come to, as the caller and the table see it.
Outcomes ==
    [p \in Profiles |->
        {[result |-> CompleteWithRetries(p, s).result, row |-> CompleteWithRetries(p, s).row] :
            s \in [1..MaxAnswers -> Answers]}]

AtOnce == [result |-> "valid", row |-> "completed"]

-----------------------------------------------------------------------------
(* model_calls                                                             *)

\* build_model_call_idempotency_key: the session, the cycle, the snapshot and
\* the role's own context are in the context hash; the extra payload of the
\* request is not.
IdempotencyKey(role, contextHash) == <<role, contextHash>>

\* Mutant: an answer on record is not looked for.
NeverReused(calls, key) == FALSE

TryReuseCompleted(calls, key) == key \in DOMAIN calls /\ calls[key].status = "completed"

NoOutput == [none |-> TRUE]
Row(status, output) ==
    [status |-> status, output |-> IF status = "completed" THEN output ELSE NoOutput]

\* Rows of calls whose keys are not on record; the row of one that is stays.
Inserting(calls, rows) ==
    [k \in DOMAIN calls \cup DOMAIN rows |-> IF k \in DOMAIN calls THEN calls[k] ELSE rows[k]]

\* append_model_call and the marks: only the request that inserted the row
\* changes it.
RecordCall(calls, key, outcome, output) ==
    Inserting(calls, [k \in {key} |-> Row(outcome.row, output)])

\* route_and_complete: the table and the answer the agent gets.
RouteAndComplete(calls, key, outcome, output) ==
    IF TryReuseCompleted(calls, key)
    THEN [calls |-> calls, result |-> "valid", output |-> calls[key].output]
    ELSE [calls |-> RecordCall(calls, key, outcome, output),
          result |-> outcome.result, output |-> output]

\* A process that dies during a call leaves no row, the row of a call that has
\* not answered, or that of one whose answer the caller never got.
TornRows(outputs) == {Row("in_progress", NoOutput)} \cup {Row("completed", o) : o \in outputs}
=============================================================================
