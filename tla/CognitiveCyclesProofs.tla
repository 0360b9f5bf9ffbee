------------------------ MODULE CognitiveCyclesProofs -------------------------
(***************************************************************************)
(* Theorems about CognitiveCycles, for any roles, inventors and bounds.    *)
(*                                                                         *)
(* The answers.  Rows of model_calls are only added (Extends), so what a   *)
(* checkpoint took for the answer of a call stays what the table has       *)
(* (Answered), whichever of the two writes an interruption came between.   *)
(*                                                                         *)
(* The orders.  A cycle's order is Backed by its checkpoint: its id is the *)
(* cycle's own, and the checkpoint either has the id, or is still at the   *)
(* node that submits it, or has ended with an error that keeps the cycle   *)
(* running in the registry.  What a worker has under way is Requested by   *)
(* the cycle in the same sense, so an order sent, sent again or found at   *)
(* the broker after a crash is backed whatever came in between.            *)
(*                                                                         *)
(* First each node is shown to leave a sound checkpoint (Advances), then   *)
(* each action to keep IInv, by the shapes of step CycleChange and         *)
(* WorkerChange; then come the theorems that follow from IInv.             *)
(*                                                                         *)
(* The lifecycle.  Last, every action is shown to be a step of             *)
(* CycleLifecycle or a stutter (StepSeen), under what is Seen of a cycle   *)
(* in its registry row, at the broker and in its checkpoint.               *)
(***************************************************************************)
EXTENDS CognitiveCycles, SequenceTheorems, FiniteSetTheorems, TLAPS

-----------------------------------------------------------------------------
(* The table of model calls                                                *)

\* Rows are only added.
Extends(cs, ds) == DOMAIN cs \subseteq DOMAIN ds /\ \A k \in DOMAIN cs : ds[k] = cs[k]

\* What a call of the tactician has on record as its answer is a proposal.
AnswersProposals(cs) ==
    \A h : LET k == IdempotencyKey("entry_tactician", h) IN
        k \in DOMAIN cs /\ cs[k].status = "completed" => cs[k].output \in Proposals

\* Of the rows that are added too.
NewProposals(rows) ==
    \A h : LET k == IdempotencyKey("entry_tactician", h) IN
        k \in DOMAIN rows /\ rows[k].status = "completed" => rows[k].output \in Proposals

\* Inserting rows keeps those there are.
LEMMA InsertingExtends ==
    ASSUME NEW cs, NEW rows
    PROVE  Extends(cs, Inserting(cs, rows))
BY DEF Extends, Inserting

\* Rows whose answers are proposals may be inserted.
LEMMA InsertingProposals ==
    ASSUME NEW cs, NEW rows, AnswersProposals(cs), NewProposals(rows)
    PROVE  AnswersProposals(Inserting(cs, rows))
<1> SUFFICES ASSUME NEW h, IdempotencyKey("entry_tactician", h) \in DOMAIN Inserting(cs, rows),
                    Inserting(cs, rows)[IdempotencyKey("entry_tactician", h)].status = "completed"
             PROVE  Inserting(cs, rows)[IdempotencyKey("entry_tactician", h)].output \in Proposals
  BY DEF AnswersProposals
<1> DEFINE k == IdempotencyKey("entry_tactician", h)
<1>1. DOMAIN Inserting(cs, rows) = DOMAIN cs \cup DOMAIN rows
  BY DEF Inserting
<1>2. CASE k \in DOMAIN cs
  <2>1. Inserting(cs, rows)[k] = cs[k]
    BY <1>2 DEF Inserting
  <2> QED BY <1>2, <2>1 DEF AnswersProposals
<1>3. CASE k \notin DOMAIN cs
  <2>1. k \in DOMAIN rows /\ Inserting(cs, rows)[k] = rows[k]
    BY <1>1, <1>3 DEF Inserting
  <2> QED BY <2>1 DEF NewProposals
<1> QED BY <1>2, <1>3

\* Extending is transitive.
LEMMA ExtendsTransitive ==
    ASSUME NEW a, NEW b, NEW c, Extends(a, b), Extends(b, c)
    PROVE  Extends(a, c)
BY DEF Extends

\* Extending is reflexive.
LEMMA ExtendsItself == ASSUME NEW a PROVE Extends(a, a)
BY DEF Extends

\* A row has the status and, completed, the output it is made with.
LEMMA RowFields ==
    ASSUME NEW s, NEW o
    PROVE  Row(s, o).status = s /\ (s = "completed" => Row(s, o).output = o)
BY DEF Row

\* The rows of the roles of a swarm hold no proposal.
LEMMA AskAllKeeps ==
    ASSUME NEW cs, NEW hash, NEW out, NEW bad, NEW how, AnswersProposals(cs),
           "entry_tactician" \notin DOMAIN hash
    PROVE  /\ Extends(cs, AskAll(cs, hash, out, bad, how))
           /\ AnswersProposals(AskAll(cs, hash, out, bad, how))
<1> DEFINE rows == [key \in {IdempotencyKey(r, hash[r]) : r \in DOMAIN hash} |->
                        Row(IF key[1] = bad THEN how.row ELSE "completed", out)]
<1>1. AskAll(cs, hash, out, bad, how) = Inserting(cs, rows)
  BY DEF AskAll
<1>2. ASSUME NEW h PROVE IdempotencyKey("entry_tactician", h) \notin DOMAIN rows
  <2> SUFFICES ASSUME NEW r \in DOMAIN hash, IdempotencyKey("entry_tactician", h) = IdempotencyKey(r, hash[r])
               PROVE  FALSE
    OBVIOUS
  <2>1. r = "entry_tactician"
    BY DEF IdempotencyKey
  <2> QED BY <2>1
<1>3. NewProposals(rows)
  BY <1>2 DEF NewProposals
<1> HIDE DEF rows
<1> QED BY <1>1, <1>3, InsertingExtends, InsertingProposals

\* A call asked through the router: the answer taken for valid is what the row
\* has on record, if the row is completed at all.
LEMMA RouteKeeps ==
    ASSUME NEW cs, NEW key, NEW how, NEW out, AnswersProposals(cs),
           (\E h : key = IdempotencyKey("entry_tactician", h)) => out \in Proposals
    PROVE  LET r == RouteAndComplete(cs, key, how, out) IN
           /\ Extends(cs, r.calls) /\ AnswersProposals(r.calls)
           /\ key \in DOMAIN r.calls
           /\ r.calls[key].status = "completed" => (r.result = "valid" => r.output = r.calls[key].output)
           /\ (\E h : key = IdempotencyKey("entry_tactician", h)) => r.output \in Proposals
<1> DEFINE r == RouteAndComplete(cs, key, how, out)
           rows == [k \in {key} |-> Row(how.row, out)]
<1>1. CASE TryReuseCompleted(cs, key)
  <2>1. r.calls = cs /\ r.result = "valid" /\ r.output = cs[key].output
    BY <1>1 DEF RouteAndComplete
  <2>2. key \in DOMAIN cs /\ cs[key].status = "completed"
    BY <1>1 DEF TryReuseCompleted
  <2>3. (\E h : key = IdempotencyKey("entry_tactician", h)) => r.output \in Proposals
    BY <2>1, <2>2 DEF AnswersProposals
  <2> HIDE DEF r
  <2> QED BY <2>1, <2>2, <2>3, ExtendsItself DEF r
<1>2. CASE ~TryReuseCompleted(cs, key)
  <2>1. r.calls = Inserting(cs, rows) /\ r.output = out
    BY <1>2 DEF RouteAndComplete, RecordCall
  <2>2. NewProposals(rows)
    BY RowFields DEF NewProposals
  <2>3. key \in DOMAIN Inserting(cs, rows)
    BY DEF Inserting
  <2>4. Inserting(cs, rows)[key].status = "completed" => Inserting(cs, rows)[key].output = out
    <3>1. CASE key \in DOMAIN cs
      <4>1. Inserting(cs, rows)[key] = cs[key]
        BY <3>1 DEF Inserting
      <4> QED BY <1>2, <3>1, <4>1 DEF TryReuseCompleted
    <3>2. CASE key \notin DOMAIN cs
      <4>1. Inserting(cs, rows)[key] = Row(how.row, out)
        BY <3>2 DEF Inserting
      <4> QED BY <4>1, RowFields
    <3> QED BY <3>1, <3>2
  <2>5. Extends(cs, Inserting(cs, rows)) /\ AnswersProposals(Inserting(cs, rows))
    BY <2>2, InsertingExtends, InsertingProposals
  <2> HIDE DEF r, rows
  <2> QED BY <2>1, <2>3, <2>4, <2>5 DEF r
<1> QED BY <1>1, <1>2

-----------------------------------------------------------------------------
(* What a checkpoint holds                                                 *)

DecisionFields ==
    {"kind", "node", "usable", "hydrated", "evidence", "world", "strategies", "selected", "reviews",
     "meta", "round", "switches", "proposal", "command", "errors", "status"}
PositionFields ==
    {"kind", "node", "usable", "strategy", "qty", "order", "prior", "thesis", "notes",
     "decision", "command", "errors", "status"}

\* The nodes before the first meta decision, those it may come back to, those
\* on the way to an order, and those a cycle ends with.
Hearing == {"validate_trigger", "hydrate_context", "perception", "synthesise_world_model", "discovery", "strategy"}
Weighing == {"select_debate_candidates", "debate", "meta_decision", "strategy_switch_revision"}
Entering == {"entry_tactician", "validate_execution_proposal", "submit_execution_command"}
Watching == {"hydrate_position_truth", "load_original_strategy", "load_prior_thesis", "position_thesis_agent",
             "position_execution_critic", "position_decision_agent"}
Ending == PersistNodes \cup {"end"}

\* A decision cycle: it is on the way to an order only if its meta decision is
\* to execute, the strategy that it selected is one of its own, and its proposal
\* is for that strategy.
Reasoned(c) ==
    /\ c.kind = "decision" /\ DOMAIN c = DecisionFields
    /\ c.node \in Hearing \cup Weighing \cup Entering \cup Ending
    /\ c.node \in Hearing => c.meta = NoMeta
    /\ c.meta.selected # NoStrategy => c.meta.selected \in Range(c.strategies)
    /\ c.node \in Entering => c.meta.action = "execute"
    /\ c.node \in Hearing \cup Weighing \cup {"entry_tactician"} => c.proposal = NoProposal
    /\ c.proposal # NoProposal => c.proposal.strategy = c.meta.selected
    /\ c.node \notin Ending => c.command = NoCommand

\* A position cycle.
Watched(c) ==
    /\ c.kind = "position" /\ DOMAIN c = PositionFields
    /\ c.node \in Watching \cup {"route_position_action", "end"}
    /\ c.node \in Watching => c.decision = NoDecision
    /\ c.node # "end" => c.command = NoCommand

\* The row of a call is on record and, if it is completed, has this answer.
OnRecord(cs, key, answer) ==
    key \in DOMAIN cs /\ (cs[key].status = "completed" => cs[key].output = answer)

\* What the checkpoint of cycle i holds of answers is what is on record.
Answered(c, i, cs) ==
    IF c.kind = "decision"
    THEN /\ c.meta # NoMeta => OnRecord(cs, IdempotencyKey("meta_decision", SharedHash(i)), c.meta)
         /\ c.proposal # NoProposal =>
                OnRecord(cs, IdempotencyKey("entry_tactician", SharedHash(i)), [c.proposal EXCEPT !.strategy = NoStrategy])
    ELSE c.decision # NoDecision =>
            OnRecord(cs, IdempotencyKey("position_decision", OwnHash("position_decision", i)), c.decision)

Sound(c, i, cs) == (Reasoned(c) \/ Watched(c)) /\ Answered(c, i, cs)

\* A step of its cycle changes none of these.
Follows(c, d) == d.kind = c.kind /\ d.usable = c.usable /\ d.status = c.status

\* An answer on record stays there while rows are added.
LEMMA OnRecordStays ==
    ASSUME NEW cs, NEW ds, NEW key, NEW answer, Extends(cs, ds), OnRecord(cs, key, answer)
    PROVE  OnRecord(ds, key, answer)
BY DEF Extends, OnRecord

\* So does a checkpoint that is sound stay sound.
LEMMA SoundStays ==
    ASSUME NEW cs, NEW ds, NEW c, NEW i, Extends(cs, ds), Sound(c, i, cs)
    PROVE  Sound(c, i, ds)
BY OnRecordStays DEF Sound, Answered

\* One field of a record is set.
LEMMA FieldSet ==
    ASSUME NEW c, NEW f \in DOMAIN c, NEW v
    PROVE  /\ DOMAIN [c EXCEPT ![f] = v] = DOMAIN c
           /\ [c EXCEPT ![f] = v][f] = v
           /\ \A g \in DOMAIN c : g # f => [c EXCEPT ![f] = v][g] = c[g]
OBVIOUS

\* The next node, and an error.
LEMMA GoToFields ==
    ASSUME NEW c, NEW n, "node" \in DOMAIN c
    PROVE  /\ DOMAIN GoTo(c, n) = DOMAIN c /\ GoTo(c, n).node = n
           /\ \A g \in DOMAIN c : g # "node" => GoTo(c, n)[g] = c[g]
BY DEF GoTo

\* What Error leaves of a record: only the errors differ.
LEMMA ErrorFields ==
    ASSUME NEW c, NEW code, "errors" \in DOMAIN c
    PROVE  /\ DOMAIN Error(c, code) = DOMAIN c /\ Error(c, code).errors = c.errors \cup {code}
           /\ \A g \in DOMAIN c : g # "errors" => Error(c, code)[g] = c[g]
BY DEF Error

\* The fields by their names.
Alike(c, d, F) == DOMAIN d = DOMAIN c /\ \A g \in DOMAIN c \ F : d[g] = c[g]

\* Checkpoints of decision cycles that are alike have the fields in question in common.
LEMMA AlikeDecision ==
    ASSUME NEW c, NEW d, NEW F, Alike(c, d, F), DOMAIN c = DecisionFields
    PROVE  /\ DOMAIN d = DecisionFields
           /\ "kind" \notin F => d.kind = c.kind
           /\ "node" \notin F => d.node = c.node
           /\ "usable" \notin F => d.usable = c.usable
           /\ "strategies" \notin F => d.strategies = c.strategies
           /\ "meta" \notin F => d.meta = c.meta
           /\ "proposal" \notin F => d.proposal = c.proposal
           /\ "command" \notin F => d.command = c.command
           /\ "errors" \notin F => d.errors = c.errors
           /\ "status" \notin F => d.status = c.status
BY DEF Alike, DecisionFields

\* The same for position cycles.
LEMMA AlikePosition ==
    ASSUME NEW c, NEW d, NEW F, Alike(c, d, F), DOMAIN c = PositionFields
    PROVE  /\ DOMAIN d = PositionFields
           /\ "kind" \notin F => d.kind = c.kind
           /\ "node" \notin F => d.node = c.node
           /\ "usable" \notin F => d.usable = c.usable
           /\ "decision" \notin F => d.decision = c.decision
           /\ "command" \notin F => d.command = c.command
           /\ "errors" \notin F => d.errors = c.errors
           /\ "status" \notin F => d.status = c.status
BY DEF Alike, PositionFields

\* Going on adds the node to what may differ.
LEMMA AlikeGoTo ==
    ASSUME NEW c, NEW d, NEW F, NEW n, Alike(c, d, F), "node" \in DOMAIN c
    PROVE  Alike(c, GoTo(d, n), F \cup {"node"}) /\ GoTo(d, n).node = n
BY GoToFields DEF Alike

\* An error is all that differs.
LEMMA AlikeError ==
    ASSUME NEW c, NEW code, "errors" \in DOMAIN c
    PROVE  Alike(c, Error(c, code), {"errors"}) /\ Error(c, code).errors = c.errors \cup {code}
BY ErrorFields DEF Alike

\* A record is like itself.
LEMMA AlikeItself == ASSUME NEW c PROVE Alike(c, c, {})
BY DEF Alike

\* The field that is set is all that differs.
LEMMA AlikeSet ==
    ASSUME NEW c, NEW f \in DOMAIN c, NEW v
    PROVE  Alike(c, [c EXCEPT ![f] = v], {f})
BY FieldSet DEF Alike

-----------------------------------------------------------------------------
(* The nodes of a decision cycle                                           *)

\* What a node leaves is sound, and rows are only added.
Advances(c, i, cs, r) ==
    /\ Extends(cs, r.calls) /\ AnswersProposals(r.calls)
    /\ ~r.raised => Sound(r.cycle, i, r.calls) /\ Follows(c, r.cycle)

Discussing == {"node", "hydrated", "evidence", "world", "selected", "reviews", "round", "switches", "errors"}

\* Up to the meta decision nothing that matters to an order is set.
LEMMA DiscussionSound ==
    ASSUME NEW c, NEW d, NEW i, NEW cs, Sound(c, i, cs), c.kind = "decision",
           Alike(c, d, Discussing), c.node \in Hearing \cup Weighing,
           \/ d.node \in Hearing /\ c.node \in Hearing
           \/ d.node \in Weighing
    PROVE  Sound(d, i, cs) /\ Follows(c, d)
<1>1. Reasoned(c)
  BY DEF Sound, Watched
<1>2. /\ DOMAIN d = DecisionFields /\ d.kind = c.kind /\ d.usable = c.usable /\ d.strategies = c.strategies
      /\ d.meta = c.meta /\ d.proposal = c.proposal /\ d.command = c.command /\ d.status = c.status
  BY <1>1, AlikeDecision DEF Reasoned, Discussing
<1>3. Reasoned(d)
  <2>1. /\ c.node \notin Ending /\ d.node \notin Ending /\ d.node \notin Entering
        /\ d.node \in Hearing => c.node \in Hearing
    BY DEF Hearing, Weighing, Ending, PersistNodes, Entering
  <2> QED BY <1>1, <1>2, <2>1 DEF Reasoned
<1>4. Answered(d, i, cs)
  BY <1>2 DEF Sound, Answered
<1> QED BY <1>2, <1>3, <1>4 DEF Sound, Follows

\* It is alike but for a field that is set, and the next node.
LEMMA SetAndGo ==
    ASSUME NEW c, NEW f \in Discussing, NEW v, NEW n, DOMAIN c = DecisionFields
    PROVE  /\ Alike(c, GoTo([c EXCEPT ![f] = v], n), Discussing) /\ GoTo([c EXCEPT ![f] = v], n).node = n
<1>1. f \in DOMAIN c /\ "node" \in DOMAIN c
  BY DEF Discussing, DecisionFields
<1>2. Alike(c, [c EXCEPT ![f] = v], {f})
  BY <1>1, AlikeSet
<1>3. Alike(c, GoTo([c EXCEPT ![f] = v], n), {f} \cup {"node"}) /\ GoTo([c EXCEPT ![f] = v], n).node = n
  BY <1>1, <1>2, AlikeGoTo
<1>4. {f} \cup {"node"} \subseteq Discussing
  BY DEF Discussing
<1> QED BY <1>3, <1>4 DEF Alike

\* Only the next node.
LEMMA GoOn ==
    ASSUME NEW c, NEW n, DOMAIN c = DecisionFields
    PROVE  Alike(c, GoTo(c, n), Discussing) /\ GoTo(c, n).node = n
           /\ Alike(c, GoTo(c, n), {"node"})
<1>1. "node" \in DOMAIN c
  BY DEF DecisionFields
<1>2. Alike(c, GoTo(c, n), {} \cup {"node"}) /\ GoTo(c, n).node = n
  BY <1>1, AlikeItself, AlikeGoTo
<1>3. {} \cup {"node"} = {"node"} /\ {"node"} \subseteq Discussing
  BY DEF Discussing
<1> QED BY <1>2, <1>3 DEF Alike

\* An error and the next node.
LEMMA ErrorAndGo ==
    ASSUME NEW c, NEW code, NEW n, DOMAIN c = DecisionFields
    PROVE  /\ Alike(c, GoTo(Error(c, code), n), Discussing) /\ GoTo(Error(c, code), n).node = n
           /\ Alike(c, GoTo(Error(c, code), n), {"errors", "node"})
           /\ GoTo(Error(c, code), n).errors = c.errors \cup {code}
<1>1. "errors" \in DOMAIN c /\ "node" \in DOMAIN c
  BY DEF DecisionFields
<1>2. Alike(c, Error(c, code), {"errors"}) /\ Error(c, code).errors = c.errors \cup {code}
  BY <1>1, AlikeError
<1>3. Alike(c, GoTo(Error(c, code), n), {"errors"} \cup {"node"}) /\ GoTo(Error(c, code), n).node = n
  BY <1>1, <1>2, AlikeGoTo
<1>4. GoTo(Error(c, code), n).errors = Error(c, code).errors
  BY <1>1, ErrorFields, GoToFields
<1>5. {"errors"} \cup {"node"} = {"errors", "node"} /\ {"errors", "node"} \subseteq Discussing
  BY DEF Discussing
<1> QED BY <1>2, <1>3, <1>4, <1>5 DEF Alike

\* The swarms' roles decide nothing.
LEMMA SwarmRoles ==
    /\ "entry_tactician" \notin PerceptionRoles /\ "entry_tactician" \notin DiscoveryRoles
    /\ "entry_tactician" \notin DebateRoles /\ "entry_tactician" \notin Range(Inventors)
BY DecisionAssumption DEF DecisionAssumption

\* The parts of what a node leaves.
LEMMA Fields ==
    ASSUME NEW c, NEW cs
    PROVE  /\ Done(c, cs).cycle = c /\ Done(c, cs).calls = cs /\ ~Done(c, cs).raised
           /\ Raised(c, cs).cycle = c /\ Raised(c, cs).calls = cs /\ Raised(c, cs).raised
BY DEF Done, Raised

\* Nodes that ask no model, or all roles of a swarm at once.
LEMMA DoneAdvances ==
    ASSUME NEW c, NEW d, NEW i, NEW cs, NEW ds, NEW F, Sound(c, i, cs), c.kind = "decision",
           Alike(c, d, Discussing), c.node \in Hearing \cup Weighing,
           \/ d.node \in Hearing /\ c.node \in Hearing
           \/ d.node \in Weighing,
           Extends(cs, ds), AnswersProposals(ds)
    PROVE  Advances(c, i, cs, Done(d, ds))
<1>1. Sound(c, i, ds)
  BY SoundStays
<1>2. Sound(d, i, ds) /\ Follows(c, d)
  BY <1>1, DiscussionSound
<1> QED BY <1>2, Fields DEF Advances

\* A node that raises advances nothing but the table.
LEMMA RaisedAdvances ==
    ASSUME NEW c, NEW i, NEW cs, NEW ds, Extends(cs, ds), AnswersProposals(ds)
    PROVE  Advances(c, i, cs, Raised(c, ds))
BY Fields DEF Advances

\* A decision cycle at a node, over a table that holds proposals.
AtNode(c, i, cs, node) ==
    c.kind = "decision" /\ Sound(c, i, cs) /\ AnswersProposals(cs) /\ c.node = node

\* Such a cycle has the fields of a decision cycle.
LEMMA AtNodeFields ==
    ASSUME NEW c, NEW i, NEW cs, NEW node, AtNode(c, i, cs, node)
    PROVE  Reasoned(c) /\ DOMAIN c = DecisionFields
<1>1. Reasoned(c)
  BY DEF AtNode, Sound, Watched
<1> QED BY <1>1 DEF Reasoned

\* The perception swarm sets the evidence or raises.
LEMMA PerceptionAdvances ==
    ASSUME NEW c, NEW i, NEW cs, NEW bad, NEW how, AtNode(c, i, cs, "perception")
    PROVE  Advances(c, i, cs, RunPerception(c, i, cs, bad, how))
<1> DEFINE hash == [r \in PerceptionRoles |-> OwnHash(r, i)]
           asked == AskAll(cs, hash, Text, bad, how)
           d == GoTo([c EXCEPT !["evidence"] = TRUE], "synthesise_world_model")
<1>1. Extends(cs, asked) /\ AnswersProposals(asked)
  BY AskAllKeeps, SwarmRoles DEF AtNode
<1>2. Alike(c, d, Discussing) /\ d.node = "synthesise_world_model"
  <2>1. "evidence" \in Discussing
    BY DEF Discussing
  <2> QED BY <2>1, SetAndGo, AtNodeFields
<1>3. RunPerception(c, i, cs, bad, how) \in {Raised(c, asked), Done(d, asked)}
  BY DEF RunPerception
<1>4. c.node \in Hearing /\ d.node \in Hearing
  BY <1>2 DEF AtNode, Hearing
<1> HIDE DEF asked, d
<1>5. Advances(c, i, cs, Raised(c, asked))
  BY <1>1, RaisedAdvances
<1>6. Advances(c, i, cs, Done(d, asked))
  BY <1>1, <1>2, <1>4, DoneAdvances DEF AtNode
<1> QED BY <1>3, <1>5, <1>6

\* The world model: without evidence an error, else an answer or a raise.
LEMMA WorldModelAdvances ==
    ASSUME NEW c, NEW i, NEW cs, NEW how, NEW o, AtNode(c, i, cs, "synthesise_world_model")
    PROVE  Advances(c, i, cs, SynthesiseWorldModel(c, i, cs, how, o))
<1> DEFINE key == IdempotencyKey("world_model_synthesiser", OwnHash("world_model_synthesiser", i))
           r == RouteAndComplete(cs, key, how, o)
           d == GoTo([c EXCEPT !["world"] = TRUE], "discovery")
           e == GoTo(Error(c, "no_evidence"), "discovery")
<1>1. ~\E h : key = IdempotencyKey("entry_tactician", h)
  BY DEF IdempotencyKey
<1>2. Extends(cs, r.calls) /\ AnswersProposals(r.calls) /\ Extends(cs, cs) /\ AnswersProposals(cs)
  BY <1>1, RouteKeeps, ExtendsItself DEF AtNode
<1>3. Alike(c, d, Discussing) /\ d.node = "discovery" /\ Alike(c, e, Discussing) /\ e.node = "discovery"
  <2>1. "world" \in Discussing
    BY DEF Discussing
  <2>2. Alike(c, d, Discussing) /\ d.node = "discovery"
    BY <2>1, SetAndGo, AtNodeFields
  <2>3. Alike(c, e, Discussing) /\ e.node = "discovery"
    BY ErrorAndGo, AtNodeFields
  <2> QED BY <2>2, <2>3
<1>4. SynthesiseWorldModel(c, i, cs, how, o) \in {Raised(c, r.calls), Done(d, r.calls), Done(e, cs)}
  BY DEF SynthesiseWorldModel
<1>5. c.node \in Hearing /\ d.node \in Hearing /\ e.node \in Hearing
  BY <1>3 DEF AtNode, Hearing
<1> HIDE DEF r, d, e
<1>6. Advances(c, i, cs, Raised(c, r.calls))
  BY <1>2, RaisedAdvances
<1>7. Advances(c, i, cs, Done(d, r.calls)) /\ Advances(c, i, cs, Done(e, cs))
  BY <1>2, <1>3, <1>5, DoneAdvances DEF AtNode
<1> QED BY <1>4, <1>6, <1>7

\* Discovery sets nothing that the cycle keeps.
LEMMA DiscoveryAdvances ==
    ASSUME NEW c, NEW i, NEW cs, NEW bad, NEW how, AtNode(c, i, cs, "discovery")
    PROVE  Advances(c, i, cs, RunDiscovery(c, i, cs, bad, how))
<1> DEFINE hash == [r \in DiscoveryRoles |-> SharedHash(i)]
           asked == AskAll(cs, hash, Text, bad, how)
           d == GoTo(c, "strategy")
<1>1. Extends(cs, asked) /\ AnswersProposals(asked) /\ Extends(cs, cs) /\ AnswersProposals(cs)
  BY AskAllKeeps, SwarmRoles, ExtendsItself DEF AtNode
<1>2. Alike(c, d, Discussing) /\ d.node = "strategy"
  BY GoOn, AtNodeFields
<1>3. RunDiscovery(c, i, cs, bad, how) \in {Raised(c, asked), Done(d, asked), Done(d, cs)}
  BY DEF RunDiscovery
<1>4. c.node \in Hearing /\ d.node \in Hearing
  BY <1>2 DEF AtNode, Hearing
<1> HIDE DEF asked, d
<1>5. Advances(c, i, cs, Raised(c, asked))
  BY <1>1, RaisedAdvances
<1>6. Advances(c, i, cs, Done(d, asked)) /\ Advances(c, i, cs, Done(d, cs))
  BY <1>1, <1>2, <1>4, DoneAdvances DEF AtNode
<1> QED BY <1>3, <1>5, <1>6

\* The debate adds its reviews.
LEMMA DebateAdvances ==
    ASSUME NEW c, NEW i, NEW cs, NEW bad, NEW how, AtNode(c, i, cs, "debate")
    PROVE  Advances(c, i, cs, RunDebate(c, i, cs, bad, how))
<1> DEFINE hash == [r \in DebateRoles |-> SharedHash(i)]
           asked == AskAll(cs, hash, [about |-> Debated(c)[1]], bad, how)
           reviews == PanelReviews(asked, hash, Debated(c))
           d(v) == GoTo([c EXCEPT !["reviews"] = v], "meta_decision")
           e == GoTo(c, "meta_decision")
<1>1. Extends(cs, asked) /\ AnswersProposals(asked) /\ Extends(cs, cs) /\ AnswersProposals(cs)
  BY AskAllKeeps, SwarmRoles, ExtendsItself DEF AtNode
<1>2. ASSUME NEW v PROVE Alike(c, d(v), Discussing) /\ d(v).node = "meta_decision"
  <2>1. "reviews" \in Discussing
    BY DEF Discussing
  <2> QED BY <2>1, SetAndGo, AtNodeFields
<1>3. Alike(c, e, Discussing) /\ e.node = "meta_decision"
  BY GoOn, AtNodeFields
<1>4. \/ RunDebate(c, i, cs, bad, how) \in {Raised(c, asked), Done(e, cs)}
      \/ RunDebate(c, i, cs, bad, how) = Done(d(c.reviews \cup reviews), asked)
  BY DEF RunDebate
<1>5. c.node \in Weighing /\ e.node \in Weighing
  BY <1>3 DEF AtNode, Weighing
<1>6. ASSUME NEW v PROVE d(v).node \in Weighing
  BY <1>2 DEF Weighing
<1> HIDE DEF asked, d, e, reviews
<1>7. Advances(c, i, cs, Raised(c, asked))
  BY <1>1, RaisedAdvances
<1>8. Advances(c, i, cs, Done(e, cs))
  BY <1>1, <1>3, <1>5, DoneAdvances DEF AtNode
<1>9. ASSUME NEW v PROVE Advances(c, i, cs, Done(d(v), asked))
  BY <1>1, <1>2, <1>5, <1>6, DoneAdvances DEF AtNode
<1> QED BY <1>4, <1>7, <1>8, <1>9

\* The trigger goes on to hydration.
LEMMA TriggerAdvances ==
    ASSUME NEW c, NEW i, NEW cs, AtNode(c, i, cs, "validate_trigger")
    PROVE  Sound(ValidateTrigger(c), i, cs) /\ Follows(c, ValidateTrigger(c))
<1> DEFINE d == GoTo(c, "hydrate_context")
<1>1. Alike(c, d, Discussing) /\ d.node = "hydrate_context"
  BY GoOn, AtNodeFields
<1>2. d.node \in Hearing /\ c.node \in Hearing
  BY <1>1 DEF AtNode, Hearing
<1> HIDE DEF d
<1>3. Sound(d, i, cs) /\ Follows(c, d)
  BY <1>1, <1>2, DiscussionSound DEF AtNode
<1> QED BY <1>3 DEF ValidateTrigger, d

\* Hydration goes on to perception, with a context or an error.
LEMMA HydrateAdvances ==
    ASSUME NEW c, NEW i, NEW cs, NEW readable, AtNode(c, i, cs, "hydrate_context")
    PROVE  Sound(HydrateContext(c, readable), i, cs) /\ Follows(c, HydrateContext(c, readable))
<1> DEFINE d == GoTo([c EXCEPT !["hydrated"] = TRUE], "perception")
           e == GoTo(Error(c, "snapshot_not_found"), "perception")
<1>1. Alike(c, d, Discussing) /\ d.node = "perception"
  <2>1. "hydrated" \in Discussing
    BY DEF Discussing
  <2> QED BY <2>1, SetAndGo, AtNodeFields
<1>2. Alike(c, e, Discussing) /\ e.node = "perception"
  BY ErrorAndGo, AtNodeFields
<1>3. d.node \in Hearing /\ e.node \in Hearing /\ c.node \in Hearing
  BY <1>1, <1>2 DEF AtNode, Hearing
<1>4. HydrateContext(c, readable) \in {d, e}
  BY DEF HydrateContext
<1> HIDE DEF d, e
<1>5. Sound(d, i, cs) /\ Follows(c, d)
  BY <1>1, <1>3, DiscussionSound DEF AtNode
<1>6. Sound(e, i, cs) /\ Follows(c, e)
  BY <1>2, <1>3, DiscussionSound DEF AtNode
<1> QED BY <1>4, <1>5, <1>6

\* The candidates are selected for the debate.
LEMMA CandidatesAdvance ==
    ASSUME NEW c, NEW i, NEW cs, AtNode(c, i, cs, "select_debate_candidates")
    PROVE  Sound(SelectDebateCandidates(c), i, cs) /\ Follows(c, SelectDebateCandidates(c))
<1> DEFINE d == GoTo([c EXCEPT !["selected"] = Range(c.strategies)], "debate")
<1>1. Alike(c, d, Discussing) /\ d.node = "debate"
  <2>1. "selected" \in Discussing
    BY DEF Discussing
  <2> QED BY <2>1, SetAndGo, AtNodeFields
<1>2. d.node \in Weighing /\ c.node \in Weighing
  BY <1>1 DEF AtNode, Weighing
<1>3. SelectDebateCandidates(c) = d
  BY DEF SelectDebateCandidates
<1> HIDE DEF d
<1> QED BY <1>1, <1>2, <1>3, DiscussionSound DEF AtNode

\* A switch selects the alternates and goes back to the debate or the meta decision.
LEMMA SwitchAdvances ==
    ASSUME NEW c, NEW i, NEW cs, AtNode(c, i, cs, "strategy_switch_revision")
    PROVE  Sound(StrategySwitchRevision(c), i, cs) /\ Follows(c, StrategySwitchRevision(c))
<1> DEFINE d == StrategySwitchRevision(c)
<1>1. Alike(c, d, Discussing)
  BY AtNodeFields DEF Alike, StrategySwitchRevision, Discussing, DecisionFields
<1>2. d.node = AfterSwitchRoute(c.round + 1)
  BY AtNodeFields DEF StrategySwitchRevision, DecisionFields
<1>3. d.node \in Weighing /\ c.node \in Weighing
  BY <1>2 DEF AtNode, Weighing, AfterSwitchRoute
<1> HIDE DEF d
<1>4. Sound(d, i, cs) /\ Follows(c, d)
  BY <1>1, <1>3, DiscussionSound DEF AtNode
<1> QED BY <1>4 DEF d

\* The strategies are set before there is a meta decision to name one of them.
LEMMA StrategyAdvances ==
    ASSUME NEW c, NEW i, NEW cs, NEW bad, NEW how, AtNode(c, i, cs, "strategy")
    PROVE  Advances(c, i, cs, RunStrategy(c, i, cs, bad, how))
<1> DEFINE hash == [r \in Range(Inventors) |-> SharedHash(i)]
           asked == AskAll(cs, hash, Text, bad, how)
           kept == SubSeq(Inventors, 1, IF Len(Inventors) > MaxCandidates THEN MaxCandidates ELSE Len(Inventors))
           d == GoTo([c EXCEPT !["strategies"] = kept], "select_debate_candidates")
           e == GoTo(c, "select_debate_candidates")
<1>1. Extends(cs, asked) /\ AnswersProposals(asked) /\ Extends(cs, cs) /\ AnswersProposals(cs)
  BY AskAllKeeps, SwarmRoles, ExtendsItself DEF AtNode
<1>2. Alike(c, d, {"strategies", "node"}) /\ d.node = "select_debate_candidates"
  <2>1. "strategies" \in DOMAIN c /\ "node" \in DOMAIN c
    BY AtNodeFields DEF DecisionFields
  <2>2. Alike(c, [c EXCEPT !["strategies"] = kept], {"strategies"})
    BY <2>1, AlikeSet
  <2>3. Alike(c, d, {"strategies"} \cup {"node"}) /\ d.node = "select_debate_candidates"
    BY <2>1, <2>2, AlikeGoTo
  <2> QED BY <2>3 DEF Alike
<1>3. Alike(c, e, Discussing) /\ e.node = "select_debate_candidates"
  BY GoOn, AtNodeFields
<1>4. RunStrategy(c, i, cs, bad, how) \in {Raised(c, asked), Done(e, cs), Done(d, asked)}
  BY DEF RunStrategy
<1> HIDE DEF asked, d, e
<1>5. Advances(c, i, cs, Raised(c, asked))
  BY <1>1, RaisedAdvances
<1>6. Advances(c, i, cs, Done(e, cs))
  <2>1. e.node \in Weighing /\ c.node \in Hearing
    BY <1>3 DEF AtNode, Weighing, Hearing
  <2> QED BY <1>1, <1>3, <2>1, DoneAdvances DEF AtNode
<1>7. Sound(d, i, asked) /\ Follows(c, d)
  <2>1. /\ DOMAIN d = DecisionFields /\ d.kind = c.kind /\ d.usable = c.usable /\ d.meta = c.meta
        /\ d.proposal = c.proposal /\ d.command = c.command /\ d.status = c.status
    <3> DEFINE F == {"strategies", "node"}
    <3>1. Alike(c, d, F) /\ DOMAIN c = DecisionFields
      BY <1>2, AtNodeFields
    <3>2. {"kind", "usable", "meta", "proposal", "command", "status"} \cap F = {}
      OBVIOUS
    <3> HIDE DEF F
    <3> QED BY <3>1, <3>2, AlikeDecision
  <2>2. c.meta = NoMeta /\ c.proposal = NoProposal /\ c.command = NoCommand /\ c.kind = "decision"
    BY AtNodeFields DEF AtNode, Reasoned, Hearing, Ending, PersistNodes
  <2>3. d.meta.selected = NoStrategy
    BY <2>1, <2>2 DEF NoMeta
  <2>4. d.node \in Weighing /\ d.node \notin Hearing \cup Entering \cup Ending
    BY <1>2 DEF Weighing, Hearing, Entering, Ending, PersistNodes
  <2>5. Reasoned(d)
    BY <2>1, <2>2, <2>3, <2>4 DEF Reasoned
  <2>6. Answered(d, i, asked)
    BY <2>1, <2>2 DEF Answered
  <2> QED BY <2>1, <2>5, <2>6 DEF Sound, Follows
<1>8. Advances(c, i, cs, Done(d, asked))
  BY <1>1, <1>7, Fields DEF Advances
<1> QED BY <1>4, <1>5, <1>6, <1>8

\* Where a meta decision leads.
LEMMA Routes ==
    ASSUME NEW c
    PROVE  /\ RouteMetaDecision(c) \in {"entry_tactician", "strategy_switch_revision"} \cup PersistNodes
           /\ RouteMetaDecision(c) = "entry_tactician" => c.meta.action = "execute"
BY DEF RouteMetaDecision, PersistNodes

\* A meta decision is taken from the record, names a strategy of the cycle, and
\* leads to the tactician only if it is to execute.
LEMMA MetaAdvances ==
    ASSUME NEW c, NEW i, NEW cs, NEW how, NEW o, AtNode(c, i, cs, "meta_decision")
    PROVE  Advances(c, i, cs, MetaDecisionNode(c, i, cs, how, o))
<1> DEFINE key == IdempotencyKey("meta_decision", SharedHash(i))
           r == RouteAndComplete(cs, key, how, o)
           decided == [c EXCEPT !["meta"] = r.output]
           d == GoTo(decided, RouteMetaDecision(decided))
           e == GoTo(c, RouteMetaDecision(c))
<1>1. ~\E h : key = IdempotencyKey("entry_tactician", h)
  BY DEF IdempotencyKey
<1>2. /\ Extends(cs, r.calls) /\ AnswersProposals(r.calls) /\ Extends(cs, cs) /\ AnswersProposals(cs)
      /\ r.result = "valid" => OnRecord(r.calls, key, r.output)
  BY <1>1, RouteKeeps, ExtendsItself DEF AtNode, OnRecord
<1>3. \/ MetaDecisionNode(c, i, cs, how, o) \in {Raised(c, r.calls), Done(e, cs)}
      \/ /\ MetaDecisionNode(c, i, cs, how, o) = Done(d, r.calls)
         /\ r.result = "valid" /\ ValidMetaDecision(c, r.output)
  BY DEF MetaDecisionNode
<1>4. /\ Reasoned(c) /\ DOMAIN c = DecisionFields /\ c.kind = "decision"
      /\ c.proposal = NoProposal /\ c.command = NoCommand /\ c.node \in Weighing
  <2>1. "meta_decision" \in Weighing /\ "meta_decision" \notin Ending
    BY DEF Weighing, Ending, PersistNodes
  <2> QED BY <2>1, AtNodeFields DEF AtNode, Reasoned
<1>5. Advances(c, i, cs, Raised(c, r.calls))
  BY <1>2, RaisedAdvances
<1>6. ASSUME NEW x, NEW y, Alike(c, x, {"meta"}), y = GoTo(x, RouteMetaDecision(x)),
             x.meta.selected # NoStrategy => x.meta.selected \in Range(c.strategies)
      PROVE  /\ Reasoned(y) /\ Follows(c, y) /\ y.meta = x.meta /\ y.proposal = NoProposal /\ y.kind = "decision"
  <2>1. /\ DOMAIN x = DecisionFields /\ x.kind = c.kind /\ x.usable = c.usable /\ x.strategies = c.strategies
        /\ x.proposal = c.proposal /\ x.command = c.command /\ x.status = c.status
    BY <1>4, <1>6, AlikeDecision
  <2>2. Alike(x, y, {"node"}) /\ y.node = RouteMetaDecision(x)
    BY <1>6, <2>1, GoOn
  <2>3. /\ DOMAIN y = DecisionFields /\ y.kind = x.kind /\ y.usable = x.usable /\ y.strategies = x.strategies
        /\ y.meta = x.meta /\ y.proposal = x.proposal /\ y.command = x.command /\ y.status = x.status
    BY <2>1, <2>2, AlikeDecision
  <2>4. /\ y.node \in Weighing \cup Entering \cup Ending /\ y.node \notin Hearing
        /\ y.node \in Entering => y.meta.action = "execute"
    BY <2>2, <2>3, Routes DEF Weighing, Entering, Ending, Hearing, PersistNodes
  <2> QED BY <1>4, <1>6, <2>1, <2>3, <2>4 DEF Reasoned, Follows
<1>7. Advances(c, i, cs, Done(e, cs))
  <2>1. Alike(c, c, {"meta"})
    BY DEF Alike
  <2>2. Reasoned(e) /\ Follows(c, e) /\ e.meta = c.meta /\ e.proposal = NoProposal /\ e.kind = "decision"
    BY <1>4, <1>6, <2>1 DEF Reasoned
  <2>3. Answered(e, i, cs)
    BY <1>4, <2>2 DEF AtNode, Sound, Answered
  <2> HIDE DEF e
  <2> QED BY <1>2, <2>2, <2>3, Fields DEF Advances, Sound
<1>8. ASSUME r.result = "valid", ValidMetaDecision(c, r.output) PROVE Advances(c, i, cs, Done(d, r.calls))
  <2>1. Alike(c, decided, {"meta"}) /\ decided.meta = r.output
    <3>1. "meta" \in DOMAIN c
      BY <1>4 DEF DecisionFields
    <3> HIDE DEF r
    <3> QED BY <3>1, AlikeSet, FieldSet
  <2>2. decided.meta.selected # NoStrategy => decided.meta.selected \in Range(c.strategies)
    BY <1>8, <2>1 DEF ValidMetaDecision
  <2> HIDE DEF decided
  <2>3. Reasoned(d) /\ Follows(c, d) /\ d.meta = decided.meta /\ d.proposal = NoProposal /\ d.kind = "decision"
    BY <1>6, <2>1, <2>2
  <2>4. Answered(d, i, r.calls)
    BY <1>2, <1>8, <2>1, <2>3 DEF Answered
  <2> HIDE DEF d, r
  <2> QED BY <1>2, <2>3, <2>4, Fields DEF Advances, Sound
<1> HIDE DEF r, d, e, decided
<1> QED BY <1>3, <1>5, <1>7, <1>8

\* The strategy of a proposal is what the meta decision selected.
LEMMA SelectedIsMeant ==
    ASSUME NEW c, Reasoned(c), SelectedStrategy(c) # NoStrategy
    PROVE  SelectedStrategy(c) = c.meta.selected
BY DEF SelectedStrategy, Reasoned

\* A proposal with its strategy set, and with it cleared again.
LEMMA ProposalSet ==
    ASSUME NEW p \in Proposals, NEW s
    PROVE  /\ [p EXCEPT !.strategy = s].strategy = s
           /\ [[p EXCEPT !.strategy = s] EXCEPT !.strategy = NoStrategy] = p
<1>1. p \in [side : {"buy", "sell"}, qty : Int, ok : BOOLEAN, strategy : {NoStrategy}]
  <2>1. 1..MaxProposed \subseteq Int /\ {1} \subseteq Int
    OBVIOUS
  <2> QED BY <2>1 DEF Proposals
<1> QED BY <1>1

\* The proposal is the answer on record with the strategy that was selected.
LEMMA TacticianAdvances ==
    ASSUME NEW c, NEW i, NEW cs, NEW how, NEW o \in Proposals, AtNode(c, i, cs, "entry_tactician")
    PROVE  Advances(c, i, cs, EntryTactician(c, i, cs, how, o))
<1> DEFINE key == IdempotencyKey("entry_tactician", SharedHash(i))
           r == RouteAndComplete(cs, key, how, o)
           s == SelectedStrategy(c)
           p == [r.output EXCEPT !.strategy = s]
           d == GoTo([c EXCEPT !["proposal"] = p], "validate_execution_proposal")
           e == GoTo(Error(c, "missing_inputs"), "validate_execution_proposal")
<1>1. \E h : key = IdempotencyKey("entry_tactician", h)
  OBVIOUS
<1>2. /\ Extends(cs, r.calls) /\ AnswersProposals(r.calls) /\ Extends(cs, cs) /\ AnswersProposals(cs)
      /\ r.result = "valid" => OnRecord(r.calls, key, r.output)
      /\ r.output \in Proposals
  BY <1>1, RouteKeeps, ExtendsItself DEF AtNode, OnRecord
<1>3. \/ EntryTactician(c, i, cs, how, o) \in {Raised(c, r.calls), Done(e, cs)}
      \/ EntryTactician(c, i, cs, how, o) = Done(d, r.calls) /\ r.result = "valid" /\ s # NoStrategy
  BY DEF EntryTactician
<1>4. /\ Reasoned(c) /\ DOMAIN c = DecisionFields /\ c.kind = "decision"
      /\ c.proposal = NoProposal /\ c.command = NoCommand /\ c.meta.action = "execute"
  <2>1. "entry_tactician" \in Entering /\ "entry_tactician" \notin Ending
    BY DEF Entering, Ending, PersistNodes
  <2> QED BY <2>1, AtNodeFields DEF AtNode, Reasoned
<1>5. /\ "validate_execution_proposal" \in Entering
      /\ "validate_execution_proposal" \notin Hearing \cup Weighing \cup {"entry_tactician"} \cup Ending
  BY DEF Entering, Ending, PersistNodes, Hearing, Weighing
<1>6. Advances(c, i, cs, Raised(c, r.calls))
  BY <1>2, RaisedAdvances
<1>7. Advances(c, i, cs, Done(e, cs))
  <2>1. Alike(c, e, {"errors", "node"}) /\ e.node = "validate_execution_proposal"
    BY <1>4, ErrorAndGo
  <2>2. /\ DOMAIN e = DecisionFields /\ e.kind = c.kind /\ e.usable = c.usable /\ e.strategies = c.strategies
        /\ e.meta = c.meta /\ e.proposal = c.proposal /\ e.command = c.command /\ e.status = c.status
    BY <1>4, <2>1, AlikeDecision
  <2> HIDE DEF e
  <2>3. Reasoned(e)
    BY <1>4, <1>5, <2>1, <2>2 DEF Reasoned
  <2>4. Answered(e, i, cs)
    BY <1>4, <2>2 DEF AtNode, Sound, Answered
  <2> QED BY <1>2, <2>2, <2>3, <2>4, Fields DEF Advances, Sound, Follows
<1>8. ASSUME r.result = "valid", s # NoStrategy PROVE Advances(c, i, cs, Done(d, r.calls))
  <2>1. p.strategy = s /\ [p EXCEPT !.strategy = NoStrategy] = r.output /\ s = c.meta.selected
    <3> HIDE DEF r
    <3> QED BY <1>2, <1>4, <1>8, ProposalSet, SelectedIsMeant
  <2> HIDE DEF p
  <2>2. /\ Alike(c, d, {"proposal", "node"}) /\ d.node = "validate_execution_proposal"
        /\ d.proposal = p
    <3>1. "proposal" \in DOMAIN c /\ "node" \in DOMAIN c
      BY <1>4 DEF DecisionFields
    <3>2. Alike(c, [c EXCEPT !["proposal"] = p], {"proposal"})
      BY <3>1, AlikeSet
    <3>3. Alike(c, d, {"proposal"} \cup {"node"}) /\ d.node = "validate_execution_proposal"
      BY <3>1, <3>2, AlikeGoTo
    <3>4. d.proposal = p
      BY <3>1, FieldSet, GoToFields
    <3> QED BY <3>3, <3>4 DEF Alike
  <2>3. /\ DOMAIN d = DecisionFields /\ d.kind = c.kind /\ d.usable = c.usable /\ d.strategies = c.strategies
        /\ d.meta = c.meta /\ d.command = c.command /\ d.status = c.status
    <3> HIDE DEF d
    <3> QED BY <1>4, <2>2, AlikeDecision
  <2> HIDE DEF d, r
  <2>4. Reasoned(d)
    BY <1>4, <1>5, <2>1, <2>2, <2>3 DEF Reasoned
  <2>5. Answered(d, i, r.calls)
    <3>1. c.meta # NoMeta => OnRecord(cs, IdempotencyKey("meta_decision", SharedHash(i)), c.meta)
      BY DEF AtNode, Sound, Answered
    <3>2. d.meta # NoMeta => OnRecord(r.calls, IdempotencyKey("meta_decision", SharedHash(i)), d.meta)
      BY <1>2, <2>3, <3>1, OnRecordStays
    <3> QED BY <1>2, <1>4, <1>8, <2>1, <2>2, <2>3, <3>2 DEF Answered
  <2> QED BY <1>2, <2>3, <2>4, <2>5, Fields DEF Advances, Sound, Follows
<1> HIDE DEF r, d, e
<1> QED BY <1>3, <1>6, <1>7, <1>8

\* What the entering and the ending nodes leave of a cycle.
LEMMA EnteringSound ==
    ASSUME NEW c, NEW d, NEW i, NEW cs, Sound(c, i, cs), c.kind = "decision",
           Alike(c, d, {"errors", "node"}),
           \/ c.node \in Entering /\ d.node \in Entering \ {"entry_tactician"}
           \/ d.node \in Ending
    PROVE  Sound(d, i, cs) /\ Follows(c, d) /\ d.command = c.command /\ d.proposal = c.proposal /\ d.meta = c.meta
<1>1. Reasoned(c)
  BY DEF Sound, Watched
<1>2. /\ DOMAIN d = DecisionFields /\ d.kind = c.kind /\ d.usable = c.usable /\ d.strategies = c.strategies
      /\ d.meta = c.meta /\ d.proposal = c.proposal /\ d.command = c.command /\ d.status = c.status
  <2>1. DOMAIN c = DecisionFields
    BY <1>1 DEF Reasoned
  <2> QED BY <2>1, AlikeDecision
<1>3. Reasoned(d)
  <2>1. CASE c.node \in Entering /\ d.node \in Entering \ {"entry_tactician"}
    <3>1. d.node \notin Hearing \cup Weighing \cup {"entry_tactician"} /\ c.node \notin Ending
      BY <2>1 DEF Hearing, Weighing, Entering, Ending, PersistNodes
    <3> QED BY <1>1, <1>2, <2>1, <3>1 DEF Reasoned
  <2>2. CASE d.node \in Ending
    <3>1. d.node \notin Hearing \cup Weighing \cup {"entry_tactician"} \cup Entering
      BY <2>2 DEF Hearing, Weighing, Entering, Ending, PersistNodes
    <3> QED BY <1>1, <1>2, <2>2, <3>1 DEF Reasoned
  <2> QED BY <2>1, <2>2
<1>4. Answered(d, i, cs)
  BY <1>2 DEF Sound, Answered
<1> QED BY <1>2, <1>3, <1>4 DEF Sound, Follows

\* Validation goes on to the submission or, with an error, to the end.
LEMMA ValidationAdvances ==
    ASSUME NEW c, NEW i, NEW cs, NEW open, NEW working, NEW sent,
           AtNode(c, i, cs, "validate_execution_proposal")
    PROVE  LET d == ValidateExecutionProposal(c, open, working, sent) IN
           Sound(d, i, cs) /\ Follows(c, d)
<1> DEFINE d == ValidateExecutionProposal(c, open, working, sent)
<1>1. PICK seen, n : /\ seen \in {c, Error(c, "missing_proposal"), Error(c, "validation_failed")}
                     /\ d = GoTo(seen, n) /\ n \in {"persist_cycle", "submit_execution_command"}
  BY DEF ValidateExecutionProposal, AfterValidateRoute
<1>2. Alike(c, d, {"errors", "node"}) /\ d.node = n
  <2>1. Alike(c, GoTo(c, n), {"node"}) /\ GoTo(c, n).node = n
    BY AtNodeFields, GoOn
  <2>2. ASSUME NEW code PROVE Alike(c, GoTo(Error(c, code), n), {"errors", "node"}) /\ GoTo(Error(c, code), n).node = n
    BY AtNodeFields, ErrorAndGo
  <2> QED BY <1>1, <2>1, <2>2 DEF Alike
<1>3. \/ c.node \in Entering /\ d.node \in Entering \ {"entry_tactician"}
      \/ d.node \in Ending
  BY <1>1, <1>2 DEF AtNode, Entering, Ending, PersistNodes
<1> HIDE DEF d
<1> QED BY <1>2, <1>3, EnteringSound DEF AtNode, d

-----------------------------------------------------------------------------
(* The nodes of a position cycle                                           *)

Observing == {"node", "qty", "order", "prior", "thesis", "notes"}

AtPositionNode(c, i, cs, node) ==
    c.kind = "position" /\ Sound(c, i, cs) /\ AnswersProposals(cs) /\ c.node = node

\* A position cycle at a node has the fields of one.
LEMMA AtPositionFields ==
    ASSUME NEW c, NEW i, NEW cs, NEW node, AtPositionNode(c, i, cs, node)
    PROVE  Watched(c) /\ DOMAIN c = PositionFields
<1>1. Watched(c)
  BY DEF AtPositionNode, Sound, Reasoned
<1> QED BY <1>1 DEF Watched

\* Up to the decision nothing that matters to an order is set.
LEMMA WatchingSound ==
    ASSUME NEW c, NEW d, NEW i, NEW cs, Sound(c, i, cs), c.kind = "position",
           Alike(c, d, Observing), c.node \in Watching, d.node \in Watching
    PROVE  Sound(d, i, cs) /\ Follows(c, d)
<1>1. Watched(c)
  BY DEF Sound, Reasoned
<1>2. /\ DOMAIN d = PositionFields /\ d.kind = c.kind /\ d.usable = c.usable
      /\ d.decision = c.decision /\ d.command = c.command /\ d.status = c.status
  BY <1>1, AlikePosition DEF Watched, Observing
<1>3. Watched(d)
  <2>1. c.node # "end"
    BY DEF Watching
  <2> QED BY <1>1, <1>2, <2>1 DEF Watched
<1>4. Answered(d, i, cs)
  BY <1>2 DEF Sound, Answered
<1> QED BY <1>2, <1>3, <1>4 DEF Sound, Follows

\* A node before the decision advances its cycle.
LEMMA PositionDone ==
    ASSUME NEW c, NEW d, NEW i, NEW cs, NEW ds, Sound(c, i, cs), c.kind = "position",
           Alike(c, d, Observing), c.node \in Watching, d.node \in Watching,
           Extends(cs, ds), AnswersProposals(ds)
    PROVE  Advances(c, i, cs, Done(d, ds))
<1>1. Sound(c, i, ds)
  BY SoundStays
<1>2. Sound(d, i, ds) /\ Follows(c, d)
  BY <1>1, WatchingSound
<1> QED BY <1>2, Fields DEF Advances

\* A field is set, and the next node.
LEMMA SetAndGoPosition ==
    ASSUME NEW c, NEW x, NEW d, NEW f \in DOMAIN c, NEW n, DOMAIN c = PositionFields, f # "node",
           Alike(c, x, {f}), d = GoTo(x, n)
    PROVE  Alike(c, d, {f, "node"}) /\ d.node = n /\ d[f] = x[f]
<1>1. "node" \in DOMAIN c
  BY DEF PositionFields
<1>2. Alike(c, d, {f} \cup {"node"}) /\ d.node = n
  BY <1>1, AlikeGoTo
<1>3. d[f] = x[f]
  BY <1>1, GoToFields DEF Alike
<1>4. {f} \cup {"node"} = {f, "node"}
  OBVIOUS
<1> QED BY <1>2, <1>3, <1>4

\* The field is one that matters to no order.
LEMMA SetWhileWatching ==
    ASSUME NEW c, NEW x, NEW d, NEW f \in Observing, NEW n, DOMAIN c = PositionFields,
           Alike(c, x, {f}), d = GoTo(x, n)
    PROVE  Alike(c, d, Observing) /\ d.node = n
<1>1. "node" \in DOMAIN c
  BY DEF PositionFields
<1>2. Alike(c, d, {f} \cup {"node"}) /\ d.node = n
  BY <1>1, AlikeGoTo
<1>3. {f} \cup {"node"} \subseteq Observing
  BY DEF Observing
<1> QED BY <1>2, <1>3 DEF Alike

\* The quantity and the working order are hydrated.
LEMMA TruthAdvances ==
    ASSUME NEW c, NEW i, NEW cs, NEW open, NEW first, AtPositionNode(c, i, cs, "hydrate_position_truth")
    PROVE  LET d == HydratePositionTruth(c, open, first) IN Sound(d, i, cs) /\ Follows(c, d)
<1> DEFINE d == HydratePositionTruth(c, open, first)
<1>1. Alike(c, d, Observing)
  BY AtPositionFields DEF Alike, HydratePositionTruth, GoTo, Observing, PositionFields
<1>2. d.node = "load_original_strategy"
  BY AtPositionFields DEF HydratePositionTruth, GoTo, PositionFields
<1>3. c.node \in Watching /\ d.node \in Watching
  BY <1>2 DEF AtPositionNode, Watching
<1> HIDE DEF d
<1>4. Sound(d, i, cs) /\ Follows(c, d)
  BY <1>1, <1>3, WatchingSound DEF AtPositionNode
<1> QED BY <1>4 DEF d

\* Only the prompt is told of the strategy.
LEMMA LoadedAdvances ==
    ASSUME NEW c, NEW i, NEW cs, AtPositionNode(c, i, cs, "load_original_strategy")
    PROVE  LET d == LoadOriginalStrategy(c) IN Sound(d, i, cs) /\ Follows(c, d)
<1> DEFINE d == LoadOriginalStrategy(c)
<1>1. Alike(c, d, Observing)
  BY AtPositionFields DEF Alike, LoadOriginalStrategy, GoTo, Observing, PositionFields
<1>2. d.node = "load_prior_thesis"
  BY AtPositionFields DEF LoadOriginalStrategy, GoTo, PositionFields
<1>3. c.node \in Watching /\ d.node \in Watching
  BY <1>2 DEF AtPositionNode, Watching
<1> HIDE DEF d
<1>4. Sound(d, i, cs) /\ Follows(c, d)
  BY <1>1, <1>3, WatchingSound DEF AtPositionNode
<1> QED BY <1>4 DEF d

\* The prior thesis is loaded.
LEMMA PriorAdvances ==
    ASSUME NEW c, NEW i, NEW cs, NEW stored, AtPositionNode(c, i, cs, "load_prior_thesis")
    PROVE  LET d == LoadPriorThesis(c, stored) IN Sound(d, i, cs) /\ Follows(c, d)
<1> DEFINE d == LoadPriorThesis(c, stored)
<1>1. Alike(c, d, Observing)
  BY AtPositionFields DEF Alike, LoadPriorThesis, GoTo, Observing, PositionFields
<1>2. d.node = "position_thesis_agent"
  BY AtPositionFields DEF LoadPriorThesis, GoTo, PositionFields
<1>3. c.node \in Watching /\ d.node \in Watching
  BY <1>2 DEF AtPositionNode, Watching
<1> HIDE DEF d
<1>4. Sound(d, i, cs) /\ Follows(c, d)
  BY <1>1, <1>3, WatchingSound DEF AtPositionNode
<1> QED BY <1>4 DEF d

\* The thesis agent sets the thesis or raises.
LEMMA ThesisAdvances ==
    ASSUME NEW c, NEW i, NEW cs, NEW how, NEW stored, AtPositionNode(c, i, cs, "position_thesis_agent")
    PROVE  Advances(c, i, cs, PositionThesisAgent(c, i, cs, how, stored))
<1> DEFINE key == IdempotencyKey("position_thesis", OwnHash("position_thesis", i))
           r == RouteAndComplete(cs, key, how, Text)
           d == GoTo([c EXCEPT !["thesis"] = IF c.strategy = NoStrategy THEN Anonymous ELSE c.strategy],
                     "position_execution_critic")
<1>1. ~\E h : key = IdempotencyKey("entry_tactician", h)
  BY DEF IdempotencyKey
<1>2. Extends(cs, r.calls) /\ AnswersProposals(r.calls)
  BY <1>1, RouteKeeps DEF AtPositionNode
<1>3. PositionThesisAgent(c, i, cs, how, stored) \in {Raised(c, r.calls), Done(d, r.calls)}
  BY DEF PositionThesisAgent
<1>4. Alike(c, d, Observing) /\ d.node = "position_execution_critic"
  <2>1. "thesis" \in Observing /\ "thesis" \in PositionFields
    BY DEF PositionFields, Observing
  <2>2. DOMAIN c = PositionFields /\ "thesis" \in DOMAIN c
    BY <2>1, AtPositionFields
  <2>3. PICK x : Alike(c, x, {"thesis"}) /\ d = GoTo(x, "position_execution_critic")
    BY <2>2, AlikeSet
  <2> HIDE DEF d
  <2> QED BY <2>1, <2>2, <2>3, SetWhileWatching
<1>5. c.node \in Watching /\ d.node \in Watching
  BY <1>4 DEF AtPositionNode, Watching
<1> HIDE DEF r, d
<1>6. Advances(c, i, cs, Raised(c, r.calls))
  BY <1>2, RaisedAdvances
<1>7. Advances(c, i, cs, Done(d, r.calls))
  BY <1>2, <1>4, <1>5, PositionDone DEF AtPositionNode
<1> QED BY <1>3, <1>6, <1>7

\* The critic sets its notes or raises.
LEMMA CriticAdvances ==
    ASSUME NEW c, NEW i, NEW cs, NEW how, AtPositionNode(c, i, cs, "position_execution_critic")
    PROVE  Advances(c, i, cs, PositionExecutionCritic(c, i, cs, how))
<1> DEFINE key == IdempotencyKey("execution_critic", OwnHash("execution_critic", i))
           r == RouteAndComplete(cs, key, how, Text)
           d == GoTo([c EXCEPT !["notes"] = TRUE], "position_decision_agent")
<1>1. ~\E h : key = IdempotencyKey("entry_tactician", h)
  BY DEF IdempotencyKey
<1>2. Extends(cs, r.calls) /\ AnswersProposals(r.calls)
  BY <1>1, RouteKeeps DEF AtPositionNode
<1>3. PositionExecutionCritic(c, i, cs, how) \in {Raised(c, r.calls), Done(d, r.calls)}
  BY DEF PositionExecutionCritic
<1>4. Alike(c, d, Observing) /\ d.node = "position_decision_agent"
  <2>1. "notes" \in Observing /\ "notes" \in PositionFields
    BY DEF PositionFields, Observing
  <2>2. DOMAIN c = PositionFields /\ "notes" \in DOMAIN c
    BY <2>1, AtPositionFields
  <2>3. PICK x : Alike(c, x, {"notes"}) /\ d = GoTo(x, "position_decision_agent")
    BY <2>2, AlikeSet
  <2> HIDE DEF d
  <2> QED BY <2>1, <2>2, <2>3, SetWhileWatching
<1>5. c.node \in Watching /\ d.node \in Watching
  BY <1>4 DEF AtPositionNode, Watching
<1> HIDE DEF r, d
<1>6. Advances(c, i, cs, Raised(c, r.calls))
  BY <1>2, RaisedAdvances
<1>7. Advances(c, i, cs, Done(d, r.calls))
  BY <1>2, <1>4, <1>5, PositionDone DEF AtPositionNode
<1> QED BY <1>3, <1>6, <1>7

\* The decision of a position cycle is the answer on record.
LEMMA DecisionAdvances ==
    ASSUME NEW c, NEW i, NEW cs, NEW how, NEW o, AtPositionNode(c, i, cs, "position_decision_agent")
    PROVE  Advances(c, i, cs, PositionDecisionAgent(c, i, cs, how, o))
<1> DEFINE key == IdempotencyKey("position_decision", OwnHash("position_decision", i))
           r == RouteAndComplete(cs, key, how, o)
           d == GoTo([c EXCEPT !["decision"] = r.output], "route_position_action")
<1>1. ~\E h : key = IdempotencyKey("entry_tactician", h)
  BY DEF IdempotencyKey
<1>2. /\ Extends(cs, r.calls) /\ AnswersProposals(r.calls)
      /\ r.result = "valid" => OnRecord(r.calls, key, r.output)
  BY <1>1, RouteKeeps DEF AtPositionNode, OnRecord
<1>3. \/ PositionDecisionAgent(c, i, cs, how, o) = Raised(c, r.calls)
      \/ PositionDecisionAgent(c, i, cs, how, o) = Done(d, r.calls) /\ r.result = "valid"
  BY DEF PositionDecisionAgent
<1>4. Advances(c, i, cs, Raised(c, r.calls))
  BY <1>2, RaisedAdvances
<1>5. ASSUME r.result = "valid" PROVE Advances(c, i, cs, Done(d, r.calls))
  <2>1. /\ Alike(c, d, {"decision", "node"}) /\ d.node = "route_position_action"
        /\ d.decision = r.output
    <3>1. "decision" \in DOMAIN c /\ DOMAIN c = PositionFields
      BY AtPositionFields DEF PositionFields
    <3> HIDE DEF r
    <3>2. PICK x : Alike(c, x, {"decision"}) /\ x["decision"] = r.output /\ d = GoTo(x, "route_position_action")
      BY <3>1, AlikeSet, FieldSet
    <3> HIDE DEF d
    <3>4. /\ Alike(c, d, {"decision", "node"}) /\ d.node = "route_position_action"
          /\ d["decision"] = x["decision"]
      BY <3>1, <3>2, SetAndGoPosition
    <3> QED BY <3>2, <3>4
  <2> HIDE DEF d, r
  <2>2. /\ DOMAIN d = PositionFields /\ d.kind = c.kind /\ d.usable = c.usable
        /\ d.command = c.command /\ d.status = c.status
    BY <2>1, AlikePosition, AtPositionFields
  <2>3. Watched(d)
    <3>1. c.node # "end" /\ d.node \notin Watching
      BY <2>1 DEF AtPositionNode, Watching
    <3> QED BY <2>1, <2>2, <3>1, AtPositionFields DEF Watched
  <2>4. Answered(d, i, r.calls)
    BY <1>2, <1>5, <2>1, <2>2 DEF Answered, AtPositionNode
  <2> QED BY <1>2, <2>2, <2>3, <2>4, Fields DEF Advances, Sound, Follows
<1> HIDE DEF r, d
<1> QED BY <1>3, <1>4, <1>5

\* The last step of a position cycle: it ends, with or without an error or the
\* id of an order that it cancelled or sent.
LEMMA EndSound ==
    ASSUME NEW c, NEW d, NEW i, NEW cs, Sound(c, i, cs), c.kind = "position",
           Alike(c, d, {"command", "errors", "node"}), d.node = "end"
    PROVE  Sound(d, i, cs) /\ Follows(c, d)
<1>1. Watched(c)
  BY DEF Sound, Reasoned
<1>2. /\ DOMAIN d = PositionFields /\ d.kind = c.kind /\ d.usable = c.usable
      /\ d.decision = c.decision /\ d.status = c.status
  <2>1. DOMAIN c = PositionFields
    BY <1>1 DEF Watched
  <2> QED BY <2>1, AlikePosition
<1>3. Watched(d)
  BY <1>1, <1>2 DEF Watched, Watching
<1>4. Answered(d, i, cs)
  BY <1>2 DEF Sound, Answered
<1> QED BY <1>2, <1>3, <1>4 DEF Sound, Follows

-----------------------------------------------------------------------------
(* What a call that is interrupted leaves                                  *)

\* Only the tactician's node asks under the keys of a tactician.
LEMMA DecisionAsks ==
    ASSUME NEW c, NEW i
    PROVE  \/ \A a \in DecisionKeys(c, i) : \A h : a[1] # IdempotencyKey("entry_tactician", h)
           \/ \A a \in DecisionKeys(c, i) : a[2] = Proposals
<1>1. ASSUME NEW r, NEW h, NEW g, r # "entry_tactician"
      PROVE  IdempotencyKey(r, g) # IdempotencyKey("entry_tactician", h)
  BY <1>1 DEF IdempotencyKey
<1> DEFINE shared(roles, out) == {<<IdempotencyKey(r, SharedHash(i)), out>> : r \in roles}
<1>2. CASE c.node = "perception"
  <2>1. DecisionKeys(c, i) = {<<IdempotencyKey(r, OwnHash(r, i)), {Text}>> : r \in PerceptionRoles}
    BY <1>2 DEF DecisionKeys
  <2> QED BY <1>1, <2>1, SwarmRoles
<1>3. CASE c.node = "synthesise_world_model"
  <2>1. DecisionKeys(c, i) = {<<IdempotencyKey("world_model_synthesiser", OwnHash("world_model_synthesiser", i)), {[valid |-> TRUE]}>>}
    BY <1>3 DEF DecisionKeys
  <2> QED BY <1>1, <2>1
<1>4. CASE c.node = "discovery"
  <2>1. DecisionKeys(c, i) \in {shared(DiscoveryRoles, {Text}), {}}
    BY <1>4 DEF DecisionKeys
  <2> QED BY <1>1, <2>1, SwarmRoles
<1>5. CASE c.node = "strategy"
  <2>1. DecisionKeys(c, i) \in {shared(Range(Inventors), {Text}), {}}
    BY <1>5 DEF DecisionKeys
  <2> QED BY <1>1, <2>1, SwarmRoles
<1>6. CASE c.node = "debate"
  <2>1. DecisionKeys(c, i) \in {shared(DebateRoles, {[about |-> Debated(c)[1]]}), {}}
    BY <1>6 DEF DecisionKeys
  <2> QED BY <1>1, <2>1, SwarmRoles
<1>7. CASE c.node = "meta_decision"
  <2>1. DecisionKeys(c, i) \in {shared({"meta_decision"}, MetaOutputs), {}}
    BY <1>7 DEF DecisionKeys
  <2> QED BY <1>1, <2>1
<1>8. CASE c.node = "entry_tactician"
  <2>1. DecisionKeys(c, i) \in {shared({"entry_tactician"}, Proposals), {}}
    BY <1>8 DEF DecisionKeys
  <2> QED BY <2>1
<1>9. CASE c.node \notin {"perception", "synthesise_world_model", "discovery", "strategy", "debate",
                           "meta_decision", "entry_tactician"}
  <2>1. DecisionKeys(c, i) = {}
    BY <1>9 DEF DecisionKeys
  <2> QED BY <2>1
<1> QED BY <1>2, <1>3, <1>4, <1>5, <1>6, <1>7, <1>8, <1>9

\* No node of a position cycle asks under a key of the tactician.
LEMMA PositionAsks ==
    ASSUME NEW c, NEW i, NEW a \in PositionKeys(c, i), NEW h
    PROVE  a[1] # IdempotencyKey("entry_tactician", h)
<1> DEFINE own(role, out) == {<<IdempotencyKey(role, OwnHash(role, i)), out>>}
<1>1. ASSUME NEW r, NEW g, r # "entry_tactician"
      PROVE  IdempotencyKey(r, g) # IdempotencyKey("entry_tactician", h)
  BY <1>1 DEF IdempotencyKey
<1>2. PositionKeys(c, i) \in {own("position_thesis", {Text}), own("execution_critic", {Text}),
                              own("position_decision", PositionDecisions), {}}
  BY DEF PositionKeys
<1>3. PICK r, out : r # "entry_tactician" /\ a = <<IdempotencyKey(r, OwnHash(r, i)), out>>
  BY <1>2
<1> QED BY <1>1, <1>3

\* So the rows that may be left hold no answer of the tactician but proposals.
LEMMA TornProposals ==
    ASSUME NEW w \in Workers, NEW f \in Torn(w)
    PROVE  NewProposals(f)
<1> DEFINE i == at[w].cycle
           asks == IF at[w].step # "node" THEN {}
                   ELSE IF w = "decision" THEN DecisionKeys(cycles[i], i) ELSE PositionKeys(cycles[i], i)
           outs == UNION {a[2] : a \in asks}
           rows == TornRows(outs)
<1>1. PICK S : S \in SUBSET ({a[1] : a \in asks} \ DOMAIN calls) /\ f \in [S -> rows]
  BY DEF Torn
<1>2. \/ \A a \in asks : \A h : a[1] # IdempotencyKey("entry_tactician", h)
      \/ \A a \in asks : a[2] = Proposals
  BY DecisionAsks, PositionAsks
<1> HIDE DEF asks
<1>3. CASE \A a \in asks : \A h : a[1] # IdempotencyKey("entry_tactician", h)
  BY <1>1, <1>3 DEF NewProposals
<1>4. CASE \A a \in asks : a[2] = Proposals
  <2>1. outs \subseteq Proposals
    BY <1>4
  <2>2. ASSUME NEW row \in rows, row.status = "completed" PROVE row.output \in Proposals
    <3> HIDE DEF outs
    <3>1. row = Row("in_progress", NoOutput) \/ \E o \in outs : row = Row("completed", o)
      BY DEF TornRows
    <3> QED BY <2>1, <2>2, <3>1, RowFields
  <2> HIDE DEF rows
  <2>3. \A k \in DOMAIN f : f[k] \in rows
    BY <1>1
  <2> QED BY <2>2, <2>3 DEF NewProposals
<1> QED BY <1>2, <1>3, <1>4

-----------------------------------------------------------------------------
(* The inductive invariant                                                 *)

IsSeq(s) == \E S : s \in Seq(S)

\* The client order id of a cycle's order; it does not change.
OwnId(kind, i) == IF kind = "decision" THEN CommandId(i, 0) ELSE PositionCommandId(i)

\* The cycle is at the node that sends its order, and has one to send.
Submitting(c) ==
    /\ c.command = NoCommand
    /\ IF c.kind = "decision"
       THEN c.node = "submit_execution_command" /\ c.proposal # NoProposal
       ELSE c.node = "route_position_action" /\ c.decision.action \in OrderActions

\* What the order of a cycle has to do with its checkpoint.
Backed(ord, c, i) ==
    /\ ord.id = OwnId(c.kind, i)
    /\ ord.kind = "entry" =>
        /\ c.kind = "decision" /\ c.usable /\ c.meta.action = "execute"
        /\ ord.strategy = c.meta.selected /\ ord.qty = c.proposal.qty /\ ord.side = "buy"
    /\ \/ c.node \in Ending /\ c.command = ord.id
       \/ c.status = "running" /\ Submitting(c)
       \/ c.status = "running" /\ c.node \in Ending /\ c.errors \cap BlockingCodes # {}

OrderOwned(ord, cy) ==
    IF ord.cycle = 0 THEN ord.kind = "replace" /\ \E x, y : ord.id = <<"replace", x, y>>
    ELSE ord.cycle \in DOMAIN cy /\ Backed(ord, cy[ord.cycle], ord.cycle)

OrderFields == {"id", "cycle", "kind", "contract", "side", "qty", "filled", "status", "live", "strategy"}

OrdersOwned(os, cy) ==
    /\ IsSeq(os)
    /\ \A o \in DOMAIN os : DOMAIN os[o] = OrderFields /\ OrderOwned(os[o], cy)
    /\ \A o, p \in DOMAIN os : os[o].id = os[p].id => o = p

\* The request that a worker has under way is that of its cycle, or of the
\* order manager.
Ordering == {"gateway", "cancel", "send", "record"}

Requested(w, a, cy) ==
    IF a.cycle = 0 THEN a.req.kind = "replace" /\ \E x, y : a.req.id = <<"replace", x, y>>
    ELSE LET c == cy[a.cycle] IN
         /\ Submitting(c) /\ a.req.id = OwnId(w, a.cycle)
         /\ w = "decision" => /\ a.req.kind = "entry" /\ a.req.strategy = c.proposal.strategy
                              /\ a.req.qty = c.proposal.qty
         /\ w = "position" => a.req.kind # "entry"

WorkerFields == {"step", "cycle", "req", "usable"}
RequestFields == {"kind", "side", "qty", "id", "strategy", "replaces"}

AtWork(w, a, cy, td) ==
    /\ DOMAIN a = WorkerFields /\ DOMAIN a.req = RequestFields
    /\ a.cycle # 0 =>
        /\ a.cycle \in DOMAIN cy /\ a.cycle \notin td
        /\ cy[a.cycle].kind = w /\ cy[a.cycle].status = "running" /\ a.usable = cy[a.cycle].usable
    /\ a.step \in {"idle", "node", "manage"} \cup Ordering
    /\ a.step \in {"idle", "manage"} => a.cycle = 0
    /\ a.step = "node" => a.cycle # 0
    /\ a.step = "manage" => w = "position"
    /\ a.step \in Ordering => Requested(w, a, cy)
    /\ a.step = "cancel" => a.req.kind = "replace"
    /\ a.step \in {"send", "record"} /\ a.req.kind = "entry" => a.usable /\ a.req.side = "buy"

CyclesSound(cy, cs) == IsSeq(cy) /\ \A i \in DOMAIN cy : Sound(cy[i], i, cs)

Resuming(cy, td, ph) ==
    /\ td \subseteq {i \in DOMAIN cy : cy[i].status = "running"}
    /\ ph # "resuming" => td = {}

IInv ==
    /\ CyclesSound(cycles, calls) /\ AnswersProposals(calls)
    /\ OrdersOwned(orders, cycles)
    /\ DOMAIN at = Workers /\ \A w \in Workers : AtWork(w, at[w], cycles, todo)
    /\ Resuming(cycles, todo, phase)
    /\ phase = "down" => \A w \in Workers : at[w] = Free

-----------------------------------------------------------------------------
(* Sequences                                                               *)

\* The indices of a sequence.
LEMMA SeqFacts ==
    ASSUME NEW s, IsSeq(s)
    PROVE  /\ Len(s) \in Nat /\ DOMAIN s = 1..Len(s) /\ 0 \notin DOMAIN s
           /\ Len(s) + 1 \notin DOMAIN s
<1>1. PICK S : s \in Seq(S)
  BY DEF IsSeq
<1> QED BY <1>1

\* An element is appended.
LEMMA SeqAppended ==
    ASSUME NEW s, NEW x, IsSeq(s)
    PROVE  /\ IsSeq(Append(s, x)) /\ DOMAIN Append(s, x) = DOMAIN s \cup {Len(s) + 1}
           /\ Append(s, x)[Len(s) + 1] = x
           /\ \A i \in DOMAIN s : Append(s, x)[i] = s[i]
<1>1. PICK S : s \in Seq(S)
  BY DEF IsSeq
<1>2. PICK T : T = S \cup {x}
  OBVIOUS
<1>3. s \in Seq(T) /\ x \in T
  <2>1. \A i \in 1..Len(s) : s[i] \in T
    BY <1>1, <1>2
  <2>2. s = [i \in 1..Len(s) |-> s[i]]
    BY <1>1
  <2> QED BY <1>1, <1>2, <2>1, <2>2, IsASeq
<1>4. /\ Append(s, x) \in Seq(T) /\ Len(Append(s, x)) = Len(s) + 1
      /\ Append(s, x)[Len(s) + 1] = x /\ \A i \in 1..Len(s) : Append(s, x)[i] = s[i]
  BY <1>3, AppendProperties
<1>5. DOMAIN Append(s, x) = 1..(Len(s) + 1) /\ DOMAIN s = 1..Len(s) /\ Len(s) \in Nat
  BY <1>3, <1>4
<1>6. 1..(Len(s) + 1) = 1..Len(s) \cup {Len(s) + 1}
  BY <1>5
<1> QED BY <1>4, <1>5, <1>6 DEF IsSeq

\* Any function of the same domain.
LEMMA SeqMapped ==
    ASSUME NEW s, NEW t, IsSeq(s), DOMAIN t = DOMAIN s, t = [i \in DOMAIN t |-> t[i]]
    PROVE  IsSeq(t)
<1>1. Len(s) \in Nat /\ DOMAIN s = 1..Len(s)
  BY SeqFacts
<1>2. PICK T : T = {t[i] : i \in DOMAIN t}
  OBVIOUS
<1>3. t = [i \in 1..Len(s) |-> t[i]] /\ \A i \in 1..Len(s) : t[i] \in T
  BY <1>1, <1>2
<1>4. [i \in 1..Len(s) |-> t[i]] \in Seq(T)
  BY <1>1, <1>3, IsASeq
<1> QED BY <1>3, <1>4 DEF IsSeq

\* An element is set.
LEMMA SeqSet ==
    ASSUME NEW s, NEW i \in DOMAIN s, NEW x, IsSeq(s)
    PROVE  /\ IsSeq([s EXCEPT ![i] = x]) /\ DOMAIN [s EXCEPT ![i] = x] = DOMAIN s
           /\ [s EXCEPT ![i] = x][i] = x
           /\ \A j \in DOMAIN s : j # i => [s EXCEPT ![i] = x][j] = s[j]
<1> DEFINE t == [s EXCEPT ![i] = x]
<1>1. DOMAIN t = DOMAIN s /\ t[i] = x /\ \A j \in DOMAIN s : j # i => t[j] = s[j]
  BY FieldSet
<1>2. t = [j \in DOMAIN t |-> t[j]]
  OBVIOUS
<1> HIDE DEF t
<1>3. IsSeq(t)
  BY <1>1, <1>2, SeqMapped
<1> QED BY <1>1, <1>3 DEF t

-----------------------------------------------------------------------------
(* The shapes of a step                                                    *)

\* What a worker under way is known to have.
LEMMA WorkerKnown ==
    ASSUME IInv, NEW w \in Workers, at[w].cycle # 0
    PROVE  LET i == at[w].cycle IN
           /\ i \in DOMAIN cycles /\ i \notin todo /\ Sound(cycles[i], i, calls)
           /\ cycles[i].kind = w /\ cycles[i].status = "running" /\ at[w].usable = cycles[i].usable
           /\ phase # "down"
<1>1. AtWork(w, at[w], cycles, todo)
  BY DEF IInv
<1>2. phase # "down"
  BY DEF IInv, Free
<1>3. \A i \in DOMAIN cycles : Sound(cycles[i], i, calls)
  BY DEF IInv, CyclesSound
<1> QED BY <1>1, <1>2, <1>3 DEF AtWork

\* The orders stay owned when a cycle changes that backs its own.
LEMMA OwnedAfter ==
    ASSUME NEW os, NEW cy, NEW i \in DOMAIN cy, NEW d, OrdersOwned(os, cy),
           \A o \in DOMAIN os : os[o].cycle = i => Backed(os[o], d, i)
    PROVE  OrdersOwned(os, [cy EXCEPT ![i] = d])
<1> DEFINE cy2 == [cy EXCEPT ![i] = d]
<1>1. DOMAIN cy2 = DOMAIN cy /\ cy2[i] = d /\ \A j \in DOMAIN cy : j # i => cy2[j] = cy[j]
  BY FieldSet
<1> HIDE DEF cy2
<1>2. ASSUME NEW o \in DOMAIN os PROVE OrderOwned(os[o], cy2)
  <2>1. OrderOwned(os[o], cy)
    BY DEF OrdersOwned
  <2>2. CASE os[o].cycle = 0
    BY <2>1, <2>2 DEF OrderOwned
  <2>3. CASE os[o].cycle # 0
    BY <1>1, <2>1, <2>3 DEF OrderOwned
  <2> QED BY <2>2, <2>3
<1>3. OrdersOwned(os, cy2)
  BY <1>2 DEF OrdersOwned
<1> QED BY <1>3 DEF cy2

\* The worker of another cycle is not disturbed.
LEMMA OtherAtWork ==
    ASSUME NEW v, NEW a, NEW cy, NEW cy2, NEW td, NEW td2, AtWork(v, a, cy, td),
           a.cycle # 0 => /\ a.cycle \in DOMAIN cy2 /\ cy2[a.cycle] = cy[a.cycle] /\ a.cycle \notin td2
    PROVE  AtWork(v, a, cy2, td2)
<1>1. a.step \in Ordering => Requested(v, a, cy2)
  <2>1. CASE a.cycle = 0
    BY <2>1 DEF AtWork, Requested
  <2>2. CASE a.cycle # 0
    BY <2>2 DEF AtWork, Requested
  <2> QED BY <2>1, <2>2
<1> QED BY <1>1 DEF AtWork

\* The cycle of a worker changes, with the table, the orders and the worker.
LEMMA CycleChange ==
    ASSUME IInv, NEW w \in Workers, at[w].cycle # 0, NEW d, NEW a,
           cycles' = [cycles EXCEPT ![at[w].cycle] = d],
           Extends(calls, calls'), AnswersProposals(calls'),
           Sound(d, at[w].cycle, calls'), d.kind = w,
           OrdersOwned(orders', cycles'),
           DOMAIN at' = Workers, at'[w] = a, \A v \in Workers : v # w => at'[v] = at[v],
           AtWork(w, a, cycles', todo), todo' = todo, phase' = phase
    PROVE  IInv'
<1> DEFINE i == at[w].cycle
<1>1. i \in DOMAIN cycles /\ i \notin todo /\ cycles[i].kind = w /\ phase # "down"
  BY WorkerKnown
<1>2. CyclesSound(cycles, calls)
  BY DEF IInv
<1>3. \A j \in DOMAIN cycles : Sound(cycles[j], j, calls)
  BY <1>2 DEF CyclesSound
<1>4. /\ IsSeq(cycles') /\ DOMAIN cycles' = DOMAIN cycles /\ cycles'[i] = d
      /\ \A j \in DOMAIN cycles : j # i => cycles'[j] = cycles[j]
  BY <1>1, <1>2, SeqSet DEF CyclesSound
<1>5. CyclesSound(cycles', calls')
  <2> SUFFICES ASSUME NEW j \in DOMAIN cycles' PROVE Sound(cycles'[j], j, calls')
    BY <1>4 DEF CyclesSound
  <2>1. CASE j = i
    BY <1>4, <2>1
  <2>2. CASE j # i
    BY <1>3, <1>4, <2>2, SoundStays
  <2> QED BY <2>1, <2>2
<1>6. ASSUME NEW v \in Workers PROVE AtWork(v, at'[v], cycles', todo')
  <2>1. CASE v = w
    BY <2>1
  <2>2. CASE v # w
    <3>1. AtWork(v, at[v], cycles, todo) /\ at'[v] = at[v]
      BY <2>2 DEF IInv
    <3>2. at[v].cycle # 0 => at[v].cycle \in DOMAIN cycles /\ cycles[at[v].cycle].kind = v /\ at[v].cycle \notin todo
      BY <3>1 DEF AtWork
    <3>3. at[v].cycle # 0 => at[v].cycle # i
      BY <1>1, <2>2, <3>2
    <3>4. at[v].cycle # 0 => /\ at[v].cycle \in DOMAIN cycles' /\ cycles'[at[v].cycle] = cycles[at[v].cycle]
                             /\ at[v].cycle \notin todo'
      <4> HIDE DEF i
      <4> QED BY <1>4, <3>2, <3>3
    <3>5. AtWork(v, at[v], cycles', todo')
      <4> HIDE DEF i
      <4> QED BY <3>1, <3>4, OtherAtWork
    <3> QED BY <3>1, <3>5
  <2> QED BY <2>1, <2>2
<1>7. Resuming(cycles', todo', phase')
  BY <1>1, <1>4 DEF IInv, Resuming
<1> QED BY <1>1, <1>5, <1>6, <1>7 DEF IInv

\* Only the table, the orders and a worker change.
LEMMA WorkerChange ==
    ASSUME IInv, NEW w \in Workers, NEW a, cycles' = cycles,
           Extends(calls, calls'), AnswersProposals(calls'),
           OrdersOwned(orders', cycles),
           DOMAIN at' = Workers, at'[w] = a, \A v \in Workers : v # w => at'[v] = at[v],
           AtWork(w, a, cycles, todo), todo' = todo, phase' = phase,
           phase # "down" \/ a = Free
    PROVE  IInv'
<1>1. CyclesSound(cycles', calls')
  BY SoundStays DEF IInv, CyclesSound
<1>2. ASSUME NEW v \in Workers PROVE AtWork(v, at'[v], cycles', todo')
  BY DEF IInv
<1>3. Resuming(cycles', todo', phase')
  BY DEF IInv
<1>4. phase' = "down" => \A v \in Workers : at'[v] = Free
  BY DEF IInv
<1> QED BY <1>1, <1>2, <1>3, <1>4 DEF IInv

\* A worker is set, or freed.
LEMMA WorkerSet ==
    ASSUME IInv, NEW w \in Workers, NEW a, at' = [at EXCEPT ![w] = a]
    PROVE  DOMAIN at' = Workers /\ at'[w] = a /\ \A v \in Workers : v # w => at'[v] = at[v]
BY FieldSet DEF IInv

\* A free worker is fine in every state.
LEMMA FreeAtWork ==
    ASSUME NEW w, NEW cy, NEW td
    PROVE  AtWork(w, Free, cy, td)
BY DEF AtWork, Free, NoRequest, WorkerFields, RequestFields, Ordering

\* A node that has not raised: the cycle is as it was but for the checkpoint.
LEMMA NodeAtWork ==
    ASSUME IInv, NEW w \in Workers, at[w].step = "node", NEW d, Follows(cycles[at[w].cycle], d),
           cycles' = [cycles EXCEPT ![at[w].cycle] = d]
    PROVE  AtWork(w, at[w], cycles', todo) /\ at[w].cycle # 0
<1>1. AtWork(w, at[w], cycles, todo)
  BY DEF IInv
<1>2. at[w].cycle # 0 /\ at[w].cycle \in DOMAIN cycles
  BY <1>1 DEF AtWork
<1>3. DOMAIN cycles' = DOMAIN cycles /\ cycles'[at[w].cycle] = d
  BY <1>2, SeqSet DEF IInv, CyclesSound
<1> QED BY <1>1, <1>2, <1>3 DEF AtWork, Follows, Ordering

\* Until its node submits it, a cycle has no order.
LEMMA NotYetOrdered ==
    ASSUME IInv, NEW i \in DOMAIN cycles, cycles[i].node \notin Ending, ~Submitting(cycles[i]),
           NEW o \in DOMAIN orders
    PROVE  orders[o].cycle # i
<1>1. i # 0
  BY SeqFacts DEF IInv, CyclesSound
<1> QED BY <1>1 DEF IInv, OrdersOwned, OrderOwned, Backed

\* The nodes that neither submit nor end.
Thinking == Hearing \cup Weighing \cup (Entering \ {"submit_execution_command"}) \cup Watching

\* A cycle at such a node has no order.
LEMMA ThinkingHasNoOrder ==
    ASSUME IInv, NEW i \in DOMAIN cycles, cycles[i].node \in Thinking, NEW o \in DOMAIN orders
    PROVE  orders[o].cycle # i
BY NotYetOrdered DEF Thinking, Hearing, Weighing, Entering, Watching, Ending, PersistNodes, Submitting

\* What such a node leaves keeps the invariant.
LEMMA NodeQuiet ==
    ASSUME IInv, NEW w \in Workers, NEW node \in Thinking, At(w, node),
           NEW d, Sound(d, at[w].cycle, calls'), Follows(Cycle(w), d),
           Extends(calls, calls'), AnswersProposals(calls'),
           Checkpoint(w, d), orders' = orders, todo' = todo, phase' = phase
    PROVE  IInv'
<1>1. at[w].step = "node" /\ cycles[at[w].cycle].node = node
  BY DEF At
<1>2. AtWork(w, at[w], cycles', todo) /\ at[w].cycle # 0
  BY <1>1, NodeAtWork DEF Checkpoint, Cycle
<1>3. /\ at[w].cycle \in DOMAIN cycles /\ d.kind = w
  BY <1>2, WorkerKnown DEF Follows, Cycle
<1>4. OrdersOwned(orders', cycles')
  BY <1>1, <1>3, ThinkingHasNoOrder, OwnedAfter DEF IInv, Checkpoint
<1>5. DOMAIN at' = Workers /\ at'[w] = at[w] /\ \A v \in Workers : v # w => at'[v] = at[v]
  BY DEF IInv, Checkpoint
<1> QED BY <1>2, <1>3, <1>4, <1>5, CycleChange DEF Checkpoint

\* An interrupted node keeps it: its cycle is left as it was.
LEMMA Leaving ==
    ASSUME IInv, NEW w \in Workers, Leave(w), cycles' = cycles, orders' = orders,
           Extends(calls, calls'), AnswersProposals(calls'), todo' = todo, phase' = phase
    PROVE  IInv'
<1>1. DOMAIN at' = Workers /\ at'[w] = Free /\ \A v \in Workers : v # w => at'[v] = at[v]
  BY WorkerSet DEF Leave
<1>2. AtWork(w, Free, cycles, todo)
  BY FreeAtWork
<1>3. OrdersOwned(orders', cycles)
  BY DEF IInv
<1> QED BY <1>1, <1>2, <1>3, WorkerChange

\* So does a node that asked a model, whether it raises or not.
LEMMA NodeCommit ==
    ASSUME IInv, NEW w \in Workers, NEW node \in Thinking, At(w, node), NEW r,
           Advances(Cycle(w), at[w].cycle, calls, r), Commit(w, r)
    PROVE  IInv'
<1>1. /\ calls' = r.calls /\ orders' = orders /\ todo' = todo /\ phase' = phase
      /\ Extends(calls, calls') /\ AnswersProposals(calls')
  BY DEF Commit, process, Advances
<1>2. CASE r.raised
  <2>1. Leave(w) /\ cycles' = cycles
    BY <1>2 DEF Commit
  <2> QED BY <1>1, <2>1, Leaving
<1>3. CASE ~r.raised
  <2>1. Checkpoint(w, r.cycle)
    BY <1>3 DEF Commit
  <2>2. Sound(r.cycle, at[w].cycle, calls') /\ Follows(Cycle(w), r.cycle)
    BY <1>1, <1>3 DEF Advances
  <2> QED BY <1>1, <2>1, <2>2, NodeQuiet
<1> QED BY <1>2, <1>3

\* A worker at a node is at a node of its kind of cycle.
LEMMA AtItsNode ==
    ASSUME IInv, NEW w \in Workers, NEW node, At(w, node)
    PROVE  /\ w = "decision" => AtNode(Cycle(w), at[w].cycle, calls, node)
           /\ w = "position" => AtPositionNode(Cycle(w), at[w].cycle, calls, node)
           /\ at[w].cycle # 0
<1>1. at[w].cycle # 0
  BY DEF IInv, AtWork, At
<1> QED BY <1>1, WorkerKnown DEF AtNode, AtPositionNode, Cycle, At, IInv

-----------------------------------------------------------------------------
(* The steps of the decision worker: each keeps the invariant              *)

\* A node without a model.
LEMMA QuietStep ==
    ASSUME IInv, NEW w \in Workers, NEW node \in Thinking, At(w, node),
           NEW d, Sound(d, at[w].cycle, calls), Follows(Cycle(w), d), Quietly(w, d)
    PROVE  IInv'
<1>1. /\ Checkpoint(w, d) /\ orders' = orders /\ todo' = todo /\ phase' = phase
      /\ Sound(d, at[w].cycle, calls') /\ Extends(calls, calls') /\ AnswersProposals(calls')
  BY ExtendsItself DEF Quietly, process, IInv
<1> QED BY <1>1, NodeQuiet

\* validate_trigger keeps the invariant.
LEMMA TriggerStep == ASSUME IInv, Trigger PROVE IInv'
<1>1. At("decision", "validate_trigger") /\ "decision" \in Workers /\ "validate_trigger" \in Thinking
  BY DEF Trigger, Workers, Thinking, Hearing
<1> DEFINE d == ValidateTrigger(Cycle("decision"))
<1>2. Sound(d, at["decision"].cycle, calls) /\ Follows(Cycle("decision"), d)
  BY <1>1, AtItsNode, TriggerAdvances
<1>3. Quietly("decision", d)
  BY DEF Trigger
<1> HIDE DEF d
<1> QED BY <1>1, <1>2, <1>3, QuietStep

\* hydrate_context, with a readable snapshot or without.
LEMMA HydrateStep == ASSUME IInv, NEW readable, Hydrate(readable) PROVE IInv'
<1>1. At("decision", "hydrate_context") /\ "decision" \in Workers /\ "hydrate_context" \in Thinking
  BY DEF Hydrate, Workers, Thinking, Hearing
<1> DEFINE d == HydrateContext(Cycle("decision"), readable)
<1>2. Sound(d, at["decision"].cycle, calls) /\ Follows(Cycle("decision"), d)
  BY <1>1, AtItsNode, HydrateAdvances
<1>3. Quietly("decision", d)
  BY DEF Hydrate
<1> HIDE DEF d
<1> QED BY <1>1, <1>2, <1>3, QuietStep

\* select_debate_candidates.
LEMMA CandidatesStep == ASSUME IInv, SelectCandidates PROVE IInv'
<1>1. At("decision", "select_debate_candidates") /\ "decision" \in Workers /\ "select_debate_candidates" \in Thinking
  BY DEF SelectCandidates, Workers, Thinking, Weighing
<1> DEFINE d == SelectDebateCandidates(Cycle("decision"))
<1>2. Sound(d, at["decision"].cycle, calls) /\ Follows(Cycle("decision"), d)
  BY <1>1, AtItsNode, CandidatesAdvance
<1>3. Quietly("decision", d)
  BY DEF SelectCandidates
<1> HIDE DEF d
<1> QED BY <1>1, <1>2, <1>3, QuietStep

\* strategy_switch_revision.
LEMMA SwitchStep == ASSUME IInv, SwitchStrategy PROVE IInv'
<1>1. At("decision", "strategy_switch_revision") /\ "decision" \in Workers /\ "strategy_switch_revision" \in Thinking
  BY DEF SwitchStrategy, Workers, Thinking, Weighing
<1> DEFINE d == StrategySwitchRevision(Cycle("decision"))
<1>2. Sound(d, at["decision"].cycle, calls) /\ Follows(Cycle("decision"), d)
  BY <1>1, AtItsNode, SwitchAdvances
<1>3. Quietly("decision", d)
  BY DEF SwitchStrategy
<1> HIDE DEF d
<1> QED BY <1>1, <1>2, <1>3, QuietStep

\* validate_execution_proposal.
LEMMA ValidationStep == ASSUME IInv, ValidateProposal PROVE IInv'
<1>1. At("decision", "validate_execution_proposal") /\ "decision" \in Workers /\ "validate_execution_proposal" \in Thinking
  BY DEF ValidateProposal, Workers, Thinking, Entering
<1> DEFINE d == ValidateExecutionProposal(Cycle("decision"), Open # 0, WorkingEntry, at["decision"].cycle \in submitted)
<1>2. Sound(d, at["decision"].cycle, calls) /\ Follows(Cycle("decision"), d)
  BY <1>1, AtItsNode, ValidationAdvances
<1>3. Quietly("decision", d)
  BY DEF ValidateProposal
<1> HIDE DEF d
<1> QED BY <1>1, <1>2, <1>3, QuietStep

\* The swarms.
LEMMA PerceptionStep == ASSUME IInv, Perception PROVE IInv'
<1> DEFINE c == Cycle("decision")
           i == at["decision"].cycle
<1>1. At("decision", "perception") /\ "decision" \in Workers /\ "perception" \in Thinking
  BY DEF Perception, Swarm, Workers, Thinking, Hearing
<1>2. PICK bad, how : Commit("decision", RunPerception(c, i, calls, bad, how))
  BY DEF Perception, Swarm
<1>3. Advances(c, i, calls, RunPerception(c, i, calls, bad, how))
  BY <1>1, AtItsNode, PerceptionAdvances
<1> QED BY <1>1, <1>2, <1>3, NodeCommit

\* The discovery swarm.
LEMMA DiscoveryStep == ASSUME IInv, Discovery PROVE IInv'
<1> DEFINE c == Cycle("decision")
           i == at["decision"].cycle
<1>1. At("decision", "discovery") /\ "decision" \in Workers /\ "discovery" \in Thinking
  BY DEF Discovery, Swarm, Workers, Thinking, Hearing
<1>2. PICK bad, how : Commit("decision", RunDiscovery(c, i, calls, bad, how))
  BY DEF Discovery, Swarm
<1>3. Advances(c, i, calls, RunDiscovery(c, i, calls, bad, how))
  BY <1>1, AtItsNode, DiscoveryAdvances
<1> QED BY <1>1, <1>2, <1>3, NodeCommit

\* The strategy inventors.
LEMMA StrategyStep == ASSUME IInv, Strategy PROVE IInv'
<1> DEFINE c == Cycle("decision")
           i == at["decision"].cycle
<1>1. At("decision", "strategy") /\ "decision" \in Workers /\ "strategy" \in Thinking
  BY DEF Strategy, Swarm, Workers, Thinking, Hearing
<1>2. PICK bad, how : Commit("decision", RunStrategy(c, i, calls, bad, how))
  BY DEF Strategy, Swarm
<1>3. Advances(c, i, calls, RunStrategy(c, i, calls, bad, how))
  BY <1>1, AtItsNode, StrategyAdvances
<1> QED BY <1>1, <1>2, <1>3, NodeCommit

\* The debate panels.
LEMMA DebateStep == ASSUME IInv, Debate PROVE IInv'
<1> DEFINE c == Cycle("decision")
           i == at["decision"].cycle
<1>1. At("decision", "debate") /\ "decision" \in Workers /\ "debate" \in Thinking
  BY DEF Debate, Swarm, Workers, Thinking, Weighing
<1>2. PICK bad, how : Commit("decision", RunDebate(c, i, calls, bad, how))
  BY DEF Debate, Swarm
<1>3. Advances(c, i, calls, RunDebate(c, i, calls, bad, how))
  BY <1>1, AtItsNode, DebateAdvances
<1> QED BY <1>1, <1>2, <1>3, NodeCommit

\* The nodes of one role.
LEMMA WorldModelStep == ASSUME IInv, WorldModel PROVE IInv'
<1> DEFINE c == Cycle("decision")
           i == at["decision"].cycle
<1>1. At("decision", "synthesise_world_model") /\ "decision" \in Workers /\ "synthesise_world_model" \in Thinking
  BY DEF WorldModel, Workers, Thinking, Hearing
<1>2. PICK how, o : Commit("decision", SynthesiseWorldModel(c, i, calls, how, o))
  BY DEF WorldModel
<1>3. Advances(c, i, calls, SynthesiseWorldModel(c, i, calls, how, o))
  BY <1>1, AtItsNode, WorldModelAdvances
<1> QED BY <1>1, <1>2, <1>3, NodeCommit

\* meta_decision.
LEMMA MetaStep == ASSUME IInv, MetaDecision PROVE IInv'
<1> DEFINE c == Cycle("decision")
           i == at["decision"].cycle
<1>1. At("decision", "meta_decision") /\ "decision" \in Workers /\ "meta_decision" \in Thinking
  BY DEF MetaDecision, Workers, Thinking, Weighing
<1>2. PICK how, o : Commit("decision", MetaDecisionNode(c, i, calls, how, o))
  BY DEF MetaDecision
<1>3. Advances(c, i, calls, MetaDecisionNode(c, i, calls, how, o))
  BY <1>1, AtItsNode, MetaAdvances
<1> QED BY <1>1, <1>2, <1>3, NodeCommit

\* entry_tactician.
LEMMA TacticianStep == ASSUME IInv, Tactician PROVE IInv'
<1> DEFINE c == Cycle("decision")
           i == at["decision"].cycle
<1>1. At("decision", "entry_tactician") /\ "decision" \in Workers /\ "entry_tactician" \in Thinking
  BY DEF Tactician, Workers, Thinking, Entering
<1>2. PICK how, o : o \in Proposals /\ Commit("decision", EntryTactician(c, i, calls, how, o))
  BY DEF Tactician
<1>3. Advances(c, i, calls, EntryTactician(c, i, calls, how, o))
  BY <1>1, <1>2, AtItsNode, TacticianAdvances
<1> QED BY <1>1, <1>2, <1>3, NodeCommit

-----------------------------------------------------------------------------
(* Orders                                                                  *)

OrderIdentity == {"id", "cycle", "kind", "side", "qty", "strategy"}

\* The same orders but for what broker and ledger say of their progress.
SameOrders(os, ps) ==
    /\ DOMAIN ps = DOMAIN os /\ IsSeq(ps)
    /\ \A o \in DOMAIN os : DOMAIN os[o] = OrderFields =>
        DOMAIN ps[o] = OrderFields /\ \A g \in OrderIdentity : ps[o][g] = os[o][g]

\* Progress changes nothing of whose an order is.
LEMMA OwnedProgress ==
    ASSUME NEW os, NEW ps, NEW cy, OrdersOwned(os, cy), SameOrders(os, ps)
    PROVE  OrdersOwned(ps, cy)
<1>1. ASSUME NEW o \in DOMAIN os
      PROVE  /\ DOMAIN ps[o] = OrderFields
             /\ ps[o].id = os[o].id /\ ps[o].cycle = os[o].cycle /\ ps[o].kind = os[o].kind
             /\ ps[o].side = os[o].side /\ ps[o].qty = os[o].qty /\ ps[o].strategy = os[o].strategy
  BY DEF OrdersOwned, SameOrders, OrderIdentity
<1>2. ASSUME NEW o \in DOMAIN os PROVE OrderOwned(ps[o], cy)
  <2>1. OrderOwned(os[o], cy)
    BY DEF OrdersOwned
  <2>2. CASE os[o].cycle = 0
    BY <1>1, <2>1, <2>2 DEF OrderOwned
  <2>3. CASE os[o].cycle # 0
    <3>1. os[o].cycle \in DOMAIN cy /\ Backed(os[o], cy[os[o].cycle], os[o].cycle)
      BY <2>1, <2>3 DEF OrderOwned
    <3>2. Backed(ps[o], cy[os[o].cycle], os[o].cycle)
      BY <1>1, <3>1 DEF Backed
    <3> QED BY <1>1, <2>3, <3>1, <3>2 DEF OrderOwned
  <2> QED BY <2>2, <2>3
<1>3. DOMAIN ps = DOMAIN os /\ IsSeq(ps)
  BY DEF SameOrders
<1> QED BY <1>1, <1>2, <1>3 DEF OrdersOwned

\* One order of them, in fields that are not its identity.
LEMMA ProgressOfOne ==
    ASSUME NEW os, NEW o, NEW ord, IsSeq(os),
           o \in DOMAIN os /\ DOMAIN os[o] = OrderFields =>
                DOMAIN ord = OrderFields /\ \A g \in OrderIdentity : ord[g] = os[o][g]
    PROVE  SameOrders(os, [os EXCEPT ![o] = ord])
<1> DEFINE ps == [os EXCEPT ![o] = ord]
<1>1. DOMAIN ps = DOMAIN os /\ \A p \in DOMAIN os : ps[p] = IF p = o THEN ord ELSE os[p]
  OBVIOUS
<1>2. ps = [p \in DOMAIN ps |-> ps[p]]
  OBVIOUS
<1> HIDE DEF ps
<1>3. IsSeq(ps)
  BY <1>1, <1>2, SeqMapped
<1>4. SameOrders(os, ps)
  BY <1>1, <1>3 DEF SameOrders
<1> QED BY <1>4 DEF ps

\* A cancellation, of a working order or of one that is done, is progress.
LEMMA CancelKeeps ==
    ASSUME NEW o, IsSeq(orders), CancelOrder(o)
    PROVE  SameOrders(orders, orders')
<1>1. PICK live, status : orders' = [orders EXCEPT ![o] = [[orders[o] EXCEPT !.live = live] EXCEPT !.status = status]]
  BY DEF CancelOrder
<1> DEFINE once == [orders[o] EXCEPT !["live"] = live]
           ord == [once EXCEPT !["status"] = status]
<1>2. ASSUME DOMAIN orders[o] = OrderFields
      PROVE  DOMAIN ord = OrderFields /\ \A g \in OrderIdentity : ord[g] = orders[o][g]
  <2>1. "live" \in OrderFields /\ "status" \in OrderFields
    BY DEF OrderFields
  <2>2. Alike(orders[o], once, {"live"})
    BY <1>2, <2>1, AlikeSet
  <2> HIDE DEF once
  <2>3. Alike(once, ord, {"status"})
    BY <1>2, <2>1, <2>2, AlikeSet DEF Alike
  <2> HIDE DEF ord
  <2>4. ASSUME NEW g \in OrderIdentity PROVE g \in OrderFields /\ g # "live" /\ g # "status"
    BY DEF OrderIdentity, OrderFields
  <2> QED BY <1>2, <2>2, <2>3, <2>4 DEF Alike
<1>3. orders' = [orders EXCEPT ![o] = ord]
  BY <1>1
<1> HIDE DEF ord, once
<1> QED BY <1>2, <1>3, ProgressOfOne

\* What the broker does with an order.
LEMMA FillKeeps ==
    ASSUME NEW o, IsSeq(orders), BrokerFills(o)
    PROVE  SameOrders(orders, orders')
<1> DEFINE once == [orders[o] EXCEPT !["live"] = "filled"]
           twice == [once EXCEPT !["status"] = "filled"]
           ord == [twice EXCEPT !["filled"] = orders[o].qty]
<1>1. ASSUME DOMAIN orders[o] = OrderFields
      PROVE  DOMAIN ord = OrderFields /\ \A g \in OrderIdentity : ord[g] = orders[o][g]
  <2>1. "live" \in OrderFields /\ "status" \in OrderFields /\ "filled" \in OrderFields
    BY DEF OrderFields
  <2>2. Alike(orders[o], once, {"live"})
    BY <1>1, <2>1, AlikeSet
  <2> HIDE DEF once
  <2>3. Alike(once, twice, {"status"})
    BY <1>1, <2>1, <2>2, AlikeSet DEF Alike
  <2> HIDE DEF twice
  <2>4. Alike(twice, ord, {"filled"})
    BY <1>1, <2>1, <2>2, <2>3, AlikeSet DEF Alike
  <2> HIDE DEF ord
  <2>5. ASSUME NEW g \in OrderIdentity PROVE g \in OrderFields /\ g # "live" /\ g # "status" /\ g # "filled"
    BY DEF OrderIdentity, OrderFields
  <2> QED BY <1>1, <2>2, <2>3, <2>4, <2>5 DEF Alike
<1>2. orders' = [orders EXCEPT ![o] = ord]
  BY DEF BrokerFills
<1> HIDE DEF ord, twice, once
<1> QED BY <1>1, <1>2, ProgressOfOne

\* So is the end of an order at the broker without a fill.
LEMMA DropKeeps ==
    ASSUME NEW o, IsSeq(orders), BrokerDrops(o)
    PROVE  SameOrders(orders, orders')
<1>1. PICK status : orders' = [orders EXCEPT ![o] = [[orders[o] EXCEPT !.live = "cancelled"] EXCEPT !.status = status]]
  BY DEF BrokerDrops
<1> DEFINE once == [orders[o] EXCEPT !["live"] = "cancelled"]
           ord == [once EXCEPT !["status"] = status]
<1>2. ASSUME DOMAIN orders[o] = OrderFields
      PROVE  DOMAIN ord = OrderFields /\ \A g \in OrderIdentity : ord[g] = orders[o][g]
  <2>1. "live" \in OrderFields /\ "status" \in OrderFields
    BY DEF OrderFields
  <2>2. Alike(orders[o], once, {"live"})
    BY <1>2, <2>1, AlikeSet
  <2> HIDE DEF once
  <2>3. Alike(once, ord, {"status"})
    BY <1>2, <2>1, <2>2, AlikeSet DEF Alike
  <2> HIDE DEF ord
  <2>4. ASSUME NEW g \in OrderIdentity PROVE g \in OrderFields /\ g # "live" /\ g # "status"
    BY DEF OrderIdentity, OrderFields
  <2> QED BY <1>2, <2>2, <2>3, <2>4 DEF Alike
<1>3. orders' = [orders EXCEPT ![o] = ord]
  BY <1>1
<1> HIDE DEF ord, once
<1> QED BY <1>2, <1>3, ProgressOfOne

\* Only the progress of orders changes.
LEMMA ProgressStep ==
    ASSUME IInv, SameOrders(orders, orders'), cycles' = cycles, calls' = calls, at' = at,
           todo' = todo, phase' = phase
    PROVE  IInv'
<1>1. OrdersOwned(orders', cycles')
  BY OwnedProgress DEF IInv
<1> QED BY <1>1 DEF IInv

\* The market keeps the invariant.
LEMMA MarketStep == ASSUME IInv, Market PROVE IInv'
<1>1. IsSeq(orders)
  BY DEF IInv, OrdersOwned
<1>2. ASSUME NEW o, BrokerFills(o) PROVE IInv'
  <2>1. UNCHANGED <<cycles, calls, at, todo, phase>>
    BY <1>2 DEF BrokerFills, stores, process
  <2> QED BY <1>1, <1>2, <2>1, FillKeeps, ProgressStep
<1>3. ASSUME NEW o, BrokerDrops(o) PROVE IInv'
  <2>1. UNCHANGED <<cycles, calls, at, todo, phase>>
    BY <1>3 DEF BrokerDrops, stores, process
  <2> QED BY <1>1, <1>3, <2>1, DropKeeps, ProgressStep
<1> QED BY <1>2, <1>3 DEF Market

-----------------------------------------------------------------------------
(* The steps about an order                                                *)

\* A cycle goes on with its worker at the next node.
LEMMA Continues ==
    ASSUME IInv, NEW w \in Workers, at[w].cycle # 0,
           NEW d, cycles' = [cycles EXCEPT ![at[w].cycle] = d],
           Sound(d, at[w].cycle, calls), Follows(cycles[at[w].cycle], d),
           SameOrders(orders, orders'),
           \A o \in DOMAIN orders : orders[o].cycle = at[w].cycle => Backed(orders[o], d, at[w].cycle),
           calls' = calls, todo' = todo, phase' = phase,
           \/ at' = at /\ at[w].step = "node"
           \/ at' = [at EXCEPT ![w] = Running(at[w].cycle)]
    PROVE  IInv'
<1> DEFINE i == at[w].cycle
<1>1. i \in DOMAIN cycles /\ i \notin todo /\ cycles[i].kind = w /\ cycles[i].status = "running"
  BY WorkerKnown
<1>2. DOMAIN cycles' = DOMAIN cycles /\ cycles'[i] = d
  BY <1>1, SeqSet DEF IInv, CyclesSound
<1>3. OrdersOwned(orders', cycles')
  <2>1. OrdersOwned(orders, cycles')
    BY <1>1, OwnedAfter DEF IInv
  <2> QED BY <2>1, OwnedProgress
<1>4. /\ DOMAIN at' = Workers /\ \A v \in Workers : v # w => at'[v] = at[v]
      /\ AtWork(w, at'[w], cycles', todo)
  <2>1. CASE at' = at /\ at[w].step = "node"
    BY <2>1, NodeAtWork DEF IInv
  <2>2. CASE at' = [at EXCEPT ![w] = Running(i)]
    <3>1. DOMAIN at' = Workers /\ at'[w] = Running(i) /\ \A v \in Workers : v # w => at'[v] = at[v]
      BY <2>2, WorkerSet
    <3>2. AtWork(w, Running(i), cycles', todo)
      BY <1>1, <1>2 DEF AtWork, Running, Follows, WorkerFields, RequestFields, NoRequest, Ordering
    <3> QED BY <3>1, <3>2
  <2> QED BY <2>1, <2>2
<1>5. d.kind = w /\ Extends(calls, calls') /\ AnswersProposals(calls')
  BY <1>1, ExtendsItself DEF Follows, IInv
<1> QED BY <1>3, <1>4, <1>5, CycleChange

\* No progress at all.
LEMMA SameItself == ASSUME NEW os, IsSeq(os) PROVE SameOrders(os, os)
BY DEF SameOrders

\* An error that blocks the cycle ends it and keeps it running in the registry.
LEMMA BlockedBacks ==
    ASSUME NEW ord, NEW c, NEW d, NEW i, Backed(ord, c, i), c.status = "running",
           d.kind = c.kind, d.usable = c.usable, d.status = c.status,
           c.kind = "decision" => d.meta = c.meta /\ d.proposal = c.proposal,
           d.node \in Ending, d.errors \cap BlockingCodes # {}
    PROVE  Backed(ord, d, i)
BY DEF Backed

\* The persist nodes: an order in the checkpoint or an error that blocks stays.
LEMMA PersistStep == ASSUME IInv, PersistCycle PROVE IInv'
<1> DEFINE c == Cycle("decision")
           i == at["decision"].cycle
           d == Persist(c)
<1>1. at["decision"].step = "node" /\ "decision" \in Workers /\ At("decision", c.node) /\ c.node \in PersistNodes
  BY DEF PersistCycle, Workers, At, Cycle
<1>2. AtNode(c, i, calls, c.node) /\ i # 0
  BY <1>1, AtItsNode
<1>3. Reasoned(c) /\ DOMAIN c = DecisionFields
  BY <1>2, AtNodeFields
<1>4. Alike(c, d, {"node"}) /\ d.node = "end"
  BY <1>3, GoOn DEF Persist
<1>5. cycles' = [cycles EXCEPT ![i] = d] /\ UNCHANGED <<at, calls, orders, todo, phase>>
  BY DEF PersistCycle, Quietly, Checkpoint, process
<1> HIDE DEF d
<1>6. /\ d.kind = c.kind /\ d.usable = c.usable /\ d.meta = c.meta /\ d.proposal = c.proposal
      /\ d.command = c.command /\ d.errors = c.errors /\ d.status = c.status
  BY <1>3, <1>4, AlikeDecision
<1>7. Sound(d, i, calls) /\ Follows(c, d)
  <2>1. Alike(c, d, {"errors", "node"}) /\ d.node \in Ending
    BY <1>4 DEF Alike, Ending
  <2> QED BY <1>2, <2>1, EnteringSound DEF AtNode
<1>8. ASSUME NEW o \in DOMAIN orders, orders[o].cycle = i PROVE Backed(orders[o], d, i)
  <2>1. Backed(orders[o], c, i)
    BY <1>2, <1>8 DEF IInv, OrdersOwned, OrderOwned, Cycle
  <2>2. c.node \in Ending /\ ~Submitting(c) /\ d.node \in Ending
    BY <1>1, <1>2, <1>4 DEF Ending, PersistNodes, Submitting, AtNode
  <2> QED BY <1>6, <2>1, <2>2 DEF Backed
<1>9. SameOrders(orders, orders')
  BY <1>5, SameItself DEF IInv, OrdersOwned
<1> QED BY <1>1, <1>2, <1>5, <1>7, <1>8, <1>9, Continues DEF Cycle

\* A worker's step and its request are set, or its step alone.
Stepped(a, b, step, req) ==
    /\ DOMAIN b = WorkerFields /\ b.step = step /\ b.req = req
    /\ b.cycle = a.cycle /\ b.usable = a.usable

\* What SubmitEntry and RouteOrder set.
LEMMA SteppedTo ==
    ASSUME IInv, NEW w \in Workers, NEW step, NEW req,
           at' = [at EXCEPT ![w] = [@ EXCEPT !.step = step, !.req = req]]
    PROVE  Stepped(at[w], at'[w], step, req) /\ DOMAIN at' = Workers /\ \A v \in Workers : v # w => at'[v] = at[v]
<1> DEFINE once == [at[w] EXCEPT !["step"] = step]
           a == [once EXCEPT !["req"] = req]
<1>1. DOMAIN at[w] = WorkerFields /\ {"step", "req", "cycle", "usable"} \subseteq WorkerFields
  BY DEF IInv, AtWork, WorkerFields
<1>2. /\ DOMAIN once = WorkerFields /\ once["step"] = step
      /\ once["cycle"] = at[w]["cycle"] /\ once["usable"] = at[w]["usable"]
  BY <1>1, FieldSet
<1>3. at' = [at EXCEPT ![w] = a]
  OBVIOUS
<1> HIDE DEF once
<1>4. /\ DOMAIN a = WorkerFields /\ a["req"] = req /\ a["step"] = once["step"]
      /\ a["cycle"] = once["cycle"] /\ a["usable"] = once["usable"]
  BY <1>1, <1>2, FieldSet
<1> HIDE DEF a
<1>5. DOMAIN at' = Workers /\ at'[w] = a /\ \A v \in Workers : v # w => at'[v] = at[v]
  BY <1>3, WorkerSet
<1> QED BY <1>2, <1>4, <1>5 DEF Stepped

\* What the gateway and the runtime set.
LEMMA StepSet ==
    ASSUME IInv, NEW w \in Workers, NEW step, at' = [at EXCEPT ![w].step = step]
    PROVE  Stepped(at[w], at'[w], step, at[w].req) /\ DOMAIN at' = Workers /\ \A v \in Workers : v # w => at'[v] = at[v]
<1> DEFINE a == [at[w] EXCEPT !["step"] = step]
<1>1. DOMAIN at[w] = WorkerFields /\ {"step", "req", "cycle", "usable"} \subseteq WorkerFields
  BY DEF IInv, AtWork, WorkerFields
<1>2. /\ DOMAIN a = WorkerFields /\ a["step"] = step /\ a["req"] = at[w]["req"]
      /\ a["cycle"] = at[w]["cycle"] /\ a["usable"] = at[w]["usable"]
  BY <1>1, FieldSet
<1>3. at' = [at EXCEPT ![w] = a]
  OBVIOUS
<1> HIDE DEF a
<1>4. DOMAIN at' = Workers /\ at'[w] = a /\ \A v \in Workers : v # w => at'[v] = at[v]
  BY <1>3, WorkerSet
<1> QED BY <1>2, <1>4 DEF Stepped

\* A worker goes on with a request, and nothing else changes.
LEMMA RequestGoesOn ==
    ASSUME IInv, NEW w \in Workers, NEW step \in Ordering, NEW req,
           Stepped(at[w], at'[w], step, req), DOMAIN at' = Workers, \A v \in Workers : v # w => at'[v] = at[v],
           at[w].step # "idle", DOMAIN req = RequestFields, Requested(w, at'[w], cycles),
           step = "cancel" => req.kind = "replace",
           step \in {"send", "record"} /\ req.kind = "entry" => at[w].usable /\ req.side = "buy",
           cycles' = cycles, calls' = calls, OrdersOwned(orders', cycles), todo' = todo, phase' = phase
    PROVE  IInv'
<1>1. AtWork(w, at'[w], cycles, todo)
  <2>1. AtWork(w, at[w], cycles, todo)
    BY DEF IInv
  <2>2. step \notin {"idle", "node", "manage"}
    BY DEF Ordering
  <2> QED BY <2>1, <2>2 DEF AtWork, Stepped
<1>2. phase # "down"
  BY DEF IInv, Free
<1>3. Extends(calls, calls') /\ AnswersProposals(calls')
  BY ExtendsItself DEF IInv
<1> QED BY <1>1, <1>2, <1>3, WorkerChange

\* submit_execution_command: a cycle that has nothing to submit has no order; one
\* that fails its second validation ends with an error that blocks it.
LEMMA SubmitStep == ASSUME IInv, SubmitEntry PROVE IInv'
<1> DEFINE c == Cycle("decision")
           i == at["decision"].cycle
<1>1. /\ at["decision"].step = "node" /\ "decision" \in Workers /\ At("decision", "submit_execution_command")
      /\ UNCHANGED <<calls, orders, todo, phase>>
  BY DEF SubmitEntry, Workers, At, process
<1>2. AtNode(c, i, calls, "submit_execution_command") /\ i # 0
  BY <1>1, AtItsNode
<1>3. Reasoned(c) /\ DOMAIN c = DecisionFields /\ c.node = "submit_execution_command" /\ c.kind = "decision"
  BY <1>2, AtNodeFields DEF AtNode
<1>4. i \in DOMAIN cycles /\ c.status = "running" /\ c = cycles[i] /\ at["decision"].usable = c.usable
  BY <1>1, <1>2, WorkerKnown DEF Cycle
<1>5. SameOrders(orders, orders')
  BY <1>1, SameItself DEF IInv, OrdersOwned
<1>6. ASSUME NEW o \in DOMAIN orders, orders[o].cycle = i PROVE Backed(orders[o], c, i)
  BY <1>2, <1>4, <1>6 DEF IInv, OrdersOwned, OrderOwned
<1>7. c.node \notin Ending
  BY <1>3 DEF Ending, PersistNodes
<1>8. CASE c.proposal = NoProposal \/ c.command # NoCommand
  <2> DEFINE d == GoTo(c, "persist_cycle")
  <2>1. Alike(c, d, {"node"}) /\ d.node = "persist_cycle"
    BY <1>3, GoOn
  <2>2. Checkpoint("decision", d)
    BY <1>8 DEF SubmitEntry
  <2> HIDE DEF d
  <2>3. Sound(d, i, calls) /\ Follows(c, d)
    <3>1. Alike(c, d, {"errors", "node"}) /\ d.node \in Ending
      BY <2>1 DEF Alike, Ending, PersistNodes
    <3> QED BY <1>2, <3>1, EnteringSound DEF AtNode
  <2>4. \A o \in DOMAIN orders : orders[o].cycle # i
    BY <1>6, <1>7, <1>8, <1>3 DEF Backed, Submitting
  <2> QED BY <1>1, <1>2, <1>4, <1>5, <2>2, <2>3, <2>4, Continues DEF Checkpoint
<1>9. CASE ~(c.proposal = NoProposal \/ c.command # NoCommand) /\ ~ValidProposal(c, Open # 0, WorkingEntry, i \in submitted)
  <2> DEFINE d == GoTo(Error(c, "submit_validation_failed"), "persist_cycle")
  <2>1. /\ Alike(c, d, {"errors", "node"}) /\ d.node = "persist_cycle"
        /\ d.errors = c.errors \cup {"submit_validation_failed"}
    BY <1>3, ErrorAndGo
  <2>2. Checkpoint("decision", d)
    BY <1>9 DEF SubmitEntry
  <2> HIDE DEF d
  <2>3. d.node \in Ending /\ d.errors \cap BlockingCodes # {}
    BY <2>1 DEF Ending, PersistNodes, BlockingCodes
  <2>4. Sound(d, i, calls) /\ Follows(c, d) /\ d.proposal = c.proposal /\ d.meta = c.meta
    BY <1>2, <2>1, <2>3, EnteringSound DEF AtNode
  <2>5. ASSUME NEW o \in DOMAIN orders, orders[o].cycle = i PROVE Backed(orders[o], d, i)
    BY <1>4, <1>6, <2>3, <2>4, <2>5, BlockedBacks DEF Follows
  <2> QED BY <1>1, <1>2, <1>4, <1>5, <2>2, <2>4, <2>5, Continues DEF Checkpoint
<1>10. CASE ~(c.proposal = NoProposal \/ c.command # NoCommand) /\ ValidProposal(c, Open # 0, WorkingEntry, i \in submitted)
  <2> DEFINE req == [kind |-> "entry", side |-> c.proposal.side, qty |-> c.proposal.qty,
                     id |-> CommandId(i, Len(orders)), strategy |-> c.proposal.strategy, replaces |-> 0]
  <2>1. at' = [at EXCEPT !["decision"] = [@ EXCEPT !.step = "gateway", !.req = req]] /\ cycles' = cycles
    BY <1>10 DEF SubmitEntry
  <2>2. /\ DOMAIN req = RequestFields /\ req.kind = "entry" /\ req.qty = c.proposal.qty
        /\ req.id = OwnId("decision", i) /\ req.strategy = c.proposal.strategy
    BY DEF RequestFields, OwnId, CommandId
  <2> HIDE DEF req
  <2>3. /\ Stepped(at["decision"], at'["decision"], "gateway", req)
        /\ DOMAIN at' = Workers /\ \A v \in Workers : v # "decision" => at'[v] = at[v]
    BY <1>1, <2>1, SteppedTo
  <2>4. Submitting(c)
    BY <1>3, <1>10 DEF Submitting
  <2>5. Requested("decision", at'["decision"], cycles)
    BY <1>2, <1>4, <2>2, <2>3, <2>4 DEF Requested, Stepped
  <2>6. OrdersOwned(orders', cycles)
    BY <1>1 DEF IInv
  <2>7. "gateway" \in Ordering
    BY DEF Ordering
  <2> QED BY <1>1, <2>1, <2>2, <2>3, <2>5, <2>6, <2>7, RequestGoesOn
<1> QED BY <1>8, <1>9, <1>10

-----------------------------------------------------------------------------
(* The steps of the position worker: each keeps the invariant              *)

\* hydrate_position_truth keeps the invariant.
LEMMA TruthStep == ASSUME IInv, HydratePosition PROVE IInv'
<1>1. At("position", "hydrate_position_truth") /\ "position" \in Workers /\ "hydrate_position_truth" \in Thinking
  BY DEF HydratePosition, Workers, Thinking, Watching
<1> DEFINE d == HydratePositionTruth(Cycle("position"), Open, FirstWorking)
<1>2. Sound(d, at["position"].cycle, calls) /\ Follows(Cycle("position"), d)
  BY <1>1, AtItsNode, TruthAdvances
<1>3. Quietly("position", d)
  BY DEF HydratePosition
<1> HIDE DEF d
<1> QED BY <1>1, <1>2, <1>3, QuietStep

\* load_original_strategy.
LEMMA LoadedStep == ASSUME IInv, LoadStrategy PROVE IInv'
<1>1. At("position", "load_original_strategy") /\ "position" \in Workers /\ "load_original_strategy" \in Thinking
  BY DEF LoadStrategy, Workers, Thinking, Watching
<1> DEFINE d == LoadOriginalStrategy(Cycle("position"))
<1>2. Sound(d, at["position"].cycle, calls) /\ Follows(Cycle("position"), d)
  BY <1>1, AtItsNode, LoadedAdvances
<1>3. Quietly("position", d)
  BY DEF LoadStrategy
<1> HIDE DEF d
<1> QED BY <1>1, <1>2, <1>3, QuietStep

\* load_prior_thesis.
LEMMA PriorStep == ASSUME IInv, LoadThesis PROVE IInv'
<1>1. At("position", "load_prior_thesis") /\ "position" \in Workers /\ "load_prior_thesis" \in Thinking
  BY DEF LoadThesis, Workers, Thinking, Watching
<1> DEFINE d == LoadPriorThesis(Cycle("position"), theses)
<1>2. Sound(d, at["position"].cycle, calls) /\ Follows(Cycle("position"), d)
  BY <1>1, AtItsNode, PriorAdvances
<1>3. Quietly("position", d)
  BY DEF LoadThesis
<1> HIDE DEF d
<1> QED BY <1>1, <1>2, <1>3, QuietStep

\* position_thesis_agent.
LEMMA ThesisStep == ASSUME IInv, Thesis PROVE IInv'
<1> DEFINE c == Cycle("position")
           i == at["position"].cycle
<1>1. At("position", "position_thesis_agent") /\ "position" \in Workers /\ "position_thesis_agent" \in Thinking
  BY DEF Thesis, Workers, Thinking, Watching
<1>2. PICK how : Commit("position", PositionThesisAgent(c, i, calls, how, theses))
  BY DEF Thesis
<1>3. Advances(c, i, calls, PositionThesisAgent(c, i, calls, how, theses))
  BY <1>1, AtItsNode, ThesisAdvances
<1> QED BY <1>1, <1>2, <1>3, NodeCommit

\* position_execution_critic.
LEMMA CriticStep == ASSUME IInv, Critic PROVE IInv'
<1> DEFINE c == Cycle("position")
           i == at["position"].cycle
<1>1. At("position", "position_execution_critic") /\ "position" \in Workers /\ "position_execution_critic" \in Thinking
  BY DEF Critic, Workers, Thinking, Watching
<1>2. PICK how : Commit("position", PositionExecutionCritic(c, i, calls, how))
  BY DEF Critic
<1>3. Advances(c, i, calls, PositionExecutionCritic(c, i, calls, how))
  BY <1>1, AtItsNode, CriticAdvances
<1> QED BY <1>1, <1>2, <1>3, NodeCommit

\* position_decision_agent.
LEMMA DecideStep == ASSUME IInv, Decide PROVE IInv'
<1> DEFINE c == Cycle("position")
           i == at["position"].cycle
<1>1. At("position", "position_decision_agent") /\ "position" \in Workers /\ "position_decision_agent" \in Thinking
  BY DEF Decide, Workers, Thinking, Watching
<1>2. PICK how, o : Commit("position", PositionDecisionAgent(c, i, calls, how, o))
  BY DEF Decide
<1>3. Advances(c, i, calls, PositionDecisionAgent(c, i, calls, how, o))
  BY <1>1, AtItsNode, DecisionAdvances
<1> QED BY <1>1, <1>2, <1>3, NodeCommit

\* The position cycle at its last node.
LEMMA AtRoute ==
    ASSUME IInv, At("position", "route_position_action")
    PROVE  LET c == Cycle("position")
               i == at["position"].cycle
           IN  /\ i # 0 /\ i \in DOMAIN cycles /\ c = cycles[i] /\ c.status = "running"
               /\ Sound(c, i, calls) /\ Watched(c) /\ c.kind = "position" /\ DOMAIN c = PositionFields
               /\ c.node = "route_position_action" /\ c.node \notin Ending /\ c.command = NoCommand
               /\ at["position"].step = "node" /\ "position" \in Workers
<1>1. "position" \in Workers
  BY DEF Workers
<1> DEFINE c == Cycle("position")
           i == at["position"].cycle
<1>2. AtPositionNode(c, i, calls, "route_position_action") /\ i # 0
  BY <1>1, AtItsNode
<1>3. Watched(c) /\ DOMAIN c = PositionFields
  BY <1>2, AtPositionFields
<1>4. i \in DOMAIN cycles /\ c.status = "running"
  BY <1>1, <1>2, WorkerKnown DEF Cycle
<1>5. c.node = "route_position_action" /\ c.node \notin Ending
  BY <1>2 DEF AtPositionNode, Ending, PersistNodes
<1>6. c.command = NoCommand
  BY <1>3, <1>5 DEF Watched
<1> QED BY <1>1, <1>2, <1>3, <1>4, <1>5, <1>6 DEF AtPositionNode, At, Cycle

\* route_position_action hands the request of its cycle to the gateway.
LEMMA RouteOrderStep == ASSUME IInv, RouteOrder PROVE IInv'
<1> DEFINE c == Cycle("position")
           i == at["position"].cycle
           req == PositionRequest(c, i)
<1>1. /\ At("position", "route_position_action") /\ c.decision.action \in OrderActions
      /\ UNCHANGED <<cycles, calls, orders, todo, phase>>
      /\ at' = [at EXCEPT !["position"] = [@ EXCEPT !.step = "gateway", !.req = req]]
  BY DEF RouteOrder, process
<1>2. /\ i # 0 /\ c = cycles[i] /\ c.kind = "position" /\ c.node = "route_position_action"
      /\ c.command = NoCommand /\ at["position"].step = "node" /\ "position" \in Workers
  BY <1>1, AtRoute
<1>3. DOMAIN req = RequestFields /\ req.kind # "entry" /\ req.id = OwnId("position", i)
  BY DEF PositionRequest, RequestFields, RequestKind, OwnId
<1> HIDE DEF req
<1>4. /\ Stepped(at["position"], at'["position"], "gateway", req)
      /\ DOMAIN at' = Workers /\ \A v \in Workers : v # "position" => at'[v] = at[v]
  BY <1>1, <1>2, SteppedTo
<1>5. Submitting(c)
  BY <1>1, <1>2 DEF Submitting
<1>6. Requested("position", at'["position"], cycles)
  BY <1>2, <1>3, <1>4, <1>5 DEF Requested, Stepped
<1>7. OrdersOwned(orders', cycles) /\ "gateway" \in Ordering
  BY <1>1 DEF IInv, Ordering
<1> QED BY <1>1, <1>2, <1>3, <1>4, <1>6, <1>7, RequestGoesOn

\* A hold, or a cancellation: the cycle has sent no order and ends.
LEMMA RouteNoOrderStep == ASSUME IInv, RouteWithoutOrder PROVE IInv'
<1> DEFINE c == Cycle("position")
           i == at["position"].cycle
<1>1. /\ At("position", "route_position_action") /\ c.decision.action \in {"hold", "cancel_working_order"}
      /\ UNCHANGED <<calls, todo, phase>>
  BY DEF RouteWithoutOrder, process
<1>2. /\ i # 0 /\ i \in DOMAIN cycles /\ c = cycles[i] /\ c.kind = "position" /\ c.node \notin Ending
      /\ at["position"].step = "node" /\ "position" \in Workers /\ DOMAIN c = PositionFields /\ Sound(c, i, calls)
  BY <1>1, AtRoute
<1>3. IsSeq(orders)
  BY DEF IInv, OrdersOwned
<1>4. ASSUME NEW o \in DOMAIN orders PROVE orders[o].cycle # i
  <2>1. ~Submitting(c)
    BY <1>1, <1>2 DEF Submitting, OrderActions
  <2> QED BY <1>2, <2>1, NotYetOrdered
<1>5. ASSUME NEW d, Checkpoint("position", d), Alike(c, d, {"command", "errors", "node"}), d.node = "end",
             SameOrders(orders, orders')
      PROVE  IInv'
  <2>1. Sound(d, i, calls) /\ Follows(c, d)
    BY <1>2, <1>5, EndSound
  <2> QED BY <1>1, <1>2, <1>4, <1>5, <2>1, Continues DEF Checkpoint
<1>6. "node" \in DOMAIN c /\ "command" \in DOMAIN c
  BY <1>2 DEF PositionFields
<1>7. ASSUME Checkpoint("position", GoTo(c, "end")), orders' = orders PROVE IInv'
  <2>1. Alike(c, GoTo(c, "end"), {} \cup {"node"}) /\ GoTo(c, "end").node = "end"
    BY <1>6, AlikeItself, AlikeGoTo
  <2>2. Alike(c, GoTo(c, "end"), {"command", "errors", "node"})
    BY <2>1 DEF Alike
  <2>3. SameOrders(orders, orders')
    BY <1>3, <1>7, SameItself
  <2> QED BY <1>5, <1>7, <2>1, <2>2, <2>3
<1>8. ASSUME CancelOrder(c.order),
             Checkpoint("position", GoTo([c EXCEPT !.command = <<"cancel", c.order, 0>>], "end"))
      PROVE  IInv'
  <2> DEFINE x == [c EXCEPT !["command"] = <<"cancel", c.order, 0>>]
  <2>1. Alike(c, x, {"command"}) /\ Checkpoint("position", GoTo(x, "end"))
    BY <1>6, <1>8, AlikeSet
  <2> HIDE DEF x
  <2>2. Alike(c, GoTo(x, "end"), {"command"} \cup {"node"}) /\ GoTo(x, "end").node = "end"
    BY <1>6, <2>1, AlikeGoTo
  <2>3. Alike(c, GoTo(x, "end"), {"command", "errors", "node"})
    BY <2>2 DEF Alike
  <2>4. SameOrders(orders, orders')
    BY <1>3, <1>8, CancelKeeps
  <2> QED BY <1>5, <2>1, <2>2, <2>3, <2>4
<1>9. ASSUME Leave("position"), cycles' = cycles, orders' = orders PROVE IInv'
  BY <1>1, <1>2, <1>9, ExtendsItself, Leaving DEF IInv
<1>10. \/ CancelOrder(c.order) /\ Checkpoint("position", GoTo([c EXCEPT !.command = <<"cancel", c.order, 0>>], "end"))
       \/ Leave("position") /\ cycles' = cycles /\ orders' = orders
       \/ Checkpoint("position", GoTo(c, "end")) /\ orders' = orders
  BY DEF RouteWithoutOrder
<1> QED BY <1>7, <1>8, <1>9, <1>10

\* An ended cycle holds what it held.
LEMMA EndedReasoned ==
    ASSUME NEW c, NEW d, Reasoned(c), d.node \in Ending, DOMAIN d = DecisionFields, d.kind = c.kind,
           d.strategies = c.strategies, d.meta = c.meta, d.proposal = c.proposal
    PROVE  Reasoned(d)
<1>1. d.node \notin Hearing \cup Weighing \cup {"entry_tactician"} \cup Entering
  BY DEF Hearing, Weighing, Entering, Ending, PersistNodes
<1> QED BY <1>1 DEF Reasoned

\* A cycle that has submitted, or been refused to, ends.
LEMMA Concluded ==
    ASSUME NEW c, NEW d, NEW i, NEW cs, Sound(c, i, cs),
           Alike(c, d, {"command", "errors", "node"}),
           d.node = IF c.kind = "decision" THEN "persist_cycle" ELSE "end"
    PROVE  /\ Sound(d, i, cs) /\ Follows(c, d) /\ d.node \in Ending
           /\ c.kind = "decision" => d.meta = c.meta /\ d.proposal = c.proposal
<1>1. CASE c.kind = "decision"
  <2>1. Reasoned(c)
    BY <1>1 DEF Sound, Watched
  <2>2. DOMAIN c = DecisionFields
    BY <2>1 DEF Reasoned
  <2>3. /\ DOMAIN d = DecisionFields /\ d.kind = c.kind /\ d.usable = c.usable /\ d.strategies = c.strategies
        /\ d.meta = c.meta /\ d.proposal = c.proposal /\ d.status = c.status
    BY <2>2, AlikeDecision
  <2>4. d.node \in Ending
    BY <1>1 DEF Ending, PersistNodes
  <2>5. Reasoned(d)
    BY <2>1, <2>3, <2>4, EndedReasoned
  <2>6. Answered(d, i, cs)
    BY <1>1, <2>3 DEF Sound, Answered
  <2> QED BY <2>3, <2>4, <2>5, <2>6 DEF Sound, Follows
<1>2. CASE c.kind # "decision"
  <2>1. c.kind = "position" /\ d.node = "end"
    BY <1>2 DEF Sound, Reasoned, Watched
  <2> QED BY <1>2, <2>1, EndSound DEF Ending
<1> QED BY <1>1, <1>2

\* The cycle of a request.
LEMMA RequestKnown ==
    ASSUME IInv, NEW w \in Workers, at[w].step \in Ordering
    PROVE  /\ Requested(w, at[w], cycles) /\ at[w].step # "idle" /\ DOMAIN at[w].req = RequestFields
           /\ at[w].cycle # 0 =>
                LET c == cycles[at[w].cycle] IN
                /\ Submitting(c) /\ at[w].req.id = OwnId(c.kind, at[w].cycle)
                /\ "errors" \in DOMAIN c /\ "node" \in DOMAIN c /\ "command" \in DOMAIN c
<1>1. AtWork(w, at[w], cycles, todo)
  BY DEF IInv
<1>2. Requested(w, at[w], cycles) /\ at[w].step # "idle" /\ DOMAIN at[w].req = RequestFields
  BY <1>1 DEF AtWork, Ordering
<1>3. ASSUME at[w].cycle # 0
      PROVE  LET c == cycles[at[w].cycle] IN "errors" \in DOMAIN c /\ "node" \in DOMAIN c /\ "command" \in DOMAIN c
  <2>1. Sound(cycles[at[w].cycle], at[w].cycle, calls)
    BY <1>3, WorkerKnown
  <2>2. DOMAIN cycles[at[w].cycle] \in {DecisionFields, PositionFields}
    BY <2>1 DEF Sound, Reasoned, Watched
  <2> QED BY <2>2 DEF DecisionFields, PositionFields
<1>4. at[w].cycle # 0 => Submitting(cycles[at[w].cycle]) /\ at[w].req.id = OwnId(cycles[at[w].cycle].kind, at[w].cycle)
  BY <1>2, WorkerKnown DEF Requested
<1> QED BY <1>2, <1>3, <1>4

\* The cycle of a request ends, and its worker goes on with it.
LEMMA ConcludedStep ==
    ASSUME IInv, NEW w \in Workers, at[w].step \in Ordering, at[w].cycle # 0,
           NEW d, cycles' = [cycles EXCEPT ![at[w].cycle] = d],
           Alike(cycles[at[w].cycle], d, {"command", "errors", "node"}),
           d.node = IF w = "decision" THEN "persist_cycle" ELSE "end",
           d.errors \cap BlockingCodes # {} \/ d.command = at[w].req.id,
           at' = [at EXCEPT ![w] = Running(at[w].cycle)],
           calls' = calls, orders' = orders, todo' = todo, phase' = phase
    PROVE  IInv'
<1> DEFINE i == at[w].cycle
           c == cycles[i]
<1>1. /\ i \in DOMAIN cycles /\ c.kind = w /\ c.status = "running" /\ Sound(c, i, calls)
  BY WorkerKnown
<1>2. /\ Sound(d, i, calls) /\ Follows(c, d) /\ d.node \in Ending
      /\ c.kind = "decision" => d.meta = c.meta /\ d.proposal = c.proposal
  BY <1>1, Concluded
<1>3. i # 0 /\ at[w].req.id = OwnId(c.kind, i)
  BY RequestKnown
<1>4. ASSUME NEW o \in DOMAIN orders, orders[o].cycle = i PROVE Backed(orders[o], d, i)
  <2>1. Backed(orders[o], c, i)
    BY <1>3, <1>4 DEF IInv, OrdersOwned, OrderOwned
  <2>2. CASE d.errors \cap BlockingCodes # {}
    BY <1>1, <1>2, <2>1, <2>2, BlockedBacks DEF Follows
  <2>3. CASE d.command = at[w].req.id
    BY <1>1, <1>2, <1>3, <2>1, <2>3 DEF Backed, Follows
  <2> QED BY <2>2, <2>3
<1>5. SameOrders(orders, orders')
  BY SameItself DEF IInv, OrdersOwned
<1> QED BY <1>2, <1>3, <1>4, <1>5, Continues

\* A worker is freed, and an order may have changed.
LEMMA LeavingOrders ==
    ASSUME IInv, NEW w \in Workers, Leave(w), cycles' = cycles, OrdersOwned(orders', cycles),
           calls' = calls, todo' = todo, phase' = phase
    PROVE  IInv'
<1>1. DOMAIN at' = Workers /\ at'[w] = Free /\ \A v \in Workers : v # w => at'[v] = at[v]
  BY WorkerSet DEF Leave
<1>2. AtWork(w, Free, cycles, todo)
  BY FreeAtWork
<1>3. Extends(calls, calls') /\ AnswersProposals(calls')
  BY ExtendsItself DEF IInv
<1> QED BY <1>1, <1>2, <1>3, WorkerChange

\* The order manager.
LEMMA StartOrderWorkStep == ASSUME IInv, NEW o, StartOrderWork(o) PROVE IInv'
<1> DEFINE req == [NoRequest EXCEPT !.side = orders[o].side, !.qty = orders[o].qty - orders[o].filled, !.replaces = o]
           a == [Free EXCEPT !.step = "manage", !.req = req]
<1>1. /\ at' = [at EXCEPT !["position"] = a] /\ "position" \in Workers /\ phase = "up"
      /\ UNCHANGED <<cycles, calls, orders, todo, phase>>
  BY DEF StartOrderWork, process, Workers
<1>2. DOMAIN req = RequestFields
  BY DEF NoRequest, RequestFields
<1> HIDE DEF req
<1>3. DOMAIN a = WorkerFields /\ a.step = "manage" /\ a.cycle = 0 /\ a.req = req
  BY DEF Free, WorkerFields
<1> HIDE DEF a
<1>4. AtWork("position", a, cycles, todo)
  BY <1>2, <1>3 DEF AtWork, Ordering
<1>5. DOMAIN at' = Workers /\ at'["position"] = a /\ \A v \in Workers : v # "position" => at'[v] = at[v]
  BY <1>1, WorkerSet
<1>6. Extends(calls, calls') /\ AnswersProposals(calls') /\ OrdersOwned(orders', cycles)
  BY <1>1, ExtendsItself DEF IInv
<1> QED BY <1>1, <1>4, <1>5, <1>6, WorkerChange

\* The order manager cancels, replaces or leaves the order that it polled.
LEMMA ManageStep == ASSUME IInv, NEW dec, NEW usable, ManageOrder(dec, usable) PROVE IInv'
<1> DEFINE w == "position"
           seen == at[w].req
           req == ManagedRequest(dec, seen.replaces, [side |-> seen.side, qty |-> seen.qty, filled |-> 0], Len(orders))
<1>1. /\ w \in Workers /\ at[w].step = "manage" /\ UNCHANGED <<cycles, calls, todo, phase>>
  BY DEF ManageOrder, process, Workers
<1>2. IsSeq(orders) /\ OrdersOwned(orders, cycles)
  BY DEF IInv, OrdersOwned
<1>3. \/ Leave(w) /\ (CancelOrder(seen.replaces) \/ orders' = orders)
      \/ /\ at' = [at EXCEPT ![w] = [@ EXCEPT !.step = "gateway", !.usable = usable, !.req = req]]
         /\ orders' = orders
  BY DEF ManageOrder
<1>4. CASE Leave(w) /\ (CancelOrder(seen.replaces) \/ orders' = orders)
  <2>1. SameOrders(orders, orders')
    BY <1>2, <1>4, CancelKeeps, SameItself
  <2>2. OrdersOwned(orders', cycles)
    BY <1>2, <2>1, OwnedProgress
  <2> QED BY <1>1, <1>4, <2>2, LeavingOrders
<1>5. CASE /\ at' = [at EXCEPT ![w] = [@ EXCEPT !.step = "gateway", !.usable = usable, !.req = req]]
           /\ orders' = orders
  <2>1. DOMAIN req = RequestFields /\ req.kind = "replace" /\ \E x, y : req.id = <<"replace", x, y>>
    BY DEF ManagedRequest, RequestFields
  <2> HIDE DEF req
  <2> DEFINE once == [at[w] EXCEPT !["step"] = "gateway"]
             twice == [once EXCEPT !["usable"] = usable]
             a == [twice EXCEPT !["req"] = req]
  <2>2. AtWork(w, at[w], cycles, todo) /\ at[w].cycle = 0
    BY <1>1 DEF IInv, AtWork
  <2>3. DOMAIN at[w] = WorkerFields /\ {"step", "req", "cycle", "usable"} \subseteq WorkerFields
    BY <2>2 DEF AtWork, WorkerFields
  <2>4. DOMAIN once = WorkerFields /\ once["step"] = "gateway" /\ once["cycle"] = at[w]["cycle"]
    BY <2>3, FieldSet
  <2>5. at' = [at EXCEPT ![w] = a]
    BY <1>5
  <2> HIDE DEF once
  <2>6. DOMAIN twice = WorkerFields /\ twice["step"] = "gateway" /\ twice["cycle"] = at[w]["cycle"]
    BY <2>3, <2>4, FieldSet
  <2> HIDE DEF twice
  <2>7. DOMAIN a = WorkerFields /\ a["step"] = "gateway" /\ a["cycle"] = at[w]["cycle"] /\ a["req"] = req
    BY <2>3, <2>6, FieldSet
  <2> HIDE DEF a
  <2>8. AtWork(w, a, cycles, todo)
    <3>1. Requested(w, a, cycles)
      BY <2>1, <2>2, <2>7 DEF Requested
    <3> QED BY <2>1, <2>2, <2>7, <3>1 DEF AtWork, Ordering
  <2>9. DOMAIN at' = Workers /\ at'[w] = a /\ \A v \in Workers : v # w => at'[v] = at[v]
    BY <1>1, <2>5, WorkerSet
  <2>10. Extends(calls, calls') /\ AnswersProposals(calls') /\ OrdersOwned(orders', cycles) /\ phase # "down"
    BY <1>1, <1>2, <1>5, ExtendsItself DEF IInv, Free
  <2> QED BY <1>1, <2>8, <2>9, <2>10, WorkerChange
<1> QED BY <1>3, <1>4, <1>5

-----------------------------------------------------------------------------
(* The gateway and the execution runtime                                   *)

\* What it lets through as an entry buys, on data that can be used.
LEMMA AllowedEntry ==
    ASSUME NEW w, Allowed(w), at[w].req.kind = "entry"
    PROVE  at[w].usable /\ at[w].req.side = "buy"
BY DEF Allowed, GW!Validate, GatewayRequest, Known

\* Whatever the quantity of a close, it is the request of its cycle.
LEMMA GatewayStep == ASSUME IInv, NEW w \in Workers, Gateway(w) PROVE IInv'
<1>1. at[w].step = "gateway" /\ at[w].step \in Ordering /\ UNCHANGED <<calls, orders, todo, phase>>
  BY DEF Gateway, Ordering, process
<1>2. /\ Requested(w, at[w], cycles) /\ at[w].step # "idle" /\ DOMAIN at[w].req = RequestFields
      /\ OrdersOwned(orders', cycles)
  BY <1>1, RequestKnown DEF IInv
<1>3. CASE Allowed(w)
  <2> DEFINE step == IF at[w].req.kind = "replace" THEN "cancel" ELSE "send"
  <2>1. at' = [at EXCEPT ![w].step = step] /\ cycles' = cycles
    BY <1>3 DEF Gateway
  <2>2. /\ step \in Ordering /\ (step = "cancel" => at[w].req.kind = "replace")
        /\ at[w].req.kind = "entry" => at[w].usable /\ at[w].req.side = "buy"
    BY <1>3, AllowedEntry DEF Ordering
  <2> HIDE DEF step
  <2>3. /\ Stepped(at[w], at'[w], step, at[w].req)
        /\ DOMAIN at' = Workers /\ \A v \in Workers : v # w => at'[v] = at[v]
    BY <2>1, StepSet
  <2>4. Requested(w, at'[w], cycles)
    BY <1>2, <2>3 DEF Requested, Stepped
  <2> QED BY <1>1, <1>2, <2>1, <2>2, <2>3, <2>4, RequestGoesOn
<1>4. CASE ~Allowed(w) /\ Degraded(w)
  <2>1. PICK n : at' = [at EXCEPT ![w].step = "send", ![w].req.qty = n] /\ cycles' = cycles
    BY <1>4 DEF Gateway
  <2> DEFINE req == [at[w].req EXCEPT !["qty"] = n]
  <2>2. at[w].req.kind \in {"reduce", "exit"}
    BY <1>4 DEF Degraded, GW!DegradedClose, GW!Sells, GatewayRequest
  <2>3. at' = [at EXCEPT ![w] = [@ EXCEPT !.step = "send", !.req = req]]
    BY <2>1
  <2>4. /\ DOMAIN req = RequestFields /\ req.kind = at[w].req.kind /\ req.id = at[w].req.id
    <3>1. {"qty", "kind", "id"} \subseteq RequestFields
      BY DEF RequestFields
    <3>2. DOMAIN req = RequestFields /\ req["kind"] = at[w].req["kind"] /\ req["id"] = at[w].req["id"]
      BY <1>2, <3>1, FieldSet
    <3> QED BY <3>2
  <2> HIDE DEF req
  <2>5. /\ Stepped(at[w], at'[w], "send", req)
        /\ DOMAIN at' = Workers /\ \A v \in Workers : v # w => at'[v] = at[v]
    BY <2>3, SteppedTo
  <2>6. Requested(w, at'[w], cycles)
    BY <1>2, <2>2, <2>4, <2>5 DEF Requested, Stepped
  <2>7. "send" \in Ordering
    BY DEF Ordering
  <2> QED BY <1>1, <1>2, <2>1, <2>2, <2>4, <2>5, <2>6, <2>7, RequestGoesOn
<1>5. CASE ~Allowed(w) /\ ~Degraded(w) /\ (BlockedClose(w) \/ at[w].cycle = 0)
  <2>1. Leave(w) /\ cycles' = cycles
    BY <1>5 DEF Gateway, Blocked
  <2> QED BY <1>1, <1>2, <2>1, LeavingOrders
<1>6. CASE ~Allowed(w) /\ ~Degraded(w) /\ ~BlockedClose(w) /\ at[w].cycle # 0
  <2> DEFINE i == at[w].cycle
             c == cycles[i]
             n == IF w = "decision" THEN "persist_cycle" ELSE "end"
             x == Error(c, "gateway_blocked")
             d == GoTo(x, n)
  <2>1. cycles' = [cycles EXCEPT ![i] = d] /\ at' = [at EXCEPT ![w] = Running(i)]
    BY <1>6 DEF Gateway, Blocked
  <2>2. "errors" \in DOMAIN c /\ "node" \in DOMAIN c
    BY <1>1, <1>6, RequestKnown
  <2>3. Alike(c, x, {"errors"}) /\ x.errors = c.errors \cup {"gateway_blocked"}
    BY <2>2, AlikeError
  <2>4. "node" \in DOMAIN x /\ "errors" \in DOMAIN x
    BY <2>2, <2>3 DEF Alike
  <2> HIDE DEF x
  <2>5. Alike(c, d, {"errors"} \cup {"node"}) /\ d.node = n /\ d.errors = x.errors
    BY <2>2, <2>3, <2>4, AlikeGoTo, GoToFields
  <2> HIDE DEF d
  <2>6. Alike(c, d, {"command", "errors", "node"})
    BY <2>5 DEF Alike
  <2>7. d.errors \cap BlockingCodes # {}
    BY <2>3, <2>5 DEF BlockingCodes
  <2> QED BY <1>1, <1>6, <2>1, <2>5, <2>6, <2>7, ConcludedStep
<1> QED BY <1>3, <1>4, <1>5, <1>6

\* A replacement cancels the order that it replaces.
LEMMA CancelFirstStep == ASSUME IInv, NEW w \in Workers, CancelFirst(w) PROVE IInv'
<1>1. at[w].step = "cancel" /\ at[w].step \in Ordering /\ UNCHANGED <<cycles, calls, todo, phase>>
  BY DEF CancelFirst, Ordering, process
<1>2. /\ Requested(w, at[w], cycles) /\ at[w].step # "idle" /\ DOMAIN at[w].req = RequestFields
      /\ at[w].req.kind = "replace" /\ OrdersOwned(orders, cycles) /\ IsSeq(orders)
  BY <1>1, RequestKnown DEF IInv, AtWork, OrdersOwned
<1>3. CASE CancelOrder(at[w].req.replaces) /\ at' = [at EXCEPT ![w].step = "send"]
  <2>1. /\ Stepped(at[w], at'[w], "send", at[w].req)
        /\ DOMAIN at' = Workers /\ \A v \in Workers : v # w => at'[v] = at[v]
    BY <1>3, StepSet
  <2>2. Requested(w, at'[w], cycles)
    BY <1>2, <2>1 DEF Requested, Stepped
  <2>3. OrdersOwned(orders', cycles)
    BY <1>2, <1>3, CancelKeeps, OwnedProgress
  <2>4. "send" \in Ordering
    BY DEF Ordering
  <2> QED BY <1>1, <1>2, <2>1, <2>2, <2>3, <2>4, RequestGoesOn
<1>4. CASE Leave(w) /\ orders' = orders
  BY <1>1, <1>2, <1>4, LeavingOrders
<1> QED BY <1>3, <1>4 DEF CancelFirst

\* The order that is sent is its cycle's, or the order manager's.
LEMMA SentIsOwned ==
    ASSUME IInv, NEW w \in Workers, at[w].step = "send", NEW status, NEW live
    PROVE  LET ord == NewOrder(w, status, live) IN
           DOMAIN ord = OrderFields /\ ord.id = at[w].req.id /\ OrderOwned(ord, cycles)
<1> DEFINE ord == NewOrder(w, status, live)
           i == at[w].cycle
           r == at[w].req
<1>1. /\ DOMAIN ord = OrderFields /\ ord.id = r.id /\ ord.cycle = i /\ ord.kind = r.kind
      /\ ord.side = r.side /\ ord.qty = r.qty /\ ord.strategy = r.strategy
  BY DEF NewOrder, OrderFields
<1> HIDE DEF ord
<1>2. Requested(w, at[w], cycles) /\ AtWork(w, at[w], cycles, todo)
  <2>1. at[w].step \in Ordering
    BY DEF Ordering
  <2> QED BY <2>1, RequestKnown DEF IInv
<1>3. ASSUME i = 0 PROVE OrderOwned(ord, cycles)
  BY <1>1, <1>2, <1>3 DEF Requested, OrderOwned
<1>4. ASSUME i # 0 PROVE OrderOwned(ord, cycles)
  <2> DEFINE c == cycles[i]
  <2>1. /\ i \in DOMAIN cycles /\ c.kind = w /\ c.status = "running" /\ Sound(c, i, calls)
        /\ at[w].usable = c.usable
    BY <1>4, WorkerKnown
  <2>2. Submitting(c) /\ r.id = OwnId(c.kind, i)
    BY <1>2, <1>4, <2>1 DEF Requested
  <2>3. ASSUME r.kind = "entry"
        PROVE  /\ c.kind = "decision" /\ c.usable /\ c.meta.action = "execute"
               /\ r.strategy = c.meta.selected /\ r.qty = c.proposal.qty /\ r.side = "buy"
    <3>1. w = "decision"
      BY <1>2, <1>4, <2>3 DEF Requested, Workers
    <3>2. Reasoned(c) /\ c.node = "submit_execution_command" /\ c.proposal # NoProposal
      BY <2>1, <2>2, <3>1 DEF Sound, Watched, Submitting
    <3>3. c.meta.action = "execute" /\ c.proposal.strategy = c.meta.selected
      BY <3>2 DEF Reasoned, Entering
    <3>4. r.strategy = c.proposal.strategy /\ r.qty = c.proposal.qty
      BY <1>2, <1>4, <3>1 DEF Requested
    <3>5. at[w].usable /\ r.side = "buy"
      BY <1>2, <2>3 DEF AtWork
    <3> QED BY <2>1, <3>1, <3>3, <3>4, <3>5
  <2>4. Backed(ord, c, i)
    BY <1>1, <2>1, <2>2, <2>3 DEF Backed
  <2> QED BY <1>1, <1>4, <2>1, <2>4 DEF OrderOwned
<1> QED BY <1>1, <1>3, <1>4 DEF ord

\* Whether it is a new order or one that was rejected before.
LEMMA PlacedOwned ==
    ASSUME IInv, NEW w \in Workers, at[w].step = "send", NEW status, NEW live
    PROVE  OrdersOwned(Placed(w, status, live), cycles)
<1>1. IsSeq(orders) /\ OrdersOwned(orders, cycles)
  BY DEF IInv, OrdersOwned
<1>2. CASE Existing(w) = {}
  <2> DEFINE ord == NewOrder(w, status, live)
             new == Append(orders, ord)
  <2>1. Placed(w, status, live) = new
    BY <1>2 DEF Placed
  <2>2. DOMAIN ord = OrderFields /\ ord.id = at[w].req.id /\ OrderOwned(ord, cycles)
    BY SentIsOwned
  <2> HIDE DEF ord
  <2>3. /\ IsSeq(new) /\ DOMAIN new = DOMAIN orders \cup {Len(orders) + 1}
        /\ new[Len(orders) + 1] = ord /\ \A o \in DOMAIN orders : new[o] = orders[o]
    BY <1>1, SeqAppended
  <2>4. \A o \in DOMAIN orders : orders[o].id # ord.id
    BY <1>2, <2>2 DEF Existing
  <2> HIDE DEF new
  <2>5. OrdersOwned(new, cycles)
    BY <1>1, <2>2, <2>3, <2>4 DEF OrdersOwned
  <2> QED BY <2>1, <2>5
<1>3. CASE Existing(w) # {}
  <2>1. PICK s : s = IF live = "filled" THEN "filled" ELSE "rejected"
    OBVIOUS
  <2> DEFINE ord == NewOrder(w, s, live)
             new == [o \in DOMAIN orders |-> IF orders[o].id = at[w].req.id THEN ord ELSE orders[o]]
  <2>2. Placed(w, status, live) = new
    BY <1>3, <2>1 DEF Placed
  <2>3. DOMAIN ord = OrderFields /\ ord.id = at[w].req.id /\ OrderOwned(ord, cycles)
    BY SentIsOwned
  <2> HIDE DEF ord
  <2>4. /\ DOMAIN new = DOMAIN orders /\ new = [o \in DOMAIN new |-> new[o]]
        /\ \A o \in DOMAIN orders : new[o] = IF orders[o].id = at[w].req.id THEN ord ELSE orders[o]
    OBVIOUS
  <2> HIDE DEF new
  <2>5. IsSeq(new)
    BY <1>1, <2>4, SeqMapped
  <2>6. \A o \in DOMAIN orders : new[o].id = orders[o].id
    BY <2>3, <2>4
  <2>7. OrdersOwned(new, cycles)
    BY <1>1, <2>3, <2>4, <2>5, <2>6 DEF OrdersOwned
  <2> QED BY <2>2, <2>7
<1> QED BY <1>2, <1>3

\* An order that the broker has is found by its id; any other is sent.
LEMMA SendStep == ASSUME IInv, NEW w \in Workers, Send(w) PROVE IInv'
<1>1. at[w].step = "send" /\ at[w].step \in Ordering /\ UNCHANGED <<cycles, calls, todo, phase>>
  BY DEF Send, Ordering, process
<1>2. /\ Requested(w, at[w], cycles) /\ at[w].step # "idle" /\ DOMAIN at[w].req = RequestFields
      /\ OrdersOwned(orders, cycles) /\ (at[w].req.kind = "entry" => at[w].usable /\ at[w].req.side = "buy")
  BY <1>1, RequestKnown DEF IInv, AtWork
<1>3. \/ orders' = orders
      \/ \E status, live : orders' = Placed(w, status, live)
  BY DEF Send
<1>4. OrdersOwned(orders', cycles)
  BY <1>1, <1>2, <1>3, PlacedOwned
<1>5. CASE at' = [at EXCEPT ![w].step = "record"]
  <2>1. /\ Stepped(at[w], at'[w], "record", at[w].req)
        /\ DOMAIN at' = Workers /\ \A v \in Workers : v # w => at'[v] = at[v]
    BY <1>5, StepSet
  <2>2. Requested(w, at'[w], cycles)
    BY <1>2, <2>1 DEF Requested, Stepped
  <2>3. "record" \in Ordering
    BY DEF Ordering
  <2> QED BY <1>1, <1>2, <1>4, <2>1, <2>2, <2>3, RequestGoesOn
<1>6. CASE Leave(w)
  BY <1>1, <1>4, <1>6, LeavingOrders
<1> QED BY <1>5, <1>6 DEF Send

\* At the bound nothing is sent.
LEMMA OutOfOrdersStep == ASSUME IInv, NEW w \in Workers, OutOfOrders(w) PROVE IInv'
<1>1. Leave(w) /\ UNCHANGED <<cycles, calls, orders, todo, phase>>
  BY DEF OutOfOrders, process
<1>2. OrdersOwned(orders', cycles)
  BY <1>1 DEF IInv
<1> QED BY <1>1, <1>2, LeavingOrders

\* The checkpoint has the id of the order that was sent.
LEMMA RecordStep == ASSUME IInv, NEW w \in Workers, RecordOrder(w) PROVE IInv'
<1> DEFINE i == at[w].cycle
           r == at[w].req
<1>1. at[w].step \in Ordering /\ UNCHANGED <<calls, orders, todo, phase>>
  BY DEF RecordOrder, Ordering
<1>2. CASE i = 0
  <2>1. Leave(w) /\ cycles' = cycles
    BY <1>2 DEF RecordOrder
  <2> QED BY <1>1, <2>1, LeavingOrders DEF IInv
<1>3. CASE i # 0
  <2> DEFINE c == cycles[i]
             n == IF w = "decision" THEN "persist_cycle" ELSE "end"
             x == [c EXCEPT !["command"] = r.id]
             d == GoTo(x, n)
  <2>1. cycles' = [cycles EXCEPT ![i] = d] /\ at' = [at EXCEPT ![w] = Running(i)]
    BY <1>3 DEF RecordOrder
  <2>2. "command" \in DOMAIN c /\ "node" \in DOMAIN c
    BY <1>1, <1>3, RequestKnown
  <2>3. Alike(c, x, {"command"}) /\ x["command"] = r.id
    BY <2>2, AlikeSet, FieldSet
  <2>4. "node" \in DOMAIN x /\ "command" \in DOMAIN x
    BY <2>2, <2>3 DEF Alike
  <2> HIDE DEF x
  <2>5. Alike(c, d, {"command"} \cup {"node"}) /\ d.node = n /\ d["command"] = x["command"]
    BY <2>2, <2>3, <2>4, AlikeGoTo, GoToFields
  <2> HIDE DEF d
  <2>6. Alike(c, d, {"command", "errors", "node"}) /\ d.command = r.id
    BY <2>3, <2>5 DEF Alike
  <2> QED BY <1>1, <1>3, <2>1, <2>5, <2>6, ConcludedStep
<1> QED BY <1>2, <1>3

\* A cycle is called completed only if no error blocks it; then its order, if
\* it has one, is in its checkpoint.
LEMMA SettleStep == ASSUME IInv, NEW w \in Workers, Settle(w) PROVE IInv'
<1> DEFINE i == at[w].cycle
           c == cycles[i]
           st == IF ReachedTerminalOutcome(Cycle(w)) THEN "completed" ELSE "running"
           d == [c EXCEPT !["status"] = st]
<1>1. /\ At(w, "end") /\ Leave(w) /\ UNCHANGED <<calls, orders, todo, phase>>
      /\ cycles' = [cycles EXCEPT ![i] = d]
  BY DEF Settle, process
<1>2. i # 0 /\ c.node = "end"
  BY <1>1, AtItsNode DEF At
<1>3. /\ i \in DOMAIN cycles /\ c.kind = w /\ c.status = "running" /\ Sound(c, i, calls)
  BY <1>2, WorkerKnown
<1>4. st \in {"completed", "running"} /\ (st = "completed" => c.errors \cap BlockingCodes = {})
  BY DEF ReachedTerminalOutcome, Cycle
<1> HIDE DEF st
<1>5. DOMAIN c = DecisionFields \/ DOMAIN c = PositionFields
  BY <1>3 DEF Sound, Reasoned, Watched
<1>6. Alike(c, d, {"status"}) /\ d["status"] = st
  <2>1. "status" \in DOMAIN c
    BY <1>5 DEF DecisionFields, PositionFields
  <2> QED BY <2>1, AlikeSet, FieldSet
<1> HIDE DEF d
<1>7. Sound(d, i, calls) /\ d.kind = w /\ d.node = "end" /\ d.command = c.command /\ d.errors = c.errors
      /\ d.usable = c.usable /\ (c.kind = "decision" => d.meta = c.meta /\ d.proposal = c.proposal)
  <2>1. CASE c.kind = "decision"
    <3>1. Reasoned(c)
      BY <1>3, <2>1 DEF Sound, Watched
    <3>2. /\ DOMAIN d = DecisionFields /\ d.kind = c.kind /\ d.node = c.node /\ d.usable = c.usable
          /\ d.strategies = c.strategies /\ d.meta = c.meta /\ d.proposal = c.proposal
          /\ d.command = c.command /\ d.errors = c.errors
      BY <1>6, <3>1, AlikeDecision DEF Reasoned
    <3>3. Reasoned(d)
      BY <1>2, <3>1, <3>2, EndedReasoned DEF Ending
    <3>4. Answered(d, i, calls)
      BY <1>3, <2>1, <3>2 DEF Sound, Answered
    <3> QED BY <1>2, <1>3, <3>2, <3>3, <3>4 DEF Sound
  <2>2. CASE c.kind # "decision"
    <3>1. Watched(c)
      BY <1>3, <2>2 DEF Sound, Reasoned
    <3>2. /\ DOMAIN d = PositionFields /\ d.kind = c.kind /\ d.node = c.node /\ d.usable = c.usable
          /\ d.decision = c.decision /\ d.command = c.command /\ d.errors = c.errors
      BY <1>6, <3>1, AlikePosition DEF Watched
    <3>3. Watched(d)
      BY <3>1, <3>2 DEF Watched
    <3>4. Answered(d, i, calls)
      BY <1>3, <2>2, <3>2 DEF Sound, Answered
    <3> QED BY <1>2, <1>3, <2>2, <3>2, <3>3, <3>4 DEF Sound
  <2> QED BY <2>1, <2>2
<1>8. ASSUME NEW o \in DOMAIN orders, orders[o].cycle = i PROVE Backed(orders[o], d, i)
  <2>1. Backed(orders[o], c, i)
    BY <1>2, <1>8 DEF IInv, OrdersOwned, OrderOwned
  <2>2. ~Submitting(c) /\ d.node \in Ending
    BY <1>2, <1>7 DEF Submitting, Ending
  <2> QED BY <1>3, <1>4, <1>6, <1>7, <2>1, <2>2 DEF Backed
<1>9. OrdersOwned(orders', cycles')
  BY <1>1, <1>3, <1>8, OwnedAfter DEF IInv
<1>10. DOMAIN at' = Workers /\ at'[w] = Free /\ \A v \in Workers : v # w => at'[v] = at[v]
  BY <1>1, WorkerSet DEF Leave
<1>11. AtWork(w, Free, cycles', todo)
  BY FreeAtWork
<1>12. Extends(calls, calls') /\ AnswersProposals(calls') /\ Sound(d, i, calls')
  BY <1>1, <1>7, ExtendsItself DEF IInv
<1> QED BY <1>1, <1>2, <1>7, <1>9, <1>10, <1>11, <1>12, CycleChange

-----------------------------------------------------------------------------
(* Cycles begin, are interrupted and resumed                               *)

\* A cycle begins with a checkpoint of its own and no order.
LEMMA CycleStarts ==
    ASSUME IInv, NEW w \in Workers, NEW d, NEW a, phase = "up",
           cycles' = Append(cycles, d), at' = [at EXCEPT ![w] = a],
           \A i : Sound(d, i, calls), d.kind = w, d.status = "running",
           DOMAIN a = WorkerFields, a.step = "node", a.cycle = Len(cycles) + 1, DOMAIN a.req = RequestFields,
           a.usable = d.usable,
           UNCHANGED <<calls, orders, todo, phase>>
    PROVE  IInv'
<1> DEFINE n == Len(cycles) + 1
<1>1. IsSeq(cycles) /\ \A j \in DOMAIN cycles : Sound(cycles[j], j, calls)
  BY DEF IInv, CyclesSound
<1>2. /\ IsSeq(cycles') /\ DOMAIN cycles' = DOMAIN cycles \cup {n} /\ cycles'[n] = d
      /\ \A j \in DOMAIN cycles : cycles'[j] = cycles[j]
  BY <1>1, SeqAppended
<1>3. n \notin DOMAIN cycles /\ n # 0
  BY <1>1, SeqFacts
<1>4. CyclesSound(cycles', calls')
  BY <1>1, <1>2 DEF CyclesSound
<1> HIDE DEF n
<1>5. OrdersOwned(orders', cycles')
  <2>1. OrdersOwned(orders, cycles)
    BY DEF IInv
  <2>2. ASSUME NEW o \in DOMAIN orders PROVE OrderOwned(orders[o], cycles')
    <3>1. OrderOwned(orders[o], cycles)
      BY <2>1 DEF OrdersOwned
    <3>2. CASE orders[o].cycle = 0
      BY <3>1, <3>2 DEF OrderOwned
    <3>3. CASE orders[o].cycle # 0
      BY <1>2, <3>1, <3>3 DEF OrderOwned
    <3> QED BY <3>2, <3>3
  <2> QED BY <2>1, <2>2 DEF OrdersOwned
<1>6. todo = {} /\ todo' = {}
  BY DEF IInv, Resuming
<1>7. DOMAIN at' = Workers /\ at'[w] = a /\ \A v \in Workers : v # w => at'[v] = at[v]
  BY WorkerSet
<1>8. ASSUME NEW v \in Workers PROVE AtWork(v, at'[v], cycles', todo')
  <2>1. CASE v = w
    <3>1. AtWork(w, a, cycles', {})
      BY <1>2, <1>3 DEF AtWork, Ordering, n
    <3> QED BY <1>6, <1>7, <2>1, <3>1
  <2>2. CASE v # w
    <3>1. AtWork(v, at[v], cycles, todo)
      BY DEF IInv
    <3>2. at[v].cycle # 0 => at[v].cycle \in DOMAIN cycles
      BY <3>1 DEF AtWork
    <3> QED BY <1>2, <1>6, <1>7, <2>2, <3>1, <3>2, OtherAtWork
  <2> QED BY <2>1, <2>2
<1>9. Resuming(cycles', todo', phase')
  BY <1>6 DEF Resuming
<1> QED BY <1>4, <1>5, <1>7, <1>8, <1>9 DEF IInv

\* The checkpoint that a decision cycle begins with is sound.
LEMMA NewDecisionSound ==
    ASSUME NEW usable, NEW i, NEW cs
    PROVE  LET d == NewDecisionCycle(usable) IN
           Sound(d, i, cs) /\ d.kind = "decision" /\ d.status = "running" /\ d.usable = usable
<1> DEFINE d == NewDecisionCycle(usable)
<1>1. /\ DOMAIN d = DecisionFields /\ d.kind = "decision" /\ d.node = "validate_trigger" /\ d.status = "running"
      /\ d.meta = NoMeta /\ d.proposal = NoProposal /\ d.command = NoCommand /\ d.usable = usable
  BY DEF NewDecisionCycle, DecisionFields
<1>2. NoMeta.selected = NoStrategy
  BY DEF NoMeta
<1> HIDE DEF d
<1>3. Reasoned(d)
  <2>1. d.node \in Hearing /\ d.node \notin Entering
    BY <1>1 DEF Hearing, Entering
  <2> QED BY <1>1, <1>2, <2>1 DEF Reasoned
<1>4. Answered(d, i, cs)
  BY <1>1 DEF Answered
<1> QED BY <1>1, <1>3, <1>4 DEF Sound, d

\* And that of a position cycle.
LEMMA NewPositionSound ==
    ASSUME NEW usable, NEW strategy, NEW i, NEW cs
    PROVE  LET d == NewPositionCycle(usable, strategy) IN
           Sound(d, i, cs) /\ d.kind = "position" /\ d.status = "running" /\ d.usable = usable
<1> DEFINE d == NewPositionCycle(usable, strategy)
<1>1. /\ DOMAIN d = PositionFields /\ d.kind = "position" /\ d.node = "hydrate_position_truth" /\ d.status = "running"
      /\ d.decision = NoDecision /\ d.command = NoCommand /\ d.usable = usable
  BY DEF NewPositionCycle, PositionFields
<1> HIDE DEF d
<1>2. Watched(d)
  <2>1. d.node \in Watching
    BY <1>1 DEF Watching
  <2> QED BY <1>1, <2>1 DEF Watched
<1>3. Answered(d, i, cs)
  BY <1>1 DEF Answered
<1> QED BY <1>1, <1>2, <1>3 DEF Sound, d

\* What a worker that begins a cycle is doing.
LEMMA BegunFields ==
    ASSUME NEW n, NEW usable
    PROVE  LET a == [Free EXCEPT !.step = "node", !.cycle = n, !.usable = usable] IN
           /\ DOMAIN a = WorkerFields /\ a.step = "node" /\ a.cycle = n /\ a.usable = usable
           /\ DOMAIN a.req = RequestFields
BY DEF Free, NoRequest, WorkerFields, RequestFields

\* A decision cycle begins.
LEMMA StartDecisionStep == ASSUME IInv, NEW usable, StartDecision(usable) PROVE IInv'
<1> DEFINE d == NewDecisionCycle(usable)
           a == [Free EXCEPT !.step = "node", !.cycle = Len(cycles) + 1, !.usable = usable]
<1>1. /\ phase = "up" /\ cycles' = Append(cycles, d) /\ at' = [at EXCEPT !["decision"] = a]
      /\ UNCHANGED <<calls, orders, todo, phase>> /\ "decision" \in Workers
  BY DEF StartDecision, process, Workers
<1>2. /\ \A i : Sound(d, i, calls)
      /\ d.kind = "decision" /\ d.status = "running" /\ d.usable = usable
  BY NewDecisionSound
<1>3. /\ DOMAIN a = WorkerFields /\ a.step = "node" /\ a.cycle = Len(cycles) + 1 /\ a.usable = usable
      /\ DOMAIN a.req = RequestFields
  BY BegunFields
<1> HIDE DEF d, a
<1> QED BY <1>1, <1>2, <1>3, CycleStarts

\* A position cycle begins.
LEMMA StartPositionStep == ASSUME IInv, NEW o, NEW usable, StartPosition(o, usable) PROVE IInv'
<1> DEFINE d == NewPositionCycle(usable, ResolveProvenance(o))
           a == [Free EXCEPT !.step = "node", !.cycle = Len(cycles) + 1, !.usable = usable]
<1>1. /\ phase = "up" /\ cycles' = Append(cycles, d) /\ at' = [at EXCEPT !["position"] = a]
      /\ UNCHANGED <<calls, orders, todo, phase>> /\ "position" \in Workers
  BY DEF StartPosition, process, Workers
<1>2. /\ \A i : Sound(d, i, calls)
      /\ d.kind = "position" /\ d.status = "running" /\ d.usable = usable
  BY NewPositionSound
<1>3. /\ DOMAIN a = WorkerFields /\ a.step = "node" /\ a.cycle = Len(cycles) + 1 /\ a.usable = usable
      /\ DOMAIN a.req = RequestFields
  BY BegunFields
<1> HIDE DEF d, a
<1> QED BY <1>1, <1>2, <1>3, CycleStarts

\* A node that is interrupted may leave rows of its calls.
LEMMA TimeoutStep == ASSUME IInv, DecisionTimeout PROVE IInv'
<1>1. PICK f \in Torn("decision") : calls' = Inserting(calls, f)
  BY DEF DecisionTimeout
<1>2. Leave("decision") /\ UNCHANGED <<cycles, orders, todo, phase>> /\ "decision" \in Workers
  BY DEF DecisionTimeout, process, Workers
<1>3. Extends(calls, calls') /\ AnswersProposals(calls')
  BY <1>1, <1>2, TornProposals, InsertingExtends, InsertingProposals DEF IInv
<1> QED BY <1>2, <1>3, Leaving

\* A node that raises for want of a store or a snapshot.
LEMMA RaisesStep == ASSUME IInv, NEW w \in Workers, NodeRaises(w) PROVE IInv'
<1>1. PICK f \in Torn(w) : calls' = Inserting(calls, f)
  BY DEF NodeRaises
<1>2. Leave(w) /\ UNCHANGED <<cycles, orders, todo, phase>>
  BY DEF NodeRaises, process
<1>3. Extends(calls, calls') /\ AnswersProposals(calls')
  BY <1>1, TornProposals, InsertingExtends, InsertingProposals DEF IInv
<1> QED BY <1>2, <1>3, Leaving

\* A crash frees the workers; rows of both their calls may be left.
LEMMA CrashStep == ASSUME IInv, Crash PROVE IInv'
<1>1. PICK f \in Torn("decision"), g \in Torn("position") : calls' = Inserting(Inserting(calls, f), g)
  BY DEF Crash
<1>2. /\ phase' = "down" /\ todo' = {} /\ at' = [w \in Workers |-> Free] /\ cycles' = cycles /\ orders' = orders
  BY DEF Crash
<1>3. Extends(calls, calls') /\ AnswersProposals(calls')
  <2>1. NewProposals(f) /\ NewProposals(g)
    BY TornProposals DEF Workers
  <2>2. Extends(calls, Inserting(calls, f)) /\ AnswersProposals(Inserting(calls, f))
    BY <2>1, InsertingExtends, InsertingProposals DEF IInv
  <2>3. Extends(Inserting(calls, f), calls') /\ AnswersProposals(calls')
    BY <1>1, <2>1, <2>2, InsertingExtends, InsertingProposals
  <2> QED BY <2>2, <2>3, ExtendsTransitive
<1>4. CyclesSound(cycles', calls')
  BY <1>2, <1>3, SoundStays DEF IInv, CyclesSound
<1>5. DOMAIN at' = Workers /\ \A w \in Workers : at'[w] = Free /\ AtWork(w, at'[w], cycles', todo')
  BY <1>2, FreeAtWork
<1>6. OrdersOwned(orders', cycles') /\ Resuming(cycles', todo', phase')
  BY <1>2 DEF IInv, Resuming
<1> QED BY <1>3, <1>4, <1>5, <1>6 DEF IInv

\* The restart takes up every running cycle, one by one, at its checkpoint.
LEMMA RecoveryStep == ASSUME IInv, Recovery PROVE IInv'
<1>1. UNCHANGED <<cycles, calls, orders>>
  BY DEF Recovery, Restart, Resumed, ResumeCycle, stores
<1>2. /\ CyclesSound(cycles', calls') /\ AnswersProposals(calls') /\ OrdersOwned(orders', cycles')
  BY <1>1 DEF IInv
<1>3. CASE Restart
  <2>1. phase' = "resuming" /\ at' = at /\ \A w \in Workers : at[w] = Free
    BY <1>3 DEF Restart, IInv
  <2>2. Resuming(cycles', todo', phase')
    BY <1>1, <1>3, <2>1 DEF Restart, Resuming
  <2>3. \A w \in Workers : AtWork(w, at'[w], cycles', todo')
    BY <2>1, FreeAtWork
  <2> QED BY <1>2, <2>1, <2>2, <2>3 DEF IInv
<1>4. CASE Resumed
  <2>1. phase' = "up" /\ todo' = {} /\ todo = {} /\ at' = at
    BY <1>4 DEF Resumed
  <2> QED BY <1>1, <1>2, <2>1 DEF IInv, Resuming
<1>5. ASSUME NEW i \in DOMAIN cycles, ResumeCycle(i) PROVE IInv'
  <2> DEFINE w == cycles[i].kind
  <2>1. /\ i \in todo /\ todo' = todo \ {i} /\ phase' = phase /\ phase = "resuming"
        /\ at' = [at EXCEPT ![w] = Running(i)] /\ \A v \in Workers : at[v] = Free
    BY <1>5 DEF ResumeCycle
  <2>2. w \in Workers /\ cycles[i].status = "running" /\ i # 0
    <3>1. Sound(cycles[i], i, calls) /\ IsSeq(cycles)
      BY DEF IInv, CyclesSound
    <3>2. i # 0
      BY <3>1, SeqFacts
    <3> QED BY <2>1, <3>1, <3>2 DEF Sound, Reasoned, Watched, Workers, IInv, Resuming
  <2>3. DOMAIN at' = Workers /\ at'[w] = Running(i) /\ \A v \in Workers : v # w => at'[v] = Free
    BY <2>1, <2>2, WorkerSet
  <2>4. AtWork(w, Running(i), cycles', todo')
    BY <1>1, <2>1, <2>2 DEF AtWork, Running, WorkerFields, RequestFields, NoRequest, Ordering
  <2>5. \A v \in Workers : AtWork(v, at'[v], cycles', todo')
    BY <2>3, <2>4, FreeAtWork
  <2>6. Resuming(cycles', todo', phase')
    BY <1>1, <2>1 DEF IInv, Resuming
  <2> QED BY <1>2, <2>1, <2>3, <2>5, <2>6 DEF IInv
<1> QED BY <1>3, <1>4, <1>5 DEF Recovery

-----------------------------------------------------------------------------
(* Every step                                                              *)

\* The invariant holds at the start.
LEMMA InitIInv == Init => IInv
<1> SUFFICES ASSUME Init PROVE IInv
  OBVIOUS
<1>1. cycles = <<>> /\ calls = <<>> /\ orders = <<>> /\ phase = "up" /\ todo = {} /\ at = [w \in Workers |-> Free]
  BY DEF Init
<1>2. IsSeq(<<>>) /\ DOMAIN <<>> = {}
  <2>1. <<>> \in Seq({})
    OBVIOUS
  <2> QED BY <2>1 DEF IsSeq
<1>3. CyclesSound(cycles, calls) /\ AnswersProposals(calls) /\ OrdersOwned(orders, cycles)
  BY <1>1, <1>2 DEF CyclesSound, AnswersProposals, OrdersOwned
<1>4. DOMAIN at = Workers /\ \A w \in Workers : AtWork(w, at[w], cycles, todo)
  BY <1>1, FreeAtWork
<1>5. Resuming(cycles, todo, phase)
  BY <1>1 DEF Resuming
<1> QED BY <1>1, <1>3, <1>4, <1>5 DEF IInv

\* Every step keeps it.
LEMMA Preserved == IInv /\ [Next]_vars => IInv'
<1> SUFFICES ASSUME IInv, [Next]_vars PROVE IInv'
  OBVIOUS
<1>1. CASE Starts
  BY <1>1, StartDecisionStep, StartPositionStep, StartOrderWorkStep DEF Starts
<1>2. CASE DecisionStep
  BY <1>2, TriggerStep, HydrateStep, PerceptionStep, WorldModelStep, DiscoveryStep, StrategyStep,
     CandidatesStep, DebateStep, MetaStep, SwitchStep, TacticianStep, ValidationStep, SubmitStep, PersistStep
  DEF DecisionStep
<1>3. CASE PositionStep
  BY <1>3, TruthStep, LoadedStep, PriorStep, ThesisStep, CriticStep, DecideStep, RouteNoOrderStep,
     RouteOrderStep, ManageStep
  DEF PositionStep
<1>4. CASE Market \/ Recovery \/ Crash \/ DecisionTimeout
  BY <1>4, MarketStep, RecoveryStep, CrashStep, TimeoutStep
<1>5. ASSUME NEW w \in Workers, OrderStep(w) PROVE IInv'
  BY <1>5, GatewayStep, CancelFirstStep, SendStep, OutOfOrdersStep, RecordStep, SettleStep DEF OrderStep
<1>6. ASSUME NEW w \in Workers, NodeRaises(w) PROVE IInv'
  BY <1>6, RaisesStep
<1>7. CASE UNCHANGED vars
  BY <1>7 DEF vars, IInv, Free
<1> QED BY <1>1, <1>2, <1>3, <1>4, <1>5, <1>6, <1>7 DEF Next

\* What every state keeps.
LEMMA AlwaysIInv == Spec => []IInv
<1> QED BY InitIInv, Preserved, PTL DEF Spec

\* The orders of a cycle have one id, and ids are not shared.
LEMMA OneOrder == IInv => OneOrderPerCycle
<1> SUFFICES ASSUME IInv, NEW i \in DOMAIN cycles PROVE Cardinality(Taken(i)) <= 1
  BY DEF OneOrderPerCycle
<1>1. i # 0
  BY SeqFacts DEF IInv, CyclesSound
<1>2. ASSUME NEW o \in Taken(i), NEW p \in Taken(i) PROVE o = p
  <2>1. /\ o \in DOMAIN orders /\ orders[o].cycle = i /\ OrderOwned(orders[o], cycles)
        /\ p \in DOMAIN orders /\ orders[p].cycle = i /\ OrderOwned(orders[p], cycles)
    BY DEF Taken, IInv, OrdersOwned
  <2>2. orders[o].id = OwnId(cycles[i].kind, i) /\ orders[p].id = OwnId(cycles[i].kind, i)
    BY <1>1, <2>1 DEF OrderOwned, Backed
  <2> QED BY <2>1, <2>2 DEF IInv, OrdersOwned
<1>3. CASE Taken(i) = {}
  BY <1>3, FS_EmptySet
<1>4. CASE Taken(i) # {}
  <2>1. PICK o : Taken(i) = {o}
    BY <1>2, <1>4
  <2> QED BY <2>1, FS_Singleton
<1> QED BY <1>3, <1>4

\* Whatever is interrupted, timed out, resumed or crashes, and however often the
\* submitting node runs, the broker takes at most one order for a cycle.
THEOREM OneOrderAlways == Spec => []OneOrderPerCycle
<1> QED BY AlwaysIInv, OneOrder, PTL

\* The order of an entry is backed by its cycle.
LEMMA EntryDecided == IInv => EntryIsDecided
<1> SUFFICES ASSUME IInv, NEW o \in DOMAIN orders, orders[o].kind = "entry"
             PROVE  LET c == cycles[orders[o].cycle] IN
                    /\ c.meta.action = "execute" /\ c.usable
                    /\ orders[o].strategy = c.meta.selected
                    /\ orders[o].qty = c.proposal.qty /\ orders[o].side = "buy"
  BY DEF EntryIsDecided
<1>1. OrderOwned(orders[o], cycles)
  BY DEF IInv, OrdersOwned
<1>2. orders[o].cycle # 0
  BY <1>1 DEF OrderOwned
<1> QED BY <1>1, <1>2 DEF OrderOwned, Backed

\* An entry at the broker is the one that its cycle's meta decision stands for.
THEOREM EntryAlwaysDecided == Spec => []EntryIsDecided
<1> QED BY AlwaysIInv, EntryDecided, PTL

\* What is answered is on record.
LEMMA CheckpointAgrees == IInv => CheckpointAgreesWithCalls
<1> SUFFICES ASSUME IInv, NEW i \in DOMAIN cycles
             PROVE  LET c == cycles[i]
                        on(role, hash) == {calls[k].output : k \in {k \in DOMAIN calls :
                                            /\ k = IdempotencyKey(role, hash) /\ calls[k].status = "completed"}}
                    IN  IF c.kind = "decision"
                        THEN /\ c.meta # NoMeta => on("meta_decision", SharedHash(i)) \subseteq {c.meta}
                             /\ c.proposal # NoProposal =>
                                    on("entry_tactician", SharedHash(i)) \subseteq {[c.proposal EXCEPT !.strategy = NoStrategy]}
                        ELSE c.decision # NoDecision =>
                                on("position_decision", OwnHash("position_decision", i)) \subseteq {c.decision}
  BY DEF CheckpointAgreesWithCalls
<1> DEFINE on(role, hash) == {calls[k].output : k \in {k \in DOMAIN calls :
                                /\ k = IdempotencyKey(role, hash) /\ calls[k].status = "completed"}}
<1>1. ASSUME NEW role, NEW hash, NEW answer, OnRecord(calls, IdempotencyKey(role, hash), answer)
      PROVE  on(role, hash) \subseteq {answer}
  BY <1>1 DEF OnRecord
<1>2. Answered(cycles[i], i, calls)
  BY DEF IInv, CyclesSound, Sound
<1> HIDE DEF on
<1>3. IF cycles[i].kind = "decision"
      THEN /\ cycles[i].meta # NoMeta => on("meta_decision", SharedHash(i)) \subseteq {cycles[i].meta}
           /\ cycles[i].proposal # NoProposal =>
                  on("entry_tactician", SharedHash(i)) \subseteq {[cycles[i].proposal EXCEPT !.strategy = NoStrategy]}
      ELSE cycles[i].decision # NoDecision =>
              on("position_decision", OwnHash("position_decision", i)) \subseteq {cycles[i].decision}
  BY <1>1, <1>2 DEF Answered
<1> QED BY <1>3 DEF on

\* What a checkpoint holds of an answer is what is on record as completed.
THEOREM CheckpointAlwaysAgrees == Spec => []CheckpointAgreesWithCalls
<1> QED BY AlwaysIInv, CheckpointAgrees, PTL

\* A completed cycle can only be backed by its command.
LEMMA CompletedKnows == IInv => CompletedKnowsItsOrder
<1> SUFFICES ASSUME IInv, NEW i \in DOMAIN cycles, cycles[i].status = "completed", NEW o \in Taken(i)
             PROVE  cycles[i].command = orders[o].id
  BY DEF CompletedKnowsItsOrder
<1>1. i # 0
  BY SeqFacts DEF IInv, CyclesSound
<1>2. orders[o].cycle = i /\ OrderOwned(orders[o], cycles)
  BY DEF Taken, IInv, OrdersOwned
<1> QED BY <1>1, <1>2 DEF OrderOwned, Backed

\* A cycle that is called completed, and never resumed, has its order in its
\* own checkpoint.
THEOREM CompletedAlwaysKnows == Spec => []CompletedKnowsItsOrder
<1> QED BY AlwaysIInv, CompletedKnows, PTL

-----------------------------------------------------------------------------
(* The lifecycle of a cycle: CycleLifecycle is implemented                 *)

\* What registry, broker and checkpoint have of every cycle.
Seens == [i \in DOMAIN cycles |-> Seen(i)]

\* The orders that the broker has taken are the same.
SameTaken(os, ps) ==
    /\ DOMAIN ps = DOMAIN os
    /\ \A o \in DOMAIN os : /\ ps[o].cycle = os[o].cycle /\ ps[o].id = os[o].id
                            /\ ps[o].live = "none" <=> os[o].live = "none"

\* A cycle has no order or one, by the id that is its own.
LEMMA TakenOne ==
    ASSUME IInv, NEW i \in DOMAIN cycles
    PROVE  /\ \A o \in Taken(i) : o \in DOMAIN orders /\ orders[o].id = OwnId(cycles[i].kind, i)
                                  /\ Backed(orders[o], cycles[i], i)
           /\ Seen(i).status = cycles[i].status
           /\ Seen(i).recorded = (\E o \in Taken(i) : cycles[i].command = orders[o].id)
           /\ \/ Taken(i) = {} /\ Seen(i).orders = 0 /\ ~Seen(i).recorded
              \/ \E o : /\ Taken(i) = {o} /\ Seen(i).orders = 1
                        /\ Seen(i).recorded <=> cycles[i].command = orders[o].id
<1>1. i # 0
  BY SeqFacts DEF IInv, CyclesSound
<1>2. ASSUME NEW o \in Taken(i)
      PROVE  o \in DOMAIN orders /\ orders[o].id = OwnId(cycles[i].kind, i) /\ Backed(orders[o], cycles[i], i)
  <2>1. o \in DOMAIN orders /\ orders[o].cycle = i /\ OrderOwned(orders[o], cycles)
    BY DEF Taken, IInv, OrdersOwned
  <2> QED BY <1>1, <2>1 DEF OrderOwned, Backed
<1>3. ASSUME NEW o \in Taken(i), NEW p \in Taken(i) PROVE o = p
  BY <1>2 DEF IInv, OrdersOwned
<1>4. /\ Seen(i).status = cycles[i].status /\ Seen(i).orders = Cardinality(Taken(i))
      /\ Seen(i).recorded = (\E o \in Taken(i) : cycles[i].command = orders[o].id)
  BY DEF Seen
<1>5. CASE Taken(i) = {}
  BY <1>4, <1>5, FS_EmptySet
<1>6. CASE Taken(i) # {}
  <2>1. PICK o : Taken(i) = {o}
    BY <1>3, <1>6
  <2>2. Cardinality({o}) = 1
    BY FS_Singleton
  <2> QED BY <1>2, <1>4, <2>1, <2>2
<1> QED BY <1>2, <1>4, <1>5, <1>6

\* Whatever else happens, a cycle is seen the same if its row, its command and
\* its orders are.
LEMMA SeenSame ==
    ASSUME NEW i, Taken(i)' = Taken(i), \A o \in Taken(i) : orders'[o].id = orders[o].id,
           cycles'[i].status = cycles[i].status,
           Taken(i) # {} => cycles'[i].command = cycles[i].command
    PROVE  Seen(i)' = Seen(i)
BY DEF Seen

\* Nothing is seen to change.
LEMMA NothingSeen ==
    ASSUME DOMAIN cycles' = DOMAIN cycles, \A i \in DOMAIN cycles : Seen(i)' = Seen(i)
    PROVE  Seens' = Seens
BY DEF Seens

\* The orders a cycle has at the broker follow from the orders.
LEMMA TakenSame ==
    ASSUME SameTaken(orders, orders'), NEW i
    PROVE  Taken(i)' = Taken(i) /\ \A o \in Taken(i) : orders'[o].id = orders[o].id
BY DEF Taken, SameTaken

\* Orders progress, and no cycle changes.
LEMMA OrdersProgress ==
    ASSUME SameTaken(orders, orders'), cycles' = cycles
    PROVE  Seens' = Seens
<1>1. ASSUME NEW i \in DOMAIN cycles PROVE Seen(i)' = Seen(i)
  BY TakenSame, SeenSame
<1> QED BY <1>1, NothingSeen

\* Nothing about cycles and orders changes.
LEMMA OrdersIdle ==
    ASSUME orders' = orders, cycles' = cycles
    PROVE  Seens' = Seens
BY OrdersProgress DEF SameTaken

\* A row of one cycle changes: the step is the cycle's own.
LEMMA OneSeen ==
    ASSUME NEW i \in DOMAIN cycles, DOMAIN cycles' = DOMAIN cycles,
           \A j \in DOMAIN cycles : j # i => Seen(j)' = Seen(j)
    PROVE  /\ DOMAIN Seens = DOMAIN cycles /\ Seens[i] = Seen(i)
           /\ Seens' = [Seens EXCEPT ![i] = Seen(i)']
BY DEF Seens

\* A running cycle gets another checkpoint: its order may become known to it, and
\* nothing else is seen to change.
LEMMA CheckpointSeen ==
    ASSUME IInv, NEW i \in DOMAIN cycles, NEW d, cycles' = [cycles EXCEPT ![i] = d],
           SameTaken(orders, orders'), cycles[i].status = "running", d.status = "running",
           d.command = cycles[i].command \/ cycles[i].command = NoCommand
    PROVE  Lifecycle!Next \/ Seens' = Seens
<1>1. DOMAIN cycles' = DOMAIN cycles /\ cycles'[i] = d /\ \A j \in DOMAIN cycles : j # i => cycles'[j] = cycles[j]
  BY FieldSet
<1>2. ASSUME NEW j \in DOMAIN cycles, j # i PROVE Seen(j)' = Seen(j)
  BY <1>1, <1>2, TakenSame, SeenSame
<1>3. Taken(i)' = Taken(i) /\ \A o \in Taken(i) : orders'[o].id = orders[o].id
  BY TakenSame
<1>4. CASE Taken(i) = {} \/ d.command = cycles[i].command
  <2>1. Seen(i)' = Seen(i)
    BY <1>1, <1>3, <1>4, SeenSame
  <2>2. \A j \in DOMAIN cycles : Seen(j)' = Seen(j)
    BY <1>2, <2>1
  <2> QED BY <1>1, <2>2, NothingSeen
<1>5. CASE Taken(i) # {} /\ d.command # cycles[i].command
  <2>1. PICK o : Taken(i) = {o} /\ o \in DOMAIN orders /\ orders[o].id = OwnId(cycles[i].kind, i) /\ Seen(i).orders = 1
    BY <1>5, TakenOne
  <2>2. cycles[i].command # orders[o].id
    <3>1. OwnId(cycles[i].kind, i) # NoCommand
      BY DEF OwnId, CommandId, PositionCommandId, NoCommand
    <3> QED BY <1>5, <2>1, <3>1
  <2>3. Cardinality(Taken(i)) = 1
    BY <2>1, FS_Singleton
  <2>4. Seen(i) = [status |-> "running", orders |-> 1, recorded |-> FALSE]
    <3>1. (\E p \in Taken(i) : cycles[i].command = orders[p].id) = FALSE
      BY <2>1, <2>2
    <3> QED BY <2>3, <3>1 DEF Seen
  <2>5. Seen(i)' = [status |-> "running", orders |-> 1, recorded |-> d.command = orders[o].id]
    <3>1. (\E p \in Taken(i)' : cycles'[i].command = orders'[p].id) = (d.command = orders[o].id)
      BY <1>1, <1>3, <2>1
    <3>2. cycles'[i].status = "running" /\ Cardinality(Taken(i)') = 1
      BY <1>1, <1>3, <2>3
    <3> QED BY <3>1, <3>2 DEF Seen
  <2>6. /\ DOMAIN Seens = DOMAIN cycles /\ Seens[i] = Seen(i)
        /\ Seens' = [Seens EXCEPT ![i] = Seen(i)']
    BY <1>1, <1>2, OneSeen
  <2>7. CASE d.command # orders[o].id
    <3>1. Seen(i)' = Seen(i)
      BY <2>4, <2>5, <2>7
    <3>2. \A j \in DOMAIN cycles : Seen(j)' = Seen(j)
      BY <1>2, <3>1
    <3> QED BY <1>1, <3>2, NothingSeen
  <2>8. CASE d.command = orders[o].id
    <3>1. Seen(i)' = [Seens[i] EXCEPT !.recorded = TRUE]
      <4>1. (d.command = orders[o].id) = TRUE
        BY <2>8
      <4>2. Seen(i)' = [status |-> "running", orders |-> 1, recorded |-> TRUE]
        BY <2>5, <4>1
      <4>3. PICK b, t : b = FALSE /\ t = TRUE
        OBVIOUS
      <4>4. Seens[i] = [status |-> "running", orders |-> 1, recorded |-> b]
            /\ Seen(i)' = [status |-> "running", orders |-> 1, recorded |-> t]
        BY <2>4, <2>6, <4>2, <4>3
      <4>5. Seen(i)' = [Seens[i] EXCEPT !.recorded = t]
        BY <4>4
      <4> QED BY <4>3, <4>5
    <3>2. Seens' = [Seens EXCEPT ![i].recorded = TRUE]
      BY <2>6, <3>1
    <3>3. i \in DOMAIN Seens /\ Seens[i].status = "running" /\ Seens[i].orders = 1
      BY <2>4, <2>6
    <3>4. Lifecycle!Record(i)
      BY <3>2, <3>3 DEF Lifecycle!Record, Lifecycle!Running, Seens
    <3> QED BY <3>3, <3>4 DEF Lifecycle!Next, Seens
  <2> QED BY <2>7, <2>8
<1> QED BY <1>4, <1>5

\* A worker's node, or its checkpoint after an order.
LEMMA WorkerSeen ==
    ASSUME IInv, NEW w \in Workers, at[w].cycle # 0, NEW d,
           cycles' = [cycles EXCEPT ![at[w].cycle] = d], SameTaken(orders, orders'),
           d.status = cycles[at[w].cycle].status,
           cycles[at[w].cycle].node \in Ending => d.command = cycles[at[w].cycle].command
    PROVE  Lifecycle!Next \/ Seens' = Seens
<1>1. PICK i : i = at[w].cycle
  OBVIOUS
<1>2. i \in DOMAIN cycles /\ Sound(cycles[i], i, calls) /\ cycles[i].status = "running"
  BY <1>1, WorkerKnown
<1>3. cycles[i].node \notin Ending => cycles[i].command = NoCommand
  BY <1>2 DEF Sound, Reasoned, Watched, Ending
<1> QED BY <1>1, <1>2, <1>3, CheckpointSeen

\* A node that neither submits nor ends a cycle.
LEMMA NodeSeen ==
    ASSUME IInv, IInv', NEW w \in Workers, NEW node, At(w, node), node \notin Ending,
           (\E d : Quietly(w, d)) \/ (\E r : Commit(w, r))
    PROVE  Lifecycle!Next \/ Seens' = Seens
<1>1. at[w].cycle # 0 /\ cycles[at[w].cycle].node \notin Ending /\ at[w].step = "node"
  BY AtItsNode DEF At
<1>2. orders' = orders /\ SameTaken(orders, orders')
  BY DEF Quietly, Commit, SameTaken
<1>3. CASE cycles' = cycles
  BY <1>2, <1>3, OrdersIdle
<1>4. ASSUME NEW d, Checkpoint(w, d) PROVE Lifecycle!Next \/ Seens' = Seens
  <2>1. at[w].cycle \in DOMAIN cycles /\ cycles[at[w].cycle].status = "running"
    BY <1>1, WorkerKnown
  <2>2. cycles' = [cycles EXCEPT ![at[w].cycle] = d] /\ at' = at
    BY <1>4 DEF Checkpoint
  <2>3. cycles'[at[w].cycle] = d
    BY <2>1, <2>2, FieldSet
  <2>4. AtWork(w, at'[w], cycles', todo')
    BY DEF IInv
  <2>5. d.status = "running"
    BY <1>1, <2>2, <2>3, <2>4 DEF AtWork
  <2> QED BY <1>1, <1>2, <2>1, <2>2, <2>5, WorkerSeen
<1> QED BY <1>3, <1>4 DEF Quietly, Commit

\* The nodes of the decision graph that ask or set something.
LEMMA DecisionNodesSeen ==
    ASSUME IInv, IInv',
           \/ Trigger \/ (\E r : Hydrate(r)) \/ Perception \/ WorldModel \/ Discovery \/ Strategy
           \/ SelectCandidates \/ Debate \/ MetaDecision \/ SwitchStrategy \/ Tactician \/ ValidateProposal
    PROVE  Lifecycle!Next \/ Seens' = Seens
<1>1. PICK node : /\ At("decision", node) /\ node \in Hearing \cup Weighing \cup Entering
                  /\ (\E d : Quietly("decision", d)) \/ (\E r : Commit("decision", r))
  BY DEF Trigger, Hydrate, Perception, WorldModel, Discovery, Strategy, SelectCandidates, Debate, MetaDecision,
         SwitchStrategy, Tactician, ValidateProposal, Swarm, Hearing, Weighing, Entering
<1>2. node \notin Ending /\ "decision" \in Workers
  BY <1>1 DEF Hearing, Weighing, Entering, Ending, PersistNodes, Workers
<1> QED BY <1>1, <1>2, NodeSeen

\* Those of the position graph.
LEMMA PositionNodesSeen ==
    ASSUME IInv, IInv', HydratePosition \/ LoadStrategy \/ LoadThesis \/ Thesis \/ Critic \/ Decide
    PROVE  Lifecycle!Next \/ Seens' = Seens
<1>1. PICK node : /\ At("position", node) /\ node \in Watching
                  /\ (\E d : Quietly("position", d)) \/ (\E r : Commit("position", r))
  BY DEF HydratePosition, LoadStrategy, LoadThesis, Thesis, Critic, Decide, Watching
<1>2. node \notin Ending /\ "position" \in Workers
  BY <1>1 DEF Watching, Ending, PersistNodes, Workers
<1> QED BY <1>1, <1>2, NodeSeen

\* The persist nodes keep the command.
LEMMA PersistSeen ==
    ASSUME IInv, PersistCycle
    PROVE  Lifecycle!Next \/ Seens' = Seens
<1>1. /\ "decision" \in Workers /\ At("decision", Cycle("decision").node)
      /\ Checkpoint("decision", Persist(Cycle("decision"))) /\ orders' = orders
  BY DEF PersistCycle, Workers, At, Cycle, Quietly
<1>2. /\ Reasoned(Cycle("decision")) /\ DOMAIN Cycle("decision") = DecisionFields /\ at["decision"].cycle # 0
  BY <1>1, AtItsNode, AtNodeFields
<1>3. Alike(Cycle("decision"), Persist(Cycle("decision")), {"node"})
  BY <1>2, GoOn DEF Persist
<1>4. /\ Persist(Cycle("decision")).command = Cycle("decision").command
      /\ Persist(Cycle("decision")).status = Cycle("decision").status
  BY <1>2, <1>3, AlikeDecision
<1> QED BY <1>1, <1>2, <1>4, WorkerSeen DEF Checkpoint, Cycle, SameTaken

\* A node that only goes on, with an error or without, and keeps the command.
LEMMA KeptSeen ==
    ASSUME IInv, NEW w \in Workers, at[w].cycle # 0, NEW d, cycles' = [cycles EXCEPT ![at[w].cycle] = d],
           Alike(cycles[at[w].cycle], d, {"errors", "node"}), orders' = orders
    PROVE  Lifecycle!Next \/ Seens' = Seens
<1>1. Sound(cycles[at[w].cycle], at[w].cycle, calls)
  BY WorkerKnown
<1>2. {"command", "status"} \subseteq DOMAIN cycles[at[w].cycle]
  BY <1>1 DEF Sound, Reasoned, Watched, DecisionFields, PositionFields
<1>3. d.command = cycles[at[w].cycle].command /\ d.status = cycles[at[w].cycle].status
  BY <1>2 DEF Alike
<1> QED BY <1>3, WorkerSeen DEF SameTaken

\* submit_execution_command, up to the gateway.
LEMMA SubmitSeen ==
    ASSUME IInv, SubmitEntry
    PROVE  Lifecycle!Next \/ Seens' = Seens
<1>1. /\ "decision" \in Workers /\ At("decision", "submit_execution_command") /\ orders' = orders
      /\ \/ cycles' = cycles
         \/ Checkpoint("decision", GoTo(Cycle("decision"), "persist_cycle"))
         \/ Checkpoint("decision", GoTo(Error(Cycle("decision"), "submit_validation_failed"), "persist_cycle"))
  BY DEF SubmitEntry, Workers
<1>2. DOMAIN Cycle("decision") = DecisionFields /\ at["decision"].cycle # 0
  BY <1>1, AtItsNode, AtNodeFields
<1>3. CASE cycles' = cycles
  BY <1>1, <1>3, OrdersIdle
<1>4. CASE Checkpoint("decision", GoTo(Cycle("decision"), "persist_cycle"))
  <2>1. Alike(Cycle("decision"), GoTo(Cycle("decision"), "persist_cycle"), {"errors", "node"})
    BY <1>2, GoOn DEF Alike
  <2> QED BY <1>1, <1>2, <1>4, <2>1, KeptSeen DEF Checkpoint, Cycle
<1>5. CASE Checkpoint("decision", GoTo(Error(Cycle("decision"), "submit_validation_failed"), "persist_cycle"))
  <2>1. Alike(Cycle("decision"), GoTo(Error(Cycle("decision"), "submit_validation_failed"), "persist_cycle"),
              {"errors", "node"})
    BY <1>2, ErrorAndGo
  <2> QED BY <1>1, <1>2, <1>5, <2>1, KeptSeen DEF Checkpoint, Cycle
<1> QED BY <1>1, <1>3, <1>4, <1>5

\* A cancellation is of no order that the broker never took.
LEMMA CancelTaken ==
    ASSUME NEW o, IInv, CancelOrder(o)
    PROVE  SameTaken(orders, orders')
<1>1. PICK status, live : /\ orders' = [orders EXCEPT ![o] = [[orders[o] EXCEPT !.live = live] EXCEPT !.status = status]]
                          /\ live = IF orders[o].live = "open" THEN "cancelled" ELSE orders[o].live
  BY DEF CancelOrder
<1>2. SameOrders(orders, orders')
  BY CancelKeeps DEF IInv, OrdersOwned
<1>3. \A p \in DOMAIN orders : /\ DOMAIN orders[p] = OrderFields
                               /\ orders'[p].id = orders[p].id /\ orders'[p].cycle = orders[p].cycle
  BY <1>2 DEF SameOrders, OrderIdentity, IInv, OrdersOwned
<1>4. ASSUME NEW p \in DOMAIN orders PROVE orders'[p].live = "none" <=> orders[p].live = "none"
  <2>1. CASE p # o
    BY <1>1, <2>1
  <2>2. CASE p = o
    <3>1. orders'[o] = [[orders[o] EXCEPT !.live = live] EXCEPT !.status = status]
      BY <1>1, <2>2
    <3>2. "live" \in DOMAIN orders[o]
      BY <1>3, <2>2 DEF OrderFields
    <3>3. orders'[o].live = live
      BY <3>1, <3>2
    <3> QED BY <1>1, <2>2, <3>3
  <2> QED BY <2>1, <2>2
<1> QED BY <1>2, <1>3, <1>4 DEF SameTaken, SameOrders

\* What the market does happens to orders that the broker has.
LEMMA MarketSeen ==
    ASSUME IInv, Market
    PROVE  Seens' = Seens
<1>1. PICK o \in DOMAIN orders : BrokerFills(o) \/ BrokerDrops(o)
  BY DEF Market
<1>2. cycles' = cycles /\ orders[o].live = "open" /\ DOMAIN orders[o] = OrderFields /\ DOMAIN orders' = DOMAIN orders
      /\ \A p \in DOMAIN orders : p # o => orders'[p] = orders[p]
  BY <1>1 DEF BrokerFills, BrokerDrops, IInv, OrdersOwned
<1>3. orders'[o].id = orders[o].id /\ orders'[o].cycle = orders[o].cycle
  <2>1. SameOrders(orders, orders')
    BY <1>1, FillKeeps, DropKeeps DEF IInv, OrdersOwned
  <2> QED BY <1>2, <2>1 DEF SameOrders, OrderIdentity
<1>4. orders'[o].live # "none"
  <2>1. CASE BrokerFills(o)
    <3>1. orders' = [orders EXCEPT ![o].live = "filled", ![o].status = "filled", ![o].filled = orders[o].qty]
      BY <2>1 DEF BrokerFills
    <3>2. orders'[o].live = "filled"
      BY <1>2, <3>1 DEF OrderFields
    <3> QED BY <3>2
  <2>2. CASE BrokerDrops(o)
    <3>1. PICK status : orders' = [orders EXCEPT ![o].live = "cancelled", ![o].status = status]
      BY <2>2 DEF BrokerDrops
    <3>2. orders'[o].live = "cancelled"
      BY <1>2, <3>1 DEF OrderFields
    <3> QED BY <3>2
  <2> QED BY <1>1, <2>1, <2>2
<1>5. SameTaken(orders, orders')
  BY <1>2, <1>3, <1>4 DEF SameTaken
<1> QED BY <1>2, <1>5, OrdersProgress

\* route_position_action.
LEMMA RouteSeen ==
    ASSUME IInv, IInv', RouteWithoutOrder \/ RouteOrder
    PROVE  Lifecycle!Next \/ Seens' = Seens
<1>1. At("position", "route_position_action")
  BY DEF RouteWithoutOrder, RouteOrder
<1>2. /\ at["position"].cycle # 0 /\ at["position"].cycle \in DOMAIN cycles /\ "position" \in Workers
      /\ cycles[at["position"].cycle].status = "running" /\ cycles[at["position"].cycle].node \notin Ending
      /\ at["position"].step = "node"
  BY <1>1, AtRoute
<1>3. \/ cycles' = cycles /\ orders' = orders
      \/ (\E d : Checkpoint("position", d)) /\ (orders' = orders \/ \E o : CancelOrder(o))
  BY DEF RouteWithoutOrder, RouteOrder
<1>4. SameTaken(orders, orders')
  BY <1>3, CancelTaken DEF SameTaken
<1>5. CASE cycles' = cycles
  BY <1>4, <1>5, OrdersProgress
<1>6. ASSUME NEW d, Checkpoint("position", d) PROVE Lifecycle!Next \/ Seens' = Seens
  <2>1. cycles' = [cycles EXCEPT ![at["position"].cycle] = d] /\ at' = at
    BY <1>6 DEF Checkpoint
  <2>2. cycles'[at["position"].cycle] = d
    BY <1>2, <2>1, FieldSet
  <2>3. AtWork("position", at'["position"], cycles', todo')
    BY <1>2 DEF IInv
  <2>4. d.status = "running"
    BY <1>2, <2>1, <2>2, <2>3 DEF AtWork
  <2> QED BY <1>2, <1>4, <2>1, <2>4, WorkerSeen
<1> QED BY <1>3, <1>5, <1>6

\* The order manager, and a replacement's cancellation.
LEMMA ManageSeen ==
    ASSUME IInv, (\E d, usable : ManageOrder(d, usable)) \/ (\E w : CancelFirst(w))
    PROVE  Seens' = Seens
<1>1. cycles' = cycles /\ (orders' = orders \/ \E o : CancelOrder(o))
  BY DEF ManageOrder, CancelFirst
<1> QED BY <1>1, CancelTaken, OrdersProgress, OrdersIdle

\* The gateway, and the record of what it let through: the order's id is the
\* checkpoint's command.
LEMMA GatewaySeen ==
    ASSUME IInv, NEW w \in Workers, Gateway(w) \/ RecordOrder(w)
    PROVE  Lifecycle!Next \/ Seens' = Seens
<1>1. at[w].step \in Ordering /\ orders' = orders
  BY DEF Gateway, RecordOrder, Ordering
<1>2. CASE cycles' = cycles
  BY <1>1, <1>2, OrdersIdle
<1>3. CASE cycles' # cycles
  <2>1. at[w].cycle # 0
    BY <1>3 DEF Gateway, Blocked, RecordOrder
  <2> DEFINE c == cycles[at[w].cycle]
  <2>2. /\ "errors" \in DOMAIN c /\ "node" \in DOMAIN c /\ "command" \in DOMAIN c /\ Submitting(c)
        /\ DOMAIN c \in {DecisionFields, PositionFields}
    <3>1. Sound(c, at[w].cycle, calls)
      BY <2>1, WorkerKnown
    <3> QED BY <1>1, <2>1, <3>1, RequestKnown DEF Sound, Reasoned, Watched
  <2>3. c.node \notin Ending /\ "status" \in DOMAIN c
    BY <2>2 DEF Submitting, Ending, PersistNodes, DecisionFields, PositionFields
  <2>4. PICK n : \/ cycles' = [cycles EXCEPT ![at[w].cycle] = GoTo(Error(c, "gateway_blocked"), n)]
                 \/ cycles' = [cycles EXCEPT ![at[w].cycle] = GoTo([c EXCEPT !.command = at[w].req.id], n)]
    BY <1>3 DEF Gateway, Blocked, RecordOrder
  <2>5. /\ GoTo(Error(c, "gateway_blocked"), n).status = c.status
        /\ GoTo([c EXCEPT !.command = at[w].req.id], n).status = c.status
    BY <2>2, <2>3 DEF GoTo, Error
  <2> QED BY <1>1, <2>1, <2>3, <2>4, <2>5, WorkerSeen DEF SameTaken
<1> QED BY <1>2, <1>3

\* Order n, new or rejected before, is the one that w sends; the others are as
\* they were.
SentAs(n, w, live, os) ==
    /\ DOMAIN os = DOMAIN orders \cup {n}
    /\ n \in DOMAIN orders => orders[n].live = "none"
    /\ \A o \in DOMAIN orders : o # n => os[o] = orders[o]
    /\ os[n].id = at[w].req.id /\ os[n].cycle = at[w].cycle /\ os[n].live = live

\* What is sent is one order.
LEMMA PlacedOne ==
    ASSUME IInv, NEW w \in Workers, at[w].step = "send", NEW status, NEW live,
           \A o \in Existing(w) : orders[o].live = "none"
    PROVE  \E n : SentAs(n, w, live, Placed(w, status, live))
<1>1. IsSeq(orders) /\ OrdersOwned(orders, cycles)
  BY DEF IInv, OrdersOwned
<1>2. ASSUME NEW s
      PROVE  LET ord == NewOrder(w, s, live) IN
             ord.id = at[w].req.id /\ ord.cycle = at[w].cycle /\ ord.live = live
  BY DEF NewOrder
<1>3. CASE Existing(w) = {}
  <2>1. Placed(w, status, live) = Append(orders, NewOrder(w, status, live))
    BY <1>3 DEF Placed
  <2>2. PICK ord : ord = NewOrder(w, status, live)
    OBVIOUS
  <2>3. /\ DOMAIN Append(orders, ord) = DOMAIN orders \cup {Len(orders) + 1}
        /\ Append(orders, ord)[Len(orders) + 1] = ord
        /\ \A o \in DOMAIN orders : Append(orders, ord)[o] = orders[o]
    BY <1>1, SeqAppended
  <2>4. Len(orders) + 1 \notin DOMAIN orders
    BY <1>1, SeqFacts
  <2>5. ord.id = at[w].req.id /\ ord.cycle = at[w].cycle /\ ord.live = live
    BY <1>2, <2>2
  <2> QED BY <2>1, <2>2, <2>3, <2>4, <2>5 DEF SentAs
<1>4. CASE Existing(w) # {}
  <2>1. PICK s : s = IF live = "filled" THEN "filled" ELSE "rejected"
    OBVIOUS
  <2>2. PICK ord : ord = NewOrder(w, s, live)
    OBVIOUS
  <2>3. Placed(w, status, live) = [o \in DOMAIN orders |-> IF orders[o].id = at[w].req.id THEN ord ELSE orders[o]]
    BY <1>4, <2>1, <2>2 DEF Placed
  <2>4. PICK n \in Existing(w) : TRUE
    BY <1>4
  <2>5. n \in DOMAIN orders /\ orders[n].id = at[w].req.id /\ orders[n].live = "none"
    BY <2>4 DEF Existing
  <2>6. \A o \in DOMAIN orders : o # n => orders[o].id # at[w].req.id
    BY <1>1, <2>5 DEF OrdersOwned
  <2>7. ord.id = at[w].req.id /\ ord.cycle = at[w].cycle /\ ord.live = live
    BY <1>2, <2>2
  <2>8. PICK os : os = [o \in DOMAIN orders |-> IF orders[o].id = at[w].req.id THEN ord ELSE orders[o]]
    OBVIOUS
  <2>9. /\ DOMAIN os = DOMAIN orders \cup {n} /\ os[n] = ord
        /\ \A o \in DOMAIN orders : o # n => os[o] = orders[o]
    BY <2>5, <2>6, <2>8
  <2> QED BY <2>3, <2>5, <2>7, <2>8, <2>9 DEF SentAs
<1> QED BY <1>3, <1>4

\* The broker takes the one order of a cycle, or nothing is seen.
LEMMA SendSeen ==
    ASSUME IInv, NEW w \in Workers, Send(w)
    PROVE  Lifecycle!Next \/ Seens' = Seens
<1>1. at[w].step = "send" /\ at[w].step \in Ordering /\ cycles' = cycles
  BY DEF Send, Ordering
<1>2. CASE orders' = orders
  BY <1>1, <1>2, OrdersIdle
<1>3. CASE orders' # orders
  <2>1. PICK status, live : orders' = Placed(w, status, live) /\ \A o \in Existing(w) : orders[o].live = "none"
    BY <1>3 DEF Send
  <2>2. PICK n : /\ DOMAIN orders' = DOMAIN orders \cup {n}
                 /\ n \in DOMAIN orders => orders[n].live = "none"
                 /\ \A o \in DOMAIN orders : o # n => orders'[o] = orders[o]
                 /\ orders'[n].id = at[w].req.id /\ orders'[n].cycle = at[w].cycle /\ orders'[n].live = live
    <3>1. PICK n : SentAs(n, w, live, Placed(w, status, live))
      BY <1>1, <2>1, PlacedOne
    <3> QED BY <2>1, <3>1 DEF SentAs
  <2>3. ASSUME NEW j \in DOMAIN cycles, j # at[w].cycle \/ live = "none"
        PROVE  Seen(j)' = Seen(j)
    <3>1. Taken(j)' = Taken(j) /\ \A o \in Taken(j) : orders'[o].id = orders[o].id
      BY <2>2, <2>3 DEF Taken
    <3> QED BY <1>1, <3>1, SeenSame
  <2>4. CASE at[w].cycle = 0 \/ live = "none"
    <3>1. 0 \notin DOMAIN cycles
      BY SeqFacts DEF IInv, CyclesSound
    <3>2. \A j \in DOMAIN cycles : Seen(j)' = Seen(j)
      BY <2>3, <2>4, <3>1
    <3> QED BY <1>1, <3>2, NothingSeen
  <2>5. CASE at[w].cycle # 0 /\ live # "none"
    <3>1. PICK i : i = at[w].cycle
      OBVIOUS
    <3>2. /\ i \in DOMAIN cycles /\ cycles[i].status = "running" /\ cycles[i].command = NoCommand
          /\ at[w].req.id = OwnId(cycles[i].kind, i)
      BY <1>1, <2>5, <3>1, WorkerKnown, RequestKnown DEF Submitting
    <3>3. OwnId(cycles[i].kind, i) # NoCommand
      BY DEF OwnId, CommandId, PositionCommandId, NoCommand
    <3>4. Taken(i) = {}
      <4> SUFFICES ASSUME NEW o \in Taken(i) PROVE FALSE
        OBVIOUS
      <4>1. o \in DOMAIN orders /\ orders[o].id = at[w].req.id /\ orders[o].live # "none"
        BY <3>2, TakenOne DEF Taken
      <4> QED BY <2>1, <4>1 DEF Existing
    <3>5. Taken(i)' = {n}
      BY <2>2, <2>5, <3>1, <3>4 DEF Taken
    <3>6. Seen(i) = [status |-> "running", orders |-> 0, recorded |-> FALSE]
      <4>1. (\E o \in Taken(i) : cycles[i].command = orders[o].id) = FALSE /\ Cardinality(Taken(i)) = 0
        BY <3>4, FS_EmptySet
      <4> QED BY <3>2, <4>1 DEF Seen
    <3>7. Seen(i)' = [status |-> "running", orders |-> 1, recorded |-> FALSE]
      <4>1. (\E o \in Taken(i)' : cycles'[i].command = orders'[o].id) = FALSE /\ Cardinality(Taken(i)') = 1
        BY <1>1, <2>2, <3>2, <3>3, <3>5, FS_Singleton
      <4> QED BY <1>1, <3>2, <4>1 DEF Seen
    <3>8. /\ DOMAIN Seens = DOMAIN cycles /\ Seens[i] = Seen(i) /\ Seens' = [Seens EXCEPT ![i] = Seen(i)']
      BY <1>1, <2>3, <3>1, <3>2, OneSeen
    <3>9. Seen(i)' = [Seens[i] EXCEPT !.orders = 1]
      <4>1. PICK b : b = FALSE
        OBVIOUS
      <4>2. Seens[i] = [status |-> "running", orders |-> 0, recorded |-> b]
            /\ Seen(i)' = [status |-> "running", orders |-> 1, recorded |-> b]
        BY <3>6, <3>7, <3>8, <4>1
      <4> QED BY <4>2
    <3>10. Seens' = [Seens EXCEPT ![i].orders = 1] /\ i \in DOMAIN Seens
           /\ Seens[i].status = "running" /\ Seens[i].orders = 0
      BY <3>2, <3>6, <3>8, <3>9
    <3>11. Lifecycle!Place(i)
      BY <3>10 DEF Lifecycle!Place, Lifecycle!Running, Seens
    <3> QED BY <3>10, <3>11 DEF Lifecycle!Next, Seens
  <2> QED BY <2>4, <2>5
<1> QED BY <1>2, <1>3

\* The registry has a cycle as completed, or keeps it running.
LEMMA SettleSeen ==
    ASSUME IInv, IInv', NEW w \in Workers, Settle(w)
    PROVE  Lifecycle!Next \/ Seens' = Seens
<1>1. PICK i : i = at[w].cycle
  OBVIOUS
<1>2. PICK st \in {"completed", "running"} :
        cycles' = [cycles EXCEPT ![i] = [cycles[i] EXCEPT !.status = st]] /\ orders' = orders /\ At(w, "end")
  BY <1>1 DEF Settle
<1>3. i # 0 /\ i \in DOMAIN cycles /\ cycles[i].status = "running" /\ Sound(cycles[i], i, calls)
  BY <1>1, <1>2, AtItsNode, WorkerKnown
<1>4. /\ DOMAIN cycles' = DOMAIN cycles /\ cycles'[i] = [cycles[i] EXCEPT !.status = st]
      /\ \A j \in DOMAIN cycles : j # i => cycles'[j] = cycles[j]
  BY <1>2, <1>3, FieldSet
<1>5. cycles'[i].status = st /\ cycles'[i].command = cycles[i].command
  BY <1>3, <1>4 DEF Sound, Reasoned, Watched, DecisionFields, PositionFields
<1>6. \A j : Taken(j)' = Taken(j)
  BY <1>2 DEF Taken
<1>7. ASSUME NEW j \in DOMAIN cycles, j # i PROVE Seen(j)' = Seen(j)
  BY <1>2, <1>4, <1>6, <1>7, SeenSame
<1>8. CASE st = "running"
  <2>1. Seen(i)' = Seen(i)
    BY <1>2, <1>3, <1>5, <1>6, <1>8, SeenSame
  <2>2. \A j \in DOMAIN cycles : Seen(j)' = Seen(j)
    BY <1>7, <2>1
  <2> QED BY <1>4, <2>2, NothingSeen
<1>9. CASE st = "completed"
  <2>1. PICK k, r : k = Cardinality(Taken(i)) /\ r = (\E o \in Taken(i) : cycles[i].command = orders[o].id)
    OBVIOUS
  <2>2. Seen(i) = [status |-> "running", orders |-> k, recorded |-> r]
    BY <1>3, <2>1 DEF Seen
  <2>3. Seen(i)' = [status |-> "completed", orders |-> k, recorded |-> r]
    <3>1. (\E o \in Taken(i)' : cycles'[i].command = orders'[o].id) = r /\ Cardinality(Taken(i)') = k
      BY <1>2, <1>5, <1>6, <2>1
    <3> QED BY <1>5, <1>9, <3>1 DEF Seen
  <2>4. k = 0 \/ r
    <3>1. CASE Taken(i) = {}
      BY <2>1, <3>1, FS_EmptySet
    <3>2. ASSUME NEW o \in Taken(i) PROVE r
      <4>1. o \in DOMAIN orders' /\ orders'[o].cycle = i /\ OrderOwned(orders'[o], cycles')
        BY <1>2, <3>2 DEF Taken, IInv, OrdersOwned
      <4>2. Backed(orders'[o], cycles'[i], i)
        BY <1>3, <4>1 DEF OrderOwned
      <4> QED BY <1>2, <1>5, <1>9, <2>1, <3>2, <4>2 DEF Backed
    <3> QED BY <3>1, <3>2
  <2>5. /\ DOMAIN Seens = DOMAIN cycles /\ Seens[i] = Seen(i) /\ Seens' = [Seens EXCEPT ![i] = Seen(i)']
    BY <1>3, <1>4, <1>7, OneSeen
  <2>6. Seens' = [Seens EXCEPT ![i].status = "completed"] /\ i \in DOMAIN Seens
        /\ Seens[i].status = "running" /\ (Seens[i].orders = 0 \/ Seens[i].recorded)
    <3>1. Seen(i)' = [Seens[i] EXCEPT !.status = "completed"]
      BY <2>2, <2>3, <2>5
    <3>2. Seens[i].status = "running" /\ Seens[i].orders = k /\ Seens[i].recorded = r
      BY <2>2, <2>5
    <3> QED BY <1>3, <2>4, <2>5, <3>1, <3>2
  <2>7. Lifecycle!Complete(i)
    BY <2>6 DEF Lifecycle!Complete, Lifecycle!Running, Seens
  <2> QED BY <2>6, <2>7 DEF Lifecycle!Next, Seens
<1> QED BY <1>2, <1>8, <1>9

\* Sequences of the same domain and elements are the same.
LEMMA SameSeq ==
    ASSUME NEW s, NEW t, IsSeq(s), IsSeq(t), DOMAIN s = DOMAIN t, \A i \in DOMAIN s : s[i] = t[i]
    PROVE  s = t
<1>1. PICK S, T : s \in Seq(S) /\ t \in Seq(T)
  BY DEF IsSeq
<1>2. s = [i \in DOMAIN s |-> s[i]] /\ t = [i \in DOMAIN t |-> t[i]]
  BY <1>1
<1> QED BY <1>2

\* A cycle begins.
LEMMA BegunSeen ==
    ASSUME IInv, IInv', NEW d, cycles' = Append(cycles, d), d.status = "running", orders' = orders
    PROVE  Lifecycle!Next
<1>1. PICK n : n = Len(cycles) + 1
  OBVIOUS
<1>2. /\ IsSeq(cycles) /\ IsSeq(cycles') /\ n \notin DOMAIN cycles /\ n # 0 /\ DOMAIN cycles' = DOMAIN cycles \cup {n}
      /\ cycles'[n] = d /\ \A i \in DOMAIN cycles : cycles'[i] = cycles[i]
  BY <1>1, SeqFacts, SeqAppended DEF IInv, CyclesSound
<1>3. ASSUME NEW i \in DOMAIN cycles PROVE Seen(i)' = Seen(i)
  <2>1. SameTaken(orders, orders')
    BY DEF SameTaken
  <2> QED BY <1>2, <2>1, TakenSame, SeenSame
<1>4. Seen(n)' = Lifecycle!Begun
  <2>1. Taken(n)' = {}
    BY <1>2 DEF Taken, IInv, OrdersOwned, OrderOwned
  <2>2. Cardinality(Taken(n)') = 0 /\ (\E o \in Taken(n)' : cycles'[n].command = orders'[o].id) = FALSE
    BY <2>1, FS_EmptySet
  <2> QED BY <1>2, <2>2 DEF Seen, Lifecycle!Begun
<1>5. IsSeq(Seens) /\ IsSeq(Seens')
  BY <1>2, SeqMapped DEF Seens
<1>6. Len(Seens) + 1 = n
  <2>1. Len(Seens) \in Nat /\ Len(cycles) \in Nat /\ 1..Len(Seens) = 1..Len(cycles)
    BY <1>2, <1>5, SeqFacts DEF Seens
  <2> QED BY <1>1, <2>1
<1>7. /\ IsSeq(Append(Seens, Lifecycle!Begun)) /\ DOMAIN Append(Seens, Lifecycle!Begun) = DOMAIN Seens \cup {n}
      /\ Append(Seens, Lifecycle!Begun)[n] = Lifecycle!Begun
      /\ \A i \in DOMAIN Seens : Append(Seens, Lifecycle!Begun)[i] = Seens[i]
  BY <1>5, <1>6, SeqAppended
<1>8. Seens' = Append(Seens, Lifecycle!Begun)
  <2>1. DOMAIN Seens = DOMAIN cycles /\ DOMAIN Seens' = DOMAIN cycles \cup {n}
    BY <1>2 DEF Seens
  <2>2. \A i \in DOMAIN cycles : Seens'[i] = Seen(i) /\ Seens[i] = Seen(i)
    BY <1>2, <1>3 DEF Seens
  <2>3. Seens'[n] = Lifecycle!Begun
    BY <1>2, <1>4 DEF Seens
  <2> QED BY <1>5, <1>7, <2>1, <2>2, <2>3, SameSeq
<1> QED BY <1>8 DEF Lifecycle!Next, Lifecycle!Begin, Seens

\* The work that a worker takes up.
LEMMA StartSeen ==
    ASSUME IInv, IInv', Starts
    PROVE  Lifecycle!Next \/ Seens' = Seens
<1>1. CASE \E usable : StartDecision(usable)
  <2>1. PICK usable : cycles' = Append(cycles, NewDecisionCycle(usable)) /\ orders' = orders
    BY <1>1 DEF StartDecision
  <2> QED BY <2>1, NewDecisionSound, BegunSeen
<1>2. CASE \E usable, o : StartPosition(o, usable)
  <2>1. PICK usable, s : cycles' = Append(cycles, NewPositionCycle(usable, s)) /\ orders' = orders
    BY <1>2 DEF StartPosition
  <2> QED BY <2>1, NewPositionSound, BegunSeen
<1>3. CASE \E o : StartOrderWork(o)
  BY <1>3, OrdersIdle DEF StartOrderWork
<1> QED BY <1>1, <1>2, <1>3 DEF Starts

\* Every step of the cycles is a step of the lifecycle, or none.
LEMMA StepSeen == IInv /\ IInv' /\ [Next]_vars => Lifecycle!Next \/ Seens' = Seens
<1> SUFFICES ASSUME IInv, IInv', [Next]_vars PROVE Lifecycle!Next \/ Seens' = Seens
  OBVIOUS
<1>1. CASE Starts
  BY <1>1, StartSeen
<1>2. CASE DecisionStep
  BY <1>2, DecisionNodesSeen, SubmitSeen, PersistSeen DEF DecisionStep
<1>3. CASE PositionStep
  BY <1>3, PositionNodesSeen, RouteSeen, ManageSeen DEF PositionStep
<1>4. CASE Market
  BY <1>4, MarketSeen
<1>5. CASE Recovery \/ Crash \/ DecisionTimeout \/ \E w \in Workers : NodeRaises(w) \/ OutOfOrders(w)
  BY <1>5, OrdersIdle DEF Recovery, Restart, Resumed, ResumeCycle, Crash, DecisionTimeout, NodeRaises, OutOfOrders
<1>6. ASSUME NEW w \in Workers, OrderStep(w) PROVE Lifecycle!Next \/ Seens' = Seens
  BY <1>5, <1>6, GatewaySeen, ManageSeen, SendSeen, SettleSeen DEF OrderStep
<1>7. CASE UNCHANGED vars
  BY <1>7, OrdersIdle DEF vars
<1> QED BY <1>1, <1>2, <1>3, <1>4, <1>5, <1>6, <1>7 DEF Next

\* There is no cycle at the start.
LEMMA InitSeen == Init => Lifecycle!Init
<1> SUFFICES ASSUME Init PROVE Seens = <<>>
  BY DEF Lifecycle!Init, Seens
<1>1. cycles = <<>> /\ DOMAIN <<>> = {} /\ DOMAIN Seens = DOMAIN cycles
  BY DEF Init, Seens
<1>2. IsSeq(cycles)
  BY InitIInv DEF IInv, CyclesSound
<1>3. IsSeq(Seens)
  BY <1>2, SeqMapped DEF Seens
<1> QED BY <1>1, <1>2, <1>3, SameSeq

\* The cycles over their stores follow the lifecycle: whatever is interrupted,
\* resumed or sent again beside the other worker, a cycle goes from running to
\* completed and never back, its one order is taken while it runs, and an order
\* that its checkpoint has is not lost to it.
THEOREM LifecycleFollowed == Spec => FollowsLifecycle
<1>1. IInv /\ IInv' /\ [Next]_vars => [Lifecycle!Next]_Seens
  BY StepSeen
<1> QED BY <1>1, InitSeen, InitIInv, Preserved, PTL DEF Spec, FollowsLifecycle, Lifecycle!Spec, Seens

===============================================================================
