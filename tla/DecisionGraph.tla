---------------------------- MODULE DecisionGraph -----------------------------
(***************************************************************************)
(* joker/graph/cognitive_graph.py with its perception, discovery, strategy *)
(* and debate subgraphs and the agents of joker/agents/cognitive: what one *)
(* node makes of the state of a new-entry cycle and of model_calls.        *)
(*                                                                         *)
(* A cycle is the record LangGraph checkpoints after every node; node is   *)
(* the node that runs next.  A strategy is known by its inventor, a        *)
(* proposal by its cycle.  persist_stale is left out: the proposal's       *)
(* snapshot is the one it is validated against.                            *)
(***************************************************************************)
EXTENDS ModelRouter, FiniteSets

CONSTANTS PerceptionRoles, DiscoveryRoles, DebateRoles, \* the swarms
          Inventors,       \* the strategy inventors, in order
          MaxCandidates,   \* max_strategy_candidates
          MaxDebateRounds, \* max_debate_rounds
          MaxSwitches,     \* max_strategy_switches
          MaxProposed      \* bound on the quantity of a proposal

ASSUME DecisionAssumption ==
    /\ {MaxCandidates, MaxDebateRounds, MaxSwitches, MaxProposed} \subseteq Nat
    /\ Len(Inventors) > 0 /\ MaxCandidates > 0
    /\ {"meta_decision", "entry_tactician"} \cap
            (PerceptionRoles \cup DiscoveryRoles \cup DebateRoles \cup Range(Inventors)) = {}

NoStrategy == "none"
Unknown == "unknown"    \* an id that belongs to no strategy of the cycle
NoMeta == [action |-> "none", selected |-> NoStrategy, alternates |-> {}]
NoProposal == [side |-> "none", qty |-> 0, ok |-> FALSE, strategy |-> NoStrategy]
NoCommand == <<>>

\* initial_cycle_state; usable is what the snapshot's quality report says of
\* execution, status the row of the cycle registry.
NewDecisionCycle(usable) ==
    [kind |-> "decision", node |-> "validate_trigger", usable |-> usable, hydrated |-> FALSE,
     evidence |-> FALSE, world |-> FALSE, strategies |-> <<>>, selected |-> {}, reviews |-> {},
     meta |-> NoMeta, round |-> 0, switches |-> 0, proposal |-> NoProposal, command |-> NoCommand,
     errors |-> {}, status |-> "running"]

\* What a node leaves: the next checkpoint and the table; a node that raises
\* leaves the checkpoint as it was.
Done(c, calls) == [cycle |-> c, calls |-> calls, raised |-> FALSE]
Raised(c, calls) == [cycle |-> c, calls |-> calls, raised |-> TRUE]

Error(c, code) == [c EXCEPT !.errors = @ \cup {code}]
GoTo(c, node) == [c EXCEPT !.node = node]

-----------------------------------------------------------------------------
(* Agents                                                                  *)

\* The hash of a context assembled for a role in cycle i.
ContextHash(role, i) == <<role, i>>
OwnHash(role, i) == ContextHash(role, i)
\* discovery, strategy, debate, meta decision and tactician all use the
\* package that hydrate_context assembled; the debate's copy keeps its hash.
SharedHash(i) == ContextHash("market_structure", i)

Text == [text |-> TRUE]

\* The roles of a swarm ask in parallel; at most one of them (bad) meets
\* anything but a valid first answer.  Its siblings are not cancelled when it
\* raises.  hash is the context hash of every role.
AskAll(calls, hash, output, bad, how) ==
    Inserting(calls, [key \in {IdempotencyKey(r, hash[r]) : r \in DOMAIN hash} |->
                        Row(IF key[1] = bad THEN how.row ELSE "completed", output)])

SwarmRaises(calls, hash, bad, how) ==
    how.result # "valid" /\ ~TryReuseCompleted(calls, IdempotencyKey(bad, hash[bad]))

-----------------------------------------------------------------------------
(* Nodes up to the debate                                                  *)

ValidateTrigger(c) == GoTo(c, "hydrate_context")

\* The snapshot may not be readable; the graph goes on without a context.
HydrateContext(c, readable) ==
    IF readable THEN GoTo([c EXCEPT !.hydrated = TRUE], "perception")
    ELSE GoTo(Error(c, "snapshot_not_found"), "perception")

\* Every perception role has a context of its own.
RunPerception(c, i, calls, bad, how) ==
    LET hash == [r \in PerceptionRoles |-> OwnHash(r, i)]
        asked == AskAll(calls, hash, Text, bad, how)
    IN  IF SwarmRaises(calls, hash, bad, how) THEN Raised(c, asked)
        ELSE Done(GoTo([c EXCEPT !.evidence = TRUE], "synthesise_world_model"), asked)

WorldModels == {[valid |-> TRUE], [valid |-> FALSE]}

\* The answer is on record as completed before validate_world_model rejects it.
SynthesiseWorldModel(c, i, calls, how, output) ==
    LET role == "world_model_synthesiser"
        r == RouteAndComplete(calls, IdempotencyKey(role, OwnHash(role, i)), how, output)
    IN  IF ~c.evidence THEN Done(GoTo(Error(c, "no_evidence"), "discovery"), calls)
        ELSE IF r.result # "valid" \/ ~r.output.valid THEN Raised(c, r.calls)
        ELSE Done(GoTo([c EXCEPT !.world = TRUE], "discovery"), r.calls)

RunDiscovery(c, i, calls, bad, how) ==
    LET hash == [r \in DiscoveryRoles |-> SharedHash(i)]
        asked == AskAll(calls, hash, Text, bad, how)
    IN  IF ~c.hydrated THEN Done(GoTo(c, "strategy"), calls)
        ELSE IF SwarmRaises(calls, hash, bad, how) THEN Raised(c, asked)
        ELSE Done(GoTo(c, "strategy"), asked)

\* merge_strategies sorts by id; any order of the ids is the inventors' order
\* up to renaming.
RunStrategy(c, i, calls, bad, how) ==
    LET hash == [r \in Range(Inventors) |-> SharedHash(i)]
        asked == AskAll(calls, hash, Text, bad, how)
        kept == SubSeq(Inventors, 1, IF Len(Inventors) > MaxCandidates THEN MaxCandidates ELSE Len(Inventors))
    IN  IF ~c.hydrated THEN Done(GoTo(c, "select_debate_candidates"), calls)
        ELSE IF SwarmRaises(calls, hash, bad, how) THEN Raised(c, asked)
        ELSE Done(GoTo([c EXCEPT !.strategies = kept], "select_debate_candidates"), asked)

SelectDebateCandidates(c) ==
    GoTo([c EXCEPT !.selected = Range(c.strategies)], "debate")

\* An empty selection means every strategy.
Debated(c) ==
    IF c.selected = {} THEN c.strategies
    ELSE SelectSeq(c.strategies, LAMBDA s : s \in c.selected)

\* A review of a strategy by a role; about is the strategy that the model was
\* asked about, which run_debate_panel overwrites with the panel's.
Review(role, strategy, about) == [role |-> role, strategy |-> strategy, about |-> about]

\* A panel per strategy, one after the other, with the same keys: a completed
\* answer about the first strategy is taken for the others too and relabelled.
PanelReviews(asked, hash, panel) ==
    LET about(r, s) == LET row == asked[IdempotencyKey(r, hash[r])]
                       IN IF row.status = "completed" THEN row.output.about ELSE s
    IN  {Review(r, s, about(r, s)) : r \in DebateRoles, s \in Range(panel)}

RunDebate(c, i, calls, bad, how) ==
    LET hash == [r \in DebateRoles |-> SharedHash(i)]
        panel == Debated(c)
        asked == AskAll(calls, hash, [about |-> panel[1]], bad, how)
    IN  IF ~c.hydrated \/ panel = <<>> THEN Done(GoTo(c, "meta_decision"), calls)
        ELSE IF SwarmRaises(calls, hash, bad, how) THEN Raised(c, asked)
        ELSE Done(GoTo([c EXCEPT !.reviews = @ \cup PanelReviews(asked, hash, panel)], "meta_decision"), asked)

-----------------------------------------------------------------------------
(* The meta decision and its routes                                        *)

\* The decisions a model may return, apart from what nothing reads; probe is
\* routed as execute is.
MetaOutputs ==
    [action : {"execute"}, selected : Range(Inventors) \cup {NoStrategy, Unknown}, alternates : {{}}]
    \cup [action : {"switch_strategy"}, selected : {NoStrategy},
          alternates : {{}, {Unknown}, {Last(Inventors)}}]
    \cup [action : {"delay", "request_more_evidence", "abandon"}, selected : {NoStrategy}, alternates : {{}}]

\* Alternates are looked at only when a strategy is selected.
ValidMetaDecision(c, m) ==
    m.selected # NoStrategy => {m.selected} \cup m.alternates \subseteq Range(c.strategies)

RouteMetaDecision(c) ==
    CASE c.meta.action = "none" -> "persist_cycle"
      [] c.meta.action = "execute" -> "entry_tactician"
      [] c.meta.action = "delay" -> "persist_pending_cycle"
      [] c.meta.action = "request_more_evidence" -> "persist_evidence_request"
      [] c.meta.action = "switch_strategy" /\ c.switches < MaxSwitches -> "strategy_switch_revision"
      [] OTHER -> "persist_cycle"

MetaDecisionNode(c, i, calls, how, output) ==
    LET r == RouteAndComplete(calls, IdempotencyKey("meta_decision", SharedHash(i)), how, output)
        decided == [c EXCEPT !.meta = r.output]
    IN  IF ~c.hydrated THEN Done(GoTo(c, RouteMetaDecision(c)), calls)
        ELSE IF r.result # "valid" \/ ~ValidMetaDecision(c, r.output) THEN Raised(c, r.calls)
        ELSE Done(GoTo(decided, RouteMetaDecision(decided)), r.calls)

AfterSwitchRoute(round) == IF round <= MaxDebateRounds THEN "debate" ELSE "meta_decision"

\* Mutant: a switch is not counted.
StrategySwitchUncounted(c) ==
    [c EXCEPT !.selected = c.meta.alternates, !.node = AfterSwitchRoute(c.round)]

StrategySwitchRevision(c) ==
    [c EXCEPT !.switches = @ + 1, !.selected = c.meta.alternates, !.round = @ + 1,
              !.node = AfterSwitchRoute(c.round + 1)]

-----------------------------------------------------------------------------
(* The proposal                                                            *)

\* The fallback of _selected_strategy; taken always it would ignore what the
\* decision selected.
FirstStrategy(c) == IF c.strategies = <<>> THEN NoStrategy ELSE c.strategies[1]

\* validate_meta_decision has refused an id of no strategy, so the fallback to
\* the first strategy is never taken.
SelectedStrategy(c) ==
    CASE c.meta.selected = NoStrategy -> NoStrategy
      [] c.meta.selected \in Range(c.strategies) -> c.meta.selected
      [] OTHER -> FirstStrategy(c)

\* ok: legs, order type, contract and quote age are as the validator wants them.
Proposals ==
    [side : {"buy"}, qty : 1..MaxProposed, ok : {TRUE}, strategy : {NoStrategy}]
    \cup [side : {"sell"}, qty : {1}, ok : {TRUE}, strategy : {NoStrategy}]
    \cup [side : {"buy"}, qty : {1}, ok : {FALSE}, strategy : {NoStrategy}]

\* propose overwrites the strategy of the model's answer.
EntryTactician(c, i, calls, how, output) ==
    LET s == SelectedStrategy(c)
        r == RouteAndComplete(calls, IdempotencyKey("entry_tactician", SharedHash(i)), how, output)
    IN  IF s = NoStrategy
        THEN Done(GoTo(Error(c, "missing_inputs"), "validate_execution_proposal"), calls)
        ELSE IF r.result # "valid" THEN Raised(c, r.calls)
        ELSE Done(GoTo([c EXCEPT !.proposal = [r.output EXCEPT !.strategy = s]],
                       "validate_execution_proposal"), r.calls)

\* ExecutionProposalValidator against the truth of build_truth_from_deps.
ValidProposal(c, open, workingEntry, submitted) ==
    /\ c.usable /\ c.proposal.ok /\ ~submitted
    /\ c.proposal.side = "buy" => ~open /\ ~workingEntry

AfterValidateRoute(c) ==
    IF "validation_failed" \in c.errors THEN "persist_cycle" ELSE "submit_execution_command"

ValidateExecutionProposal(c, open, workingEntry, submitted) ==
    LET seen == IF c.proposal = NoProposal THEN Error(c, "missing_proposal")
                ELSE IF ~ValidProposal(c, open, workingEntry, submitted) THEN Error(c, "validation_failed")
                ELSE c
    IN  GoTo(seen, AfterValidateRoute(seen))

\* Mutant: a client order id of its own for every submission.
FreshCommandId(i, tries) == <<"cog", i, tries>>

\* compile: cog-{proposal_id}-{leg_id}; tries is how many orders the ledger has.
CommandId(i, tries) == <<"cog", i, 0>>

PersistNodes == {"persist_cycle", "persist_pending_cycle", "persist_evidence_request"}

\* The persist nodes publish COGNITIVE_CYCLE_COMPLETED; the graph ends.
Persist(c) == GoTo(c, "end")

\* The keys the next node asks under, with what may be answered there.
DecisionKeys(c, i) ==
    LET shared(roles, out) == {<<IdempotencyKey(r, SharedHash(i)), out>> : r \in roles}
    IN  CASE c.node = "perception" -> {<<IdempotencyKey(r, OwnHash(r, i)), {Text}>> : r \in PerceptionRoles}
          [] c.node = "synthesise_world_model" ->
                {<<IdempotencyKey("world_model_synthesiser", OwnHash("world_model_synthesiser", i)), {[valid |-> TRUE]}>>}
          [] c.node = "discovery" /\ c.hydrated -> shared(DiscoveryRoles, {Text})
          [] c.node = "strategy" /\ c.hydrated -> shared(Range(Inventors), {Text})
          [] c.node = "debate" /\ c.hydrated /\ Debated(c) # <<>> ->
                shared(DebateRoles, {[about |-> Debated(c)[1]]})
          [] c.node = "meta_decision" /\ c.hydrated -> shared({"meta_decision"}, MetaOutputs)
          [] c.node = "entry_tactician" /\ SelectedStrategy(c) # NoStrategy ->
                shared({"entry_tactician"}, Proposals)
          [] OTHER -> {}
=============================================================================
