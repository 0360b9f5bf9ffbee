---------------------------- MODULE PositionGraph -----------------------------
(***************************************************************************)
(* joker/graph/position_graph.py: what one node makes of the state of a    *)
(* position cycle, and the request route_position_action hands to the      *)
(* order-action gateway; and the decisions of the order manager            *)
(* (_apply_order_decision of cognitive_agent_runtime.py).                  *)
(*                                                                         *)
(* As in DecisionGraph a cycle is its checkpoint.  There is one contract,  *)
(* and it is the position's identity.                                      *)
(***************************************************************************)
EXTENDS DecisionGraph

Anonymous == "anonymous" \* the uuid4 that stands in for an unresolved strategy
NoDecision == [action |-> "none", qty |-> 0]
NoRequest == [kind |-> "none", side |-> "buy", qty |-> 0, id |-> NoCommand,
              strategy |-> NoStrategy, replaces |-> 0]

\* _run_position_work's initial state: a cycle of its own, with the strategy
\* that the order's provenance names.
NewPositionCycle(usable, strategy) ==
    [kind |-> "position", node |-> "hydrate_position_truth", usable |-> usable, strategy |-> strategy,
     qty |-> 0, order |-> 0, prior |-> 0, thesis |-> NoStrategy, notes |-> FALSE,
     decision |-> NoDecision, command |-> NoCommand, errors |-> {}, status |-> "running"]

\* _extract_position and _extract_orders: the open quantity and the first
\* working order, whosever it is.
HydratePositionTruth(c, open, firstWorking) ==
    GoTo([c EXCEPT !.qty = open, !.order = firstWorking], "load_original_strategy")

\* Only the prompt is told of the strategy itself.
LoadOriginalStrategy(c) == GoTo(c, "load_prior_thesis")

\* list_by_session is newest first and the last entry is taken.
LoadPriorThesis(c, theses) ==
    GoTo([c EXCEPT !.prior = IF theses = <<>> THEN 0 ELSE theses[1]], "position_thesis_agent")

\* The thesis is appended under the id that the answer carries.  Without a
\* strategy a resumed node fills in another random one, and a thesis that was
\* appended before the crash is then refused (ArtifactConflictError).
ThesisConflict(c, i, calls, theses) ==
    /\ TryReuseCompleted(calls, IdempotencyKey("position_thesis", OwnHash("position_thesis", i)))
    /\ i \in Range(theses) /\ c.strategy = NoStrategy

PositionThesisAgent(c, i, calls, how, theses) ==
    LET key == IdempotencyKey("position_thesis", OwnHash("position_thesis", i))
        r == RouteAndComplete(calls, key, how, Text)
    IN  IF r.result # "valid" \/ ThesisConflict(c, i, calls, theses) THEN Raised(c, r.calls)
        ELSE Done(GoTo([c EXCEPT !.thesis = IF c.strategy = NoStrategy THEN Anonymous ELSE c.strategy],
                       "position_execution_critic"), r.calls)

PositionExecutionCritic(c, i, calls, how) ==
    LET key == IdempotencyKey("execution_critic", OwnHash("execution_critic", i))
        r == RouteAndComplete(calls, key, how, Text)
    IN  IF r.result # "valid" THEN Raised(c, r.calls)
        ELSE Done(GoTo([c EXCEPT !.notes = TRUE], "position_decision_agent"), r.calls)

\* update_thesis is routed as hold is.
PositionDecisions ==
    [action : {"reduce", "add", "replace_working_order"}, qty : 0..MaxProposed]
    \cup [action : {"hold", "exit", "cancel_working_order"}, qty : {0}]

PositionDecisionAgent(c, i, calls, how, output) ==
    LET key == IdempotencyKey("position_decision", OwnHash("position_decision", i))
        r == RouteAndComplete(calls, key, how, output)
    IN  IF r.result # "valid" THEN Raised(c, r.calls)
        ELSE Done(GoTo([c EXCEPT !.decision = r.output], "route_position_action"), r.calls)

-----------------------------------------------------------------------------
(* route_position_action                                                   *)

\* The quantity of the hydrated position; 1 when it is closed.
OpenQty(c) == IF c.qty > 0 THEN c.qty ELSE 1
WantedQty(c) == IF c.decision.qty = 0 THEN OpenQty(c) ELSE c.decision.qty

RequestKind(action) ==
    CASE action = "exit" -> "exit" [] action = "reduce" -> "reduce"
      [] action = "add" -> "add" [] OTHER -> "replace"

RequestQty(c) ==
    CASE c.decision.action = "exit" -> OpenQty(c)
      [] c.decision.action = "reduce" /\ WantedQty(c) > OpenQty(c) -> OpenQty(c)
      [] OTHER -> WantedQty(c)

\* pos-{thesis_version_id}-{action}
PositionCommandId(i) == <<"pos", i, 0>>

\* The projected order has no side, so a replacement is a buy.
PositionRequest(c, i) ==
    [kind |-> RequestKind(c.decision.action),
     side |-> IF c.decision.action \in {"exit", "reduce"} THEN "sell" ELSE "buy",
     qty |-> RequestQty(c), id |-> PositionCommandId(i), strategy |-> c.thesis,
     replaces |-> IF c.decision.action = "replace_working_order" THEN c.order ELSE 0]

OrderActions == {"exit", "reduce", "add", "replace_working_order"}

PositionKeys(c, i) ==
    LET own(role, out) == {<<IdempotencyKey(role, OwnHash(role, i)), out>>}
    IN  CASE c.node = "position_thesis_agent" -> own("position_thesis", {Text})
          [] c.node = "position_execution_critic" -> own("execution_critic", {Text})
          [] c.node = "position_decision_agent" -> own("position_decision", PositionDecisions)
          [] OTHER -> {}

-----------------------------------------------------------------------------
(* The end of a cycle                                                      *)

BlockingCodes == {"gateway_blocked", "submit_validation_failed", "validation_failed"}

\* _cycle_reached_terminal_outcome of a graph that has ended.
ReachedTerminalOutcome(c) == c.node = "end" /\ c.errors \cap BlockingCodes = {}

-----------------------------------------------------------------------------
(* The order manager                                                       *)

OrderDecisions ==
    [action : {"continue_waiting", "cancel"}, qty : {0}]
    \cup [action : {"replace", "reduce_quantity"}, qty : 0..MaxProposed]

\* What reduce_quantity and replace ask for, of an order polled with quantity
\* qty of which filled are filled.
ManagedQty(d, qty, filled) ==
    LET remaining == qty - filled IN
    IF d.action = "replace" THEN IF d.qty = 0 THEN qty ELSE d.qty
    ELSE IF d.qty # 0 THEN IF d.qty < remaining THEN d.qty ELSE remaining
    ELSE IF remaining > 1 THEN remaining \div 2 ELSE remaining

\* {client_order_id}:replace:{decision_id}; the request names no strategy.
ManagedRequest(d, o, order, tries) ==
    [kind |-> "replace", side |-> order.side, qty |-> ManagedQty(d, order.qty, order.filled),
     id |-> <<"replace", o, tries>>, strategy |-> NoStrategy, replaces |-> o]
=============================================================================
