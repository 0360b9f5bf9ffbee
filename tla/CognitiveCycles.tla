--------------------------- MODULE CognitiveCycles ----------------------------
(***************************************************************************)
(* The cycles of the cognitive runtime over their durable stores: the      *)
(* LangGraph checkpoints, model_calls, the ledger, the provenance of       *)
(* orders and the position theses.  The decision worker runs DecisionGraph,*)
(* the position worker PositionGraph and the order manager; orders go      *)
(* through the checks of OrderActionGateway to the execution runtime.      *)
(*                                                                         *)
(* A node runs in one step up to its checkpoint, except the two that send  *)
(* an order: they validate, pass the gateway, send and record in steps of  *)
(* their own.  A crash loses the step, not the stores; every cycle the     *)
(* registry has as running is resumed from its checkpoint at the restart.  *)
(* ledger and broker agree at once and the broker keeps its orders (where  *)
(* they do not is ExecutionRuntime's subject).                             *)
(***************************************************************************)
EXTENDS PositionGraph, FiniteSetsExt

CONSTANTS MaxQty,     \* the gateway's cap
          MaxEntries, \* bound on decision cycles
          MaxWork,    \* bound on cycles and faults together: failing calls,
                      \* rejections, unusable data and crashes
          MaxOrders   \* bound on orders; every fault allows one more

ASSUME CyclesAssumption == {MaxQty, MaxEntries, MaxWork, MaxOrders} \subseteq Nat

VARIABLES cycles,     \* checkpoint and registry row of every cycle
          calls,      \* model_calls
          orders,     \* what ledger and broker hold, by order
          provenance, \* cognitive_execution_provenance, oldest first
          theses,     \* cycles whose thesis is stored, oldest first
          phase,      \* "up", "down", "resuming"
          todo,       \* cycles the restart has still to resume
          at,         \* what each worker is doing
          submitted,  \* submitted_proposal_ids, by cycle
          faults      \* faults so far

vars == <<cycles, calls, orders, provenance, theses, phase, todo, at, submitted, faults>>
stores == <<calls, provenance, theses>>
process == <<phase, todo, submitted>>

Contract == "k"
Workers == {"decision", "position"}

Free == [step |-> "idle", cycle |-> 0, req |-> NoRequest, usable |-> TRUE]
Running(i) == [step |-> "node", cycle |-> i, req |-> NoRequest, usable |-> cycles[i].usable]

\* The gateway of OrderActionGateway on this ledger.
GW == INSTANCE OrderActionGateway WITH
        Contracts <- {Contract}, MaxRequests <- 0, held <- <<>>, worker <- <<>>, requests <- 0

Open == GW!Position(Contract)
WorkingEntry == GW!HasWorkingEntry(GW!Working)

-----------------------------------------------------------------------------
(* Steps of a node                                                         *)

\* The worker w is about to run the node of its cycle.
At(w, node) == at[w].step = "node" /\ cycles[at[w].cycle].node = node
Cycle(w) == cycles[at[w].cycle]

Spend(bad) ==
    /\ faults' = faults + (IF bad THEN 1 ELSE 0)
    /\ bad => Len(cycles) + faults' <= MaxWork

\* LangGraph saves the state after a node; an exception leaves the graph.
Checkpoint(w, c) == cycles' = [cycles EXCEPT ![at[w].cycle] = c] /\ UNCHANGED at
Leave(w) == at' = [at EXCEPT ![w] = Free]

Commit(w, r) ==
    /\ calls' = r.calls
    /\ IF r.raised THEN Leave(w) /\ UNCHANGED cycles ELSE Checkpoint(w, r.cycle)
    /\ UNCHANGED <<orders, provenance, process>>

\* A node that asks no model.
Quietly(w, c) ==
    /\ Checkpoint(w, c)
    /\ UNCHANGED <<calls, orders, provenance, theses, process>>

\* What the role's provider may come to.
Hows(role) == Outcomes[SelectProfile(role, TRUE)]

-----------------------------------------------------------------------------
(* The decision worker                                                     *)

\* _invoke_decision_graph: registered as running, then invoked.
StartDecision(usable) ==
    /\ phase = "up" /\ at["decision"] = Free /\ ~WorkingEntry
    /\ Spend(~usable) /\ Len(cycles) + faults' < MaxWork
    /\ Cardinality({i \in DOMAIN cycles : cycles[i].kind = "decision"}) < MaxEntries
    /\ cycles' = Append(cycles, NewDecisionCycle(usable))
    /\ at' = [at EXCEPT !["decision"] = [Free EXCEPT !.step = "node", !.cycle = Len(cycles) + 1, !.usable = usable]]
    /\ UNCHANGED <<calls, orders, provenance, theses, process>>

Trigger == At("decision", "validate_trigger") /\ Quietly("decision", ValidateTrigger(Cycle("decision"))) /\ UNCHANGED faults

Hydrate(readable) ==
    /\ At("decision", "hydrate_context") /\ Spend(~readable)
    /\ Quietly("decision", HydrateContext(Cycle("decision"), readable))

\* A role of a swarm and the way its call goes.
Problems(roles) == UNION {{<<r, how>> : how \in Hows(r)} : r \in roles}

\* The four swarms: run is what their node makes of each problem.
Swarm(node, run) ==
    /\ At("decision", node)
    /\ \E x \in DOMAIN run :
        /\ Spend(x[2] # AtOnce)
        /\ Commit("decision", run[x])
    /\ UNCHANGED theses

Perception ==
    Swarm("perception", [x \in Problems(PerceptionRoles) |->
        RunPerception(Cycle("decision"), at["decision"].cycle, calls, x[1], x[2])])
Discovery ==
    Swarm("discovery", [x \in Problems(DiscoveryRoles) |->
        RunDiscovery(Cycle("decision"), at["decision"].cycle, calls, x[1], x[2])])
Strategy ==
    Swarm("strategy", [x \in Problems(Range(Inventors)) |->
        RunStrategy(Cycle("decision"), at["decision"].cycle, calls, x[1], x[2])])
Debate ==
    Swarm("debate", [x \in Problems(DebateRoles) |->
        RunDebate(Cycle("decision"), at["decision"].cycle, calls, x[1], x[2])])

WorldModel ==
    /\ At("decision", "synthesise_world_model")
    /\ \E how \in Hows("world_model_synthesiser"), o \in WorldModels :
        /\ Spend(how # AtOnce \/ ~o.valid)
        /\ Commit("decision", SynthesiseWorldModel(Cycle("decision"), at["decision"].cycle, calls, how, o))
    /\ UNCHANGED theses

SelectCandidates ==
    /\ At("decision", "select_debate_candidates")
    /\ Quietly("decision", SelectDebateCandidates(Cycle("decision"))) /\ UNCHANGED faults

MetaDecision ==
    /\ At("decision", "meta_decision")
    /\ \E how \in Hows("meta_decision"), o \in MetaOutputs :
        /\ Spend(how # AtOnce)
        /\ Commit("decision", MetaDecisionNode(Cycle("decision"), at["decision"].cycle, calls, how, o))
    /\ UNCHANGED theses

SwitchStrategy ==
    /\ At("decision", "strategy_switch_revision")
    /\ Quietly("decision", StrategySwitchRevision(Cycle("decision"))) /\ UNCHANGED faults

Tactician ==
    /\ At("decision", "entry_tactician")
    /\ \E how \in Hows("entry_tactician"), o \in Proposals :
        /\ Spend(how # AtOnce)
        /\ Commit("decision", EntryTactician(Cycle("decision"), at["decision"].cycle, calls, how, o))
    /\ UNCHANGED theses

ValidateProposal ==
    /\ At("decision", "validate_execution_proposal")
    /\ Quietly("decision", ValidateExecutionProposal(Cycle("decision"), Open # 0, WorkingEntry,
                                                     at["decision"].cycle \in submitted))
    /\ UNCHANGED faults

\* submit_execution_command up to the gateway: the ledger is read again.
SubmitEntry ==
    LET c == Cycle("decision")
        i == at["decision"].cycle
    IN  /\ At("decision", "submit_execution_command")
        /\ IF c.proposal = NoProposal \/ c.command # NoCommand
           THEN Checkpoint("decision", GoTo(c, "persist_cycle"))
           ELSE IF ~ValidProposal(c, Open # 0, WorkingEntry, i \in submitted)
           THEN Checkpoint("decision", GoTo(Error(c, "submit_validation_failed"), "persist_cycle"))
           ELSE /\ at' = [at EXCEPT !["decision"] =
                            [@ EXCEPT !.step = "gateway",
                                      !.req = [kind |-> "entry", side |-> c.proposal.side, qty |-> c.proposal.qty,
                                               id |-> CommandId(i, Len(orders)), strategy |-> c.proposal.strategy,
                                               replaces |-> 0]]]
                /\ UNCHANGED cycles
        /\ UNCHANGED <<calls, orders, provenance, theses, process, faults>>

PersistCycle ==
    /\ at["decision"].step = "node" /\ Cycle("decision").node \in PersistNodes
    /\ Quietly("decision", Persist(Cycle("decision"))) /\ UNCHANGED faults

-----------------------------------------------------------------------------
(* The position worker                                                     *)

\* cognitive_execution_provenance: INSERT OR REPLACE by the client order id, the
\* row of an order, and the latest row of the contract.
Inserted(row) == Append(SelectSeq(provenance, LAMBDA p : p.id # row.id), row)
Recorded(id) == SelectSeq(provenance, LAMBDA p : p.id = id)
Latest == Last(provenance)

\* _resolve_provenance: by the event's order, else the contract's latest; o is
\* 0 for a snapshot.
ResolveProvenance(o) ==
    IF o # 0 /\ Recorded(orders[o].id) # <<>> THEN Head(Recorded(orders[o].id)).strategy
    ELSE IF provenance # <<>> THEN Latest.strategy
    ELSE NoStrategy

\* _run_position_work for a snapshot or an event of a filled order.
StartPosition(o, usable) ==
    /\ phase = "up" /\ at["position"] = Free
    /\ \E p \in DOMAIN orders : orders[p].filled > 0 /\ (o # 0 => p = o)
    /\ Spend(~usable) /\ Len(cycles) + faults' < MaxWork
    /\ cycles' = Append(cycles, NewPositionCycle(usable, ResolveProvenance(o)))
    /\ at' = [at EXCEPT !["position"] = [Free EXCEPT !.step = "node", !.cycle = Len(cycles) + 1, !.usable = usable]]
    /\ UNCHANGED <<calls, orders, provenance, theses, process>>

FirstWorking == IF GW!Working = {} THEN 0 ELSE Min(GW!Working)

HydratePosition ==
    /\ At("position", "hydrate_position_truth")
    /\ Quietly("position", HydratePositionTruth(Cycle("position"), Open, FirstWorking)) /\ UNCHANGED faults

LoadStrategy ==
    At("position", "load_original_strategy") /\ Quietly("position", LoadOriginalStrategy(Cycle("position"))) /\ UNCHANGED faults

LoadThesis ==
    At("position", "load_prior_thesis") /\ Quietly("position", LoadPriorThesis(Cycle("position"), theses)) /\ UNCHANGED faults

Stored(i) == IF i \in Range(theses) THEN theses ELSE Append(theses, i)

Thesis ==
    LET i == at["position"].cycle IN
    /\ At("position", "position_thesis_agent")
    /\ \E how \in Hows("position_thesis") :
        LET r == PositionThesisAgent(Cycle("position"), i, calls, how, theses) IN
        /\ Spend(how # AtOnce)
        /\ Commit("position", r)
        /\ theses' = IF r.raised THEN theses ELSE Stored(i)

Critic ==
    /\ At("position", "position_execution_critic")
    /\ \E how \in Hows("execution_critic") :
        /\ Spend(how # AtOnce)
        /\ Commit("position", PositionExecutionCritic(Cycle("position"), at["position"].cycle, calls, how))
    /\ UNCHANGED theses

Decide ==
    /\ At("position", "position_decision_agent")
    /\ \E how \in Hows("position_decision"), o \in PositionDecisions :
        /\ Spend(how # AtOnce)
        /\ Commit("position", PositionDecisionAgent(Cycle("position"), at["position"].cycle, calls, how, o))
    /\ UNCHANGED theses

\* cancel_order: an order that has filled cannot be cancelled (it raises).
Cancellable(o) == orders[o].live # "filled"
CancelOrder(o) ==
    orders' = [orders EXCEPT ![o].live = IF @ = "open" THEN "cancelled" ELSE @,
                             ![o].status = IF @ \in {"accepted", "submitted"} THEN "cancelled" ELSE @]

\* route_position_action without the gateway: hold, cancel, or done before.
RouteWithoutOrder ==
    LET c == Cycle("position") IN
    /\ At("position", "route_position_action")
    /\ c.decision.action \in {"hold", "cancel_working_order"}
    /\ IF c.decision.action = "cancel_working_order" /\ c.order # 0
       THEN IF Cancellable(c.order)
            THEN CancelOrder(c.order) /\ Checkpoint("position", GoTo([c EXCEPT !.command = <<"cancel", c.order, 0>>], "end"))
            ELSE Leave("position") /\ UNCHANGED <<cycles, orders>>
       ELSE Checkpoint("position", GoTo(c, "end")) /\ UNCHANGED orders
    /\ UNCHANGED <<calls, provenance, theses, process, faults>>

RouteOrder ==
    LET c == Cycle("position") IN
    /\ At("position", "route_position_action") /\ c.decision.action \in OrderActions
    /\ at' = [at EXCEPT !["position"] =
                [@ EXCEPT !.step = "gateway", !.req = PositionRequest(c, at["position"].cycle)]]
    /\ UNCHANGED <<cycles, calls, orders, provenance, theses, process, faults>>

\* _run_order_work: the order is polled and the order manager asked.  Whatever
\* it says of an order that is done changes nothing ...
StartOrderWork(o) ==
    /\ phase = "up" /\ at["position"] = Free /\ orders[o].live = "open"
    /\ at' = [at EXCEPT !["position"] =
                [Free EXCEPT !.step = "manage",
                             !.req = [NoRequest EXCEPT !.side = orders[o].side, !.qty = orders[o].qty - orders[o].filled,
                                                       !.replaces = o]]]
    /\ UNCHANGED <<cycles, calls, orders, provenance, theses, process, faults>>

\* ... and its decision applied; a decision made before is skipped, as one to
\* wait is.  A cancellation that raises is logged.
ManageOrder(d, usable) ==
    LET seen == at["position"].req
        n == ManagedQty(d, seen.qty, 0)
    IN  /\ at["position"].step = "manage" /\ Spend(~usable)
        /\ CASE d.action = "cancel" ->
                /\ IF Cancellable(seen.replaces) THEN CancelOrder(seen.replaces) ELSE UNCHANGED orders
                /\ Leave("position")
             [] d.action \in {"replace", "reduce_quantity"} /\ n > 0 ->
                /\ at' = [at EXCEPT !["position"] =
                            [@ EXCEPT !.step = "gateway", !.usable = usable,
                                      !.req = ManagedRequest(d, seen.replaces, [side |-> seen.side, qty |-> seen.qty, filled |-> 0],
                                                             Len(orders))]]
                /\ UNCHANGED orders
             [] OTHER -> Leave("position") /\ UNCHANGED orders
        /\ UNCHANGED <<cycles, calls, provenance, theses, process>>

-----------------------------------------------------------------------------
(* The gateway and the execution runtime                                   *)

GatewayRequest(w) ==
    LET r == at[w].req IN
    [kind |-> r.kind, contract |-> Contract, side |-> r.side, qty |-> r.qty,
     market |-> IF at[w].usable THEN "good" ELSE "degraded", replaces |-> r.replaces]

\* The checks on identities that Validate leaves out: a proposal that this
\* process has submitted, a close whose order is working.
Known(w) ==
    LET r == at[w].req IN
    \/ r.kind = "entry" /\ (at[w].cycle \in submitted \/ r.side # "buy")
    \/ r.kind \in GW!Sells /\ \E o \in GW!Working : orders[o].id = r.id

Allowed(w) == GW!Validate(GatewayRequest(w)) /\ ~Known(w)
Degraded(w) == ~GW!Validate(GatewayRequest(w)) /\ GW!DegradedClose(GatewayRequest(w))
\* A close that is neither raises out of the degraded path.
BlockedClose(w) == ~at[w].usable /\ at[w].req.kind \in GW!Sells /\ ~Degraded(w)

Blocked(w) ==
    IF at[w].cycle = 0 THEN Leave(w) /\ UNCHANGED cycles
    ELSE /\ cycles' = [cycles EXCEPT ![at[w].cycle] =
                GoTo(Error(@, "gateway_blocked"), IF w = "decision" THEN "persist_cycle" ELSE "end")]
         /\ at' = [at EXCEPT ![w] = Running(at[w].cycle)]

Gateway(w) ==
    /\ at[w].step = "gateway"
    /\ IF Allowed(w)
       THEN at' = [at EXCEPT ![w].step = IF at[w].req.kind = "replace" THEN "cancel" ELSE "send"] /\ UNCHANGED cycles
       ELSE IF Degraded(w)
       THEN at' = [at EXCEPT ![w].step = "send", ![w].req.qty = Min({@, Open})] /\ UNCHANGED cycles
       ELSE IF BlockedClose(w) THEN Leave(w) /\ UNCHANGED cycles
       ELSE Blocked(w)
    /\ UNCHANGED <<calls, orders, provenance, theses, process, faults>>

CancelFirst(w) ==
    LET o == at[w].req.replaces IN
    /\ at[w].step = "cancel"
    /\ IF Cancellable(o) THEN CancelOrder(o) /\ at' = [at EXCEPT ![w].step = "send"]
       ELSE Leave(w) /\ UNCHANGED orders
    /\ UNCHANGED <<cycles, calls, provenance, theses, process, faults>>

\* status and filled are the ledger's, live the broker's view of the order.
NewOrder(w, status, live) ==
    [id |-> at[w].req.id, cycle |-> at[w].cycle, kind |-> at[w].req.kind, contract |-> Contract,
     side |-> at[w].req.side, qty |-> at[w].req.qty, filled |-> IF live = "filled" THEN at[w].req.qty ELSE 0,
     status |-> status, live |-> live, strategy |-> at[w].req.strategy]

Existing(w) == {o \in DOMAIN orders : orders[o].id = at[w].req.id}

\* A rejected submission has no broker order to find, so the id goes to the
\* broker again; the projector leaves the order rejected unless it fills.
Placed(w, status, live) ==
    IF Existing(w) = {} THEN Append(orders, NewOrder(w, status, live))
    ELSE [o \in DOMAIN orders |->
            IF orders[o].id = at[w].req.id
            THEN NewOrder(w, IF live = "filled" THEN "filled" ELSE "rejected", live)
            ELSE orders[o]]

\* Bound on orders, and on the order manager's replacements.
Room(w) ==
    /\ Len(orders) < MaxOrders + faults
    /\ at[w].cycle = 0 => \A o \in DOMAIN orders : orders[o].cycle # 0

\* submit_execution_command: an order known to the broker is returned; a new
\* one rests, fills at once, or is rejected (and the submission raises).
Send(w) ==
    /\ at[w].step = "send"
    /\ IF \E o \in Existing(w) : orders[o].live # "none"
       THEN /\ at' = [at EXCEPT ![w].step = "record"]
            /\ UNCHANGED <<orders, faults>>
       ELSE /\ Room(w) \/ Existing(w) # {}
            /\ \/ /\ orders' = Placed(w, "accepted", "open")
                  /\ at' = [at EXCEPT ![w].step = "record"] /\ UNCHANGED faults
               \/ /\ orders' = Placed(w, "filled", "filled")
                  /\ at' = [at EXCEPT ![w].step = "record"] /\ UNCHANGED faults
               \/ orders' = Placed(w, "rejected", "none") /\ Leave(w) /\ Spend(TRUE)
    /\ UNCHANGED <<cycles, calls, provenance, theses, process>>

\* Bound: nothing is sent when there is no room.
OutOfOrders(w) ==
    /\ at[w].step = "send" /\ ~Room(w) /\ Existing(w) = {}
    /\ Leave(w)
    /\ UNCHANGED <<cycles, calls, orders, provenance, theses, process, faults>>

\* The gateway records where the order came from; the node's checkpoint has
\* the command.
RecordOrder(w) ==
    LET r == at[w].req
        i == at[w].cycle
    IN  /\ at[w].step = "record"
        /\ provenance' = Inserted([id |-> r.id, strategy |-> r.strategy])
        /\ submitted' = IF r.kind = "entry" THEN submitted \cup {i} ELSE submitted
        /\ IF i = 0 THEN Leave(w) /\ UNCHANGED cycles
           ELSE /\ cycles' = [cycles EXCEPT ![i] = GoTo([@ EXCEPT !.command = r.id],
                                                        IF w = "decision" THEN "persist_cycle" ELSE "end")]
                /\ at' = [at EXCEPT ![w] = Running(i)]
        /\ UNCHANGED <<calls, orders, theses, phase, todo, faults>>

\* The graph has ended: the registry row.
Settle(w) ==
    /\ At(w, "end")
    /\ cycles' = [cycles EXCEPT ![at[w].cycle].status = IF ReachedTerminalOutcome(Cycle(w)) THEN "completed" ELSE "running"]
    /\ Leave(w)
    /\ UNCHANGED <<calls, orders, provenance, theses, process, faults>>

\* The market.
BrokerFills(o) ==
    /\ orders[o].live = "open"
    /\ orders' = [orders EXCEPT ![o].live = "filled", ![o].status = "filled", ![o].filled = orders[o].qty]
    /\ UNCHANGED <<cycles, stores, process, at, faults>>

BrokerDrops(o) ==
    /\ orders[o].live = "open" /\ Spend(TRUE)
    /\ orders' = [orders EXCEPT ![o].live = "cancelled", ![o].status = IF @ = "rejected" THEN @ ELSE "cancelled"]
    /\ UNCHANGED <<cycles, stores, process, at>>

-----------------------------------------------------------------------------
(* Interruptions                                                           *)

\* The tables that rows of the calls of w's node, begun or done, may leave.
Torn(w) ==
    LET i == at[w].cycle
        asks == IF at[w].step # "node" THEN {}
                ELSE IF w = "decision" THEN DecisionKeys(cycles[i], i) ELSE PositionKeys(cycles[i], i)
        rows == TornRows(UNION {a[2] : a \in asks})
    IN  UNION {[S -> rows] : S \in SUBSET ({a[1] : a \in asks} \ DOMAIN calls)}

\* wait_for(max_cycle_seconds) cancels the graph wherever it is.
DecisionTimeout ==
    /\ at["decision"].step # "idle" /\ phase = "up" /\ Spend(TRUE)
    /\ \E f \in Torn("decision") : calls' = Inserting(calls, f)
    /\ Leave("decision")
    /\ UNCHANGED <<cycles, orders, provenance, theses, process>>

\* A store or a snapshot that cannot be read or written: the node raises.
NodeRaises(w) ==
    /\ at[w].step = "node" /\ Cycle(w).node # "end" /\ Spend(TRUE)
    /\ \E f \in Torn(w) : calls' = Inserting(calls, f)
    /\ Leave(w)
    /\ UNCHANGED <<cycles, orders, provenance, theses, process>>

\* A thesis may have been stored although its node never got to its checkpoint.
ThesisTorn(c2) ==
    LET i == at["position"].cycle IN
    IF At("position", "position_thesis_agent")
       /\ TryReuseCompleted(c2, IdempotencyKey("position_thesis", OwnHash("position_thesis", i)))
    THEN {theses, Stored(i)} ELSE {theses}

Crash ==
    /\ phase # "down" /\ Spend(TRUE)
    /\ phase' = "down" /\ todo' = {} /\ submitted' = {}
    /\ \E f \in Torn("decision"), g \in Torn("position") : calls' = Inserting(Inserting(calls, f), g)
    /\ theses' \in ThesisTorn(calls')
    /\ at' = [w \in Workers |-> Free]
    /\ UNCHANGED <<cycles, orders, provenance>>

\* start: list_resumable, and the cycles are resumed before the workers run.
Restart ==
    /\ phase = "down"
    /\ phase' = "resuming"
    /\ todo' = {i \in DOMAIN cycles : cycles[i].status = "running"}
    /\ UNCHANGED <<cycles, stores, orders, at, submitted, faults>>

ResumeCycle(i) ==
    /\ phase = "resuming" /\ i \in todo /\ \A w \in Workers : at[w] = Free
    /\ todo' = todo \ {i}
    /\ at' = [at EXCEPT ![cycles[i].kind] = Running(i)]
    /\ UNCHANGED <<cycles, stores, orders, phase, submitted, faults>>

Resumed ==
    /\ phase = "resuming" /\ todo = {} /\ \A w \in Workers : at[w] = Free
    /\ phase' = "up"
    /\ UNCHANGED <<cycles, stores, orders, todo, at, submitted, faults>>

-----------------------------------------------------------------------------
Init ==
    /\ cycles = <<>> /\ calls = <<>> /\ orders = <<>> /\ provenance = <<>> /\ theses = <<>>
    /\ phase = "up" /\ todo = {} /\ submitted = {}
    /\ at = [w \in Workers |-> Free]
    /\ faults = 0

DecisionStep ==
    \/ Trigger \/ Hydrate(TRUE) \/ Hydrate(FALSE) \/ Perception \/ WorldModel \/ Discovery \/ Strategy
    \/ SelectCandidates \/ Debate \/ MetaDecision \/ SwitchStrategy \/ Tactician \/ ValidateProposal
    \/ SubmitEntry \/ PersistCycle

PositionStep ==
    \/ HydratePosition \/ LoadStrategy \/ LoadThesis \/ Thesis \/ Critic \/ Decide
    \/ RouteWithoutOrder \/ RouteOrder
    \/ \E d \in OrderDecisions, usable \in BOOLEAN : ManageOrder(d, usable)

OrderStep(w) == Gateway(w) \/ CancelFirst(w) \/ Send(w) \/ OutOfOrders(w) \/ RecordOrder(w) \/ Settle(w)

Market == \E o \in DOMAIN orders : BrokerFills(o) \/ BrokerDrops(o)

Starts ==
    \/ \E usable \in BOOLEAN : StartDecision(usable)
    \/ \E usable \in BOOLEAN, o \in {0} \cup DOMAIN orders : StartPosition(o, usable)
    \/ \E o \in DOMAIN orders : StartOrderWork(o)

Recovery == Restart \/ Resumed \/ \E i \in DOMAIN cycles : ResumeCycle(i)

Next ==
    \/ Starts \/ DecisionStep \/ PositionStep \/ Market \/ Recovery \/ Crash \/ DecisionTimeout
    \/ \E w \in Workers : OrderStep(w) \/ NodeRaises(w)

Fairness ==
    /\ WF_vars(DecisionStep \/ OrderStep("decision"))
    /\ WF_vars(PositionStep \/ OrderStep("position"))
    /\ WF_vars(Recovery)

Spec == Init /\ [][Next]_vars /\ Fairness

-----------------------------------------------------------------------------
(* Properties                                                              *)

Taken(i) == {o \in DOMAIN orders : orders[o].cycle = i /\ orders[o].live # "none"}

TypeOK ==
    /\ \A i \in DOMAIN cycles :
        /\ cycles[i].status \in {"running", "completed"}
        /\ cycles[i].kind = "decision" => cycles[i].round = cycles[i].switches /\ cycles[i].switches <= MaxSwitches
    /\ \A k \in DOMAIN calls : calls[k].status \in {"in_progress", "completed", "failed"}
    /\ phase # "up" => todo \subseteq {i \in DOMAIN cycles : cycles[i].status = "running"}
    /\ \A o \in DOMAIN orders : orders[o].filled \in {0, orders[o].qty}

\* "do not duplicate execution commands after recovery": whatever is
\* interrupted, timed out or resumed, and however often the submitting node
\* runs, the broker takes at most one order for a cycle.
OneOrderPerCycle == \A i \in DOMAIN cycles : Cardinality(Taken(i)) <= 1

\* An entry that went to the broker is the one the cycle's meta decision stands
\* for: it decided to execute or probe, on a snapshot fit for execution, and the
\* order's provenance is the strategy it selected.
EntryIsDecided ==
    \A o \in DOMAIN orders :
        orders[o].kind = "entry" =>
            LET c == cycles[orders[o].cycle] IN
            /\ c.meta.action = "execute" /\ c.usable
            /\ orders[o].strategy = c.meta.selected
            /\ orders[o].qty = c.proposal.qty /\ orders[o].side = "buy"

\* Two stores, one answer: what a checkpoint holds of a model's answer is what
\* model_calls has as completed for that call, whichever of the two writes a
\* crash came between.
CheckpointAgreesWithCalls ==
    \A i \in DOMAIN cycles :
        LET c == cycles[i]
            on(role, hash) == {calls[k].output : k \in {k \in DOMAIN calls : /\ k = IdempotencyKey(role, hash)
                                                                             /\ calls[k].status = "completed"}}
        IN  IF c.kind = "decision"
            THEN /\ c.meta # NoMeta => on("meta_decision", SharedHash(i)) \subseteq {c.meta}
                 /\ c.proposal # NoProposal =>
                        on("entry_tactician", SharedHash(i)) \subseteq {[c.proposal EXCEPT !.strategy = NoStrategy]}
            ELSE c.decision # NoDecision =>
                    on("position_decision", OwnHash("position_decision", i)) \subseteq {c.decision}

\* "a valid terminal graph outcome without blocking errors": a cycle the
\* registry calls completed, and will not resume, has its order in its own
\* checkpoint; an order whose node was interrupted keeps the cycle running.
CompletedKnowsItsOrder ==
    \A i \in DOMAIN cycles :
        cycles[i].status = "completed" => \A o \in Taken(i) : cycles[i].command = orders[o].id

\* A cycle as the registry, the broker and its checkpoint have it.
Seen(i) ==
    [status |-> cycles[i].status, orders |-> Cardinality(Taken(i)),
     recorded |-> \E o \in Taken(i) : cycles[i].command = orders[o].id]

Lifecycle == INSTANCE CycleLifecycle WITH cycle <- [i \in DOMAIN cycles |-> Seen(i)]

\* "Persist and resume unfinished decision/position cycles": step by step,
\* whatever is interrupted, resumed or sent again beside the other worker, a
\* cycle goes from running to completed and never back, its one order is taken
\* while it runs, and an order its checkpoint has is not lost to it.
FollowsLifecycle == Lifecycle!Spec

\* Cycles end: no cycle occupies its worker for ever (the switches are bounded
\* although a switch is decided again from the same recorded answer), and a
\* restart comes to the end of its recoveries.
CyclesEnd ==
    /\ \A w \in Workers : []<>(at[w].step = "idle")
    /\ []<>(phase # "resuming")
=============================================================================
