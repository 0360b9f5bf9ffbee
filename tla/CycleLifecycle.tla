--------------------------- MODULE CycleLifecycle ----------------------------
(***************************************************************************)
(* What registry, checkpoint and broker together promise of a cycle        *)
(* (joker/persistence/cognitive_cycle_registry.py and                      *)
(* _cycle_reached_terminal_outcome): it is registered as running, the      *)
(* broker takes at most one order for it and only while it runs, its       *)
(* checkpoint comes to know that order and never forgets it, and once the  *)
(* registry has the cycle as completed, which it does not before the       *)
(* checkpoint knows, nothing of it changes any more.                       *)
(***************************************************************************)
EXTENDS Naturals, Sequences

VARIABLE cycle \* of every cycle: its registry row, its orders at the broker,
               \* whether its checkpoint has the order

Begun == [status |-> "running", orders |-> 0, recorded |-> FALSE]

Running(i) == cycle[i].status = "running"

Begin == cycle' = Append(cycle, Begun)

\* The broker takes the order of a cycle.
Place(i) ==
    /\ Running(i) /\ cycle[i].orders = 0
    /\ cycle' = [cycle EXCEPT ![i].orders = 1]

\* The submitting node ends: its checkpoint has the order.
Record(i) ==
    /\ Running(i) /\ cycle[i].orders = 1
    /\ cycle' = [cycle EXCEPT ![i].recorded = TRUE]

Complete(i) ==
    /\ Running(i) /\ (cycle[i].orders = 0 \/ cycle[i].recorded)
    /\ cycle' = [cycle EXCEPT ![i].status = "completed"]

Init == cycle = <<>>

Next == Begin \/ \E i \in DOMAIN cycle : Place(i) \/ Record(i) \/ Complete(i)

Spec == Init /\ [][Next]_cycle
=============================================================================
