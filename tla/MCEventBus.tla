----------------------------- MODULE MCEventBus -----------------------------
(***************************************************************************)
(* Two correlation ids.  An order event (e1) leads its handler to publish  *)
(* e2 on the same and e3 on the other correlation id, as the execution     *)
(* runtime does while a fill is handled; e4 comes from outside, as e1 and  *)
(* e3 may, each up to twice (a redelivery).                                *)
(***************************************************************************)
EXTENDS EventBus

CONSTANTS e1, e2, e3, e4, cA, cB

MCCorrelationOf == [e \in Events |-> IF e \in {e1, e2} THEN cA ELSE cB]
MCEmits == [e \in Events |-> IF e = e1 THEN {e2, e3} ELSE {}]
=============================================================================
