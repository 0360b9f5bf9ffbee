------------------------- MODULE MCSessionSupervisor -------------------------
(***************************************************************************)
(* An entry of two contracts and an exit of one.                           *)
(***************************************************************************)
EXTENDS SessionSupervisor

CONSTANTS c1, c2

EntryAndExit == [c \in Clients |-> IF c = c1 THEN "buy" ELSE "sell"]
TwoAndOne == [c \in Clients |-> IF c = c1 THEN 2 ELSE 1]
=============================================================================
