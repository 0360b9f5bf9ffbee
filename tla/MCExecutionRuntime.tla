-------------------------- MODULE MCExecutionRuntime --------------------------
(***************************************************************************)
(* An entry (c1) and an exit (c2) of one option contract.                  *)
(***************************************************************************)
EXTENDS ExecutionRuntime

CONSTANTS c1, c2, t1, t2

MCSide == [c \in Clients |-> IF c = c1 THEN "buy" ELSE "sell"]
=============================================================================
