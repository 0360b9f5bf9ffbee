------------------------- MODULE MCOrderActionGateway -------------------------
(***************************************************************************)
(* The gateway with its two workers.  The contracts are interchangeable.   *)
(***************************************************************************)
EXTENDS OrderActionGateway, TLC

CONSTANTS k1, k2

ContractSymmetry == Permutations(Contracts)
=============================================================================
