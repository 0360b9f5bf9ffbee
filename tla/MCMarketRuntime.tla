--------------------------- MODULE MCMarketRuntime ---------------------------
(***************************************************************************)
(* Three faults: enough for a failed save, a failed fetch after it and a   *)
(* crash or a second failure.                                              *)
(***************************************************************************)
EXTENDS MarketRuntime
=============================================================================
