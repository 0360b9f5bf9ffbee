-------------------------- MODULE MCCognitiveCycles ---------------------------
(***************************************************************************)
(* CognitiveCycles with two inventors, so that a decision can be for the   *)
(* second one, and one role in each of the other swarms.                   *)
(***************************************************************************)
EXTENDS CognitiveCycles

MCInventors == <<"bullish_inventor", "bearish_inventor">>
MCPerception == {"anomaly"}
MCDiscovery == {"pattern_miner"}
MCDebate == {"falsifier"}
=============================================================================
