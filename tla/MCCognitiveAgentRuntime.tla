----------------------- MODULE MCCognitiveAgentRuntime ------------------------
(***************************************************************************)
(* The agent runtime with a handful of snapshots and events; the bounds    *)
(* are in the configurations.                                              *)
(***************************************************************************)
EXTENDS CognitiveAgentRuntime
=============================================================================
