------------------------------ MODULE MCPipeline ------------------------------
(***************************************************************************)
(* Instances of Pipeline for TLC: the constants are numbers and strings,   *)
(* given in the .cfg files.                                                *)
(***************************************************************************)
EXTENDS Pipeline
=============================================================================
