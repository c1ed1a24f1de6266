----------------------------- MODULE MCScheduler -----------------------------
(***************************************************************************)
(* Instances of Scheduler for TLC: the constants are numbers and switches, *)
(* given in the .cfg files.                                                *)
(***************************************************************************)
EXTENDS Scheduler
=============================================================================
