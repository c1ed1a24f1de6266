----------------------------- MODULE MCJobBranch -----------------------------
(***************************************************************************)
(* Instances of JobBranch for TLC: None is a model value, the rest are     *)
(* numbers and switches, given in the .cfg files.                          *)
(***************************************************************************)
EXTENDS JobBranch
=============================================================================
