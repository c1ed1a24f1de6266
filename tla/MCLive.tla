------------------------------- MODULE MCLive -------------------------------
(***************************************************************************)
(* Instances of Live for TLC: the tabs are model values, and the job is    *)
(* sent back from its gate and comes to it again.                          *)
(***************************************************************************)
EXTENDS Live

MCStateAt == <<"gate", "fixing", "gate">>
=============================================================================
