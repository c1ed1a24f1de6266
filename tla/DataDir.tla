------------------------------- MODULE DataDir -------------------------------
(***************************************************************************)
(* What the engine lock promises, without a word of files and handles: a   *)
(* data directory is driven by at most one engine, and it is given up      *)
(* before it is taken again.  EngineLock implements it.                    *)
(***************************************************************************)
CONSTANT Procs    \* the engine processes that may be started

VARIABLE engines  \* those that drive the data directory

Free == engines = {}

Init == Free

Take(p) == Free /\ engines' = {p}

\* The engine stops, or dies.
GiveUp == ~Free /\ engines' = {}

Next == GiveUp \/ \E p \in Procs : Take(p)

Spec == Init /\ [][Next]_engines
=============================================================================
