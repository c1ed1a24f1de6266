------------------------------- MODULE MCShared -------------------------------
(***************************************************************************)
(* Model-checking instance of what is shared on one machine: EngineLock,   *)
(* three engine processes started, stopped, crashed and restarted at will; *)
(* and Resources, two jobs that want a device and a Gradle slot.  The two  *)
(* have no variable in common and are not interleaved: `part' says whose   *)
(* steps a behaviour takes.  The other stays in an initial state, where it *)
(* has nothing that fairness could ask for and none of its properties is   *)
(* at stake.                                                               *)
(***************************************************************************)
EXTENDS EngineLock, Leases

VARIABLE part

Manager == INSTANCE Resources

leaseVars == <<gradle, inUse, booted, emulator, step>>

MCInit ==
  /\ part \in {"lock", "leases"}
  /\ Init /\ Manager!Init
  /\ part = "leases" => file = None

MCNext ==
  \/ part = "lock" /\ Next /\ UNCHANGED <<part, leaseVars>>
  \/ part = "leases" /\ Manager!Next /\ UNCHANGED <<part, vars>>

\* Of Resources, as its Spec has it.
LeaseFairness ==
  \A j \in Jobs : WF_leaseVars(Manager!Finish(j)) /\ SF_leaseVars(Manager!TakeSlot(j))

MCSpec == MCInit /\ [][MCNext]_<<part, vars, leaseVars>> /\ Fairness /\ LeaseFairness

\* The property of Resources that Leases does not state, under its own name.
PhasesRun == Manager!PhasesRun
=============================================================================
