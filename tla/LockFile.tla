------------------------------- MODULE LockFile -------------------------------
(***************************************************************************)
(* The lock file of a data directory, the engine processes that are        *)
(* started on it, and what the lock is worth.  EngineLock says how the     *)
(* lock is taken and given back.                                           *)
(***************************************************************************)
CONSTANTS
  Procs,             \* the engine processes that may be started
  None,              \* no lock file on disk
  CanRemoveOpenFile  \* does os.Remove succeed on a file held open?

ASSUME NoneAssumption == None \notin Procs
ASSUME RemoveAssumption == CanRemoveOpenFile \in BOOLEAN

VARIABLES
  file,    \* the lock file on disk, named by its creator; None: absent
  handle,  \* processes holding the file they created open
  pc       \* where each process is in acquireLock / Run / releaseLock

-----------------------------------------------------------------------------
Running(p) == pc[p] = "running"

(***************************************************************************)
(* Where a file that is held open cannot be removed (Windows), the file,   *)
(* the handles and the races of starts, stops and crashes come down to     *)
(* DataDir: engines take the directory one after the other, and none takes *)
(* it over from one that still runs (acquireLock, releaseLock).  Where it  *)
(* can (POSIX) this is false: a start removes the file of a live engine.   *)
(***************************************************************************)
Dir == INSTANCE DataDir WITH engines <- {p \in Procs : Running(p)}

OneAfterTheOther == Dir!Spec
=============================================================================
