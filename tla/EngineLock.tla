------------------------------ MODULE EngineLock ------------------------------
(***************************************************************************)
(* The single-engine lock of internal/engine/engine.go.                    *)
(*                                                                         *)
(* Several `sdlc run` processes may be started against one data directory. *)
(* Each runs acquireLock: Stat the lock file, os.Remove it when it exists, *)
(* then OpenFile with O_CREATE|O_EXCL.  The winner keeps the file open for *)
(* as long as Run lasts; releaseLock closes it and then removes it.  Each  *)
(* of those calls is one step here, because the processes interleave       *)
(* between them.  A process may crash at any of them: the operating system *)
(* closes its handle and the file stays behind.                            *)
(*                                                                         *)
(* Whether Remove succeeds on a file another process holds open depends on *)
(* the platform, so it is a CONSTANT (FALSE on Windows, TRUE on POSIX).    *)
(***************************************************************************)
EXTENDS LockFile, Naturals

vars == <<file, handle, pc>>

Startable == {"off", "refused", "crashed"}
Acquiring == {"stat", "remove", "create"}

\* Types; and only an engine inside Run holds its lock file open.
TypeOK ==
  /\ file \in Procs \cup {None}
  /\ handle \subseteq {p \in Procs : pc[p] = "running"}
  /\ pc \in [Procs -> Startable \cup Acquiring \cup {"running", "closed"}]

(***************************************************************************)
(* The data directory may hold the orphaned lock of an earlier engine.     *)
(***************************************************************************)
Init ==
  /\ file \in Procs \cup {None}
  /\ handle = {}
  /\ pc = [p \in Procs |-> "off"]

Move(p, from, to) ==
  /\ pc[p] = from
  /\ pc' = [pc EXCEPT ![p] = to]

(***************************************************************************)
(* The outcome of os.Remove on the lock path.                              *)
(***************************************************************************)
Removable == file # None /\ (CanRemoveOpenFile \/ file \notin handle)

\* `sdlc run` starts: MkdirAll, then on to the Stat.
Start(p) ==
  /\ pc[p] \in Startable
  /\ pc' = [pc EXCEPT ![p] = "stat"]
  /\ UNCHANGED <<file, handle>>

\* os.Stat: a lock file that exists is to be removed first.
Stat(p) ==
  /\ Move(p, "stat", IF file = None THEN "create" ELSE "remove")
  /\ UNCHANGED <<file, handle>>

\* Mutant of RemoveStale.
RemoveStaleThenGiveUp(p) ==
  /\ Removable
  /\ Move(p, "remove", "refused")
  /\ file' = None
  /\ UNCHANGED handle

\* os.Remove succeeded: "removed stale engine lock".
RemoveStale(p) ==
  /\ Removable
  /\ Move(p, "remove", "create")
  /\ file' = None
  /\ UNCHANGED handle

\* os.Remove failed (held open, or gone since the Stat): acquireLock returns
\* "another engine appears to be running".
RefuseHeld(p) ==
  /\ ~Removable
  /\ Move(p, "remove", "refused")
  /\ UNCHANGED <<file, handle>>

\* Mutant of Create.
CreateWithoutExcl(p) ==
  /\ Move(p, "create", "running")
  /\ file' = p
  /\ handle' = handle \cup {p}

\* OpenFile(O_CREATE|O_EXCL) created the file; it stays open during Run.
Create(p) ==
  /\ file = None
  /\ Move(p, "create", "running")
  /\ file' = p
  /\ handle' = handle \cup {p}

\* O_EXCL found a file another process created meanwhile.
RefuseExists(p) ==
  /\ file # None
  /\ Move(p, "create", "refused")
  /\ UNCHANGED <<file, handle>>

\* Run returned (after wg.Wait); releaseLock closes the handle ...
Close(p) ==
  /\ Move(p, "running", "closed")
  /\ handle' = handle \ {p}
  /\ UNCHANGED file

\* ... and then removes the path, whoever created the file there by now.
\* The error of this Remove is ignored.
ReleaseRemove(p) ==
  /\ Move(p, "closed", "off")
  /\ file' = IF Removable THEN None ELSE file
  /\ UNCHANGED handle

\* The process dies; the operating system closes its handle.
Crash(p) ==
  /\ pc[p] \in Acquiring \cup {"running", "closed"}
  /\ pc' = [pc EXCEPT ![p] = "crashed"]
  /\ handle' = handle \ {p}
  /\ UNCHANGED file

Acquire(p) ==
  Stat(p) \/ RemoveStale(p) \/ RefuseHeld(p) \/ Create(p) \/ RefuseExists(p)

Next ==
  \E p \in Procs :
    Start(p) \/ Acquire(p) \/ Close(p) \/ ReleaseRemove(p) \/ Crash(p)

(***************************************************************************)
(* acquireLock is straight-line code and contains no wait: a process that  *)
(* entered it keeps going.  Nothing is assumed of Start, Close or Crash.   *)
(***************************************************************************)
Fairness == \A p \in Procs : WF_vars(Acquire(p))

Spec == Init /\ [][Next]_vars /\ Fairness

-----------------------------------------------------------------------------
(***************************************************************************)
(* acquireLock's contract: "one engine per data dir" (engine.go:59), since *)
(* two would both dispatch every job.  Only a platform that refuses to     *)
(* remove an open file keeps it: with CanRemoveOpenFile it is violated.    *)
(***************************************************************************)
MutualExclusion == \A p, q \in Procs : Running(p) /\ Running(q) => p = q

(***************************************************************************)
(* While an engine runs, the file on disk is the one it created and holds  *)
(* open: no late releaseLock of an engine that is shutting down, and no    *)
(* start-up that saw an older file, has taken it away (~CanRemoveOpenFile).*)
(***************************************************************************)
LockFileOfTheLive == \A p \in Procs : Running(p) => file = p /\ p \in handle

(***************************************************************************)
(* Starts that begin when no engine is left get one of themselves running, *)
(* orphaned lock or not: racing each other they cannot all be refused.     *)
(* (Unless one of them dies half way.  A start whose Stat overlapped the   *)
(* shutdown of the previous engine may be refused; that is not promised.)  *)
(***************************************************************************)
OrphanNeverBlocks ==
  (/\ \E p \in Procs : pc[p] = "stat"
   /\ \A p \in Procs : pc[p] \in {"off", "refused", "stat"})
    ~> \E p \in Procs : pc[p] \in {"running", "crashed"}
=============================================================================
