------------------------------ MODULE JobLoop ------------------------------
(***************************************************************************)
(* What the engine's loop over several jobs keeps, and what it promises of *)
(* it (internal/engine/engine.go).  Scheduler says how the loop works.     *)
(***************************************************************************)
EXTENDS Naturals

CONSTANTS
  NumJobs,          \* jobs, numbered in the order of their ids
  MaxParallelJobs,  \* orchestrator.max_parallel_jobs
  Once,             \* `sdlc run --once'
  MaxWrites,        \* bound: writes of a row
  MaxStarts         \* bound: starts of the engine

ASSUME NumJobsAssumption == NumJobs \in Nat
ASSUME ParallelAssumption == MaxParallelJobs \in Nat \ {0}
ASSUME OnceAssumption == Once \in BOOLEAN
ASSUME BoundsAssumption == MaxWrites \in Nat \ {0} /\ MaxStarts \in Nat

VARIABLES
  row,       \* the jobs table
  listed,    \* the copies this tick works on
  loop,      \* Run and tick: where they are, and what the tick has found
  inFlight,  \* e.inFlight
  slot,      \* e.sem: the step that holds each slot
  stopping,  \* the context is cancelled
  starts     \* history: starts of the engine

Jobs  == 1..NumJobs
Slots == 1..MaxParallelJobs

-----------------------------------------------------------------------------
(* Properties. *)

Running(k) == slot[k].pc = "step"

(***************************************************************************)
(* Two steps of one job never run at once: they would share its worktree,  *)
(* its branch and its row.                                                 *)
(***************************************************************************)
OneStepPerJob ==
  \A a, b \in Slots : (Running(a) /\ Running(b) /\ slot[a].job = slot[b].job) => a = b

(***************************************************************************)
(* When Run has returned, and with it the lock is free for another engine, *)
(* no step of this one is still at work.                                   *)
(***************************************************************************)
OffIsIdle == loop.pc = "off" => \A k \in Slots : ~Running(k)

(***************************************************************************)
(* `run --once' leaves only when no job is runnable, although steps end    *)
(* and produce work while it looks ("exits as soon as no job is runnable   *)
(* or in flight", engine.go:89).  Ctrl-C excuses it, and a database that   *)
(* failed the last look, whose error is taken for having found nothing.    *)
(***************************************************************************)
OnceDrains ==
  (Once /\ loop.pc = "off" /\ starts > 0 /\ ~stopping /\ ~loop.blind)
    => \A j \in Jobs : row[j].state # "work"
=============================================================================
