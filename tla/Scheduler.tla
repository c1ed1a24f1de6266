------------------------------ MODULE Scheduler ------------------------------
(***************************************************************************)
(* The loop of the engine over several jobs: Run, tick and the goroutines  *)
(* tick starts (internal/engine/engine.go).                                *)
(*                                                                         *)
(* A tick reads every job's row at once (ListJobs) and then visits the     *)
(* jobs one after the other with those copies, while the steps of earlier  *)
(* ticks go on.  A visit may take seconds: it renders the documents of a   *)
(* gate, it removes a worktree.  A step keeps the copy it was started with *)
(* and writes the whole row from it (UpdateJob).                           *)
(*                                                                         *)
(* A row is reduced to what the loop tells apart, and to the number of     *)
(* times it was written.  Whether people or clocks move a waiting job is   *)
(* left open (Pipeline and Approvals say when they do).                    *)
(***************************************************************************)
EXTENDS JobLoop

vars == <<row, listed, loop, inFlight, slot, stopping, starts>>

States == {"work", "waiting", "done"}  \* waiting: at a gate, suspended, held
Rows   == [state : States, writes : 0..MaxWrites]

Gone == [state |-> "done", writes |-> 0]  \* a copy that is out of use

Empty == [pc |-> "free", job |-> 0, copy |-> Gone]

Loop(pc) == [pc |-> pc, job |-> 0, dispatched |-> FALSE, pending |-> FALSE,
             again |-> FALSE, blind |-> FALSE]

\* Types; a job in flight has a slot, and is at work in it or has just been.
TypeOK ==
  /\ row \in [Jobs -> Rows]
  /\ listed \in [Jobs -> Rows]
  /\ loop \in [pc : {"off", "tick", "visit", "round", "select", "settle", "drain"},
               job : 0..NumJobs, dispatched : BOOLEAN, pending : BOOLEAN,
               again : BOOLEAN, blind : BOOLEAN]
  /\ inFlight \subseteq Jobs
  /\ slot \in [Slots -> [pc : {"free", "step", "unmark", "return"},
                         job : 0..NumJobs, copy : Rows]]
  /\ stopping \in BOOLEAN /\ starts \in 0..MaxStarts
  /\ loop.pc = "visit" => loop.job \in Jobs
  /\ \A j \in inFlight : \E k \in Slots :
       slot[k].job = j /\ slot[k].pc \in {"step", "unmark"}

\* Jobs may have been submitted, or left waiting by an earlier engine.
Init ==
  /\ row \in [Jobs -> [state : {"work", "waiting"}, writes : {0}]]
  /\ listed = [j \in Jobs |-> Gone]
  /\ loop = Loop("off")
  /\ inFlight = {}
  /\ slot = [k \in Slots |-> Empty]
  /\ stopping = FALSE
  /\ starts = 0

\* The rows a job may have once its row `r' is written again.
Writes(r) ==
  {new \in Rows : new.writes = r.writes + 1
                  /\ (new.writes = MaxWrites => new.state # "work")}

Free(k) == slot[k].pc = "free"

NoStep == \A k \in Slots : Free(k)  \* what wg.Wait waits for

-----------------------------------------------------------------------------
(* Run. *)

Start ==
  /\ loop.pc = "off" /\ NoStep
  /\ starts < MaxStarts
  /\ starts' = starts + 1
  /\ loop' = Loop("tick")
  /\ stopping' = FALSE
  /\ inFlight' = {}
  /\ UNCHANGED <<row, listed, slot>>

\* Ctrl-C, at any moment.
Stop ==
  /\ loop.pc # "off" /\ ~stopping
  /\ stopping' = TRUE
  /\ UNCHANGED <<row, listed, loop, inFlight, slot, starts>>

\* tick begins: ListJobs.
List ==
  /\ loop.pc = "tick"
  /\ listed' = row
  /\ loop' = IF NumJobs = 0 THEN [loop EXCEPT !.pc = "round"]
             ELSE [loop EXCEPT !.pc = "visit", !.job = 1]
  /\ UNCHANGED <<row, inFlight, slot, stopping, starts>>

\* ListJobs fails: the tick has dispatched nothing and counted nothing; `blind'
\* keeps that it looked at nothing.
ListFails ==
  /\ loop.pc = "tick"
  /\ loop' = [loop EXCEPT !.pc = "round", !.blind = TRUE]
  /\ UNCHANGED <<row, listed, inFlight, slot, stopping, starts>>

\* Nothing was dispatched, is runnable or in flight.
Quiet == ~loop.dispatched /\ ~loop.pending /\ inFlight = {}

Leaving == [Loop("off") EXCEPT !.blind = loop.blind]

\* Mutant of Round.
RoundUnchecked ==
  /\ loop.pc = "round"
  /\ loop' = CASE Once /\ ~loop.dispatched /\ inFlight = {} -> Leaving
               [] OTHER -> Loop("select")
  /\ UNCHANGED <<row, listed, inFlight, slot, stopping, starts>>

\* After a tick: --once leaves when two ticks in a row were quiet.
Round ==
  /\ loop.pc = "round"
  /\ loop' = CASE loop.again /\ Quiet  -> Leaving
               [] loop.again /\ ~Quiet -> Loop("tick")
               [] ~loop.again /\ Once /\ Quiet -> Loop("settle")
               [] OTHER -> Loop("select")
  /\ UNCHANGED <<row, listed, inFlight, slot, stopping, starts>>

\* "A finished step may have produced new runnable work": wait, look again.
Settle ==
  /\ loop.pc = "settle" /\ NoStep
  /\ loop' = [Loop("tick") EXCEPT !.again = TRUE]
  /\ UNCHANGED <<row, listed, inFlight, slot, stopping, starts>>

\* The select takes either case when both are ready.
Select ==
  /\ loop.pc = "select"
  /\ \/ loop' = Loop("tick")
     \/ stopping /\ loop' = Loop("drain")
  /\ UNCHANGED <<row, listed, inFlight, slot, stopping, starts>>

\* Mutant of Drain.
DrainAtOnce ==
  /\ loop.pc = "drain"
  /\ loop' = Loop("off")
  /\ UNCHANGED <<row, listed, inFlight, slot, stopping, starts>>

\* Ctrl-C waits for the steps in flight.
Drain ==
  /\ loop.pc = "drain" /\ NoStep
  /\ loop' = Loop("off")
  /\ UNCHANGED <<row, listed, inFlight, slot, stopping, starts>>

-----------------------------------------------------------------------------
(* tick: one job. *)

FirstFree == {k \in Slots : Free(k) /\ \A i \in Slots : Free(i) => k <= i}

Visiting(j) == loop.pc = "visit" /\ loop.job = j

\* On to the next job, with what this one adds to the tick's result.
Past(dispatched, pending) ==
  /\ loop' = [loop EXCEPT !.dispatched = @ \/ dispatched,
                          !.pending = @ \/ pending,
                          !.pc = IF @ = "visit" /\ loop.job = NumJobs THEN "round" ELSE @,
                          !.job = IF @ = NumJobs THEN 0 ELSE @ + 1]
  /\ listed' = [listed EXCEPT ![loop.job] = Gone]

SkipDone(j) ==
  /\ Visiting(j)
  /\ listed[j].state = "done"
  /\ Past(FALSE, FALSE)
  /\ UNCHANGED <<row, inFlight, slot, stopping, starts>>

SkipInFlight(j) ==
  /\ Visiting(j)
  /\ listed[j].state # "done"
  /\ j \in inFlight
  /\ Past(FALSE, TRUE)
  /\ UNCHANGED <<row, inFlight, slot, stopping, starts>>

Visitable(j) ==
  /\ Visiting(j)
  /\ listed[j].state # "done"
  /\ j \notin inFlight

\* No decision, no backoff elapsed: the job waits where it is.
SkipWaiting(j) ==
  /\ Visitable(j)
  /\ listed[j].state # "work"
  /\ Past(FALSE, FALSE)
  /\ UNCHANGED <<row, inFlight, slot, stopping, starts>>

\* A cancel, the age limit (the job is held), or a decision that leads to no work.
MoveAway(j) ==
  /\ Visitable(j)
  /\ \E new \in Writes(listed[j]) :
       new.state # "work" /\ row' = [row EXCEPT ![j] = new]
  /\ Past(FALSE, FALSE)
  /\ UNCHANGED <<inFlight, slot, stopping, starts>>

\* A resume, an approval or an elapsed backoff puts a waiting job to work.
\* The visit goes on with it.
PutToWork(j) ==
  /\ Visitable(j)
  /\ listed[j].state # "work"
  /\ \E new \in Writes(listed[j]) :
       /\ new.state = "work"
       /\ row' = [row EXCEPT ![j] = new]
       /\ listed' = [listed EXCEPT ![j] = new]
  /\ UNCHANGED <<loop, inFlight, slot, stopping, starts>>

\* A slot is free: the step is started.
Dispatch(j) ==
  /\ Visitable(j)
  /\ listed[j].state = "work"
  /\ \E k \in FirstFree :
       slot' = [slot EXCEPT ![k] = [pc |-> "step", job |-> j, copy |-> listed[j]]]
  /\ inFlight' = inFlight \cup {j}
  /\ Past(TRUE, TRUE)
  /\ UNCHANGED <<row, stopping, starts>>

CapReached(j) ==
  /\ Visitable(j)
  /\ listed[j].state = "work"
  /\ FirstFree = {}
  /\ Past(FALSE, TRUE)
  /\ UNCHANGED <<row, inFlight, slot, stopping, starts>>

Visit(j) ==
  \/ SkipDone(j) \/ SkipInFlight(j) \/ SkipWaiting(j) \/ MoveAway(j)
  \/ PutToWork(j) \/ Dispatch(j) \/ CapReached(j)

-----------------------------------------------------------------------------
(* The goroutine of a step. *)

\* The handler has run: the row is written from the step's copy.
StepEnds(k) ==
  /\ slot[k].pc = "step"
  /\ \E new \in Writes(slot[k].copy) : row' = [row EXCEPT ![slot[k].job] = new]
  /\ slot' = [slot EXCEPT ![k].pc = "unmark", ![k].copy = Gone]
  /\ UNCHANGED <<listed, loop, inFlight, stopping, starts>>

\* Mutant of Unmark.
UnmarkEarly(k) ==
  /\ slot[k].pc \in {"step", "unmark"}
  /\ slot[k].job \in inFlight
  /\ inFlight' = inFlight \ {slot[k].job}
  /\ slot' = [slot EXCEPT ![k].pc = IF @ = "unmark" THEN "return" ELSE @]
  /\ UNCHANGED <<row, listed, loop, stopping, starts>>

\* The deferred setInFlight(false) ...
Unmark(k) ==
  /\ slot[k].pc = "unmark"
  /\ inFlight' = inFlight \ {slot[k].job}
  /\ slot' = [slot EXCEPT ![k].pc = "return"]
  /\ UNCHANGED <<row, listed, loop, stopping, starts>>

\* ... and then the slot.
Return(k) ==
  /\ slot[k].pc = "return"
  /\ slot' = [slot EXCEPT ![k] = Empty]
  /\ UNCHANGED <<row, listed, loop, inFlight, stopping, starts>>

Goroutine(k) == StepEnds(k) \/ Unmark(k) \/ Return(k)

-----------------------------------------------------------------------------
Engine ==
  \/ List \/ ListFails \/ Round \/ Settle \/ Select \/ Drain
  \/ \E j \in Jobs : Visit(j)

\* The engine is off and not started again.
Off == loop.pc = "off" /\ NoStep /\ starts = MaxStarts /\ UNCHANGED vars

Next ==
  \/ Engine \/ Start \/ Stop \/ Off
  \/ \E k \in Slots : Goroutine(k)

\* The poll goes on, and every agent and command has a timeout.
Spec ==
  /\ Init /\ [][Next]_vars
  /\ WF_vars(Engine)
  /\ \A k \in Slots : WF_vars(Goroutine(k))

-----------------------------------------------------------------------------
(* Properties. *)

(***************************************************************************)
(* What SPEC.md:266 ("All writes funneled through a single goroutine") and *)
(* store.go:207 ("single-writer discipline") claim: a write of a row       *)
(* follows on the last one, it never undoes it.                            *)
(***************************************************************************)
WritesFollow ==
  [][\A j \in Jobs : row'[j] # row[j] => row'[j].writes = row[j].writes + 1]_vars
=============================================================================
