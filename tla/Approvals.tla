------------------------------ MODULE Approvals ------------------------------
(***************************************************************************)
(* How people decide: the approvals table of internal/store, its writers   *)
(* (`sdlc approve|reject|cancel|resume' and the `sdlc review' prompt of    *)
(* internal/cli, the forms of internal/server) and its one reader, the     *)
(* engine's tick (handleControls, handleGate).                             *)
(*                                                                         *)
(* The writers are processes of their own, so each read and each write is  *)
(* a step.  Between what a person was shown and the row that is written    *)
(* lie a few microseconds (approve), a keyboard (review) or a browser tab. *)
(* The engine consumes a row first and writes the job's new state after,   *)
(* in two statements.                                                      *)
(*                                                                         *)
(* One job is modelled, reduced to where it stands with respect to people: *)
(* at a gate (named by the gate), held, suspended, working, or finished.   *)
(***************************************************************************)
EXTENDS Naturals, Sequences

CONSTANTS
  Gates,       \* approval gates the job comes to: names review.GateFor gives
  People,
  Surface,     \* what each of them uses: "cli", "prompt" or "web"
  CanExpire,   \* may the job outlive limits.max_job_duration?
  MaxRows,     \* bound: rows ever recorded
  MaxCrashes   \* bound: crashes of the engine

ASSUME GatesAssumption ==
  Gates \subseteq {"scope", "spec", "code", "merge", "release"}
ASSUME SurfaceAssumption == Surface \in [People -> {"cli", "prompt", "web"}]
ASSUME ExpireAssumption == CanExpire \in BOOLEAN
ASSUME BoundsAssumption == MaxRows \in Nat /\ MaxCrashes \in Nat

VARIABLES
  job,     \* the job row: its state, and how many gates it has come to
  rows,    \* the approvals table, in the order of its ids
  engine,  \* the tick: where it is, and the decision it has in hand
  person,  \* what each person was shown, and how far the answer has come
  acts,    \* history: <<row, visit>>, the decisions carried out
  crashes

vars == <<job, rows, engine, person, acts, crashes>>

Terminal  == {"COMPLETED", "CANCELLED"}
States    == Gates \cup {"working", "suspended", "held"} \cup Terminal
Controls  == {"cancel", "resume"}
Decisions == {"approve", "reject", "cancelling"}

Stopped == {"held", "suspended"}

\* The tick is past its look at the controls, or the job's step runs.
PastControls == engine.pc \in {"age", "gate", "acting", "dispatch", "step"}

\* due: history of a pending resume, recorded when the job was stopped or was
\* being worked on.
Row(gate, decision) ==
  [gate |-> gate, decision |-> decision, consumed |-> FALSE,
   due |-> gate = "resume" /\ (job.state \in Stopped \/ PastControls)]

\* visit: history, the visit of the gate that a form was rendered for.
Nobody == [pc |-> "idle", gate |-> "", visit |-> 0]

Resting == [pc |-> "idle", row |-> 0, to |-> ""]

\* Types; a decision in hand is a row of the table, and people only ever answer
\* at a gate.
TypeOK ==
  /\ job \in [state : States, visit : Nat]
  /\ rows \in Seq([gate : Gates \cup Controls, decision : Decisions \cup Controls,
                   consumed : BOOLEAN, due : BOOLEAN])
  /\ engine \in [pc : {"idle", "cancel", "resume", "age", "gate", "acting",
                       "dispatch", "step"},
                 row : Nat, to : States \cup {""}]
  /\ person \in [People -> [pc : {"idle", "looking", "deciding"},
                            gate : Gates \cup {""}, visit : Nat]]
  /\ acts \subseteq Nat \X Nat
  /\ crashes \in Nat
  /\ engine.pc = "acting" =>
       /\ engine.to \in States
       /\ engine.row \in DOMAIN rows
  /\ \A p \in People : person[p].pc # "idle" => person[p].gate \in Gates

Init ==
  /\ job = [state |-> "working", visit |-> 0]
  /\ rows = << >>
  /\ engine = Resting
  /\ person = [p \in People |-> Nobody]
  /\ acts = {}
  /\ crashes = 0

-----------------------------------------------------------------------------
(* The table (store.go). *)

Pending(gate) ==
  {i \in DOMAIN rows : rows[i].gate = gate /\ ~rows[i].consumed}

\* PendingApproval: ORDER BY id LIMIT 1.
Oldest(gate, i) == i \in Pending(gate) /\ \A j \in Pending(gate) : i <= j

\* Mutant of AddApproval.
AddApprovalUnindexed(gate, decision) ==
  /\ Len(rows) < MaxRows
  /\ rows' = Append(rows, Row(gate, decision))

\* The insert; the partial unique index refuses a second unconsumed row.
AddApproval(gate, decision) ==
  /\ Len(rows) < MaxRows
  /\ rows' = IF Pending(gate) = {}
               THEN Append(rows, Row(gate, decision)) ELSE rows

ConsumeApproval(i) == rows' = [rows EXCEPT ![i].consumed = TRUE, ![i].due = FALSE]

-----------------------------------------------------------------------------
(* People. *)

\* A person is shown a job at a gate.
Shown(p, pc) ==
  /\ person[p].pc = "idle"
  /\ job.state \in Gates
  /\ person' = [person EXCEPT ![p] =
       [pc |-> pc, gate |-> job.state, visit |-> IF Surface[p] = "web" THEN job.visit ELSE 0]]
  /\ UNCHANGED <<job, rows, engine, acts, crashes>>

\* `sdlc approve' and `reject' read the job and go on to the row at once.
ReadJob(p) == Surface[p] = "cli" /\ Shown(p, "deciding")

\* `sdlc review' prints the document of the gate.
ReadDocument(p) == Surface[p] = "prompt" /\ Shown(p, "looking")

\* A page of the web server; its form carries the state it was rendered from.
ReadPage(p) == Surface[p] = "web" /\ Shown(p, "looking")

Look(p) == ReadJob(p) \/ ReadDocument(p) \/ ReadPage(p)

Checked(p) ==
  /\ person[p].pc = "looking"
  /\ person' = [person EXCEPT ![p].pc = "deciding"]
  /\ UNCHANGED <<job, rows, engine, acts, crashes>>

\* promptGate looks once for a pending decision, then waits at the keyboard.
CheckPrompt(p) ==
  /\ Surface[p] = "prompt"
  /\ Pending(person[p].gate) = {}
  /\ Checked(p)

NotAlreadyPending(p) == Pending(person[p].gate) = {}

\* A posted form is checked when it arrives: requireFreshState compares states,
\* approvalGate looks for a pending row (two reads of one request, taken as one).
CheckForm(p) ==
  /\ Surface[p] = "web"
  /\ job.state = person[p].gate
  /\ NotAlreadyPending(p)
  /\ Checked(p)

Check(p) == CheckPrompt(p) \/ CheckForm(p)

\* The prompt does not offer `reject --cancel'.
Offered(p) == IF Surface[p] = "prompt" THEN {"approve", "reject"} ELSE Decisions

\* The row is written; the job is not looked at again.
Decide(p) ==
  /\ person[p].pc = "deciding"
  /\ \E d \in Offered(p) : AddApproval(person[p].gate, d)
  /\ person' = [person EXCEPT ![p] = Nobody]
  /\ UNCHANGED <<job, engine, acts, crashes>>

\* "already pending", "the job has moved on", quit, or a closed tab.
Leave(p) ==
  /\ person[p].pc # "idle"
  /\ person' = [person EXCEPT ![p] = Nobody]
  /\ UNCHANGED <<job, rows, engine, acts, crashes>>

\* `sdlc cancel' and `sdlc resume' are written whatever the job is doing; the
\* web forms only narrow down when.
Control(c) ==
  /\ AddApproval(c, c)
  /\ UNCHANGED <<job, engine, person, acts, crashes>>

-----------------------------------------------------------------------------
(* The engine's tick, for this job. *)

At(pc) == engine.pc = pc

Goto(pc) == engine' = [Resting EXCEPT !.pc = pc]

\* transition(): the job's row is written.
Enter(s) ==
  job' = [state |-> s, visit |-> IF s \in Gates THEN job.visit + 1 ELSE job.visit]

\* Mutant of Tick.
TickUnheld ==
  /\ At("idle")
  /\ job.state \notin Terminal \cup {"held"}
  /\ Goto("cancel")
  /\ UNCHANGED <<job, rows, person, acts, crashes>>

Tick ==
  /\ At("idle")
  /\ job.state \notin Terminal
  /\ Goto("cancel")
  /\ UNCHANGED <<job, rows, person, acts, crashes>>

\* Mutant of TakeInHand.
TakeInHandUnconsumed(i, to) ==
  /\ engine' = [pc |-> "acting", row |-> i, to |-> to]
  /\ UNCHANGED rows

\* The row is consumed; what it decides is yet to be written.
TakeInHand(i, to) ==
  /\ ConsumeApproval(i)
  /\ engine' = [pc |-> "acting", row |-> i, to |-> to]

\* handleControls, the cancel row.
TakeCancel ==
  /\ At("cancel")
  /\ \/ /\ Pending("cancel") = {}
        /\ Goto("resume")
        /\ UNCHANGED rows
     \/ \E i \in Pending("cancel") :
          Oldest("cancel", i) /\ TakeInHand(i, "CANCELLED")
  /\ UNCHANGED <<job, person, acts, crashes>>

\* Mutant of TakeResume.
TakeResumeWhenHeld ==
  /\ At("resume")
  /\ \/ /\ Pending("resume") = {} \/ job.state \notin Stopped
        /\ Goto("age")
        /\ UNCHANGED rows
     \/ \E i \in Pending("resume") :
          /\ Oldest("resume", i)
          /\ job.state \in Stopped
          /\ TakeInHand(i, "working")
  /\ UNCHANGED <<job, person, acts, crashes>>

(***************************************************************************)
(* handleControls, the resume row: it clears a hold or a suspension, unless*)
(* its target is refused; anywhere else it is consumed to no effect.       *)
(***************************************************************************)
TakeResume ==
  /\ At("resume")
  /\ \/ /\ Pending("resume") = {}
        /\ Goto("age")
        /\ UNCHANGED rows
     \/ \E i \in Pending("resume") :
          /\ Oldest("resume", i)
          /\ \/ job.state \in Stopped /\ TakeInHand(i, "working")
             \/ ConsumeApproval(i) /\ Goto("age")
  /\ UNCHANGED <<job, person, acts, crashes>>

\* limits.max_job_duration is looked at before the gate's row is.
TimeOut ==
  /\ At("age")
  /\ CanExpire /\ job.state # "held"
  /\ Enter("held")
  /\ Goto("idle")
  /\ UNCHANGED <<rows, person, acts, crashes>>

\* The rest of the tick, by the job's state; a suspension may have elapsed.
PastAge ==
  /\ At("age")
  /\ \/ job.state = "held" /\ Goto("idle") /\ UNCHANGED job
     \/ job.state = "suspended" /\ Goto("idle") /\ UNCHANGED job
     \/ job.state = "suspended" /\ Goto("dispatch") /\ Enter("working")
     \/ job.state = "working" /\ Goto("dispatch") /\ UNCHANGED job
     \/ job.state \in Gates /\ Goto("gate") /\ UNCHANGED job
  /\ UNCHANGED <<rows, person, acts, crashes>>

\* handleGate: where a decision sends the job.
Outcomes(gate, decision) ==
  CASE gate = "release" /\ decision # "approve" -> {"COMPLETED"}
    [] decision = "approve" \/ gate = "release" -> {"working"}
    [] decision = "cancelling"                  -> {"CANCELLED"}
    [] gate = "scope"                           -> {"working", "held"}
    [] OTHER                                    -> {"working"}

TakeDecision ==
  /\ At("gate")
  /\ \/ /\ Pending(job.state) = {}
        /\ Goto("idle")
        /\ UNCHANGED rows
     \/ \E i \in Pending(job.state) :
          /\ Oldest(job.state, i)
          /\ \E to \in Outcomes(job.state, rows[i].decision) : TakeInHand(i, to)
  /\ UNCHANGED <<job, person, acts, crashes>>

\* The decision in hand is carried out: the job's row is written, and the tick
\* goes on where it was.
Act ==
  /\ At("acting")
  /\ Enter(engine.to)
  /\ acts' = acts \cup {<<engine.row, job.visit>>}
  /\ Goto(IF engine.to # "working" THEN "idle"
          ELSE IF rows[engine.row].gate = "resume" THEN "age" ELSE "dispatch")
  /\ UNCHANGED <<rows, person, crashes>>

\* A worker slot is free, or the job waits for the next tick.
Dispatch ==
  /\ At("dispatch")
  /\ Goto("step") \/ Goto("idle")
  /\ UNCHANGED <<job, rows, person, acts, crashes>>

\* The work up to the next stop; the tick leaves the job alone meanwhile.
Step ==
  /\ At("step")
  /\ \E s \in States \ {"CANCELLED"} : Enter(s)
  /\ Goto("idle")
  /\ UNCHANGED <<rows, person, acts, crashes>>

\* The engine dies and is started again; a decision in hand is gone.
Crash ==
  /\ ~At("idle")
  /\ crashes < MaxCrashes
  /\ crashes' = crashes + 1
  /\ Goto("idle")
  /\ UNCHANGED <<job, rows, person, acts>>

\* Nothing is left to decide.
Finished == job.state \in Terminal /\ At("idle") /\ UNCHANGED vars

Engine ==
  \/ Tick \/ TakeCancel \/ TakeResume \/ TimeOut \/ PastAge \/ TakeDecision
  \/ Act \/ Dispatch \/ Step

Next ==
  \/ Engine
  \/ \E p \in People : Look(p) \/ Check(p) \/ Decide(p) \/ Leave(p)
  \/ \E c \in Controls : Control(c)
  \/ Crash
  \/ Finished

\* The tick polls and a step ends (every agent and command has a timeout).
Spec == Init /\ [][Next]_vars /\ WF_vars(Engine)

-----------------------------------------------------------------------------
(* Properties. *)

\* The decisions that are pending, whichever row they are in.
InBox == {<<rows[i].gate, rows[i].decision>> : i \in {j \in DOMAIN rows : ~rows[j].consumed}}

InHand == IF At("acting") THEN <<rows[engine.row].gate, rows[engine.row].decision>> ELSE <<>>

(***************************************************************************)
(* The table, its writers and the tick come down to DecisionBox.  However  *)
(* many people decide at once (their checks are reads before a write, the  *)
(* index is what they share, store.go:212-224), a gate has one decision,   *)
(* which is not overwritten, and a job leaves a gate on that one only: not *)
(* on one made for another gate, on a surplus row, or on one that was      *)
(* taken in hand before the job moved.                                     *)
(***************************************************************************)
Box == INSTANCE DecisionBox WITH box <- InBox, hand <- InHand, state <- job.state

OneDecisionPerGate == Box!Spec

(***************************************************************************)
(* A decision is carried out at most once, crashes included: a "reject" is *)
(* not also the answer to the gate's next visit.                           *)
(***************************************************************************)
ActedOnce == \A a, b \in acts : a[1] = b[1] => a = b

Unconsumed(i) == i \in DOMAIN rows /\ ~rows[i].consumed

Carried(i) == \E v \in 0..job.visit : <<i, v>> \in acts

\* The row is consumed, not carried out, and no longer in the engine's hand.
Lost(i) ==
  /\ i \in DOMAIN rows /\ rows[i].consumed
  /\ ~Carried(i)
  /\ ~(At("acting") /\ engine.row = i)

(***************************************************************************)
(* What requireFreshState says of the forms it accepts (safety.go:236):    *)
(* "refuses a decision posted from a page that no longer describes the     *)
(* job".  It does not hold: the form carries the name of a state, and a    *)
(* job that was sent back and has come to the same gate again has it too.  *)
(***************************************************************************)
FormsAreFresh ==
  [][\A p \in People :
       (Surface[p] = "web" /\ person[p].pc = "looking" /\ person'[p].pc = "deciding")
         => person[p].visit = job.visit]_vars

(***************************************************************************)
(* A recorded cancel ends the job, whatever it is doing: working, held, at *)
(* a gate with a decision of its own pending, or timing out.  (Only a      *)
(* crash that takes it from the engine's hand excuses it.)                 *)
(***************************************************************************)
CancelIsFinal ==
  \A i \in 1..MaxRows :
    (Unconsumed(i) /\ rows[i].gate = "cancel")
      ~> (job.state \in Terminal \/ Lost(i))

(***************************************************************************)
(* A resume answers a hold or a suspension that was there when it was      *)
(* recorded: what is recorded of a job at a gate, or waiting for its next  *)
(* step, is used up by the next tick and does not clear a later hold,      *)
(* which nobody has seen ("consume so it doesn't linger", engine.go:284).  *)
(* One that is recorded while the job's step runs, or the tick is past its *)
(* look at the controls, is excused: if that step ends in a hold, the next *)
(* tick does clear it, since no tick looks at a job before its step ends.  *)
(***************************************************************************)
ResumeClearsNoLaterHold ==
  [][(At("resume") /\ engine'.pc = "acting") => rows[engine'.row].due]_vars
=============================================================================
