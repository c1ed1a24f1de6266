---------------------------- MODULE Shared_proofs ----------------------------
(***************************************************************************)
(* What several processes, people and jobs share.  Of the approvals table, *)
(* for any number of people on any surface, any number of rows and of      *)
(* crashes: it is well formed, one decision is pending per gate, and none  *)
(* is carried out twice.  Of the engine lock, for any set of processes, on *)
(* a platform where a file held open cannot be removed: two engines never  *)
(* drive one data directory.  Of the resource manager, for any number of   *)
(* jobs, devices and slots, with or without discovery and an emulator: no  *)
(* device is leased twice, and no lease is leaked.                         *)
(***************************************************************************)
EXTENDS Approvals, LockFile, Leases, TLAPS

L == INSTANCE EngineLock
M == INSTANCE Resources

-----------------------------------------------------------------------------
(* The approvals. *)

Records ==
  [gate : Gates \cup Controls, decision : Decisions \cup Controls,
   consumed : BOOLEAN, due : BOOLEAN]

(***************************************************************************)
(* A new row goes to the end of the table; the others stay as they are.    *)
(***************************************************************************)
LEMMA Inserted ==
  ASSUME rows \in Seq(Records),
         NEW g \in Gates \cup Controls, NEW d \in Decisions \cup Controls,
         AddApproval(g, d)
  PROVE  /\ rows' \in Seq(Records)
         /\ DOMAIN rows \subseteq DOMAIN rows'
         /\ \A i \in DOMAIN rows : rows'[i] = rows[i]
         /\ \A i \in DOMAIN rows' \ DOMAIN rows :
              /\ i = Len(rows) + 1
              /\ rows'[i] = Row(g, d) /\ rows'[i].gate = g
              /\ Pending(g) = {}
<1>1. Row(g, d) \in Records /\ Row(g, d).gate = g
  BY DEF Row, Records
<1>2. CASE rows' = rows
  BY <1>2
<1>3. CASE Pending(g) = {} /\ rows' = Append(rows, Row(g, d))
  BY <1>1, <1>3
<1>4. QED
  BY <1>2, <1>3 DEF AddApproval

(***************************************************************************)
(* Consuming a row changes that flag only.                                 *)
(***************************************************************************)
LEMMA Consumed ==
  ASSUME rows \in Seq(Records), NEW i \in DOMAIN rows, ConsumeApproval(i)
  PROVE  /\ rows' \in Seq(Records)
         /\ DOMAIN rows' = DOMAIN rows
         /\ \A j \in DOMAIN rows :
              /\ rows'[j].gate = rows[j].gate /\ rows'[j].decision = rows[j].decision
              /\ rows'[j].consumed = (j = i \/ rows[j].consumed)
<1>1. [rows[i] EXCEPT !.consumed = TRUE, !.due = FALSE] \in Records
  <2>1. rows[i] \in Records
    OBVIOUS
  <2>2. QED
    BY <2>1 DEF Records
<1>2. rows' = [rows EXCEPT ![i] = [rows[i] EXCEPT !.consumed = TRUE, !.due = FALSE]]
  BY DEF ConsumeApproval
<1>3. rows' \in Seq(Records) /\ DOMAIN rows' = DOMAIN rows
  BY <1>1, <1>2
<1>4. ASSUME NEW j \in DOMAIN rows
      PROVE  /\ rows'[j].gate = rows[j].gate /\ rows'[j].decision = rows[j].decision
             /\ rows'[j].consumed = (j = i \/ rows[j].consumed)
  <2>1. rows[j] \in Records
    OBVIOUS
  <2>2. CASE j = i
    BY <2>1, <2>2, <1>2 DEF Records
  <2>3. CASE j # i
    <3>1. rows'[j] = rows[j]
      BY <2>3, <1>2
    <3>2. rows[j].consumed \in BOOLEAN
      BY <2>1 DEF Records
    <3>3. QED
      BY <2>3, <3>1, <3>2
  <2>4. QED
    BY <2>2, <2>3
<1>5. QED
  BY <1>3, <1>4

(***************************************************************************)
(* A step inserts at most one row, consumes at most one, or leaves the     *)
(* table alone.                                                            *)
(***************************************************************************)
LEMMA RowsStep ==
  ASSUME TypeOK, [Next]_vars
  PROVE  \/ UNCHANGED rows
         \/ \E g \in Gates \cup Controls, d \in Decisions \cup Controls :
              AddApproval(g, d) /\ UNCHANGED <<engine, acts>>
         \/ \E i \in DOMAIN rows :
              /\ ~rows[i].consumed
              /\ ConsumeApproval(i)
              /\ engine'.pc = "acting" => engine'.row = i
              /\ UNCHANGED acts
<1> USE DEF Pending
<1>1. ASSUME NEW p \in People, Decide(p)
      PROVE  \E g \in Gates \cup Controls, d \in Decisions \cup Controls :
               AddApproval(g, d) /\ UNCHANGED <<engine, acts>>
  <2>1. PICK d \in Offered(p) : AddApproval(person[p].gate, d)
    BY <1>1 DEF Decide
  <2>2. d \in Decisions
    BY DEF Offered, Decisions
  <2>3. person[p].gate \in Gates
    BY <1>1 DEF Decide, TypeOK
  <2>4. QED
    BY <1>1, <2>1, <2>2, <2>3 DEF Decide
<1>2. ASSUME NEW c \in Controls, Control(c)
      PROVE  \E g \in Gates \cup Controls, d \in Decisions \cup Controls :
               AddApproval(g, d) /\ UNCHANGED <<engine, acts>>
  BY <1>2 DEF Control
<1>3. CASE TakeCancel
  BY <1>3 DEF TakeCancel, TakeInHand
<1>4. CASE TakeResume
  <2>1. Goto("age") => engine'.pc # "acting"
    BY DEF Goto, Resting
  <2>2. QED
    BY <2>1, <1>4 DEF TakeResume, TakeInHand
<1>5. CASE TakeDecision
  BY <1>5 DEF TakeDecision, TakeInHand
<1>6. CASE Tick \/ TimeOut \/ PastAge \/ Act \/ Dispatch \/ Step \/ Crash
           \/ Finished \/ UNCHANGED vars
           \/ \E p \in People : Look(p) \/ Check(p) \/ Leave(p)
  BY <1>6 DEF Tick, TimeOut, PastAge, Act, Dispatch, Step, Crash, Finished,
              vars, Look, ReadJob, ReadDocument, ReadPage, Shown,
              Check, CheckPrompt, CheckForm, Checked, Leave
<1>7. QED
  BY <1>1, <1>2, <1>3, <1>4, <1>5, <1>6 DEF Next, Engine

-----------------------------------------------------------------------------
(***************************************************************************)
(* The tick moves between its own places.                                  *)
(***************************************************************************)
LEMMA GotoType ==
  ASSUME NEW at \in {"idle", "cancel", "resume", "age", "gate", "dispatch", "step"},
         Goto(at)
  PROVE  /\ engine' \in [pc : {"idle", "cancel", "resume", "age", "gate", "acting",
                              "dispatch", "step"},
                        row : Nat, to : States \cup {""}]
         /\ engine'.pc = at
BY DEF Goto, Resting

(***************************************************************************)
(* Every step keeps the types.                                             *)
(***************************************************************************)
LEMMA TypeStep ==
  ASSUME TypeOK, [Next]_vars
  PROVE  TypeOK'
<1> DEFINE Engines == [pc : {"idle", "cancel", "resume", "age", "gate", "acting",
                             "dispatch", "step"},
                       row : Nat, to : States \cup {""}]
           Persons == [pc : {"idle", "looking", "deciding"},
                       gate : Gates \cup {""}, visit : Nat]
           JobRecords == [state : States, visit : Nat]
           PersonsOK ==
             /\ person' \in [People -> Persons]
             /\ \A p \in People : person'[p].pc # "idle" => person'[p].gate \in Gates
<1>1. /\ rows' \in Seq(Records)
      /\ DOMAIN rows \subseteq DOMAIN rows'
  <2>1. rows \in Seq(Records)
    BY DEF TypeOK, Records
  <2>2. QED
    BY <2>1, RowsStep, Inserted, Consumed
<1>2. job' \in JobRecords
  <2>1. ASSUME NEW s \in States, Enter(s) PROVE job' \in JobRecords
    <3>1. job.visit \in Nat
      BY DEF TypeOK
    <3>2. QED
      BY <2>1, <3>1 DEF Enter
  <2>2. CASE Act
    BY <2>1, <2>2 DEF Act, At, TypeOK
  <2>3. CASE Step
    BY <2>1, <2>3 DEF Step
  <2>4. CASE TimeOut
    BY <2>1, <2>4 DEF TimeOut, States
  <2>5. CASE PastAge
    BY <2>1, <2>5 DEF PastAge, States, TypeOK
  <2>6. CASE UNCHANGED job
    BY <2>6 DEF TypeOK
  <2>7. QED
    BY <2>2, <2>3, <2>4, <2>5, <2>6
       DEF Next, Engine, vars, Tick, TakeCancel, TakeResume, TakeDecision,
           Dispatch, Look, ReadJob, ReadDocument, ReadPage, Shown,
           Check, CheckPrompt, CheckForm, Checked, Decide, Leave, Control, Crash, Finished
<1>3. /\ engine' \in Engines
      /\ engine'.pc = "acting" => engine'.to \in States /\ engine'.row \in DOMAIN rows
  <2>1. ASSUME NEW i \in DOMAIN rows, NEW to \in States, TakeInHand(i, to)
        PROVE  engine' \in Engines /\ engine'.to \in States /\ engine'.row \in DOMAIN rows
    <3>1. i \in Nat
      <4>1. rows \in Seq(Records)
        BY DEF TypeOK, Records
      <4>2. QED
        BY <4>1
    <3>2. QED
      BY <2>1, <3>1 DEF TakeInHand
  <2>2. ASSUME NEW at \in {"idle", "cancel", "resume", "age", "gate", "dispatch", "step"},
               Goto(at)
        PROVE  engine' \in Engines /\ engine'.pc # "acting"
    BY <2>2, GotoType
  <2>3. CASE TakeCancel
    BY <2>1, <2>2, <2>3 DEF TakeCancel, Pending, States, Terminal
  <2>4. CASE TakeResume
    BY <2>1, <2>2, <2>4 DEF TakeResume, Pending, States
  <2>5. CASE TakeDecision
    <3>1. \A g, d : Outcomes(g, d) \subseteq States
      BY DEF Outcomes, States, Terminal
    <3>2. QED
      BY <2>1, <2>2, <2>5, <3>1 DEF TakeDecision, Pending
  <2>6. CASE Tick \/ TimeOut \/ PastAge \/ Act \/ Dispatch \/ Step \/ Crash
    BY <2>2, <2>6 DEF Tick, TimeOut, PastAge, Act, Dispatch, Step, Crash
  <2>7. CASE UNCHANGED engine
    BY <2>7 DEF TypeOK
  <2>8. QED
    BY <2>3, <2>4, <2>5, <2>6, <2>7
       DEF Next, Engine, vars, Look, ReadJob, ReadDocument, ReadPage, Shown,
           Check, CheckPrompt, CheckForm, Checked, Decide, Leave, Control, Finished
<1>4. PersonsOK
  <2>1. ASSUME NEW p \in People, Look(p) PROVE PersonsOK
    <3>1. PICK at \in {"looking", "deciding"} : Shown(p, at)
      BY <2>1 DEF Look, ReadJob, ReadDocument, ReadPage
    <3>2. job.state \in Gates
      BY <3>1 DEF Shown, TypeOK
    <3>3. QED
      BY <3>1, <3>2 DEF Shown, TypeOK
  <2>2. ASSUME NEW p \in People, Check(p) PROVE PersonsOK
    <3>1. person[p].pc = "looking" /\ person' = [person EXCEPT ![p].pc = "deciding"]
      BY <2>2 DEF Check, CheckPrompt, CheckForm, Checked
    <3>2. /\ person \in [People -> Persons]
          /\ \A q \in People : person[q].pc # "idle" => person[q].gate \in Gates
      BY DEF TypeOK
    <3>3. [person[p] EXCEPT !.pc = "deciding"] \in Persons
      BY <3>2
    <3>4. QED
      BY <3>1, <3>2, <3>3
  <2>3. ASSUME NEW p \in People, Decide(p) \/ Leave(p) PROVE PersonsOK
    <3>1. Nobody \in Persons /\ Nobody.pc = "idle"
      BY DEF Nobody
    <3>2. QED
      BY <2>3, <3>1 DEF Decide, Leave, TypeOK
  <2>4. CASE UNCHANGED person
    BY <2>4 DEF TypeOK
  <2>5. QED
    BY <2>1, <2>2, <2>3, <2>4
       DEF Next, Engine, vars, Tick, TakeCancel, TakeResume, TimeOut, PastAge,
           TakeDecision, Act, Dispatch, Step, Control, Crash, Finished
<1>5. acts' \subseteq Nat \X Nat /\ crashes' \in Nat
  <2>1. /\ engine.row \in Nat /\ job.visit \in Nat
        /\ acts \subseteq Nat \X Nat /\ crashes \in Nat
    BY DEF TypeOK
  <2>2. CASE Act
    BY <2>1, <2>2 DEF Act
  <2>3. CASE Crash
    BY <2>1, <2>3 DEF Crash
  <2>4. CASE UNCHANGED <<acts, crashes>>
    BY <2>4 DEF TypeOK
  <2>5. QED
    BY <2>2, <2>3, <2>4
       DEF Next, Engine, vars, Tick, TakeCancel, TakeResume, TimeOut, PastAge,
           TakeDecision, Dispatch, Step, Control, Finished, Look, ReadJob, ReadDocument, ReadPage, Shown,
           Check, CheckPrompt, CheckForm, Checked, Decide,
           Leave
<1>6. QED
  BY <1>1, <1>2, <1>3, <1>4, <1>5 DEF TypeOK, Records

(***************************************************************************)
(* The empty table is well formed.                                         *)
(***************************************************************************)
LEMMA TypeInit == Init => TypeOK
<1> SUFFICES ASSUME Init PROVE TypeOK
  OBVIOUS
<1>1. job \in [state : States, visit : Nat]
  BY DEF Init, States
<1>2. rows = << >> /\ acts = {} /\ crashes = 0
  BY DEF Init
<1>3. /\ engine.pc = "idle"
      /\ engine \in [pc : {"idle", "cancel", "resume", "age", "gate", "acting",
                          "dispatch", "step"},
                    row : Nat, to : States \cup {""}]
  BY DEF Init, Resting
<1>4. /\ person \in [People -> [pc : {"idle", "looking", "deciding"},
                               gate : Gates \cup {""}, visit : Nat]]
      /\ \A p \in People : person[p].pc = "idle"
  BY DEF Init, Nobody
<1>5. rows \in Seq(Records)
  BY <1>2
<1>6. QED
  BY <1>1, <1>2, <1>3, <1>4, <1>5 DEF TypeOK, Records

(***************************************************************************)
(* Type correctness; in particular the decision the engine has in hand is  *)
(* a row of the table, and people answer at gates only.                    *)
(***************************************************************************)
THEOREM TypeCorrect == Spec => []TypeOK
<1>1. TypeOK /\ [Next]_vars => TypeOK'
  BY TypeStep
<1>2. QED
  BY <1>1, TypeInit, PTL DEF Spec

-----------------------------------------------------------------------------
\* One decision is pending per gate.
OnePending ==
  \A i, j \in DOMAIN rows :
    (rows[i].gate = rows[j].gate /\ ~rows[i].consumed /\ ~rows[j].consumed) => i = j

(***************************************************************************)
(* The index at work: a row is inserted only where none is pending, and    *)
(* consuming one makes none pending.                                       *)
(***************************************************************************)
LEMMA OnePendingStep ==
  ASSUME TypeOK, OnePending, [Next]_vars
  PROVE  OnePending'
<1>1. rows \in Seq(Records)
  BY DEF TypeOK, Records
<1>2. ASSUME NEW g \in Gates \cup Controls, NEW d \in Decisions \cup Controls,
             AddApproval(g, d)
      PROVE  OnePending'
  BY <1>1, <1>2, Inserted DEF OnePending, Pending
<1>3. ASSUME NEW i \in DOMAIN rows, ConsumeApproval(i)
      PROVE  OnePending'
  BY <1>1, <1>3, Consumed DEF OnePending
<1>4. CASE UNCHANGED rows
  BY <1>4 DEF OnePending
<1>5. QED
  BY <1>2, <1>3, <1>4, RowsStep

(***************************************************************************)
(* At most one decision is pending per gate, for any number of writers.    *)
(***************************************************************************)
THEOREM OnePendingHolds == Spec => []OnePending
<1>1. Init => TypeOK /\ OnePending
  BY TypeInit DEF Init, OnePending
<1>2. TypeOK /\ OnePending /\ [Next]_vars => TypeOK' /\ OnePending'
  BY TypeStep, OnePendingStep
<1>3. QED
  BY <1>1, <1>2, PTL DEF Spec

\* What makes ActedOnce inductive: what was carried out, or is in hand, is
\* consumed, and what is in hand has not been carried out.
ActInv ==
  /\ ActedOnce
  /\ \A a \in acts : a[1] \in DOMAIN rows /\ rows[a[1]].consumed
  /\ engine.pc = "acting" =>
       /\ rows[engine.row].consumed
       /\ \A a \in acts : a[1] # engine.row

(***************************************************************************)
(* A row is taken in hand only unconsumed, so never a second time.         *)
(***************************************************************************)
LEMMA ActStep ==
  ASSUME TypeOK, ActInv, [Next]_vars
  PROVE  ActInv'
<1>1. rows \in Seq(Records)
  BY DEF TypeOK, Records
<1>2. CASE Act
  <2>1. engine'.pc # "acting" /\ UNCHANGED rows
    BY <1>2, GotoType DEF Act
  <2>2. acts' = acts \cup {<<engine.row, job.visit>>} /\ engine.pc = "acting"
    BY <1>2 DEF Act, At
  <2>3. engine.row \in DOMAIN rows
    BY <2>2 DEF TypeOK
  <2>4. QED
    BY <2>1, <2>2, <2>3 DEF ActInv, ActedOnce
<1>3. ASSUME NEW g \in Gates \cup Controls, NEW d \in Decisions \cup Controls,
             AddApproval(g, d), UNCHANGED <<engine, acts>>
      PROVE  ActInv'
  <2>1. /\ DOMAIN rows \subseteq DOMAIN rows'
        /\ \A i \in DOMAIN rows : rows'[i] = rows[i]
    BY <1>1, <1>3, Inserted
  <2>2. engine.pc = "acting" => engine.row \in DOMAIN rows
    BY DEF TypeOK
  <2>3. QED
    BY <1>3, <2>1, <2>2 DEF ActInv, ActedOnce
<1>4. ASSUME NEW i \in DOMAIN rows, ~rows[i].consumed, ConsumeApproval(i),
             engine'.pc = "acting" => engine'.row = i, UNCHANGED acts
      PROVE  ActInv'
  <2>1. /\ DOMAIN rows' = DOMAIN rows
        /\ \A j \in DOMAIN rows : rows'[j].consumed = (j = i \/ rows[j].consumed)
    BY <1>1, <1>4, Consumed
  <2>2. QED
    BY <1>4, <2>1 DEF ActInv, ActedOnce
<1>5. CASE UNCHANGED rows /\ ~Act
  <2>1. UNCHANGED acts
    BY <1>5 DEF Next, Engine, vars, Tick, TakeCancel, TakeResume, TimeOut, PastAge,
                TakeDecision, Dispatch, Step, Control, Crash, Finished,
                Look, ReadJob, ReadDocument, ReadPage, Shown,
           Check, CheckPrompt, CheckForm, Checked, Decide, Leave
  <2>2. engine'.pc = "acting" => UNCHANGED engine
    <3>1. ASSUME NEW i \in DOMAIN rows, NEW to, TakeInHand(i, to), ~rows[i].consumed
          PROVE  FALSE
      BY <1>1, <1>5, <3>1, Consumed DEF TakeInHand
    <3>2. QED
      BY <1>5, <3>1, GotoType
         DEF Next, Engine, vars, Tick, TakeCancel, TakeResume, TimeOut, PastAge,
             TakeDecision, Dispatch, Step, Control, Crash, Finished,
             Look, ReadJob, ReadDocument, ReadPage, Shown,
           Check, CheckPrompt, CheckForm, Checked, Decide, Leave, Pending
  <2>3. QED
    BY <1>5, <2>1, <2>2 DEF ActInv, ActedOnce
<1>6. QED
  BY <1>2, <1>3, <1>4, <1>5, RowsStep

(***************************************************************************)
(* No decision is carried out twice, however often the engine crashes.     *)
(***************************************************************************)
THEOREM ActedOnceHolds == Spec => []ActedOnce
<1>1. Init => TypeOK /\ ActInv
  <2>1. Init => acts = {} /\ engine = Resting
    BY DEF Init
  <2>2. Resting.pc # "acting"
    BY DEF Resting
  <2>3. QED
    BY <2>1, <2>2, TypeInit DEF ActInv, ActedOnce
<1>2. TypeOK /\ ActInv /\ [Next]_vars => TypeOK' /\ ActInv'
  BY TypeStep, ActStep
<1>3. ActInv => ActedOnce
  BY DEF ActInv
<1>4. QED
  BY <1>1, <1>2, <1>3, PTL DEF Spec

\* What makes ResumeClearsNoLaterHold inductive: a resume that is not due waits
\* for the tick's look at the controls, the job is not stopped meanwhile, and all
\* that can come before that look is a cancel.
DueInv ==
  \A i \in DOMAIN rows :
    (rows[i].gate = "resume" /\ ~rows[i].consumed /\ ~rows[i].due) =>
      /\ job.state \notin Stopped
      /\ \/ engine.pc \in {"idle", "cancel", "resume"}
         \/ engine.pc = "acting" /\ engine.to = "CANCELLED"

(***************************************************************************)
(* The tick consumes the one pending resume before it goes past the        *)
(* controls, and only past them does the job come to a new hold.           *)
(***************************************************************************)
LEMMA DueStep ==
  ASSUME TypeOK, OnePending, DueInv, [Next]_vars
  PROVE  DueInv'
<1>1. rows \in Seq(Records)
  BY DEF TypeOK, Records
<1>2. ASSUME NEW g \in Gates \cup Controls, NEW d \in Decisions \cup Controls,
             AddApproval(g, d), UNCHANGED <<job, engine>>
      PROVE  DueInv'
  <2>1. /\ \A i \in DOMAIN rows : rows'[i] = rows[i]
        /\ \A i \in DOMAIN rows' \ DOMAIN rows : rows'[i] = Row(g, d)
    BY <1>1, <1>2, Inserted
  <2>2. engine.pc \in {"idle", "cancel", "resume"} \/ PastControls
    BY DEF TypeOK, PastControls
  <2>3. Row(g, d).gate = "resume" /\ ~Row(g, d).due
          => job.state \notin Stopped /\ ~PastControls
    BY DEF Row
  <2>4. QED
    BY <1>2, <2>1, <2>2, <2>3 DEF DueInv
<1>3. ASSUME NEW i \in DOMAIN rows, rows[i].gate = "resume", ~rows[i].consumed,
             ConsumeApproval(i)
      PROVE  DueInv'
  <2>1. /\ DOMAIN rows' = DOMAIN rows
        /\ \A j \in DOMAIN rows :
             /\ rows'[j].gate = rows[j].gate
             /\ rows'[j].consumed = (j = i \/ rows[j].consumed)
    BY <1>1, <1>3, Consumed
  <2>2. QED
    BY <1>3, <2>1 DEF DueInv, OnePending
<1>4. ASSUME NEW i \in DOMAIN rows, ConsumeApproval(i)
      PROVE  \A j \in DOMAIN rows' :
               ~rows'[j].consumed =>
                 j \in DOMAIN rows /\ ~rows[j].consumed /\ rows'[j] = rows[j]
  <2>1. /\ DOMAIN rows' = DOMAIN rows
        /\ \A j \in DOMAIN rows : rows'[j].consumed = (j = i \/ rows[j].consumed)
    BY <1>1, <1>4, Consumed
  <2>2. \A j \in DOMAIN rows : j # i => rows'[j] = rows[j]
    BY <1>1, <1>4 DEF ConsumeApproval
  <2>3. QED
    BY <2>1, <2>2
<1>5. CASE TakeCancel
  <2>1. engine.pc = "cancel" /\ UNCHANGED job
    BY <1>5 DEF TakeCancel, At
  <2>2. CASE UNCHANGED rows /\ Goto("resume")
    BY <2>1, <2>2, GotoType DEF DueInv
  <2>3. CASE \E i \in Pending("cancel") : TakeInHand(i, "CANCELLED")
    BY <2>1, <2>3, <1>4 DEF TakeInHand, Pending, DueInv
  <2>4. QED
    BY <1>5, <2>2, <2>3 DEF TakeCancel
<1>6. CASE TakeResume
  <2>1. CASE Pending("resume") = {} /\ UNCHANGED rows
    BY <2>1 DEF DueInv, Pending
  <2>2. CASE \E i \in Pending("resume") : ConsumeApproval(i)
    BY <2>2, <1>3 DEF Pending
  <2>3. QED
    BY <1>6, <2>1, <2>2 DEF TakeResume, TakeInHand
<1>7. CASE TakeDecision
  <2>1. engine.pc = "gate"
    BY <1>7 DEF TakeDecision, At
  <2>2. CASE UNCHANGED rows
    BY <2>1, <2>2 DEF DueInv
  <2>3. CASE \E i \in Pending(job.state) : ConsumeApproval(i)
    BY <2>1, <2>3, <1>4 DEF Pending, DueInv
  <2>4. QED
    BY <1>7, <2>2, <2>3 DEF TakeDecision, TakeInHand
<1>8. CASE Act
  <2>1. engine.pc = "acting" /\ UNCHANGED rows /\ job'.state = engine.to
    BY <1>8 DEF Act, At, Enter
  <2>2. engine.to = "CANCELLED" => engine'.pc = "idle"
    BY <1>8, GotoType DEF Act
  <2>3. QED
    BY <2>1, <2>2 DEF DueInv, Stopped
<1>9. CASE TimeOut \/ PastAge \/ Dispatch \/ Step
  <2>1. engine.pc \in {"age", "dispatch", "step"} /\ UNCHANGED rows
    BY <1>9 DEF TimeOut, PastAge, Dispatch, Step, At
  <2>2. QED
    BY <2>1 DEF DueInv
<1>10. CASE Tick \/ Crash
  <2>1. engine'.pc \in {"idle", "cancel"} /\ UNCHANGED <<rows, job>>
    BY <1>10, GotoType DEF Tick, Crash
  <2>2. QED
    BY <2>1 DEF DueInv
<1>11. ASSUME NEW p \in People, Decide(p)
       PROVE  DueInv'
  <2>1. PICK d \in Offered(p) : AddApproval(person[p].gate, d)
    BY <1>11 DEF Decide
  <2>2. d \in Decisions /\ person[p].gate \in Gates
    BY <1>11 DEF Offered, Decisions, Decide, TypeOK
  <2>3. QED
    BY <1>2, <1>11, <2>1, <2>2 DEF Decide
<1>12. ASSUME NEW c \in Controls, Control(c)
       PROVE  DueInv'
  BY <1>2, <1>12 DEF Control
<1>13. CASE UNCHANGED <<rows, job, engine>>
  BY <1>13 DEF DueInv
<1>14. QED
  BY <1>5, <1>6, <1>7, <1>8, <1>9, <1>10, <1>11, <1>12, <1>13
     DEF Next, Engine, Finished, vars, Look, ReadJob, ReadDocument, ReadPage, Shown,
         Check, CheckPrompt, CheckForm, Checked, Leave

(***************************************************************************)
(* A resume that was recorded of a job that was not stopped, with the      *)
(* tick's look at the controls still to come, never clears a hold.         *)
(***************************************************************************)
THEOREM ResumeClearsNoLaterHoldHolds == Spec => ResumeClearsNoLaterHold
<1>1. Init => TypeOK /\ OnePending /\ DueInv
  BY TypeInit DEF Init, OnePending, DueInv
<1>2. TypeOK /\ OnePending /\ DueInv /\ [Next]_vars
        => TypeOK' /\ OnePending' /\ DueInv'
  BY TypeStep, OnePendingStep, DueStep
<1>3. TypeOK /\ DueInv /\ [Next]_vars
        => [(At("resume") /\ engine'.pc = "acting") => rows[engine'.row].due]_vars
  <2> SUFFICES ASSUME TypeOK, DueInv, Next, engine.pc = "resume",
                      engine'.pc = "acting"
               PROVE  rows[engine'.row].due
    BY DEF At
  <2>1. TakeResume
    BY GotoType
       DEF Next, Engine, vars, Finished, Tick, TakeCancel, TimeOut, PastAge,
           TakeDecision, Act, Dispatch, Step, Crash, Control, At, Look, ReadJob,
           ReadDocument, ReadPage, Shown, Check, CheckPrompt, CheckForm, Checked,
           Decide, Leave
  <2>2. PICK i \in Pending("resume") : job.state \in Stopped /\ TakeInHand(i, "working")
    BY <2>1, GotoType DEF TakeResume
  <2>3. engine'.row = i
    BY <2>2 DEF TakeInHand
  <2>4. rows \in Seq(Records) /\ i \in DOMAIN rows
    BY <2>2 DEF TypeOK, Records, Pending
  <2>5. rows[i].due \in BOOLEAN
    <3>1. rows[i] \in Records
      BY <2>4
    <3>2. QED
      BY <3>1 DEF Records
  <2>6. QED
    BY <2>2, <2>3, <2>4, <2>5 DEF DueInv, Pending
<1>4. QED
  BY <1>1, <1>2, <1>3, PTL DEF Spec, ResumeClearsNoLaterHold

-----------------------------------------------------------------------------
(* The table comes down to DecisionBox. *)

\* The rows of a control say what it is, the rows of a gate what is decided.
Named ==
  \A i \in DOMAIN rows :
    IF rows[i].gate \in Controls THEN rows[i].decision = rows[i].gate
                                 ELSE rows[i].decision \in Decisions

\* What the tick knows of the job by the time it comes to each place, and that
\* the decision in hand is still the job's.
Placed ==
  /\ engine.pc # "idle" => job.state \notin Terminal
  /\ engine.pc = "gate" => job.state \in Gates
  /\ engine.pc \in {"dispatch", "step"} => job.state = "working"
  /\ engine.pc = "acting" =>
       /\ Box!Due(rows[engine.row].gate)
       /\ engine.to \in Box!Answer(rows[engine.row].gate, rows[engine.row].decision)

BoxInv == OnePending /\ Named /\ Placed

(***************************************************************************)
(* Gates, controls and places of a job have names of their own.            *)
(***************************************************************************)
LEMMA Apart ==
  /\ Gates \cap Controls = {}
  /\ Gates \cap {"working", "suspended", "held", "COMPLETED", "CANCELLED"} = {}
  /\ Terminal = Box!Over /\ Controls = Box!Controls /\ States = Box!States
  /\ Decisions \cup Controls = Box!Decisions
BY GatesAssumption DEF Controls, Terminal, States, Decisions, Box!Over, Box!Controls,
   Box!States, Box!Decisions

(***************************************************************************)
(* What is in the box.                                                     *)
(***************************************************************************)
LEMMA Boxed ==
  /\ \A e : e \in InBox <=> \E i \in DOMAIN rows :
       ~rows[i].consumed /\ e = <<rows[i].gate, rows[i].decision>>
  /\ \A e : e \in InBox' <=> \E i \in DOMAIN rows' :
       ~rows'[i].consumed /\ e = <<rows'[i].gate, rows'[i].decision>>
BY DEF InBox

(***************************************************************************)
(* An insert records a decision that is not there yet, or changes nothing. *)
(***************************************************************************)
LEMMA InsertRecords ==
  ASSUME rows \in Seq(Records),
         NEW g \in Gates \cup Controls, NEW d \in Decisions \cup Controls,
         AddApproval(g, d)
  PROVE  \/ InBox' = InBox
         \/ (\A e \in InBox : e[1] # g) /\ InBox' = InBox \cup {<<g, d>>}
<1>1. CASE rows' = rows
  BY <1>1 DEF InBox
<1>2. CASE Pending(g) = {} /\ rows' = Append(rows, Row(g, d))
  <2>1. /\ DOMAIN rows' = DOMAIN rows \cup {Len(rows) + 1} /\ Len(rows) + 1 \notin DOMAIN rows
        /\ \A i \in DOMAIN rows : rows'[i] = rows[i]
        /\ rows'[Len(rows) + 1] = Row(g, d)
    BY <1>2
  <2>2. Row(g, d).gate = g /\ Row(g, d).decision = d /\ ~Row(g, d).consumed
    BY DEF Row
  <2>3. \A e \in InBox : e[1] # g
    BY <1>2, Boxed DEF Pending
  <2>4. ASSUME NEW e PROVE e \in InBox' <=> e \in InBox \/ e = <<g, d>>
    BY <2>1, <2>2, Boxed
  <2>5. QED
    BY <2>3, <2>4
<1>3. QED
  BY <1>1, <1>2 DEF AddApproval

(***************************************************************************)
(* A row that is consumed leaves the box: no other row says the same.      *)
(***************************************************************************)
LEMMA ConsumeTakes ==
  ASSUME rows \in Seq(Records), OnePending,
         NEW i \in DOMAIN rows, ~rows[i].consumed, ConsumeApproval(i)
  PROVE  /\ <<rows[i].gate, rows[i].decision>> \in InBox
         /\ InBox' = InBox \ {<<rows[i].gate, rows[i].decision>>}
<1>1. /\ DOMAIN rows' = DOMAIN rows
      /\ \A j \in DOMAIN rows :
           /\ rows'[j].gate = rows[j].gate /\ rows'[j].decision = rows[j].decision
           /\ rows'[j].consumed = (j = i \/ rows[j].consumed)
  BY Consumed
<1>2. \A j \in DOMAIN rows : ~rows[j].consumed /\ rows[j].gate = rows[i].gate => j = i
  BY DEF OnePending
<1>3. ASSUME NEW e
      PROVE  e \in InBox' <=> e \in InBox /\ e # <<rows[i].gate, rows[i].decision>>
  <2>1. ASSUME e \in InBox'
        PROVE  e \in InBox /\ e # <<rows[i].gate, rows[i].decision>>
    <3>1. PICK j \in DOMAIN rows' :
            ~rows'[j].consumed /\ e = <<rows'[j].gate, rows'[j].decision>>
      BY <2>1, Boxed
    <3>2. j \in DOMAIN rows /\ j # i /\ ~rows[j].consumed /\ e = <<rows[j].gate, rows[j].decision>>
      BY <1>1, <3>1
    <3>3. rows[j].gate # rows[i].gate
      BY <1>2, <3>2
    <3>4. e \in InBox
      BY <3>2, Boxed
    <3>5. QED
      BY <3>2, <3>3, <3>4
  <2>2. ASSUME e \in InBox, e # <<rows[i].gate, rows[i].decision>>
        PROVE  e \in InBox'
    <3>1. PICK j \in DOMAIN rows :
            ~rows[j].consumed /\ e = <<rows[j].gate, rows[j].decision>>
      BY <2>2, Boxed
    <3>2. ~rows'[j].consumed /\ rows'[j].gate = rows[j].gate /\ rows'[j].decision = rows[j].decision
      BY <1>1, <2>2, <3>1
    <3>3. QED
      BY <1>1, <3>1, <3>2, Boxed
  <2>3. QED
    BY <2>1, <2>2
<1>4. QED
  BY <1>3, Boxed

(***************************************************************************)
(* What the tick consumes is one row of the table that is pending.         *)
(***************************************************************************)
LEMMA HandSays ==
  ASSUME rows \in Seq(Records), NEW i \in DOMAIN rows, NEW to, TakeInHand(i, to)
  PROVE  /\ engine'.pc = "acting" /\ engine'.row = i /\ engine'.to = to
         /\ rows'[i].gate = rows[i].gate /\ rows'[i].decision = rows[i].decision
         /\ InHand' = <<rows[i].gate, rows[i].decision>>
<1>1. rows'[i].gate = rows[i].gate /\ rows'[i].decision = rows[i].decision
  BY Consumed DEF TakeInHand
<1>2. engine' = [pc |-> "acting", row |-> i, to |-> to]
  BY DEF TakeInHand
<1>3. QED
  BY <1>1, <1>2 DEF InHand, At

(***************************************************************************)
(* Where a decision sends the job is an answer to it.                      *)
(***************************************************************************)
LEMMA OutcomesAnswer ==
  ASSUME NEW g \in Gates, NEW d \in Decisions
  PROVE  Outcomes(g, d) \subseteq Box!Answer(g, d)
<1>1. d \in {"approve", "reject", "cancelling"}
  BY DEF Decisions
<1>2. CASE d = "approve"
  BY <1>2 DEF Outcomes, Box!Answer
<1>3. CASE d = "reject"
  BY <1>3 DEF Outcomes, Box!Answer
<1>4. CASE d = "cancelling"
  BY <1>4 DEF Outcomes, Box!Answer
<1>5. QED
  BY <1>1, <1>2, <1>3, <1>4

(***************************************************************************)
(* The rows keep saying what they are.                                     *)
(***************************************************************************)
LEMMA NamedStep ==
  ASSUME TypeOK, Named, [Next]_vars
  PROVE  Named'
<1>1. rows \in Seq(Records)
  BY DEF TypeOK, Records
<1>2. ASSUME NEW g \in Gates \cup Controls, NEW d \in Decisions \cup Controls, AddApproval(g, d),
             IF g \in Controls THEN d = g ELSE d \in Decisions
      PROVE  Named'
  <2>1. Row(g, d).gate = g /\ Row(g, d).decision = d
    BY DEF Row
  <2>2. QED
    BY <1>1, <1>2, <2>1, Inserted DEF Named
<1>3. ASSUME NEW p \in People, Decide(p) PROVE Named'
  <2>1. PICK d \in Offered(p) : AddApproval(person[p].gate, d)
    BY <1>3 DEF Decide
  <2>2. d \in Decisions /\ person[p].gate \in Gates
    BY <1>3 DEF Offered, Decisions, Decide, TypeOK
  <2>3. QED
    BY <1>2, <2>1, <2>2, Apart
<1>4. ASSUME NEW c \in Controls, Control(c) PROVE Named'
  BY <1>2, <1>4 DEF Control
<1>5. ASSUME NEW i \in DOMAIN rows, ConsumeApproval(i) PROVE Named'
  BY <1>1, <1>5, Consumed DEF Named
<1>6. CASE TakeCancel \/ TakeResume \/ TakeDecision
  <2>1. rows' = rows \/ \E i \in DOMAIN rows : ConsumeApproval(i)
    BY <1>6 DEF TakeCancel, TakeResume, TakeDecision, TakeInHand, Pending
  <2>2. QED
    BY <1>5, <2>1 DEF Named
<1>7. CASE UNCHANGED rows
  BY <1>7 DEF Named
<1>8. QED
  BY <1>3, <1>4, <1>6, <1>7
     DEF Next, Engine, vars, Tick, TimeOut, PastAge, Act, Dispatch, Step, Crash, Finished,
         Look, ReadJob, ReadDocument, ReadPage, Shown, Check, CheckPrompt, CheckForm, Checked, Leave

(***************************************************************************)
(* A step of a person leaves job and tick alone, and a row that is in hand *)
(* as it is.                                                               *)
(***************************************************************************)
LEMMA PeoplePlaced ==
  ASSUME TypeOK, Placed, UNCHANGED <<job, engine>>,
         engine.pc = "acting" => rows'[engine.row] = rows[engine.row]
  PROVE  Placed' /\ InHand' = InHand
BY DEF Placed, InHand, At, Box!Due

(***************************************************************************)
(* The tick knows where the job is, since nobody else moves it.            *)
(***************************************************************************)
LEMMA PlacedStep ==
  ASSUME TypeOK, Named, Placed, [Next]_vars
  PROVE  Placed'
<1>1. rows \in Seq(Records)
  BY DEF TypeOK, Records
<1>2. /\ job \in [state : States, visit : Nat]
      /\ engine.pc = "acting" => engine.row \in DOMAIN rows
  BY DEF TypeOK
<1>3. ASSUME NEW at \in {"idle", "cancel", "resume", "age", "gate", "dispatch", "step"},
             Goto(at),
             at # "idle" => job'.state \notin Terminal,
             at = "gate" => job'.state \in Gates,
             at \in {"dispatch", "step"} => job'.state = "working"
      PROVE  Placed'
  BY <1>3, GotoType DEF Placed
<1>4. ASSUME NEW i \in DOMAIN rows, NEW to, TakeInHand(i, to), job' = job, engine.pc # "idle",
             Box!Due(rows[i].gate), to \in Box!Answer(rows[i].gate, rows[i].decision)
      PROVE  Placed'
  <2>1. job.state \notin Terminal
    BY <1>4 DEF Placed
  <2>2. /\ engine'.pc = "acting" /\ engine'.row = i /\ engine'.to = to
        /\ rows'[i].gate = rows[i].gate /\ rows'[i].decision = rows[i].decision
    BY <1>1, <1>4, HandSays
  <2>3. Box!Due(rows[i].gate)'
    BY <1>4, <1>1, Consumed DEF TakeInHand, Box!Due
  <2>4. QED
    BY <1>4, <2>1, <2>2, <2>3 DEF Placed, Box!Due
<1>5. ASSUME NEW s \in States, Enter(s) PROVE job'.state = s
  BY <1>5 DEF Enter
<1>6. CASE Tick
  BY <1>3, <1>6 DEF Tick
<1>7. CASE TakeCancel
  <2>1. job' = job /\ engine.pc = "cancel" /\ job.state \notin Terminal
    BY <1>7 DEF TakeCancel, At, Placed
  <2>2. CASE Goto("resume")
    BY <1>3, <2>1, <2>2
  <2>3. CASE \E i \in Pending("cancel") : TakeInHand(i, "CANCELLED")
    <3>1. PICK i \in Pending("cancel") : TakeInHand(i, "CANCELLED")
      BY <2>3
    <3>2. i \in DOMAIN rows /\ rows[i].gate = "cancel" /\ rows[i].decision = "cancel"
      BY DEF Pending, Named, Controls
    <3>3. Box!Due("cancel") /\ "CANCELLED" \in Box!Answer("cancel", "cancel")
      BY <2>1, Apart DEF Box!Due, Box!Answer
    <3>4. QED
      BY <1>4, <2>1, <3>1, <3>2, <3>3
  <2>4. QED
    BY <1>7, <2>2, <2>3 DEF TakeCancel
<1>8. CASE TakeResume
  <2>1. job' = job /\ engine.pc = "resume" /\ job.state \notin Terminal
    BY <1>8 DEF TakeResume, At, Placed
  <2>2. CASE Goto("age")
    BY <1>3, <2>1, <2>2
  <2>3. CASE job.state \in {"held", "suspended"} /\ \E i \in Pending("resume") : TakeInHand(i, "working")
    <3>1. PICK i \in Pending("resume") : TakeInHand(i, "working")
      BY <2>3
    <3>2. i \in DOMAIN rows /\ rows[i].gate = "resume" /\ rows[i].decision = "resume"
      BY DEF Pending, Named, Controls
    <3>3. Box!Due("resume") /\ "working" \in Box!Answer("resume", "resume")
      BY <2>3 DEF Box!Due, Box!Answer
    <3>4. QED
      BY <1>4, <2>1, <3>1, <3>2, <3>3
  <2>4. QED
    BY <1>8, <2>2, <2>3 DEF TakeResume, Stopped
<1>9. CASE TakeDecision
  <2>1. job' = job /\ engine.pc = "gate" /\ job.state \in Gates
    BY <1>9 DEF TakeDecision, At, Placed
  <2>2. CASE Goto("idle")
    BY <1>3, <2>1, <2>2
  <2>3. CASE \E i \in Pending(job.state) :
               \E to \in Outcomes(job.state, rows[i].decision) : TakeInHand(i, to)
    <3>0. PICK i \in Pending(job.state) :
            \E to \in Outcomes(job.state, rows[i].decision) : TakeInHand(i, to)
      BY <2>3
    <3>1. PICK to \in Outcomes(job.state, rows[i].decision) : TakeInHand(i, to)
      BY <3>0
    <3>2. i \in DOMAIN rows /\ rows[i].gate = job.state
      BY DEF Pending
    <3>3. rows[i].decision \in Decisions
      BY <2>1, <3>2, Apart DEF Named
    <3>4. to \in Box!Answer(job.state, rows[i].decision)
      BY <2>1, <3>3, OutcomesAnswer
    <3>5. Box!Due(job.state)
      BY <2>1 DEF Box!Due
    <3>6. QED
      BY <1>4, <2>1, <3>1, <3>2, <3>4, <3>5
  <2>4. QED
    BY <1>9, <2>2, <2>3 DEF TakeDecision
<1>10. CASE TimeOut
  BY <1>3, <1>10 DEF TimeOut
<1>11. CASE PastAge
  <2>1. job.state \notin Terminal
    BY <1>11 DEF PastAge, At, Placed
  <2>2. CASE Goto("idle")
    BY <1>3, <2>2
  <2>3. CASE Goto("dispatch") /\ (Enter("working") \/ (job.state = "working" /\ job' = job))
    <3>1. job'.state = "working" /\ job'.state \notin Terminal
      BY <1>5, <2>3 DEF States, Terminal
    <3>2. QED
      BY <1>3, <2>3, <3>1
  <2>4. CASE Goto("gate") /\ job.state \in Gates /\ job' = job
    BY <1>3, <2>1, <2>4
  <2>5. QED
    BY <1>11, <2>2, <2>3, <2>4 DEF PastAge
<1>12. CASE Act
  <2>1. engine.to \in States /\ job'.state = engine.to
    BY <1>2, <1>5, <1>12 DEF Act, At, TypeOK
  <2>2. CASE engine.to # "working"
    BY <1>3, <1>12, <2>2 DEF Act
  <2>3. CASE engine.to = "working"
    <3>1. "working" \notin Terminal
      BY DEF Terminal
    <3>2. Goto("age") \/ Goto("dispatch")
      BY <1>12, <2>3 DEF Act
    <3>3. QED
      BY <1>3, <2>1, <2>3, <3>1, <3>2
  <2>4. QED
    BY <2>2, <2>3
<1>13. CASE Dispatch
  BY <1>3, <1>13 DEF Dispatch, At, Placed
<1>14. CASE Step \/ Crash
  BY <1>3, <1>14 DEF Step, Crash
<1>15. ASSUME NEW g \in Gates \cup Controls, NEW d \in Decisions \cup Controls,
              AddApproval(g, d), UNCHANGED <<job, engine>>
       PROVE  Placed'
  <2>1. engine.pc = "acting" => rows'[engine.row] = rows[engine.row]
    BY <1>1, <1>2, <1>15, Inserted
  <2>2. QED
    BY <1>15, <2>1, PeoplePlaced
<1>16. ASSUME NEW p \in People, Decide(p) PROVE Placed'
  <2>1. PICK d \in Offered(p) : AddApproval(person[p].gate, d)
    BY <1>16 DEF Decide
  <2>2. d \in Decisions /\ person[p].gate \in Gates
    BY <1>16 DEF Offered, Decisions, Decide, TypeOK
  <2>3. QED
    BY <1>15, <1>16, <2>1, <2>2 DEF Decide
<1>17. ASSUME NEW c \in Controls, Control(c) PROVE Placed'
  BY <1>15, <1>17 DEF Control
<1>18. CASE UNCHANGED <<job, rows, engine>>
  BY <1>18, PeoplePlaced
<1>19. QED
  BY <1>6, <1>7, <1>8, <1>9, <1>10, <1>11, <1>12, <1>13, <1>14, <1>16, <1>17, <1>18
     DEF Next, Engine, vars, Finished,
         Look, ReadJob, ReadDocument, ReadPage, Shown, Check, CheckPrompt, CheckForm, Checked, Leave

(***************************************************************************)
(* A step of the table, the tick or a person is a step of the box, or none *)
(* of its business.                                                        *)
(***************************************************************************)
LEMMA BoxStep ==
  ASSUME TypeOK, BoxInv, [Next]_vars
  PROVE  [Box!Next]_<<InBox, InHand, job.state>>
<1> DEFINE Kept == InBox' = InBox /\ InHand' = InHand /\ job'.state = job.state
<1>1. rows \in Seq(Records) /\ OnePending /\ Named /\ Placed
  BY DEF TypeOK, Records, BoxInv
<1>2. /\ job \in [state : States, visit : Nat]
      /\ engine.pc = "acting" => engine.row \in DOMAIN rows
  BY DEF TypeOK
<1>3. ASSUME NEW s \in States, Enter(s) PROVE job'.state = s
  BY <1>3 DEF Enter
<1>4. ASSUME NEW at \in {"idle", "cancel", "resume", "age", "gate", "dispatch", "step"},
             Goto(at)
      PROVE  InHand' = <<>>
  BY <1>4, GotoType DEF InHand, At
<1>5. engine.pc # "acting" => InHand = <<>>
  BY DEF InHand, At
<1>6. rows' = rows => InBox' = InBox
  BY DEF InBox
<1>7. ASSUME NEW g \in Gates \cup Controls, NEW d \in Decisions \cup Controls,
             AddApproval(g, d), UNCHANGED <<job, engine>>
      PROVE  Kept \/ Box!Next
  <2>1. engine.pc = "acting" => rows'[engine.row] = rows[engine.row]
    BY <1>1, <1>2, <1>7, Inserted
  <2>2. InHand' = InHand /\ job'.state = job.state
    BY <1>1, <1>7, <2>1, PeoplePlaced
  <2>3. CASE InBox' = InBox
    BY <2>2, <2>3
  <2>4. CASE (\A e \in InBox : e[1] # g) /\ InBox' = InBox \cup {<<g, d>>}
    <3>1. Box!Record(g, d)
      BY <2>2, <2>4 DEF Box!Record
    <3>2. g \in Gates \cup Box!Controls /\ d \in Box!Decisions
      BY Apart
    <3>3. QED
      BY <3>1, <3>2 DEF Box!Next
  <2>5. QED
    BY <1>1, <1>7, <2>3, <2>4, InsertRecords
<1>8. ASSUME NEW i \in DOMAIN rows, ~rows[i].consumed, NEW to, TakeInHand(i, to), job' = job,
             engine.pc # "acting", Box!Due(rows[i].gate)
      PROVE  Box!Next
  <2> DEFINE e == <<rows[i].gate, rows[i].decision>>
  <2>1. e \in InBox /\ InBox' = InBox \ {e}
    BY <1>1, <1>8, ConsumeTakes DEF TakeInHand
  <2>2. InHand' = e
    BY <1>1, <1>8, HandSays
  <2>3. Box!Take(e)
    BY <1>5, <1>8, <2>1, <2>2 DEF Box!Take
  <2>4. QED
    BY <2>1, <2>3 DEF Box!Next
<1>9. CASE Tick \/ Dispatch
  <2>1. InHand' = <<>> /\ InHand = <<>>
    BY <1>4, <1>5, <1>9 DEF Tick, Dispatch, At
  <2>2. QED
    BY <1>6, <1>9, <2>1 DEF Tick, Dispatch
<1>10. CASE TakeCancel
  <2>1. job' = job /\ engine.pc = "cancel" /\ job.state \notin Terminal
    BY <1>1, <1>10 DEF TakeCancel, At, Placed
  <2>2. CASE Goto("resume") /\ rows' = rows
    BY <1>4, <1>5, <1>6, <2>1, <2>2
  <2>3. CASE \E i \in Pending("cancel") : TakeInHand(i, "CANCELLED")
    <3>1. PICK i \in Pending("cancel") : TakeInHand(i, "CANCELLED")
      BY <2>3
    <3>2. i \in DOMAIN rows /\ rows[i].gate = "cancel" /\ ~rows[i].consumed
      BY DEF Pending
    <3>3. Box!Due("cancel")
      BY <2>1, Apart DEF Box!Due
    <3>4. QED
      BY <1>8, <2>1, <3>1, <3>2, <3>3
  <2>4. QED
    BY <1>10, <2>2, <2>3 DEF TakeCancel
<1>11. CASE TakeResume
  <2>1. job' = job /\ engine.pc = "resume"
    BY <1>11 DEF TakeResume, At
  <2>2. CASE Goto("age") /\ rows' = rows
    BY <1>4, <1>5, <1>6, <2>1, <2>2
  <2>3. ASSUME NEW i \in Pending("resume"),
               \/ job.state \in {"held", "suspended"} /\ TakeInHand(i, "working")
               \/ ConsumeApproval(i) /\ Goto("age")
        PROVE  Box!Next
    <3>1. i \in DOMAIN rows /\ rows[i].gate = "resume" /\ ~rows[i].consumed
      BY DEF Pending
    <3>2. CASE job.state \in {"held", "suspended"} /\ TakeInHand(i, "working")
      <4>1. Box!Due("resume")
        BY <3>2 DEF Box!Due
      <4>2. QED
        BY <1>8, <2>1, <3>1, <3>2, <4>1
    <3>3. CASE ConsumeApproval(i) /\ Goto("age")
      <4> DEFINE e == <<rows[i].gate, rows[i].decision>>
      <4>1. e \in InBox /\ InBox' = InBox \ {e}
        BY <1>1, <3>1, <3>3, ConsumeTakes
      <4>2. InHand' = <<>> /\ InHand = <<>>
        BY <1>4, <1>5, <2>1, <3>3
      <4>3. Box!Dismiss(e)
        BY <2>1, <3>1, <4>1, <4>2 DEF Box!Dismiss
      <4>4. QED
        BY <4>1, <4>3 DEF Box!Next
    <3>4. QED
      BY <2>3, <3>2, <3>3
  <2>4. QED
    BY <1>11, <2>2, <2>3 DEF TakeResume, Stopped
<1>12. CASE TakeDecision
  <2>1. job' = job /\ engine.pc = "gate" /\ job.state \in Gates
    BY <1>1, <1>12 DEF TakeDecision, At, Placed
  <2>2. CASE Goto("idle") /\ rows' = rows
    BY <1>4, <1>5, <1>6, <2>1, <2>2
  <2>3. ASSUME NEW i \in Pending(job.state), NEW to, TakeInHand(i, to)
        PROVE  Box!Next
    <3>1. i \in DOMAIN rows /\ rows[i].gate = job.state /\ ~rows[i].consumed
      BY DEF Pending
    <3>2. Box!Due(job.state)
      BY <2>1 DEF Box!Due
    <3>3. QED
      BY <1>8, <2>1, <2>3, <3>1, <3>2
  <2>4. QED
    BY <1>12, <2>2, <2>3 DEF TakeDecision
<1>13. CASE TimeOut
  <2>1. job.state \notin Terminal /\ InHand = <<>> /\ InHand' = <<>>
    BY <1>1, <1>4, <1>5, <1>13 DEF TimeOut, At, Placed
  <2>2. job'.state = "held"
    BY <1>3, <1>13 DEF TimeOut, States
  <2>3. Box!Expire
    BY <1>6, <1>13, <2>1, <2>2, Apart DEF TimeOut, Box!Expire
  <2>4. QED
    BY <2>3 DEF Box!Next
<1>14. CASE PastAge
  <2>1. InHand = <<>> /\ InHand' = <<>> /\ InBox' = InBox
    BY <1>4, <1>5, <1>6, <1>14 DEF PastAge, At
  <2>2. CASE job' = job
    BY <2>1, <2>2
  <2>3. CASE job.state = "suspended" /\ Enter("working")
    <3>1. job'.state = "working" /\ "working" \in States \ {"CANCELLED"}
      BY <1>3, <2>3 DEF States
    <3>2. Box!Work
      BY <2>1, <2>3, <3>1, Apart DEF Box!Work
    <3>3. QED
      BY <3>2 DEF Box!Next
  <2>4. QED
    BY <1>14, <2>2, <2>3 DEF PastAge
<1>15. CASE Act
  <2> DEFINE g == rows[engine.row].gate
             d == rows[engine.row].decision
  <2>1. engine.pc = "acting" /\ engine.to \in States /\ rows' = rows
    BY <1>15 DEF Act, At, TypeOK
  <2>2. InHand = <<g, d>> /\ InHand # <<>>
    BY <2>1 DEF InHand, At
  <2>3. InHand' = <<>>
    BY <1>4, <1>15 DEF Act
  <2>4. job'.state \in Box!Answer(g, d) /\ Box!Due(g)
    BY <1>1, <1>3, <1>15, <2>1 DEF Act, Placed
  <2>5. Box!Carry
    BY <1>6, <2>1, <2>2, <2>3, <2>4 DEF Box!Carry
  <2>6. QED
    BY <2>5 DEF Box!Next
<1>16. CASE Step
  <2>1. InHand = <<>> /\ InHand' = <<>> /\ InBox' = InBox
    BY <1>4, <1>5, <1>6, <1>16 DEF Step, At
  <2>2. job.state = "working" /\ job'.state \in States \ {"CANCELLED"}
    BY <1>1, <1>3, <1>16 DEF Step, At, Placed
  <2>3. Box!Work
    BY <2>1, <2>2, Apart DEF Box!Work
  <2>4. QED
    BY <2>3 DEF Box!Next
<1>17. CASE Crash
  <2>1. InBox' = InBox /\ job' = job /\ InHand' = <<>>
    BY <1>4, <1>6, <1>17 DEF Crash
  <2>2. CASE InHand = <<>>
    BY <2>1, <2>2
  <2>3. CASE InHand # <<>>
    BY <2>1, <2>3 DEF Box!Lose, Box!Next
  <2>4. QED
    BY <2>2, <2>3
<1>18. ASSUME NEW p \in People, Decide(p) PROVE Kept \/ Box!Next
  <2>1. PICK d \in Offered(p) : AddApproval(person[p].gate, d)
    BY <1>18 DEF Decide
  <2>2. d \in Decisions /\ person[p].gate \in Gates
    BY <1>18 DEF Offered, Decisions, Decide, TypeOK
  <2>3. QED
    BY <1>7, <1>18, <2>1, <2>2 DEF Decide
<1>19. ASSUME NEW c \in Controls, Control(c) PROVE Kept \/ Box!Next
  BY <1>7, <1>19 DEF Control
<1>20. CASE UNCHANGED <<job, rows, engine>>
  <2>1. InHand' = InHand
    BY <1>20 DEF InHand, At
  <2>2. QED
    BY <1>6, <1>20, <2>1
<1>21. QED
  BY <1>9, <1>10, <1>11, <1>12, <1>13, <1>14, <1>15, <1>16, <1>17, <1>18, <1>19, <1>20
     DEF Next, Engine, vars, Finished,
         Look, ReadJob, ReadDocument, ReadPage, Shown, Check, CheckPrompt, CheckForm, Checked, Leave

(***************************************************************************)
(* TableImplementsBox: for any number of people, rows and crashes, a gate  *)
(* holds one decision and the job leaves it on that one only.              *)
(***************************************************************************)
THEOREM TableImplementsBox == Spec => OneDecisionPerGate
<1>1. Init => BoxInv /\ Box!Init
  <2> SUFFICES ASSUME Init PROVE BoxInv /\ Box!Init
    OBVIOUS
  <2>1. rows = <<>> /\ engine.pc = "idle" /\ job.state = "working"
    BY DEF Init, Resting
  <2>2. InBox = {} /\ InHand = <<>>
    BY <2>1 DEF InBox, InHand, At
  <2>3. OnePending /\ Named /\ Placed
    BY <2>1 DEF OnePending, Named, Placed
  <2>4. QED
    BY <2>1, <2>2, <2>3 DEF BoxInv, Box!Init
<1>2. TypeOK /\ BoxInv /\ [Next]_vars => BoxInv'
  BY OnePendingStep, NamedStep, PlacedStep DEF BoxInv
<1>3. TypeOK /\ BoxInv /\ [Next]_vars => [Box!Next]_<<InBox, InHand, job.state>>
  BY BoxStep
<1>4. QED
  BY <1>1, <1>2, <1>3, TypeCorrect, PTL DEF Spec, OneDecisionPerGate, Box!Spec

-----------------------------------------------------------------------------
(* The engine lock. *)

(***************************************************************************)
(* The inductive invariant.  LockFileOfTheLive is the real content: two    *)
(* running engines would both have to be the creator of the file on disk.  *)
(***************************************************************************)
IInv == L!TypeOK /\ L!LockFileOfTheLive

LEMMA InitIInv == L!Init => IInv
BY DEF L!Init, IInv, L!TypeOK, L!LockFileOfTheLive, Running, L!Running, L!Startable

(***************************************************************************)
(* Where an open file cannot be removed, every call of acquireLock, Run    *)
(* and releaseLock keeps the running engine's file on disk: the only calls *)
(* that remove or replace a file are Remove, which the open handle blocks, *)
(* and O_EXCL, which needs it gone.                                        *)
(***************************************************************************)
LEMMA NextIInv ==
  ASSUME ~CanRemoveOpenFile, IInv, [L!Next]_L!vars
  PROVE  IInv'
<1> USE NoneAssumption DEF IInv, L!TypeOK, L!LockFileOfTheLive, Running, L!Running,
                           L!Startable, L!Acquiring
<1>1. ASSUME NEW p \in Procs, L!Start(p) PROVE IInv'
  BY <1>1 DEF L!Start
<1>2. ASSUME NEW p \in Procs, L!Stat(p) PROVE IInv'
  BY <1>2 DEF L!Stat, L!Move
<1>3. ASSUME NEW p \in Procs, L!RemoveStale(p) PROVE IInv'
  BY <1>3 DEF L!RemoveStale, L!Removable, L!Move
<1>4. ASSUME NEW p \in Procs, L!RefuseHeld(p) PROVE IInv'
  BY <1>4 DEF L!RefuseHeld, L!Move
<1>5. ASSUME NEW p \in Procs, L!Create(p) PROVE IInv'
  BY <1>5 DEF L!Create, L!Move
<1>6. ASSUME NEW p \in Procs, L!RefuseExists(p) PROVE IInv'
  BY <1>6 DEF L!RefuseExists, L!Move
<1>7. ASSUME NEW p \in Procs, L!Close(p) PROVE IInv'
  BY <1>7 DEF L!Close, L!Move
<1>8. ASSUME NEW p \in Procs, L!ReleaseRemove(p) PROVE IInv'
  BY <1>8 DEF L!ReleaseRemove, L!Removable, L!Move
<1>9. ASSUME NEW p \in Procs, L!Crash(p) PROVE IInv'
  BY <1>9 DEF L!Crash
<1>10. CASE UNCHANGED L!vars
  BY <1>10 DEF L!vars
<1> QED
  BY <1>1, <1>2, <1>3, <1>4, <1>5, <1>6, <1>7, <1>8, <1>9, <1>10
  DEF L!Next, L!Acquire

(***************************************************************************)
(* Type correctness of the lock's state, on every platform: only an engine *)
(* inside Run holds a lock file open.                                      *)
(***************************************************************************)
THEOREM LockTypeCorrect == L!Spec => []L!TypeOK
<1>1. L!Init => L!TypeOK
  BY InitIInv DEF IInv
<1>2. ASSUME L!TypeOK, [L!Next]_L!vars PROVE L!TypeOK'
  <2> USE NoneAssumption DEF L!TypeOK, L!Startable, L!Acquiring
  <2>1. ASSUME NEW p \in Procs, L!Start(p) \/ L!Crash(p) PROVE L!TypeOK'
    BY <1>2, <2>1 DEF L!Start, L!Crash
  <2>2. ASSUME NEW p \in Procs, L!Acquire(p) PROVE L!TypeOK'
    BY <1>2, <2>2
       DEF L!Acquire, L!Stat, L!RemoveStale, L!RefuseHeld, L!Create, L!RefuseExists, L!Move
  <2>3. ASSUME NEW p \in Procs, L!Close(p) \/ L!ReleaseRemove(p) PROVE L!TypeOK'
    BY <1>2, <2>3 DEF L!Close, L!ReleaseRemove, L!Move
  <2>4. CASE UNCHANGED L!vars
    BY <1>2, <2>4 DEF L!vars
  <2>5. QED
    BY <1>2, <2>1, <2>2, <2>3, <2>4 DEF L!Next
<1>3. QED
  BY <1>1, <1>2, PTL DEF L!Spec

(***************************************************************************)
(* Where an open file cannot be removed (Windows), the file on disk is     *)
(* always the running engine's own.  On POSIX it need not be.              *)
(***************************************************************************)
THEOREM LiveLockKept ==
  ASSUME ~CanRemoveOpenFile
  PROVE  L!Spec => []L!LockFileOfTheLive
<1>1. IInv /\ [L!Next]_L!vars => IInv'
  BY NextIInv
<1>2. IInv => L!LockFileOfTheLive
  BY DEF IInv
<1>3. QED
  BY <1>1, <1>2, InitIInv, PTL DEF L!Spec

(***************************************************************************)
(* Where an open file cannot be removed (Windows), at most one engine runs *)
(* on a data directory.  On POSIX there may be two.                        *)
(***************************************************************************)
THEOREM SingleEngine ==
  ASSUME ~CanRemoveOpenFile
  PROVE  L!Spec => []L!MutualExclusion
<1>1. L!LockFileOfTheLive => L!MutualExclusion
  BY DEF L!LockFileOfTheLive, L!MutualExclusion
<1>2. QED
  BY <1>1, LiveLockKept, PTL

(***************************************************************************)
(* There, the lock implements DataDir.  A start takes the directory only   *)
(* where the file is gone, and then no engine runs: the inductive          *)
(* invariant says that a running engine's file is on disk.                 *)
(***************************************************************************)
LEMMA StepRefines ==
  ASSUME ~CanRemoveOpenFile, IInv, [L!Next]_L!vars
  PROVE  [Dir!Next]_{p \in Procs : Running(p)}
<1> DEFINE E == {p \in Procs : Running(p)}
<1> USE DEF Dir!Next, Dir!Take, Dir!GiveUp, Dir!Free, Running, L!Running
<1>1. \A p, q \in Procs : Running(p) /\ Running(q) => p = q
  BY DEF IInv, L!LockFileOfTheLive
<1>2. pc \in [Procs -> L!Startable \cup L!Acquiring \cup {"running", "closed"}]
  BY DEF IInv, L!TypeOK
<1>3. ASSUME NEW p \in Procs, L!Start(p) \/ L!Stat(p) \/ L!RemoveStale(p) \/ L!RefuseHeld(p)
                               \/ L!RefuseExists(p) \/ L!ReleaseRemove(p)
      PROVE  E' = E
  BY <1>2, <1>3 DEF L!Start, L!Stat, L!RemoveStale, L!RefuseHeld, L!RefuseExists, L!ReleaseRemove,
                    L!Move, L!Startable, L!Acquiring
<1>4. ASSUME NEW p \in Procs, L!Create(p) PROVE E = {} /\ E' = {p}
  <2>1. file = None
    BY <1>4 DEF L!Create
  <2>2. E = {}
    BY <2>1, NoneAssumption DEF IInv, L!LockFileOfTheLive
  <2>3. QED
    BY <1>2, <1>4, <2>2 DEF L!Create, L!Move
<1>5. ASSUME NEW p \in Procs, L!Close(p) \/ L!Crash(p) PROVE E' = E \/ (E # {} /\ E' = {})
  <2>1. E' = E \ {p}
    BY <1>2, <1>5 DEF L!Close, L!Crash, L!Move
  <2>2. QED
    BY <1>1, <2>1
<1>6. CASE UNCHANGED L!vars
  BY <1>6 DEF L!vars
<1> QED
  BY <1>3, <1>4, <1>5, <1>6 DEF L!Next, L!Acquire

(***************************************************************************)
(* Where an open file cannot be removed (Windows), engines drive a data    *)
(* directory one after the other.  On POSIX they may overlap.              *)
(***************************************************************************)
THEOREM LockImplementsDataDir ==
  ASSUME ~CanRemoveOpenFile
  PROVE  L!Spec => OneAfterTheOther
<1>1. L!Init => Dir!Init
  BY DEF L!Init, Dir!Init, Dir!Free, Running, L!Running
<1>2. IInv /\ [L!Next]_L!vars => [Dir!Next]_{p \in Procs : Running(p)}
  BY StepRefines
<1>3. IInv /\ [L!Next]_L!vars => IInv'
  BY NextIInv
<1>4. QED
  BY <1>1, <1>2, <1>3, InitIInv, PTL DEF L!Spec, OneAfterTheOther, Dir!Spec

-----------------------------------------------------------------------------
(* The resource manager. *)

Pcs ==
  {"idle", "list", "lease", "look", "boot", "booting", "wait", "run", "release",
   "kill", "forget"}

Steps ==
  [pc : Pcs, serial : M!Devices \cup {NoDevice}, seen : SUBSET M!Devices,
   tried : BOOLEAN, uses : 0..MaxUses]

Using   == {"wait", "run", "release"}
Killing == {"kill", "forget"}

(***************************************************************************)
(* The inductive invariant: a step has a serial only from its lease to the *)
(* end of its release, and the pool is the set of serials so held.         *)
(***************************************************************************)
LeaseInv ==
  /\ \A j \in Jobs : step[j].serial # NoDevice => step[j].pc \in Using \cup Killing
  /\ M!LeasesAreExclusive

(***************************************************************************)
(* A step at rest.                                                         *)
(***************************************************************************)
LEMMA RestingType ==
  M!Resting \in Steps /\ M!Resting.pc = "idle" /\ M!Resting.serial = NoDevice
  BY LimitsAssumption DEF M!Resting, Steps, Pcs

(***************************************************************************)
(* adb names devices.                                                      *)
(***************************************************************************)
LEMMA AdbType ==
  M!AdbDevices \subseteq M!Devices /\ M!AdbAnswers \subseteq SUBSET M!Devices
  BY DEF M!AdbDevices, M!AdbAnswers, M!Devices

(***************************************************************************)
(* Every action changes one job's record, to one of these.                 *)
(***************************************************************************)
LEMMA UseTypes ==
  ASSUME M!TypeOK, NEW j \in Jobs, M!Use(j)
  PROVE  /\ step' \in [Jobs -> Steps]
         /\ \A i \in Jobs \ {j} : step'[i] = step[i]
<1>1. step \in [Jobs -> Steps] /\ step[j] \in Steps
  BY DEF M!TypeOK, Steps, Pcs
<1>2. ASSUME NEW to \in Pcs, M!Goto(j, to) PROVE step' \in [Jobs -> Steps]
  BY <1>1, <1>2 DEF M!Goto, Steps
<1>3. ASSUME M!Rest(j) PROVE step' \in [Jobs -> Steps]
  <2>1. [M!Resting EXCEPT !.uses = step[j].uses] \in Steps
    BY <1>1, RestingType DEF Steps
  <2>2. QED
    BY <1>1, <1>3, <2>1 DEF M!Rest
<1>4. ASSUME step[j].uses < MaxUses PROVE step[j].uses + 1 \in 0..MaxUses
  BY <1>1, <1>4, LimitsAssumption DEF Steps
<1>5. M!AdbAnswers \subseteq SUBSET M!Devices /\ M!Pool(j) \subseteq M!Devices
  BY <1>1, SerialsAssumption, AdbType DEF Devices, M!Devices, M!Pool, Steps
<1>6. CASE M!WantDevice(j) \/ M!WantPhase(j) \/ M!RunsAgain(j)
  <2>1. PICK to \in {"list", "wait"} :
          step' = [step EXCEPT ![j].pc = to, ![j].uses = step[j].uses + 1]
    BY <1>1, <1>6 DEF M!WantDevice, M!WantPhase, M!RunsAgain
  <2>2. step[j].uses + 1 \in 0..MaxUses
    BY <1>4, <1>6 DEF M!WantDevice, M!WantPhase, M!RunsAgain
  <2>3. QED
    BY <1>1, <2>1, <2>2 DEF Steps, Pcs
<1>7. CASE M!ListDevices(j) \/ M!LookBefore(j)
  <2>1. PICK to \in {"lease", "boot"}, seen \in SUBSET M!Devices :
          step' = [step EXCEPT ![j].pc = to, ![j].seen = seen]
    <3>1. CASE M!ListDevices(j)
      BY <1>5, <3>1 DEF M!ListDevices
    <3>2. CASE M!LookBefore(j)
      BY <1>5, <3>2 DEF M!LookBefore
    <3>3. QED
      BY <1>7, <3>1, <3>2
  <2>2. QED
    BY <1>1, <2>1 DEF Steps, Pcs
<1>8. CASE M!Lease(j)
  <2>1. PICK s \in M!Devices :
          step' = [step EXCEPT ![j].pc = "wait", ![j].serial = s]
    BY <1>5, <1>8 DEF M!Lease
  <2>2. QED
    BY <1>1, <2>1 DEF Steps, Pcs
<1>9. CASE M!NoLease(j)
  BY <1>1, <1>9 DEF M!NoLease, Steps, Pcs
<1>10. CASE M!GiveUp(j) \/ M!BootFails(j) \/ M!Forget(j)
  <2>1. M!Rest(j)
    BY <1>10 DEF M!GiveUp, M!BootFails, M!Forget
  <2>2. QED
    BY <1>1, <1>3, <2>1 DEF M!Rest
<1>11. CASE M!StartEmulator(j) \/ M!BootDone(j) \/ M!Kill(j) \/ M!TakeSlot(j)
  <2>1. PICK to \in Pcs : M!Goto(j, to)
    BY <1>11 DEF M!StartEmulator, M!BootDone, M!Kill, M!TakeSlot, Pcs
  <2>2. QED
    BY <1>1, <1>2, <2>1 DEF M!Goto
<1>12. CASE M!Interrupted(j) \/ M!PhaseEnds(j) \/ M!Release(j)
  <2>1. M!Rest(j) \/ \E to \in Pcs : M!Goto(j, to)
    BY <1>12 DEF M!Interrupted, M!PhaseEnds, M!Release, M!Leave, Pcs
  <2>2. QED
    BY <1>1, <1>2, <1>3, <2>1 DEF M!Goto, M!Rest
<1>13. QED
  BY <1>6, <1>7, <1>8, <1>9, <1>10, <1>11, <1>12 DEF M!Use, M!Acquire, M!Finish

(***************************************************************************)
(* The slot is taken with the command and given back with its end.         *)
(***************************************************************************)
LEMMA SlotStep ==
  ASSUME M!TypeOK, NEW j \in Jobs, M!Use(j)
  PROVE  gradle' = {i \in Jobs : step'[i].pc = "run"}
<1>0. /\ step \in [Jobs -> Steps] /\ step[j] \in Steps
      /\ gradle = {i \in Jobs : step[i].pc = "run"}
  BY DEF M!TypeOK, Steps, Pcs
<1>1. \A i \in Jobs \ {j} : step'[i] = step[i]
  BY UseTypes
<1>2. CASE M!TakeSlot(j)
  <2>1. step'[j].pc = "run" /\ gradle' = gradle \cup {j}
    BY <1>0, <1>2 DEF M!TakeSlot, M!Goto
  <2>2. QED
    BY <1>0, <1>1, <2>1
<1>3. CASE M!PhaseEnds(j) \/ M!RunsAgain(j)
  <2>1. step'[j].pc # "run" /\ gradle' = gradle \ {j}
    BY <1>0, <1>3, RestingType DEF M!PhaseEnds, M!RunsAgain, M!Leave, M!Rest, M!Goto, M!Resting, Steps
  <2>2. QED
    BY <1>0, <1>1, <2>1
<1>4. CASE ~M!TakeSlot(j) /\ ~M!PhaseEnds(j) /\ ~M!RunsAgain(j)
  <2>1. gradle' = gradle /\ step[j].pc # "run"
    BY <1>4 DEF M!Use, M!Acquire, M!Finish, M!WantDevice, M!WantPhase, M!ListDevices, M!Lease,
                M!NoLease, M!GiveUp, M!LookBefore, M!StartEmulator, M!BootDone, M!BootFails,
                M!Release, M!Kill, M!Forget, M!Interrupted, M!At
  <2>2. step'[j].pc # "run"
    <3>1. CASE M!Rest(j)
      BY <1>0, <3>1 DEF M!Rest, M!Resting
    <3>2. CASE \E to \in Pcs \ {"run"} : M!Goto(j, to)
      BY <1>0, <3>2 DEF M!Goto
    <3>3. CASE M!WantDevice(j) \/ M!WantPhase(j) \/ M!ListDevices(j) \/ M!LookBefore(j)
      BY <1>0, <3>3 DEF M!WantDevice, M!WantPhase, M!ListDevices, M!LookBefore, Steps
    <3>4. CASE M!Lease(j) \/ M!NoLease(j)
      BY <1>0, <3>4 DEF M!Lease, M!NoLease, Steps
    <3>5. QED
      BY <1>4, <3>1, <3>2, <3>3, <3>4
      DEF M!Use, M!Acquire, M!Finish, M!GiveUp, M!StartEmulator, M!BootDone, M!BootFails,
          M!Release, M!Kill, M!Forget, M!Interrupted, M!Leave, Pcs
  <2>3. QED
    BY <1>0, <1>1, <2>1, <2>2
<1>5. QED
  BY <1>2, <1>3, <1>4

(***************************************************************************)
(* Nobody holds anything at the start.                                     *)
(***************************************************************************)
LEMMA LeaseTypeInit == M!Init => M!TypeOK
<1> SUFFICES ASSUME M!Init PROVE M!TypeOK
  OBVIOUS
<1>1. step \in [Jobs -> Steps] /\ \A j \in Jobs : step[j].pc = "idle"
  BY RestingType DEF M!Init
<1>2. QED
  BY <1>1 DEF M!Init, M!TypeOK, Steps, Pcs

(***************************************************************************)
(* Every step keeps the types.                                             *)
(***************************************************************************)
LEMMA LeaseTypeStep == M!TypeOK /\ [M!Next]_M!vars => M!TypeOK'
<1> SUFFICES ASSUME M!TypeOK, [M!Next]_M!vars PROVE M!TypeOK'
  OBVIOUS
<1>1. ASSUME NEW j \in Jobs, M!Use(j) PROVE M!TypeOK'
  <2>1. step' \in [Jobs -> Steps] /\ gradle' = {i \in Jobs : step'[i].pc = "run"}
    BY <1>1, UseTypes, SlotStep
  <2>2. inUse' \subseteq M!Devices
    <3>1. M!Pool(j) \subseteq M!Devices
      BY SerialsAssumption DEF Devices, M!Devices, M!Pool, M!TypeOK
    <3>2. CASE M!Lease(j)
      BY <3>1, <3>2 DEF M!Lease, M!TypeOK
    <3>3. CASE ~M!Lease(j)
      BY <1>1, <3>3
      DEF M!TypeOK, M!Use, M!Acquire, M!Finish, M!WantDevice, M!WantPhase, M!ListDevices, M!NoLease,
          M!GiveUp, M!LookBefore, M!StartEmulator, M!BootDone, M!BootFails, M!Release, M!Kill,
          M!Forget, M!Interrupted, M!TakeSlot, M!PhaseEnds, M!RunsAgain
    <3>4. QED
      BY <3>2, <3>3
  <2>3. /\ booted' \subseteq M!Devices
        /\ emulator' \in {"off", "starting", "listed", "up"}
    BY <1>1, AdbType
    DEF M!TypeOK, M!Use, M!Acquire, M!Finish, M!WantDevice, M!WantPhase, M!ListDevices, M!Lease, M!NoLease,
        M!GiveUp, M!LookBefore, M!StartEmulator, M!BootDone, M!BootFails, M!Release, M!Kill,
        M!Forget, M!Interrupted, M!TakeSlot, M!PhaseEnds, M!RunsAgain
  <2>4. QED
    BY <2>1, <2>2, <2>3 DEF M!TypeOK, Steps, Pcs
<1>2. CASE M!EmulatorStarts
  BY <1>2 DEF M!EmulatorStarts, M!TypeOK
<1>3. CASE UNCHANGED M!vars
  BY <1>3 DEF M!vars, M!TypeOK
<1>4. QED
  BY <1>1, <1>2, <1>3 DEF M!Next, M!Finished

(***************************************************************************)
(* The maps and the steps have their types; the jobs with a slot run.      *)
(***************************************************************************)
THEOREM LeaseTypeCorrect == M!Spec => []M!TypeOK
  BY LeaseTypeInit, LeaseTypeStep, PTL DEF M!Spec

-----------------------------------------------------------------------------
(***************************************************************************)
(* No leases at the start.                                                 *)
(***************************************************************************)
LEMMA LeaseInit == M!Init => LeaseInv
<1> SUFFICES ASSUME M!Init PROVE LeaseInv
  OBVIOUS
<1>1. \A j \in Jobs : step[j].serial = NoDevice
  BY RestingType DEF M!Init
<1>2. QED
  BY <1>1 DEF M!Init, LeaseInv, M!LeasesAreExclusive, M!HasDevice

(***************************************************************************)
(* A lease is taken for a serial that is not in use, and given back with   *)
(* the step's use of it; nothing else touches the pool.                    *)
(***************************************************************************)
LEMMA LeaseStep == M!TypeOK /\ LeaseInv /\ [M!Next]_M!vars => LeaseInv'
<1> SUFFICES ASSUME M!TypeOK, LeaseInv, [M!Next]_M!vars PROVE LeaseInv'
  OBVIOUS
<1> USE DEF LeaseInv, M!LeasesAreExclusive, M!HasDevice, Using, Killing
<1>1. ASSUME NEW j \in Jobs, M!Use(j) PROVE LeaseInv'
  <2>0. step \in [Jobs -> Steps] /\ step[j] \in Steps
    BY DEF M!TypeOK, Steps, Pcs
  <2>1. \A i \in Jobs \ {j} : step'[i] = step[i]
    BY <1>1, UseTypes
  <2>2. CASE M!Lease(j)
    <3>1. PICK s \in M!Pool(j) \ inUse :
            /\ inUse' = inUse \cup {s}
            /\ step' = [step EXCEPT ![j].pc = "wait", ![j].serial = s]
      BY <2>2 DEF M!Lease
    <3>2. s # NoDevice
      <4>1. M!Pool(j) \subseteq M!Devices
        BY SerialsAssumption DEF Devices, M!Devices, M!Pool, M!TypeOK
      <4>2. QED
        BY <3>1, <4>1, DevicesAssumption DEF Devices, M!Devices
    <3>3. step'[j].pc = "wait" /\ step'[j].serial = s
      BY <2>0, <3>1 DEF Steps
    <3>4. step[j].serial = NoDevice
      BY <2>2 DEF M!Lease, M!At
    <3>5. \A i \in Jobs : M!HasDevice(i)' <=> i = j \/ M!HasDevice(i)
      BY <2>1, <3>2, <3>3
    <3>6. inUse' = {step'[i].serial : i \in {k \in Jobs : M!HasDevice(k)'}}
      <4>1. inUse = {step[i].serial : i \in {k \in Jobs : M!HasDevice(k)}}
        OBVIOUS
      <4>2. ~M!HasDevice(j)
        BY <3>4
      <4>3. \A i \in Jobs : M!HasDevice(i) => i # j /\ step'[i] = step[i]
        BY <2>1, <4>2
      <4>4. ASSUME NEW t \in inUse'
            PROVE  \E i \in Jobs : M!HasDevice(i)' /\ step'[i].serial = t
        <5>1. CASE t = s
          BY <3>3, <3>5, <5>1
        <5>2. CASE t # s
          <6>1. PICK i \in Jobs : M!HasDevice(i) /\ step[i].serial = t
            BY <3>1, <4>1, <5>2
          <6>2. QED
            BY <3>5, <4>3, <6>1
        <5>3. QED
          BY <5>1, <5>2
      <4>5. ASSUME NEW i \in Jobs, M!HasDevice(i)'
            PROVE  step'[i].serial \in inUse'
        <5>1. CASE i = j
          BY <3>1, <3>3, <5>1
        <5>2. CASE i # j
          <6>1. M!HasDevice(i) /\ step'[i] = step[i]
            BY <3>5, <4>3, <4>5, <5>2
          <6>2. step[i].serial \in inUse
            BY <4>1, <6>1
          <6>3. step'[i].serial = step[i].serial
            BY <6>1
          <6>4. inUse \subseteq inUse'
            BY <3>1
          <6>5. QED
            BY <6>2, <6>3, <6>4
        <5>3. QED
          BY <5>1, <5>2
      <4>6. QED
        BY <4>4, <4>5
    <3>7. \A i \in Jobs \ {j} : M!HasDevice(i) => step[i].serial # s
      BY <3>1
    <3>8. QED
      BY <2>1, <3>3, <3>5, <3>6, <3>7
  <2>3. CASE M!Release(j)
    <3>1. step[j].pc = "release" /\ inUse' = inUse \ {step[j].serial}
      BY <2>3 DEF M!Release, M!At
    <3>2. /\ step'[j].pc \notin Using
          /\ step'[j].serial # NoDevice => step'[j].pc \in Killing
      <4>1. CASE M!Rest(j)
        BY <2>0, <4>1 DEF M!Rest, M!Resting
      <4>2. CASE M!Goto(j, "kill")
        BY <2>0, <4>2 DEF M!Goto
      <4>3. QED
        BY <2>3, <4>1, <4>2 DEF M!Release
    <3>3. QED
      BY <2>1, <3>1, <3>2
  <2>4. CASE ~M!Lease(j) /\ ~M!Release(j)
    <3>1. inUse' = inUse
      BY <1>1, <2>4
      DEF M!Use, M!Acquire, M!Finish, M!WantDevice, M!WantPhase, M!ListDevices, M!NoLease,
          M!GiveUp, M!LookBefore, M!StartEmulator, M!BootDone, M!BootFails, M!Kill,
          M!Forget, M!Interrupted, M!TakeSlot, M!PhaseEnds, M!RunsAgain
    <3>2. \/ /\ step[j].serial = NoDevice /\ step'[j].serial = NoDevice
          \/ /\ step[j].pc \in Using /\ step'[j].pc \in Using
             /\ step'[j].serial = step[j].serial
          \/ /\ step[j].pc \in Killing /\ step'[j].pc \in Killing
             /\ step'[j].serial = step[j].serial
          \/ step[j].pc \in Killing /\ step'[j].serial = NoDevice
      <4>1. CASE M!WantDevice(j) \/ M!WantPhase(j) \/ M!ListDevices(j) \/ M!NoLease(j) \/ M!LookBefore(j)
        BY <2>0, <4>1 DEF M!WantDevice, M!WantPhase, M!ListDevices, M!NoLease, M!LookBefore, M!At, Steps
      <4>2. CASE M!GiveUp(j) \/ M!BootFails(j) \/ M!Forget(j)
        BY <2>0, <4>2 DEF M!GiveUp, M!BootFails, M!Forget, M!Rest, M!Resting, M!At
      <4>3. CASE M!StartEmulator(j) \/ M!BootDone(j) \/ M!Kill(j) \/ M!TakeSlot(j)
        BY <2>0, <4>3 DEF M!StartEmulator, M!BootDone, M!Kill, M!TakeSlot, M!Goto, M!At, Steps
      <4>4. CASE M!RunsAgain(j)
        BY <2>0, <4>4 DEF M!RunsAgain, M!At
      <4>5. CASE M!Interrupted(j) \/ M!PhaseEnds(j)
        <5>1. step[j].pc \in Using
          BY <4>5 DEF M!Interrupted, M!PhaseEnds, M!At
        <5>2. CASE step[j].serial = NoDevice
          BY <2>0, <4>5, <5>2 DEF M!Interrupted, M!PhaseEnds, M!Leave, M!Rest, M!Resting
        <5>3. CASE step[j].serial # NoDevice
          BY <2>0, <4>5, <5>1, <5>3 DEF M!Interrupted, M!PhaseEnds, M!Leave, M!Goto, Steps
        <5>4. QED
          BY <5>2, <5>3
      <4>6. QED
        BY <1>1, <2>4, <4>1, <4>2, <4>3, <4>4, <4>5 DEF M!Use, M!Acquire, M!Finish
    <3>3. QED
      BY <2>1, <3>1, <3>2
  <2>5. QED
    BY <2>2, <2>3, <2>4
<1>2. CASE M!EmulatorStarts \/ UNCHANGED M!vars
  BY <1>2 DEF M!EmulatorStarts, M!vars
<1>3. QED
  BY <1>1, <1>2 DEF M!Next, M!Finished

(***************************************************************************)
(* No device is leased to two jobs, and the pool is the leases held.       *)
(***************************************************************************)
THEOREM LeasesHold == M!Spec => []LeasesAreExclusive
<1>1. M!Spec => []LeaseInv
  BY LeaseTypeCorrect, LeaseInit, LeaseStep, PTL DEF M!Spec
<1>2. LeaseInv => LeasesAreExclusive
  BY DEF LeaseInv, LeasesAreExclusive, M!LeasesAreExclusive, HasDevice, M!HasDevice
<1>3. QED
  BY <1>1, <1>2, PTL
=============================================================================
