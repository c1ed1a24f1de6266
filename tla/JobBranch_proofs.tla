--------------------------- MODULE JobBranch_proofs ---------------------------
(***************************************************************************)
(* Proofs about JobBranch, for any number of commits, rewrites, retries,   *)
(* moves of the default branch and crashes.                                *)
(*                                                                         *)
(* The four properties speak of one step each: the one that records a      *)
(* baseline, the one that leaves FIXING, the two that reset the branch.    *)
(* The invariant carries what those steps rely on back to where the engine *)
(* looked: what is on the branch, in the record that a reset goes to, and  *)
(* in the baseline, sorted by whose work it is.                            *)
(***************************************************************************)
EXTENDS JobBranch, TLAPS

Own(commits) == {c \in commits : c.at \in {"agent", "fix"}}
Rest(commits) == {c \in commits : c.at = "rest"}
TestFixes(commits) == {c \in commits : c.at = "fix" /\ "test" \in c.files}

\* Types, and what is in the tree can be committed.
Typed == TypeOK /\ (tree # {} => made < MaxCommits)

\* The step's copy is the row, but for the head.
Same == mem.state = row.state /\ mem.entry = row.entry /\ mem.bug = row.bug

\* What a step knows of its state from where it has come to.
Placed ==
  /\ pc \in {"agent", "checkpointed", "guard", "commit", "discard"} => row.entry # None
  /\ pc \in {"rebased", "merge"} => row.state = "MERGING"
  /\ pc \in {"guard", "discard"} => row.state = "FIXING"
  /\ pc = "discard" => row.bug

\* The state's own work is not on the branch before its baseline is recorded,
\* nor in the baseline after.
Excluded ==
  /\ row.entry = None => Own(branch.on) \subseteq entered
  /\ row.entry = None /\ pc = "reset" => Own(mem.head.on) \subseteq entered
  /\ row.entry # None => Own(row.entry.on) \subseteq entered

\* A reset goes to a record that has all there is to keep.
Recorded == pc = "reset" => Own(branch.on) \cup Rest(branch.on) \subseteq mem.head.on

\* What people did at rest is in the baseline.
Adopted ==
  row.entry # None =>
    /\ Rest(branch.on) \subseteq row.entry.on
    /\ pc = "reset" => Rest(mem.head.on) \subseteq row.entry.on

\* What the guard has let pass.
Guarded ==
  row.state = "FIXING" /\ row.bug /\ ProtectTests =>
    /\ pc \in {"commit", "committed", "moving"} => TestFixes(branch.on) \subseteq entered
    /\ pc = "commit" => "test" \notin tree

\* What it has not, which only a rewrite can undo.
Touched ==
  row.entry # None /\ bounds.rewrites = 0 =>
    /\ row.entry.on \subseteq branch.on
    /\ pc = "reset" => row.entry.on \subseteq mem.head.on
    /\ pc = "discard" => "test" \in ChangedSince(row.entry)

BranchInv ==
  /\ Typed /\ Same /\ Placed
  /\ Excluded /\ Recorded /\ Adopted /\ Guarded /\ Touched

-----------------------------------------------------------------------------
(* Types. *)

Pcs ==
  {"off", "idle", "reconcile", "reset", "sync", "handle", "agent", "guard", "commit",
   "moving", "discard", "preserve", "holding", "merge", "checkpointed", "committed",
   "preserved", "discarded", "rebased"}

(***************************************************************************)
(* Where the engine is once it has written what it must.                   *)
(***************************************************************************)
LEMMA AfterType ==
  /\ DOMAIN After = {"checkpointed", "committed", "preserved", "discarded", "rebased"}
  /\ \A p \in DOMAIN After : After[p] \in Pcs
  /\ After["checkpointed"] = "agent" /\ After["committed"] = "moving"
  /\ After["preserved"] = "holding" /\ After["discarded"] = "preserve"
  /\ After["rebased"] = "merge"
  BY DEF After, Pcs

(***************************************************************************)
(* A new commit is one, while there is room.                               *)
(***************************************************************************)
LEMMA NewCommit ==
  ASSUME made \in 0..MaxCommits, made < MaxCommits, NEW files \in SUBSET Files,
         NEW at \in {"agent", "fix", "rest", "busy"}
  PROVE  /\ [n |-> made + 1, files |-> files, at |-> at] \in Commits
         /\ made + 1 \in 0..MaxCommits
  BY LimitsAssumption DEF Commits

(***************************************************************************)
(* A head is its base and its commits.                                     *)
(***************************************************************************)
LEMMA ShaFields ==
  ASSUME NEW sha \in Shas
  PROVE  /\ sha.base \in 0..MaxBase /\ sha.on \subseteq Commits
         /\ \A on \in SUBSET Commits :
              [sha EXCEPT !.on = on] \in Shas /\ [sha EXCEPT !.on = on].on = on
         /\ \A base \in 0..MaxBase :
              [sha EXCEPT !.base = base] \in Shas /\ [sha EXCEPT !.base = base].on = sha.on
  BY DEF Shas

(***************************************************************************)
(* The row's fields.                                                       *)
(***************************************************************************)
LEMMA RowFields ==
  ASSUME NEW r \in Rows
  PROVE  /\ r.state \in States /\ r.prev \in States /\ r.head \in Shas
         /\ r.entry \in Shas \cup {None} /\ r.bug \in BOOLEAN
         /\ \A h \in Shas :
              /\ [r EXCEPT !.head = h] \in Rows
              /\ [r EXCEPT !.head = h].head = h
              /\ [r EXCEPT !.head = h].state = r.state
              /\ [r EXCEPT !.head = h].entry = r.entry
              /\ [r EXCEPT !.head = h].bug = r.bug
         /\ \A h \in Shas :
              /\ [r EXCEPT !.head = h, !.entry = h] \in Rows
              /\ [r EXCEPT !.head = h, !.entry = h].head = h
              /\ [r EXCEPT !.head = h, !.entry = h].state = r.state
              /\ [r EXCEPT !.head = h, !.entry = h].entry = h
              /\ [r EXCEPT !.head = h, !.entry = h].bug = r.bug
  BY DEF Rows

(***************************************************************************)
(* What CommitAll does to the branch, and to the copy.                     *)
(***************************************************************************)
LEMMA CommitAllFacts ==
  ASSUME Typed, NEW at \in {"agent", "fix"}, CommitAll(at)
  PROVE  /\ branch' \in Shas /\ mem' \in Rows /\ made' \in 0..MaxCommits
         /\ tree' = {}
         /\ mem'.state = mem.state /\ mem'.entry = mem.entry /\ mem'.bug = mem.bug
         /\ mem'.head = branch'
         /\ branch.on \subseteq branch'.on
         /\ \A c \in branch'.on : c \in branch.on \/ (c.at = at /\ c.files = tree)
<1>1. branch \in Shas /\ mem \in Rows /\ made \in 0..MaxCommits /\ tree \in SUBSET Files
  BY DEF Typed, TypeOK
<1>2. tree' = {} /\ mem' = [mem EXCEPT !.head = branch']
  BY DEF CommitAll
<1>3. ASSUME branch' \in Shas
      PROVE  /\ mem' \in Rows /\ mem'.head = branch'
             /\ mem'.state = mem.state /\ mem'.entry = mem.entry /\ mem'.bug = mem.bug
  BY <1>1, <1>2, <1>3, RowFields
<1>4. CASE tree = {}
  <2>1. branch' = branch /\ made' = made
    BY <1>4 DEF CommitAll
  <2>2. branch' \in Shas
    BY <1>1, <2>1
  <2>3. QED
    BY <1>1, <1>2, <1>3, <2>1, <2>2
<1>5. CASE tree # {}
  <2> DEFINE new == [n |-> made + 1, files |-> tree, at |-> at]
  <2>1. new \in Commits /\ made + 1 \in 0..MaxCommits
    BY <1>1, <1>5, NewCommit DEF Typed
  <2>2. new.at = at /\ new.files = tree
    OBVIOUS
  <2>3. branch' = [branch EXCEPT !.on = branch.on \cup {new}] /\ made' = made + 1
    BY <1>5 DEF CommitAll
  <2> HIDE DEF new
  <2>4. branch.on \cup {new} \in SUBSET Commits
    BY <1>1, <2>1, ShaFields
  <2>5. branch' \in Shas /\ branch'.on = branch.on \cup {new}
    BY <1>1, <2>3, <2>4, ShaFields
  <2>6. \A c \in branch'.on : c \in branch.on \/ (c.at = at /\ c.files = tree)
    BY <2>2, <2>5
  <2>7. QED
    BY <1>2, <1>3, <2>1, <2>3, <2>5, <2>6
<1>6. QED
  BY <1>4, <1>5

(***************************************************************************)
(* What transition does to the row.                                        *)
(***************************************************************************)
LEMMA EnterFacts ==
  ASSUME Typed, NEW copy \in Rows, NEW next \in States, NEW bug \in BOOLEAN,
         Enter(copy, next, bug)
  PROVE  /\ row' \in Rows /\ mem' = row'
         /\ row'.state = next /\ row'.entry = None /\ row'.bug = bug
         /\ entered' = branch.on /\ entered' \in SUBSET Commits
<1>1. branch.on \in SUBSET Commits
  BY ShaFields DEF Typed, TypeOK
<1>2. copy.state \in States
  BY RowFields
<1>3. QED
  BY <1>1, <1>2 DEF Enter, Rows

(***************************************************************************)
(* A fix is a fix of a code_bug.                                           *)
(***************************************************************************)
LEMMA AuthorType == Author \in {"agent", "fix"}
  BY DEF Author

-----------------------------------------------------------------------------
(* Steps, by what they do. *)

Entering ==
  \/ ReconcileFails \/ Suspended \/ Move \/ Hold
  \/ PersonSends \/ BackoffElapsed \/ TimeOut

\* Steps that only move the engine, or write the head.
Moving ==
  \/ Dispatch \/ Reconcile \/ Sync \/ Record \/ AgentFails \/ AgentDone
  \/ Guard \/ PhasePasses \/ HandlerFails \/ PreserveFails \/ NoRebase \/ Merge
  \/ Crash \/ Start \/ Finished

(***************************************************************************)
(* A state is entered without a baseline, and with what is on the branch.  *)
(***************************************************************************)
LEMMA EnteringFacts ==
  ASSUME Typed, Same, Entering
  PROVE  /\ row' \in Rows /\ mem' = row' /\ row'.entry = None
         /\ entered' = branch.on /\ entered' \in SUBSET Commits
         /\ pc' = "idle"
         /\ attempt' \in 0..MaxAgentRetries /\ reconciled' \in BOOLEAN
         /\ UNCHANGED <<branch, tree, made, bounds>>
<1> DEFINE Facts == /\ row' \in Rows /\ mem' = row' /\ row'.entry = None
                    /\ entered' = branch.on /\ entered' \in SUBSET Commits
           Others == /\ pc' = "idle"
                     /\ attempt' \in 0..MaxAgentRetries
                     /\ reconciled' \in BOOLEAN
                     /\ UNCHANGED <<branch, tree, made, bounds>>
<1>1. /\ mem \in Rows /\ row \in Rows /\ mem.bug \in BOOLEAN /\ row.bug \in BOOLEAN
      /\ row.prev \in States /\ "HELD" \in States /\ "BLOCKED" \in States
      /\ Active \subseteq States
  BY RowFields DEF Typed, TypeOK, States
<1>2. ASSUME NEW copy \in Rows, NEW next \in States, NEW bug \in BOOLEAN,
             Enter(copy, next, bug)
      PROVE  Facts
  BY <1>2, EnterFacts
<1> HIDE DEF Facts
<1>3. Others
  <2>1. pc' = "idle" /\ UNCHANGED <<branch, tree, made, bounds>>
    BY DEF Entering, ReconcileFails, Suspended, Move, Hold, PersonSends,
       BackoffElapsed, TimeOut, Git, Goto
  <2>2. reconciled' \in BOOLEAN
    BY DEF Entering, ReconcileFails, Suspended, Move, Hold, PersonSends,
       BackoffElapsed, TimeOut, Typed, TypeOK
  <2>3. attempt' = attempt \/ attempt' = 0
    BY DEF Entering, ReconcileFails, Suspended, Move, Hold, PersonSends,
       BackoffElapsed, TimeOut
  <2>4. attempt' \in 0..MaxAgentRetries
    BY <2>3, LimitsAssumption DEF Typed, TypeOK
  <2>5. QED
    BY <2>1, <2>2, <2>4
<1>4. ASSUME ReconcileFails \/ Hold PROVE Facts
  BY <1>1, <1>2, <1>4 DEF ReconcileFails, Hold
<1>5. ASSUME Suspended PROVE Facts
  BY <1>1, <1>2, <1>5 DEF Suspended
<1>6. ASSUME Move PROVE Facts
  <2>1. PICK s \in Successors : Enter(mem, s[1], s[2])
    BY <1>6 DEF Move
  <2>2. s[1] \in {"REVIEW", "BUILDING", "AWAIT", "FIXING", "DONE"} /\ s[2] \in BOOLEAN
    <3>1. s \in {<<"REVIEW", FALSE>>, <<"BUILDING", FALSE>>, <<"AWAIT", FALSE>>,
                <<"FIXING", FALSE>>, <<"FIXING", TRUE>>, <<"DONE", FALSE>>}
      BY <2>1 DEF Successors
    <3>2. PICK next \in {"REVIEW", "BUILDING", "AWAIT", "FIXING", "DONE"}, bug \in BOOLEAN :
            s = <<next, bug>>
      BY <3>1, Zenon
    <3>3. s[1] = next /\ s[2] = bug
      BY <3>2
    <3>4. QED
      BY <3>2, <3>3, Zenon
  <2>3. s[1] \in States
    BY <2>2 DEF States, Active, AgentStates, CodeStates
  <2>4. QED
    BY <1>1, <1>2, <2>1, <2>2, <2>3
<1>7. ASSUME PersonSends PROVE Facts
  <2>1. PICK to \in Active, bug \in {row.bug, FALSE} : Enter(row, to, bug)
    BY <1>7 DEF PersonSends
  <2>2. to \in States /\ bug \in BOOLEAN
    BY <1>1
  <2>3. QED
    BY <1>1, <1>2, <2>1, <2>2
<1>8. ASSUME BackoffElapsed PROVE Facts
  BY <1>1, <1>2, <1>8 DEF BackoffElapsed
<1>9. ASSUME TimeOut PROVE Facts
  BY <1>1, <1>2, <1>9 DEF TimeOut
<1>10. Facts
  BY <1>4, <1>5, <1>6, <1>7, <1>8, <1>9 DEF Entering
<1>11. QED
  BY <1>3, <1>10 DEF Facts

(***************************************************************************)
(* The other steps of the engine that leave the branch alone.              *)
(***************************************************************************)
LEMMA MovingFacts ==
  ASSUME Typed, Same, Placed, Moving
  PROVE  /\ row' \in Rows /\ mem' \in Rows /\ Same'
         /\ row'.state = row.state /\ row'.entry = row.entry /\ row'.bug = row.bug
         /\ pc' \in Pcs /\ attempt' \in 0..MaxAgentRetries /\ reconciled' \in BOOLEAN
         /\ bounds' \in [rewrites : 0..MaxRewrites, crashes : 0..MaxCrashes]
         /\ bounds'.rewrites = bounds.rewrites
         /\ UNCHANGED <<branch, tree, made, entered>>
<1> DEFINE Heads == /\ row' \in Rows /\ mem' \in Rows /\ Same'
                    /\ row'.state = row.state /\ row'.entry = row.entry /\ row'.bug = row.bug
<1>1. mem \in Rows /\ row \in Rows /\ branch \in Shas /\ pc \in Pcs
  BY AfterType DEF Typed, TypeOK, Pcs
<1>2. pc' \in Pcs /\ reconciled' \in BOOLEAN
  <2>1. CASE Record
    BY <2>1, AfterType DEF Record, Goto, Typed, TypeOK
  <2>2. CASE AgentFails
    BY <1>1, <2>2 DEF AgentFails, Retry, Goto, Typed, TypeOK, Pcs
  <2>3. CASE Dispatch \/ Reconcile \/ Sync \/ PhasePasses \/ HandlerFails \/ PreserveFails
             \/ NoRebase \/ Merge \/ Crash \/ Start \/ Finished
    BY <1>1, <2>3 DEF Dispatch, Reconcile, Sync, PhasePasses,
       HandlerFails, PreserveFails, NoRebase, Merge, Crash, Start, Finished, vars, Goto,
       Typed, TypeOK, Pcs
  <2>4. CASE AgentDone
    <3>1. pc' \in {"moving", "commit", "guard"} /\ reconciled' = reconciled
      <4>1. mem.state \in {"REVIEW", "IMPLEMENTING", "FIXING"}
        BY <2>4 DEF AgentDone, Placed, Same, Typed, TypeOK, AgentStates, CodeStates
      <4>2. QED
        BY <2>4, <4>1 DEF AgentDone, Goto
    <3>2. QED
      BY <3>1 DEF Pcs, Typed, TypeOK
  <2>5. CASE Guard
    <3>1. pc' \in {"preserve", "discard", "commit"} /\ reconciled' = reconciled
      BY <2>5 DEF Guard, Goto
    <3>2. QED
      BY <3>1 DEF Pcs, Typed, TypeOK
  <2>6. QED
    BY <2>1, <2>2, <2>3, <2>4, <2>5 DEF Moving
<1>3. attempt' \in 0..MaxAgentRetries
  <2>1. attempt' = attempt \/ attempt' = 0 \/ (attempt < MaxAgentRetries /\ attempt' = attempt + 1)
    BY DEF Moving, Dispatch, Reconcile, Sync, AgentDone, Guard, PhasePasses,
       HandlerFails, PreserveFails, NoRebase, Merge, Crash, Start, Finished, vars, Record,
       AgentFails, Retry
  <2>2. QED
    BY <2>1, LimitsAssumption DEF Typed, TypeOK
<1>4. /\ bounds' \in [rewrites : 0..MaxRewrites, crashes : 0..MaxCrashes]
      /\ bounds'.rewrites = bounds.rewrites
  <2>1. CASE Crash
    BY <2>1, LimitsAssumption DEF Crash, Typed, TypeOK
  <2>2. CASE UNCHANGED bounds
    BY <2>2 DEF Typed, TypeOK
  <2>3. QED
    BY <2>1, <2>2 DEF Moving, Dispatch, Reconcile, Sync, AgentDone, Guard, PhasePasses,
       HandlerFails, PreserveFails, NoRebase, Merge, Start, Finished, vars, Record,
       AgentFails, History
<1>5. UNCHANGED <<branch, tree, made, entered>>
  BY DEF Moving, Dispatch, Reconcile, Sync, AgentDone, Guard, PhasePasses,
     HandlerFails, PreserveFails, NoRebase, Merge, Crash, Start, Finished, vars, Record,
     AgentFails, History, Git
<1>6. ASSUME Reconcile \/ Sync PROVE Heads
  <2>1. mem' = [mem EXCEPT !.head = branch] /\ (row' = mem' \/ row' = row)
    BY <1>6 DEF Reconcile, Sync
  <2>2. /\ mem' \in Rows
        /\ mem'.state = mem.state /\ mem'.entry = mem.entry /\ mem'.bug = mem.bug
    BY <1>1, <2>1, RowFields
  <2>3. QED
    BY <1>1, <2>1, <2>2 DEF Same
<1>7. ASSUME Record PROVE Heads
  BY <1>1, <1>7 DEF Record, Same
<1>8. ASSUME Dispatch \/ Crash PROVE Heads
  BY <1>1, <1>8 DEF Dispatch, Crash, Same
<1>9. ASSUME UNCHANGED <<row, mem>> PROVE Heads
  BY <1>1, <1>9 DEF Same
<1> HIDE DEF Heads
<1>10. Heads
  BY <1>6, <1>7, <1>8, <1>9 DEF Moving, AgentDone, Guard, PhasePasses, HandlerFails,
     PreserveFails, NoRebase, Merge, Start, Finished, vars, AgentFails
<1>11. QED
  BY <1>2, <1>3, <1>4, <1>5, <1>10 DEF Heads

(***************************************************************************)
(* People add a commit of their own, or take the last one back: then the   *)
(* rewrites are one more.                                                  *)
(***************************************************************************)
LEMMA PersonFacts ==
  ASSUME Typed, PersonCommits \/ PersonRewrites
  PROVE  /\ branch' \in Shas /\ made' \in 0..MaxCommits
         /\ tree # {} => made' < MaxCommits
         /\ \A c \in branch'.on : c \in branch.on \/ c.at = Person
         /\ bounds' \in [rewrites : 0..MaxRewrites, crashes : 0..MaxCrashes]
         /\ \/ branch.on \subseteq branch'.on /\ bounds' = bounds
            \/ bounds'.rewrites # bounds.rewrites /\ bounds'.rewrites # 0
         /\ UNCHANGED <<tree, row, mem, pc, attempt, reconciled, entered>>
<1>1. branch \in Shas /\ made \in 0..MaxCommits /\ branch.on \in SUBSET Commits
  BY ShaFields DEF Typed, TypeOK
<1>2. ASSUME Room PROVE made < MaxCommits /\ (tree # {} => made + 1 < MaxCommits)
  BY <1>1, <1>2, LimitsAssumption DEF Room
<1>3. Person \in {"rest", "busy"}
  BY DEF Person
<1>4. ASSUME NEW files \in SUBSET Files, NEW kept \in SUBSET branch.on, Room,
             branch' = [branch EXCEPT !.on =
               kept \cup {[n |-> made + 1, files |-> files, at |-> Person]}]
      PROVE  /\ branch' \in Shas /\ made + 1 \in 0..MaxCommits
             /\ kept \subseteq branch'.on
             /\ \A c \in branch'.on : c \in branch.on \/ c.at = Person
  <2> DEFINE new == [n |-> made + 1, files |-> files, at |-> Person]
  <2>1. new \in Commits /\ made + 1 \in 0..MaxCommits
    BY <1>1, <1>2, <1>3, <1>4, NewCommit
  <2>2. new.at = Person
    OBVIOUS
  <2> HIDE DEF new
  <2>3. kept \cup {new} \in SUBSET Commits
    BY <1>1, <2>1
  <2>4. branch' = [branch EXCEPT !.on = kept \cup {new}]
    BY <1>4 DEF new
  <2>5. branch' \in Shas /\ branch'.on = kept \cup {new}
    BY <1>1, <2>3, <2>4, ShaFields
  <2>6. QED
    BY <2>1, <2>2, <2>5
<1>5. CASE PersonCommits
  <2>1. PICK f \in Files : branch' = [branch EXCEPT !.on = branch.on \cup
                             {[n |-> made + 1, files |-> {f}, at |-> Person]}]
    BY <1>5 DEF PersonCommits
  <2>2. {f} \in SUBSET Files
    OBVIOUS
  <2>3. Room /\ made' = made + 1 /\ bounds' = bounds
        /\ UNCHANGED <<tree, row, mem, pc, attempt, reconciled, entered>>
    BY <1>5 DEF PersonCommits, History
  <2>4. bounds \in [rewrites : 0..MaxRewrites, crashes : 0..MaxCrashes]
    BY DEF Typed, TypeOK
  <2>5. /\ branch' \in Shas /\ made + 1 \in 0..MaxCommits
        /\ branch.on \subseteq branch'.on
        /\ \A c \in branch'.on : c \in branch.on \/ c.at = Person
    BY <1>4, <2>1, <2>2, <2>3
  <2>6. QED
    BY <1>2, <2>3, <2>4, <2>5
<1>6. CASE PersonRewrites
  <2>1. /\ bounds' \in [rewrites : 0..MaxRewrites, crashes : 0..MaxCrashes]
        /\ bounds'.rewrites # bounds.rewrites /\ bounds'.rewrites # 0
    BY <1>6, LimitsAssumption DEF PersonRewrites, Typed, TypeOK
  <2>2. UNCHANGED <<tree, row, mem, pc, attempt, reconciled, entered>>
    BY <1>6 DEF PersonRewrites
  <2>3. branch.on \ Last \in SUBSET Commits /\ branch.on \ Last \in SUBSET branch.on
    BY <1>1
  <2>4. CASE branch' = [branch EXCEPT !.on = branch.on \ Last] /\ made' = made
    <3>1. branch' \in Shas /\ branch'.on = branch.on \ Last
      BY <1>1, <2>3, <2>4, ShaFields
    <3>2. tree # {} => made' < MaxCommits
      BY <2>4 DEF Typed
    <3>3. QED
      BY <1>1, <2>1, <2>2, <2>4, <3>1, <3>2
  <2>5. ASSUME NEW c \in Last, Room, made' = made + 1,
               branch' = [branch EXCEPT !.on = (branch.on \ Last) \cup
                           {[n |-> made + 1, files |-> c.files, at |-> Person]}]
        PROVE  /\ branch' \in Shas /\ made + 1 \in 0..MaxCommits
               /\ \A d \in branch'.on : d \in branch.on \/ d.at = Person
    <3>1. c.files \in SUBSET Files
      BY <1>1 DEF Last, Commits
    <3>2. QED
      BY <1>4, <2>3, <2>5, <3>1
  <2>6. CASE Room /\ made' = made + 1 /\ \E c \in Last :
               branch' = [branch EXCEPT !.on = (branch.on \ Last) \cup
                           {[n |-> made + 1, files |-> c.files, at |-> Person]}]
    BY <1>2, <2>1, <2>2, <2>5, <2>6
  <2>7. QED
    BY <1>6, <2>4, <2>6 DEF PersonRewrites
<1>7. QED
  BY <1>5, <1>6

-----------------------------------------------------------------------------
(* Types are kept. *)

(***************************************************************************)
(* Typed, as it is proved: the pcs by name, the baseline where it belongs. *)
(***************************************************************************)
LEMMA TypedPrime ==
  ASSUME branch' \in Shas, tree' \in SUBSET Files, made' \in 0..MaxCommits,
         row' \in Rows, mem' \in Rows, pc' \in Pcs,
         attempt' \in 0..MaxAgentRetries, reconciled' \in BOOLEAN,
         entered' \in SUBSET Commits,
         bounds' \in [rewrites : 0..MaxRewrites, crashes : 0..MaxCrashes],
         row'.entry # None => row'.state \in AgentStates,
         tree' # {} => made' < MaxCommits
  PROVE  Typed'
  BY AfterType DEF Typed, TypeOK, Pcs

(***************************************************************************)
(* Every step keeps the types, and the copy.                               *)
(***************************************************************************)
LEMMA TypedStep ==
  ASSUME Typed, Same, Placed, Next
  PROVE  Typed' /\ Same'
<1>1. /\ branch \in Shas /\ tree \in SUBSET Files /\ made \in 0..MaxCommits
      /\ row \in Rows /\ mem \in Rows /\ pc \in Pcs
      /\ attempt \in 0..MaxAgentRetries /\ reconciled \in BOOLEAN
      /\ entered \in SUBSET Commits
      /\ bounds \in [rewrites : 0..MaxRewrites, crashes : 0..MaxCrashes]
      /\ row.entry # None => row.state \in AgentStates
      /\ tree # {} => made < MaxCommits
  BY AfterType DEF Typed, TypeOK, Pcs
<1>2. CASE Entering
  <2>1. /\ row' \in Rows /\ mem' = row' /\ row'.entry = None
        /\ entered' \in SUBSET Commits /\ pc' = "idle"
        /\ attempt' \in 0..MaxAgentRetries /\ reconciled' \in BOOLEAN
        /\ UNCHANGED <<branch, tree, made, bounds>>
    BY <1>2, EnteringFacts
  <2>2. pc' \in Pcs
    BY <2>1 DEF Pcs
  <2>3. Typed'
    BY <1>1, <2>1, <2>2, TypedPrime
  <2>4. QED
    BY <2>1, <2>3 DEF Same
<1>3. CASE Moving
  <2>1. /\ row' \in Rows /\ mem' \in Rows /\ Same'
        /\ row'.state = row.state /\ row'.entry = row.entry
        /\ pc' \in Pcs /\ attempt' \in 0..MaxAgentRetries /\ reconciled' \in BOOLEAN
        /\ bounds' \in [rewrites : 0..MaxRewrites, crashes : 0..MaxCrashes]
        /\ UNCHANGED <<branch, tree, made, entered>>
    BY <1>3, MovingFacts
  <2>2. QED
    BY <1>1, <2>1, TypedPrime
<1>4. CASE Baseline
  <2>1. /\ attempt' = 0 /\ pc' = "agent" /\ pc' \in Pcs
        /\ UNCHANGED <<branch, tree, made, reconciled, entered, bounds>>
    BY <1>4 DEF Baseline, Goto, Git, History, Pcs
  <2>2. attempt' \in 0..MaxAgentRetries
    BY <2>1, LimitsAssumption
  <2>3. /\ row' \in Rows /\ mem' \in Rows /\ Same'
        /\ row'.entry # None => row'.state \in AgentStates
    <3>1. CASE mem.entry = None
      <4>1. mem' = [mem EXCEPT !.head = branch, !.entry = branch] /\ row' = mem'
            /\ mem.state \in AgentStates
        BY <1>4, <3>1 DEF Baseline
      <4>2. mem' \in Rows /\ mem'.state = mem.state
        BY <1>1, <4>1, RowFields
      <4>3. QED
        BY <4>1, <4>2 DEF Same
    <3>2. CASE mem.entry # None
      BY <1>1, <1>4, <3>2 DEF Baseline, Same
    <3>3. QED
      BY <3>1, <3>2
  <2>4. QED
    BY <1>1, <2>1, <2>2, <2>3, TypedPrime
<1>5. CASE Checkpoint \/ Commit \/ Preserve
  <2>1. CommitAll(Author)
    BY <1>5 DEF Checkpoint, Commit, Preserve
  <2>2. /\ branch' \in Shas /\ mem' \in Rows /\ made' \in 0..MaxCommits /\ tree' = {}
        /\ mem'.state = mem.state /\ mem'.entry = mem.entry /\ mem'.bug = mem.bug
    BY <2>1, AuthorType, CommitAllFacts
  <2>3. UNCHANGED <<row, attempt, reconciled, bounds>>
    BY <1>5 DEF Checkpoint, Commit, Preserve, History
  <2>4. pc' \in Pcs
    BY <1>5 DEF Checkpoint, Commit, Preserve, Goto, Pcs
  <2>5. entered' \in SUBSET Commits
    <3>1. entered' = entered \/ entered' = branch'.on
      BY <1>5 DEF Checkpoint, Commit, Preserve, History
    <3>2. QED
      BY <1>1, <2>2, <3>1, ShaFields
  <2>6. Typed'
    BY <1>1, <2>2, <2>3, <2>4, <2>5, TypedPrime
  <2>7. QED
    BY <2>2, <2>3, <2>6 DEF Same
<1>6. CASE Edit
  <2>1. /\ tree' \in SUBSET Files /\ made < MaxCommits
        /\ UNCHANGED <<branch, made, row, mem, pc, attempt, reconciled, entered, bounds>>
    BY <1>1, <1>6, LimitsAssumption DEF Edit, History
  <2>2. QED
    BY <1>1, <2>1, TypedPrime DEF Same
<1>7. CASE ReviewerEdited
  <2>1. /\ tree' = {} /\ pc' \in {pc, "preserve"}
        /\ attempt' = 0 \/ (attempt < MaxAgentRetries /\ attempt' = attempt + 1)
        /\ UNCHANGED <<branch, made, row, mem, reconciled, entered, bounds>>
    BY <1>7 DEF ReviewerEdited, Retry, Goto, History
  <2>2. pc' \in Pcs /\ attempt' \in 0..MaxAgentRetries
    BY <1>1, <2>1, LimitsAssumption DEF Pcs
  <2>3. QED
    BY <1>1, <2>1, <2>2, TypedPrime DEF Same
<1>8. CASE Reset
  <2>1. /\ branch' = mem.head /\ tree' = {} /\ pc' = "sync" /\ pc' \in Pcs
        /\ UNCHANGED <<made, row, mem, attempt, reconciled, entered, bounds>>
    BY <1>8 DEF Reset, Goto, History, Pcs
  <2>2. branch' \in Shas
    BY <1>1, <2>1, RowFields
  <2>3. QED
    BY <1>1, <2>1, <2>2, TypedPrime DEF Same
<1>9. CASE Discard
  <2>1. /\ branch' = mem.entry /\ tree' = {} /\ pc' = "discarded" /\ pc' \in Pcs
        /\ mem' = [mem EXCEPT !.head = mem.entry]
        /\ UNCHANGED <<made, row, attempt, reconciled, entered, bounds>>
    BY <1>9 DEF Discard, Goto, History, Pcs
  <2>2. mem.entry \in Shas
    BY <1>1, <1>9, RowFields DEF Discard, Placed, Same
  <2>3. /\ mem' \in Rows
        /\ mem'.state = mem.state /\ mem'.entry = mem.entry /\ mem'.bug = mem.bug
    BY <1>1, <2>1, <2>2, RowFields
  <2>4. Typed'
    BY <1>1, <2>1, <2>2, <2>3, TypedPrime
  <2>5. QED
    BY <2>1, <2>3, <2>4 DEF Same
<1>10. CASE Rebase
  <2>1. /\ mem' = [mem EXCEPT !.head = branch'] /\ pc' = "rebased" /\ pc' \in Pcs
        /\ UNCHANGED <<tree, made, row, attempt, reconciled, entered, bounds>>
    BY <1>10 DEF Rebase, Goto, History, Pcs
  <2>2. PICK others \in branch.base..MaxBase : branch' = [branch EXCEPT !.base = others]
    BY <1>10 DEF Rebase
  <2>3. others \in 0..MaxBase
    BY <1>1, ShaFields, LimitsAssumption
  <2>4. branch' \in Shas
    BY <1>1, <2>2, <2>3, ShaFields
  <2>5. /\ mem' \in Rows
        /\ mem'.state = mem.state /\ mem'.entry = mem.entry /\ mem'.bug = mem.bug
    BY <1>1, <2>1, <2>4, RowFields
  <2>6. Typed'
    BY <1>1, <2>1, <2>4, <2>5, TypedPrime
  <2>7. QED
    BY <2>1, <2>5, <2>6 DEF Same
<1>11. CASE PersonCommits \/ PersonRewrites
  <2>1. /\ branch' \in Shas /\ made' \in 0..MaxCommits
        /\ tree # {} => made' < MaxCommits
        /\ bounds' \in [rewrites : 0..MaxRewrites, crashes : 0..MaxCrashes]
        /\ UNCHANGED <<tree, row, mem, pc, attempt, reconciled, entered>>
    BY <1>11, PersonFacts
  <2>2. QED
    BY <1>1, <2>1, TypedPrime DEF Same
<1>12. QED
  BY <1>2, <1>3, <1>4, <1>5, <1>6, <1>7, <1>8, <1>9, <1>10, <1>11
     DEF Next, Step, Tick, Outside, Entering, Moving

-----------------------------------------------------------------------------
(* The invariant is kept. *)

(***************************************************************************)
(* Where a moving step can have come from, and what it has seen there.     *)
(***************************************************************************)
LEMMA MovingWhere ==
  ASSUME Typed, Same, Placed, Moving
  PROVE  /\ pc' \in {"agent", "checkpointed", "guard", "commit", "discard"}
              => pc \in {"agent", "checkpointed", "guard", "commit", "discard"}
         /\ pc' \in {"rebased", "merge"}
              => pc \in {"rebased", "merge"} \/ row.state = "MERGING"
         /\ pc' = "guard" => pc = "guard" \/ row.state = "FIXING"
         /\ pc' = "discard" => pc = "discard" \/ (pc = "guard" /\ TouchesTests)
         /\ pc' = "reset"
              => (pc = "reset" /\ mem'.head = mem.head) \/ mem'.head = branch
         /\ pc' = "commit"
              => \/ pc = "commit" \/ row.state = "IMPLEMENTING"
                 \/ pc = "guard" /\ ~TouchesTests
         /\ pc' = "committed" => pc = "committed"
         /\ pc' = "moving" => pc \in {"moving", "committed"} \/ row.state # "FIXING"
<1>1. CASE Record
  BY <1>1, AfterType DEF Record, Goto
<1>2. CASE AgentFails
  BY <1>2 DEF AgentFails, Retry, Goto
<1>3. CASE AgentDone
  <2>1. mem.state \in {"REVIEW", "IMPLEMENTING", "FIXING"} /\ mem.state = row.state
    BY <1>3 DEF AgentDone, Placed, Same, Typed, TypeOK, AgentStates, CodeStates
  <2>2. CASE mem.state = "REVIEW"
    BY <1>3, <2>1, <2>2 DEF AgentDone, Goto
  <2>3. CASE mem.state = "IMPLEMENTING"
    BY <1>3, <2>1, <2>3 DEF AgentDone, Goto
  <2>4. CASE mem.state = "FIXING"
    BY <1>3, <2>1, <2>4 DEF AgentDone, Goto
  <2>5. QED
    BY <2>1, <2>2, <2>3, <2>4
<1>4. CASE Guard
  <2>1. pc' = "preserve" \/ pc' = (IF TouchesTests THEN "discard" ELSE "commit")
    BY <1>4 DEF Guard, Goto
  <2>2. pc = "guard"
    BY <1>4 DEF Guard
  <2>3. QED
    BY <2>1, <2>2
<1>5. CASE Reconcile
  <2>1. mem' = [mem EXCEPT !.head = branch] /\ pc' \in {"sync", "reset"}
    BY <1>5 DEF Reconcile, Goto
  <2>2. mem'.head = branch
    BY <2>1, RowFields DEF Typed, TypeOK
  <2>3. QED
    BY <2>1, <2>2
<1>6. CASE Finished
  BY <1>6 DEF Finished, vars
<1>7. CASE PhasePasses \/ NoRebase \/ Merge
  BY <1>7 DEF PhasePasses, NoRebase, Merge, Goto, Same, Placed
<1>8. CASE Dispatch \/ Sync \/ HandlerFails \/ PreserveFails \/ Crash \/ Start
  BY <1>8 DEF Dispatch, Sync, HandlerFails, PreserveFails, Crash, Start, Goto
<1>9. QED
  BY <1>1, <1>2, <1>3, <1>4, <1>5, <1>6, <1>7, <1>8 DEF Moving

(***************************************************************************)
(* Entering a state.                                                       *)
(***************************************************************************)
LEMMA EnteringKeeps ==
  ASSUME BranchInv, Entering
  PROVE  Placed' /\ Excluded' /\ Recorded' /\ Adopted' /\ Guarded' /\ Touched'
<1>1. /\ pc' = "idle" /\ row'.entry = None /\ entered' = branch.on /\ branch' = branch
  BY EnteringFacts DEF BranchInv
<1>2. Own(branch'.on) \subseteq entered'
  BY <1>1 DEF Own
<1>3. Placed' /\ Recorded' /\ Adopted' /\ Guarded' /\ Touched'
  BY <1>1 DEF Placed, Recorded, Adopted, Guarded, Touched
<1>4. Excluded'
  BY <1>1, <1>2 DEF Excluded
<1>5. QED
  BY <1>3, <1>4

(***************************************************************************)
(* Moving on.                                                              *)
(***************************************************************************)
LEMMA MovingKeeps ==
  ASSUME BranchInv, Moving
  PROVE  Placed' /\ Excluded' /\ Recorded' /\ Adopted' /\ Guarded' /\ Touched'
<1>1. /\ row'.state = row.state /\ row'.entry = row.entry /\ row'.bug = row.bug
      /\ branch' = branch /\ tree' = tree /\ entered' = entered
      /\ bounds'.rewrites = bounds.rewrites
  BY MovingFacts DEF BranchInv
<1>2. mem.entry = row.entry /\ mem.bug = row.bug
  BY DEF BranchInv, Same
<1>3. /\ pc' \in {"agent", "checkpointed", "guard", "commit", "discard"}
           => pc \in {"agent", "checkpointed", "guard", "commit", "discard"}
      /\ pc' \in {"rebased", "merge"}
           => pc \in {"rebased", "merge"} \/ row.state = "MERGING"
      /\ pc' = "guard" => pc = "guard" \/ row.state = "FIXING"
      /\ pc' = "discard" => pc = "discard" \/ (pc = "guard" /\ TouchesTests)
      /\ pc' = "reset"
           => (pc = "reset" /\ mem'.head = mem.head) \/ mem'.head = branch
      /\ pc' = "commit"
           => \/ pc = "commit" \/ row.state = "IMPLEMENTING"
              \/ pc = "guard" /\ ~TouchesTests
      /\ pc' = "committed" => pc = "committed"
      /\ pc' = "moving" => pc \in {"moving", "committed"} \/ row.state # "FIXING"
  BY MovingWhere DEF BranchInv
<1>4. Placed'
  BY <1>1, <1>2, <1>3 DEF BranchInv, Placed, TouchesTests
<1>5. Excluded'
  BY <1>1, <1>3 DEF BranchInv, Excluded
<1>6. Recorded'
  BY <1>1, <1>3 DEF BranchInv, Recorded, Own, Rest
<1>7. Adopted'
  BY <1>1, <1>3 DEF BranchInv, Adopted
<1>8. Guarded'
  <2>1. ASSUME pc = "guard", ~TouchesTests, row.bug, ProtectTests
        PROVE  TestFixes(branch.on) \subseteq entered /\ "test" \notin tree
    <3>1. row.entry # None /\ "test" \notin ChangedSince(row.entry)
      BY <1>2, <2>1 DEF TouchesTests, BranchInv, Placed
    <3>2. \A c \in branch.on \ row.entry.on : "test" \notin c.files
      BY <3>1 DEF ChangedSince
    <3>3. Own(row.entry.on) \subseteq entered
      BY <3>1 DEF BranchInv, Excluded
    <3>4. TestFixes(branch.on) \subseteq entered
      BY <3>2, <3>3 DEF TestFixes, Own
    <3>5. QED
      BY <3>1, <3>4 DEF ChangedSince
  <2>2. QED
    BY <1>1, <1>3, <2>1 DEF BranchInv, Guarded
<1>9. Touched'
  <2>1. ChangedSince(row.entry)' = ChangedSince(row.entry)
    BY <1>1 DEF ChangedSince
  <2>2. pc = "guard" /\ TouchesTests => "test" \in ChangedSince(row.entry)
    BY <1>2 DEF TouchesTests
  <2>3. QED
    BY <1>1, <1>3, <2>1, <2>2 DEF BranchInv, Touched
<1>10. QED
  BY <1>4, <1>5, <1>6, <1>7, <1>8, <1>9

(***************************************************************************)
(* Recording the baseline.                                                 *)
(***************************************************************************)
LEMMA BaselineKeeps ==
  ASSUME BranchInv, Baseline
  PROVE  Placed' /\ Excluded' /\ Recorded' /\ Adopted' /\ Guarded' /\ Touched'
<1>1. /\ pc' = "agent" /\ branch' = branch /\ entered' = entered
      /\ mem \in Rows /\ branch \in Shas /\ branch # None
  BY NoneAssumption DEF Baseline, Goto, Git, History, BranchInv, Typed, TypeOK
<1>2. \/ row'.entry = branch /\ row.entry = None
      \/ row'.entry = row.entry /\ row.entry # None
  <2>1. CASE mem.entry = None
    <3>1. row' = [mem EXCEPT !.head = branch, !.entry = branch]
      BY <2>1 DEF Baseline
    <3>2. row'.entry = branch
      BY <1>1, <3>1, RowFields
    <3>3. row.entry = None
      BY <2>1 DEF BranchInv, Same
    <3>4. QED
      BY <3>2, <3>3
  <2>2. CASE mem.entry # None
    BY <2>2 DEF Baseline, BranchInv, Same
  <2>3. QED
    BY <2>1, <2>2
<1>3. Placed' /\ Recorded' /\ Guarded'
  BY <1>1, <1>2 DEF Placed, Recorded, Guarded
<1>4. Excluded'
  BY <1>1, <1>2 DEF BranchInv, Excluded
<1>5. Adopted'
  BY <1>1, <1>2 DEF BranchInv, Adopted, Rest
<1>6. Touched'
  <2>1. bounds' = bounds
    BY DEF Baseline, History
  <2>2. QED
    BY <1>1, <1>2, <2>1 DEF BranchInv, Touched
<1>7. QED
  BY <1>3, <1>4, <1>5, <1>6

(***************************************************************************)
(* Committing what is in the tree.                                         *)
(***************************************************************************)
LEMMA CommittingKeeps ==
  ASSUME BranchInv, Checkpoint \/ Commit \/ Preserve
  PROVE  Placed' /\ Excluded' /\ Recorded' /\ Adopted' /\ Guarded' /\ Touched'
<1>1. /\ branch.on \subseteq branch'.on
      /\ \A c \in branch'.on :
           c \in branch.on \/ (c.at \in {"agent", "fix"} /\ c.files = tree)
  <2>1. CommitAll(Author) /\ Typed
    BY DEF Checkpoint, Commit, Preserve, BranchInv
  <2>2. QED
    BY <2>1, AuthorType, CommitAllFacts
<1>2. /\ row' = row /\ bounds' = bounds
      /\ \/ pc = "agent" /\ pc' = "checkpointed" /\ entered' = entered
         \/ pc = "commit" /\ pc' = "committed" /\ entered' = entered
         \/ /\ pc = "preserve" /\ pc' \in {"holding", "preserved"}
            /\ entered' = IF mem.entry = None THEN branch'.on ELSE entered
  BY DEF Checkpoint, Commit, Preserve, Goto, History
<1>3. mem.entry = row.entry
  BY DEF BranchInv, Same
<1>4. Placed' /\ Recorded'
  BY <1>2 DEF BranchInv, Placed, Recorded
<1>5. Excluded'
  <2>1. CASE row.entry = None
    <3>1. pc = "preserve" /\ entered' = branch'.on
      BY <1>2, <1>3, <2>1 DEF BranchInv, Placed
    <3>2. QED
      BY <1>2, <2>1, <3>1 DEF Excluded, Own
  <2>2. CASE row.entry # None
    BY <1>2, <1>3, <2>2 DEF BranchInv, Excluded
  <2>3. QED
    BY <2>1, <2>2
<1>6. Adopted'
  <2>1. Rest(branch'.on) \subseteq Rest(branch.on)
    BY <1>1 DEF Rest
  <2>2. QED
    BY <1>2, <2>1 DEF BranchInv, Adopted
<1>7. Guarded'
  <2>1. SUFFICES ASSUME row.state = "FIXING", row.bug, ProtectTests,
                        pc = "commit", pc' = "committed", entered' = entered
                 PROVE  TestFixes(branch'.on) \subseteq entered
    BY <1>2 DEF Guarded
  <2>2. TestFixes(branch.on) \subseteq entered /\ "test" \notin tree
    BY <2>1 DEF BranchInv, Guarded
  <2>3. QED
    BY <1>1, <2>2 DEF TestFixes
<1>8. Touched'
  BY <1>1, <1>2 DEF BranchInv, Touched
<1>9. QED
  BY <1>4, <1>5, <1>6, <1>7, <1>8

(***************************************************************************)
(* The agent at the tree.                                                  *)
(***************************************************************************)
LEMMA EditingKeeps ==
  ASSUME BranchInv, Edit \/ ReviewerEdited
  PROVE  Placed' /\ Excluded' /\ Recorded' /\ Adopted' /\ Guarded' /\ Touched'
<1>1. /\ UNCHANGED <<branch, row, mem, entered, bounds>>
      /\ pc \in {"agent", "checkpointed"} /\ pc' \in {pc, "preserve"}
  BY DEF Edit, ReviewerEdited, Retry, Goto, History
<1>2. QED
  BY <1>1 DEF BranchInv, Placed, Excluded, Recorded, Adopted, Guarded, Touched

(***************************************************************************)
(* The resets, and the rebase.                                             *)
(***************************************************************************)
LEMMA ResettingKeeps ==
  ASSUME BranchInv, Reset \/ Discard \/ Rebase
  PROVE  Placed' /\ Excluded' /\ Recorded' /\ Adopted' /\ Guarded' /\ Touched'
<1>1. UNCHANGED <<row, entered, bounds>>
  BY DEF Reset, Discard, Rebase, History
<1>2. CASE Reset
  <2>1. pc = "reset" /\ pc' = "sync" /\ branch' = mem.head
    BY <1>2 DEF Reset, Goto
  <2>2. Placed' /\ Recorded' /\ Guarded'
    BY <2>1 DEF Placed, Recorded, Guarded
  <2>3. Excluded' /\ Adopted' /\ Touched'
    BY <1>1, <2>1 DEF BranchInv, Excluded, Adopted, Touched
  <2>4. QED
    BY <2>2, <2>3
<1>3. CASE Discard
  <2>1. pc = "discard" /\ pc' = "discarded" /\ branch' = row.entry /\ row.entry # None
    BY <1>3 DEF Discard, Goto, BranchInv, Same, Placed
  <2>2. Placed' /\ Recorded' /\ Guarded'
    BY <2>1 DEF Placed, Recorded, Guarded
  <2>3. Excluded' /\ Adopted' /\ Touched'
    BY <1>1, <2>1 DEF BranchInv, Excluded, Adopted, Touched, Rest
  <2>4. QED
    BY <2>2, <2>3
<1>4. CASE Rebase
  <2>1. pc' = "rebased" /\ row.state = "MERGING"
    BY <1>4 DEF Rebase, Goto, BranchInv, Same
  <2>2. branch'.on = branch.on
    <3>1. branch \in Shas
      BY DEF BranchInv, Typed, TypeOK
    <3>2. PICK others \in branch.base..MaxBase : branch' = [branch EXCEPT !.base = others]
      BY <1>4 DEF Rebase
    <3>3. others \in 0..MaxBase
      BY <3>1, ShaFields, LimitsAssumption
    <3>4. QED
      BY <3>1, <3>2, <3>3, ShaFields
  <2>3. Placed' /\ Recorded' /\ Guarded'
    BY <1>1, <2>1 DEF Placed, Recorded, Guarded
  <2>4. Excluded' /\ Adopted' /\ Touched'
    BY <1>1, <2>1, <2>2 DEF BranchInv, Excluded, Adopted, Touched
  <2>5. QED
    BY <2>3, <2>4
<1>5. QED
  BY <1>2, <1>3, <1>4

(***************************************************************************)
(* People at the branch.                                                   *)
(***************************************************************************)
LEMMA PeopleKeep ==
  ASSUME BranchInv, PersonCommits \/ PersonRewrites
  PROVE  Placed' /\ Excluded' /\ Recorded' /\ Adopted' /\ Guarded' /\ Touched'
<1>1. /\ \A c \in branch'.on : c \in branch.on \/ c.at = Person
      /\ \/ branch.on \subseteq branch'.on /\ bounds' = bounds
         \/ bounds'.rewrites # bounds.rewrites /\ bounds'.rewrites # 0
      /\ UNCHANGED <<tree, row, mem, pc, entered>>
  BY PersonFacts DEF BranchInv
<1>2. Person \in {"rest", "busy"}
  BY DEF Person
<1>3. row.entry # None \/ pc = "reset" => Person = "busy"
  BY DEF Person, AtRest, BranchInv, Typed, TypeOK
<1>4. Own(branch'.on) \subseteq Own(branch.on) /\ TestFixes(branch'.on) \subseteq TestFixes(branch.on)
  BY <1>1, <1>2 DEF Own, TestFixes
<1>5. row.entry # None \/ pc = "reset" => Rest(branch'.on) \subseteq Rest(branch.on)
  BY <1>1, <1>3 DEF Rest
<1>6. Placed'
  BY <1>1 DEF BranchInv, Placed
<1>7. Excluded'
  BY <1>1, <1>4 DEF BranchInv, Excluded
<1>8. Recorded'
  BY <1>1, <1>4, <1>5 DEF BranchInv, Recorded
<1>9. Adopted'
  BY <1>1, <1>5 DEF BranchInv, Adopted
<1>10. Guarded'
  BY <1>1, <1>4 DEF BranchInv, Guarded
<1>11. Touched'
  <2>1. SUFFICES ASSUME row.entry # None, bounds'.rewrites = 0
                 PROVE  /\ row.entry.on \subseteq branch'.on
                        /\ pc = "reset" => row.entry.on \subseteq mem.head.on
                        /\ pc = "discard" => "test" \in ChangedSince(row.entry)'
    BY <1>1 DEF Touched
  <2>2. branch.on \subseteq branch'.on /\ bounds' = bounds
    BY <1>1, <2>1
  <2>3. /\ row.entry.on \subseteq branch.on
        /\ pc = "reset" => row.entry.on \subseteq mem.head.on
        /\ pc = "discard" => "test" \in ChangedSince(row.entry)
    BY <2>1, <2>2 DEF BranchInv, Touched
  <2>4. ASSUME "test" \in ChangedSince(row.entry) PROVE "test" \in ChangedSince(row.entry)'
    <3>1. CASE "test" \in tree
      BY <1>1, <3>1 DEF ChangedSince
    <3>2. CASE "test" \notin tree
      <4>1. PICK c \in branch.on \ row.entry.on : "test" \in c.files
        BY <2>3, <2>4, <3>2 DEF ChangedSince
      <4>2. c \in branch'.on \ row'.entry.on
        BY <1>1, <2>2, <4>1
      <4>3. QED
        BY <4>1, <4>2 DEF ChangedSince
    <3>3. QED
      BY <3>1, <3>2
  <2>5. QED
    BY <2>2, <2>3, <2>4
<1>12. QED
  BY <1>6, <1>7, <1>8, <1>9, <1>10, <1>11

(***************************************************************************)
(* A fresh worktree.                                                       *)
(***************************************************************************)
LEMMA InitInv == Init => BranchInv
<1>1. SUFFICES ASSUME Init PROVE BranchInv
  OBVIOUS
<1>2. branch \in Shas
  BY <1>1, LimitsAssumption DEF Init, Shas
<1>3. row \in Rows /\ row.entry = None /\ row.state = "IMPLEMENTING"
  BY <1>1, <1>2 DEF Init, Rows, States, Active, AgentStates, CodeStates
<1>4. Typed
  <2>1. /\ tree = {} /\ made = 0 /\ mem = row /\ pc = "idle" /\ attempt = 0
        /\ reconciled = TRUE /\ entered = {}
        /\ bounds = [rewrites |-> 0, crashes |-> 0]
    BY <1>1 DEF Init
  <2>2. bounds \in [rewrites : 0..MaxRewrites, crashes : 0..MaxCrashes]
    BY <2>1, LimitsAssumption
  <2>3. made \in 0..MaxCommits /\ attempt \in 0..MaxAgentRetries
    BY <2>1, LimitsAssumption
  <2>4. TypeOK
    BY <1>2, <1>3, <2>1, <2>2, <2>3 DEF TypeOK
  <2>5. QED
    BY <2>1, <2>4 DEF Typed
<1>5. Same /\ Placed /\ Excluded /\ Recorded /\ Adopted /\ Guarded /\ Touched
  BY <1>1, <1>3 DEF Init, Same, Placed, Excluded, Recorded, Adopted, Guarded, Touched, Own
<1>6. QED
  BY <1>4, <1>5 DEF BranchInv

(***************************************************************************)
(* Every step keeps the invariant.                                         *)
(***************************************************************************)
LEMMA StepInv == BranchInv /\ [Next]_vars => BranchInv'
<1>1. SUFFICES ASSUME BranchInv, [Next]_vars PROVE BranchInv'
  OBVIOUS
<1>2. CASE UNCHANGED vars
  BY <1>1, <1>2 DEF vars, BranchInv, Typed, TypeOK, Same, Placed, Excluded, Recorded,
     Adopted, Guarded, Touched, ChangedSince
<1>3. CASE Next
  <2>1. Typed' /\ Same'
    BY <1>1, <1>3, TypedStep DEF BranchInv
  <2>2. Placed' /\ Excluded' /\ Recorded' /\ Adopted' /\ Guarded' /\ Touched'
    BY <1>1, <1>3, EnteringKeeps, MovingKeeps, BaselineKeeps, CommittingKeeps,
       EditingKeeps, ResettingKeeps, PeopleKeep
       DEF Next, Step, Tick, Outside, Entering, Moving
  <2>3. QED
    BY <2>1, <2>2 DEF BranchInv
<1>4. QED
  BY <1>1, <1>2, <1>3

(***************************************************************************)
(* The invariant holds throughout.                                         *)
(***************************************************************************)
THEOREM BranchInvHolds == Spec => []BranchInv
<1>1. QED
  BY InitInv, StepInv, PTL DEF Spec

-----------------------------------------------------------------------------
(* What follows. *)

(***************************************************************************)
(* The row, the copy and the branch have their types, and a baseline is    *)
(* recorded only while an agent state is under way.                        *)
(***************************************************************************)
THEOREM TypeCorrect == Spec => []TypeOK
<1>1. BranchInv => TypeOK
  BY DEF BranchInv, Typed
<1>2. QED
  BY <1>1, BranchInvHolds, PTL

(***************************************************************************)
(* No state's baseline holds work of that state, over any number of        *)
(* retries, checkpoints and restarts.                                      *)
(***************************************************************************)
THEOREM BaselineHolds == Spec => []BaselineExcludesOwnWork
<1>1. BranchInv => BaselineExcludesOwnWork
  BY DEF BranchInv, Excluded, BaselineExcludesOwnWork, Own
<1>2. QED
  BY <1>1, BranchInvHolds, PTL

(***************************************************************************)
(* From FIXING to BUILDING there is only Move, from where the guard has    *)
(* let the fix pass.                                                       *)
(***************************************************************************)
THEOREM FixLeavesTestsHolds == Spec => FixLeavesTests
<1> DEFINE Leaves ==
      (row.state = "FIXING" /\ row'.state = "BUILDING" /\ row.bug /\ ProtectTests)
        => \A c \in branch.on : (c.at = "fix" /\ "test" \in c.files) => c \in entered
<1>1. ASSUME BranchInv, [Next]_vars, row.state = "FIXING", row'.state = "BUILDING",
             row.bug, ProtectTests
      PROVE  \A c \in branch.on : (c.at = "fix" /\ "test" \in c.files) => c \in entered
  <2>1. Move
    <3>1. row' # row
      BY <1>1
    <3>2. ~Moving
      BY <1>1, MovingFacts DEF BranchInv
    <3>3. ~(Checkpoint \/ Commit \/ Preserve \/ Edit \/ ReviewerEdited \/ Reset \/ Discard \/ Rebase
            \/ PersonCommits \/ PersonRewrites)
      BY <3>1 DEF Checkpoint, Commit, Preserve, Edit, ReviewerEdited, Reset, Discard,
         Rebase, PersonCommits, PersonRewrites
    <3>4. ~Baseline
      <4>1. ASSUME Baseline PROVE FALSE
        <5>1. mem \in Rows /\ branch \in Shas /\ mem.state = row.state
          BY <1>1 DEF BranchInv, Typed, TypeOK, Same
        <5>2. row' = [mem EXCEPT !.head = branch, !.entry = branch]
          BY <3>1, <4>1 DEF Baseline
        <5>3. row'.state = mem.state
          BY <5>1, <5>2, RowFields
        <5>4. QED
          BY <1>1, <5>1, <5>3
      <4>2. QED
        BY <4>1
    <3>5. ~(PersonSends \/ BackoffElapsed)
      BY <1>1 DEF PersonSends, Resume, BackoffElapsed
    <3>6. ~(ReconcileFails \/ Suspended \/ Hold \/ TimeOut)
      <4>1. ASSUME NEW copy \in Rows, NEW next \in States, NEW bug \in BOOLEAN,
                   Enter(copy, next, bug), next # "BUILDING"
            PROVE  FALSE
        BY <1>1, <4>1, EnterFacts DEF BranchInv
      <4>2. /\ mem \in Rows /\ row \in Rows /\ mem.bug \in BOOLEAN /\ row.bug \in BOOLEAN
            /\ "HELD" \in States /\ "BLOCKED" \in States
        BY <1>1, RowFields DEF BranchInv, Typed, TypeOK, States
      <4>3. QED
        BY <4>1, <4>2 DEF ReconcileFails, Suspended, Hold, TimeOut
    <3>7. QED
      BY <1>1, <3>1, <3>2, <3>3, <3>4, <3>5, <3>6
         DEF Next, Step, Tick, Outside, Moving, vars
  <2>2. pc = "moving"
    BY <2>1 DEF Move
  <2>3. QED
    BY <1>1, <2>2 DEF BranchInv, Guarded, TestFixes
<1>2. BranchInv /\ [Next]_vars => [Leaves]_vars
  BY <1>1
<1>3. QED
  BY <1>2, BranchInvHolds, PTL DEF Spec, FixLeavesTests

(***************************************************************************)
(* Commits leave the branch in the resets alone, and by people's hands.    *)
(***************************************************************************)
LEMMA GoneBy ==
  ASSUME BranchInv, [Next]_vars, NEW c \in Gone
  PROVE  \/ bounds'.rewrites # bounds.rewrites
         \/ Reset /\ pc = "reset" /\ c \notin mem.head.on
         \/ Discard /\ pc = "discard" /\ row.entry # None /\ c \notin row.entry.on
<1>1. c \in branch.on /\ c \notin branch'.on
  BY DEF Gone
<1>2. CASE UNCHANGED vars
  BY <1>1, <1>2 DEF vars
<1>3. CASE Entering
  BY <1>1, <1>3, EnteringFacts DEF BranchInv
<1>4. CASE Moving
  BY <1>1, <1>4, MovingFacts DEF BranchInv
<1>5. CASE Baseline \/ Edit \/ ReviewerEdited
  BY <1>1, <1>5 DEF Baseline, Edit, ReviewerEdited, Git
<1>6. CASE Checkpoint \/ Commit \/ Preserve
  <2>1. CommitAll(Author) /\ Typed
    BY <1>6 DEF Checkpoint, Commit, Preserve, BranchInv
  <2>2. QED
    BY <1>1, <2>1, AuthorType, CommitAllFacts
<1>7. CASE Reset
  BY <1>1, <1>7 DEF Reset
<1>8. CASE Discard
  BY <1>1, <1>8 DEF Discard, BranchInv, Same, Placed
<1>9. CASE Rebase
  <2>1. branch \in Shas
    BY DEF BranchInv, Typed, TypeOK
  <2>2. PICK others \in branch.base..MaxBase : branch' = [branch EXCEPT !.base = others]
    BY <1>9 DEF Rebase
  <2>3. others \in 0..MaxBase
    BY <2>1, ShaFields, LimitsAssumption
  <2>4. QED
    BY <1>1, <2>1, <2>2, <2>3, ShaFields
<1>10. CASE PersonCommits \/ PersonRewrites
  BY <1>1, <1>10, PersonFacts DEF BranchInv
<1>11. QED
  BY <1>2, <1>3, <1>4, <1>5, <1>6, <1>7, <1>8, <1>9, <1>10
     DEF Next, Step, Tick, Outside, Entering, Moving

(***************************************************************************)
(* The engine never takes off the branch what a person has committed while *)
(* the job was at rest.                                                    *)
(***************************************************************************)
THEOREM HumanWorkKeptHolds == Spec => HumanWorkKept
<1> DEFINE Kept == \A c \in Gone : c.at = "rest" => bounds'.rewrites # bounds.rewrites
<1>1. ASSUME BranchInv, [Next]_vars, NEW c \in Gone, c.at = "rest"
      PROVE  bounds'.rewrites # bounds.rewrites
  <2>1. c \in Rest(branch.on)
    BY <1>1 DEF Gone, Rest
  <2>2. ~(pc = "reset" /\ c \notin mem.head.on)
    BY <1>1, <2>1 DEF BranchInv, Recorded
  <2>3. ~(row.entry # None /\ c \notin row.entry.on)
    BY <1>1, <2>1 DEF BranchInv, Adopted
  <2>4. QED
    BY <1>1, <2>2, <2>3, GoneBy
<1>2. BranchInv /\ [Next]_vars => [Kept]_vars
  BY <1>1
<1>3. QED
  BY <1>2, BranchInvHolds, PTL DEF Spec, HumanWorkKept

(***************************************************************************)
(* The engine takes a checkpoint off the branch only where the guard has   *)
(* found a test file among what the state has changed.                     *)
(***************************************************************************)
THEOREM CheckpointsKeptHolds == Spec => CheckpointsKept
<1> DEFINE Kept ==
      \A c \in Gone : c.at \in {"agent", "fix"} =>
        \/ bounds'.rewrites # bounds.rewrites
        \/ /\ row.state = "FIXING" /\ row.bug /\ row.entry # None
           /\ c \notin row.entry.on
           /\ "test" \in ChangedSince(row.entry) \/ bounds.rewrites > 0
<1>1. ASSUME BranchInv, [Next]_vars, NEW c \in Gone, c.at \in {"agent", "fix"},
             bounds'.rewrites = bounds.rewrites
      PROVE  /\ row.state = "FIXING" /\ row.bug /\ row.entry # None
             /\ c \notin row.entry.on
             /\ "test" \in ChangedSince(row.entry) \/ bounds.rewrites > 0
  <2>1. c \in Own(branch.on)
    BY <1>1 DEF Gone, Own
  <2>2. ~(pc = "reset" /\ c \notin mem.head.on)
    BY <1>1, <2>1 DEF BranchInv, Recorded
  <2>3. pc = "discard" /\ row.entry # None /\ c \notin row.entry.on
    BY <1>1, <2>2, GoneBy
  <2>4. row.state = "FIXING" /\ row.bug
    BY <1>1, <2>3 DEF BranchInv, Placed
  <2>5. bounds.rewrites \in 0..MaxRewrites
    BY <1>1 DEF BranchInv, Typed, TypeOK
  <2>6. bounds.rewrites = 0 => "test" \in ChangedSince(row.entry)
    BY <1>1, <2>3 DEF BranchInv, Touched
  <2>7. QED
    BY <2>3, <2>4, <2>5, <2>6, LimitsAssumption
<1>2. BranchInv /\ [Next]_vars => [Kept]_vars
  BY <1>1
<1>3. QED
  BY <1>2, BranchInvHolds, PTL DEF Spec, CheckpointsKept
=============================================================================
