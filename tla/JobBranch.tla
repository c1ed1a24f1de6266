------------------------------ MODULE JobBranch ------------------------------
(***************************************************************************)
(* The branch of one job, its worktree, and what the job's row records of  *)
(* them: internal/engine/jobctx.go (baselines, commits, reconciliation),   *)
(* progress.go (the checkpoints), the git parts of engine.go and           *)
(* handlers.go, and the calls of internal/gitx they are made of.           *)
(*                                                                         *)
(* A sha names its whole history, so a head is the set of commits under it *)
(* (of the job; `base' counts the moves of the default branch under them). *)
(* Commits are numbered in the order they are made.  The agent edits the   *)
(* worktree, the watcher commits what it reports, and people commit on the *)
(* branch, each at any moment; the engine may die between any two calls.   *)
(*                                                                         *)
(* REVIEW stands for the states whose agent must leave the tree alone,     *)
(* BUILDING for those that only run commands, AWAIT for the gates; which   *)
(* of them follows which is Pipeline's.                                    *)
(***************************************************************************)
EXTENDS Naturals, FiniteSets

CONSTANTS
  None,                   \* no sha
  ProtectTests,           \* policies.protect_tests_on_code_bug_fix
  ReviewerDiffMustBeEmpty, \* policies.reviewer_diff_must_be_empty
  RebaseBeforeMerge,      \* the targets' merge.rebase_before_merge, a set
  PeopleSend,             \* bound: whether people send the job on
  MaxAgentRetries,        \* limits.max_agent_retries
  MaxCommits,             \* bound: commits of agents and people
  MaxBase,                \* bound: moves of the default branch
  MaxHuman,               \* bound: commits of people
  MaxRewrites,            \* bound: rewrites of the history by people
  MaxCrashes              \* bound: deaths of the engine

ASSUME SwitchesAssumption ==
  /\ ProtectTests \in BOOLEAN /\ ReviewerDiffMustBeEmpty \in BOOLEAN
  /\ RebaseBeforeMerge \subseteq BOOLEAN /\ PeopleSend \in BOOLEAN
ASSUME LimitsAssumption ==
  /\ MaxAgentRetries \in Nat /\ MaxCommits \in Nat /\ MaxBase \in Nat
  /\ MaxHuman \in Nat /\ MaxRewrites \in Nat /\ MaxCrashes \in Nat

Files == {"code", "test"}

\* at: whose edits they are, and for a person's, whether the job was at rest.
Commits == [n : 1..MaxCommits, files : SUBSET Files,
            at : {"agent", "fix", "rest", "busy"}]

Shas == [base : 0..MaxBase, on : SUBSET Commits]

ASSUME NoneAssumption == None \notin Shas

VARIABLES
  branch,     \* the job's branch, checked out in its worktree
  tree,       \* files with uncommitted edits
  made,       \* commits numbered so far
  row,        \* the job's row
  mem,        \* the copy the running step works on
  pc,         \* the step: off and idle are the engine without one
  attempt,    \* runAgent: failed attempts
  reconciled, \* e.reconciled[job]
  entered,    \* history: the branch when the state was entered (or, if it
              \* failed before it began, when what lay there was committed)
  bounds      \* history: rewrites and crashes

vars == <<branch, tree, made, row, mem, pc, attempt, reconciled, entered, bounds>>

Git == <<branch, tree, made>>
History == <<entered, bounds>>

CodeStates  == {"IMPLEMENTING", "FIXING"}
AgentStates == CodeStates \cup {"REVIEW"}
Active      == AgentStates \cup {"BUILDING", "MERGING"}
States      == Active \cup {"AWAIT", "HELD", "BLOCKED", "DONE"}

\* prev: the state a suspension has interrupted; bug: the classification FIXING
\* works under is code_bug.
Rows == [state : States, prev : States, head : Shas, entry : Shas \cup {None},
         bug : BOOLEAN]

\* pc's at which UpdateJob is next, and what follows it.
After == [checkpointed |-> "agent", committed |-> "moving", preserved |-> "holding",
          discarded |-> "preserve", rebased |-> "merge"]

\* Types; a baseline is recorded only while an agent state is under way.
TypeOK ==
  /\ branch \in Shas
  /\ tree \subseteq Files
  /\ made \in 0..MaxCommits
  /\ row \in Rows /\ mem \in Rows
  /\ pc \in {"off", "idle", "reconcile", "reset", "sync", "handle", "agent", "guard",
             "commit", "moving", "discard", "preserve", "holding", "merge"}
            \cup DOMAIN After
  /\ attempt \in 0..MaxAgentRetries
  /\ reconciled \in BOOLEAN
  /\ entered \in SUBSET Commits
  /\ bounds \in [rewrites : 0..MaxRewrites, crashes : 0..MaxCrashes]
  /\ row.entry # None => row.state \in AgentStates

\* CREATED has provisioned the worktree.
Init ==
  /\ branch = [base |-> 0, on |-> {}]
  /\ tree = {} /\ made = 0
  /\ row = [state |-> "IMPLEMENTING", prev |-> "IMPLEMENTING", head |-> branch,
            entry |-> None, bug |-> FALSE]
  /\ mem = row
  /\ pc = "idle" /\ attempt = 0 /\ reconciled = TRUE
  /\ entered = {}
  /\ bounds = [rewrites |-> 0, crashes |-> 0]

Goto(next) == pc' = next

\* `git merge-base --is-ancestor'.
IsAncestor(a, b) ==
  /\ a.on \subseteq b.on
  /\ \A c \in a.on, d \in b.on \ a.on : c.n < d.n
  /\ IF a.on = {} THEN a.base <= b.base ELSE a.base = b.base

\* A commit of everything in the tree, if there is anything (CommitAll).
CommitAll(at) ==
  /\ branch' = IF tree = {} THEN branch
               ELSE [branch EXCEPT !.on = @ \cup {[n |-> made + 1, files |-> tree, at |-> at]}]
  /\ made' = IF tree = {} THEN made ELSE made + 1
  /\ tree' = {}
  /\ mem' = [mem EXCEPT !.head = branch']

Author == IF mem.state = "FIXING" /\ mem.bug THEN "fix" ELSE "agent"

\* DiffNamesSince: files that differ between a sha and the worktree.
ChangedSince(sha) ==
  tree \cup UNION {c.files : c \in (branch.on \ sha.on) \cup (sha.on \ branch.on)}

\* transition, from the step's copy.
Enter(copy, next, bug) ==
  /\ row' = [copy EXCEPT !.state = next, !.entry = None, !.bug = bug,
                         !.prev = IF next = "BLOCKED" THEN copy.state ELSE next]
  /\ mem' = row'
  /\ entered' = branch.on

-----------------------------------------------------------------------------
(* step, before the handler. *)

Dispatch ==
  /\ pc = "idle" /\ row.state \in Active
  /\ mem' = row
  /\ Goto(IF reconciled THEN "sync" ELSE "reconcile")
  /\ reconciled' = TRUE
  /\ UNCHANGED <<Git, row, attempt, History>>

Diverged ==
  ~IsAncestor(mem.head, branch) /\ ~IsAncestor(branch, mem.head)

\* Mutant of Reconcile.
ReconcileBlindly ==
  /\ pc = "reconcile" /\ ~Diverged
  /\ Goto("reset")
  /\ UNCHANGED <<Git, row, mem, attempt, reconciled, History>>

\* Mutant of Reconcile.
ReconcileToEntry ==
  /\ pc = "reconcile" /\ ~Diverged
  /\ mem' = [mem EXCEPT !.head = IF mem.entry = None THEN branch ELSE mem.entry]
  /\ row' = mem'
  /\ Goto("reset")
  /\ UNCHANGED <<Git, attempt, reconciled, History>>

\* Ahead of the record, equal or behind: the branch is right.
Reconcile ==
  /\ pc = "reconcile" /\ ~Diverged
  /\ mem' = [mem EXCEPT !.head = branch]
  /\ row' = mem'
  /\ Goto(IF tree = {} THEN "sync" ELSE "reset")
  /\ UNCHANGED <<Git, attempt, reconciled, History>>

\* No safe automatic answer: the job is held, the tree as it is.
ReconcileFails ==
  /\ pc = "reconcile" /\ Diverged
  /\ Enter(mem, "HELD", mem.bug)
  /\ Goto("idle")
  /\ UNCHANGED <<Git, attempt, reconciled, bounds>>

\* ResetHardClean, to the sha that was read.
Reset ==
  /\ pc = "reset"
  /\ branch' = mem.head
  /\ tree' = {}
  /\ Goto("sync")
  /\ UNCHANGED <<made, row, mem, attempt, reconciled, History>>

\* syncHead: whatever the branch is now becomes the record.
Sync ==
  /\ pc = "sync"
  /\ mem' = [mem EXCEPT !.head = branch]
  /\ row' = IF branch = mem.head THEN row ELSE mem'
  /\ Goto("handle")
  /\ UNCHANGED <<Git, attempt, reconciled, History>>

\* Mutant of Baseline.
BaselineEachRun ==
  /\ pc = "handle" /\ mem.state \in AgentStates
  /\ mem' = [mem EXCEPT !.head = branch, !.entry = branch]
  /\ row' = mem'
  /\ attempt' = 0
  /\ Goto("agent")
  /\ UNCHANGED <<Git, reconciled, History>>

\* stateBaseline: once for the life of the state.
Baseline ==
  /\ pc = "handle" /\ mem.state \in AgentStates
  /\ IF mem.entry = None
       THEN /\ mem' = [mem EXCEPT !.head = branch, !.entry = branch]
            /\ row' = mem'
       ELSE UNCHANGED <<mem, row>>
  /\ attempt' = 0
  /\ Goto("agent")
  /\ UNCHANGED <<Git, reconciled, History>>

-----------------------------------------------------------------------------
(* runAgent and the watcher. *)

\* Bound: what is in the tree can still be committed.
Room == made + (IF tree = {} THEN 0 ELSE 1) < MaxCommits

\* The agent edits a file, a reviewer against its orders.  Only of a fix is it asked
\* whether it edited tests.
Edit ==
  /\ pc \in {"agent", "checkpointed"}
  /\ \E f \in Files \ tree :
       /\ made + 1 <= MaxCommits
       /\ mem.state # "FIXING" => f = "code"
       /\ tree' = tree \cup {f}
  /\ UNCHANGED <<branch, made, row, mem, pc, attempt, reconciled, History>>

\* The agent has reported a plan step.
Checkpoint ==
  /\ pc = "agent" /\ mem.state \in CodeStates /\ tree # {}
  /\ CommitAll(Author)
  /\ Goto("checkpointed")
  /\ UNCHANGED <<row, attempt, reconciled, History>>

\* UpdateJob.
Record ==
  /\ pc \in DOMAIN After
  /\ row' = mem
  /\ Goto(After[pc])
  /\ UNCHANGED <<Git, mem, attempt, reconciled, History>>

\* The attempt failed: run again over what is there, or give up.
Retry ==
  /\ IF attempt < MaxAgentRetries
       THEN attempt' = attempt + 1 /\ UNCHANGED pc
       ELSE attempt' = 0 /\ Goto("preserve")

\* A time-out, a model mismatch, a missing or wrong output file.
AgentFails ==
  /\ pc = "agent"
  /\ Retry
  /\ UNCHANGED <<Git, row, mem, reconciled, History>>

\* requireCleanTree: the reviewer's edits are discarded, the attempt has failed.
ReviewerEdited ==
  /\ pc = "agent" /\ mem.state = "REVIEW"
  /\ ReviewerDiffMustBeEmpty /\ tree # {}
  /\ tree' = {}
  /\ Retry
  /\ UNCHANGED <<branch, made, row, mem, reconciled, History>>

\* A quota hit or an unreachable backend: the tree is left as it is.
Suspended ==
  /\ pc = "agent"
  /\ Enter(mem, "BLOCKED", mem.bug)
  /\ attempt' = 0
  /\ Goto("idle")
  /\ UNCHANGED <<Git, reconciled, bounds>>

AgentDone ==
  /\ pc = "agent"
  /\ attempt' = 0
  /\ CASE mem.state = "REVIEW" -> (ReviewerDiffMustBeEmpty => tree = {}) /\ Goto("moving")
       [] mem.state = "IMPLEMENTING" -> ChangedSince(mem.entry) # {} /\ Goto("commit")
       [] mem.state = "FIXING" -> Goto("guard")
  /\ UNCHANGED <<Git, row, mem, reconciled, History>>

-----------------------------------------------------------------------------
(* After the agent. *)

\* Mutant of TouchesTests.
TouchesTestsUncommitted == ProtectTests /\ mem.bug /\ "test" \in tree

\* CheckFixDiff.
TouchesTests == ProtectTests /\ mem.bug /\ "test" \in ChangedSince(mem.entry)

\* FIXING: a requested test change, no change at all, or the test-file guard.
Guard ==
  /\ pc = "guard"
  /\ \/ Goto("preserve")
     \/ ChangedSince(mem.entry) # {} /\ Goto(IF TouchesTests THEN "discard" ELSE "commit")
  /\ UNCHANGED <<Git, row, mem, attempt, reconciled, History>>

\* The guard rolls the branch back to the baseline ...
Discard ==
  /\ pc = "discard"
  /\ branch' = mem.entry
  /\ tree' = {}
  /\ mem' = [mem EXCEPT !.head = mem.entry]
  /\ Goto("discarded")
  /\ UNCHANGED <<made, row, attempt, reconciled, History>>

\* commit: what the checkpoints did not cover.
Commit ==
  /\ pc = "commit"
  /\ CommitAll(Author)
  /\ Goto("committed")
  /\ UNCHANGED <<row, attempt, reconciled, History>>

\* A phase has passed.
PhasePasses ==
  /\ pc = "handle" /\ mem.state = "BUILDING"
  /\ Goto("moving")
  /\ UNCHANGED <<Git, row, mem, attempt, reconciled, History>>

\* Any error of a handler: a phase that cannot run, a git call, a full budget.
HandlerFails ==
  /\ \/ pc \in {"handle", "commit", "merge"}
     \/ pc = "moving" /\ mem.state = "REVIEW"
  /\ Goto("preserve")
  /\ UNCHANGED <<Git, row, mem, attempt, reconciled, History>>

\* Where the handlers lead to, and whether FIXING is then for a code_bug.
Successors ==
  CASE mem.state = "IMPLEMENTING" -> {<<"REVIEW", FALSE>>}
    [] mem.state = "REVIEW" -> {<<"BUILDING", FALSE>>, <<"AWAIT", FALSE>>,
                                <<"FIXING", FALSE>>, <<"FIXING", TRUE>>}
    [] mem.state = "FIXING" -> {<<"BUILDING", FALSE>>}
    [] mem.state = "BUILDING" -> {<<"REVIEW", FALSE>>}
    [] OTHER -> {<<"DONE", FALSE>>}

Move ==
  /\ pc = "moving"
  /\ \E s \in Successors : Enter(mem, s[1], s[2])
  /\ Goto("idle")
  /\ UNCHANGED <<Git, attempt, reconciled, bounds>>

\* preserveWork: what a failing state left is committed (and if the state had not
\* begun, it is none of its work) ...
Preserve ==
  /\ pc = "preserve"
  /\ CommitAll(Author)
  /\ Goto(IF tree = {} THEN "holding" ELSE "preserved")
  /\ entered' = IF mem.entry = None THEN branch'.on ELSE entered
  /\ UNCHANGED <<row, attempt, reconciled, bounds>>

\* ... unless git fails, or Ctrl-C has cancelled its context.
PreserveFails ==
  /\ pc = "preserve"
  /\ Goto("holding")
  /\ UNCHANGED <<Git, row, mem, attempt, reconciled, History>>

Hold ==
  /\ pc = "holding"
  /\ Enter(mem, "HELD", mem.bug)
  /\ Goto("idle")
  /\ UNCHANGED <<Git, attempt, reconciled, bounds>>

-----------------------------------------------------------------------------
(* MERGING. *)

\* If the default branch has moved, every commit of the branch has a new sha.
Rebase ==
  /\ pc = "handle" /\ mem.state = "MERGING" /\ TRUE \in RebaseBeforeMerge
  /\ tree = {}
  /\ \E others \in branch.base..MaxBase : branch' = [branch EXCEPT !.base = others]
  /\ mem' = [mem EXCEPT !.head = branch']
  /\ Goto("rebased")
  /\ UNCHANGED <<tree, made, row, attempt, reconciled, History>>

NoRebase ==
  /\ pc = "handle" /\ mem.state = "MERGING" /\ FALSE \in RebaseBeforeMerge
  /\ Goto("merge")
  /\ UNCHANGED <<Git, row, mem, attempt, reconciled, History>>

\* The merge; a push that fails after it holds the job.
Merge ==
  /\ pc = "merge"
  /\ Goto("moving")
  /\ UNCHANGED <<Git, row, mem, attempt, reconciled, History>>

-----------------------------------------------------------------------------
(* Between steps. *)

Resume(to) == row.state \in {"HELD", "BLOCKED"} /\ to \in Active

\* A gate's decision, or a resume; a note lifts the classification.
PersonSends ==
  /\ PeopleSend /\ pc = "idle"
  /\ \E to \in Active, bug \in {row.bug, FALSE} :
       /\ \/ row.state = "AWAIT" /\ to \in {"FIXING", "MERGING", "BUILDING"} /\ ~bug
          \/ Resume(to)
       /\ Enter(row, to, bug)
  /\ UNCHANGED <<Git, pc, attempt, reconciled, bounds>>

BackoffElapsed ==
  /\ pc = "idle" /\ row.state = "BLOCKED"
  /\ Enter(row, row.prev, row.bug)
  /\ UNCHANGED <<Git, pc, attempt, reconciled, bounds>>

\* The age limit.
TimeOut ==
  /\ pc = "idle" /\ row.state \notin {"HELD", "DONE"}
  /\ Enter(row, "HELD", row.bug)
  /\ UNCHANGED <<Git, pc, attempt, reconciled, bounds>>

-----------------------------------------------------------------------------
(* People at the branch, other branches, crashes. *)

\* The engine is at no work of the job, and no agent has been interrupted.
AtRest == pc \in {"off", "idle"} /\ row.state \notin AgentStates

Person == IF AtRest THEN "rest" ELSE "busy"

Human == {c \in branch.on : c.at \in {"rest", "busy"}}

PersonCommits ==
  /\ row.state # "DONE" /\ Room
  /\ Cardinality(Human) < MaxHuman
  /\ \E f \in Files :
       branch' = [branch EXCEPT !.on = @ \cup
                                                {[n |-> made + 1, files |-> {f}, at |-> Person]}]
  /\ made' = made + 1
  /\ UNCHANGED <<tree, row, mem, pc, attempt, reconciled, History>>

Last == {c \in branch.on : \A d \in branch.on : d.n <= c.n}

\* `git reset' or `--amend' of the last commit, while no step is under way (bound).
PersonRewrites ==
  /\ pc \in {"off", "idle"}
  /\ row.state # "DONE" /\ bounds.rewrites < MaxRewrites /\ branch.on # {}
  /\ \/ /\ branch' = [branch EXCEPT !.on = @ \ Last]
        /\ UNCHANGED made
     \/ /\ Room
        /\ \E c \in Last :
             branch' = [branch EXCEPT !.on =
               (@ \ Last) \cup {[n |-> made + 1, files |-> c.files, at |-> Person]}]
        /\ made' = made + 1
  /\ bounds' = [bounds EXCEPT !.rewrites = @ + 1]
  /\ UNCHANGED <<tree, row, mem, pc, attempt, reconciled, entered>>

\* The engine dies, and with it its agent.
Crash ==
  /\ pc # "off" /\ bounds.crashes < MaxCrashes
  /\ bounds' = [bounds EXCEPT !.crashes = @ + 1]
  /\ mem' = row
  /\ attempt' = 0
  /\ Goto("off")
  /\ UNCHANGED <<Git, row, reconciled, entered>>

Start ==
  /\ pc = "off"
  /\ reconciled' = FALSE
  /\ Goto("idle")
  /\ UNCHANGED <<Git, row, mem, attempt, History>>

-----------------------------------------------------------------------------
Step ==
  \/ Dispatch \/ Reconcile \/ ReconcileFails \/ Reset \/ Sync \/ Baseline
  \/ Edit \/ Checkpoint \/ Record \/ AgentFails \/ ReviewerEdited \/ Suspended
  \/ AgentDone \/ Guard \/ Discard \/ Commit \/ PhasePasses \/ HandlerFails
  \/ Move \/ Preserve \/ PreserveFails \/ Hold \/ Rebase \/ NoRebase \/ Merge

Tick == PersonSends \/ BackoffElapsed \/ TimeOut

\* The job is merged, and this module is done with it.
Finished == row.state = "DONE" /\ pc = "idle" /\ UNCHANGED vars

Outside == PersonCommits \/ PersonRewrites \/ Crash \/ Start

Next == Step \/ Tick \/ Outside \/ Finished

Spec == Init /\ [][Next]_vars

-----------------------------------------------------------------------------
(* Properties. *)

(***************************************************************************)
(* The baseline of a state never holds that state's own work, over         *)
(* retries, checkpoints and restarts (jobctx.go, stateBaseline): what the  *)
(* state has done would look like it never happened, and the guard would   *)
(* not look at it.                                                         *)
(***************************************************************************)
BaselineExcludesOwnWork ==
  row.entry # None =>
    \A c \in row.entry.on : c.at \in {"agent", "fix"} => c \in entered

(***************************************************************************)
(* No fix of a code_bug leaves FIXING with a test file it has touched since *)
(* the state was entered, whatever was checkpointed, retried or restarted  *)
(* in between.                                                             *)
(***************************************************************************)
FixLeavesTests ==
  [][(row.state = "FIXING" /\ row'.state = "BUILDING" /\ row.bug /\ ProtectTests)
     => \A c \in branch.on : (c.at = "fix" /\ "test" \in c.files) => c \in entered]_vars

Gone == branch.on \ branch'.on

(***************************************************************************)
(* What a person committed while the job was at rest (at a gate, held,     *)
(* suspended, or waiting for a slot) is never taken off the branch but by  *)
(* a person: the loss of JOB-1 (jobctx.go, reconcile and stateBaseline).   *)
(***************************************************************************)
HumanWorkKept ==
  [][\A c \in Gone : c.at = "rest" => bounds'.rewrites # bounds.rewrites]_vars

(***************************************************************************)
(* A checkpoint is lost only to the test-file guard, over a test file:     *)
(* no restart, retry or failure takes back a step the agent has finished.  *)
(* (A person may have taken the test file back after the guard looked.)    *)
(***************************************************************************)
CheckpointsKept ==
  [][\A c \in Gone : c.at \in {"agent", "fix"} =>
       \/ bounds'.rewrites # bounds.rewrites
       \/ /\ row.state = "FIXING" /\ row.bug /\ row.entry # None
          /\ c \notin row.entry.on
          /\ "test" \in ChangedSince(row.entry) \/ bounds.rewrites > 0]_vars

(***************************************************************************)
(* What SPEC.md 13 says of the test-file policy (line 1034): "the FIXING   *)
(* diff is mechanically checked ...; any touched test file => commit       *)
(* rejected".  So where no person sends the job on, no test file that a    *)
(* code_bug fix touched goes on to be built.                               *)
(***************************************************************************)
TestsProtected ==
  [][(row.state = "FIXING" /\ row'.state = "BUILDING" /\ row.bug /\ ProtectTests)
     => \A c \in branch.on : c.at = "fix" => "test" \notin c.files]_vars
=============================================================================
