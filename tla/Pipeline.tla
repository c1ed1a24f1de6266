------------------------------- MODULE Pipeline -------------------------------
(***************************************************************************)
(* The state machine of one job: internal/engine (engine.go, handlers.go,  *)
(* states.go, runAgent of jobctx.go, the verify pass of verify.go).        *)
(*                                                                         *)
(* The engine's tick looks at a job only while no step of it is in flight; *)
(* a step is one handler, and the job row is written at every transition,  *)
(* after every agent invocation and at every reservation of a verifier     *)
(* fan-out.  Each of those writes ends an action here, so that a crash can *)
(* fall between any two of them.  The row is what survives; `run' is what  *)
(* an in-flight step holds in memory and a crash loses.                    *)
(*                                                                         *)
(* The job's branch is abstracted to what has happened to its code since   *)
(* the agents that are to edit it (IMPLEMENTING, FIXING) last started: the *)
(* gates it has passed (`level'), and what else has been committed since   *)
(* it was built (`moved'): commits of people, which every step adopts as   *)
(* it starts, what a failing step has left in the tree, and the rebase.    *)
(* What lies in the tree uncommitted is JobBranch's.                       *)
(***************************************************************************)
EXTENDS Naturals

CONSTANTS
  ScopingEnabled,      \* policies.scoping
  HumanGates,          \* policies.human_gates, the optional ones
  OnNoDevice,          \* ui_test.on_no_device, or "off": UI tests disabled
  RebaseBeforeMerge,   \* merge.rebase_before_merge
  MaxScopeRounds, MaxDesignReviewRounds, MaxCodeReviewRounds,
  MaxFixAttempts, MaxFlakeRetries, MaxReleaseRetries,
  MaxAgentRetries, MaxAgentInvocations,
  VerifyVotes,         \* limits.verify_votes; 0 switches the verify pass off
  MaxFindings,         \* bound: gating findings of one review
  CanExpire,           \* may the job outlive limits.max_job_duration?
  MaxResumes, MaxRejects, MaxCrashes  \* bounds: human and crash actions

ASSUME SwitchesAssumption ==
  /\ ScopingEnabled \in BOOLEAN /\ RebaseBeforeMerge \in BOOLEAN
  /\ CanExpire \in BOOLEAN
  /\ HumanGates \subseteq {"scope", "spec", "code"}
  /\ OnNoDevice \in {"off", "skip", "fail", "wait"}
ASSUME LimitsAssumption ==
  /\ MaxScopeRounds \in Nat \ {0}
  /\ MaxDesignReviewRounds \in Nat
  /\ MaxCodeReviewRounds \in Nat
  /\ MaxFixAttempts \in Nat
  /\ MaxFlakeRetries \in Nat
  /\ MaxReleaseRetries \in Nat
  /\ MaxAgentRetries \in Nat
  /\ MaxAgentInvocations \in Nat
  /\ VerifyVotes \in Nat
ASSUME BoundsAssumption ==
  /\ MaxFindings \in Nat \ {0}
  /\ MaxResumes \in Nat /\ MaxRejects \in Nat /\ MaxCrashes \in Nat

VARIABLES
  \* The job row.
  state,        \* state
  prev,         \* prev_state, the target of a bare resume
  wait,         \* resume_after is set
  cnt,          \* the counters that budgets are charged to
  fixSource,    \* counters.fix_source
  failedPhase,  \* counters.failed_phase
  \* The step in flight.
  run,
  \* The surroundings.
  expired,      \* the job is older than limits.max_job_duration
  stopping,     \* Ctrl-C: the context is cancelled, the engine is about to leave
  level,        \* history: the gates passed since IMPLEMENTING or FIXING began
  moved,        \* history: what else has changed the code since it was built
  spent         \* history: what people, crashes and the ship command did

row == <<wait, cnt, fixSource, failedPhase>>
branch == <<level, moved>>
env == <<expired, stopping, spent>>
vars == <<state, prev, row, run, branch, env>>

-----------------------------------------------------------------------------
(* States (states.go). *)

Reviewing     == {"DESIGN_REVIEW", "CODE_REVIEW", "FINAL_REVIEW"}
ProducesCode  == {"IMPLEMENTING", "FIXING"}
AgentStates   == Reviewing \cup ProducesCode
                   \cup {"SCOPING", "PLANNING", "ANALYZING"}
Resumable     == AgentStates
                   \cup {"BUILDING", "TESTING", "FLAKE_CHECK", "MERGING", "RELEASING"}
Parked        == {"AWAITING_SCOPE_APPROVAL", "AWAITING_SPEC_APPROVAL",
                  "AWAITING_CODE_APPROVAL", "AWAITING_MERGE_APPROVAL",
                  "AWAITING_RELEASE_APPROVAL"}
Suspended     == {"BLOCKED_ON_QUOTA", "BLOCKED_ON_NETWORK"}
Held          == {"ESCALATED", "TIMED_OUT"}
Terminal      == {"COMPLETED", "CANCELLED"}  \* nothing ever assigns FAILED
Runnable      == {"CREATED"} \cup Resumable
States        == Runnable \cup Parked \cup Suspended \cup Held \cup Terminal

(***************************************************************************)
(* The rungs of `level', and the rung a state relies on when it runs.      *)
(***************************************************************************)
Built     == 1
Tested    == 2
Reviewed  == 3
Approved  == 4
Merged    == 5
ReleaseOK == 6

Levels == 0..ReleaseOK

Required(s) ==
  CASE s \in {"TESTING", "FLAKE_CHECK"}    -> Built
    [] s = "FINAL_REVIEW"                  -> Tested
    [] s = "AWAITING_MERGE_APPROVAL"       -> Reviewed
    [] s = "MERGING"                       -> Approved
    [] s \in {"AWAITING_RELEASE_APPROVAL", "COMPLETED"} -> Merged
    [] s = "RELEASING"                     -> ReleaseOK
    [] OTHER                               -> 0
-----------------------------------------------------------------------------
(* The step in flight. *)

\* What a step holds in memory: where it is, the attempt of its agent, the
\* gating findings still to be verified, and whether one was left gating.
Idle == [pc |-> "idle", attempt |-> 0, gating |-> 0, blocking |-> FALSE]

Step(pc) == [Idle EXCEPT !.pc = pc]

InFlight == run.pc # "idle"

\* The tick may act on the job; after Ctrl-C too, when it is in the middle of
\* a round or Run's select takes the ticker before the context.
Between == ~InFlight

\* transition(): the row moves on and the step ends.
Move(next) ==
  /\ prev' = state
  /\ state' = next
  /\ run' = Idle

\* Code that has passed no gate has nothing to lose.
Changed(by) == moved' \in {moved} \cup IF level = 0 THEN {} ELSE {by}

\* A step that fails commits what it has left in the tree (preserveWork) before
\* the job is held.
Escalate ==
  /\ Move("ESCALATED")
  /\ Changed("leftover")

\* The row stays where it is; a later tick dispatches the state again.
Stay ==
  /\ run' = Idle
  /\ UNCHANGED <<state, prev>>

Charge(c, n) == [cnt EXCEPT ![c] = @ + n]

Affordable(n) == cnt.inv + n <= MaxAgentInvocations

Handling(s) == state = s /\ run.pc = "handler"

CounterNames == {"inv", "scope", "design", "code", "fix", "flake", "rel"}

Counters == [CounterNames -> Nat]

Steps == [pc : {"idle", "agent", "verify", "handler", "committed", "rebased",
                "shipped", "retarget"},
          attempt : Nat, gating : Nat, blocking : BOOLEAN]

Histories == [resumes : Nat, rejects : Nat, crashes : Nat, ships : Nat,
              steered : BOOLEAN]

\* Where each step of a handler may find the row.
Whereabouts ==
  /\ state \in Suspended => prev \in AgentStates
  /\ run.pc = "agent" => state \in AgentStates
  /\ run.pc = "verify" => state \in Reviewing /\ run.gating > 0
  /\ run.pc = "handler" => state \in Runnable
  /\ run.pc = "committed" => state = "FIXING"
  /\ run.pc = "rebased" => state = "MERGING"
  /\ run.pc = "shipped" => state = "RELEASING"
  /\ run.pc = "retarget" => state = "ESCALATED" /\ prev = "AWAITING_SCOPE_APPROVAL"

\* Types, and what the engine's own code takes for granted of a row: a
\* suspended one has a delay to wait out and an agent state to come back to.
TypeOK ==
  /\ state \in States
  /\ prev \in States \cup {""}
  /\ wait \in BOOLEAN
  /\ state \in Suspended => wait
  /\ cnt \in Counters
  /\ fixSource \in {"", "analysis", "code_review", "final_review", "human"}
  /\ failedPhase \in {"", "build", "unit", "lint", "ui"}
  /\ run \in Steps
  /\ expired \in BOOLEAN /\ stopping \in BOOLEAN
  /\ level \in Levels
  /\ moved \in {"", "people", "leftover", "resumed", "rebase"}
  /\ spent \in Histories
  /\ Whereabouts

Init ==
  /\ state = "CREATED" /\ prev = "" /\ wait = FALSE
  /\ cnt = [c \in CounterNames |-> 0]
  /\ fixSource = "" /\ failedPhase = ""
  /\ run = Idle
  /\ expired = FALSE /\ stopping = FALSE
  /\ level = 0 /\ moved = ""
  /\ spent = [resumes |-> 0, rejects |-> 0, crashes |-> 0, ships |-> 0,
              steered |-> FALSE]

-----------------------------------------------------------------------------
(* Dispatch (tick, step). *)

Dispatchable == Between /\ state \in Runnable /\ ~wait /\ ~expired

\* reconcile and syncHead adopt what people have committed to the branch.
Adopt ==
  IF state \in Resumable \ {"RELEASING"} THEN Changed("people") ELSE UNCHANGED moved

\* step() for a state whose handler starts with an agent.
DispatchAgent ==
  /\ Dispatchable
  /\ state \in AgentStates
  /\ Affordable(1)
  /\ run' = Step("agent")
  /\ IF state \in ProducesCode THEN level' = 0 /\ moved' = ""
                               ELSE Adopt /\ UNCHANGED level
  /\ UNCHANGED <<state, prev, row, env>>

\* "agent budget exhausted": escalated before the handler runs.
BudgetHold ==
  /\ Dispatchable
  /\ state \in AgentStates
  /\ ~Affordable(1)
  /\ Move("ESCALATED")
  /\ Adopt
  /\ UNCHANGED <<row, level, env>>

DispatchPhase ==
  /\ Dispatchable
  /\ state \notin AgentStates
  /\ run' = Step("handler")
  /\ Adopt
  /\ UNCHANGED <<state, prev, row, level, env>>

-----------------------------------------------------------------------------
(* runAgent. *)

\* Mutant of AgentFails.
AgentFailsPreserving ==
  /\ run.pc = "agent"
  /\ cnt' = Charge("inv", 1)
  /\ Changed("leftover")
  /\ \/ /\ run.attempt < MaxAgentRetries
        /\ Affordable(2)
        /\ run' = [run EXCEPT !.attempt = @ + 1]
        /\ UNCHANGED <<state, prev>>
     \/ /\ run.attempt >= MaxAgentRetries \/ ~Affordable(2)
        /\ Move("ESCALATED")
  /\ UNCHANGED <<wait, fixSource, failedPhase, level, env>>

(***************************************************************************)
(* An invocation whose outcome is a failed attempt: spawn error, time-out, *)
(* model mismatch, or a post-condition that does not hold.  The loop tries *)
(* again while attempts and the job's agent budget last, else escalates.   *)
(* A cancelled context kills the agent and fails every further attempt.    *)
(***************************************************************************)
AgentFails ==
  /\ run.pc = "agent"
  /\ cnt' = Charge("inv", 1)
  /\ \/ /\ run.attempt < MaxAgentRetries
        /\ Affordable(2)
        /\ run' = [run EXCEPT !.attempt = @ + 1]
        /\ UNCHANGED <<state, prev, moved>>
     \/ /\ run.attempt >= MaxAgentRetries \/ ~Affordable(2)
        /\ Escalate
  /\ UNCHANGED <<wait, fixSource, failedPhase, level, env>>

(***************************************************************************)
(* Rate limit, or backend unreachable: the invocation is counted, no retry *)
(* is; the job is suspended and comes back to the same state.              *)
(***************************************************************************)
AgentSuspends ==
  /\ run.pc = "agent"
  /\ cnt' = Charge("inv", 1)
  /\ \E s \in Suspended : Move(s)
  /\ wait' = TRUE
  /\ UNCHANGED <<fixSource, failedPhase, branch, env>>

\* States whose post-condition calls git, which a cancelled context fails.
ValidatesWithGit == Reviewing \cup {"IMPLEMENTING", "ANALYZING"}

(***************************************************************************)
(* The post-condition holds.  A review goes to the verify pass when it has *)
(* gating findings and verification is on.                                 *)
(***************************************************************************)
AgentSucceeds ==
  /\ run.pc = "agent"
  /\ stopping => state \notin ValidatesWithGit
  /\ cnt' = Charge("inv", 1)
  /\ \E g \in IF state \in Reviewing THEN 0..MaxFindings ELSE {0} :
       run' = IF g > 0 /\ VerifyVotes > 0
                THEN [Step("verify") EXCEPT !.gating = g]
                ELSE [Step("handler") EXCEPT !.blocking = g > 0]
  /\ UNCHANGED <<state, prev, wait, fixSource, failedPhase, branch, env>>

-----------------------------------------------------------------------------
(* The verify pass: one gating finding after the other. *)

\* The finding is decided; it keeps gating when `stands'.
Decide(stands) ==
  /\ run' = [run EXCEPT !.gating = @ - 1,
                        !.blocking = @ \/ stands,
                        !.pc = IF run.gating = 1 THEN "handler" ELSE "verify"]
  /\ UNCHANGED <<state, prev, wait>>

\* Mutant of VerifyFinding.
VerifyFindingUnreserved ==
  /\ run.pc = "verify"
  /\ cnt' = Charge("inv", VerifyVotes)
  /\ \/ \E stands \in BOOLEAN : Decide(stands)
     \/ /\ \E s \in Suspended : Move(s)
        /\ wait' = TRUE
  /\ UNCHANGED <<fixSource, failedPhase, branch, env>>

(***************************************************************************)
(* A fan-out of VerifyVotes agents is reserved as a whole and then run.    *)
(* The votes confirm or refute the finding (no usable vote leaves it       *)
(* gating); a suspension of any one of them aborts the handler.            *)
(***************************************************************************)
VerifyFinding ==
  /\ run.pc = "verify"
  /\ Affordable(VerifyVotes)
  /\ cnt' = Charge("inv", VerifyVotes)
  /\ \/ \E stands \in BOOLEAN : Decide(stands)
     \/ /\ \E s \in Suspended : Move(s)
        /\ wait' = TRUE
  /\ UNCHANGED <<fixSource, failedPhase, branch, env>>

\* The fan-out would exceed the agent budget: the finding is left gating.
VerifySkipped ==
  /\ run.pc = "verify"
  /\ ~Affordable(VerifyVotes)
  /\ Decide(TRUE)
  /\ UNCHANGED <<cnt, fixSource, failedPhase, branch, env>>

-----------------------------------------------------------------------------
(* The handlers, from the point where their agent is done. *)

Created ==
  /\ Handling("CREATED")
  /\ Move(IF ScopingEnabled THEN "SCOPING" ELSE "PLANNING")
  /\ UNCHANGED <<row, branch, env>>

\* A blocking question, or the scope gate, parks the job.
Scoping ==
  /\ Handling("SCOPING")
  /\ \E question \in BOOLEAN :
       Move(IF question \/ "scope" \in HumanGates
              THEN "AWAITING_SCOPE_APPROVAL" ELSE "PLANNING")
  /\ UNCHANGED <<row, branch, env>>

Planning ==
  /\ Handling("PLANNING")
  /\ Move("DESIGN_REVIEW")
  /\ fixSource' = ""
  /\ UNCHANGED <<wait, cnt, failedPhase, branch, env>>

DesignReview ==
  /\ Handling("DESIGN_REVIEW")
  /\ \/ /\ run.blocking
        /\ cnt' = Charge("design", 1)
        /\ IF cnt.design + 1 >= MaxDesignReviewRounds
             THEN Escalate ELSE Move("PLANNING") /\ UNCHANGED moved
     \/ /\ ~run.blocking
        /\ Move(IF "spec" \in HumanGates
                  THEN "AWAITING_SPEC_APPROVAL" ELSE "IMPLEMENTING")
        /\ UNCHANGED <<cnt, moved>>
  /\ UNCHANGED <<wait, fixSource, failedPhase, level, env>>

Implementing ==
  /\ Handling("IMPLEMENTING")
  /\ Move("CODE_REVIEW")
  /\ UNCHANGED <<row, branch, env>>

\* A blocking review goes to FIXING while rounds and fix attempts last.
CodeReview ==
  /\ Handling("CODE_REVIEW")
  /\ \/ /\ run.blocking
        /\ cnt' = Charge("code", 1)
        /\ \/ /\ cnt.code + 1 < MaxCodeReviewRounds
              /\ cnt.fix < MaxFixAttempts
              /\ fixSource' = "code_review"
              /\ Move("FIXING")
              /\ UNCHANGED moved
           \/ /\ cnt.code + 1 >= MaxCodeReviewRounds \/ cnt.fix >= MaxFixAttempts
              /\ Escalate
              /\ UNCHANGED fixSource
     \/ /\ ~run.blocking
        /\ Move(IF "code" \in HumanGates
                  THEN "AWAITING_CODE_APPROVAL" ELSE "BUILDING")
        /\ UNCHANGED <<cnt, fixSource, moved>>
  /\ UNCHANGED <<wait, failedPhase, level, env>>

Building ==
  /\ Handling("BUILDING")
  /\ \/ /\ Move("TESTING")
        /\ level' = Built /\ moved' = ""
        /\ UNCHANGED failedPhase
     \/ /\ Move("ANALYZING")
        /\ failedPhase' = "build"
        /\ UNCHANGED branch
  /\ UNCHANGED <<wait, cnt, fixSource, env>>

\* Unit tests, lint, UI tests on a device; the first one to fail decides.
Testing ==
  /\ Handling("TESTING")
  /\ \/ /\ Move("FINAL_REVIEW")
        /\ level' = Tested
        /\ UNCHANGED <<wait, failedPhase, moved>>
     \/ /\ failedPhase' \in {"unit", "lint"}
                              \cup IF OnNoDevice = "off" THEN {} ELSE {"ui"}
        /\ Move("FLAKE_CHECK")
        /\ UNCHANGED <<wait, branch>>
     \/ /\ OnNoDevice = "fail"
        /\ failedPhase' = "ui"
        /\ Move("ANALYZING")
        /\ UNCHANGED <<wait, branch>>
     \/ /\ OnNoDevice = "wait"
        /\ wait' = TRUE
        /\ Stay
        /\ UNCHANGED <<failedPhase, branch>>
  /\ UNCHANGED <<cnt, fixSource, env>>

\* Mutant of FlakeCheck.
FlakeCheckUncounted ==
  /\ Handling("FLAKE_CHECK")
  /\ \/ /\ failedPhase \in {"unit", "lint", "ui"}
        /\ Move(IF cnt.flake + 1 > MaxFlakeRetries THEN "ESCALATED" ELSE "TESTING")
        /\ UNCHANGED cnt
     \/ /\ Move("ANALYZING")
        /\ UNCHANGED cnt
  /\ UNCHANGED <<wait, fixSource, failedPhase, branch, env>>

\* Mutant of FlakeCheck.
FlakeCheckOffByOne ==
  /\ Handling("FLAKE_CHECK")
  /\ \/ /\ failedPhase \in {"unit", "lint", "ui"}
        /\ cnt' = Charge("flake", 1)
        /\ Move(IF cnt.flake > MaxFlakeRetries THEN "ESCALATED" ELSE "TESTING")
     \/ /\ Move("ANALYZING")
        /\ UNCHANGED cnt
  /\ UNCHANGED <<wait, fixSource, failedPhase, branch, env>>

\* Any pass among the reruns is flaky; a phase without a command is not rerun.
FlakeCheck ==
  /\ Handling("FLAKE_CHECK")
  /\ \/ /\ failedPhase \in {"unit", "lint", "ui"}
        /\ cnt' = Charge("flake", 1)
        /\ IF cnt.flake + 1 > MaxFlakeRetries
             THEN Escalate ELSE Move("TESTING") /\ UNCHANGED moved
     \/ /\ Move("ANALYZING")
        /\ UNCHANGED <<cnt, moved>>
  /\ UNCHANGED <<wait, fixSource, failedPhase, level, env>>

\* code_bug and test_bug go to FIXING while fix attempts last; environment,
\* unknown and an exhausted budget escalate.
Analyzing ==
  /\ Handling("ANALYZING")
  /\ \/ /\ cnt.fix < MaxFixAttempts
        /\ fixSource' = "analysis"
        /\ Move("FIXING")
        /\ UNCHANGED moved
     \/ /\ Escalate
        /\ UNCHANGED fixSource
  /\ UNCHANGED <<wait, cnt, failedPhase, level, env>>

(***************************************************************************)
(* FIXING writes the row twice: commit() (and, on a guard violation or a   *)
(* requested test change, the write before the hold) records the attempt;  *)
(* the transition follows.                                                 *)
(***************************************************************************)
FixRecorded ==
  /\ Handling("FIXING")
  /\ cnt' = Charge("fix", 1)
  /\ run' = Step("committed")
  /\ UNCHANGED <<state, prev, wait, fixSource, failedPhase, branch, env>>

\* Mutant of FixDone.
FixDoneToTesting ==
  /\ run.pc = "committed"
  /\ Move("TESTING")
  /\ fixSource' = ""
  /\ UNCHANGED <<wait, cnt, failedPhase, branch, env>>

FixDone ==
  /\ run.pc = "committed"
  /\ Move("BUILDING")
  /\ fixSource' = ""
  /\ UNCHANGED <<wait, cnt, failedPhase, branch, env>>

\* No change made (or a test change asked for with nothing to commit): the
\* attempt counts, and is recorded by the hold itself.
FixGivesUp ==
  /\ Handling("FIXING")
  /\ cnt' = Charge("fix", 1)
  /\ Escalate
  /\ UNCHANGED <<wait, fixSource, failedPhase, level, env>>

\* Mutant of FinalReview.
FinalReviewSourceless ==
  /\ Handling("FINAL_REVIEW")
  /\ \/ /\ run.blocking
        /\ cnt.fix < MaxFixAttempts
        /\ Move("FIXING")
        /\ UNCHANGED <<fixSource, branch>>
     \/ /\ run.blocking
        /\ cnt.fix >= MaxFixAttempts
        /\ Move("ESCALATED")
        /\ UNCHANGED <<fixSource, branch>>
     \/ /\ ~run.blocking
        /\ Move("AWAITING_MERGE_APPROVAL")
        /\ level' = Reviewed
        /\ UNCHANGED <<fixSource, moved>>
  /\ UNCHANGED <<wait, cnt, failedPhase, env>>

FinalReview ==
  /\ Handling("FINAL_REVIEW")
  /\ \/ /\ run.blocking
        /\ cnt.fix < MaxFixAttempts
        /\ fixSource' = "final_review"
        /\ Move("FIXING")
        /\ UNCHANGED branch
     \/ /\ run.blocking
        /\ cnt.fix >= MaxFixAttempts
        /\ Escalate
        /\ UNCHANGED <<fixSource, level>>
     \/ /\ ~run.blocking
        /\ Move("AWAITING_MERGE_APPROVAL")
        /\ level' = Reviewed
        /\ UNCHANGED <<fixSource, moved>>
  /\ UNCHANGED <<wait, cnt, failedPhase, env>>

\* The branch is put on top of the default branch, which may have moved; the row
\* says so before the result is built and merged.
Rebase ==
  /\ Handling("MERGING") /\ RebaseBeforeMerge
  /\ run' = Step("rebased")
  /\ Changed("rebase")
  /\ UNCHANGED <<state, prev, row, level, env>>

Merging ==
  /\ run.pc = "rebased" \/ (Handling("MERGING") /\ ~RebaseBeforeMerge)
  /\ Move("AWAITING_RELEASE_APPROVAL")
  /\ level' = Merged
  /\ UNCHANGED <<row, moved, env>>

\* The ship command exited 0 ...
ShipSucceeds ==
  /\ Handling("RELEASING")
  /\ run' = Step("shipped")
  /\ spent' = [spent EXCEPT !.ships = @ + 1]
  /\ UNCHANGED <<state, prev, row, branch, expired, stopping>>

\* Mutant of ReleaseDone.
ReleaseDoneUnrecorded ==
  /\ run.pc = "shipped"
  /\ Stay
  /\ UNCHANGED <<row, branch, env>>

\* ... and the row says so.
ReleaseDone ==
  /\ run.pc = "shipped"
  /\ Move("COMPLETED")
  /\ UNCHANGED <<row, branch, env>>

ShipFails ==
  /\ Handling("RELEASING")
  /\ cnt' = Charge("rel", 1)
  /\ \/ /\ cnt.rel + 1 <= MaxReleaseRetries
        /\ wait' = TRUE
        /\ Stay
        /\ UNCHANGED moved
     \/ /\ cnt.rel + 1 > MaxReleaseRetries
        /\ Escalate
        /\ UNCHANGED wait
  /\ UNCHANGED <<fixSource, failedPhase, level, env>>

(***************************************************************************)
(* Any other error of a handler (git, the exchange directory, an artifact, *)
(* a panic, a build after the rebase that fails, an escalation that        *)
(* touches no counter) holds the job.                                      *)
(***************************************************************************)
HandlerFails ==
  /\ run.pc \in {"agent", "verify", "handler", "committed", "rebased"}
  /\ Escalate
  /\ UNCHANGED <<row, level, env>>

Handler ==
  \/ Created \/ Scoping \/ Planning \/ DesignReview \/ Implementing \/ CodeReview
  \/ Building \/ Testing \/ FlakeCheck \/ Analyzing
  \/ FixRecorded \/ FixDone \/ FixGivesUp \/ FinalReview
  \/ Rebase \/ Merging \/ ShipSucceeds \/ ReleaseDone \/ ShipFails \/ HandlerFails

-----------------------------------------------------------------------------
(* The tick, for a job that is not in flight. *)

\* Mutant of TimeOut.
TimeOutAfterBackoff ==
  /\ Between /\ expired
  /\ state \notin Held \cup Terminal \cup Suspended
  /\ Move("TIMED_OUT")
  /\ UNCHANGED <<row, branch, env>>

\* limits.max_job_duration, measured from the job's creation; looked at before
\* any delay, suspension or gate of the job.
TimeOut ==
  /\ Between /\ expired
  /\ state \notin Held \cup Terminal
  /\ Move("TIMED_OUT")
  /\ UNCHANGED <<row, branch, env>>

\* A suspension ends: back into the interrupted state.
BackoffElapsed ==
  /\ Between /\ ~expired
  /\ state \in Suspended
  /\ wait' = FALSE
  /\ Move(prev)
  /\ UNCHANGED <<cnt, fixSource, failedPhase, branch, env>>

\* The delay of a release retry or of a wait for a device ends.
WaitElapsed ==
  /\ Between /\ ~expired /\ wait
  /\ state \in Runnable
  /\ wait' = FALSE
  /\ UNCHANGED <<state, prev, cnt, fixSource, failedPhase, run, branch, env>>

-----------------------------------------------------------------------------
(* People.  Their rows are modelled in Approvals; here a decision takes     *)
(* effect at the tick that consumes it.                                     *)

AtGate(s) == Between /\ ~expired /\ state = s

\* handleGate, "approve".
Approve ==
  /\ \/ AtGate("AWAITING_SCOPE_APPROVAL") /\ Move("PLANNING") /\ UNCHANGED level
     \/ AtGate("AWAITING_SPEC_APPROVAL") /\ Move("IMPLEMENTING") /\ UNCHANGED level
     \/ AtGate("AWAITING_CODE_APPROVAL") /\ Move("BUILDING") /\ UNCHANGED level
     \/ AtGate("AWAITING_MERGE_APPROVAL") /\ Move("MERGING") /\ level' = Approved
     \/ AtGate("AWAITING_RELEASE_APPROVAL") /\ Move("RELEASING") /\ level' = ReleaseOK
  /\ UNCHANGED <<row, moved, env>>

Rejecting ==
  /\ spent.rejects < MaxRejects
  /\ spent' = [spent EXCEPT !.rejects = @ + 1]
  /\ UNCHANGED <<wait, failedPhase, branch, expired, stopping>>

(***************************************************************************)
(* handleGate, "reject" at the scope gate: a round is spent.  The rejection*)
(* that exhausts the rounds escalates, and a second write of the row then  *)
(* makes SCOPING the target of a bare resume.                              *)
(***************************************************************************)
RejectScope ==
  /\ AtGate("AWAITING_SCOPE_APPROVAL")
  /\ Rejecting
  /\ cnt' = Charge("scope", 1)
  /\ \/ /\ cnt.scope + 1 < MaxScopeRounds
        /\ Move("SCOPING")
     \/ /\ cnt.scope + 1 >= MaxScopeRounds
        /\ prev' = state
        /\ state' = "ESCALATED"
        /\ run' = Step("retarget")
  /\ UNCHANGED fixSource

ScopeRetarget ==
  /\ run.pc = "retarget"
  /\ prev' = "SCOPING"
  /\ run' = Idle
  /\ UNCHANGED <<state, row, branch, env>>

RejectSpec ==
  /\ AtGate("AWAITING_SPEC_APPROVAL")
  /\ Rejecting
  /\ Move("PLANNING")
  /\ UNCHANGED <<cnt, fixSource>>

\* The code and the merge gate send the job to FIXING, whatever its budget.
RejectToFixing ==
  /\ AtGate("AWAITING_CODE_APPROVAL") \/ AtGate("AWAITING_MERGE_APPROVAL")
  /\ Rejecting
  /\ fixSource' = "human"
  /\ Move("FIXING")
  /\ UNCHANGED cnt

\* A rejected release ends the job: merged, not shipped.
RejectRelease ==
  /\ AtGate("AWAITING_RELEASE_APPROVAL")
  /\ Rejecting
  /\ Move("COMPLETED")
  /\ UNCHANGED <<cnt, fixSource>>

\* A cancel row, or a rejection with --cancel.
Cancel ==
  /\ Between
  /\ state \notin Terminal
  /\ Move("CANCELLED")
  /\ UNCHANGED <<row, branch, env>>

\* A resume row on a held or suspended job; a note addresses the next agent.
Resuming(to, note) ==
  /\ Between
  /\ state \in Held \cup Suspended
  /\ spent.resumes < MaxResumes
  /\ wait' = FALSE
  /\ fixSource' = IF note THEN "human" ELSE fixSource
  /\ Move(to)
  /\ UNCHANGED <<cnt, failedPhase, expired, stopping>>

\* `sdlc resume': back to prev_state, unless that state runs no work (then the
\* row is consumed and nothing else happens), with what it left behind.
Resume ==
  /\ prev \in Resumable
  /\ \E note \in BOOLEAN : Resuming(prev, note)
  /\ spent' = [spent EXCEPT !.resumes = @ + 1]
  /\ moved' = IF moved = "leftover" THEN "resumed" ELSE moved
  /\ UNCHANGED level

\* `sdlc resume --to S': the operator vouches for what S relies on.
ResumeTo ==
  /\ \E to \in Resumable, note \in BOOLEAN :
       /\ Resuming(to, note)
       /\ level' = IF level < Required(to) THEN Required(to) ELSE level
  /\ moved' = ""
  /\ spent' = [spent EXCEPT !.resumes = @ + 1, !.steered = TRUE]

-----------------------------------------------------------------------------
(* Time, Ctrl-C and crashes. *)

Expire ==
  /\ CanExpire /\ ~expired
  /\ state \notin Terminal
  /\ expired' = TRUE
  /\ UNCHANGED <<state, prev, row, run, branch, stopping, spent>>

\* The engine is restarted with a larger limits.max_job_duration.
RaiseLimit ==
  /\ expired /\ state = "TIMED_OUT" /\ Between
  /\ expired' = FALSE
  /\ UNCHANGED <<state, prev, row, run, branch, stopping, spent>>

Interrupted ==
  /\ state \notin Terminal
  /\ spent.crashes < MaxCrashes
  /\ spent' = [spent EXCEPT !.crashes = @ + 1]

\* Ctrl-C: the context is cancelled; the engine leaves when no step is in flight.
Stop ==
  /\ Interrupted
  /\ ~stopping /\ run.pc # "retarget"
  /\ stopping' = TRUE
  /\ UNCHANGED <<state, prev, row, run, branch, expired>>

\* The next `sdlc run'.
Restart ==
  /\ stopping /\ ~InFlight
  /\ stopping' = FALSE
  /\ UNCHANGED <<state, prev, row, run, branch, expired, spent>>

\* The process dies and is started again; what the step held is lost.
Crash ==
  /\ Interrupted
  /\ InFlight
  /\ run' = Idle
  /\ stopping' = FALSE
  /\ UNCHANGED <<state, prev, row, branch, expired>>

\* Nothing is left to do.
Finished ==
  /\ state \in Terminal /\ ~InFlight /\ ~stopping
  /\ UNCHANGED vars

Engine ==
  \/ DispatchAgent \/ BudgetHold \/ DispatchPhase
  \/ AgentFails \/ AgentSuspends \/ AgentSucceeds
  \/ VerifyFinding \/ VerifySkipped
  \/ Handler
  \/ TimeOut \/ BackoffElapsed \/ WaitElapsed \/ ScopeRetarget
  \/ Restart

People ==
  \/ Approve \/ RejectScope \/ RejectSpec \/ RejectToFixing \/ RejectRelease
  \/ Cancel \/ Resume \/ ResumeTo

Next == Engine \/ People \/ Expire \/ RaiseLimit \/ Stop \/ Crash \/ Finished

(***************************************************************************)
(* The tick loop polls, every agent and command has a timeout, and a       *)
(* stopped engine is started again: the engine keeps going.  Nothing is    *)
(* assumed of people, of the job's age, of Ctrl-C or of crashes.           *)
(***************************************************************************)
Spec == Init /\ [][Next]_vars /\ WF_vars(Engine)

-----------------------------------------------------------------------------
(* Properties. *)

\* Where work goes on: the current state, or the one a bare resume or the end
\* of a backoff returns to.
ResumePoint == IF state \in Held \cup Suspended THEN prev ELSE state

(***************************************************************************)
(* limits.max_agent_invocations_per_job is never exceeded: neither by the  *)
(* retries of an agent, nor by a verifier fan-out, nor by an operator who  *)
(* keeps resuming (SPEC 13.5).                                             *)
(***************************************************************************)
AgentBudget == cnt.inv <= MaxAgentInvocations

AtLeastOne(n) == IF n = 0 THEN 1 ELSE n

Loops == {"scope", "design", "code", "flake", "rel"}

\* How often a loop runs before it escalates.  A cap of 0 review rounds still
\* lets the first review block; the two retry caps do not count the first try.
Cap(c) ==
  CASE c = "scope"  -> MaxScopeRounds
    [] c = "design" -> AtLeastOne(MaxDesignReviewRounds)
    [] c = "code"   -> AtLeastOne(MaxCodeReviewRounds)
    [] c = "flake"  -> MaxFlakeRetries + 1
    [] c = "rel"    -> MaxReleaseRetries + 1

\* The fix attempts a job may come to have.
FixCap ==
  MaxFixAttempts + spent.resumes + spent.rejects + spent.crashes

(***************************************************************************)
(* No loop of the pipeline runs past its own cap, across suspensions,      *)
(* crashes and visits to other loops: only a resume by a person buys one   *)
(* more round.  The three automatic ways into FIXING share one budget,     *)
(* which no mix of them overruns.  A resume and a rejection buy one more   *)
(* fix each, and so does a crash between the two writes of FIXING, which   *)
(* run the state again with its attempt already counted; nothing else.     *)
(***************************************************************************)
LoopBudgets ==
  /\ \A c \in Loops : cnt[c] <= Cap(c) + spent.resumes
  /\ cnt.fix <= FixCap

(***************************************************************************)
(* Whenever an agent has been at the code, it is built, tested, reviewed   *)
(* and approved, in this order, before it is merged, and merged and        *)
(* approved again before it is shipped, on every path: fix loops,          *)
(* suspensions, time-outs, crashes, bare resumes.  Only `resume --to'      *)
(* vouches for a step in the pipeline's place.  (Whether the code is then  *)
(* still what it was is CheckedAsItIs.)                                    *)
(***************************************************************************)
GatesInOrder == Required(ResumePoint) <= level

\* How far the code that is on the branch now has come.
AsItIs == IF moved = "" THEN level ELSE 0

(***************************************************************************)
(* What a state relies on is true of the code as it is: nothing has been   *)
(* committed since it was built, unless people did so, or took on with a   *)
(* resume what a step that failed and was held had left, or merging itself *)
(* rebased it.  No retry, suspension or crash, and no step that the engine *)
(* goes on from by itself, brings a commit to the merge that was not built.*)
(* (Of edits that lie in the tree uncommitted, which a build sees and the  *)
(* merge does not, nothing is said.)                                       *)
(***************************************************************************)
CheckedAsItIs ==
  Required(state) > AsItIs =>
    \/ moved \in {"people", "resumed"}
    \/ moved = "rebase" /\ Required(state) >= Approved

(***************************************************************************)
(* Unless an operator steered the job by hand, a repair state always knows *)
(* what it is to repair: FIXING has the source of its instruction (its     *)
(* prompt is empty otherwise), FLAKE_CHECK a phase it can rerun (it passes *)
(* straight to ANALYZING otherwise) and ANALYZING a failed phase.          *)
(***************************************************************************)
RepairIsDirected ==
  spent.steered \/
    /\ ResumePoint = "FIXING" => fixSource # ""
    /\ ResumePoint = "FLAKE_CHECK" => failedPhase \in {"unit", "lint", "ui"}
    /\ ResumePoint = "ANALYZING" => failedPhase # ""

(***************************************************************************)
(* A released job was shipped once: only a crash between the ship command  *)
(* and the row that records it can make a later run ship again.            *)
(***************************************************************************)
ShippedOnce == spent.ships <= 1 + spent.crashes

(***************************************************************************)
(* Left alone, a job always comes to rest: at a gate, held, or finished.   *)
(* No mix of rework loops, retries, suspensions and verifier fan-outs can  *)
(* keep the engine busy for ever ("the engine never loops silently").      *)
(***************************************************************************)
ComesToRest ==
  state \in Runnable \cup Suspended ~> state \in Parked \cup Held \cup Terminal

(***************************************************************************)
(* limits.max_job_duration ends everything the budgets do not: the wait    *)
(* for a device, a gate nobody answers, suspensions that come back.        *)
(***************************************************************************)
AgeLimitStops == expired ~> state \in Held \cup Terminal
=============================================================================
