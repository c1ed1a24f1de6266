# sdlc-orchestrator: a TLA+ model

`sdlc` drives a software change ("job") through a fixed pipeline of agent
invocations, builds, tests, reviews and human approvals. One engine process
(`sdlc run`) polls a SQLite database; people decide from other processes
(`sdlc approve`, `sdlc review`, `sdlc serve`). This directory holds TLA+ models
of the parts that keep state and interact, the TLC configurations that check
them on small instances, and proofs that hold for every value of the constants.
`PROJECT.json` maps every definition to the lines it stands for.

Paths below are relative to `src/`; `engine.go`, `handlers.go`, `jobctx.go`,
`verify.go` and `progress.go` are in `internal/engine`, `live.go`, `server.go`,
`safety.go`, `actions.go` and `diffpage.go` in `internal/server`.

## 1. The system

### Parts

| Part | State it keeps | Operations | Interacts with | Module |
|---|---|---|---|---|
| Engine lock (`engine.go` `acquireLock`, `releaseLock`) | `engine.lock` on disk, an open handle | stat, remove, create; close, remove | other engine processes | `EngineLock`, `LockFile`, `DataDir` |
| Tick and dispatch (`engine.go` `Run`, `tick`) | `inFlight`, the semaphore, the tick's copies of the rows | list, visit, dispatch; a step's end | store; one goroutine per step | `Scheduler`, `JobLoop` |
| Job state machine (`engine.go`, `handlers.go`, `states.go`) | the job row: `state`, `prev_state`, `resume_after`, counters | one handler per state, `transition`, `hold`, gates, controls | agents, git, store | `Pipeline` |
| Agent loop (`jobctx.go` `runAgent`) and verify pass (`verify.go`) | attempt, invocation counter, verdicts | dispatch, reserve, retry, suspend, escalate; put to a vote, apply | agent runner, branch | `Pipeline`, `AgentRun`, `ReviewArtifacts` |
| Job branch (`jobctx.go`, `progress.go`, `gitx`, `guard`) | branch, worktree, `HeadSHA`, `StateEntryHead` | baseline, checkpoint, reconcile, guard, commit, preserve, rebase, merge | git, people | `JobBranch` |
| Approvals (`store.go`, `cli`, `actions.go`) | the `approvals` table | look, add, consume | people on three surfaces; the tick | `Approvals`, `DecisionBox` |
| Resources (`resource.go`) | Gradle slots, device leases, booted emulators | acquire, release, boot, kill | steps of several jobs, adb | `Resources`, `Leases` |
| Agent runner (`agent.go`, `execx.go`, `progress.go`) | a child, two pumps, two captures, the watcher | start, copy, time out, kill, return, classify, checkpoint | backends, `runAgent` | `AgentRun` |
| Live updates (`live.go`, `server.go`, `app.js`) | the hub's snapshot, client channels, pages | poll, publish, stream, drop, shut down | store (read only), browsers | `Live` |
| Diff viewer (`gitx`, `review`, `internal/diff`, `diffpage.go`) | the patch and its flags, the parsed files | capture, keep a copy, parse, split, paint | git, gate documents | `Diff`, `Patches` |
| Review artifacts (`artifact.go`, `verify.go`, `handlers.go`) | the review files, their verified copies, rounds, `last_design_review` | write, load, apply verdicts, prefer, hand on | review states, prompts | `ReviewArtifacts`, `ReviewFiles` |
| Gate announcements (`review.go`), submission, config, prompts, web pages, command line | none of their own, or one row | render, insert, parse | store | see section 7 |

### How they interact

The store is the only shared state between processes: the engine writes the job
row, people write approvals, the web server reads. There is no lock between
them; each statement is atomic and nothing more. Within the engine, a tick works
on copies of all rows and a step's goroutine on a copy of one; they meet in
`inFlight`, the semaphore and the resource manager's maps. Within a step, the
agent's process, two pumps, a heartbeat and a committer run side by side and
meet in `jobCtx.mu`. Below all of it lies a git branch that people share.

### What is hard in it, and what must hold

* *Several processes share a lock file* with three system calls between looking
  and owning. At most one engine drives a data directory; an orphaned lock keeps
  nobody out.
* *The engine may die between any two writes.* Budgets are not overrun, no
  decision is carried out twice, baselines survive, a release is not shipped
  twice except in the one window the code cannot close.
* *Rework loops nest five deep*, each with a counter compared in its own way. A
  job left alone comes to rest; code is merged only over every check. Agents, people,
  failing steps and the rebase all commit to the branch, and not every commit is checked.
* *A decision is made from what a person saw*, which may be long past.
* *A tick uses rows it read before it asks whether a step is in flight.*
* *A branch is shared* by an agent, a watcher, the engine and people. Nobody's
  work is lost, and a state's diff holds that state's work.
* *Review files outlive their round*: a crash, a resume or a rejection leaves older
  ones beside newer ones. Whoever reads finds what blocked and what was refuted, and
  a finding is judged by its own votes.
* *Jobs share devices and slots*, taken in one order and given back on every path.
* *A child may hang, flood, lie or be cut off.* What is returned says whether it
  is whole; a call ends unless a process left behind keeps its pipe; nothing of an
  attempt outlives it.
* *A page is always older than the table.* It converges, is not painted older than a
  snapshot before, and stops offering the decision of a state the job is not in.
* *A patch is cut anywhere*, and its lines may read like its syntax. No line
  disappears from what is approved, unflagged.

`PROJECT.json` lists 40 hazards of this kind, each at its line, with the
properties that guard it or the reason why none does.

## 2. The modules and the code

### DataDir, LockFile, EngineLock

`DataDir` is what the lock promises: a data directory is taken only when nobody
drives it, and given up before it is taken again. `LockFile` has the file, the
handles and where each process is, and maps them to `DataDir`; `EngineLock` has the
steps: `Stat`, `RemoveStale`/`RefuseHeld`,
`Create`/`RefuseExists` are the three calls of `acquireLock`, `Close` and
`ReleaseRemove` those of `releaseLock`, `Crash` may come at any of them and leaves
the file. Whether a file that is open can be removed is a constant, since
`os.Remove` differs by platform: on Windows it fails, and the lock is what it
promises; on Linux and macOS it succeeds, and the lock is not (section 6).

### Pipeline

One job. The row is `state`, `prev`, `wait`, `cnt`, `fixSource`, `failedPhase`;
`run` is what a step in flight holds in memory. `branch` is history of the code:
`level` says how far it has been checked, merged and released since an agent last
started to edit it, `moved` what else has been committed since it was built. A step
starts by adopting what people have committed (`Adopt`: `syncHead`, `reconcile`), one
that fails commits what it has left in the tree before the hold (`Escalate`:
`preserveWork`), and MERGING rebases first (`Rebase`). `level` does not drop for any of
these, because the code goes on as if nothing had happened; `moved` says that it did.
Each handler is an action of
its name (`Scoping`, `Planning`, ... `ReleaseDone`); around them `DispatchAgent`,
`AgentSucceeds`/`AgentFails`/`AgentSuspends` are the loop of `runAgent`,
`VerifyFinding`/`VerifySkipped` the fan-outs, `Approve`/`Reject...` the gates,
`Cancel`/`Resume`/`ResumeTo` the controls, `TimeOut`/`BackoffElapsed`/`WaitElapsed`
the clocks. An action ends at each `UpdateJob`, so that `Crash` can fall between
any two; `Stop` and `Restart` are Ctrl-C and the next `sdlc run`. Assumed: the row
a step works on is current (what happens otherwise is `Scheduler`'s), and
`resume --to` vouches for what it skips and for the branch as it is. Edits that lie in
the tree uncommitted while the next state runs are `JobBranch`'s.

### Approvals

The table `rows` in the order of its ids, the tick (`engine`), and people on three
surfaces who were shown something earlier: `Look` is the read, `Check` the check a
surface makes before it writes, `Decide` the insert under the partial unique index.
`sdlc approve` reads and writes at once, the prompt waits for a keyboard, a form
for a browser. `TakeInHand` consumes, `Act` writes the job: two statements. The job
is reduced to where it stands with respect to people. `acts`, the job's `visit` and a
person's are history, and so is the mark on a row of a resume that was recorded when
the job was stopped or at work (`due`): it answers that stop, or comes too late for the step in flight.

`DecisionBox` is what people may rely on, without rows, ids, ticks or processes: a box
with at most one decision per gate and control, a hand that has taken one out, and the
job. A job leaves a gate on the decision for that gate, by a cancel or by its age, and
what was taken out is answered where the job stands, or lost, but never answered later.
`Approvals` implements it (`Box`, with `InBox` the unconsumed rows and `InHand` the row
that the tick has consumed).

### JobLoop, Scheduler

`Run`, `tick` and goroutines over several jobs: `List` copies the rows, `Visit(j)`
takes one job with that copy, `StepEnds`/`Unmark`/`Return` are the end of a step in
the order of its deferred calls, `Round`/`Settle`/`Select`/`Drain` the loop with its
`--once` exit. A row is its kind of state and the number of its writes. `JobLoop` holds the
constants, the variables and what is promised of them; `Scheduler` says how the loop works.

### Leases, Resources

`Leases` is the machine, its configuration, the state kept of it and what a lease is worth. `TakeSlot` is a Gradle slot; `ListDevices`, `Lease`, `StartEmulator`, `BootDone`,
`BootFails` the acquisition of a device, with adb asked outside the mutex;
`Release`, `Kill`, `Forget` its return. `RunsAgain` is the second command of a UI
test, under the same lease. Assumed: one AVD (a second instance exits by itself),
and phones stay plugged in.

### JobBranch

A sha names its history, so a head is a set of numbered commits over a count of the
default branch's moves. `Dispatch`, `Reconcile`, `Reset`, `Sync`, `Baseline`, `Edit`,
`Checkpoint`, `Record`, `Guard`, `Discard`, `Commit`, `Move`, `Preserve`, `Rebase`,
`Merge` are the calls in the order of the code, each a step, so that a crash or a
person's commit falls between any two. `mem` is the copy the step works on, `row`
what is stored. Assumed: agents do not run git and die with the engine; people do
not delete the worktree and rewrite history only between steps; only a fix touches
test files; a git call either works or changes nothing. `REVIEW`, `BUILDING` and
`AWAIT` stand for classes of states; `Pipeline` says which follows which.

### ReviewFiles, ReviewArtifacts

What becomes of a finding. `ReviewFiles` has the files, their names and what is promised of
them, `ReviewArtifacts` the steps. `Review` is an agent's file with the ids minted,
`PutToVote`/`VoteSkipped` the fan-out of one finding (or the budget that does not allow
it), `WriteVerified` the verified copy, `DesignBlocks` ... `FinalPasses` the gates,
`Plan`, `Implement` and `Fix` the readers, each of whom records in `handed` the review
that is in the prompt. Files are never deleted; `Lost` is a crash or a suspension in mid
step, `Resume` a plain `sdlc resume`, `Decide` a person at a gate. Assumed: a resume
goes back where the job was held (`Pipeline` has `--to`), and a verifier leaves the tree
alone. `judged`, `refuted`, `handed` and `spent` are history.

### Live

The hub (`Start`, `List`, `Publish`, `Poll`, `Ping`, `Quit`), a handler per stream
(`Add`, `Refuse`, `Build`, `Deliver`, `Take`, `Dropped`, `Remove`), the pages of
`app.js` (`Ask`, `Cut`, `Quiet`, `Load`) and the shutdown (`CtrlC`, `StopHub`,
`CloseAll`). The table is the number of its moves; `StateAt` names the job's state after
each, and a job may come back to a state: a page compares names, as `app.js` does
(`Enabled`), while the properties compare moves too. A channel is a bounded sequence;
`Broadcast` drops who cannot take a frame. Assumed: one job's gate page and one connection slot per tab; a frame counts
as read when it is written; `others` stands for the unwatched clients; a browser does
not retry an EventSource after a response other than 200 (HTML standard).

### AgentRun

`RunCapture` with its pumps and the watcher around it: `Say`, `ReportStep`, `Exit` are
the child, which is not trusted; `Pump` copies a line into a bounded capture, `Tell`
is `onProgress` under the lock that `Checkpoint` holds; `Deadline`, `Interrupt` and
`Killed` end it. A child that is gone may have left a process that holds its output
(`Gone`, `LetGo`), for which `cmd.Run` waits (`Waited`). `Return` is every way back from
a child that has run with its string and `Truncated`, but for an error of `cmd.Run` that
is no exit error, which is `ReturnError`;
`CloseStop`, `LastPass`, `Joined` end the watcher; `Succeed`, `Suspend`, `Retry` judge
it and `Parsed` is a git caller. A line is kept as what the classification asks of it.

### Patches, Diff

`Patches` has a change, the patch git writes for it (`Patch(change)`) and what the page
promises of it; what git reports of a file is the assumption on `Changes` (`Reported`: a binary
file has no hunks, one that is only modified has something that differs). `Diff` has the way there: `Cut` is the capture that stops and the copy kept
beside a gate document, `StepHeader`/`StepHunk`/`StepPayload`/`Finish` the parser line
by line, `Split` the side-by-side rows, `Filled` and `Paint` the page with its budget.

### Composition

`EngineLock` implements `DataDir` and `Approvals` implements `DecisionBox`, each by a
refinement mapping (`Dir`, `Box`). The others share interfaces, not variables:
`Scheduler` leaves open what a visit decides, `Pipeline` and `Approvals` decide it;
`Pipeline` leaves open what git does, `JobBranch` does it; `Pipeline`'s agent outcomes are those `AgentRun` returns; `Pipeline` leaves open whether
a review blocks, `ReviewArtifacts` says when and who is told.

## 3. The runs

Eight runs pass, four end in the counterexample of a divergence. `tlc -config X.cfg
M` runs one, with M as `PROJECT.json` lists it; each takes less than five minutes
with two workers.

| Run | Instance | What it shows |
|---|---|---|
| `Pipeline` | gates scope, spec, code; rounds 1/2/2; one fix, flake retry, release retry, agent retry; 10 invocations; 2 votes, 2 findings; a rebase before the merge; one resume, rejection and crash; people commit at any step | `AgentBudget`, `LoopBudgets`; `GatesInOrder`: what an agent edited is built, tested, reviewed and approved before it is merged and shipped; `CheckedAsItIs`: it is still the same code then, unless people or the rebase changed it; `RepairIsDirected`; `ShippedOnce` |
| `PipelineRest` | no optional gates, age limit, skip without a device, 3 code rounds, 2 fixes, 14 invocations, one crash | `ComesToRest` and `AgeLimitStops` (liveness) |
| `Approvals` | a terminal, a prompt and a browser; gates scope and release; 2 rows; one crash; age limit | `OneDecisionPerGate` (refines `DecisionBox`), `ActedOnce`; `ResumeClearsNoLaterHold`; `CancelIsFinal` (liveness) |
| `ApprovalsStale` | a terminal and a browser, one gate, 2 rows | violated: `FormsAreFresh` |
| `JobBranch` | 3 commits, one move of the default branch, one commit and one rewrite by people, one crash, one retry | `BaselineExcludesOwnWork`, `FixLeavesTests`, `HumanWorkKept`, `CheckpointsKept` |
| `JobBranchSuspend` | the same without people, crashes and rewrites | violated: `TestsProtected` |
| `Live` | 1 watched tab, hub of 1 client, channels of depth 1; the job is at its gate, sent to be fixed, and at its gate again | `Ownership`, `ShownNeverGoesBack`; `Converges`, `StaleFormDisabled`, `StreamsEnd` (liveness) |
| `AgentRun` | 1 retry; captures of 2 and 1 lines, a pipe of 1; up to 3 lines of 5 kinds; one plan step; a process left behind or none | `CaptureIsHonest`, `Quiescent`, `StepsTakenUp`, `TranscriptNeverSuspends`; `Ends` (liveness) |
| `Shared`, part `lock` | `EngineLock`: 3 processes, an orphan or none, crashes at will, open files cannot be removed | `OneAfterTheOther` (refines `DataDir`); `OrphanNeverBlocks`: with no engine alive, of those that start one gets to run, unless one dies on the way (liveness) |
| `Shared`, part `leases` | `Resources`: 2 jobs, 1 slot, a phone, an emulator, 2 uses each, adb may fail | `LeasesAreExclusive`; `PhasesRun` (liveness) |
| `SmallParts`, part `loop` | `Scheduler`: `--once`, 3 jobs, each submitted or waiting, 2 slots, 2 writes of a row | `OneStepPerJob`, `OffIsIdle`, `OnceDrains` |
| `SmallParts`, part `reviews` | `ReviewArtifacts`: 3 votes of which 2 confirm; reports of one finding below the threshold without an id, or of two that gate with one id; 4 reviews, one setback; gates spec and code | `SetAsideByItsOwnVotes`, `ToldWhatBlocked`, `RefutationTravels` |
| `SmallParts`, part `diff` | `Diff`: every hunk of up to 3 lines over texts that read like syntax; every kind and pair of files; headers that lie; stripped blanks; a cut at any line or inside it; a budget of 3 rows | `RoundTrip`, `NothingLost`, `DamageIsFlagged`, `PageAccounts` |
| `ReviewsStale` | the part `reviews` without setbacks | violated: `PassedFindingsHandedOn` |
| `SchedulerStale` | 2 jobs, 2 slots, not `--once` | violated: `WritesFollow` |

`Shared` and `SmallParts` check several specifications in one run. They have no variable
in common, so nothing is to be learned from interleaving them: the variable `part`, which
never changes, picks the one whose steps a behaviour takes, and the others stay where they
start. There no property of theirs is at stake, and none of their fair actions is enabled,
so a behaviour of one part is a behaviour of its own specification. `SmallParts` has the
parts that promise safety only, `Shared` the two small ones that promise liveness too.

Type invariants are theorems of the modules with proofs (section 5), and so are
`MutualExclusion` and `LockFileOfTheLive`; the runs spend their time on the rest.

**Why the bounds are enough.** Each is the least at which the interesting case
happens. Three processes let one remove the file between another's look and create
while a third runs. Two code rounds and one fix let every loop reach its cap and be
re-entered from an outer loop; 10 invocations let the budget run out before, in and
after a fan-out of two votes. One crash is enough because no variable but the row
and the history survives it: a second one starts from a state of the first's kind.
Two rows and two gates (one of them the release gate, whose
rejection completes the job) let a decision and a control, or two decisions, meet in one
tick, and a decision for one gate be looked at from the next; three people use each surface once. Three jobs
over two slots let the semaphore be full while a third waits, and two writes
take a job from a gate to work and through its step. Three votes can be split
either way of a majority of two, and leave unusable ones; two reports with equal ids
collide, one without an id is minted; four reviews let a design review, its next round,
a code review and its next round each come after a file of another. One slot for two jobs
makes the job with a device wait for the slot. Three commits let an agent's,
a checkpoint's and a person's lie on the branch together. A channel of depth 1 is
full after one frame, and three moves are what it takes to leave a state and come back. A capture of two lines is exactly full, and over, within three.
Where a bound is only a bound (retries, jobs, slots, commits, tabs, capture limits,
processes), the safety theorems of section 5 lift it.

`CHECK_DEADLOCK FALSE` stands where the modelled thing ends: in `AgentRun` a call that is
over, and `JobBranchSuspend`, whose people and clocks are bounded away. In `SmallParts` a page that is
painted may stay as it is. Elsewhere `Finished` is the
only step of a finished system, so any other deadlock is reported.

## 4. Fairness

* `EngineLock`: `WF(Acquire)`. `acquireLock` is straight-line code without waiting.
  Starting, stopping and crashing are not fair.
* `Pipeline`, `Approvals`: `WF(Engine)`. The tick polls for ever; an agent and a
  command end by their timeouts; an operator starts the engine again after a crash.
  People, crashes and Ctrl-C are not fair, nor is any choice among outcomes.
* `Scheduler`: `WF` of the loop and of each goroutine, for the same reasons. Only safety
  is claimed: writes are bounded, and that no job starves is not.
* `Resources`: `WF(Finish)`: commands have timeouts. `SF(TakeSlot)`: a buffered channel
  serves waiting senders in order, so a waiting job gets a slot that keeps being
  freed. Acquiring a device is not fair: it polls, and its job may be unlucky.
* `Live`: goroutines and handlers run (`WF`). `SF(Poll)`, `SF(Quit)`: `select` picks
  at random among ready cases. `SF(List)`: a store that is read again and again
  is read with success at some time. `SF(Quiet)`: time passes, and a page without
  frames for its window notices. `WF(Ask)`: a browser reconnects after a drop.
  `WF(StopHub)`, `WF(CloseAll)`: the shutdown's two steps.
* `AgentRun`: goroutines run, deadlines come and a kill kills (`WF`); git calls have a
  deadline of their own. `SF(Tell)`: Go's mutex hands over to a starving waiter. The
  child has no fairness, and neither has what it leaves behind: both may hang for ever.
* `JobBranch`, `Diff`, `ReviewArtifacts`: none; only safety is claimed. `Scheduler` has its
  fairness in `Spec`; `SmallParts` leaves it out, since it checks safety.
* `Shared` conjoins the fairness of its two parts as their specifications state it.

## 5. What is proved

Every theorem holds for all values of the constants that satisfy the named
assumptions of its module, which are the ranges the configuration allows; `tlapm`
checks each to the last leaf.

| Module | Theorem | Inductive argument |
|---|---|---|
| `Shared_proofs`: `EngineLock` | `LockTypeCorrect`, `LiveLockKept`, `SingleEngine`, `LockImplementsDataDir`; all but the first under `~CanRemoveOpenFile` (Windows), without which they are false | `TypeOK /\ LockFileOfTheLive`: a running engine's file is on disk and open in its hands. Mutual exclusion follows, since there is one file; it is not inductive alone, because `Create` must know that a running engine's file is still there. The same invariant maps each step to a step of `DataDir` or a stutter |
| `Pipeline_proofs` | `TypeCorrect`, `AgentBudgetHolds`, `GatesHold`, `CheckedHolds`, `ShippedOnceHolds`, `RepairsAreDirected`, `LoopBudgetsHold` | `AgentInv`: an agent runs only when its invocation was affordable, so the charge at its end stays in the limit. `GatesInOrder` is inductive over `level` and the target of a bare resume: every move to a state is either from one that requires as much or behind a step that raises `level`. `CheckedAsItIs` needs `MovedKept` besides: a failed step's leftovers are on the branch of a held or cancelled job only, and a rebase only where the state to go on from relies on an approval. `ShipInv`: every shipment is paid for, by a crash or by the row that records it. Repairs: the row also fits the state that a bare resume or a suspension goes back to (`Fit`), not only the one it is in. `LoopsWithin`: a job that goes on has a round to go in each loop; only a stopped one may have used the last, which is why the cap holds after the next increment. `FixWithin` says the same of a fix that is still to be counted, in FIXING or behind a suspension |
| `Shared_proofs`: `Approvals` | `TypeCorrect`, `OnePendingHolds`, `ActedOnceHolds`, `ResumeClearsNoLaterHoldHolds`, `TableImplementsBox` | rows are only appended and consumed, never reopened; `ActInv`: what was carried out or is in hand is consumed, so it is never taken again. `DueInv`: until the tick looks at the controls, the job of a resume that is not due is not stopped, and only a cancel can come first. The refinement needs `BoxInv`: one row is pending per gate (so consuming a row takes its decision out of the box), rows say what they are (`Named`), and whatever the tick has in hand is still due where the job stands (`Placed`), since nobody but the tick moves the job |
| `Shared_proofs`: `Resources` | `LeaseTypeCorrect`, `LeasesHold` | `LeaseInv`: the leased serials are those some step holds, each held by one |
| `JobBranch_proofs` | `TypeCorrect`, `BaselineHolds`, `FixLeavesTestsHolds`, `HumanWorkKeptHolds`, `CheckpointsKeptHolds` | `BranchInv`, eight parts: the types; the step's copy agrees with the row; what a step has recorded by the time it comes to each call; the state's own work is neither below its baseline nor on the branch before there is one; a reset goes only to a record that has all there is to keep; what people did at rest is in the baseline; what the guard let pass; what it did not. The three action properties follow from it step by step |
| `Live_proofs` | `TypeCorrect`, `OwnershipHolds`, `NeverBackHolds` | `LiveInv`: `h.last` is at least as new as anything in a channel, in a writer's hand or painted on a page, and each channel is in order; so what is delivered next is never older than what a snapshot has painted |
| `AgentRun_proofs` | `TypeCorrect`, `AttemptLeavesNothing`, `CaptureHonest`, `StepsAreTakenUp`, `OnlyBackendSuspends` | `RunInv`: until a line was dropped, what the child said is what is kept followed by what is in the pipe; once one was dropped, the capture is full and shorter than what was said. So `Truncated` is right on every return path. `LastPassInv`: the committer ends early only under Ctrl-C, else it makes its last pass when nothing more can be reported. Suspensions: what is kept, in the pipe or returned was said by the child (`Heard`), so a line that suspends is one the CLI wrote itself |
| `SmallParts_proofs`: `Scheduler` | `LoopTypeCorrect`, `OneStepPerJobHolds`, `OffIsIdleHolds`, `OnceDrainsHolds` | `SlotInv`: a running slot's job is in `inFlight`, no two slots have one job, and the loop leaves only with all slots free. `DrainInv`: once a tick has found nothing and nothing is in flight, the jobs it has passed are not at work (`LastLook`), and an engine that returned without Ctrl-C has had that look (`Left`) |
| `SmallParts_proofs`: `ReviewArtifacts` | `ReviewTypeCorrect`, `OwnVotesDecide`, `FixerIsTold`, `MarksTravel` | `IInv`, seven parts. The review in a pass is the last one written and no other file is of its number (`Numbered`). In the pass its ids are distinct (the id minted for a finding without one is free, by the pigeonhole principle over the ids before it), so what is stored under an id are the verdicts cast for that finding (`Voting`). At the gate what blocks is in the copy `preferVerified` finds (`AtGate`). A copy that it may name, now or later, has the marks of every refutation of its review (`MarksKept`). From the gate on, the copy the fixer and the next round's reviewer will be handed stays the review that blocked, however often the state is lost, escalated or resumed (`BlockedKept`) |
| `Diff_proofs` | `Pages`, `ViewsMatch`, `TotalsHold` | `DInv`: every line is one git writes or a clipped one; the parser is `Sound`, that is, each file counts the additions and deletions of its hunks, those of the open hunk included, in every state and after every repair of a malformed patch; a painted page is what `fillFiles` makes of the files (`Painted`). What `fillFiles` makes is shown file by file (`Filling`): totals, budget, and no file rendered behind a stub but the one asked for. `SplitShows`: a block's rows show its deletions on the left and its additions on the right, and blocks in sequence show what their lines do in sequence. `ViewsMatch` is proved and has no run |
| `Patches_proofs` | `Refusals`, `Standing`, `TripsRound`, `CutsWarned`, `FlagsDamage`, `Tallied`, `LosesNothing` | A patch is a walk: each line of it leads from one place in the change (`Spots`: before it, among the headers of a file, in a hunk after so many lines) to the next (`Walks`, `Leads`), and git writes a patch along one (the lemmas on walks are at the end of `Diff_proofs`). Four invariants on it. `RInv`: the parser is in order and refuses only a combined diff. `WInv`: while the patch is whole and no surplus line of it reads like a header (`Plain`), the parser stands before each line at the place the line comes from (`Tied`): the files behind it read, the headers so far heard, the open hunk with the lines and the numbers so far; each kind of line takes it to the next place, so at the end it holds the change. `CInv`: a cut leaves it all of what is left read or one clipped line to read, from the place it stands at, and then no hunk that is short goes without a warning (`Fine`, `Warned`). `TInv`: what it holds echoes the body lines it has read and its files are as many as git's first lines, whatever the headers claim. `RoundTrip` follows from the first two, `DamageIsFlagged` from the first three, `NothingLost` from `RInv` and `TInv` |

**Recursion.** What a recursive definition computes needs an induction over data. Where the
proofs need one (the ids of a review, the folds of the diff page, the rows of a hunk) it is
an induction over a set of numbers (`NatSets`, from the least element of a set of naturals,
`WFMin`): the numbers up to which the recursion has a solution, the lengths for which the
solution has the property. `FlattenSeq`, by which the models put pieces together, is treated
so once, and distributes over concatenation for every operator built from it.

**Only model-checked.** Liveness and `ENABLED` are out of the prover's reach:
`OrphanNeverBlocks`, `ComesToRest`, `AgeLimitStops`, `CancelIsFinal`,
`PhasesRun`, `Converges`, `StaleFormDisabled`, `StreamsEnd`,
`Ends`. Every safety property of a passing run, action properties and
refinements included, is a theorem. The invariants of `Patches_proofs` speak of some walk
through the change, which TLC cannot enumerate: it checks their consequences
(`RoundTrip`, `DamageIsFlagged`, `NothingLost`), not them.

## 6. Where code and documents part

Four disagreements have a run of their own:

* **`SchedulerStale`.** `tick` copies all rows (`ListJobs`) before it asks, job by job,
  whether a step is in flight (`engine.go:143`). A step that ends in between leaves its
  job free with an older copy; the tick dispatches that state again or moves on from it,
  and `UpdateJob` writes the whole row back. `docs/SPEC.md:266` speaks of a "single
  goroutine", `store.go:207` of a "single-writer discipline". `WritesFollow` is violated.
* **`JobBranchSuspend`.** `transition` clears `StateEntryHead` on the way into a
  suspension as well (`engine.go:581`), so the FIXING that comes back measures from above
  its own checkpoints, and the guard does not see the test files in them.
  `docs/SPEC.md:1034-1036` and `558-560` say otherwise. `TestsProtected` is violated.
* **`ReviewsStale`.** `preferVerified` takes any verified copy of the round's name
  (`verify.go:351`), and neither a pass nor a person's rejection begins a new round. A plan
  that passed by a refutation and was sent back is reviewed again under the same name; when
  nothing is left to vote on, no copy is written and IMPLEMENTING is handed the old one.
  `handlers.go:221-223`: "Remember which artifact holds them so IMPLEMENTING can be handed
  them". `PassedFindingsHandedOn` is violated.
* **`ApprovalsStale`.** `requireFreshState` compares the name of the state
  (`safety.go:257`). A job that was sent back and has come to the same gate again has the
  same name, so the form of the earlier visit is accepted. `safety.go:236-243` "refuses a
  decision posted from a page that no longer describes the job". `FormsAreFresh` is
  violated.

Others are in the models, so that the properties had to be stated around them:

* *Lock.* Where an open file can be removed, `acquireLock` removes a live engine's lock
  (with `CanRemoveOpenFile = TRUE` in `Shared.cfg`, `OneAfterTheOther` fails). `SPEC.md:52-53`,
  `README.md:19` and `engine.go:59` promise one engine.
* *Checks.* Commits that people make on the branch are adopted wherever the job stands and
  are merged without a build (`jobctx.go:546`), as is what a failed step left when a person
  resumes without `--to`, and the result of the rebase unless `verify_after_rebase` is `build`
  (`handlers.go:755-775`). `CheckedAsItIs` names these three and excludes all others. A
  reviewer's edits can be such a leftover: a last attempt that times out or leaves no
  artifact does not come to `requireCleanTree` (`handlers.go:703-707`), and `preserveWork`
  (`jobctx.go:586`) commits them before the hold. `README.md:135-136`: "any tree
  modification is discarded and retried".
* *Holds.* A hold from a gate, CREATED or a suspension has no target for a bare resume
  (`engine.go:254`; `SPEC.md:126-127`). Ctrl-C fails the running step, and the job escalates
  (`engine.go:116`; `running.md:128-131`).
* *Approvals.* No tick looks at a job while its step runs, and `sdlc resume` writes its row
  whatever the state is. A resume recorded in that time is met when the step has ended in a
  hold, and clears a hold nobody has seen; `engine.go:283-284` ("Not held: consume so it
  doesn't linger") prevents that only when it comes first. `ResumeClearsNoLaterHold` excuses
  such a resume, by the mark `due`, and no other. The answer given at a prompt counts for whichever visit of the gate it is
  written at (`cli/review.go:171`). The error of
  `ConsumeApproval` is discarded (`engine.go:307`), and a crash after it loses the decision:
  `CancelIsFinal` excuses that.
* *Reviews.* What a verifier edits is not checked: `requireCleanTree` runs before the vote
  (`handlers.go:193`), though the comment at `verify.go:158` and `SPEC.md:453` count on it
  afterwards. PLANNING is handed the unverified review (`handlers.go:141`; `verify.go:346-350`).
  `last_design_review` stays when a later review blocks. With the threshold `nit`
  (`config.go:768-776` allows it) a refuted finding still blocks. An id that a reviewer chose is
  changed when a blank one before it is minted to the same (`verify.go:107-128`).
  `resume --to FIXING` without a note keeps an old `fix_source`.
* *Tick.* When `ListJobs` fails, `--once` leaves with work undone (`engine.go:109`):
  `OnceDrains` excuses it.
* *Resources.* The emulator is killed after its lease was given back (`resource.go:128`;
  `SPEC.md:243-244`); one that still boots is leased (`resource.go:106`).
* *Branch.* `syncHead` adopts a diverged branch (`jobctx.go:543-545` and `SPEC.md:687` say
  ESCALATE). `reconcile` resets to a sha read several calls earlier (`jobctx.go:715`): a commit
  made in those moments is lost. A crash between a rebase and its write makes MERGING report
  a diverged branch. A suspension leaves the tree
  dirty across states (`SPEC.md:697-698`).
* *Live.* `app.js:126` compares the names of states, so the page of an earlier visit of a
  gate is enabled again when the job is back there, though "the stream says this job has
  already moved" (`app.js:110-111`): `StaleFormDisabled` is about the states between, and
  `ApprovalsStale` shows what the server then accepts. With a tab open, Ctrl-C takes the whole grace period and `runServe` exits 1
  (`server.go:320-324`). A failing store behind a working connection leaves an old page "live"
  (`live.go:159-169`). A page that the server drew at one move is repainted with an older one by
  a stream that opens with `h.last` (`live.go:223`), which may be a poll old; and a stream opened
  before the hub has a snapshot may go back once. `ShownNeverGoesBack` excuses both: after
  its first snapshot, a page of any other stream is not taken back. A stream refused with 503 never reconnects
  (`server-spec.md:708`).
* *Agent runner.* `QuotaHit` looks through the whole transcript, also of a success
  (`agent.go:285`; `SPEC.md:599-600`). A JSON event line counts as an envelope
  (`agent.go:297-298`). `invoke` and `gitx.git` ignore `Truncated`. The deadline kills the
  child alone (`execx.go:133`), and `cmd.Run` waits for the end of an output that a process of
  the child's may hold open: there is neither a `WaitDelay` nor a process group, and under
  `cmd /c` the CLI itself is such a process. `SPEC.md:1042-1044` gives every state a timeout;
  `Ends` excuses a call whose output is held for good. Ctrl-C ends the committer without its last pass:
  `StepsTakenUp` excuses it.
* *Diff.* The kept copy of a clipped patch is shown without the banner (`diffpage.go:103-120`;
  server-spec 8.5), and the empty line before its trailer (`review.go:728-732`) is read as a
  blank context line that may complete the cut hunk. A hunk one side of which runs over while
  the other still owes is not flagged (`diff.go:477`; 45-50). A surplus line that reads like a
  header is taken for one.

## 7. What is not modelled

Review artifacts other than the reviews (spec, plan, implementation, fix, analysis,
problem) and the validation of their fields: a file that does not validate is one of
`Pipeline`'s agent failures. Gate announcements, review documents, web pages, prompts and
the command line's printing: rendering, which changes no job state. Submission: one insert
after validation. Configuration: its values are constants; loading and validation are not
modelled. Store: the rows and their writes are, the events table, SQL, migrations and
failing statements are not. Of the agent runner: argument lists, the splitting and
condensing of lines, prompt files, the wrapping on Windows, a log that cannot be written
(`execx.go:310`: the error ends the copying of the output) and processes that redirect
their output and live on. Of the branch: CREATED's
provisioning, the cleanup of a worktree, a cancel in mid-step, git calls that half fail,
verifiers that edit. Of the diff viewer: the quoting of paths, CRLF, the wording and cap of
warnings, marks inside a line, the single-file page and the parse cache.

## 8. The plan

Written, in this order, the most consequential first: `EngineLock`, `Pipeline`,
`Approvals`, `Scheduler`, `Resources`, `JobBranch`, `Live`, `AgentRun`, `Diff`,
`ReviewArtifacts`, `DecisionBox`, with proofs for each. Next:

1. An abstraction of `Scheduler`: each job's steps one after the other, each on the row
   that the one before left (which `SchedulerStale` refutes for ticks that look late).
2. `Pipeline` over `JobBranch`: `level` and `moved` as functions of the branch and the tree,
   so that "checked as it is" is derived from commits, with verifiers that edit and builds
   that see what is not committed.
3. A store whose statements fail, under `Approvals`: the discarded error of
   `ConsumeApproval`.
4. Configuration's validation, as far as the state machine relies on it, and gate
   announcements, as far as they fail a tick.
