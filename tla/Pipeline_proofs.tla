---------------------------- MODULE Pipeline_proofs ----------------------------
(***************************************************************************)
(* Type correctness and the main safety invariants of the job's state      *)
(* machine, for every limit, every choice of gates and every number of     *)
(* resumes, rejections and crashes.                                        *)
(*                                                                         *)
(* The type invariant is proved in two halves, the fields of the row and   *)
(* the place of the job; the others are proved on top of it, one after the *)
(* other: the agent budget, the order of the gates, the code as it is,     *)
(* what has shipped, where a repair resumes, and the rounds of each loop.  *)
(* Helper lemmas state what the operators on records return, so that the   *)
(* steps of the actions need not look inside them.                         *)
(***************************************************************************)
EXTENDS Pipeline, TLAPS

Rowed ==
  /\ wait \in BOOLEAN
  /\ cnt \in Counters
  /\ fixSource \in {"", "analysis", "code_review", "final_review", "human"}
  /\ failedPhase \in {"", "build", "unit", "lint", "ui"}
  /\ expired \in BOOLEAN /\ stopping \in BOOLEAN
  /\ level \in Levels
  /\ moved \in {"", "people", "leftover", "resumed", "rebase"}
  /\ spent \in Histories

Placed ==
  /\ state \in States
  /\ prev \in States \cup {""}
  /\ state \in Suspended => wait
  /\ run \in Steps
  /\ Whereabouts

(***************************************************************************)
(* The type invariant is its two halves.                                   *)
(***************************************************************************)
LEMMA TypeParts == TypeOK <=> Rowed /\ Placed
BY DEF TypeOK, Rowed, Placed

-----------------------------------------------------------------------------
(***************************************************************************)
(* A step begins at the place it is dispatched to.                         *)
(***************************************************************************)
LEMMA StepType ==
  ASSUME NEW pc \in {"idle", "agent", "verify", "handler", "committed",
                     "rebased", "shipped", "retarget"}
  PROVE  Step(pc) \in Steps /\ Step(pc).pc = pc
BY DEF Step, Idle, Steps

(***************************************************************************)
(* A step that has ended is idle.                                          *)
(***************************************************************************)
LEMMA IdleType == Idle \in Steps /\ Idle.pc = "idle"
BY DEF Idle, Steps

(***************************************************************************)
(* A retry of the agent changes the attempt only.                          *)
(***************************************************************************)
LEMMA RetryType ==
  ASSUME run \in Steps
  PROVE  /\ [run EXCEPT !.attempt = @ + 1] \in Steps
         /\ [run EXCEPT !.attempt = @ + 1].pc = run.pc
BY DEF Steps

(***************************************************************************)
(* An agent that is done hands over to the verify pass, which then has at  *)
(* least one finding before it, or to its handler.                         *)
(***************************************************************************)
LEMMA AgentSucceedsType ==
  ASSUME AgentSucceeds
  PROVE  /\ run' \in Steps
         /\ \/ run'.pc = "handler"
            \/ run'.pc = "verify" /\ run'.gating > 0 /\ state \in Reviewing
<1>1. PICK g \in IF state \in Reviewing THEN 0..MaxFindings ELSE {0} :
        run' = IF g > 0 /\ VerifyVotes > 0
                 THEN [Step("verify") EXCEPT !.gating = g]
                 ELSE [Step("handler") EXCEPT !.blocking = g > 0]
  BY DEF AgentSucceeds
<1>2. g \in Nat /\ (g > 0 => state \in Reviewing)
  BY BoundsAssumption
<1>3. CASE g > 0 /\ VerifyVotes > 0
  BY <1>1, <1>2, <1>3 DEF Step, Idle, Steps
<1>4. CASE ~(g > 0 /\ VerifyVotes > 0)
  <2>1. (g > 0) \in BOOLEAN
    OBVIOUS
  <2>2. QED
    BY <2>1, <1>1, <1>2, <1>4 DEF Step, Idle, Steps
<1>5. QED
  BY <1>3, <1>4

(***************************************************************************)
(* Deciding a finding leaves one less; the pass ends at the last.          *)
(***************************************************************************)
LEMMA DecideType ==
  ASSUME run \in Steps, run.pc = "verify", run.gating > 0,
         NEW stands \in BOOLEAN, Decide(stands)
  PROVE  /\ run' \in Steps
         /\ run'.pc \in {"verify", "handler"}
         /\ run'.pc = "verify" => run'.gating > 0
         /\ UNCHANGED <<state, prev, wait>>
<1>1. run.gating - 1 \in Nat /\ (run.blocking \/ stands) \in BOOLEAN
  BY DEF Steps
<1>2. /\ run'.gating = run.gating - 1
      /\ run'.pc = IF run.gating = 1 THEN "handler" ELSE "verify"
  BY DEF Decide, Steps
<1>3. run' \in Steps
  BY <1>1, <1>2 DEF Decide, Steps
<1>4. run'.pc = "verify" => run'.gating > 0
  BY <1>2 DEF Steps
<1>5. QED
  BY <1>2, <1>3, <1>4 DEF Decide

(***************************************************************************)
(* A charge adds to one counter and leaves the others alone.               *)
(***************************************************************************)
LEMMA ChargeType ==
  ASSUME cnt \in Counters, NEW c \in CounterNames, NEW n \in Nat
  PROVE  /\ Charge(c, n) \in Counters
         /\ Charge(c, n)[c] = cnt[c] + n
         /\ \A d \in CounterNames \ {c} : Charge(c, n)[d] = cnt[d]
BY DEF Charge, Counters

(***************************************************************************)
(* The charges the handlers make keep the counters typed.                  *)
(***************************************************************************)
LEMMA ChargeOne ==
  ASSUME cnt \in Counters
  PROVE  /\ Charge("scope", 1) \in Counters
         /\ Charge("design", 1) \in Counters
         /\ Charge("code", 1) \in Counters
         /\ Charge("fix", 1) \in Counters
         /\ Charge("flake", 1) \in Counters
         /\ Charge("rel", 1) \in Counters
         /\ \A n \in Nat : Charge("inv", n) \in Counters
BY ChargeType DEF CounterNames

(***************************************************************************)
(* The rungs are levels.                                                   *)
(***************************************************************************)
LEMMA LevelType ==
  /\ {0, Built, Tested, Reviewed, Approved, Merged, ReleaseOK} \subseteq Levels
  /\ \A s : Required(s) \in Levels
BY DEF Levels, Required, Built, Tested, Reviewed, Approved, Merged, ReleaseOK

(***************************************************************************)
(* The history is counted up in one field at a time.                       *)
(***************************************************************************)
LEMMA SpentType ==
  ASSUME spent \in Histories
  PROVE  /\ [spent EXCEPT !.resumes = @ + 1] \in Histories
         /\ [spent EXCEPT !.resumes = @ + 1, !.steered = TRUE] \in Histories
         /\ [spent EXCEPT !.rejects = @ + 1] \in Histories
         /\ [spent EXCEPT !.crashes = @ + 1] \in Histories
         /\ [spent EXCEPT !.ships = @ + 1] \in Histories
<1>1. [spent EXCEPT !.resumes = @ + 1] \in Histories
  BY DEF Histories
<1>2. [spent EXCEPT !.resumes = @ + 1, !.steered = TRUE] \in Histories
  <2>1. spent.resumes + 1 \in Nat
    BY DEF Histories
  <2>2. QED
    BY <2>1, Zenon DEF Histories
<1>3. [spent EXCEPT !.rejects = @ + 1] \in Histories
  BY DEF Histories
<1>4. [spent EXCEPT !.crashes = @ + 1] \in Histories
  BY DEF Histories
<1>5. [spent EXCEPT !.ships = @ + 1] \in Histories
  BY DEF Histories
<1>6. QED
  BY <1>1, <1>2, <1>3, <1>4, <1>5

-----------------------------------------------------------------------------

(***************************************************************************)
(* What a step does to the fields of the row keeps their types.            *)
(***************************************************************************)
LEMMA RowStep ==
  ASSUME Rowed, [Next]_vars
  PROVE  Rowed'
<1> USE LimitsAssumption, ChargeOne, LevelType, SpentType
    DEF Rowed, CounterNames, row, branch, env, Escalate, Changed, Adopt
<1>1. CASE DispatchAgent
  BY <1>1 DEF DispatchAgent
<1>2. CASE BudgetHold
  BY <1>2 DEF BudgetHold
<1>3. CASE DispatchPhase
  BY <1>3 DEF DispatchPhase
<1>4. CASE AgentFails
  BY <1>4 DEF AgentFails, Escalate
<1>5. CASE AgentSuspends
  BY <1>5 DEF AgentSuspends
<1>6. CASE AgentSucceeds
  BY <1>6 DEF AgentSucceeds
<1>7. CASE VerifyFinding
  BY <1>7 DEF VerifyFinding, Decide
<1>8. CASE VerifySkipped
  BY <1>8 DEF VerifySkipped, Decide
<1>9. CASE Created
  BY <1>9 DEF Created
<1>10. CASE Scoping
  BY <1>10 DEF Scoping
<1>11. CASE Planning
  BY <1>11 DEF Planning
<1>12. CASE DesignReview
  BY <1>12 DEF DesignReview, Escalate
<1>13. CASE Implementing
  BY <1>13 DEF Implementing
<1>14. CASE CodeReview
  BY <1>14 DEF CodeReview, Escalate
<1>15. CASE Building
  BY <1>15 DEF Building
<1>16. CASE Testing
  BY <1>16 DEF Testing
<1>17. CASE FlakeCheck
  BY <1>17 DEF FlakeCheck, Escalate
<1>18. CASE Analyzing
  BY <1>18 DEF Analyzing, Escalate
<1>19. CASE FixRecorded
  BY <1>19 DEF FixRecorded
<1>20. CASE FixDone
  BY <1>20 DEF FixDone
<1>21. CASE FixGivesUp
  BY <1>21 DEF FixGivesUp, Escalate
<1>22. CASE FinalReview
  BY <1>22 DEF FinalReview, Escalate
<1>22a. CASE Rebase
  BY <1>22a DEF Rebase
<1>23. CASE Merging
  BY <1>23 DEF Merging
<1>24. CASE ShipSucceeds
  BY <1>24 DEF ShipSucceeds
<1>25. CASE ReleaseDone
  BY <1>25 DEF ReleaseDone
<1>26. CASE ShipFails
  BY <1>26 DEF ShipFails, Escalate
<1>27. CASE HandlerFails
  BY <1>27 DEF HandlerFails, Escalate
<1>28. CASE TimeOut
  BY <1>28 DEF TimeOut
<1>29. CASE BackoffElapsed
  BY <1>29 DEF BackoffElapsed
<1>30. CASE WaitElapsed
  BY <1>30 DEF WaitElapsed
<1>31. CASE ScopeRetarget
  BY <1>31 DEF ScopeRetarget
<1>32. CASE Restart
  BY <1>32 DEF Restart
<1>33. CASE Approve
  BY <1>33 DEF Approve
<1>34. CASE RejectScope
  BY <1>34 DEF RejectScope, Rejecting
<1>35. CASE RejectSpec
  BY <1>35 DEF RejectSpec, Rejecting
<1>36. CASE RejectToFixing
  BY <1>36 DEF RejectToFixing, Rejecting
<1>37. CASE RejectRelease
  BY <1>37 DEF RejectRelease, Rejecting
<1>38. CASE Cancel
  BY <1>38 DEF Cancel
<1>39. CASE Resume
  BY <1>39 DEF Resume, Resuming
<1>40. CASE ResumeTo
  BY <1>40 DEF ResumeTo, Resuming
<1>41. CASE Expire
  BY <1>41 DEF Expire
<1>42. CASE RaiseLimit
  BY <1>42 DEF RaiseLimit
<1>43. CASE Stop
  BY <1>43 DEF Stop, Interrupted
<1>44. CASE Crash
  BY <1>44 DEF Crash, Interrupted
<1>45. CASE Finished
  BY <1>45 DEF Finished, vars
<1>46. CASE UNCHANGED vars
  BY <1>46 DEF vars
<1> QED
  BY <1>1, <1>2, <1>3, <1>4, <1>5, <1>6, <1>7, <1>8, <1>9, <1>10, <1>11,
     <1>12, <1>13, <1>14, <1>15, <1>16, <1>17, <1>18, <1>19, <1>20, <1>21,
     <1>22, <1>22a, <1>23, <1>24, <1>25, <1>26, <1>27, <1>28, <1>29, <1>30, <1>31,
     <1>32, <1>33, <1>34, <1>35, <1>36, <1>37, <1>38, <1>39, <1>40, <1>41,
     <1>42, <1>43, <1>44, <1>45, <1>46 DEF Next, Engine, Handler, People
(***************************************************************************)
(* ... and so does what it does to the place of the job: a transition to a *)
(* suspended state, for one, leaves from an agent state and sets the delay.*)
(***************************************************************************)
LEMMA PlaceStep ==
  ASSUME Placed, [Next]_vars
  PROVE  Placed'
<1> USE IdleType, StepType
    DEF Placed, Whereabouts, States, Runnable, Resumable, AgentStates, Reviewing,
        ProducesCode, Parked, Suspended, Held, Terminal,
        Move, Stay, InFlight, Between, Handling, AtGate, row, branch, env
<1>1. CASE DispatchAgent
  BY <1>1 DEF DispatchAgent, Dispatchable
<1>2. CASE BudgetHold
  BY <1>2 DEF BudgetHold, Dispatchable
<1>3. CASE DispatchPhase
  BY <1>3 DEF DispatchPhase, Dispatchable
<1>4. CASE AgentFails
  BY <1>4, RetryType DEF AgentFails, Escalate
<1>5. CASE AgentSuspends
  BY <1>5 DEF AgentSuspends
<1>6. CASE AgentSucceeds
  BY <1>6, AgentSucceedsType DEF AgentSucceeds
<1>7. CASE VerifyFinding
  BY <1>7, DecideType DEF VerifyFinding
<1>8. CASE VerifySkipped
  BY <1>8, DecideType DEF VerifySkipped
<1>9. CASE Created
  BY <1>9 DEF Created
<1>10. CASE Scoping
  BY <1>10 DEF Scoping
<1>11. CASE Planning
  BY <1>11 DEF Planning
<1>12. CASE DesignReview
  BY <1>12 DEF DesignReview, Escalate
<1>13. CASE Implementing
  BY <1>13 DEF Implementing
<1>14. CASE CodeReview
  BY <1>14 DEF CodeReview, Escalate
<1>15. CASE Building
  BY <1>15 DEF Building
<1>16. CASE Testing
  BY <1>16 DEF Testing
<1>17. CASE FlakeCheck
  BY <1>17 DEF FlakeCheck, Escalate
<1>18. CASE Analyzing
  BY <1>18 DEF Analyzing, Escalate
<1>19. CASE FixRecorded
  BY <1>19 DEF FixRecorded
<1>20. CASE FixDone
  BY <1>20 DEF FixDone
<1>21. CASE FixGivesUp
  BY <1>21 DEF FixGivesUp, Escalate
<1>22. CASE FinalReview
  BY <1>22 DEF FinalReview, Escalate
<1>22a. CASE Rebase
  BY <1>22a DEF Rebase
<1>23. CASE Merging
  BY <1>23 DEF Merging
<1>24. CASE ShipSucceeds
  BY <1>24 DEF ShipSucceeds
<1>25. CASE ReleaseDone
  BY <1>25 DEF ReleaseDone
<1>26. CASE ShipFails
  BY <1>26 DEF ShipFails, Escalate
<1>27. CASE HandlerFails
  BY <1>27 DEF HandlerFails, Escalate
<1>28. CASE TimeOut
  BY <1>28 DEF TimeOut
<1>29. CASE BackoffElapsed
  BY <1>29 DEF BackoffElapsed
<1>30. CASE WaitElapsed
  BY <1>30 DEF WaitElapsed
<1>31. CASE ScopeRetarget
  BY <1>31 DEF ScopeRetarget
<1>32. CASE Restart
  BY <1>32 DEF Restart
<1>33. CASE Approve
  BY <1>33 DEF Approve
<1>34. CASE RejectScope
  BY <1>34 DEF RejectScope, Rejecting
<1>35. CASE RejectSpec
  BY <1>35 DEF RejectSpec, Rejecting
<1>36. CASE RejectToFixing
  BY <1>36 DEF RejectToFixing, Rejecting
<1>37. CASE RejectRelease
  BY <1>37 DEF RejectRelease, Rejecting
<1>38. CASE Cancel
  BY <1>38 DEF Cancel
<1>39. CASE Resume
  BY <1>39 DEF Resume, Resuming
<1>40. CASE ResumeTo
  BY <1>40 DEF ResumeTo, Resuming
<1>41. CASE Expire
  BY <1>41 DEF Expire
<1>42. CASE RaiseLimit
  BY <1>42 DEF RaiseLimit
<1>43. CASE Stop
  BY <1>43 DEF Stop, Interrupted
<1>44. CASE Crash
  BY <1>44 DEF Crash, Interrupted
<1>45. CASE Finished
  BY <1>45 DEF Finished, vars
<1>46. CASE UNCHANGED vars
  BY <1>46 DEF vars
<1> QED
  BY <1>1, <1>2, <1>3, <1>4, <1>5, <1>6, <1>7, <1>8, <1>9, <1>10, <1>11,
     <1>12, <1>13, <1>14, <1>15, <1>16, <1>17, <1>18, <1>19, <1>20, <1>21,
     <1>22, <1>22a, <1>23, <1>24, <1>25, <1>26, <1>27, <1>28, <1>29, <1>30, <1>31,
     <1>32, <1>33, <1>34, <1>35, <1>36, <1>37, <1>38, <1>39, <1>40, <1>41,
     <1>42, <1>43, <1>44, <1>45, <1>46 DEF Next, Engine, Handler, People

(***************************************************************************)
(* A job starts typed.                                                     *)
(***************************************************************************)
LEMMA TypeInit == Init => TypeOK
<1> SUFFICES ASSUME Init PROVE Rowed /\ Placed
  BY TypeParts
<1>1. Rowed
  <2>1. cnt \in Counters
    BY DEF Init, Counters
  <2>2. spent \in Histories
    BY DEF Init, Histories
  <2>3. QED
    BY <2>1, <2>2, LevelType DEF Init, Rowed
<1>2. Placed
  BY IdleType DEF Init, Placed, Whereabouts, States, Runnable, Held, Suspended
<1>3. QED
  BY <1>1, <1>2

(***************************************************************************)
(* Every step keeps the types.                                             *)
(***************************************************************************)
LEMMA TypeStep ==
  ASSUME TypeOK, [Next]_vars
  PROVE  TypeOK'
<1>1. Rowed /\ Placed
  BY TypeParts
<1>2. Rowed' /\ Placed'
  BY <1>1, RowStep, PlaceStep
<1>3. QED
  BY <1>2 DEF TypeOK, Rowed, Placed

(***************************************************************************)
(* Type correctness: in every reachable state the row and the step in      *)
(* flight are of their types, and a suspended job has a delay to wait out  *)
(* and an agent state to come back to.                                     *)
(***************************************************************************)
THEOREM TypeCorrect == Spec => []TypeOK
<1>1. TypeOK /\ [Next]_vars => TypeOK'
  BY TypeStep
<1>2. QED
  BY <1>1, TypeInit, PTL DEF Spec

-----------------------------------------------------------------------------
(* The agent budget. *)

\* AgentBudget is inductive once an agent that runs is known to be affordable.
AgentInv ==
  /\ AgentBudget
  /\ run.pc = "agent" => Affordable(1)

(***************************************************************************)
(* A charge to the agent budget.                                           *)
(***************************************************************************)
LEMMA InvCharged ==
  ASSUME TypeOK
  PROVE  /\ cnt.inv \in Nat
         /\ \A n \in Nat : Charge("inv", n).inv = cnt.inv + n
BY ChargeType DEF TypeOK, Counters, CounterNames

(***************************************************************************)
(* A charge to another counter leaves the agent budget alone.              *)
(***************************************************************************)
LEMMA OtherCharged ==
  ASSUME TypeOK
  PROVE  /\ Charge("scope", 1).inv = cnt.inv
         /\ Charge("design", 1).inv = cnt.inv
         /\ Charge("code", 1).inv = cnt.inv
         /\ Charge("fix", 1).inv = cnt.inv
         /\ Charge("flake", 1).inv = cnt.inv
         /\ Charge("rel", 1).inv = cnt.inv
BY DEF TypeOK, Charge, Counters, CounterNames

(***************************************************************************)
(* The verify pass never leads back to an agent.                           *)
(***************************************************************************)
LEMMA VerifyCharged ==
  ASSUME TypeOK, VerifyFinding \/ VerifySkipped
  PROVE  run'.pc # "agent"
<1>1. run \in Steps /\ (run.pc = "verify" => run.gating > 0)
  BY DEF TypeOK, Whereabouts
<1>2. QED
  BY <1>1, DecideType, IdleType DEF VerifyFinding, VerifySkipped, Move

(***************************************************************************)
(* A new job has invoked no agent.                                         *)
(***************************************************************************)
LEMMA AgentInit == Init => AgentInv
<1> SUFFICES ASSUME Init PROVE AgentInv
  OBVIOUS
<1>1. cnt.inv = 0
  BY DEF Init, CounterNames
<1>2. run.pc # "agent"
  BY IdleType DEF Init
<1>3. QED
  BY <1>1, <1>2, LimitsAssumption DEF AgentInv, AgentBudget

(***************************************************************************)
(* Every charge to the agent budget is preceded by a check that it fits.   *)
(***************************************************************************)
LEMMA AgentStep ==
  ASSUME TypeOK, AgentInv, [Next]_vars
  PROVE  AgentInv'
<1> USE LimitsAssumption, IdleType, StepType, InvCharged, OtherCharged
    DEF AgentInv, AgentBudget, Affordable, Move, Stay, InFlight, Between, Handling, AtGate, row, branch, env
<1>1. CASE DispatchAgent
  BY <1>1 DEF DispatchAgent
<1>2. CASE BudgetHold
  BY <1>2 DEF BudgetHold
<1>3. CASE DispatchPhase
  BY <1>3 DEF DispatchPhase
<1>4. CASE AgentFails
  <2>1. cnt'.inv = cnt.inv + 1 /\ Affordable(1)
    BY <1>4 DEF AgentFails, Escalate, TypeOK, Whereabouts
  <2>2. run'.pc = "agent" => cnt.inv + 2 <= MaxAgentInvocations
    BY <1>4 DEF AgentFails, Escalate
  <2>3. QED
    BY <2>1, <2>2
<1>5. CASE AgentSuspends
  BY <1>5 DEF AgentSuspends
<1>6. CASE AgentSucceeds
  BY <1>6, AgentSucceedsType DEF AgentSucceeds, TypeOK
<1>7. CASE VerifyFinding
  BY <1>7, VerifyCharged DEF VerifyFinding, Decide
<1>8. CASE VerifySkipped
  BY <1>8, VerifyCharged DEF VerifySkipped, Decide
<1>9. CASE Created
  BY <1>9 DEF Created
<1>10. CASE Scoping
  BY <1>10 DEF Scoping
<1>11. CASE Planning
  BY <1>11 DEF Planning
<1>12. CASE DesignReview
  BY <1>12 DEF DesignReview, Escalate
<1>13. CASE Implementing
  BY <1>13 DEF Implementing
<1>14. CASE CodeReview
  BY <1>14 DEF CodeReview, Escalate
<1>15. CASE Building
  BY <1>15 DEF Building
<1>16. CASE Testing
  BY <1>16 DEF Testing
<1>17. CASE FlakeCheck
  BY <1>17 DEF FlakeCheck, Escalate
<1>18. CASE Analyzing
  BY <1>18 DEF Analyzing, Escalate
<1>19. CASE FixRecorded
  BY <1>19 DEF FixRecorded
<1>20. CASE FixDone
  BY <1>20 DEF FixDone
<1>21. CASE FixGivesUp
  BY <1>21 DEF FixGivesUp, Escalate
<1>22. CASE FinalReview
  BY <1>22 DEF FinalReview, Escalate
<1>22a. CASE Rebase
  BY <1>22a DEF Rebase
<1>23. CASE Merging
  BY <1>23 DEF Merging
<1>24. CASE ShipSucceeds
  BY <1>24 DEF ShipSucceeds
<1>25. CASE ReleaseDone
  BY <1>25 DEF ReleaseDone
<1>26. CASE ShipFails
  BY <1>26 DEF ShipFails, Escalate
<1>27. CASE HandlerFails
  BY <1>27 DEF HandlerFails, Escalate
<1>28. CASE TimeOut
  BY <1>28 DEF TimeOut
<1>29. CASE BackoffElapsed
  BY <1>29 DEF BackoffElapsed
<1>30. CASE WaitElapsed
  BY <1>30 DEF WaitElapsed
<1>31. CASE ScopeRetarget
  BY <1>31 DEF ScopeRetarget
<1>32. CASE Restart
  BY <1>32 DEF Restart
<1>33. CASE Approve
  BY <1>33 DEF Approve
<1>34. CASE RejectScope
  BY <1>34 DEF RejectScope, Rejecting
<1>35. CASE RejectSpec
  BY <1>35 DEF RejectSpec, Rejecting
<1>36. CASE RejectToFixing
  BY <1>36 DEF RejectToFixing, Rejecting
<1>37. CASE RejectRelease
  BY <1>37 DEF RejectRelease, Rejecting
<1>38. CASE Cancel
  BY <1>38 DEF Cancel
<1>39. CASE Resume
  BY <1>39 DEF Resume, Resuming
<1>40. CASE ResumeTo
  BY <1>40 DEF ResumeTo, Resuming
<1>41. CASE Expire
  BY <1>41 DEF Expire
<1>42. CASE RaiseLimit
  BY <1>42 DEF RaiseLimit
<1>43. CASE Stop
  BY <1>43 DEF Stop, Interrupted
<1>44. CASE Crash
  BY <1>44 DEF Crash, Interrupted
<1>45. CASE Finished
  BY <1>45 DEF Finished, vars
<1>46. CASE UNCHANGED vars
  BY <1>46 DEF vars
<1> QED
  BY <1>1, <1>2, <1>3, <1>4, <1>5, <1>6, <1>7, <1>8, <1>9, <1>10, <1>11,
     <1>12, <1>13, <1>14, <1>15, <1>16, <1>17, <1>18, <1>19, <1>20, <1>21,
     <1>22, <1>22a, <1>23, <1>24, <1>25, <1>26, <1>27, <1>28, <1>29, <1>30, <1>31,
     <1>32, <1>33, <1>34, <1>35, <1>36, <1>37, <1>38, <1>39, <1>40, <1>41,
     <1>42, <1>43, <1>44, <1>45, <1>46 DEF Next, Engine, Handler, People

(***************************************************************************)
(* limits.max_agent_invocations_per_job is never exceeded.                 *)
(***************************************************************************)
THEOREM AgentBudgetHolds == Spec => []AgentBudget
<1>1. Init => TypeOK /\ AgentInv
  BY TypeInit, AgentInit
<1>2. TypeOK /\ AgentInv /\ [Next]_vars => TypeOK' /\ AgentInv'
  BY TypeStep, AgentStep
<1>3. AgentInv => AgentBudget
  BY DEF AgentInv
<1>4. QED
  BY <1>1, <1>2, <1>3, PTL DEF Spec


-----------------------------------------------------------------------------
(* The order of the gates. *)

(***************************************************************************)
(* The rung of each state that relies on one; all the others rely on none. *)
(***************************************************************************)
LEMMA RequiredOf ==
  /\ Required("TESTING") = Built /\ Required("FLAKE_CHECK") = Built
  /\ Required("FINAL_REVIEW") = Tested
  /\ Required("AWAITING_MERGE_APPROVAL") = Reviewed
  /\ Required("MERGING") = Approved
  /\ Required("AWAITING_RELEASE_APPROVAL") = Merged
  /\ Required("COMPLETED") = Merged
  /\ Required("RELEASING") = ReleaseOK
  /\ \A s \in {"SCOPING", "PLANNING", "DESIGN_REVIEW", "IMPLEMENTING",
               "CODE_REVIEW", "BUILDING", "ANALYZING", "FIXING",
               "AWAITING_SCOPE_APPROVAL", "AWAITING_SPEC_APPROVAL",
               "AWAITING_CODE_APPROVAL", "CREATED", "CANCELLED", "ESCALATED",
               "TIMED_OUT", "BLOCKED_ON_QUOTA", "BLOCKED_ON_NETWORK"} : Required(s) = 0
BY DEF Required

\* The states in which work has stopped to be resumed where it was.
Paused == Held \cup Suspended

(***************************************************************************)
(* There are four of them.                                                 *)
(***************************************************************************)
LEMMA PausedStates ==
  Paused = {"ESCALATED", "TIMED_OUT", "BLOCKED_ON_QUOTA", "BLOCKED_ON_NETWORK"}
BY DEF Paused, Held, Suspended

(***************************************************************************)
(* The invariant, read at a paused and at any other state.                 *)
(***************************************************************************)
LEMMA GatesRead ==
  GatesInOrder <=> IF state \in Paused THEN Required(prev) <= level
                                       ELSE Required(state) <= level
BY DEF GatesInOrder, ResumePoint, Paused

(***************************************************************************)
(* A pause keeps the resume point, or makes it a pause that relies on      *)
(* nothing (a suspended job that times out).                               *)
(***************************************************************************)
LEMMA PauseGates ==
  ASSUME GatesInOrder, level \in Levels, level' = level,
         NEW next \in Paused, Move(next)
  PROVE  GatesInOrder'
<1>1. Required(state) <= level
  <2>1. CASE state \in Paused
    BY <2>1, PausedStates, RequiredOf DEF Levels
  <2>2. CASE state \notin Paused
    BY <2>2, GatesRead
  <2>3. QED
    BY <2>1, <2>2
<1>2. QED
  BY <1>1 DEF Move, GatesInOrder, ResumePoint, Paused

(***************************************************************************)
(* A transition elsewhere is in order when the level reaches the rung of   *)
(* the state it enters.                                                    *)
(***************************************************************************)
LEMMA MoveGates ==
  ASSUME NEW next, next \notin Paused, Move(next), Required(next) <= level'
  PROVE  GatesInOrder'
BY DEF Move, GatesInOrder, ResumePoint, Paused

\* The states that rely on no rung, and are no pause.
Free ==
  {"SCOPING", "PLANNING", "DESIGN_REVIEW", "IMPLEMENTING", "CODE_REVIEW",
   "BUILDING", "ANALYZING", "FIXING", "AWAITING_SCOPE_APPROVAL",
   "AWAITING_SPEC_APPROVAL", "AWAITING_CODE_APPROVAL", "CANCELLED"}

(***************************************************************************)
(* A transition to a state that relies on nothing is in order.             *)
(***************************************************************************)
LEMMA FreeGates ==
  ASSUME NEW next \in Free, Move(next), level' \in Levels
  PROVE  GatesInOrder'
<1>1. next \notin Paused /\ Required(next) = 0
  BY PausedStates, RequiredOf DEF Free
<1>2. Required(next) <= level'
  BY <1>1 DEF Levels
<1>3. QED
  BY <1>1, <1>2, MoveGates

(***************************************************************************)
(* So is a step that leaves the job where it is, and its level alone.      *)
(***************************************************************************)
LEMMA StayGates ==
  ASSUME GatesInOrder, UNCHANGED <<state, prev, level>>
  PROVE  GatesInOrder'
BY DEF GatesInOrder, ResumePoint

(***************************************************************************)
(* A state that is no pause relies on its own rung.                        *)
(***************************************************************************)
LEMMA ActiveGates ==
  ASSUME GatesInOrder, state \notin Paused
  PROVE  Required(state) <= level
BY GatesRead

(***************************************************************************)
(* A new job relies on nothing.                                            *)
(***************************************************************************)
LEMMA GatesInit == Init => GatesInOrder
<1>1. Required("CREATED") = 0
  BY RequiredOf
<1>2. "CREATED" \notin Paused
  BY PausedStates
<1>3. Init => state = "CREATED" /\ level = 0
  BY DEF Init
<1>4. QED
  BY <1>1, <1>2, <1>3, GatesRead

(***************************************************************************)
(* A step enters a state only at its rung.                                 *)
(***************************************************************************)
LEMMA GatesStep ==
  ASSUME TypeOK, TypeOK', GatesInOrder, [Next]_vars
  PROVE  GatesInOrder'
<1> DEFINE Pausing == \E next \in Paused : Move(next) /\ level' = level
           Freeing == \E next \in Free : Move(next)
           Staying == UNCHANGED <<state, prev, level>>
<1>a. level \in Levels /\ level' \in Levels
  BY DEF TypeOK
<1>b. ASSUME Pausing \/ Freeing \/ Staying PROVE GatesInOrder'
  BY <1>a, <1>b, PauseGates, FreeGates, StayGates
<1>1. CASE DispatchAgent
  <2>1. CASE state \in ProducesCode
    <3>1. state \notin Paused /\ Required(state) = 0 /\ state' = state
      BY <2>1, <1>1, PausedStates, RequiredOf DEF DispatchAgent, ProducesCode
    <3>2. level' = 0
      BY <2>1, <1>1 DEF DispatchAgent
    <3>3. QED
      BY <3>1, <3>2 DEF GatesInOrder, ResumePoint, Paused
  <2>2. CASE state \notin ProducesCode
    BY <2>2, <1>1, <1>b DEF DispatchAgent
  <2>3. QED
    BY <2>1, <2>2
<1>2. CASE BudgetHold
  <2>1. Pausing
    BY <1>2, PausedStates DEF BudgetHold, env, branch, row
  <2>2. QED
    BY <2>1, <1>b
<1>3. CASE DispatchPhase
  <2>1. Staying
    BY <1>3 DEF DispatchPhase, env, branch, row
  <2>2. QED
    BY <2>1, <1>b
<1>4. CASE AgentFails
  <2>1. Pausing \/ Staying
    BY <1>4, PausedStates DEF AgentFails, Escalate, env, branch, row
  <2>2. QED
    BY <2>1, <1>b
<1>5. CASE AgentSuspends
  <2>1. Pausing
    BY <1>5, PausedStates DEF AgentSuspends, Paused, env, branch, row
  <2>2. QED
    BY <2>1, <1>b
<1>6. CASE AgentSucceeds
  <2>1. Staying
    BY <1>6 DEF AgentSucceeds, env, branch, row
  <2>2. QED
    BY <2>1, <1>b
<1>7. CASE VerifyFinding
  <2>1. Pausing \/ Staying
    BY <1>7, PausedStates DEF VerifyFinding, Decide, Paused, env, branch, row
  <2>2. QED
    BY <2>1, <1>b
<1>8. CASE VerifySkipped
  <2>1. Staying
    BY <1>8 DEF VerifySkipped, Decide, Paused, env, branch, row
  <2>2. QED
    BY <2>1, <1>b
<1>9. CASE Created
  <2>1. Freeing
    BY <1>9 DEF Created, Free, env, branch, row
  <2>2. QED
    BY <2>1, <1>b
<1>10. CASE Scoping
  <2>1. Freeing
    BY <1>10 DEF Scoping, Free, env, branch, row
  <2>2. QED
    BY <2>1, <1>b
<1>11. CASE Planning
  <2>1. Freeing
    BY <1>11 DEF Planning, Free, env, branch, row
  <2>2. QED
    BY <2>1, <1>b
<1>12. CASE DesignReview
  <2>1. Pausing \/ Freeing
    BY <1>12, PausedStates DEF DesignReview, Escalate, Free, env, branch, row
  <2>2. QED
    BY <2>1, <1>b
<1>13. CASE Implementing
  <2>1. Freeing
    BY <1>13 DEF Implementing, Free, env, branch, row
  <2>2. QED
    BY <2>1, <1>b
<1>14. CASE CodeReview
  <2>1. Pausing \/ Freeing
    BY <1>14, PausedStates DEF CodeReview, Escalate, Free, env, branch, row
  <2>2. QED
    BY <2>1, <1>b
<1>15. CASE Building
  <2>1. Freeing \/ (Move("TESTING") /\ level' = Built)
    BY <1>15 DEF Building, Free
  <2>2. QED
    BY <2>1, <1>b, MoveGates, PausedStates, RequiredOf DEF Built
<1>16. CASE Testing
  <2>1. CASE Staying \/ Freeing
    BY <2>1, <1>b
  <2>2. CASE Move("FINAL_REVIEW") /\ level' = Tested
    BY <2>2, MoveGates, PausedStates, RequiredOf DEF Tested
  <2>3. CASE Move("FLAKE_CHECK") /\ level' = level
    <3>1. state = "TESTING"
      BY <1>16 DEF Testing, Handling
    <3>2. Required("FLAKE_CHECK") <= level'
      BY <2>3, <3>1, ActiveGates, PausedStates, RequiredOf
    <3>3. QED
      BY <2>3, <3>2, MoveGates, PausedStates
  <2>4. QED
    BY <1>16, <2>1, <2>2, <2>3 DEF Testing, Stay, Free, branch
<1>17. CASE FlakeCheck
  <2>1. Pausing \/ Freeing \/ (Move("TESTING") /\ level' = level)
    BY <1>17, PausedStates DEF FlakeCheck, Escalate, Free, env, branch
  <2>2. CASE Move("TESTING") /\ level' = level
    <3>1. state = "FLAKE_CHECK"
      BY <1>17 DEF FlakeCheck, Escalate, Handling
    <3>2. Required("TESTING") <= level'
      BY <2>2, <3>1, ActiveGates, PausedStates, RequiredOf
    <3>3. QED
      BY <2>2, <3>2, MoveGates, PausedStates
  <2>3. QED
    BY <2>1, <2>2, <1>b
<1>18. CASE Analyzing
  <2>1. Pausing \/ Freeing
    BY <1>18, PausedStates DEF Analyzing, Escalate, Free, env, branch, row
  <2>2. QED
    BY <2>1, <1>b
<1>19. CASE FixRecorded
  <2>1. Staying
    BY <1>19 DEF FixRecorded, env, branch, row
  <2>2. QED
    BY <2>1, <1>b
<1>20. CASE FixDone
  <2>1. Freeing
    BY <1>20 DEF FixDone, Free, env, branch, row
  <2>2. QED
    BY <2>1, <1>b
<1>21. CASE FixGivesUp
  <2>1. Pausing
    BY <1>21, PausedStates DEF FixGivesUp, Escalate, env, branch, row
  <2>2. QED
    BY <2>1, <1>b
<1>22. CASE FinalReview
  <2>1. \/ Pausing \/ Freeing
        \/ Move("AWAITING_MERGE_APPROVAL") /\ level' = Reviewed
    BY <1>22, PausedStates DEF FinalReview, Escalate, Free
  <2>2. QED
    BY <2>1, <1>b, MoveGates, PausedStates, RequiredOf DEF Reviewed
<1>22a. CASE Rebase
  <2>1. Staying
    BY <1>22a DEF Rebase, env, branch, row
  <2>2. QED
    BY <2>1, <1>b
<1>23. CASE Merging
  <2>1. Move("AWAITING_RELEASE_APPROVAL") /\ level' = Merged
    BY <1>23 DEF Merging
  <2>2. QED
    BY <2>1, MoveGates, PausedStates, RequiredOf DEF Merged
<1>24. CASE ShipSucceeds
  <2>1. Staying
    BY <1>24 DEF ShipSucceeds, env, branch, row
  <2>2. QED
    BY <2>1, <1>b
<1>25. CASE ReleaseDone
  <2>1. Move("COMPLETED") /\ level' = level /\ state = "RELEASING"
    BY <1>25 DEF ReleaseDone, env, branch, row, TypeOK, Whereabouts
  <2>2. Required("COMPLETED") <= level'
    BY <2>1, <1>a, ActiveGates, PausedStates, RequiredOf
    DEF Levels, Merged, ReleaseOK
  <2>3. QED
    BY <2>1, <2>2, MoveGates, PausedStates
<1>26. CASE ShipFails
  <2>1. Pausing \/ Staying
    BY <1>26, PausedStates DEF ShipFails, Escalate, Stay, env, branch, row
  <2>2. QED
    BY <2>1, <1>b
<1>27. CASE HandlerFails
  <2>1. Pausing
    BY <1>27, PausedStates DEF HandlerFails, Escalate, env, branch, row
  <2>2. QED
    BY <2>1, <1>b
<1>28. CASE TimeOut
  <2>1. Pausing
    BY <1>28, PausedStates DEF TimeOut, env, branch, row
  <2>2. QED
    BY <2>1, <1>b
<1>29. CASE BackoffElapsed
  <2>1. state \in Paused /\ prev \in AgentStates
    BY <1>29 DEF BackoffElapsed, TypeOK, Whereabouts, Paused
  <2>2. prev \notin Paused
    BY <2>1, PausedStates DEF AgentStates, Reviewing, ProducesCode
  <2>3. Required(prev) <= level' /\ Move(prev)
    BY <2>1, <1>29, GatesRead DEF BackoffElapsed, branch
  <2>4. QED
    BY <2>2, <2>3, MoveGates
<1>30. CASE WaitElapsed
  <2>1. Staying
    BY <1>30 DEF WaitElapsed, env, branch, row
  <2>2. QED
    BY <2>1, <1>b
<1>31. CASE ScopeRetarget
  <2>1. state \in Paused /\ state' = state /\ prev' = "SCOPING"
    BY <1>31, PausedStates DEF ScopeRetarget, TypeOK, Whereabouts
  <2>2. Required("SCOPING") <= level'
    BY <1>a, RequiredOf DEF Levels
  <2>3. QED
    BY <2>1, <2>2 DEF GatesInOrder, ResumePoint, Paused
<1>32. CASE Restart
  <2>1. Staying
    BY <1>32 DEF Restart, env, branch, row
  <2>2. QED
    BY <2>1, <1>b
<1>33. CASE Approve
  <2>1. \/ Freeing
        \/ Move("MERGING") /\ level' = Approved
        \/ Move("RELEASING") /\ level' = ReleaseOK
    BY <1>33 DEF Approve, Free
  <2>2. QED
    BY <2>1, <1>b, MoveGates, PausedStates, RequiredOf DEF Approved, ReleaseOK
<1>34. CASE RejectScope
  <2>1. CASE Freeing
    BY <2>1, <1>b
  <2>2. CASE prev' = state /\ state' = "ESCALATED"
    <3>1. Required(prev') <= level'
      BY <2>2, <1>34, <1>a, RequiredOf DEF RejectScope, AtGate, Levels
    <3>2. QED
      BY <2>2, <3>1, PausedStates DEF GatesInOrder, ResumePoint, Paused
  <2>3. QED
    BY <1>34, <2>1, <2>2 DEF RejectScope, Free
<1>35. CASE RejectSpec
  <2>1. Freeing
    BY <1>35 DEF RejectSpec, Rejecting, Free, env, branch, row
  <2>2. QED
    BY <2>1, <1>b
<1>36. CASE RejectToFixing
  <2>1. Freeing
    BY <1>36 DEF RejectToFixing, Rejecting, Free, env, branch, row
  <2>2. QED
    BY <2>1, <1>b
<1>37. CASE RejectRelease
  <2>1. Move("COMPLETED") /\ level' = level /\ state = "AWAITING_RELEASE_APPROVAL"
    BY <1>37 DEF RejectRelease, Rejecting, env, branch, row, AtGate
  <2>2. Required("COMPLETED") <= level'
    BY <2>1, <1>a, ActiveGates, PausedStates, RequiredOf
    DEF Levels, Merged, ReleaseOK
  <2>3. QED
    BY <2>1, <2>2, MoveGates, PausedStates
<1>38. CASE Cancel
  <2>1. Freeing
    BY <1>38 DEF Cancel, Free, env, branch, row
  <2>2. QED
    BY <2>1, <1>b
<1>39. CASE Resume
  <2>1. state \in Paused /\ prev \in Resumable /\ Move(prev) /\ level' = level
    BY <1>39 DEF Resume, Resuming, Paused
  <2>2. prev \notin Paused
    BY <2>1, PausedStates DEF Resumable, AgentStates, Reviewing, ProducesCode
  <2>3. Required(prev) <= level'
    BY <2>1, GatesRead
  <2>4. QED
    BY <2>1, <2>2, <2>3, MoveGates
<1>40. CASE ResumeTo
  <2>1. PICK to \in Resumable :
          Move(to) /\ level' = IF level < Required(to) THEN Required(to) ELSE level
    BY <1>40 DEF ResumeTo, Resuming
  <2>2. to \notin Paused
    BY PausedStates DEF Resumable, AgentStates, Reviewing, ProducesCode
  <2>3. Required(to) \in Levels
    BY LevelType
  <2>4. Required(to) <= level'
    BY <2>1, <2>3, <1>a DEF Levels, ReleaseOK
  <2>5. QED
    BY <2>1, <2>2, <2>4, MoveGates
<1>41. CASE Expire
  <2>1. Staying
    BY <1>41 DEF Expire, env, branch, row
  <2>2. QED
    BY <2>1, <1>b
<1>42. CASE RaiseLimit
  <2>1. Staying
    BY <1>42 DEF RaiseLimit, env, branch, row
  <2>2. QED
    BY <2>1, <1>b
<1>43. CASE Stop
  <2>1. Staying
    BY <1>43 DEF Stop, Interrupted, env, branch, row
  <2>2. QED
    BY <2>1, <1>b
<1>44. CASE Crash
  <2>1. Staying
    BY <1>44 DEF Crash, Interrupted, env, branch, row
  <2>2. QED
    BY <2>1, <1>b
<1>45. CASE Finished
  <2>1. Staying
    BY <1>45 DEF Finished, vars, env, branch, row
  <2>2. QED
    BY <2>1, <1>b
<1>46. CASE UNCHANGED vars
  BY <1>46, <1>b DEF vars, branch
<1> QED
  BY <1>1, <1>2, <1>3, <1>4, <1>5, <1>6, <1>7, <1>8, <1>9, <1>10, <1>11,
     <1>12, <1>13, <1>14, <1>15, <1>16, <1>17, <1>18, <1>19, <1>20, <1>21,
     <1>22, <1>22a, <1>23, <1>24, <1>25, <1>26, <1>27, <1>28, <1>29, <1>30, <1>31,
     <1>32, <1>33, <1>34, <1>35, <1>36, <1>37, <1>38, <1>39, <1>40, <1>41,
     <1>42, <1>43, <1>44, <1>45, <1>46 DEF Next, Engine, Handler, People

(***************************************************************************)
(* No job comes to the merge or the release that has not come up every     *)
(* rung before, in order, since an agent was last at its code: whatever    *)
(* the limits, the gates, and the number of resumes and crashes.           *)
(***************************************************************************)
THEOREM GatesHold == Spec => []GatesInOrder
<1>1. Init => TypeOK /\ GatesInOrder
  BY TypeInit, GatesInit
<1>2. TypeOK /\ GatesInOrder /\ [Next]_vars => TypeOK' /\ GatesInOrder'
  BY TypeStep, GatesStep
<1>3. QED
  BY <1>1, <1>2, PTL DEF Spec

-----------------------------------------------------------------------------
(* The code as it is. *)

(***************************************************************************)
(* CheckedAsItIs is inductive on top of the order of the gates once it is  *)
(* known where what a failed step left, and a rebase, can still be found:  *)
(* the one at a hold, the other from MERGING on, or at a cancelled job.    *)
(***************************************************************************)
MovedKept ==
  /\ moved = "leftover" => state \in {"ESCALATED", "CANCELLED"}
  /\ moved = "rebase" => state = "CANCELLED" \/ Required(ResumePoint) >= Approved

(***************************************************************************)
(* What changes the code is told, or nothing does.                         *)
(***************************************************************************)
LEMMA ChangedTo ==
  ASSUME NEW by, Changed(by)
  PROVE  moved' = moved \/ moved' = by
BY DEF Changed

(***************************************************************************)
(* A step that leaves the job where it is keeps what is known of the code  *)
(* if it keeps the code, or makes it people's or the agents' once more.    *)
(***************************************************************************)
LEMMA StayMoved ==
  ASSUME MovedKept, UNCHANGED <<state, prev>>,
         moved' \in {moved, "", "people", "resumed"}
  PROVE  MovedKept'
BY DEF MovedKept, ResumePoint

\* Where nobody can have left anything, and nothing has been rebased.
Early ==
  {"CREATED", "SCOPING", "PLANNING", "DESIGN_REVIEW", "IMPLEMENTING", "CODE_REVIEW",
   "BUILDING", "TESTING", "FLAKE_CHECK", "ANALYZING", "FIXING", "FINAL_REVIEW",
   "AWAITING_SCOPE_APPROVAL", "AWAITING_SPEC_APPROVAL", "AWAITING_CODE_APPROVAL",
   "AWAITING_MERGE_APPROVAL"}

\* Where merging has begun.
Late == {"MERGING", "AWAITING_RELEASE_APPROVAL", "RELEASING", "COMPLETED"}

(***************************************************************************)
(* Every state is early, late, a pause or the end of a cancelled job.      *)
(***************************************************************************)
LEMMA StagesOf ==
  /\ States = Early \cup Late \cup Paused \cup {"CANCELLED"}
  /\ \A s \in Early : s \notin Paused /\ s \notin Late /\ ~(Required(s) >= Approved)
  /\ \A s \in Late : s \notin Paused /\ s \notin Early /\ Required(s) >= Approved
  /\ "ESCALATED" \in Paused /\ "CANCELLED" \notin Paused \cup Early \cup Late
<1>1. States = Early \cup Late \cup Paused \cup {"CANCELLED"}
  BY PausedStates
  DEF States, Runnable, Resumable, AgentStates, Reviewing, ProducesCode, Parked,
      Suspended, Held, Terminal, Early, Late
<1>2. \A s \in Early : s \notin Paused /\ s \notin Late
  BY PausedStates DEF Early, Late
<1>3. \A s \in Late : s \notin Paused
  BY PausedStates DEF Late
<1>4. \A s \in Early : ~(Required(s) >= Approved)
  BY RequiredOf DEF Early, Built, Tested, Reviewed, Approved
<1>5. \A s \in Late : Required(s) >= Approved
  BY RequiredOf DEF Late, Approved, Merged, ReleaseOK
<1>6. QED
  BY <1>1, <1>2, <1>3, <1>4, <1>5, PausedStates DEF Early, Late

(***************************************************************************)
(* At an early state the code is the agents' own, or people's.             *)
(***************************************************************************)
LEMMA EarlyMoved ==
  ASSUME MovedKept, state \in Early
  PROVE  moved # "leftover" /\ moved # "rebase"
BY StagesOf, PausedStates DEF MovedKept, ResumePoint, Paused, Early

(***************************************************************************)
(* At a late one a rebase may have changed it too.                         *)
(***************************************************************************)
LEMMA LateMoved ==
  ASSUME MovedKept, state \in Late
  PROVE  moved # "leftover"
BY DEF MovedKept, Late

(***************************************************************************)
(* Code that has neither leftovers nor a rebase in it is as it should be   *)
(* anywhere.                                                               *)
(***************************************************************************)
LEMMA CleanMoved ==
  ASSUME moved' # "leftover", moved' # "rebase"
  PROVE  MovedKept'
BY DEF MovedKept

(***************************************************************************)
(* From an early state a step may go anywhere, if it adds neither.         *)
(***************************************************************************)
LEMMA EarlyStep ==
  ASSUME MovedKept, state \in Early, moved' \in {moved, "", "people"}
  PROVE  MovedKept'
BY EarlyMoved, CleanMoved

(***************************************************************************)
(* A late state may be followed by a late one, or by the end.              *)
(***************************************************************************)
LEMMA LateStep ==
  ASSUME MovedKept, state \in Late, moved' \in {moved, "rebase"},
         state' \in Late \cup {"CANCELLED"}
  PROVE  MovedKept'
<1>1. moved' # "leftover"
  BY LateMoved
<1>2. state' \in Late => ResumePoint' = state' /\ Required(state') >= Approved
  BY StagesOf DEF ResumePoint, Paused
<1>3. QED
  BY <1>1, <1>2 DEF MovedKept

(***************************************************************************)
(* A pause remembers whether merging had begun.                            *)
(***************************************************************************)
LEMMA PauseStep ==
  ASSUME MovedKept, state \in Early \cup Late, NEW next \in Paused, Move(next),
         \/ moved' \in {moved, "people"}
         \/ next = "ESCALATED" /\ moved' = "leftover"
  PROVE  MovedKept'
<1>1. ResumePoint' = state
  BY DEF Move, ResumePoint, Paused
<1>2. moved # "leftover" /\ (moved = "rebase" => Required(state) >= Approved)
  BY EarlyMoved, LateMoved, StagesOf
<1>3. state' = next
  BY DEF Move
<1>4. QED
  BY <1>1, <1>2, <1>3 DEF MovedKept

(***************************************************************************)
(* A hold of the job is such a pause.                                      *)
(***************************************************************************)
LEMMA HoldStep ==
  ASSUME MovedKept, state \in Early \cup Late, Escalate
  PROVE  MovedKept'
BY PauseStep, StagesOf, ChangedTo DEF Escalate

(***************************************************************************)
(* A job that goes on where it was interrupted goes on with its code, what *)
(* a failed step had left being taken on.                                  *)
(***************************************************************************)
LEMMA GoesOnStep ==
  ASSUME MovedKept, state \in Paused, prev \in Early \cup Late, Move(prev),
         \/ moved' = moved /\ state # "ESCALATED"
         \/ moved' = IF moved = "leftover" THEN "resumed" ELSE moved
  PROVE  MovedKept'
<1>1. ResumePoint = prev /\ ResumePoint' = prev /\ state # "CANCELLED"
  BY PausedStates, StagesOf DEF Move, ResumePoint, Paused
<1>2. moved' # "leftover"
  BY <1>1 DEF MovedKept
<1>3. moved' = "rebase" => moved = "rebase"
  OBVIOUS
<1>4. QED
  BY <1>1, <1>2, <1>3 DEF MovedKept

(***************************************************************************)
(* A step in flight runs where its place says.                             *)
(***************************************************************************)
LEMMA AtWork ==
  ASSUME TypeOK
  PROVE  /\ run.pc \in {"agent", "verify", "committed"} => state \in Early
         /\ run.pc \in {"handler", "rebased", "shipped"} => state \in Early \cup Late
         /\ state \in AgentStates => state \in Early
BY DEF TypeOK, Whereabouts, Runnable, Resumable, AgentStates, Reviewing, ProducesCode,
       Early, Late

(***************************************************************************)
(* A suspended job has neither leftovers nor a rebase in its code.         *)
(***************************************************************************)
LEMMA SuspendedMoved ==
  ASSUME TypeOK, MovedKept, state \in Suspended
  PROVE  moved # "leftover" /\ moved # "rebase"
<1>1. state \notin {"ESCALATED", "CANCELLED"}
  BY DEF Suspended
<1>2. ResumePoint = prev /\ prev \in Early
  <2>1. prev \in AgentStates
    BY DEF TypeOK, Whereabouts
  <2>2. QED
    BY <2>1 DEF ResumePoint, AgentStates, Reviewing, ProducesCode, Early
<1>3. ~(Required(prev) >= Approved)
  BY <1>2, StagesOf
<1>4. QED
  BY <1>1, <1>2, <1>3 DEF MovedKept

(***************************************************************************)
(* What is known of the code is kept by every step.                        *)
(***************************************************************************)
LEMMA MovedStep ==
  ASSUME TypeOK, MovedKept, [Next]_vars
  PROVE  MovedKept'
<1>a. state \in Early \cup Late \cup Paused \cup {"CANCELLED"}
  BY StagesOf DEF TypeOK
<1> USE AtWork DEF env, branch, Handling, AtGate
<1>1. CASE DispatchAgent
  <2>1. UNCHANGED <<state, prev>>
    BY <1>1 DEF DispatchAgent
  <2>2. moved' \in {moved, "", "people"}
    BY <1>1, ChangedTo DEF DispatchAgent, Adopt
  <2>3. QED
    BY <2>1, <2>2, StayMoved
<1>2. CASE BudgetHold
  <2>1. state \in Early /\ Move("ESCALATED")
    BY <1>2 DEF BudgetHold
  <2>2. moved' \in {moved, "people"}
    BY <1>2, ChangedTo DEF BudgetHold, Adopt
  <2>3. QED
    BY <2>1, <2>2, PauseStep, StagesOf
<1>3. CASE DispatchPhase
  <2>1. UNCHANGED <<state, prev>>
    BY <1>3 DEF DispatchPhase
  <2>2. moved' \in {moved, "people"}
    BY <1>3, ChangedTo DEF DispatchPhase, Adopt
  <2>3. QED
    BY <2>1, <2>2, StayMoved
<1>4. CASE AgentFails
  <2>1. state \in Early
    BY <1>4 DEF AgentFails, Early
  <2>2. moved' = moved \/ Escalate
    BY <1>4 DEF AgentFails
  <2>3. QED
    BY <2>1, <2>2, EarlyStep, HoldStep
<1>5. CASE AgentSuspends
  <2>1. state \in Early /\ moved' = moved
    BY <1>5 DEF AgentSuspends, Early
  <2>2. QED
    BY <2>1, EarlyStep
<1>6. CASE AgentSucceeds
  <2>1. state \in Early /\ moved' = moved
    BY <1>6 DEF AgentSucceeds, Early
  <2>2. QED
    BY <2>1, EarlyStep
<1>7. CASE VerifyFinding
  <2>1. state \in Early /\ moved' = moved
    BY <1>7 DEF VerifyFinding, Early
  <2>2. QED
    BY <2>1, EarlyStep
<1>8. CASE VerifySkipped
  <2>1. state \in Early /\ moved' = moved
    BY <1>8 DEF VerifySkipped, Early
  <2>2. QED
    BY <2>1, EarlyStep
<1>9. CASE Created
  <2>1. state \in Early /\ moved' = moved
    BY <1>9 DEF Created, Early
  <2>2. QED
    BY <2>1, EarlyStep
<1>10. CASE Scoping
  <2>1. state \in Early /\ moved' = moved
    BY <1>10 DEF Scoping, Early
  <2>2. QED
    BY <2>1, EarlyStep
<1>11. CASE Planning
  <2>1. state \in Early /\ moved' = moved
    BY <1>11 DEF Planning, Early
  <2>2. QED
    BY <2>1, EarlyStep
<1>12. CASE DesignReview
  <2>1. state \in Early
    BY <1>12 DEF DesignReview, Early
  <2>2. moved' = moved \/ Escalate
    BY <1>12 DEF DesignReview
  <2>3. QED
    BY <2>1, <2>2, EarlyStep, HoldStep
<1>13. CASE Implementing
  <2>1. state \in Early /\ moved' = moved
    BY <1>13 DEF Implementing, Early
  <2>2. QED
    BY <2>1, EarlyStep
<1>14. CASE CodeReview
  <2>1. state \in Early
    BY <1>14 DEF CodeReview, Early
  <2>2. moved' = moved \/ Escalate
    BY <1>14 DEF CodeReview
  <2>3. QED
    BY <2>1, <2>2, EarlyStep, HoldStep
<1>15. CASE Building
  <2>1. state \in Early /\ moved' \in {moved, ""}
    BY <1>15 DEF Building, Early
  <2>2. QED
    BY <2>1, EarlyStep
<1>16. CASE Testing
  <2>1. state \in Early /\ moved' = moved
    BY <1>16 DEF Testing, Early
  <2>2. QED
    BY <2>1, EarlyStep
<1>17. CASE FlakeCheck
  <2>1. state \in Early
    BY <1>17 DEF FlakeCheck, Early
  <2>2. moved' = moved \/ Escalate
    BY <1>17 DEF FlakeCheck
  <2>3. QED
    BY <2>1, <2>2, EarlyStep, HoldStep
<1>18. CASE Analyzing
  <2>1. state \in Early
    BY <1>18 DEF Analyzing, Early
  <2>2. moved' = moved \/ Escalate
    BY <1>18 DEF Analyzing
  <2>3. QED
    BY <2>1, <2>2, EarlyStep, HoldStep
<1>19. CASE FixRecorded
  <2>1. state \in Early /\ moved' = moved
    BY <1>19 DEF FixRecorded, Early
  <2>2. QED
    BY <2>1, EarlyStep
<1>20. CASE FixDone
  <2>1. state \in Early /\ moved' = moved
    BY <1>20 DEF FixDone, Early
  <2>2. QED
    BY <2>1, EarlyStep
<1>21. CASE FixGivesUp
  <2>1. state \in Early
    BY <1>21 DEF FixGivesUp, Early
  <2>2. moved' = moved \/ Escalate
    BY <1>21 DEF FixGivesUp
  <2>3. QED
    BY <2>1, <2>2, EarlyStep, HoldStep
<1>22. CASE FinalReview
  <2>1. state \in Early
    BY <1>22 DEF FinalReview, Early
  <2>2. moved' = moved \/ Escalate
    BY <1>22 DEF FinalReview
  <2>3. QED
    BY <2>1, <2>2, EarlyStep, HoldStep
<1>22a. CASE Rebase
  <2>1. state \in Late /\ state' = state
    BY <1>22a DEF Rebase, Late
  <2>2. moved' \in {moved, "rebase"}
    BY <1>22a, ChangedTo DEF Rebase
  <2>3. QED
    BY <2>1, <2>2, LateStep
<1>23. CASE Merging
  <2>1. state \in Late /\ state' \in Late /\ moved' = moved
    BY <1>23 DEF Merging, Move, Late, TypeOK, Whereabouts
  <2>2. QED
    BY <2>1, LateStep
<1>24. CASE ShipSucceeds
  <2>1. UNCHANGED <<state, prev, moved>>
    BY <1>24 DEF ShipSucceeds
  <2>2. QED
    BY <2>1, StayMoved
<1>25. CASE ReleaseDone
  <2>1. state \in Late /\ state' \in Late /\ moved' = moved
    BY <1>25 DEF ReleaseDone, Move, Late, TypeOK, Whereabouts
  <2>2. QED
    BY <2>1, LateStep
<1>26. CASE ShipFails
  <2>1. state \in Late
    BY <1>26 DEF ShipFails, Late
  <2>2. Escalate \/ UNCHANGED <<state, prev, moved>>
    BY <1>26 DEF ShipFails, Stay
  <2>3. QED
    BY <2>1, <2>2, HoldStep, StayMoved
<1>27. CASE HandlerFails
  <2>1. state \in Early \cup Late /\ Escalate
    BY <1>27 DEF HandlerFails
  <2>2. QED
    BY <2>1, HoldStep
<1>28. CASE TimeOut
  <2>1. state \notin Held \cup Terminal /\ Move("TIMED_OUT") /\ moved' = moved
    BY <1>28 DEF TimeOut
  <2>2. CASE state \in Early \cup Late
    BY <2>1, <2>2, PauseStep, PausedStates
  <2>3. CASE state \in Paused
    <3>1. prev' = state /\ state' = "TIMED_OUT" /\ state \in Suspended
      BY <2>1, <2>3 DEF Move, Paused
    <3>2. moved # "leftover" /\ moved # "rebase"
      BY <3>1, SuspendedMoved
    <3>3. QED
      BY <2>1, <3>2, CleanMoved
  <2>4. QED
    BY <1>a, <2>1, <2>2, <2>3 DEF Terminal
<1>29. CASE BackoffElapsed
  <2>1. state \in Suspended /\ prev \in AgentStates /\ Move(prev) /\ moved' = moved
    BY <1>29 DEF BackoffElapsed, TypeOK, Whereabouts
  <2>2. moved # "leftover" /\ moved # "rebase"
    BY <2>1, SuspendedMoved
  <2>3. QED
    BY <2>1, <2>2, CleanMoved
<1>30. CASE WaitElapsed
  <2>1. UNCHANGED <<state, prev, moved>>
    BY <1>30 DEF WaitElapsed
  <2>2. QED
    BY <2>1, StayMoved
<1>31. CASE ScopeRetarget
  <2>1. /\ state = "ESCALATED" /\ prev = "AWAITING_SCOPE_APPROVAL"
        /\ state' = state /\ moved' = moved
    BY <1>31 DEF ScopeRetarget, TypeOK, Whereabouts
  <2>2. ResumePoint = prev /\ prev \in Early
    BY <2>1 DEF ResumePoint, Held, Early
  <2>3. moved # "rebase"
    BY <2>1, <2>2, StagesOf DEF MovedKept
  <2>4. QED
    BY <2>1, <2>3 DEF MovedKept
<1>32. CASE Restart
  <2>1. UNCHANGED <<state, prev, moved>>
    BY <1>32 DEF Restart
  <2>2. QED
    BY <2>1, StayMoved
<1>33. CASE Approve
  <2>1. moved' = moved
    BY <1>33 DEF Approve
  <2>2. state \in Early \/ (state \in Late /\ state' \in Late)
    BY <1>33 DEF Approve, Move, Early, Late
  <2>3. QED
    BY <2>1, <2>2, EarlyStep, LateStep
<1>34. CASE RejectScope
  <2>1. state \in Early /\ moved' = moved
    BY <1>34 DEF RejectScope, Rejecting, Early
  <2>2. QED
    BY <2>1, EarlyStep
<1>35. CASE RejectSpec
  <2>1. state \in Early /\ moved' = moved
    BY <1>35 DEF RejectSpec, Rejecting, Early
  <2>2. QED
    BY <2>1, EarlyStep
<1>36. CASE RejectToFixing
  <2>1. state \in Early /\ moved' = moved
    BY <1>36 DEF RejectToFixing, Rejecting, Early
  <2>2. QED
    BY <2>1, EarlyStep
<1>37. CASE RejectRelease
  <2>1. state \in Late /\ state' \in Late /\ moved' = moved
    BY <1>37 DEF RejectRelease, Rejecting, Move, Late, TypeOK, Whereabouts
  <2>2. QED
    BY <2>1, LateStep
<1>38. CASE Cancel
  <2>1. state' = "CANCELLED" /\ moved' = moved
    BY <1>38 DEF Cancel, Move
  <2>2. QED
    BY <2>1 DEF MovedKept
<1>39. CASE Resume
  <2>1. /\ state \in Paused /\ prev \in Resumable /\ Move(prev)
        /\ moved' = IF moved = "leftover" THEN "resumed" ELSE moved
    BY <1>39 DEF Resume, Resuming, Paused
  <2>2. prev \in Early \cup Late
    BY <2>1 DEF Resumable, AgentStates, Reviewing, ProducesCode, Early, Late
  <2>3. QED
    BY <2>1, <2>2, GoesOnStep
<1>40. CASE ResumeTo
  BY <1>40, CleanMoved DEF ResumeTo
<1>41. CASE Expire
  <2>1. UNCHANGED <<state, prev, moved>>
    BY <1>41 DEF Expire
  <2>2. QED
    BY <2>1, StayMoved
<1>42. CASE RaiseLimit
  <2>1. UNCHANGED <<state, prev, moved>>
    BY <1>42 DEF RaiseLimit
  <2>2. QED
    BY <2>1, StayMoved
<1>43. CASE Stop
  <2>1. UNCHANGED <<state, prev, moved>>
    BY <1>43 DEF Stop, Interrupted
  <2>2. QED
    BY <2>1, StayMoved
<1>44. CASE Crash
  <2>1. UNCHANGED <<state, prev, moved>>
    BY <1>44 DEF Crash, Interrupted
  <2>2. QED
    BY <2>1, StayMoved
<1>45. CASE Finished
  <2>1. UNCHANGED <<state, prev, moved>>
    BY <1>45 DEF Finished, vars
  <2>2. QED
    BY <2>1, StayMoved
<1>46. CASE UNCHANGED vars
  BY <1>46, StayMoved DEF vars
<1> QED
  BY <1>1, <1>2, <1>3, <1>4, <1>5, <1>6, <1>7, <1>8, <1>9, <1>10, <1>11,
     <1>12, <1>13, <1>14, <1>15, <1>16, <1>17, <1>18, <1>19, <1>20, <1>21,
     <1>22, <1>22a, <1>23, <1>24, <1>25, <1>26, <1>27, <1>28, <1>29, <1>30, <1>31,
     <1>32, <1>33, <1>34, <1>35, <1>36, <1>37, <1>38, <1>39, <1>40, <1>41,
     <1>42, <1>43, <1>44, <1>45, <1>46 DEF Next, Engine, Handler, People

(***************************************************************************)
(* What is known of the code, and the order of the gates, make what a state*)
(* relies on true of the code as it is.                                    *)
(***************************************************************************)
LEMMA CheckedFollows ==
  ASSUME TypeOK, GatesInOrder, MovedKept
  PROVE  CheckedAsItIs
<1> SUFFICES ASSUME Required(state) > AsItIs,
                    moved \notin {"people", "resumed"}
             PROVE  moved = "rebase" /\ Required(state) >= Approved
  BY DEF CheckedAsItIs
<1>1. level \in Levels /\ AsItIs \in Levels /\ Required(state) \in Levels
  BY LevelType DEF TypeOK, AsItIs
<1>2. Required(state) # 0
  BY <1>1 DEF Levels
<1>3. state \notin {"ESCALATED", "CANCELLED"} /\ state \notin Paused
  BY <1>2, RequiredOf, PausedStates
<1>4. Required(state) <= level
  BY <1>3, GatesRead
<1>5. moved = "rebase"
  <2>1. level \in Nat /\ Required(state) \in Nat
    BY <1>1 DEF Levels, ReleaseOK
  <2>2. ~(Required(state) > level)
    BY <2>1, <1>4
  <2>3. moved # ""
    BY <2>2 DEF AsItIs
  <2>4. QED
    BY <2>3, <1>3 DEF TypeOK, MovedKept
<1>6. ResumePoint = state
  BY <1>3 DEF ResumePoint, Paused
<1>7. QED
  BY <1>3, <1>5, <1>6 DEF MovedKept

(***************************************************************************)
(* Whatever the limits, the gates, and the number of failures, resumes and *)
(* crashes, what a state relies on is true of the code as it is, unless    *)
(* people committed it or took it on, or merging rebased it.               *)
(***************************************************************************)
THEOREM CheckedHolds == Spec => []CheckedAsItIs
<1>1. Init => MovedKept
  BY DEF Init, MovedKept
<1>2. TypeOK /\ MovedKept /\ [Next]_vars => MovedKept'
  BY MovedStep
<1>3. TypeOK /\ GatesInOrder /\ MovedKept => CheckedAsItIs
  BY CheckedFollows
<1>4. QED
  BY <1>1, <1>2, <1>3, TypeCorrect, GatesHold, PTL DEF Spec

-----------------------------------------------------------------------------
(* A job is shipped once. *)

\* A shipment is paid for: by a crash, or by the row that is about to record
\* it or has.
Recorded == run.pc = "shipped" \/ state = "COMPLETED"

ShipInv ==
  /\ InFlight => state \notin Terminal
  /\ spent.ships <= spent.crashes + IF Recorded THEN 1 ELSE 0

(***************************************************************************)
(* The history counts in numbers.                                          *)
(***************************************************************************)
LEMMA SpentNat ==
  ASSUME spent \in Histories
  PROVE  /\ spent.resumes \in Nat /\ spent.rejects \in Nat
         /\ spent.crashes \in Nat /\ spent.ships \in Nat
BY DEF Histories

(***************************************************************************)
(* The history and the step in flight are typed.                           *)
(***************************************************************************)
LEMMA HistoryTyped == TypeOK => spent \in Histories /\ run \in Steps
BY DEF TypeOK

(***************************************************************************)
(* Whatever is counted, the other counts stand.                            *)
(***************************************************************************)
LEMMA SpentCounts ==
  ASSUME spent \in Histories
  PROVE  /\ \A s \in {[spent EXCEPT !.resumes = @ + 1],
                      [spent EXCEPT !.resumes = @ + 1, !.steered = TRUE]} :
              /\ s.resumes = spent.resumes + 1 /\ s.rejects = spent.rejects
              /\ s.crashes = spent.crashes /\ s.ships = spent.ships
         /\ \A s \in {[spent EXCEPT !.rejects = @ + 1]} :
              /\ s.resumes = spent.resumes /\ s.rejects = spent.rejects + 1
              /\ s.crashes = spent.crashes /\ s.ships = spent.ships
         /\ \A s \in {[spent EXCEPT !.crashes = @ + 1]} :
              /\ s.resumes = spent.resumes /\ s.rejects = spent.rejects
              /\ s.crashes = spent.crashes + 1 /\ s.ships = spent.ships
         /\ \A s \in {[spent EXCEPT !.ships = @ + 1]} :
              /\ s.resumes = spent.resumes /\ s.rejects = spent.rejects
              /\ s.crashes = spent.crashes /\ s.ships = spent.ships + 1
BY DEF Histories

(***************************************************************************)
(* A step that ships nothing keeps what was shipped paid for, if it leaves *)
(* the record or is a crash.                                               *)
(***************************************************************************)
LEMMA ShipKept ==
  ASSUME TypeOK, ShipInv, InFlight' => state' \notin Terminal,
         spent'.ships = spent.ships,
         \/ spent'.crashes = spent.crashes /\ (Recorded => Recorded')
         \/ spent'.crashes = spent.crashes + 1
  PROVE  ShipInv'
<1>1. spent.ships \in Nat /\ spent.crashes \in Nat
  BY HistoryTyped, SpentNat
<1>2. QED
  BY <1>1 DEF ShipInv

(***************************************************************************)
(* A new job was never shipped.                                            *)
(***************************************************************************)
LEMMA ShipInit == Init => ShipInv
<1> SUFFICES ASSUME Init PROVE ShipInv
  OBVIOUS
<1>1. run.pc = "idle"
  <2>1. run = Idle
    BY DEF Init
  <2>2. QED
    BY <2>1, IdleType
<1>2. spent.ships = 0 /\ spent.crashes = 0
  <2>1. spent = [resumes |-> 0, rejects |-> 0, crashes |-> 0, ships |-> 0,
                 steered |-> FALSE]
    BY DEF Init
  <2>2. QED
    BY <2>1
<1>3. QED
  BY <1>1, <1>2 DEF ShipInv, InFlight, Recorded

(***************************************************************************)
(* Only a job that is releasing ships, and what it shipped stays paid for. *)
(***************************************************************************)
LEMMA ShipStep ==
  ASSUME TypeOK, ShipInv, [Next]_vars
  PROVE  ShipInv'
<1> DEFINE Ending == run'.pc = "idle" /\ run.pc # "shipped" /\ state # "COMPLETED"
           Going  == run.pc # "shipped" /\ state \notin Terminal /\ state' = state
<1>a. spent \in Histories /\ run \in Steps
  BY HistoryTyped
<1>b. /\ run.pc \in {"agent", "verify", "handler", "committed", "rebased",
                   "retarget"} => state \notin Terminal
      /\ run.pc = "shipped" => state \notin Terminal
  BY DEF ShipInv, InFlight
<1>c. ASSUME Ending \/ Going, spent' = spent PROVE ShipInv'
  <2>1. ~Recorded /\ (InFlight' => state' \notin Terminal)
    BY <1>c DEF Recorded, InFlight, Terminal
  <2>2. QED
    BY <1>c, <2>1, ShipKept
<1> USE IdleType, StepType
    DEF Move, Stay, InFlight, Between, Handling, AtGate, row, branch, env, Terminal, Runnable, Resumable, AgentStates, Reviewing, ProducesCode, Suspended, Held
<1>1. CASE DispatchAgent
  BY <1>1, <1>b, <1>c DEF DispatchAgent, Dispatchable
<1>2. CASE BudgetHold
  BY <1>2, <1>b, <1>c DEF BudgetHold, Dispatchable
<1>3. CASE DispatchPhase
  BY <1>3, <1>b, <1>c DEF DispatchPhase, Dispatchable
<1>4. CASE AgentFails
  BY <1>4, <1>a, <1>b, <1>c, RetryType DEF AgentFails, Escalate
<1>5. CASE AgentSuspends
  BY <1>5, <1>b, <1>c DEF AgentSuspends
<1>6. CASE AgentSucceeds
  BY <1>6, <1>b, <1>c DEF AgentSucceeds
<1>7. CASE VerifyFinding
  <2>1. run.pc = "verify" /\ spent' = spent
    BY <1>7 DEF VerifyFinding
  <2>2. run'.pc = "idle" \/ state' = state
    BY <1>7 DEF VerifyFinding, Decide
  <2>3. QED
    BY <2>1, <2>2, <1>b, <1>c
<1>8. CASE VerifySkipped
  BY <1>8, <1>b, <1>c DEF VerifySkipped, Decide
<1>9. CASE Created
  BY <1>9, <1>b, <1>c DEF Created
<1>10. CASE Scoping
  BY <1>10, <1>b, <1>c DEF Scoping
<1>11. CASE Planning
  <2>1. Ending /\ spent' = spent
    <3>1. run.pc = "handler" /\ run' = Idle /\ spent' = spent
      BY <1>11, Zenon DEF Planning
    <3>2. state # "COMPLETED"
      BY <3>1, <1>b
    <3>3. QED
      BY <3>1, <3>2
  <2>2. QED
    BY <2>1, <1>c
<1>12. CASE DesignReview
  BY <1>12, <1>b, <1>c DEF DesignReview, Escalate
<1>13. CASE Implementing
  BY <1>13, <1>b, <1>c DEF Implementing
<1>14. CASE CodeReview
  BY <1>14, <1>b, <1>c DEF CodeReview, Escalate
<1>15. CASE Building
  BY <1>15, <1>b, <1>c DEF Building
<1>16. CASE Testing
  BY <1>16, <1>b, <1>c DEF Testing
<1>17. CASE FlakeCheck
  BY <1>17, <1>b, <1>c DEF FlakeCheck, Escalate
<1>18. CASE Analyzing
  BY <1>18, <1>b, <1>c DEF Analyzing, Escalate
<1>19. CASE FixRecorded
  BY <1>19, <1>b, <1>c DEF FixRecorded
<1>20. CASE FixDone
  <2>1. Ending /\ spent' = spent
    <3>1. run.pc = "committed" /\ run' = Idle /\ spent' = spent
      BY <1>20, Zenon DEF FixDone
    <3>2. state # "COMPLETED"
      BY <3>1, <1>b
    <3>3. QED
      BY <3>1, <3>2
  <2>2. QED
    BY <2>1, <1>c
<1>21. CASE FixGivesUp
  BY <1>21, <1>b, <1>c DEF FixGivesUp, Escalate
<1>22. CASE FinalReview
  BY <1>22, <1>b, <1>c DEF FinalReview, Escalate
<1>22a. CASE Rebase
  BY <1>22a, <1>b, <1>c DEF Rebase
<1>23. CASE Merging
  BY <1>23, <1>b, <1>c DEF Merging
<1>24. CASE ShipSucceeds
  <2>1. spent'.ships = spent.ships + 1 /\ spent'.crashes = spent.crashes /\ run'.pc = "shipped"
    BY <1>24, <1>a, SpentCounts DEF ShipSucceeds
  <2>2. spent.ships \in Nat /\ spent.crashes \in Nat
    BY <1>a, SpentNat
  <2>3. ~Recorded /\ Recorded' /\ state' = "RELEASING"
    BY <1>24, <2>1 DEF ShipSucceeds, Recorded
  <2>4. QED
    BY <2>1, <2>2, <2>3 DEF ShipInv
<1>25. CASE ReleaseDone
  <2>1. Recorded' /\ run'.pc = "idle" /\ spent' = spent
    BY <1>25 DEF ReleaseDone, Recorded
  <2>2. QED
    BY <2>1, ShipKept
<1>26. CASE ShipFails
  BY <1>26, <1>b, <1>c DEF ShipFails, Escalate
<1>27. CASE HandlerFails
  BY <1>27, <1>b, <1>c DEF HandlerFails, Escalate
<1>28. CASE TimeOut
  BY <1>28, <1>b, <1>c DEF TimeOut
<1>29. CASE BackoffElapsed
  BY <1>29, <1>b, <1>c DEF BackoffElapsed
<1>30. CASE WaitElapsed
  BY <1>30, <1>b, <1>c DEF WaitElapsed
<1>31. CASE ScopeRetarget
  BY <1>31, <1>b, <1>c DEF ScopeRetarget
<1>32. CASE Restart
  <2>1. spent' = spent /\ (Recorded => Recorded') /\ (InFlight' => state' \notin Terminal)
    BY <1>32 DEF Restart, Recorded, ShipInv
  <2>2. QED
    BY <2>1, ShipKept
<1>33. CASE Approve
  BY <1>33, <1>b, <1>c DEF Approve
<1>34. CASE RejectScope
  <2>1. spent'.ships = spent.ships /\ spent'.crashes = spent.crashes
    BY <1>34, <1>a, SpentCounts DEF RejectScope, Rejecting
  <2>2. ~Recorded /\ (InFlight' => state' \notin Terminal)
    BY <1>34 DEF RejectScope, Rejecting, Recorded
  <2>3. QED
    BY <2>1, <2>2, ShipKept
<1>35. CASE RejectSpec
  <2>1. spent'.ships = spent.ships /\ spent'.crashes = spent.crashes
    BY <1>35, <1>a, SpentCounts DEF RejectSpec, Rejecting
  <2>2. ~Recorded /\ (InFlight' => state' \notin Terminal)
    BY <1>35 DEF RejectSpec, Rejecting, Recorded
  <2>3. QED
    BY <2>1, <2>2, ShipKept
<1>36. CASE RejectToFixing
  <2>1. spent'.ships = spent.ships /\ spent'.crashes = spent.crashes
    BY <1>36, <1>a, SpentCounts DEF RejectToFixing, Rejecting
  <2>2. ~Recorded /\ (InFlight' => state' \notin Terminal)
    BY <1>36 DEF RejectToFixing, Rejecting, Recorded
  <2>3. QED
    BY <2>1, <2>2, ShipKept
<1>37. CASE RejectRelease
  <2>1. Recorded' /\ run'.pc = "idle"
    BY <1>37 DEF RejectRelease, Recorded
  <2>2. spent'.ships = spent.ships /\ spent'.crashes = spent.crashes
    BY <1>37, <1>a, SpentCounts DEF RejectRelease, Rejecting
  <2>3. QED
    BY <2>1, <2>2, ShipKept
<1>38. CASE Cancel
  BY <1>38, <1>b, <1>c DEF Cancel
<1>39. CASE Resume
  <2>1. spent'.ships = spent.ships /\ spent'.crashes = spent.crashes
    BY <1>39, <1>a, SpentCounts DEF Resume, Resuming
  <2>2. ~Recorded /\ (InFlight' => state' \notin Terminal)
    BY <1>39 DEF Resume, Resuming, Recorded
  <2>3. QED
    BY <2>1, <2>2, ShipKept
<1>40. CASE ResumeTo
  <2>1. spent'.ships = spent.ships /\ spent'.crashes = spent.crashes
    BY <1>40, <1>a, SpentCounts DEF ResumeTo, Resuming
  <2>2. ~Recorded /\ (InFlight' => state' \notin Terminal)
    BY <1>40 DEF ResumeTo, Resuming, Recorded
  <2>3. QED
    BY <2>1, <2>2, ShipKept
<1>41. CASE Expire
  <2>1. spent' = spent /\ (Recorded => Recorded') /\ (InFlight' => state' \notin Terminal)
    BY <1>41 DEF Expire, Recorded, ShipInv
  <2>2. QED
    BY <2>1, ShipKept
<1>42. CASE RaiseLimit
  <2>1. spent' = spent /\ (Recorded => Recorded') /\ (InFlight' => state' \notin Terminal)
    BY <1>42 DEF RaiseLimit, Recorded, ShipInv
  <2>2. QED
    BY <2>1, ShipKept
<1>43. CASE Stop
  <2>1. spent'.ships = spent.ships /\ spent'.crashes = spent.crashes + 1
    BY <1>43, <1>a, SpentCounts DEF Stop, Interrupted
  <2>2. InFlight' => state' \notin Terminal
    BY <1>43 DEF Stop, Interrupted
  <2>3. QED
    BY <2>1, <2>2, ShipKept
<1>44. CASE Crash
  <2>1. spent'.ships = spent.ships /\ spent'.crashes = spent.crashes + 1
    BY <1>44, <1>a, SpentCounts DEF Crash, Interrupted
  <2>2. InFlight' => state' \notin Terminal
    BY <1>44 DEF Crash, Interrupted
  <2>3. QED
    BY <2>1, <2>2, ShipKept
<1>45. CASE Finished
  <2>1. spent' = spent /\ (Recorded => Recorded') /\ (InFlight' => state' \notin Terminal)
    BY <1>45 DEF Finished, vars, Recorded, ShipInv
  <2>2. QED
    BY <2>1, ShipKept
<1>46. CASE UNCHANGED vars
  <2>1. ShipInv' <=> ShipInv
    BY <1>46 DEF vars, ShipInv, Recorded
  <2>2. QED
    BY <2>1
<1> QED
  BY <1>1, <1>2, <1>3, <1>4, <1>5, <1>6, <1>7, <1>8, <1>9, <1>10, <1>11,
     <1>12, <1>13, <1>14, <1>15, <1>16, <1>17, <1>18, <1>19, <1>20, <1>21, <1>22,
     <1>22a, <1>23, <1>24, <1>25, <1>26, <1>27, <1>28, <1>29, <1>30, <1>31, <1>32, <1>33,
     <1>34, <1>35, <1>36, <1>37, <1>38, <1>39, <1>40, <1>41, <1>42, <1>43, <1>44,
     <1>45, <1>46 DEF Next, Engine, Handler, People

(***************************************************************************)
(* A released job was shipped once, and once more at most for every crash. *)
(***************************************************************************)
THEOREM ShippedOnceHolds == Spec => []ShippedOnce
<1>1. Init => TypeOK /\ ShipInv
  BY TypeInit, ShipInit
<1>2. TypeOK /\ ShipInv /\ [Next]_vars => TypeOK' /\ ShipInv'
  BY TypeStep, ShipStep
<1>3. TypeOK /\ ShipInv => ShippedOnce
  <2>1. TypeOK => spent.ships \in Nat /\ spent.crashes \in Nat
    BY HistoryTyped, SpentNat
  <2>2. QED
    BY <2>1 DEF ShipInv, ShippedOnce
<1>4. QED
  BY <1>1, <1>2, <1>3, PTL DEF Spec


-----------------------------------------------------------------------------
(* A repair state knows what to repair. *)

\* What the repair states ask of the row.
Sourced    == fixSource # ""
Rerunnable == failedPhase \in {"unit", "lint", "ui"}
Phased     == failedPhase # ""

Fit(s) ==
  /\ s = "FIXING" => Sourced
  /\ s = "FLAKE_CHECK" => Rerunnable
  /\ s = "ANALYZING" => Phased

\* The states that are neither repairs nor pauses.
Plain ==
  {"CREATED", "SCOPING", "PLANNING", "DESIGN_REVIEW", "IMPLEMENTING", "CODE_REVIEW",
   "BUILDING", "TESTING", "FINAL_REVIEW", "MERGING", "RELEASING",
   "AWAITING_SCOPE_APPROVAL", "AWAITING_SPEC_APPROVAL", "AWAITING_CODE_APPROVAL",
   "AWAITING_MERGE_APPROVAL", "AWAITING_RELEASE_APPROVAL", "COMPLETED", "CANCELLED"}

(***************************************************************************)
(* They ask nothing, nor does a pause.                                     *)
(***************************************************************************)
LEMMA PlainFit ==
  /\ \A s \in Plain : Fit(s) /\ s \notin Paused
  /\ \A s \in Paused : Fit(s)
BY PausedStates DEF Plain, Fit

(***************************************************************************)
(* The invariant, read at a paused and at any other state.                 *)
(***************************************************************************)
LEMMA RepairRead ==
  RepairIsDirected <=> spent.steered \/ IF state \in Paused THEN Fit(prev) ELSE Fit(state)
<1>1. ResumePoint = IF state \in Paused THEN prev ELSE state
  BY DEF ResumePoint, Paused
<1>2. RepairIsDirected <=> spent.steered \/ Fit(ResumePoint)
  BY Zenon DEF RepairIsDirected, Fit, Sourced, Rerunnable, Phased
<1>3. QED
  BY <1>1, <1>2

(***************************************************************************)
(* The same, after a step.                                                 *)
(***************************************************************************)
LEMMA RepairReadNext ==
  RepairIsDirected' <=>
    spent'.steered \/ IF state' \in Paused THEN Fit(prev)' ELSE Fit(state)'
<1>1. Paused' = Paused
  BY PausedStates
<1>2. ResumePoint' = IF state' \in Paused THEN prev' ELSE state'
  BY DEF ResumePoint, Paused
<1>3. RepairIsDirected' <=> spent'.steered \/ Fit(ResumePoint)'
  BY Zenon DEF RepairIsDirected, Fit, Sourced, Rerunnable, Phased
<1>4. QED
  BY <1>2, <1>3 DEF Fit

(***************************************************************************)
(* A pause keeps what the state it interrupts was to repair.               *)
(***************************************************************************)
LEMMA PauseRepair ==
  ASSUME RepairIsDirected, NEW next \in Paused, Move(next),
         UNCHANGED <<fixSource, failedPhase>>, spent.steered => spent'.steered
  PROVE  RepairIsDirected'
<1>1. state' \in Paused /\ prev' = state
  BY DEF Move
<1>2. spent.steered \/ Fit(state)
  BY RepairRead, PlainFit
<1>3. Fit(state) => Fit(prev)'
  BY <1>1 DEF Fit, Sourced, Rerunnable, Phased
<1>4. QED
  BY <1>1, <1>2, <1>3, RepairReadNext

(***************************************************************************)
(* A pause whose resume point asks nothing is in order.                    *)
(***************************************************************************)
LEMMA PausedRepair ==
  ASSUME state' \in Paused, prev' \in Plain
  PROVE  RepairIsDirected'
<1>1. Fit(prev)'
  BY DEF Plain, Fit
<1>2. QED
  BY <1>1, RepairReadNext

(***************************************************************************)
(* A transition to a state that asks nothing is in order.                  *)
(***************************************************************************)
LEMMA PlainRepair ==
  ASSUME NEW next \in Plain, Move(next)
  PROVE  RepairIsDirected'
<1>1. state' = next /\ state' \notin Paused
  BY PlainFit DEF Move
<1>2. Fit(state)'
  BY <1>1 DEF Plain, Fit
<1>3. QED
  BY <1>1, <1>2, RepairReadNext

(***************************************************************************)
(* Into FIXING with a source.                                              *)
(***************************************************************************)
LEMMA FixingRepair ==
  ASSUME Move("FIXING"), fixSource' \in {"analysis", "code_review", "final_review", "human"}
  PROVE  RepairIsDirected'
<1>1. state' = "FIXING" /\ Sourced'
  <2>1. fixSource' # ""
    OBVIOUS
  <2>2. QED
    BY <2>1, Zenon DEF Move, Sourced
<1>2. state' \notin Paused /\ Fit(state)'
  BY <1>1, PausedStates DEF Fit
<1>3. QED
  BY <1>2, RepairReadNext

(***************************************************************************)
(* Into FLAKE_CHECK with a phase it can rerun.                             *)
(***************************************************************************)
LEMMA FlakeRepair ==
  ASSUME Move("FLAKE_CHECK"), failedPhase' \in {"unit", "lint", "ui"}
  PROVE  RepairIsDirected'
<1>1. state' = "FLAKE_CHECK" /\ Rerunnable'
  BY DEF Move, Rerunnable
<1>2. state' \notin Paused /\ Fit(state)'
  BY <1>1, PausedStates DEF Fit
<1>3. QED
  BY <1>2, RepairReadNext

(***************************************************************************)
(* Into ANALYZING with the phase that failed.                              *)
(***************************************************************************)
LEMMA AnalyzingRepair ==
  ASSUME Move("ANALYZING"), failedPhase' \in {"build", "unit", "lint", "ui"}
  PROVE  RepairIsDirected'
<1>1. state' = "ANALYZING" /\ Phased'
  <2>1. failedPhase' # ""
    OBVIOUS
  <2>2. QED
    BY <2>1, Zenon DEF Move, Phased
<1>2. state' \notin Paused /\ Fit(state)'
  BY <1>1, PausedStates DEF Fit
<1>3. QED
  BY <1>2, RepairReadNext

(***************************************************************************)
(* Back from a pause, with the source that was there or a person's.        *)
(***************************************************************************)
LEMMA BackRepair ==
  ASSUME RepairIsDirected, state \in Paused, prev \notin Paused, Move(prev),
         Sourced => Sourced', UNCHANGED failedPhase, spent.steered => spent'.steered
  PROVE  RepairIsDirected'
<1>1. state' = prev /\ state' \notin Paused
  BY DEF Move
<1>2. spent.steered \/ Fit(prev)
  BY RepairRead
<1>3. Fit(prev) => Fit(state)'
  BY <1>1 DEF Fit, Rerunnable, Phased
<1>4. QED
  BY <1>1, <1>2, <1>3, RepairReadNext

(***************************************************************************)
(* A step that leaves the job where it is is in order.                     *)
(***************************************************************************)
LEMMA StayRepair ==
  ASSUME RepairIsDirected, UNCHANGED <<state, prev, fixSource, failedPhase>>,
         spent.steered => spent'.steered
  PROVE  RepairIsDirected'
<1>1. /\ Fit(state)' <=> Fit(state)
      /\ Fit(prev)' <=> Fit(prev)
  BY DEF Fit, Sourced, Rerunnable, Phased
<1>2. QED
  BY <1>1, RepairRead, RepairReadNext

(***************************************************************************)
(* A job that was steered by hand is out of the promise for good.          *)
(***************************************************************************)
LEMMA SteeredRepair ==
  ASSUME spent'.steered
  PROVE  RepairIsDirected'
BY DEF RepairIsDirected

(***************************************************************************)
(* Only `resume --to' steers.                                              *)
(***************************************************************************)
LEMMA SteeredOf ==
  ASSUME spent \in Histories
  PROVE  /\ [spent EXCEPT !.resumes = @ + 1, !.steered = TRUE].steered
         /\ [spent EXCEPT !.resumes = @ + 1].steered = spent.steered
         /\ [spent EXCEPT !.rejects = @ + 1].steered = spent.steered
         /\ [spent EXCEPT !.crashes = @ + 1].steered = spent.steered
         /\ [spent EXCEPT !.ships = @ + 1].steered = spent.steered
BY DEF Histories

(***************************************************************************)
(* The history only ever counts one thing up.                              *)
(***************************************************************************)
LEMMA SpentStep ==
  ASSUME [Next]_vars
  PROVE  \/ spent' = spent
         \/ spent' \in {[spent EXCEPT !.resumes = @ + 1, !.steered = TRUE],
                       [spent EXCEPT !.resumes = @ + 1], [spent EXCEPT !.rejects = @ + 1],
                       [spent EXCEPT !.crashes = @ + 1], [spent EXCEPT !.ships = @ + 1]}
<1> USE DEF env
<1>1. CASE DispatchAgent
  BY <1>1 DEF DispatchAgent, Dispatchable
<1>2. CASE BudgetHold
  BY <1>2 DEF BudgetHold, Dispatchable
<1>3. CASE DispatchPhase
  BY <1>3 DEF DispatchPhase, Dispatchable
<1>4. CASE AgentFails
  BY <1>4 DEF AgentFails, Escalate
<1>5. CASE AgentSuspends
  BY <1>5 DEF AgentSuspends
<1>6. CASE AgentSucceeds
  BY <1>6 DEF AgentSucceeds
<1>7. CASE VerifyFinding
  BY <1>7 DEF VerifyFinding, Decide
<1>8. CASE VerifySkipped
  BY <1>8 DEF VerifySkipped, Decide
<1>9. CASE Created
  BY <1>9 DEF Created
<1>10. CASE Scoping
  BY <1>10 DEF Scoping
<1>11. CASE Planning
  BY <1>11 DEF Planning
<1>12. CASE DesignReview
  BY <1>12 DEF DesignReview, Escalate
<1>13. CASE Implementing
  BY <1>13 DEF Implementing
<1>14. CASE CodeReview
  BY <1>14 DEF CodeReview, Escalate
<1>15. CASE Building
  BY <1>15 DEF Building
<1>16. CASE Testing
  BY <1>16 DEF Testing
<1>17. CASE FlakeCheck
  BY <1>17 DEF FlakeCheck, Escalate
<1>18. CASE Analyzing
  BY <1>18 DEF Analyzing, Escalate
<1>19. CASE FixRecorded
  BY <1>19 DEF FixRecorded
<1>20. CASE FixDone
  BY <1>20 DEF FixDone
<1>21. CASE FixGivesUp
  BY <1>21 DEF FixGivesUp, Escalate
<1>22. CASE FinalReview
  BY <1>22 DEF FinalReview, Escalate
<1>22a. CASE Rebase
  BY <1>22a DEF Rebase
<1>23. CASE Merging
  BY <1>23 DEF Merging
<1>24. CASE ShipSucceeds
  BY <1>24 DEF ShipSucceeds
<1>25. CASE ReleaseDone
  BY <1>25 DEF ReleaseDone
<1>26. CASE ShipFails
  BY <1>26 DEF ShipFails, Escalate
<1>27. CASE HandlerFails
  BY <1>27 DEF HandlerFails, Escalate
<1>28. CASE TimeOut
  BY <1>28 DEF TimeOut
<1>29. CASE BackoffElapsed
  BY <1>29 DEF BackoffElapsed
<1>30. CASE WaitElapsed
  BY <1>30 DEF WaitElapsed
<1>31. CASE ScopeRetarget
  BY <1>31 DEF ScopeRetarget
<1>32. CASE Restart
  BY <1>32 DEF Restart
<1>33. CASE Approve
  BY <1>33 DEF Approve
<1>34. CASE RejectScope
  BY <1>34 DEF RejectScope, Rejecting
<1>35. CASE RejectSpec
  BY <1>35 DEF RejectSpec, Rejecting
<1>36. CASE RejectToFixing
  BY <1>36 DEF RejectToFixing, Rejecting
<1>37. CASE RejectRelease
  BY <1>37 DEF RejectRelease, Rejecting
<1>38. CASE Cancel
  BY <1>38 DEF Cancel
<1>39. CASE Resume
  BY <1>39 DEF Resume, Resuming
<1>40. CASE ResumeTo
  BY <1>40 DEF ResumeTo, Resuming
<1>41. CASE Expire
  BY <1>41 DEF Expire
<1>42. CASE RaiseLimit
  BY <1>42 DEF RaiseLimit
<1>43. CASE Stop
  BY <1>43 DEF Stop, Interrupted
<1>44. CASE Crash
  BY <1>44 DEF Crash, Interrupted
<1>45. CASE Finished
  BY <1>45 DEF Finished, vars
<1>46. CASE UNCHANGED vars
  BY <1>46 DEF vars
<1> QED
  BY <1>1, <1>2, <1>3, <1>4, <1>5, <1>6, <1>7, <1>8, <1>9, <1>10, <1>11,
     <1>12, <1>13, <1>14, <1>15, <1>16, <1>17, <1>18, <1>19, <1>20, <1>21, <1>22,
     <1>22a, <1>23, <1>24, <1>25, <1>26, <1>27, <1>28, <1>29, <1>30, <1>31, <1>32, <1>33,
     <1>34, <1>35, <1>36, <1>37, <1>38, <1>39, <1>40, <1>41, <1>42, <1>43, <1>44,
     <1>45, <1>46 DEF Next, Engine, Handler, People

(***************************************************************************)
(* Nothing takes the steering back.                                        *)
(***************************************************************************)
LEMMA SteeredKept ==
  ASSUME TypeOK, [Next]_vars
  PROVE  spent.steered => spent'.steered
BY HistoryTyped, SpentStep, SteeredOf

(***************************************************************************)
(* A job that waits to be retargeted is held.                              *)
(***************************************************************************)
LEMMA RetargetHeld == TypeOK /\ run.pc = "retarget" => state = "ESCALATED"
BY DEF TypeOK, Whereabouts

(***************************************************************************)
(* A suspended job was interrupted in an agent state.                      *)
(***************************************************************************)
LEMMA SuspendedPrev == TypeOK /\ state \in Suspended => prev \in AgentStates
BY DEF TypeOK, Whereabouts

(***************************************************************************)
(* A new job has nothing to repair.                                        *)
(***************************************************************************)
LEMMA RepairInit == Init => RepairIsDirected
<1>1. Init => state = "CREATED"
  BY DEF Init
<1>2. QED
  BY <1>1, RepairRead, PlainFit DEF Plain

(***************************************************************************)
(* Every way into a repair state says what is to be repaired, and no pause *)
(* on the way forgets it.                                                  *)
(***************************************************************************)
LEMMA RepairStep ==
  ASSUME TypeOK, RepairIsDirected, [Next]_vars
  PROVE  RepairIsDirected'
<1> DEFINE Pausing == \E next \in Paused : Move(next) /\ UNCHANGED <<fixSource, failedPhase>>
           Plainly == \E next \in Plain : Move(next)
           Staying == UNCHANGED <<state, prev, fixSource, failedPhase>>
<1>a. spent \in Histories
  BY HistoryTyped
<1>c. spent.steered => spent'.steered
  BY SteeredKept
<1>b. ASSUME Pausing \/ Plainly \/ Staying PROVE RepairIsDirected'
  BY <1>b, <1>c, PauseRepair, PlainRepair, StayRepair
<1>1. CASE DispatchAgent
  <2>1. Staying
    BY <1>1, PausedStates DEF DispatchAgent, Dispatchable, Plain, row, branch, env
  <2>2. QED
    BY <2>1, <1>b
<1>2. CASE BudgetHold
  <2>1. Pausing
    BY <1>2, PausedStates DEF BudgetHold, Dispatchable, Paused, Plain, row, branch, env
  <2>2. QED
    BY <2>1, <1>b
<1>3. CASE DispatchPhase
  <2>1. Staying
    BY <1>3, PausedStates DEF DispatchPhase, Dispatchable, Plain, row, branch, env
  <2>2. QED
    BY <2>1, <1>b
<1>4. CASE AgentFails
  <2>1. Pausing \/ Staying
    BY <1>4, PausedStates DEF AgentFails, Escalate, Paused, Plain, row, branch, env
  <2>2. QED
    BY <2>1, <1>b
<1>5. CASE AgentSuspends
  <2>1. Pausing
    BY <1>5, PausedStates DEF AgentSuspends, Paused, Plain, row, branch, env
  <2>2. QED
    BY <2>1, <1>b
<1>6. CASE AgentSucceeds
  <2>1. Staying
    BY <1>6, PausedStates DEF AgentSucceeds, Plain, row, branch, env
  <2>2. QED
    BY <2>1, <1>b
<1>7. CASE VerifyFinding
  <2>1. Pausing \/ Staying
    BY <1>7, PausedStates DEF VerifyFinding, Decide, Paused, Plain, row, branch, env
  <2>2. QED
    BY <2>1, <1>b
<1>8. CASE VerifySkipped
  <2>1. Staying
    BY <1>8, PausedStates DEF VerifySkipped, Decide, Plain, row, branch, env
  <2>2. QED
    BY <2>1, <1>b
<1>9. CASE Created
  <2>1. Plainly
    BY <1>9, PausedStates DEF Created, Plain, row, branch, env
  <2>2. QED
    BY <2>1, <1>b
<1>10. CASE Scoping
  <2>1. Plainly
    BY <1>10, PausedStates DEF Scoping, Plain, row, branch, env
  <2>2. QED
    BY <2>1, <1>b
<1>11. CASE Planning
  <2>1. Move("DESIGN_REVIEW")
    BY <1>11, Zenon DEF Planning
  <2>2. QED
    BY <2>1, <1>b DEF Plain
<1>12. CASE DesignReview
  <2>1. Pausing \/ Plainly
    BY <1>12, PausedStates DEF DesignReview, Escalate, Plain, row, branch, env
  <2>2. QED
    BY <2>1, <1>b
<1>13. CASE Implementing
  <2>1. Plainly
    BY <1>13, PausedStates DEF Implementing, Plain, row, branch, env
  <2>2. QED
    BY <2>1, <1>b
<1>14. CASE CodeReview
  <2>1. CASE Pausing \/ Plainly
    BY <2>1, <1>b
  <2>2. CASE Move("FIXING") /\ fixSource' = "code_review"
    BY <2>2, FixingRepair
  <2>3. QED
    BY <1>14, <2>1, <2>2, PausedStates DEF CodeReview, Escalate, Plain
<1>15. CASE Building
  <2>1. CASE Plainly
    BY <2>1, <1>b
  <2>2. CASE Move("ANALYZING") /\ failedPhase' = "build"
    BY <2>2, AnalyzingRepair
  <2>3. QED
    BY <1>15, <2>1, <2>2 DEF Building, Plain
<1>16. CASE Testing
  <2>1. CASE Staying \/ Plainly
    BY <2>1, <1>b
  <2>2. CASE Move("FLAKE_CHECK") /\ failedPhase' \in {"unit", "lint", "ui"}
    BY <2>2, FlakeRepair
  <2>3. CASE Move("ANALYZING") /\ failedPhase' = "ui"
    BY <2>3, AnalyzingRepair
  <2>4. QED
    BY <1>16, <2>1, <2>2, <2>3 DEF Testing, Stay, Plain
<1>17. CASE FlakeCheck
  <2>1. CASE Pausing \/ Plainly
    BY <2>1, <1>b
  <2>2. CASE Move("ANALYZING") /\ UNCHANGED failedPhase
    <3>1. state = "FLAKE_CHECK"
      BY <1>17 DEF FlakeCheck, Escalate, Handling
    <3>2. spent.steered \/ Rerunnable
      BY <3>1, PausedStates, RepairRead DEF Fit
    <3>3. spent' = spent
      BY <1>17 DEF FlakeCheck, Escalate, env
    <3>4. CASE spent.steered
      BY <3>3, <3>4, SteeredRepair
    <3>5. CASE Rerunnable
      BY <2>2, <3>5, AnalyzingRepair DEF Rerunnable
    <3>6. QED
      BY <3>2, <3>4, <3>5
  <2>3. QED
    BY <1>17, <2>1, <2>2, PausedStates DEF FlakeCheck, Escalate, Plain
<1>18. CASE Analyzing
  <2>1. CASE Pausing
    BY <2>1, <1>b
  <2>2. CASE Move("FIXING") /\ fixSource' = "analysis"
    BY <2>2, FixingRepair
  <2>3. QED
    BY <1>18, <2>1, <2>2, PausedStates DEF Analyzing, Escalate
<1>19. CASE FixRecorded
  <2>1. Staying
    BY <1>19, PausedStates DEF FixRecorded, Plain, row, branch, env
  <2>2. QED
    BY <2>1, <1>b
<1>20. CASE FixDone
  <2>1. Move("BUILDING")
    BY <1>20, Zenon DEF FixDone
  <2>2. QED
    BY <2>1, <1>b DEF Plain
<1>21. CASE FixGivesUp
  <2>1. Pausing
    BY <1>21, PausedStates DEF FixGivesUp, Escalate, Paused, Plain, row, branch, env
  <2>2. QED
    BY <2>1, <1>b
<1>22. CASE FinalReview
  <2>1. CASE Pausing \/ Plainly
    BY <2>1, <1>b
  <2>2. CASE Move("FIXING") /\ fixSource' = "final_review"
    BY <2>2, FixingRepair
  <2>3. QED
    BY <1>22, <2>1, <2>2, PausedStates DEF FinalReview, Escalate, Plain
<1>22a. CASE Rebase
  <2>1. Staying
    BY <1>22a, PausedStates DEF Rebase, Plain, row, branch, env
  <2>2. QED
    BY <2>1, <1>b
<1>23. CASE Merging
  <2>1. Plainly
    BY <1>23, PausedStates DEF Merging, Plain, row, branch, env
  <2>2. QED
    BY <2>1, <1>b
<1>24. CASE ShipSucceeds
  <2>1. Staying
    BY <1>24, PausedStates DEF ShipSucceeds, Plain, row, branch, env
  <2>2. QED
    BY <2>1, <1>b
<1>25. CASE ReleaseDone
  <2>1. Plainly
    BY <1>25, PausedStates DEF ReleaseDone, Plain, row, branch, env
  <2>2. QED
    BY <2>1, <1>b
<1>26. CASE ShipFails
  <2>1. Pausing \/ Staying
    BY <1>26, PausedStates DEF ShipFails, Escalate, Stay, Plain, row, branch, env
  <2>2. QED
    BY <2>1, <1>b
<1>27. CASE HandlerFails
  <2>1. Pausing
    BY <1>27, PausedStates DEF HandlerFails, Escalate, Paused, Plain, row, branch, env
  <2>2. QED
    BY <2>1, <1>b
<1>28. CASE TimeOut
  <2>1. Pausing
    BY <1>28, PausedStates DEF TimeOut, Paused, Plain, row, branch, env
  <2>2. QED
    BY <2>1, <1>b
<1>29. CASE BackoffElapsed
  <2>1. state \in Paused /\ Move(prev) /\ UNCHANGED failedPhase
    BY <1>29 DEF BackoffElapsed, Paused
  <2>2. prev \notin Paused
    BY <1>29, SuspendedPrev, PausedStates DEF BackoffElapsed, Resumable, AgentStates, Reviewing, ProducesCode
  <2>3. Sourced => Sourced'
    BY <1>29 DEF BackoffElapsed, Sourced
  <2>4. QED
    BY <2>1, <2>2, <2>3, <1>c, BackRepair
<1>30. CASE WaitElapsed
  <2>1. Staying
    BY <1>30, PausedStates DEF WaitElapsed, Plain, row, branch, env
  <2>2. QED
    BY <2>1, <1>b
<1>31. CASE ScopeRetarget
  <2>1. state \in Paused /\ state' = state /\ prev' = "SCOPING"
    BY <1>31, RetargetHeld, PausedStates DEF ScopeRetarget
  <2>2. QED
    BY <2>1, PausedRepair DEF Plain
<1>32. CASE Restart
  <2>1. Staying
    BY <1>32, PausedStates DEF Restart, Plain, row, branch, env
  <2>2. QED
    BY <2>1, <1>b
<1>33. CASE Approve
  <2>1. Plainly
    BY <1>33, PausedStates DEF Approve, Plain, row, branch, env
  <2>2. QED
    BY <2>1, <1>b
<1>34. CASE RejectScope
  <2>1. CASE Plainly
    BY <2>1, <1>b
  <2>2. CASE state' = "ESCALATED" /\ prev' = "AWAITING_SCOPE_APPROVAL"
    BY <2>2, PausedRepair, PausedStates DEF Plain
  <2>3. QED
    BY <1>34, <2>1, <2>2 DEF RejectScope, AtGate, Plain
<1>35. CASE RejectSpec
  <2>1. Plainly
    BY <1>35, PausedStates DEF RejectSpec, Rejecting, Plain, row, branch, env
  <2>2. QED
    BY <2>1, <1>b
<1>36. CASE RejectToFixing
  <2>1. Move("FIXING") /\ fixSource' = "human"
    BY <1>36 DEF RejectToFixing
  <2>2. QED
    BY <2>1, FixingRepair
<1>37. CASE RejectRelease
  <2>1. Plainly
    BY <1>37, PausedStates DEF RejectRelease, Rejecting, Plain, row, branch, env
  <2>2. QED
    BY <2>1, <1>b
<1>38. CASE Cancel
  <2>1. Plainly
    BY <1>38, PausedStates DEF Cancel, Plain, row, branch, env
  <2>2. QED
    BY <2>1, <1>b
<1>39. CASE Resume
  <2>1. state \in Paused /\ Move(prev) /\ UNCHANGED failedPhase
    BY <1>39 DEF Resume, Resuming, Paused
  <2>2. prev \notin Paused
    BY <1>39, PausedStates DEF Resume, Resumable, AgentStates, Reviewing, ProducesCode
  <2>3. Sourced => Sourced'
    BY <1>39 DEF Resume, Resuming, Sourced
  <2>4. QED
    BY <2>1, <2>2, <2>3, <1>c, BackRepair
<1>40. CASE ResumeTo
  <2>1. spent'.steered
    BY <1>40, <1>a, SteeredOf DEF ResumeTo
  <2>2. QED
    BY <2>1 DEF RepairIsDirected
<1>41. CASE Expire
  <2>1. Staying
    BY <1>41, PausedStates DEF Expire, Plain, row, branch, env
  <2>2. QED
    BY <2>1, <1>b
<1>42. CASE RaiseLimit
  <2>1. Staying
    BY <1>42, PausedStates DEF RaiseLimit, Plain, row, branch, env
  <2>2. QED
    BY <2>1, <1>b
<1>43. CASE Stop
  <2>1. Staying
    BY <1>43, PausedStates DEF Stop, Interrupted, Plain, row, branch, env
  <2>2. QED
    BY <2>1, <1>b
<1>44. CASE Crash
  <2>1. Staying
    BY <1>44, PausedStates DEF Crash, Interrupted, Plain, row, branch, env
  <2>2. QED
    BY <2>1, <1>b
<1>45. CASE Finished
  <2>1. Staying
    BY <1>45, PausedStates DEF Finished, vars, Plain, row, branch, env
  <2>2. QED
    BY <2>1, <1>b
<1>46. CASE UNCHANGED vars
  BY <1>46, <1>b DEF vars, row
<1> QED
  BY <1>1, <1>2, <1>3, <1>4, <1>5, <1>6, <1>7, <1>8, <1>9, <1>10, <1>11,
     <1>12, <1>13, <1>14, <1>15, <1>16, <1>17, <1>18, <1>19, <1>20, <1>21, <1>22,
     <1>22a, <1>23, <1>24, <1>25, <1>26, <1>27, <1>28, <1>29, <1>30, <1>31, <1>32, <1>33,
     <1>34, <1>35, <1>36, <1>37, <1>38, <1>39, <1>40, <1>41, <1>42, <1>43, <1>44,
     <1>45, <1>46 DEF Next, Engine, Handler, People

(***************************************************************************)
(* Unless an operator steered the job, a repair state knows what it is to  *)
(* repair: after any number of pauses, resumes, rejections and crashes.    *)
(***************************************************************************)
THEOREM RepairsAreDirected == Spec => []RepairIsDirected
<1>1. Init => TypeOK /\ RepairIsDirected
  BY TypeInit, RepairInit
<1>2. TypeOK /\ RepairIsDirected /\ [Next]_vars => TypeOK' /\ RepairIsDirected'
  BY TypeStep, RepairStep
<1>3. QED
  BY <1>1, <1>2, PTL DEF Spec


-----------------------------------------------------------------------------
(* The loops keep to their caps. *)

Stopped == Held \cup Terminal

\* A job that goes on has a round to go in every loop.
LoopsWithin ==
  \A c \in Loops :
    /\ cnt[c] <= Cap(c) + spent.resumes
    /\ state \in Stopped \/ cnt[c] < Cap(c) + spent.resumes

\* A fix that has yet to be counted: the job is in FIXING, or will be back.
FixAhead ==
  \/ state = "FIXING" /\ run.pc # "committed"
  \/ state \in Suspended /\ prev = "FIXING"

FixWithin ==
  /\ cnt.fix <= FixCap
  /\ FixAhead => cnt.fix < FixCap

(***************************************************************************)
(* A stopped job is one of four.                                           *)
(***************************************************************************)
LEMMA StoppedStates == Stopped = {"ESCALATED", "TIMED_OUT", "COMPLETED", "CANCELLED"}
BY DEF Stopped, Held, Terminal

(***************************************************************************)
(* The caps are numbers, as far as the limits go.                          *)
(***************************************************************************)
LEMMA CapOf ==
  /\ Cap("scope") = MaxScopeRounds
  /\ Cap("design") \in Nat /\ Cap("design") >= MaxDesignReviewRounds
  /\ Cap("design") >= 1
  /\ Cap("code") \in Nat /\ Cap("code") >= MaxCodeReviewRounds
  /\ Cap("code") >= 1
  /\ Cap("flake") = MaxFlakeRetries + 1
  /\ Cap("rel") = MaxReleaseRetries + 1
  /\ \A c \in Loops : Cap(c) \in Nat /\ Cap(c) > 0
BY LimitsAssumption DEF Cap, AtLeastOne, Loops

(***************************************************************************)
(* The counters count.                                                     *)
(***************************************************************************)
LEMMA CountersTyped ==
  ASSUME TypeOK
  PROVE  cnt \in Counters /\ cnt \in [CounterNames -> Nat]
BY DEF TypeOK, Counters

(***************************************************************************)
(* Agents and fixes are not charged to a loop, and a loop is no fix.       *)
(***************************************************************************)
LEMMA LoopsAlone ==
  ASSUME cnt \in Counters
  PROVE  /\ \A c \in Loops, n \in Nat :
              Charge("inv", n)[c] = cnt[c] /\ Charge("fix", n)[c] = cnt[c]
         /\ \A n \in Nat : Charge("inv", n).fix = cnt.fix
         /\ \A c \in Loops : Charge(c, 1).fix = cnt.fix
<1>1. Loops \subseteq CounterNames \ {"inv", "fix"}
  BY DEF Loops, CounterNames
<1>2. {"inv", "fix"} \subseteq CounterNames
  BY DEF CounterNames
<1>3. QED
  BY <1>1, <1>2, ChargeType

(***************************************************************************)
(* A step that counts in no loop keeps to the caps, if it leaves a stopped *)
(* job stopped or is a resume.                                             *)
(***************************************************************************)
LEMMA LoopsKept ==
  ASSUME TypeOK, LoopsWithin, \A c \in Loops : cnt'[c] = cnt[c],
         spent'.resumes \in {spent.resumes, spent.resumes + 1},
         (state \in Stopped => state' \in Stopped) \/ spent'.resumes = spent.resumes + 1
  PROVE  LoopsWithin'
<1>1. spent.resumes \in Nat /\ \A c \in Loops : cnt[c] \in Nat /\ Cap(c) \in Nat
  BY HistoryTyped, SpentNat, CountersTyped, CapOf DEF Loops, CounterNames
<1>2. Stopped' = Stopped /\ \A c \in Loops : Cap(c)' = Cap(c)
  BY StoppedStates DEF Cap, AtLeastOne
<1>3. QED
  BY <1>1, <1>2 DEF LoopsWithin

(***************************************************************************)
(* So does one that counts a round, if it stops the job at the last.       *)
(***************************************************************************)
LEMMA LoopCharged ==
  ASSUME TypeOK, LoopsWithin, NEW c \in Loops, cnt' = Charge(c, 1),
         spent'.resumes \in {spent.resumes, spent.resumes + 1},
         state \notin Stopped, state' \in Stopped \/ cnt[c] + 1 < Cap(c)
  PROVE  LoopsWithin'
<1>1. spent.resumes \in Nat /\ \A d \in Loops : cnt[d] \in Nat /\ Cap(d) \in Nat
  BY HistoryTyped, SpentNat, CountersTyped, CapOf DEF Loops, CounterNames
<1>2. cnt'[c] = cnt[c] + 1 /\ \A d \in Loops \ {c} : cnt'[d] = cnt[d]
  <2>1. cnt \in Counters /\ Loops \subseteq CounterNames
    BY CountersTyped DEF Loops, CounterNames
  <2>2. QED
    BY <2>1, ChargeType
<1>3. SUFFICES ASSUME NEW d \in Loops
               PROVE  /\ cnt'[d] <= Cap(d) + spent'.resumes
                      /\ state' \in Stopped \/ cnt'[d] < Cap(d) + spent'.resumes
  BY StoppedStates DEF LoopsWithin, Cap, AtLeastOne
<1>4. cnt[d] < Cap(d) + spent.resumes
  BY DEF LoopsWithin
<1>5. CASE d = c
  BY <1>1, <1>2, <1>4, <1>5
<1>6. CASE d # c
  BY <1>1, <1>2, <1>4, <1>6
<1>7. QED
  BY <1>5, <1>6

(***************************************************************************)
(* A job has counted nothing when it starts.                               *)
(***************************************************************************)
LEMMA LoopsInit == Init => LoopsWithin /\ FixWithin
<1> SUFFICES ASSUME Init PROVE LoopsWithin /\ FixWithin
  OBVIOUS
<1>1. state = "CREATED" /\ \A c \in CounterNames : cnt[c] = 0
  BY DEF Init
<1>2. spent.resumes = 0 /\ spent.rejects = 0 /\ spent.crashes = 0
  <2>1. spent = [resumes |-> 0, rejects |-> 0, crashes |-> 0, ships |-> 0,
                 steered |-> FALSE]
    BY DEF Init
  <2>2. QED
    BY <2>1
<1>3. ~FixAhead
  BY <1>1 DEF FixAhead, Suspended
<1>4. LoopsWithin
  BY <1>1, <1>2, CapOf DEF LoopsWithin, Loops, CounterNames
<1>5. FixWithin
  BY <1>1, <1>2, <1>3, LimitsAssumption DEF FixWithin, FixCap, CounterNames
<1>6. QED
  BY <1>4, <1>5

(***************************************************************************)
(* Where the agent, the verify pass and FIXING find the job.               *)
(***************************************************************************)
LEMMA WorkingState ==
  ASSUME TypeOK, run.pc \in {"agent", "verify", "committed", "rebased"}
  PROVE  state \notin Stopped /\ state \notin Suspended
         /\ (run.pc = "verify" => state # "FIXING")
BY StoppedStates DEF TypeOK, Whereabouts, AgentStates, Reviewing, ProducesCode, Suspended

(***************************************************************************)
(* No step takes a loop past its cap.                                      *)
(***************************************************************************)
LEMMA LoopStep ==
  ASSUME TypeOK, LoopsWithin, [Next]_vars
  PROVE  LoopsWithin'
<1> DEFINE Alone == \A c \in Loops : cnt'[c] = cnt[c]
<1>a. spent \in Histories /\ cnt \in Counters
  BY HistoryTyped, CountersTyped
<1>c. \A c \in Loops, n \in Nat :
        Charge("inv", n)[c] = cnt[c] /\ Charge("fix", n)[c] = cnt[c]
  BY <1>a, LoopsAlone
<1>d. spent'.resumes \in {spent.resumes, spent.resumes + 1}
  BY <1>a, SpentStep, SpentCounts
<1>b. ASSUME Alone, state \in Stopped => state' \in Stopped PROVE LoopsWithin'
  BY <1>b, <1>d, LoopsKept
<1>e. \A c \in Loops : cnt[c] \in Nat
  BY <1>a DEF Counters, Loops, CounterNames
<1>f. cnt.design \in Nat /\ cnt.code \in Nat /\ cnt.flake \in Nat /\ cnt.rel \in Nat
  BY <1>e DEF Loops
<1>g. /\ Charge("design", 1) # cnt /\ Charge("code", 1) # cnt
      /\ Charge("flake", 1) # cnt
  <2>1. /\ Charge("design", 1).design = cnt.design + 1
        /\ Charge("code", 1).code = cnt.code + 1
        /\ Charge("flake", 1).flake = cnt.flake + 1
    BY <1>a, ChargeType DEF CounterNames
  <2>2. QED
    BY <2>1, <1>f
<1>p. run.pc \in {"agent", "verify", "committed", "rebased"} => state \notin Stopped
  BY WorkingState
<1> USE LimitsAssumption
    DEF Move, Stay, InFlight, Between, Handling, AtGate, row, branch, env,
        Runnable, Resumable, AgentStates, Reviewing, ProducesCode, Suspended
<1>1. CASE DispatchAgent
  <2>1. Alone /\ (state \in Stopped => state' \in Stopped)
    BY <1>1, <1>c, StoppedStates DEF DispatchAgent, Dispatchable
  <2>2. QED
    BY <2>1, <1>b
<1>2. CASE BudgetHold
  <2>1. Alone /\ (state \in Stopped => state' \in Stopped)
    BY <1>2, <1>c, StoppedStates DEF BudgetHold, Dispatchable
  <2>2. QED
    BY <2>1, <1>b
<1>3. CASE DispatchPhase
  <2>1. Alone /\ (state \in Stopped => state' \in Stopped)
    BY <1>3, <1>c, StoppedStates DEF DispatchPhase, Dispatchable
  <2>2. QED
    BY <2>1, <1>b
<1>4. CASE AgentFails
  <2>1. Alone /\ (state \in Stopped => state' \in Stopped)
    BY <1>4, <1>c, <1>p, StoppedStates DEF AgentFails, Escalate
  <2>2. QED
    BY <2>1, <1>b
<1>5. CASE AgentSuspends
  <2>1. Alone /\ (state \in Stopped => state' \in Stopped)
    BY <1>5, <1>c, <1>p, StoppedStates DEF AgentSuspends
  <2>2. QED
    BY <2>1, <1>b
<1>6. CASE AgentSucceeds
  <2>1. Alone /\ (state \in Stopped => state' \in Stopped)
    BY <1>6, <1>c, StoppedStates DEF AgentSucceeds
  <2>2. QED
    BY <2>1, <1>b
<1>7. CASE VerifyFinding
  <2>1. Alone /\ (state \in Stopped => state' \in Stopped)
    BY <1>7, <1>c, <1>p, StoppedStates DEF VerifyFinding, Decide
  <2>2. QED
    BY <2>1, <1>b
<1>8. CASE VerifySkipped
  <2>1. Alone /\ (state \in Stopped => state' \in Stopped)
    BY <1>8, <1>c, <1>p, StoppedStates DEF VerifySkipped, Decide
  <2>2. QED
    BY <2>1, <1>b
<1>9. CASE Created
  <2>1. Alone /\ (state \in Stopped => state' \in Stopped)
    BY <1>9, <1>c, StoppedStates DEF Created
  <2>2. QED
    BY <2>1, <1>b
<1>10. CASE Scoping
  <2>1. Alone /\ (state \in Stopped => state' \in Stopped)
    BY <1>10, <1>c, StoppedStates DEF Scoping
  <2>2. QED
    BY <2>1, <1>b
<1>11. CASE Planning
  <2>1. Move("DESIGN_REVIEW") /\ UNCHANGED cnt /\ state = "PLANNING"
    BY <1>11, Zenon DEF Planning, Handling
  <2>2. state \notin Stopped
    BY <2>1, <1>p, StoppedStates
  <2>3. QED
    BY <2>1, <2>2, <1>b
<1>12. CASE DesignReview
  <2>1. CASE cnt' = cnt
    <3>1. state \notin Stopped
      BY <1>12, StoppedStates DEF DesignReview, Escalate
    <3>2. QED
      BY <2>1, <3>1, <1>b
  <2>2. CASE cnt' = Charge("design", 1)
    <3>1. state \notin Stopped
      BY <1>12, StoppedStates DEF DesignReview, Escalate
    <3>2. CASE state' \in Stopped
      BY <2>2, <3>1, <3>2, <1>d, LoopCharged DEF Loops
    <3>3. CASE state' \notin Stopped
      <4>1. state' # "ESCALATED"
        BY <3>3, StoppedStates
      <4>2. cnt.design + 1 < MaxDesignReviewRounds
        BY <1>12, <2>2, <4>1, <1>f, <1>g DEF DesignReview, Escalate
      <4>3. cnt["design"] + 1 < Cap("design")
        BY <4>2, <1>f, CapOf
      <4>4. QED
        BY <2>2, <3>1, <4>3, <1>d, LoopCharged DEF Loops
    <3>4. QED
      BY <3>2, <3>3
  <2>3. QED
    BY <1>12, <2>1, <2>2 DEF DesignReview, Escalate
<1>13. CASE Implementing
  <2>1. Alone /\ (state \in Stopped => state' \in Stopped)
    BY <1>13, <1>c, StoppedStates DEF Implementing
  <2>2. QED
    BY <2>1, <1>b
<1>14. CASE CodeReview
  <2>1. CASE cnt' = cnt
    <3>1. state \notin Stopped
      BY <1>14, StoppedStates DEF CodeReview, Escalate
    <3>2. QED
      BY <2>1, <3>1, <1>b
  <2>2. CASE cnt' = Charge("code", 1)
    <3>1. state \notin Stopped
      BY <1>14, StoppedStates DEF CodeReview, Escalate
    <3>2. CASE state' \in Stopped
      BY <2>2, <3>1, <3>2, <1>d, LoopCharged DEF Loops
    <3>3. CASE state' \notin Stopped
      <4>1. state' # "ESCALATED"
        BY <3>3, StoppedStates
      <4>2. cnt.code + 1 < MaxCodeReviewRounds
        BY <1>14, <2>2, <4>1, <1>f, <1>g DEF CodeReview, Escalate
      <4>3. cnt["code"] + 1 < Cap("code")
        BY <4>2, <1>f, CapOf
      <4>4. QED
        BY <2>2, <3>1, <4>3, <1>d, LoopCharged DEF Loops
    <3>4. QED
      BY <3>2, <3>3
  <2>3. QED
    BY <1>14, <2>1, <2>2 DEF CodeReview, Escalate
<1>15. CASE Building
  <2>1. Alone /\ (state \in Stopped => state' \in Stopped)
    BY <1>15, <1>c, StoppedStates DEF Building
  <2>2. QED
    BY <2>1, <1>b
<1>16. CASE Testing
  <2>1. Alone /\ (state \in Stopped => state' \in Stopped)
    BY <1>16, <1>c, StoppedStates DEF Testing
  <2>2. QED
    BY <2>1, <1>b
<1>17. CASE FlakeCheck
  <2>1. CASE cnt' = cnt
    <3>1. state \notin Stopped
      BY <1>17, StoppedStates DEF FlakeCheck, Escalate
    <3>2. QED
      BY <2>1, <3>1, <1>b
  <2>2. CASE cnt' = Charge("flake", 1)
    <3>1. state \notin Stopped
      BY <1>17, StoppedStates DEF FlakeCheck, Escalate
    <3>2. CASE state' \in Stopped
      BY <2>2, <3>1, <3>2, <1>d, LoopCharged DEF Loops
    <3>3. CASE state' \notin Stopped
      <4>1. state' # "ESCALATED"
        BY <3>3, StoppedStates
      <4>2. cnt.flake + 1 <= MaxFlakeRetries
        BY <1>17, <2>2, <4>1, <1>f, <1>g DEF FlakeCheck, Escalate
      <4>3. cnt["flake"] + 1 < Cap("flake")
        BY <4>2, <1>f, CapOf
      <4>4. QED
        BY <2>2, <3>1, <4>3, <1>d, LoopCharged DEF Loops
    <3>4. QED
      BY <3>2, <3>3
  <2>3. QED
    BY <1>17, <2>1, <2>2 DEF FlakeCheck, Escalate
<1>18. CASE Analyzing
  <2>1. Alone /\ (state \in Stopped => state' \in Stopped)
    BY <1>18, <1>c, StoppedStates DEF Analyzing, Escalate
  <2>2. QED
    BY <2>1, <1>b
<1>19. CASE FixRecorded
  <2>1. Alone /\ (state \in Stopped => state' \in Stopped)
    BY <1>19, <1>c, StoppedStates DEF FixRecorded
  <2>2. QED
    BY <2>1, <1>b
<1>20. CASE FixDone
  <2>1. Move("BUILDING") /\ UNCHANGED cnt /\ run.pc = "committed"
    BY <1>20, Zenon DEF FixDone, Handling
  <2>2. state \notin Stopped
    BY <2>1, <1>p, StoppedStates
  <2>3. QED
    BY <2>1, <2>2, <1>b
<1>21. CASE FixGivesUp
  <2>1. Alone /\ (state \in Stopped => state' \in Stopped)
    BY <1>21, <1>c, StoppedStates DEF FixGivesUp, Escalate
  <2>2. QED
    BY <2>1, <1>b
<1>22. CASE FinalReview
  <2>1. Alone /\ (state \in Stopped => state' \in Stopped)
    BY <1>22, <1>c, StoppedStates DEF FinalReview, Escalate
  <2>2. QED
    BY <2>1, <1>b
<1>22a. CASE Rebase
  <2>1. Alone /\ (state \in Stopped => state' \in Stopped)
    BY <1>22a, <1>c, StoppedStates DEF Rebase
  <2>2. QED
    BY <2>1, <1>b
<1>23. CASE Merging
  <2>1. Alone /\ (state \in Stopped => state' \in Stopped)
    BY <1>23, <1>c, <1>p, StoppedStates DEF Merging
  <2>2. QED
    BY <2>1, <1>b
<1>24. CASE ShipSucceeds
  <2>1. Alone /\ (state \in Stopped => state' \in Stopped)
    BY <1>24, <1>c, StoppedStates DEF ShipSucceeds
  <2>2. QED
    BY <2>1, <1>b
<1>25. CASE ReleaseDone
  <2>1. Alone /\ (state \in Stopped => state' \in Stopped)
    BY <1>25, <1>c, StoppedStates DEF ReleaseDone
  <2>2. QED
    BY <2>1, <1>b
<1>26. CASE ShipFails
  <2>1. state \notin Stopped
    BY <1>26, StoppedStates DEF ShipFails, Escalate
  <2>2. state' \in Stopped \/ cnt.rel + 1 <= MaxReleaseRetries
    BY <1>26, StoppedStates DEF ShipFails, Escalate
  <2>3. state' \in Stopped \/ cnt["rel"] + 1 < Cap("rel")
    BY <2>2, <1>f, CapOf
  <2>4. QED
    BY <1>26, <2>1, <2>3, <1>d, LoopCharged DEF ShipFails, Escalate, Loops
<1>27. CASE HandlerFails
  <2>1. Alone /\ (state \in Stopped => state' \in Stopped)
    BY <1>27, <1>c, StoppedStates DEF HandlerFails, Escalate
  <2>2. QED
    BY <2>1, <1>b
<1>28. CASE TimeOut
  <2>1. Alone /\ (state \in Stopped => state' \in Stopped)
    BY <1>28, <1>c, StoppedStates DEF TimeOut
  <2>2. QED
    BY <2>1, <1>b
<1>29. CASE BackoffElapsed
  <2>1. Alone /\ (state \in Stopped => state' \in Stopped)
    BY <1>29, <1>c, StoppedStates DEF BackoffElapsed
  <2>2. QED
    BY <2>1, <1>b
<1>30. CASE WaitElapsed
  <2>1. Alone /\ (state \in Stopped => state' \in Stopped)
    BY <1>30, <1>c, StoppedStates DEF WaitElapsed
  <2>2. QED
    BY <2>1, <1>b
<1>31. CASE ScopeRetarget
  <2>1. Alone /\ (state \in Stopped => state' \in Stopped)
    BY <1>31, <1>c, StoppedStates DEF ScopeRetarget
  <2>2. QED
    BY <2>1, <1>b
<1>32. CASE Restart
  <2>1. Alone /\ (state \in Stopped => state' \in Stopped)
    BY <1>32, <1>c, StoppedStates DEF Restart
  <2>2. QED
    BY <2>1, <1>b
<1>33. CASE Approve
  <2>1. Alone /\ (state \in Stopped => state' \in Stopped)
    BY <1>33, <1>c, StoppedStates DEF Approve
  <2>2. QED
    BY <2>1, <1>b
<1>34. CASE RejectScope
  <2>1. state \notin Stopped /\ (state' \in Stopped \/ cnt["scope"] + 1 < Cap("scope"))
    BY <1>34, <1>e, StoppedStates, CapOf DEF RejectScope
  <2>2. QED
    BY <1>34, <2>1, <1>d, LoopCharged DEF RejectScope, Loops
<1>35. CASE RejectSpec
  <2>1. Alone /\ (state \in Stopped => state' \in Stopped)
    BY <1>35, <1>c, StoppedStates DEF RejectSpec, Rejecting
  <2>2. QED
    BY <2>1, <1>b
<1>36. CASE RejectToFixing
  <2>1. Alone /\ (state \in Stopped => state' \in Stopped)
    BY <1>36, <1>c, StoppedStates DEF RejectToFixing, Rejecting
  <2>2. QED
    BY <2>1, <1>b
<1>37. CASE RejectRelease
  <2>1. Alone /\ (state \in Stopped => state' \in Stopped)
    BY <1>37, <1>c, StoppedStates DEF RejectRelease, Rejecting
  <2>2. QED
    BY <2>1, <1>b
<1>38. CASE Cancel
  <2>1. Alone /\ (state \in Stopped => state' \in Stopped)
    BY <1>38, <1>c, StoppedStates DEF Cancel
  <2>2. QED
    BY <2>1, <1>b
<1>39. CASE Resume
  <2>1. spent'.resumes = spent.resumes + 1 /\ cnt' = cnt
    BY <1>39, <1>a, SpentCounts DEF Resume, Resuming
  <2>2. QED
    BY <2>1, <1>d, LoopsKept
<1>40. CASE ResumeTo
  <2>1. spent'.resumes = spent.resumes + 1 /\ cnt' = cnt
    BY <1>40, <1>a, SpentCounts DEF ResumeTo, Resuming
  <2>2. QED
    BY <2>1, <1>d, LoopsKept
<1>41. CASE Expire
  <2>1. Alone /\ (state \in Stopped => state' \in Stopped)
    BY <1>41, <1>c, StoppedStates DEF Expire
  <2>2. QED
    BY <2>1, <1>b
<1>42. CASE RaiseLimit
  <2>1. Alone /\ (state \in Stopped => state' \in Stopped)
    BY <1>42, <1>c, StoppedStates DEF RaiseLimit
  <2>2. QED
    BY <2>1, <1>b
<1>43. CASE Stop
  <2>1. Alone /\ (state \in Stopped => state' \in Stopped)
    BY <1>43, <1>c, StoppedStates DEF Stop, Interrupted
  <2>2. QED
    BY <2>1, <1>b
<1>44. CASE Crash
  <2>1. Alone /\ (state \in Stopped => state' \in Stopped)
    BY <1>44, <1>c, StoppedStates DEF Crash, Interrupted
  <2>2. QED
    BY <2>1, <1>b
<1>45. CASE Finished
  <2>1. Alone /\ (state \in Stopped => state' \in Stopped)
    BY <1>45, <1>c, StoppedStates DEF Finished, vars
  <2>2. QED
    BY <2>1, <1>b
<1>46. CASE UNCHANGED vars
  BY <1>46, <1>b DEF vars, row
<1> QED
  BY <1>1, <1>2, <1>3, <1>4, <1>5, <1>6, <1>7, <1>8, <1>9, <1>10, <1>11,
     <1>12, <1>13, <1>14, <1>15, <1>16, <1>17, <1>18, <1>19, <1>20, <1>21, <1>22,
     <1>22a, <1>23, <1>24, <1>25, <1>26, <1>27, <1>28, <1>29, <1>30, <1>31, <1>32, <1>33,
     <1>34, <1>35, <1>36, <1>37, <1>38, <1>39, <1>40, <1>41, <1>42, <1>43, <1>44,
     <1>45, <1>46 DEF Next, Engine, Handler, People

(***************************************************************************)
(* What a resume, a rejection or a crash adds to the fix attempts.         *)
(***************************************************************************)
LEMMA FixCapGrows ==
  ASSUME TypeOK, [Next]_vars
  PROVE  FixCap \in Nat /\ FixCap' \in Nat /\ FixCap <= FixCap'
<1>1. spent \in Histories
  BY HistoryTyped
<1>2. FixCap \in Nat
  BY <1>1, SpentNat, LimitsAssumption DEF FixCap
<1>3. /\ spent'.resumes \in {spent.resumes, spent.resumes + 1}
      /\ spent'.rejects \in {spent.rejects, spent.rejects + 1}
      /\ spent'.crashes \in {spent.crashes, spent.crashes + 1}
  BY <1>1, SpentStep, SpentCounts
<1>4. QED
  BY <1>1, <1>2, <1>3, SpentNat, LimitsAssumption DEF FixCap

(***************************************************************************)
(* A step that counts no fix keeps to the cap, if it does not lead to one, *)
(* if the cap grows, or if the budget of the automatic fixes lasts.        *)
(***************************************************************************)
LEMMA FixKept ==
  ASSUME TypeOK, FixWithin, cnt'.fix = cnt.fix,
         FixCap \in Nat, FixCap' \in Nat, FixCap <= FixCap',
         (FixAhead' => FixAhead) \/ FixCap < FixCap' \/ cnt.fix < MaxFixAttempts
  PROVE  FixWithin'
<1>1. cnt.fix \in Nat
  BY CountersTyped DEF CounterNames
<1>2. MaxFixAttempts <= FixCap
  BY HistoryTyped, SpentNat, LimitsAssumption DEF FixCap
<1>3. QED
  BY <1>1, <1>2, LimitsAssumption DEF FixWithin

(***************************************************************************)
(* So does the count of a fix that was ahead.                              *)
(***************************************************************************)
LEMMA FixCharged ==
  ASSUME TypeOK, FixWithin, FixAhead, ~FixAhead', cnt' = Charge("fix", 1),
         FixCap \in Nat, FixCap' \in Nat, FixCap <= FixCap'
  PROVE  FixWithin'
<1>1. cnt.fix \in Nat /\ cnt'.fix = cnt.fix + 1
  BY CountersTyped, ChargeType DEF CounterNames
<1>2. QED
  BY <1>1 DEF FixWithin

(***************************************************************************)
(* No step takes the fixes past what was paid for.                         *)
(***************************************************************************)
LEMMA FixStep ==
  ASSUME TypeOK, FixWithin, [Next]_vars
  PROVE  FixWithin'
<1>a. spent \in Histories /\ cnt \in Counters
  BY HistoryTyped, CountersTyped
<1>c. /\ \A n \in Nat : Charge("inv", n).fix = cnt.fix
      /\ Charge("scope", 1).fix = cnt.fix /\ Charge("design", 1).fix = cnt.fix
      /\ Charge("code", 1).fix = cnt.fix /\ Charge("flake", 1).fix = cnt.fix
      /\ Charge("rel", 1).fix = cnt.fix
  BY <1>a, LoopsAlone DEF Loops
<1>d. FixCap \in Nat /\ FixCap' \in Nat /\ FixCap <= FixCap'
  BY FixCapGrows
<1>p. run.pc \in {"agent", "verify", "committed", "rebased"} =>
        state \notin Suspended /\ (run.pc = "verify" => state # "FIXING")
  BY WorkingState
<1> USE LimitsAssumption, IdleType, StepType
    DEF Move, Stay, InFlight, Between, Handling, AtGate, row, branch, env, Suspended
<1>1. CASE DispatchAgent
  <2>1. cnt'.fix = cnt.fix /\ (FixAhead' => FixAhead)
    BY <1>1, <1>c, <1>p DEF DispatchAgent, Dispatchable, FixAhead
  <2>2. QED
    BY <2>1, <1>d, FixKept
<1>2. CASE BudgetHold
  <2>1. cnt'.fix = cnt.fix /\ (FixAhead' => FixAhead)
    BY <1>2, <1>c, <1>p DEF BudgetHold, Dispatchable, FixAhead
  <2>2. QED
    BY <2>1, <1>d, FixKept
<1>3. CASE DispatchPhase
  <2>1. cnt'.fix = cnt.fix /\ (FixAhead' => FixAhead)
    BY <1>3, <1>c, <1>p DEF DispatchPhase, Dispatchable, FixAhead
  <2>2. QED
    BY <2>1, <1>d, FixKept
<1>4. CASE AgentFails
  <2>1. cnt'.fix = cnt.fix /\ (FixAhead' => FixAhead)
    BY <1>4, <1>c, <1>p DEF AgentFails, Escalate, FixAhead
  <2>2. QED
    BY <2>1, <1>d, FixKept
<1>5. CASE AgentSuspends
  <2>1. cnt'.fix = cnt.fix /\ (FixAhead' => FixAhead)
    BY <1>5, <1>c, <1>p DEF AgentSuspends, FixAhead
  <2>2. QED
    BY <2>1, <1>d, FixKept
<1>6. CASE AgentSucceeds
  <2>1. cnt'.fix = cnt.fix /\ (FixAhead' => FixAhead)
    BY <1>6, <1>c, <1>p DEF AgentSucceeds, FixAhead
  <2>2. QED
    BY <2>1, <1>d, FixKept
<1>7. CASE VerifyFinding
  <2>1. cnt'.fix = cnt.fix /\ (FixAhead' => FixAhead)
    BY <1>7, <1>c, <1>p DEF VerifyFinding, Decide, FixAhead
  <2>2. QED
    BY <2>1, <1>d, FixKept
<1>8. CASE VerifySkipped
  <2>1. cnt'.fix = cnt.fix /\ (FixAhead' => FixAhead)
    BY <1>8, <1>c, <1>p DEF VerifySkipped, Decide, FixAhead
  <2>2. QED
    BY <2>1, <1>d, FixKept
<1>9. CASE Created
  <2>1. cnt'.fix = cnt.fix /\ (FixAhead' => FixAhead)
    BY <1>9, <1>c, <1>p DEF Created, FixAhead
  <2>2. QED
    BY <2>1, <1>d, FixKept
<1>10. CASE Scoping
  <2>1. cnt'.fix = cnt.fix /\ (FixAhead' => FixAhead)
    BY <1>10, <1>c, <1>p DEF Scoping, FixAhead
  <2>2. QED
    BY <2>1, <1>d, FixKept
<1>11. CASE Planning
  <2>1. Move("DESIGN_REVIEW") /\ UNCHANGED cnt
    BY <1>11, Zenon DEF Planning
  <2>2. ~FixAhead'
    BY <2>1 DEF FixAhead
  <2>3. QED
    BY <2>1, <2>2, <1>d, FixKept
<1>12. CASE DesignReview
  <2>1. cnt'.fix = cnt.fix /\ (FixAhead' => FixAhead)
    BY <1>12, <1>c, <1>p DEF DesignReview, Escalate, FixAhead
  <2>2. QED
    BY <2>1, <1>d, FixKept
<1>13. CASE Implementing
  <2>1. cnt'.fix = cnt.fix /\ (FixAhead' => FixAhead)
    BY <1>13, <1>c, <1>p DEF Implementing, FixAhead
  <2>2. QED
    BY <2>1, <1>d, FixKept
<1>14. CASE CodeReview
  <2>1. cnt'.fix = cnt.fix
    BY <1>14, <1>c DEF CodeReview, Escalate
  <2>2. ~FixAhead' \/ cnt.fix < MaxFixAttempts
    BY <1>14 DEF CodeReview, Escalate, FixAhead
  <2>3. QED
    BY <2>1, <2>2, <1>d, FixKept
<1>15. CASE Building
  <2>1. cnt'.fix = cnt.fix /\ (FixAhead' => FixAhead)
    BY <1>15, <1>c, <1>p DEF Building, FixAhead
  <2>2. QED
    BY <2>1, <1>d, FixKept
<1>16. CASE Testing
  <2>1. cnt'.fix = cnt.fix /\ (FixAhead' => FixAhead)
    BY <1>16, <1>c, <1>p DEF Testing, FixAhead
  <2>2. QED
    BY <2>1, <1>d, FixKept
<1>17. CASE FlakeCheck
  <2>1. cnt'.fix = cnt.fix /\ (FixAhead' => FixAhead)
    BY <1>17, <1>c, <1>p DEF FlakeCheck, Escalate, FixAhead
  <2>2. QED
    BY <2>1, <1>d, FixKept
<1>18. CASE Analyzing
  <2>1. cnt'.fix = cnt.fix
    BY <1>18, <1>c DEF Analyzing, Escalate
  <2>2. ~FixAhead' \/ cnt.fix < MaxFixAttempts
    BY <1>18 DEF Analyzing, Escalate, FixAhead
  <2>3. QED
    BY <2>1, <2>2, <1>d, FixKept
<1>19. CASE FixRecorded
  <2>1. FixAhead /\ ~FixAhead'
    BY <1>19 DEF FixRecorded, FixAhead
  <2>2. QED
    BY <1>19, <2>1, <1>d, FixCharged DEF FixRecorded
<1>20. CASE FixDone
  <2>1. Move("BUILDING") /\ UNCHANGED cnt
    BY <1>20, Zenon DEF FixDone
  <2>2. ~FixAhead'
    BY <2>1 DEF FixAhead
  <2>3. QED
    BY <2>1, <2>2, <1>d, FixKept
<1>21. CASE FixGivesUp
  <2>1. FixAhead /\ ~FixAhead'
    BY <1>21 DEF FixGivesUp, Escalate, FixAhead
  <2>2. QED
    BY <1>21, <2>1, <1>d, FixCharged DEF FixGivesUp, Escalate
<1>22. CASE FinalReview
  <2>1. cnt'.fix = cnt.fix
    BY <1>22, <1>c DEF FinalReview, Escalate
  <2>2. ~FixAhead' \/ cnt.fix < MaxFixAttempts
    BY <1>22 DEF FinalReview, Escalate, FixAhead
  <2>3. QED
    BY <2>1, <2>2, <1>d, FixKept
<1>22a. CASE Rebase
  <2>1. cnt'.fix = cnt.fix /\ (FixAhead' => FixAhead)
    BY <1>22a, <1>c, <1>p DEF Rebase, FixAhead
  <2>2. QED
    BY <2>1, <1>d, FixKept
<1>23. CASE Merging
  <2>1. cnt'.fix = cnt.fix /\ (FixAhead' => FixAhead)
    BY <1>23, <1>c, <1>p DEF Merging, FixAhead
  <2>2. QED
    BY <2>1, <1>d, FixKept
<1>24. CASE ShipSucceeds
  <2>1. cnt'.fix = cnt.fix /\ (FixAhead' => FixAhead)
    BY <1>24, <1>c, <1>p DEF ShipSucceeds, FixAhead
  <2>2. QED
    BY <2>1, <1>d, FixKept
<1>25. CASE ReleaseDone
  <2>1. cnt'.fix = cnt.fix /\ (FixAhead' => FixAhead)
    BY <1>25, <1>c, <1>p DEF ReleaseDone, FixAhead
  <2>2. QED
    BY <2>1, <1>d, FixKept
<1>26. CASE ShipFails
  <2>1. cnt'.fix = cnt.fix /\ (FixAhead' => FixAhead)
    BY <1>26, <1>c, <1>p DEF ShipFails, Escalate, FixAhead
  <2>2. QED
    BY <2>1, <1>d, FixKept
<1>27. CASE HandlerFails
  <2>1. cnt'.fix = cnt.fix /\ (FixAhead' => FixAhead)
    BY <1>27, <1>c, <1>p DEF HandlerFails, Escalate, FixAhead
  <2>2. QED
    BY <2>1, <1>d, FixKept
<1>28. CASE TimeOut
  <2>1. cnt'.fix = cnt.fix /\ (FixAhead' => FixAhead)
    BY <1>28, <1>c, <1>p DEF TimeOut, FixAhead
  <2>2. QED
    BY <2>1, <1>d, FixKept
<1>29. CASE BackoffElapsed
  <2>1. cnt'.fix = cnt.fix /\ (FixAhead' => FixAhead)
    BY <1>29, <1>c, <1>p DEF BackoffElapsed, FixAhead
  <2>2. QED
    BY <2>1, <1>d, FixKept
<1>30. CASE WaitElapsed
  <2>1. cnt'.fix = cnt.fix /\ (FixAhead' => FixAhead)
    BY <1>30, <1>c, <1>p DEF WaitElapsed, FixAhead
  <2>2. QED
    BY <2>1, <1>d, FixKept
<1>31. CASE ScopeRetarget
  <2>1. cnt'.fix = cnt.fix /\ (FixAhead' => FixAhead)
    BY <1>31, <1>c, <1>p DEF ScopeRetarget, FixAhead
  <2>2. QED
    BY <2>1, <1>d, FixKept
<1>32. CASE Restart
  <2>1. cnt'.fix = cnt.fix /\ (FixAhead' => FixAhead)
    BY <1>32, <1>c, <1>p DEF Restart, FixAhead
  <2>2. QED
    BY <2>1, <1>d, FixKept
<1>33. CASE Approve
  <2>1. cnt'.fix = cnt.fix /\ (FixAhead' => FixAhead)
    BY <1>33, <1>c, <1>p DEF Approve, FixAhead
  <2>2. QED
    BY <2>1, <1>d, FixKept
<1>34. CASE RejectScope
  <2>1. cnt'.fix = cnt.fix /\ (FixAhead' => FixAhead)
    BY <1>34, <1>c, <1>p DEF RejectScope, Rejecting, FixAhead
  <2>2. QED
    BY <2>1, <1>d, FixKept
<1>35. CASE RejectSpec
  <2>1. cnt'.fix = cnt.fix /\ (FixAhead' => FixAhead)
    BY <1>35, <1>c, <1>p DEF RejectSpec, Rejecting, FixAhead
  <2>2. QED
    BY <2>1, <1>d, FixKept
<1>36. CASE RejectToFixing
  <2>1. cnt' = cnt
    BY <1>36 DEF RejectToFixing, Rejecting
  <2>2. FixCap < FixCap'
    BY <1>36, <1>a, SpentNat, SpentCounts, LimitsAssumption DEF RejectToFixing, Rejecting, FixCap
  <2>3. QED
    BY <2>1, <2>2, <1>d, FixKept
<1>37. CASE RejectRelease
  <2>1. cnt'.fix = cnt.fix /\ (FixAhead' => FixAhead)
    BY <1>37, <1>c, <1>p DEF RejectRelease, Rejecting, FixAhead
  <2>2. QED
    BY <2>1, <1>d, FixKept
<1>38. CASE Cancel
  <2>1. cnt'.fix = cnt.fix /\ (FixAhead' => FixAhead)
    BY <1>38, <1>c, <1>p DEF Cancel, FixAhead
  <2>2. QED
    BY <2>1, <1>d, FixKept
<1>39. CASE Resume
  <2>1. cnt' = cnt
    BY <1>39 DEF Resume, Resuming
  <2>2. FixCap < FixCap'
    BY <1>39, <1>a, SpentNat, SpentCounts, LimitsAssumption DEF Resume, Resuming, FixCap
  <2>3. QED
    BY <2>1, <2>2, <1>d, FixKept
<1>40. CASE ResumeTo
  <2>1. cnt' = cnt
    BY <1>40 DEF ResumeTo, Resuming
  <2>2. FixCap < FixCap'
    <3>1. spent' \in {[spent EXCEPT !.resumes = @ + 1],
                      [spent EXCEPT !.resumes = @ + 1, !.steered = TRUE]}
      BY <1>40 DEF ResumeTo
    <3>2. /\ spent'.resumes = spent.resumes + 1 /\ spent'.rejects = spent.rejects
          /\ spent'.crashes = spent.crashes
      BY <3>1, <1>a, SpentCounts
    <3>3. QED
      BY <3>2, <1>a, SpentNat, LimitsAssumption DEF FixCap
  <2>3. QED
    BY <2>1, <2>2, <1>d, FixKept
<1>41. CASE Expire
  <2>1. cnt'.fix = cnt.fix /\ (FixAhead' => FixAhead)
    BY <1>41, <1>c, <1>p DEF Expire, FixAhead
  <2>2. QED
    BY <2>1, <1>d, FixKept
<1>42. CASE RaiseLimit
  <2>1. cnt'.fix = cnt.fix /\ (FixAhead' => FixAhead)
    BY <1>42, <1>c, <1>p DEF RaiseLimit, FixAhead
  <2>2. QED
    BY <2>1, <1>d, FixKept
<1>43. CASE Stop
  <2>1. cnt' = cnt
    BY <1>43 DEF Stop, Interrupted
  <2>2. FixCap < FixCap'
    BY <1>43, <1>a, SpentNat, SpentCounts, LimitsAssumption DEF Stop, Interrupted, FixCap
  <2>3. QED
    BY <2>1, <2>2, <1>d, FixKept
<1>44. CASE Crash
  <2>1. cnt' = cnt
    BY <1>44 DEF Crash, Interrupted
  <2>2. FixCap < FixCap'
    BY <1>44, <1>a, SpentNat, SpentCounts, LimitsAssumption DEF Crash, Interrupted, FixCap
  <2>3. QED
    BY <2>1, <2>2, <1>d, FixKept
<1>45. CASE Finished
  <2>1. cnt'.fix = cnt.fix /\ (FixAhead' => FixAhead)
    BY <1>45, <1>c, <1>p DEF Finished, vars, FixAhead
  <2>2. QED
    BY <2>1, <1>d, FixKept
<1>46. CASE UNCHANGED vars
  BY <1>46, <1>d, FixKept DEF vars, row, FixAhead
<1> QED
  BY <1>1, <1>2, <1>3, <1>4, <1>5, <1>6, <1>7, <1>8, <1>9, <1>10, <1>11,
     <1>12, <1>13, <1>14, <1>15, <1>16, <1>17, <1>18, <1>19, <1>20, <1>21, <1>22,
     <1>22a, <1>23, <1>24, <1>25, <1>26, <1>27, <1>28, <1>29, <1>30, <1>31, <1>32, <1>33,
     <1>34, <1>35, <1>36, <1>37, <1>38, <1>39, <1>40, <1>41, <1>42, <1>43, <1>44,
     <1>45, <1>46 DEF Next, Engine, Handler, People

(***************************************************************************)
(* No loop runs past its cap and no mix of loops past the fix attempts:    *)
(* only people and crashes buy more, one each.                             *)
(***************************************************************************)
THEOREM LoopBudgetsHold == Spec => []LoopBudgets
<1>1. Init => TypeOK /\ LoopsWithin /\ FixWithin
  BY TypeInit, LoopsInit
<1>2. TypeOK /\ LoopsWithin /\ FixWithin /\ [Next]_vars
        => TypeOK' /\ LoopsWithin' /\ FixWithin'
  BY TypeStep, LoopStep, FixStep
<1>3. LoopsWithin /\ FixWithin => LoopBudgets
  BY DEF LoopsWithin, FixWithin, LoopBudgets
<1>4. QED
  BY <1>1, <1>2, <1>3, PTL DEF Spec

================================================================================
