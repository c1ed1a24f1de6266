----------------------------- MODULE ReviewFiles -----------------------------
(***************************************************************************)
(* The review files of a job: what they hold, how they are named and read, *)
(* what a gate and its readers know of them, and what the verify pass and  *)
(* the review states promise of a finding.  ReviewArtifacts says how the   *)
(* files are written, judged and handed on.                                *)
(***************************************************************************)
EXTENDS Naturals, Sequences, FiniteSets

CONSTANTS
  Votes,       \* limits.verify_votes
  MinConfirm,  \* limits.verify_min_confirm
  Threshold,   \* policies.*_blocks_at, as a rank
  SpecGate, CodeGate,  \* are "spec" and "code" among policies.human_gates?
  MaxDesignReviewRounds, MaxCodeReviewRounds,
  Reports,     \* bound: the findings an agent may write
  MaxReviews,  \* bound: reviews written
  MaxSetbacks  \* bound: steps lost to a crash or a suspension, and holds resumed

\* An id is the n of F<n>, 0 a blank one; a severity is its rank; the verify
\* pass says what became of a finding.
Findings == [id : Nat, severity : Nat, verification : {"none", "survived", "refuted"}]

ASSUME VotesAssumption == Votes \in Nat /\ MinConfirm \in Nat
ASSUME ThresholdAssumption == Threshold \in Nat
ASSUME ReportsAssumption == Reports \subseteq Seq(Findings)

VARIABLES
  state, prev, \* the row: state and prev_state
  rounds,      \* the row: design_review_rounds and code_review_rounds
  last,        \* the row: last_design_review, a file
  source,      \* the row: fix_source
  files,       \* the review files in artifacts/, by name
  run,         \* the step in flight
  handed,      \* history: the review in the prompt of the last agent
  judged,      \* history: the last reviews to reach their gates, as judged there
  refuted,     \* history: the findings that were set aside
  spent        \* history: reviews written, setbacks

-----------------------------------------------------------------------------
\* DowngradedSeverity.
Nit == 0

Gates(f) == f.severity >= Threshold

\* A review of which there is no file, and which review a text came from.
NoReview == [no |-> 0, findings |-> <<>>]

\* The round a review is part of; final_review.json has none.
RoundOf(kind) == IF kind = "final" THEN 0 ELSE rounds[kind] + 1

File(kind, round, copy) == <<kind, round, copy>>

\* findingsJSON: a file that is not there is an empty text.
Read(name) == IF name \in DOMAIN files THEN files[name] ELSE NoReview

Raw == Read(File(run.kind, RoundOf(run.kind), "raw")).findings

-----------------------------------------------------------------------------
(***************************************************************************)
(* A finding that would stop the job is set aside if, and only if, its own *)
(* verifiers cast at least one usable verdict and fewer than MinConfirm    *)
(* confirmations.  A blank or repeated id never lets one finding be        *)
(* decided by another's evidence; no verdict is no refutation; and a       *)
(* finding nobody voted on keeps its severity (verify.go, SPEC 5.2).       *)
(***************************************************************************)
SetAsideByItsOwnVotes ==
  run.pc = "gate" =>
    \A i \in DOMAIN Raw :
      run.review.findings[i].severity =
        IF Votes > 0 /\ Gates(Raw[i]) /\ run.cast[i].usable /\ ~run.cast[i].enough
          THEN Nit ELSE Raw[i].severity

(***************************************************************************)
(* The fixer and the reviewer of the next round are told exactly what      *)
(* blocked, as the gate judged it: no file left by an earlier run of the   *)
(* state, a lost step or another round takes the place of that review      *)
(* (preferVerified, handleFixing, handleCodeReview).                       *)
(***************************************************************************)
ToldWhatBlocked ==
  handed.to \in {"FIXING", "CODE_REVIEW"} => handed.review = judged.diff

(***************************************************************************)
(* A refuted finding is handed on with its refutation ("or the implementer *)
(* reworks correct code on a dismissed claim", handlers.go), whichever     *)
(* copy its reader finds: to everyone but the planner.                     *)
(***************************************************************************)
RefutationTravels ==
  handed.to # "PLANNING" =>
    \A f \in refuted :
      f[1] = handed.review.no => handed.review.findings[f[2]].verification = "refuted"

(***************************************************************************)
(* What handleDesignReview says of the findings of a review that passed:   *)
(* "Remember which artifact holds them so IMPLEMENTING can be handed them  *)
(* instead of discarding them."  It does not hold: when the plan passed by *)
(* a refutation, was sent back at the spec gate, and its next review, of   *)
(* the same round, has nothing to vote on, the verified copy of the older  *)
(* review is still there and is preferred.                                 *)
(***************************************************************************)
PassedFindingsHandedOn ==
  handed.to = "IMPLEMENTING" /\ judged.design.findings # <<>>
    => handed.review.no = judged.design.no
=============================================================================
