--------------------------- MODULE ReviewArtifacts ---------------------------
(***************************************************************************)
(* What becomes of a finding: the review files of a job (handlers.go,      *)
(* jobctx.go), the verify pass between a review and its gate (verify.go,   *)
(* artifact.ApplyVerdicts), and who is handed which copy of a review.      *)
(*                                                                         *)
(* Every write of a file and of the row is a step, with crashes and        *)
(* suspensions in between.  The files under artifacts/ survive everything  *)
(* and are never deleted; a name is written again when its state is run    *)
(* again.  Budgets are Pipeline's: whether one is left is a choice here.   *)
(***************************************************************************)
EXTENDS ReviewFiles

jobRow == <<state, prev, rounds, last, source>>
vars   == <<jobRow, files, run, handed, judged, refuted, spent>>

-----------------------------------------------------------------------------
(* Findings and files. *)

Kinds == {"design", "code", "final"}

StateOf == [design |-> "DESIGN_REVIEW", code |-> "CODE_REVIEW", final |-> "FINAL_REVIEW"]

Blocking(fs) == {i \in DOMAIN fs : Gates(fs[i])}

With(name, review) ==
  [n \in DOMAIN files \cup {name} |-> IF n = name THEN review ELSE files[n]]

\* Mutant of PreferVerified.
PreferRaw(kind, round) == File(kind, round, "raw")

\* preferVerified, for the reader who comes by later.
PreferVerified(kind, round) ==
  IF File(kind, round, "verified") \in DOMAIN files
    THEN File(kind, round, "verified") ELSE File(kind, round, "raw")

-----------------------------------------------------------------------------
(* The algorithms of the verify pass. *)

Minted(seen, i) ==
  CHOOSE n \in i..(i + Len(seen)) :
    /\ \A j \in DOMAIN seen : seen[j] # n
    /\ \A m \in i..(n - 1) : \E j \in DOMAIN seen : seen[j] = m

\* Mutant of UniqueIds.
IdsAsWritten(fs) == fs

\* The i-th finding's id, when those before it have theirs.
FreshId(seen, own, i) ==
  IF own = 0 \/ \E j \in DOMAIN seen : seen[j] = own THEN Minted(seen, i) ELSE own

\* normaliseFindingIDs: blank and repeated ids are minted.
UniqueIds(fs) ==
  LET id[i \in DOMAIN fs] == FreshId([j \in 1..(i - 1) |-> id[j]], fs[i].id, i)
  IN [i \in DOMAIN fs |-> [fs[i] EXCEPT !.id = id[i]]]

NoVerdicts == [usable |-> FALSE, enough |-> FALSE]

\* What a fan-out amounts to: was a usable verdict among the answers, and did
\* enough of them (one, at the least) confirm the finding?
Tally(answers) ==
  LET confirmed == Cardinality({i \in DOMAIN answers : answers[i] = "confirmed"})
  IN [usable |-> \E i \in DOMAIN answers : answers[i] # "unusable",
      enough |-> confirmed >= 1 /\ confirmed >= MinConfirm]

\* ApplyVerdicts: verdicts are found by id.
ApplyVerdicts(fs, byId) ==
  [i \in DOMAIN fs |->
     IF fs[i].id \notin DOMAIN byId THEN fs[i]
     ELSE IF byId[fs[i].id].enough THEN [fs[i] EXCEPT !.verification = "survived"]
     ELSE [fs[i] EXCEPT !.verification = "refuted", !.severity = Nit]]

-----------------------------------------------------------------------------
\* todo: the gating findings still to be put to a vote; byId: verdicts so far;
\* cast: history, the verdicts of a finding's own verifiers.
Idle == [pc |-> "idle", kind |-> "design", review |-> NoReview, todo |-> {},
         byId |-> <<>>, cast |-> <<>>]

Nobody == [to |-> "", review |-> NoReview]

PipelineStates == {"PLANNING", "IMPLEMENTING", "FIXING", "BUILDING"} \cup {StateOf[k] : k \in Kinds}

\* Types; a review that is being verified still has something to vote on.
TypeOK ==
  /\ {state, prev} \subseteq PipelineStates
       \cup {"AWAITING_SPEC_APPROVAL", "AWAITING_CODE_APPROVAL", "AWAITING_MERGE_APPROVAL", "ESCALATED", "MERGING"}
  /\ rounds \in [{"design", "code"} -> Nat]
  /\ source \in {"", "analysis", "code_review", "final_review", "human"}
  /\ last = <<>> \/ last \in DOMAIN files
  /\ run.pc \in {"idle", "verify", "apply", "gate"}
  /\ run.pc = "verify" => run.todo # {}
  /\ run.pc # "idle" => state = StateOf[run.kind]
  /\ handed.to \in {"", "PLANNING", "IMPLEMENTING", "CODE_REVIEW", "FIXING"}

Init ==
  /\ state = "PLANNING" /\ prev = "PLANNING"
  /\ rounds = [k \in {"design", "code"} |-> 0]
  /\ last = <<>> /\ source = ""
  /\ files = <<>>
  /\ run = Idle
  /\ handed = Nobody
  /\ judged = [design |-> NoReview, diff |-> NoReview]
  /\ refuted = {}
  /\ spent = [reviews |-> 0, setbacks |-> 0]

At(s) == state = s /\ run.pc = "idle"

Goto(s) == prev' = state /\ state' = s

Hand(to, review) == handed' = [to |-> to, review |-> review]

-----------------------------------------------------------------------------
(* A review, up to its gate. *)

\* A review that has been harvested and loaded; the pass begins.
Loaded(kind, review) ==
  LET fs == UniqueIds(review.findings)
  IN IF Votes = 0
       THEN [Idle EXCEPT !.pc = "gate", !.kind = kind, !.review = review]
       ELSE [Idle EXCEPT !.pc = IF Blocking(fs) = {} THEN "gate" ELSE "verify",
                         !.kind = kind,
                         !.review = [review EXCEPT !.findings = fs],
                         !.todo = Blocking(fs),
                         !.cast = [i \in DOMAIN fs |-> NoVerdicts]]

\* The reviewer's agent has written a valid review.  From the second round on,
\* CODE_REVIEW was told what the round before came to.
Review(kind) ==
  /\ At(StateOf[kind])
  /\ spent.reviews < MaxReviews
  /\ \E fs \in Reports :
       LET review == [no |-> spent.reviews + 1, findings |-> fs]
       IN /\ files' = With(File(kind, RoundOf(kind), "raw"), review)
          /\ run' = Loaded(kind, review)
  /\ spent' = [spent EXCEPT !.reviews = @ + 1]
  /\ IF kind = "code" /\ rounds.code > 0
       THEN Hand("CODE_REVIEW", Read(PreferVerified("code", rounds.code)))
       ELSE handed' = Nobody
  /\ UNCHANGED <<jobRow, judged, refuted>>

First(is) == CHOOSE i \in is : \A j \in is : i <= j

\* The verdicts on the next finding of the list are in.
Decided(tally) ==
  LET i  == First(run.todo)
      id == run.review.findings[i].id
  IN /\ run' = [run EXCEPT
          !.todo = @ \ {i},
          !.pc = IF run.todo = {i} THEN "apply" ELSE "verify",
          !.cast[i] = tally,
          !.byId = IF ~tally.usable THEN @
                   ELSE [n \in DOMAIN @ \cup {id} |-> IF n = id THEN tally ELSE @[n]]]
     /\ UNCHANGED <<jobRow, files, handed, judged, refuted, spent>>

\* A fan-out: every verifier confirms, refutes, or leaves nothing usable (no
\* file, an invalid one, or one about another finding).
PutToVote ==
  /\ run.pc = "verify"
  /\ \E answers \in [1..Votes -> {"confirmed", "refuted", "unusable"}] : Decided(Tally(answers))

\* It does not fit the agent budget: nobody is asked.
VoteSkipped == run.pc = "verify" /\ Decided(NoVerdicts)

Applied == [run.review EXCEPT !.findings = ApplyVerdicts(@, run.byId)]

\* Mutant of WriteVerified.
WriteVerifiedIfRefuted ==
  /\ run.pc = "apply"
  /\ files' = IF \E i \in DOMAIN Applied.findings : Applied.findings[i].verification = "refuted"
                THEN With(File(run.kind, RoundOf(run.kind), "verified"), Applied) ELSE files
  /\ run' = [run EXCEPT !.pc = "gate", !.review = Applied]
  /\ UNCHANGED <<jobRow, handed, judged, refuted, spent>>

WriteVerified ==
  /\ run.pc = "apply"
  /\ files' = With(File(run.kind, RoundOf(run.kind), "verified"), Applied)
  /\ run' = [run EXCEPT !.pc = "gate", !.review = Applied]
  /\ UNCHANGED <<jobRow, handed, judged, refuted, spent>>

\* A verifier met a quota or no network, the write failed, or the process died:
\* the state is run again, by the same engine or the next.
Lost ==
  /\ run.pc # "idle"
  /\ spent.setbacks < MaxSetbacks
  /\ spent' = [spent EXCEPT !.setbacks = @ + 1]
  /\ run' = Idle
  /\ handed' = Nobody
  /\ UNCHANGED <<jobRow, files, judged, refuted>>

-----------------------------------------------------------------------------
(* The gates: what the handlers do with a review after the pass. *)

Blocks == Blocking(run.review.findings) # {}

Judge(kind) ==
  /\ run.pc = "gate" /\ run.kind = kind
  /\ run' = Idle
  /\ handed' = Nobody
  /\ judged' = [judged EXCEPT ![IF kind = "design" THEN "design" ELSE "diff"] = run.review]
  /\ refuted' = refuted \cup
       {<<run.review.no, i>> : i \in {j \in DOMAIN run.review.findings :
                                        run.review.findings[j].verification = "refuted"}}
  /\ UNCHANGED <<files, spent>>

DesignBlocks ==
  /\ Judge("design") /\ Blocks
  /\ rounds' = [rounds EXCEPT !.design = @ + 1]
  /\ Goto(IF rounds.design + 1 >= MaxDesignReviewRounds THEN "ESCALATED" ELSE "PLANNING")
  /\ UNCHANGED <<last, source>>

\* Findings below the threshold are remembered for IMPLEMENTING.
DesignPasses ==
  /\ Judge("design") /\ ~Blocks
  /\ last' = IF run.review.findings = <<>> THEN <<>>
             ELSE PreferVerified("design", RoundOf("design"))
  /\ Goto(IF SpecGate THEN "AWAITING_SPEC_APPROVAL" ELSE "IMPLEMENTING")
  /\ UNCHANGED <<rounds, source>>

\* The rounds, or the fix budget, may be used up.
CodeBlocks ==
  /\ Judge("code") /\ Blocks
  /\ rounds' = [rounds EXCEPT !.code = @ + 1]
  /\ \/ /\ rounds.code + 1 < MaxCodeReviewRounds
        /\ source' = "code_review"
        /\ Goto("FIXING")
     \/ /\ Goto("ESCALATED")
        /\ UNCHANGED source
  /\ UNCHANGED last

CodePasses ==
  /\ Judge("code") /\ ~Blocks
  /\ Goto(IF CodeGate THEN "AWAITING_CODE_APPROVAL" ELSE "BUILDING")
  /\ UNCHANGED <<rounds, last, source>>

FinalBlocks ==
  /\ Judge("final") /\ Blocks
  /\ \/ source' = "final_review" /\ Goto("FIXING")
     \/ Goto("ESCALATED") /\ UNCHANGED source
  /\ UNCHANGED <<rounds, last>>

FinalPasses ==
  /\ Judge("final") /\ ~Blocks
  /\ Goto("AWAITING_MERGE_APPROVAL")
  /\ UNCHANGED <<rounds, last, source>>

-----------------------------------------------------------------------------
(* The agents that are handed reviews. *)

\* The planner is handed the raw review that sent the plan back.
Plan ==
  /\ At("PLANNING")
  /\ Hand("PLANNING", IF rounds.design > 0 THEN Read(File("design", rounds.design, "raw"))
                                           ELSE NoReview)
  /\ source' = ""
  /\ Goto("DESIGN_REVIEW")
  /\ UNCHANGED <<rounds, last, files, run, judged, refuted, spent>>

Implement ==
  /\ At("IMPLEMENTING")
  /\ Hand("IMPLEMENTING", Read(last))
  /\ Goto("CODE_REVIEW")
  /\ UNCHANGED <<rounds, last, source, files, run, judged, refuted, spent>>

FixFindings ==
  IF source = "code_review" THEN Read(PreferVerified("code", rounds.code))
                            ELSE Read(PreferVerified("final", 0))

\* Done, or given up: then the source stays.
Fix ==
  /\ At("FIXING")
  /\ IF source \in {"code_review", "final_review"}
       THEN Hand("FIXING", FixFindings) ELSE handed' = Nobody
  /\ \/ source' = "" /\ Goto("BUILDING")
     \/ Goto("ESCALATED") /\ UNCHANGED source
  /\ UNCHANGED <<rounds, last, files, run, judged, refuted, spent>>

\* BUILDING to TESTING, or to ANALYZING and a fix of its own.
Build ==
  /\ At("BUILDING")
  /\ \/ Goto("FINAL_REVIEW") /\ UNCHANGED source
     \/ source' = "analysis" /\ Goto("FIXING")
  /\ handed' = Nobody
  /\ UNCHANGED <<rounds, last, files, run, judged, refuted, spent>>

-----------------------------------------------------------------------------
(* People. *)

Decide ==
  /\ \/ At("AWAITING_SPEC_APPROVAL") /\ (Goto("IMPLEMENTING") \/ Goto("PLANNING")) /\ UNCHANGED source
     \/ At("AWAITING_CODE_APPROVAL") /\ Goto("BUILDING") /\ UNCHANGED source
     \/ At("AWAITING_MERGE_APPROVAL") /\ Goto("MERGING") /\ UNCHANGED source
     \/ /\ At("AWAITING_CODE_APPROVAL") \/ At("AWAITING_MERGE_APPROVAL")
        /\ Goto("FIXING")
        /\ source' = "human"
  /\ handed' = Nobody
  /\ UNCHANGED <<rounds, last, files, run, judged, refuted, spent>>

\* An agent's attempts are used up.
Hold ==
  /\ state \in PipelineStates /\ run.pc = "idle" /\ spent.setbacks < MaxSetbacks
  /\ Goto("ESCALATED")
  /\ handed' = Nobody
  /\ UNCHANGED <<rounds, last, source, files, run, judged, refuted, spent>>

\* Where it stood, with a note or without.  An operator who steers the job by
\* hand (--to) takes it out of these promises; Pipeline has that choice.
Resume ==
  /\ At("ESCALATED") /\ spent.setbacks < MaxSetbacks
  /\ Goto(prev)
  /\ source' \in {source, "human"}
  /\ spent' = [spent EXCEPT !.setbacks = @ + 1]
  /\ handed' = Nobody
  /\ UNCHANGED <<rounds, last, files, run, judged, refuted>>

\* Merged, or one of the bounds is reached.
Finished ==
  /\ \/ state = "MERGING"
     \/ state = "ESCALATED" /\ spent.setbacks = MaxSetbacks
     \/ \E k \in Kinds : At(StateOf[k]) /\ spent.reviews = MaxReviews
  /\ UNCHANGED vars

Gate ==
  \/ DesignBlocks \/ DesignPasses \/ CodeBlocks \/ CodePasses \/ FinalBlocks \/ FinalPasses

Next ==
  \/ \E kind \in Kinds : Review(kind)
  \/ PutToVote \/ VoteSkipped \/ WriteVerified \/ Lost \/ Gate
  \/ Plan \/ Implement \/ Fix \/ Build
  \/ Decide \/ Hold \/ Resume \/ Finished

Spec == Init /\ [][Next]_vars
=============================================================================
