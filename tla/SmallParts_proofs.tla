----------------------------- MODULE SmallParts_proofs -----------------------------
(***************************************************************************)
(* The review files, for any number of reviews, votes, confirmations and   *)
(* setbacks and whatever an agent writes into a review: a finding is set   *)
(* aside by its own votes, the fixer is told what blocked, a refutation    *)
(* travels with its finding.                                               *)
(*                                                                         *)
(* And the loop over the jobs, for any number of jobs, of slots and of     *)
(* starts, with or without --once, whether or not ListJobs fails: no job   *)
(* has two steps at once, an engine that has returned has none at work,    *)
(* and `run --once' leaves no work.  The two share no variable.            *)
(***************************************************************************)
EXTENDS ReviewArtifacts, JobLoop, WellFoundedInduction, FiniteSetTheorems, TLAPS

Run == INSTANCE Scheduler

-----------------------------------------------------------------------------
(* Induction on the natural numbers, and the ids of findings. *)

(***************************************************************************)
(* Induction on the natural numbers, over a set: the numbers outside of T  *)
(* would have a least one, and that one is neither 0 nor a successor of    *)
(* one in T.                                                               *)
(***************************************************************************)
LEMMA NatSets ==
  ASSUME NEW T, 0 \in T, \A n \in Nat : n \in T => n + 1 \in T
  PROVE  \A n \in Nat : n \in T
<1> DEFINE R == OpToRel(<, Nat)
           B == {n \in Nat : n \notin T}
<1>1. IsWellFoundedOn(R, Nat)
  BY NatLessThanWellFounded
<1>2. ASSUME B # {} PROVE FALSE
  <2>1. PICK x \in B : \A y \in B : ~(<<y, x>> \in R)
    <3> HIDE DEF R
    <3> QED BY <1>1, <1>2, WFMin
  <2>2. x # 0 /\ x \in Nat
    OBVIOUS
  <2>3. x - 1 \in Nat /\ x - 1 < x
    BY <2>2
  <2>4. x - 1 \in B
    BY <2>2, <2>3
  <2>5. <<x - 1, x>> \in R
    BY <2>2, <2>3 DEF OpToRel
  <2>6. QED
    BY <2>1, <2>4, <2>5
<1>3. QED
  BY <1>2

(***************************************************************************)
(* A set of natural numbers that is not empty has a least one.             *)
(***************************************************************************)
LEMMA LeastOf ==
  ASSUME NEW S \in SUBSET Nat, S # {}
  PROVE  \E x \in S : \A y \in S : x <= y
<1> DEFINE R == OpToRel(<, Nat)
<1>1. IsWellFoundedOn(R, Nat)
  BY NatLessThanWellFounded
<1>2. PICK x \in S : \A y \in S : ~(<<y, x>> \in R)
  <2> HIDE DEF R
  <2> QED BY <1>1, WFMin
<1>3. ASSUME NEW y \in S PROVE x <= y
  <2>1. ~(<<y, x>> \in R)
    BY <1>2
  <2>2. ~(y < x)
    BY <2>1 DEF OpToRel
  <2>3. QED
    BY <2>2
<1>4. QED
  BY <1>3

(***************************************************************************)
(* The next finding of the list is one of the list.                        *)
(***************************************************************************)
LEMMA FirstOf ==
  ASSUME NEW is \in SUBSET Nat, is # {}
  PROVE  First(is) \in is
<1>1. \E x \in is : \A y \in is : x <= y
  BY LeastOf
<1>2. QED
  BY <1>1 DEF First

(***************************************************************************)
(* A minted id is nobody's: among Len(seen) + 1 candidates at least one is *)
(* not taken (the pigeonhole principle), and the least of those is what    *)
(* the loop of normaliseFindingIDs stops at.                               *)
(***************************************************************************)
LEMMA MintedIsNew ==
  ASSUME NEW seen \in Seq(Nat), NEW i \in Nat
  PROVE  /\ Minted(seen, i) \in Nat
         /\ \A j \in DOMAIN seen : seen[j] # Minted(seen, i)
<1> DEFINE Used == {seen[j] : j \in 1..Len(seen)}
           Free == {n \in i..(i + Len(seen)) : n \notin Used}
<1>0. Len(seen) \in Nat /\ DOMAIN seen = 1..Len(seen)
  OBVIOUS
<1>1. IsFiniteSet(Used) /\ Cardinality(Used) <= Len(seen)
  <2>1. IsFiniteSet(1..Len(seen)) /\ Cardinality(1..Len(seen)) = Len(seen)
    <3> DEFINE n == Len(seen)
    <3>1. n \in Nat /\ 1 \in Int /\ n \in Int
      BY <1>0
    <3> HIDE DEF n
    <3>2. IsFiniteSet(1..n) /\ Cardinality(1..n) = IF 1 > n THEN 0 ELSE n - 1 + 1
      BY <3>1, FS_Interval
    <3>3. IsFiniteSet(1..n) /\ Cardinality(1..n) = n
      BY <3>1, <3>2
    <3>4. QED
      BY <3>3 DEF n
  <2>2. QED
    <3> DEFINE f == [j \in 1..Len(seen) |-> seen[j]]
    <3>1. f \in Surjection(1..Len(seen), Used)
      BY DEF Surjection
    <3> HIDE DEF f, Used
    <3>2. QED
      BY <2>1, <3>1, FS_Surjection
<1>2. Free # {}
  <2> SUFFICES ASSUME Free = {} PROVE FALSE
    OBVIOUS
  <2>1. i..(i + Len(seen)) \subseteq Used
    OBVIOUS
  <2>2. Cardinality(i..(i + Len(seen))) = Len(seen) + 1
    BY <1>0, FS_Interval
  <2>3. Cardinality(i..(i + Len(seen))) <= Cardinality(Used)
    <3> HIDE DEF Used
    <3> QED BY <1>1, <2>1, FS_Subset
  <2>4. Cardinality(Used) \in Nat
    <3> HIDE DEF Used
    <3> QED BY <1>1, FS_CardinalityType
  <2>5. QED
    <3> HIDE DEF Used
    <3> QED BY <1>0, <1>1, <2>2, <2>3, <2>4
<1>3. PICK n \in Free : \A m \in Free : n <= m
  <2>1. Free \in SUBSET Nat
    BY <1>0
  <2> HIDE DEF Free
  <2> QED BY <1>2, <2>1, LeastOf
<1>4. /\ n \in i..(i + Len(seen))
      /\ \A j \in DOMAIN seen : seen[j] # n
      /\ \A m \in i..(n - 1) : \E j \in DOMAIN seen : seen[j] = m
  <2>1. ASSUME NEW m \in i..(n - 1) PROVE \E j \in DOMAIN seen : seen[j] = m
    <3>1. m \in i..(i + Len(seen)) /\ ~(n <= m)
      BY <1>0, <1>3
    <3>2. m \notin Free
      BY <1>3, <3>1
    <3>3. QED
      BY <1>0, <3>1, <3>2
  <2>2. QED
    BY <1>0, <1>3, <2>1
<1>5. QED
  BY <1>0, <1>4 DEF Minted

(***************************************************************************)
(* Whether kept or minted, a finding's id is none of those before it.      *)
(***************************************************************************)
LEMMA FreshIdIsNew ==
  ASSUME NEW seen \in Seq(Nat), NEW own \in Nat, NEW i \in Nat
  PROVE  /\ FreshId(seen, own, i) \in Nat
         /\ \A j \in DOMAIN seen : seen[j] # FreshId(seen, own, i)
BY MintedIsNew DEF FreshId

(***************************************************************************)
(* The ids of the first n findings, by the recursion of                    *)
(* normaliseFindingIDs.                                                    *)
(***************************************************************************)
IdsTo(fs, id, n) == [i \in 1..n |-> FreshId([j \in 1..(i - 1) |-> id[j]], fs[i].id, i)]

(***************************************************************************)
(* The recursion of normaliseFindingIDs is well defined: for every prefix  *)
(* of the list there is a function that satisfies it.                      *)
(***************************************************************************)
LEMMA IdsExist ==
  ASSUME NEW fs \in Seq(Findings)
  PROVE  \A n \in Nat : n <= Len(fs) => \E id : id \in [1..n -> Nat] /\ id = IdsTo(fs, id, n)
<1> DEFINE T == {n \in Nat : n <= Len(fs) => \E id : id \in [1..n -> Nat] /\ id = IdsTo(fs, id, n)}
<1>1. 0 \in T
  <2>1. LET id == [i \in 1..0 |-> 0] IN id \in [1..0 -> Nat] /\ id = IdsTo(fs, id, 0)
    BY DEF IdsTo
  <2>2. QED
    BY <2>1
<1>2. ASSUME NEW n \in Nat, n \in T, n + 1 <= Len(fs) PROVE n + 1 \in T
  <2>1. PICK id : id \in [1..n -> Nat] /\ id = IdsTo(fs, id, n)
    BY <1>2
  <2> DEFINE new == FreshId([j \in 1..n |-> id[j]], fs[n + 1].id, n + 1)
             ext == [i \in 1..(n + 1) |-> IF i <= n THEN id[i] ELSE new]
  <2>2. new \in Nat
    <3>1. [j \in 1..n |-> id[j]] \in Seq(Nat)
      BY <2>1
    <3>2. fs[n + 1] \in Findings
      BY <1>2
    <3>3. fs[n + 1].id \in Nat
      BY <3>2 DEF Findings
    <3>4. n + 1 \in Nat
      OBVIOUS
    <3>5. FreshId([j \in 1..n |-> id[j]], fs[n + 1].id, n + 1) \in Nat
      BY ONLY <3>1, <3>3, <3>4, FreshIdIsNew
    <3>6. QED
      BY <3>5
  <2>3. ASSUME NEW i \in 1..(n + 1)
        PROVE  ext[i] = FreshId([j \in 1..(i - 1) |-> ext[j]], fs[i].id, i)
    <3> HIDE DEF new
    <3>1. [j \in 1..(i - 1) |-> ext[j]] = [j \in 1..(i - 1) |-> id[j]]
      OBVIOUS
    <3>2. CASE i <= n
      <4>1. IdsTo(fs, id, n)[i] = FreshId([j \in 1..(i - 1) |-> id[j]], fs[i].id, i)
        BY <3>2 DEF IdsTo
      <4>2. ext[i] = IdsTo(fs, id, n)[i]
        BY <2>1, <3>2
      <4>3. QED
        BY <3>1, <4>1, <4>2
    <3>3. CASE i = n + 1
      <4>1. ext[i] = new /\ i - 1 = n
        BY <3>3
      <4>2. QED
        BY <3>1, <3>3, <4>1 DEF new
    <3>4. QED
      BY <3>2, <3>3
  <2>4. ext \in [1..(n + 1) -> Nat]
    <3> HIDE DEF new
    <3> QED BY <2>1, <2>2
  <2>5. ext = IdsTo(fs, ext, n + 1)
    <3> HIDE DEF ext
    <3> QED BY <2>3, <2>4 DEF IdsTo
  <2>6. QED
    <3> HIDE DEF ext
    <3> QED BY <2>4, <2>5
<1>3. \A n \in Nat : n \in T => n + 1 \in T
  <2> SUFFICES ASSUME NEW n \in Nat, n \in T PROVE n + 1 \in T
    OBVIOUS
  <2>1. CASE n + 1 <= Len(fs)
    BY <1>2, <2>1
  <2>2. CASE ~(n + 1 <= Len(fs))
    BY <2>2
  <2>3. QED
    BY <2>1, <2>2
<1>4. \A n \in Nat : n \in T
  <2> HIDE DEF T
  <2> QED BY <1>1, <1>3, NatSets
<1>5. QED
  BY <1>4

(***************************************************************************)
(* normaliseFindingIDs, for every list of findings: the ids are pairwise   *)
(* different afterwards and nothing but ids has changed.                   *)
(***************************************************************************)
LEMMA IdsAreUnique ==
  ASSUME NEW fs \in Seq(Findings)
  PROVE  /\ UniqueIds(fs) \in Seq(Findings)
         /\ DOMAIN UniqueIds(fs) = DOMAIN fs
         /\ \A i \in DOMAIN fs : /\ UniqueIds(fs)[i].severity = fs[i].severity
                                 /\ UniqueIds(fs)[i].verification = fs[i].verification
         /\ \A i, j \in DOMAIN fs : UniqueIds(fs)[i].id = UniqueIds(fs)[j].id => i = j
<1>0. Len(fs) \in Nat /\ DOMAIN fs = 1..Len(fs) /\ \A i \in DOMAIN fs : fs[i] \in Findings
  OBVIOUS
<1>1. PICK id : id \in [1..Len(fs) -> Nat] /\ id = IdsTo(fs, id, Len(fs))
  BY <1>0, IdsExist
<1> DEFINE ids == CHOOSE h : h = [i \in DOMAIN fs |-> FreshId([j \in 1..(i - 1) |-> h[j]], fs[i].id, i)]
<1>2. ids = [i \in DOMAIN fs |-> FreshId([j \in 1..(i - 1) |-> ids[j]], fs[i].id, i)]
  BY <1>0, <1>1 DEF IdsTo
<1>3. UniqueIds(fs) = [i \in DOMAIN fs |-> [fs[i] EXCEPT !.id = ids[i]]]
  BY DEF UniqueIds
<1> HIDE DEF ids
<1>4. \A n \in Nat : \A i \in DOMAIN fs : i <= n => ids[i] \in Nat
  <2> DEFINE T == {n \in Nat : \A i \in DOMAIN fs : i <= n => ids[i] \in Nat}
  <2>1. 0 \in T
    BY <1>0
  <2>2. ASSUME NEW n \in Nat, n \in T PROVE n + 1 \in T
    <3> SUFFICES ASSUME NEW i \in DOMAIN fs, i = n + 1 PROVE ids[i] \in Nat
      BY <1>0, <2>2
    <3>1. [j \in 1..(i - 1) |-> ids[j]] \in Seq(Nat)
      <4>1. \A j \in 1..(i - 1) : ids[j] \in Nat
        BY <1>0, <2>2
      <4>2. QED
        BY <1>0, <4>1
    <3>2. fs[i] \in Findings
      BY <1>0
    <3>3. fs[i].id \in Nat /\ i \in Nat
      BY <1>0, <3>2 DEF Findings
    <3>4. ids[i] = FreshId([j \in 1..(i - 1) |-> ids[j]], fs[i].id, i)
      BY <1>2
    <3>5. QED
      BY <3>1, <3>3, <3>4, FreshIdIsNew
  <2>3. QED
    <3>1. \A n \in Nat : n \in T
      <4> HIDE DEF T
      <4> QED BY <2>1, <2>2, NatSets
    <3>2. QED
      BY <3>1
<1>5. \A i \in DOMAIN fs : ids[i] \in Nat
  BY <1>0, <1>4
<1>6. ASSUME NEW i \in DOMAIN fs, NEW j \in DOMAIN fs, j < i PROVE ids[i] # ids[j]
  <2> DEFINE seen == [k \in 1..(i - 1) |-> ids[k]]
  <2>1. seen \in Seq(Nat)
    <3>1. \A k \in 1..(i - 1) : ids[k] \in Nat
      BY <1>0, <1>5
    <3>2. QED
      BY <1>0, <3>1
  <2>2. fs[i].id \in Nat /\ i \in Nat
    BY <1>0 DEF Findings
  <2>3. ids[i] = FreshId(seen, fs[i].id, i)
    BY <1>2
  <2>4. j \in DOMAIN seen /\ seen[j] = ids[j]
    BY <1>0, <1>6
  <2>5. seen[j] # FreshId(seen, fs[i].id, i)
    <3> HIDE DEF seen
    <3> QED BY <2>1, <2>2, <2>4, FreshIdIsNew
  <2>6. QED
    <3> HIDE DEF seen
    <3> QED BY <2>3, <2>4, <2>5
<1>7. UniqueIds(fs) \in Seq(Findings)
  <2>1. \A i \in DOMAIN fs : [fs[i] EXCEPT !.id = ids[i]] \in Findings
    BY <1>0, <1>5 DEF Findings
  <2>2. QED
    BY <1>0, <1>3, <2>1
<1>8. \A i \in DOMAIN fs : /\ UniqueIds(fs)[i].id = ids[i]
                           /\ UniqueIds(fs)[i].severity = fs[i].severity
                           /\ UniqueIds(fs)[i].verification = fs[i].verification
  BY <1>0, <1>3 DEF Findings
<1>9. \A i, j \in DOMAIN fs : UniqueIds(fs)[i].id = UniqueIds(fs)[j].id => i = j
  BY <1>0, <1>6, <1>8
<1>10. QED
  BY <1>3, <1>7, <1>8, <1>9

-----------------------------------------------------------------------------
(* The inductive invariant of ReviewArtifacts. *)

Copies == {"raw", "verified"}

ReviewType == [no : Nat, findings : Seq(Findings)]
VoteType   == [usable : BOOLEAN, enough : BOOLEAN]

RawName == File(run.kind, RoundOf(run.kind), "raw")
OwnCopy == File(run.kind, RoundOf(run.kind), "verified")

(***************************************************************************)
(* Types, in full; and a review has a number of its own.                   *)
(***************************************************************************)
Typed ==
  /\ TypeOK
  /\ DOMAIN files \subseteq Kinds \X Nat \X Copies
  /\ \A n \in DOMAIN files : files[n] \in ReviewType
  /\ DOMAIN run = {"pc", "kind", "review", "todo", "byId", "cast"}
  /\ run.kind \in Kinds /\ run.review \in ReviewType
  /\ judged \in [design : ReviewType, diff : ReviewType]
  /\ spent \in [reviews : Nat, setbacks : Nat]

\* Where an escalated job stands is where it goes back to.
Standing == IF state = "ESCALATED" THEN prev ELSE state

(***************************************************************************)
(* The review in the pass is the last one written.  Its number is that of  *)
(* its raw file and, behind the pass, of its verified copy alone; no gate  *)
(* has seen it.                                                            *)
(***************************************************************************)
Numbered ==
  /\ \A n \in DOMAIN files : files[n].no <= spent.reviews
  /\ judged.design.no <= spent.reviews /\ judged.diff.no <= spent.reviews
  /\ \A f \in refuted : f[1] \in 1..spent.reviews
  /\ run.pc # "idle" =>
       /\ run.review.no = spent.reviews /\ spent.reviews > 0
       /\ RawName \in DOMAIN files /\ files[RawName].no = run.review.no
       /\ judged.design.no < run.review.no /\ judged.diff.no < run.review.no
       /\ \A f \in refuted : f[1] < run.review.no
       /\ \A n \in DOMAIN files : files[n].no = run.review.no =>
            n = RawName \/ (run.pc = "gate" /\ n = OwnCopy /\ files[n] = run.review)

(***************************************************************************)
(* The pass: ids are told apart, a finding that could be voted on has the  *)
(* verdicts its own verifiers cast and no others, and nothing but an       *)
(* applied verdict changes a severity.                                     *)
(***************************************************************************)
Voting ==
  run.pc \in {"verify", "apply"} =>
    LET fs == run.review.findings
        raw == files[RawName].findings IN
    /\ Votes > 0
    /\ DOMAIN fs = DOMAIN raw /\ DOMAIN run.cast = DOMAIN fs
    /\ \A i \in DOMAIN fs : fs[i].severity = raw[i].severity
    /\ \A i, j \in DOMAIN fs : fs[i].id = fs[j].id => i = j
    /\ run.todo \subseteq DOMAIN fs /\ (run.pc = "apply" => run.todo = {})
    /\ \A i \in DOMAIN fs :
         /\ run.cast[i] \in VoteType
         /\ i \in run.todo => Gates(fs[i]) /\ ~run.cast[i].usable
         /\ run.cast[i].usable => Gates(fs[i])
         /\ fs[i].id \in DOMAIN run.byId <=> run.cast[i].usable
         /\ fs[i].id \in DOMAIN run.byId => run.byId[fs[i].id] = run.cast[i]

(***************************************************************************)
(* At the gate: what blocks is in the copy that preferVerified finds, and  *)
(* without a pass there is no verified copy.                               *)
(***************************************************************************)
AtGate ==
  /\ Votes = 0 => \A n \in DOMAIN files : n[3] = "raw"
  /\ run.pc = "gate" =>
       /\ Votes = 0 => run.review = files[RawName]
       /\ Votes > 0 /\ Blocks => OwnCopy \in DOMAIN files /\ files[OwnCopy] = run.review

(***************************************************************************)
(* A copy that preferVerified may name, now or later, has the marks of     *)
(* every refutation of its review.                                         *)
(***************************************************************************)
Readable(n) == n[3] = "verified" \/ File(n[1], n[2], "verified") \notin DOMAIN files

Marked(review) ==
  \A f \in refuted : f[1] = review.no => review.findings[f[2]].verification = "refuted"

MarksKept ==
  /\ \A n \in DOMAIN files : Readable(n) => Marked(files[n])
  /\ run.pc = "gate" =>
       \A n \in DOMAIN files : Readable(n) /\ files[n].no = run.review.no =>
         \A i \in DOMAIN run.review.findings :
           run.review.findings[i].verification = "refuted" => files[n].findings[i].verification = "refuted"
  /\ Standing \in {"AWAITING_SPEC_APPROVAL", "IMPLEMENTING"} => last = <<>> \/ Readable(last)
  /\ RefutationTravels

(***************************************************************************)
(* From the gate to the fixer, and to the next round's reviewer, the copy  *)
(* they will be handed stays the review that blocked.                      *)
(***************************************************************************)
BeforeCode == {"PLANNING", "DESIGN_REVIEW", "AWAITING_SPEC_APPROVAL", "IMPLEMENTING"}

BlockedKept ==
  /\ source \in {"code_review", "final_review"} => Standing = "FIXING" /\ FixFindings = judged.diff
  /\ Standing \in BeforeCode => rounds.code = 0
  /\ Standing = "CODE_REVIEW" /\ rounds.code > 0 =>
       Read(PreferVerified("code", rounds.code)) = judged.diff
  /\ ToldWhatBlocked

-----------------------------------------------------------------------------
(* What the operators of ReviewArtifacts return. *)

(***************************************************************************)
(* findingsJSON returns a review, the empty one where there is no file.    *)
(***************************************************************************)
LEMMA ReadsFile ==
  ASSUME Typed
  PROVE  \A name : Read(name) \in ReviewType
BY DEF Typed, Read, NoReview, ReviewType

(***************************************************************************)
(* A review that is loaded goes to its vote or to its gate.                *)
(***************************************************************************)
LEMMA LoadedRun ==
  ASSUME NEW kind \in Kinds, NEW review \in ReviewType, NEW r, r = Loaded(kind, review)
  PROVE  /\ DOMAIN r = {"pc", "kind", "review", "todo", "byId", "cast"}
         /\ r.kind = kind /\ r.review \in ReviewType /\ r.review.no = review.no
         /\ r.pc \in {"verify", "gate"}
         /\ r.pc = "verify" => r.todo # {}
<1> DEFINE fs == UniqueIds(review.findings)
<1>1. fs \in Seq(Findings) /\ review = [no |-> review.no, findings |-> review.findings] /\ review.no \in Nat
  BY IdsAreUnique DEF ReviewType
<1> HIDE DEF fs
<1>2. CASE Votes = 0
  BY <1>2 DEF Loaded, Idle
<1>3. CASE Votes # 0
  <2>1. r = [pc |-> IF Blocking(fs) = {} THEN "gate" ELSE "verify", kind |-> kind,
             review |-> [no |-> review.no, findings |-> fs], todo |-> Blocking(fs),
             byId |-> <<>>, cast |-> [i \in DOMAIN fs |-> NoVerdicts]]
    BY <1>1, <1>3 DEF Loaded, Idle, fs
  <2>2. [no |-> review.no, findings |-> fs] \in ReviewType
    BY <1>1 DEF ReviewType
  <2>3. QED
    BY <2>1, <2>2
<1>4. QED
  BY <1>2, <1>3

(***************************************************************************)
(* Loading a review changes no severity and no mark.                       *)
(***************************************************************************)
LEMMA LoadedFindings ==
  ASSUME NEW kind \in Kinds, NEW review \in ReviewType, NEW r, r = Loaded(kind, review)
  PROVE  /\ DOMAIN r.review.findings = DOMAIN review.findings
         /\ \A i \in DOMAIN review.findings :
              /\ r.review.findings[i].severity = review.findings[i].severity
              /\ r.review.findings[i].verification = review.findings[i].verification
<1>1. review.findings \in Seq(Findings) /\ review = [no |-> review.no, findings |-> review.findings]
  BY DEF ReviewType
<1>2. r.review.findings \in {review.findings, UniqueIds(review.findings)}
  BY <1>1 DEF Loaded, Idle
<1>3. QED
  BY <1>1, <1>2, IdsAreUnique

(***************************************************************************)
(* Without a verify pass the review goes to its gate as it was written.    *)
(***************************************************************************)
LEMMA LoadedUnvoted ==
  ASSUME NEW kind \in Kinds, NEW review \in ReviewType, NEW r, r = Loaded(kind, review), Votes = 0
  PROVE  r.review = review /\ r.pc = "gate"
BY DEF Loaded, Idle

(***************************************************************************)
(* With one, every finding that gates is to be voted on under an id of its *)
(* own, nothing is cast yet, and the gate is next only when nothing gates. *)
(***************************************************************************)
LEMMA LoadedForVote ==
  ASSUME NEW kind \in Kinds, NEW review \in ReviewType, NEW r, r = Loaded(kind, review), Votes # 0
  PROVE  /\ \A i, j \in DOMAIN review.findings :
              r.review.findings[i].id = r.review.findings[j].id => i = j
         /\ r.todo = Blocking(r.review.findings)
         /\ r.byId = <<>>
         /\ r.cast = [i \in DOMAIN review.findings |-> NoVerdicts]
         /\ r.pc = "gate" => Blocking(r.review.findings) = {}
<1> DEFINE fs == UniqueIds(review.findings)
<1>1. review.findings \in Seq(Findings) /\ review = [no |-> review.no, findings |-> review.findings]
  BY DEF ReviewType
<1>2. DOMAIN fs = DOMAIN review.findings /\ \A i, j \in DOMAIN review.findings : fs[i].id = fs[j].id => i = j
  BY <1>1, IdsAreUnique
<1>3. r = [pc |-> IF Blocking(fs) = {} THEN "gate" ELSE "verify", kind |-> kind,
           review |-> [no |-> review.no, findings |-> fs], todo |-> Blocking(fs),
           byId |-> <<>>, cast |-> [i \in DOMAIN fs |-> NoVerdicts]]
  BY <1>1 DEF Loaded, Idle
<1> HIDE DEF fs
<1>4. QED
  BY <1>2, <1>3

(***************************************************************************)
(* Applying verdicts yields a review of the same number.                   *)
(***************************************************************************)
LEMMA AppliedType ==
  ASSUME Typed
  PROVE  /\ Applied \in ReviewType /\ Applied.no = run.review.no
         /\ Applied.findings = ApplyVerdicts(run.review.findings, run.byId)
<1>1. run.review.findings \in Seq(Findings) /\ run.review \in ReviewType
  BY DEF Typed, ReviewType
<1>2. Applied = [no |-> run.review.no, findings |-> ApplyVerdicts(run.review.findings, run.byId)]
  BY <1>1 DEF Applied, ReviewType
<1>3. ApplyVerdicts(run.review.findings, run.byId) \in Seq(Findings)
  <2>1. \A i \in DOMAIN run.review.findings :
          ApplyVerdicts(run.review.findings, run.byId)[i] \in Findings
    <3> TAKE i \in DOMAIN run.review.findings
    <3>1. run.review.findings[i] \in Findings
      BY <1>1
    <3>2. QED
      BY <3>1 DEF ApplyVerdicts, Findings, Nit
  <2> DEFINE av == ApplyVerdicts(run.review.findings, run.byId)
  <2>2. av = [i \in 1..Len(run.review.findings) |-> av[i]] /\ Len(run.review.findings) \in Nat
    <3>1. DOMAIN run.review.findings = 1..Len(run.review.findings) /\ Len(run.review.findings) \in Nat
      BY <1>1
    <3>2. av = [i \in DOMAIN run.review.findings |-> av[i]]
      BY Zenon DEF ApplyVerdicts
    <3> HIDE DEF av
    <3>3. QED
      BY <3>1, <3>2
  <2> HIDE DEF av
  <2>3. QED
    BY <1>1, <2>1, <2>2 DEF av
<1>4. QED
  BY <1>1, <1>2, <1>3 DEF ReviewType

(***************************************************************************)
(* A fan-out comes to two Booleans.                                        *)
(***************************************************************************)
LEMMA TallyType ==
  ASSUME NEW answers
  PROVE  Tally(answers) \in VoteType
BY DEF Tally, VoteType

(***************************************************************************)
(* A step that leaves the review files and the step in flight alone.       *)
(***************************************************************************)
Aside == UNCHANGED <<files, run, judged, refuted, rounds>> /\ spent'.reviews = spent.reviews

Elsewhere == Plan \/ Implement \/ Fix \/ Build \/ Decide \/ Hold \/ Resume

(***************************************************************************)
(* The steps by what the proofs tell apart.                                *)
(***************************************************************************)
LEMMA StepCases ==
  ASSUME Typed, [Next]_vars
  PROVE  \/ \E kind \in Kinds : Review(kind)
         \/ run.pc = "verify" /\ \E tally \in VoteType : Decided(tally)
         \/ WriteVerified \/ Lost \/ Gate
         \/ Elsewhere \/ UNCHANGED vars
<1>1. CASE PutToVote
  BY <1>1, TallyType DEF PutToVote
<1>2. CASE VoteSkipped
  BY <1>2 DEF VoteSkipped, NoVerdicts, VoteType
<1>3. QED
  BY <1>1, <1>2 DEF Next, Elsewhere, Finished

(***************************************************************************)
(* Agents that are handed reviews and people write no review file.         *)
(***************************************************************************)
LEMMA ElsewhereIsAside ==
  ASSUME Typed, Elsewhere \/ UNCHANGED vars
  PROVE  Aside
BY DEF Elsewhere, Aside, Plan, Implement, Fix, Build, Decide, Hold, Resume, vars, jobRow, Typed

(***************************************************************************)
(* What the verdicts on one finding change of the step in flight.          *)
(***************************************************************************)
LEMMA DecidedRun ==
  ASSUME Typed, run.pc = "verify", run.todo \in SUBSET Nat, NEW tally, Decided(tally)
  PROVE  LET i == First(run.todo) IN
         /\ i \in run.todo
         /\ DOMAIN run' = DOMAIN run /\ run'.kind = run.kind /\ run'.review = run.review
         /\ run'.todo = run.todo \ {i}
         /\ run'.pc = IF run.todo = {i} THEN "apply" ELSE "verify"
         /\ run'.cast = [run.cast EXCEPT ![i] = tally]
         /\ run'.byId = IF ~tally.usable THEN run.byId
              ELSE [n \in DOMAIN run.byId \cup {run.review.findings[i].id} |->
                      IF n = run.review.findings[i].id THEN tally ELSE run.byId[n]]
<1>1. run.todo # {}
  BY DEF Typed, TypeOK
<1>2. First(run.todo) \in run.todo
  BY <1>1, FirstOf
<1>3. QED
  BY <1>2 DEF Decided, Typed

-----------------------------------------------------------------------------
(* Types and numbers. *)

(***************************************************************************)
(* The values of a job at rest.                                            *)
(***************************************************************************)
LEMMA RestType ==
  /\ NoReview \in ReviewType /\ NoReview.no = 0
  /\ DOMAIN Idle = {"pc", "kind", "review", "todo", "byId", "cast"}
  /\ Idle.pc = "idle" /\ Idle.kind \in Kinds /\ Idle.review \in ReviewType
  /\ Nobody.to = "" /\ Nobody.review = NoReview
<1>1. NoReview \in ReviewType /\ NoReview.no = 0
  BY DEF NoReview, ReviewType
<1>2. QED
  BY <1>1 DEF Idle, Nobody, Kinds

(***************************************************************************)
(* The types hold at the start.                                            *)
(***************************************************************************)
LEMMA TypedInit == Init => Typed
<1> SUFFICES ASSUME Init PROVE Typed
  OBVIOUS
<1>1. judged \in [design : ReviewType, diff : ReviewType] /\ spent \in [reviews : Nat, setbacks : Nat]
  BY RestType DEF Init
<1>2. files = <<>>
  BY DEF Init
<1>3. TypeOK
  BY RestType DEF Init, TypeOK, PipelineStates
<1>4. \A n : n \notin DOMAIN files
  BY <1>2
<1>5. QED
  BY <1>1, <1>3, <1>4, RestType DEF Init, Typed

(***************************************************************************)
(* What a file's name is.                                                  *)
(***************************************************************************)
LEMMA Names ==
  ASSUME Typed
  PROVE  /\ \A kind \in Kinds : RoundOf(kind) \in Nat
         /\ \A kind \in Kinds, round \in Nat, copy \in Copies : File(kind, round, copy) \in Kinds \X Nat \X Copies
         /\ \A kind \in Kinds, round \in Nat :
              PreferVerified(kind, round) \in Kinds \X Nat \X Copies
<1>1. \A kind \in Kinds : RoundOf(kind) \in Nat
  <2>1. rounds \in [{"design", "code"} -> Nat]
    BY DEF Typed, TypeOK
  <2>2. QED
    BY <2>1 DEF RoundOf, Kinds
<1>2. \A kind \in Kinds, round \in Nat, copy \in Copies : File(kind, round, copy) \in Kinds \X Nat \X Copies
  BY DEF File
<1>3. \A kind \in Kinds, round \in Nat : PreferVerified(kind, round) \in Kinds \X Nat \X Copies
  BY <1>2 DEF PreferVerified, Copies
<1>4. QED
  BY <1>1, <1>2, <1>3

(***************************************************************************)
(* Writing one file leaves the others as they are.                         *)
(***************************************************************************)
LEMMA WithType ==
  ASSUME Typed, NEW name \in Kinds \X Nat \X Copies, NEW review \in ReviewType,
         files' = With(name, review)
  PROVE  /\ DOMAIN files' = DOMAIN files \cup {name}
         /\ DOMAIN files' \subseteq Kinds \X Nat \X Copies
         /\ files'[name] = review
         /\ \A n \in DOMAIN files : n # name => files'[n] = files[n]
         /\ \A n \in DOMAIN files' : files'[n] \in ReviewType
BY DEF Typed, With

(***************************************************************************)
(* Every step keeps the types; that an applied verdict finds a last file   *)
(* to remember needs the numbering.                                        *)
(***************************************************************************)
LEMMA TypedStep ==
  ASSUME Typed, Voting, Numbered, [Next]_vars
  PROVE  Typed'
<1> USE DEF Goto, Hand, At
<1>0. run.pc # "idle" => state \in {StateOf[k] : k \in Kinds}
  BY DEF Typed, TypeOK
<1>1. ASSUME NEW kind \in Kinds, Review(kind) PROVE Typed'
  <2>1. PICK fs \in Reports :
          LET review == [no |-> spent.reviews + 1, findings |-> fs]
          IN /\ files' = With(File(kind, RoundOf(kind), "raw"), review)
             /\ run' = Loaded(kind, review)
    BY <1>1 DEF Review
  <2> DEFINE review == [no |-> spent.reviews + 1, findings |-> fs]
             name == File(kind, RoundOf(kind), "raw")
  <2>2. review \in ReviewType
    BY ReportsAssumption DEF Typed, ReviewType
  <2>3. name \in Kinds \X Nat \X Copies
    BY Names DEF Copies
  <2>4. files' = With(name, review) /\ run' = Loaded(kind, review)
    BY <2>1
  <2> HIDE DEF review, name
  <2>5. /\ DOMAIN files' = DOMAIN files \cup {name}
        /\ DOMAIN files' \subseteq Kinds \X Nat \X Copies
        /\ \A n \in DOMAIN files' : files'[n] \in ReviewType
    BY <2>2, <2>3, <2>4, WithType
  <2>6. /\ DOMAIN run' = {"pc", "kind", "review", "todo", "byId", "cast"}
        /\ run'.kind = kind /\ run'.review \in ReviewType
        /\ run'.pc \in {"verify", "gate"} /\ (run'.pc = "verify" => run'.todo # {})
    BY <2>2, <2>4, LoadedRun
  <2>7. /\ UNCHANGED <<state, prev, rounds, last, source, judged>> /\ state = StateOf[kind]
        /\ spent' \in [reviews : Nat, setbacks : Nat] /\ handed'.to \in {"", "CODE_REVIEW"}
    <3>1. handed'.to \in {"", "CODE_REVIEW"}
      <4>1. handed' = Nobody \/ handed'.to = "CODE_REVIEW"
        BY <1>1 DEF Review
      <4>2. QED
        BY <4>1, RestType
    <3>2. spent' \in [reviews : Nat, setbacks : Nat]
      BY <1>1 DEF Review, Typed
    <3>3. QED
      BY <1>1, <3>1, <3>2 DEF Review, jobRow
  <2>8. QED
    BY <2>5, <2>6, <2>7 DEF Typed, TypeOK
<1>2. ASSUME run.pc = "verify", NEW tally \in VoteType, Decided(tally) PROVE Typed'
  <2>1. run.todo \in SUBSET Nat
    BY <1>2 DEF Voting, Typed, ReviewType
  <2>2. UNCHANGED <<state, prev, rounds, last, source, files, handed, judged, refuted, spent>>
    BY <1>2 DEF Decided, jobRow
  <2>3. /\ DOMAIN run' = DOMAIN run /\ run'.kind = run.kind /\ run'.review = run.review
        /\ run'.pc \in {"verify", "apply"} /\ (run'.pc = "verify" => run'.todo # {})
    BY <1>2, <2>1, DecidedRun
  <2>4. QED
    BY <1>2, <2>2, <2>3 DEF Typed, TypeOK
<1>3. CASE WriteVerified
  <2>1. OwnCopy \in Kinds \X Nat \X Copies
    BY Names DEF Typed, Copies, OwnCopy
  <2>2. files' = With(OwnCopy, Applied) /\ Applied \in ReviewType
    BY <1>3, AppliedType DEF WriteVerified, OwnCopy
  <2>3. run' = [run EXCEPT !.pc = "gate", !.review = Applied]
        /\ UNCHANGED <<state, prev, rounds, last, source, handed, judged, refuted, spent>> /\ run.pc = "apply"
    BY <1>3 DEF WriteVerified, jobRow
  <2>4. /\ DOMAIN files' = DOMAIN files \cup {OwnCopy}
        /\ DOMAIN files' \subseteq Kinds \X Nat \X Copies
        /\ \A n \in DOMAIN files' : files'[n] \in ReviewType
    BY <2>1, <2>2, WithType
  <2>5. QED
    BY <2>2, <2>3, <2>4 DEF Typed, TypeOK
<1>4. CASE Lost
  <2>1. run' = Idle /\ handed' = Nobody /\ spent' \in [reviews : Nat, setbacks : Nat]
        /\ UNCHANGED <<state, prev, rounds, last, source, files, judged, refuted>>
    BY <1>4 DEF Lost, jobRow, Typed
  <2>2. QED
    BY <2>1, RestType DEF Typed, TypeOK
<1>5. CASE Gate
  <2>1. PICK kind \in Kinds : Judge(kind)
    BY <1>5 DEF Gate, DesignBlocks, DesignPasses, CodeBlocks, CodePasses, FinalBlocks, FinalPasses, Kinds
  <2>2. /\ run' = Idle /\ handed' = Nobody /\ UNCHANGED <<files, spent>>
        /\ judged' \in [design : ReviewType, diff : ReviewType]
    BY <2>1 DEF Judge, Typed
  <2>3. /\ {state', prev'} \subseteq PipelineStates
             \cup {"AWAITING_SPEC_APPROVAL", "AWAITING_CODE_APPROVAL", "AWAITING_MERGE_APPROVAL", "ESCALATED", "MERGING"}
        /\ rounds' \in [{"design", "code"} -> Nat]
        /\ source' \in {"", "analysis", "code_review", "final_review", "human"}
    <3>1. state \in PipelineStates
      BY <1>0, <2>1 DEF PipelineStates, Judge
    <3>2. source' \in {"", "analysis", "code_review", "final_review", "human"} /\ prev' = state
      BY <1>5 DEF Gate, DesignBlocks, DesignPasses, CodeBlocks, CodePasses, FinalBlocks, FinalPasses, Typed, TypeOK
    <3>3. rounds' \in [{"design", "code"} -> Nat]
      <4>1. rounds \in [{"design", "code"} -> Nat]
        BY DEF Typed, TypeOK
      <4>2. \/ rounds' = rounds
            \/ rounds' = [rounds EXCEPT !.design = @ + 1]
            \/ rounds' = [rounds EXCEPT !.code = @ + 1]
        BY <1>5 DEF Gate, DesignBlocks, DesignPasses, CodeBlocks, CodePasses, FinalBlocks, FinalPasses
      <4>3. QED
        BY <4>1, <4>2
    <3>4. state' \in PipelineStates
             \cup {"AWAITING_SPEC_APPROVAL", "AWAITING_CODE_APPROVAL", "AWAITING_MERGE_APPROVAL", "ESCALATED", "MERGING"}
      BY <1>5 DEF Gate, DesignBlocks, DesignPasses, CodeBlocks, CodePasses, FinalBlocks, FinalPasses, PipelineStates
    <3>5. QED
      BY <3>1, <3>2, <3>3, <3>4
  <2>4. last' = <<>> \/ last' \in DOMAIN files
    <3>1. CASE DesignPasses
      <4>1. RawName \in DOMAIN files /\ run.kind = "design"
        BY <3>1 DEF DesignPasses, Judge, Numbered
      <4>2. PreferVerified("design", RoundOf("design")) \in DOMAIN files
        BY <4>1 DEF PreferVerified, RawName
      <4>3. QED
        BY <3>1, <4>2 DEF DesignPasses
    <3>2. CASE ~DesignPasses
      BY <1>5, <3>2 DEF Gate, DesignBlocks, CodeBlocks, CodePasses, FinalBlocks, FinalPasses, Typed, TypeOK
    <3>3. QED
      BY <3>1, <3>2
  <2>5. QED
    BY <2>2, <2>3, <2>4, RestType DEF Typed, TypeOK
<1>6. CASE Elsewhere
  <2>1. Aside /\ run.pc = "idle" /\ spent' \in [reviews : Nat, setbacks : Nat]
    <3>1. spent' \in [reviews : Nat, setbacks : Nat]
      <4>1. spent' = spent \/ spent' = [spent EXCEPT !.setbacks = @ + 1]
        BY <1>6 DEF Elsewhere, Plan, Implement, Fix, Build, Decide, Hold, Resume
      <4>2. QED
        BY <4>1 DEF Typed
    <3>2. run.pc = "idle"
      BY <1>6 DEF Elsewhere, Plan, Implement, Fix, Build, Decide, Hold, Resume
    <3>3. QED
      BY <1>6, <3>1, <3>2, ElsewhereIsAside
  <2>2. /\ {state', prev'} \subseteq PipelineStates
             \cup {"AWAITING_SPEC_APPROVAL", "AWAITING_CODE_APPROVAL", "AWAITING_MERGE_APPROVAL", "ESCALATED", "MERGING"}
        /\ source' \in {"", "analysis", "code_review", "final_review", "human"}
        /\ last' = last
    BY <1>6 DEF Elsewhere, Plan, Implement, Fix, Build, Decide, Hold, Resume, Typed, TypeOK, PipelineStates, Kinds, StateOf
  <2>3. handed'.to \in {"", "PLANNING", "IMPLEMENTING", "CODE_REVIEW", "FIXING"}
    <3>1. handed' = Nobody \/ handed'.to \in {"PLANNING", "IMPLEMENTING", "FIXING"}
      <4>0. \A to, r : Hand(to, r) => handed'.to = to
        OBVIOUS
      <4>1. CASE Plan \/ Implement
        <5> HIDE DEF Hand
        <5> QED BY <4>0, <4>1 DEF Plan, Implement
      <4>2. CASE Fix
        <5> HIDE DEF Hand
        <5> QED BY <4>0, <4>2 DEF Fix
      <4>3. CASE Build \/ Decide \/ Hold \/ Resume
        BY <4>3 DEF Build, Decide, Hold, Resume
      <4>4. QED
        BY <1>6, <4>1, <4>2, <4>3 DEF Elsewhere
    <3>2. QED
      BY <3>1, RestType
  <2>4. QED
    BY <2>1, <2>2, <2>3 DEF Typed, TypeOK, Aside
<1>7. CASE UNCHANGED vars
  BY <1>7 DEF vars, jobRow, Typed, TypeOK
<1>8. QED
  BY <1>1, <1>2, <1>3, <1>4, <1>5, <1>6, <1>7, StepCases

-----------------------------------------------------------------------------
(***************************************************************************)
(* No review has been written at the start.                                *)
(***************************************************************************)
LEMMA NumberedInit == Init => Numbered
<1> SUFFICES ASSUME Init PROVE Numbered
  OBVIOUS
<1>1. run.pc = "idle" /\ files = <<>> /\ refuted = {} /\ spent.reviews = 0
  BY RestType DEF Init
<1>2. judged.design.no = 0 /\ judged.diff.no = 0
  BY RestType DEF Init
<1>3. QED
  BY <1>1, <1>2 DEF Numbered

(***************************************************************************)
(* Every step keeps the numbering: a review is numbered when its raw file  *)
(* is written, and only its verified copy is written under its number      *)
(* again.                                                                  *)
(***************************************************************************)
LEMMA NumberedStep ==
  ASSUME Typed, Voting, Numbered, [Next]_vars
  PROVE  Numbered'
<1>0. /\ spent.reviews \in Nat /\ judged.design.no \in Nat /\ judged.diff.no \in Nat
      /\ DOMAIN run = {"pc", "kind", "review", "todo", "byId", "cast"} /\ run.kind \in Kinds
  BY DEF Typed, ReviewType
<1>1. ASSUME NEW kind \in Kinds, Review(kind) PROVE Numbered'
  <2>1. PICK fs \in Reports :
          LET review == [no |-> spent.reviews + 1, findings |-> fs]
          IN /\ files' = With(File(kind, RoundOf(kind), "raw"), review)
             /\ run' = Loaded(kind, review)
    BY <1>1 DEF Review
  <2> DEFINE review == [no |-> spent.reviews + 1, findings |-> fs]
             name == File(kind, RoundOf(kind), "raw")
  <2>2. review \in ReviewType /\ review.no = spent.reviews + 1
    BY ReportsAssumption DEF Typed, ReviewType
  <2>3. name \in Kinds \X Nat \X Copies
    BY Names DEF Copies
  <2>4. files' = With(name, review) /\ run' = Loaded(kind, review)
    BY <2>1
  <2>5. /\ spent'.reviews = spent.reviews + 1
        /\ UNCHANGED <<rounds, judged, refuted>>
    BY <1>1 DEF Review, jobRow, Typed
  <2> HIDE DEF review
  <2>6. run'.kind = kind /\ run'.review.no = spent.reviews + 1
    BY <2>2, <2>4, LoadedRun
  <2>7. RawName' = name
    BY <2>5, <2>6 DEF RawName, RoundOf
  <2> HIDE DEF name
  <2>8. /\ DOMAIN files' = DOMAIN files \cup {name} /\ files'[name] = review
        /\ \A n \in DOMAIN files : n # name => files'[n] = files[n]
    BY <2>2, <2>3, <2>4, WithType
  <2>9. \A n \in DOMAIN files : files[n].no \in Nat
    BY DEF Typed, ReviewType
  <2>10. QED
    BY <1>0, <2>2, <2>5, <2>6, <2>7, <2>8, <2>9 DEF Numbered
<1>2. ASSUME run.pc = "verify", NEW tally \in VoteType, Decided(tally) PROVE Numbered'
  <2>1. run.todo \in SUBSET Nat
    BY <1>2 DEF Voting, Typed, ReviewType
  <2>2. run'.kind = run.kind /\ run'.review = run.review /\ run'.pc \in {"verify", "apply"}
    BY <1>2, <2>1, DecidedRun
  <2>3. UNCHANGED <<rounds, files, judged, refuted, spent>>
    BY <1>2 DEF Decided, jobRow
  <2>4. RawName' = RawName
    BY <2>2, <2>3 DEF RawName, RoundOf
  <2>5. QED
    BY <1>2, <2>2, <2>3, <2>4 DEF Numbered
<1>3. CASE WriteVerified
  <2>1. OwnCopy \in Kinds \X Nat \X Copies
    BY Names DEF Typed, Copies, OwnCopy
  <2>2. files' = With(OwnCopy, Applied) /\ Applied \in ReviewType /\ Applied.no = run.review.no
    BY <1>3, AppliedType DEF WriteVerified, OwnCopy
  <2>3. /\ run'.pc = "gate" /\ run'.review = Applied /\ run'.kind = run.kind
        /\ UNCHANGED <<rounds, judged, refuted, spent>> /\ run.pc = "apply"
    BY <1>0, <1>3 DEF WriteVerified, jobRow
  <2>4. RawName' = RawName /\ OwnCopy' = OwnCopy /\ OwnCopy # RawName
    BY <2>3 DEF RawName, OwnCopy, RoundOf, File
  <2>5. /\ DOMAIN files' = DOMAIN files \cup {OwnCopy} /\ files'[OwnCopy] = Applied
        /\ \A n \in DOMAIN files : n # OwnCopy => files'[n] = files[n]
    BY <2>1, <2>2, WithType
  <2>6. QED
    BY <1>0, <2>2, <2>3, <2>4, <2>5 DEF Numbered
<1>4. CASE Lost
  BY <1>0, <1>4 DEF Lost, Numbered, Idle, Typed
<1>5. CASE Gate
  <2>1. PICK kind \in Kinds : Judge(kind)
    BY <1>5 DEF Gate, DesignBlocks, DesignPasses, CodeBlocks, CodePasses, FinalBlocks, FinalPasses, Kinds
  <2>2. /\ run'.pc = "idle" /\ UNCHANGED <<files, spent>> /\ run.pc = "gate"
        /\ judged'.design \in {judged.design, run.review} /\ judged'.diff \in {judged.diff, run.review}
        /\ \A f \in refuted' : f \in refuted \/ f[1] = run.review.no
    BY <2>1 DEF Judge, Typed, Idle
  <2>3. QED
    BY <1>0, <2>2 DEF Numbered
<1>6. CASE Aside
  <2>1. RawName' = RawName /\ OwnCopy' = OwnCopy
    BY <1>6 DEF Aside, RawName, OwnCopy, RoundOf
  <2>2. QED
    BY <1>6, <2>1 DEF Aside, Numbered
<1>7. QED
  BY <1>1, <1>2, <1>3, <1>4, <1>5, <1>6, StepCases, ElsewhereIsAside

-----------------------------------------------------------------------------
(* The vote and the gate. *)

(***************************************************************************)
(* A reviewer's step writes one raw file, under a new number.              *)
(***************************************************************************)
LEMMA ReviewStep ==
  ASSUME Typed, NEW kind \in Kinds, Review(kind)
  PROVE  \E review \in ReviewType, name \in Kinds \X Nat \X Copies :
           /\ name = File(kind, RoundOf(kind), "raw") /\ review.no = spent.reviews + 1
           /\ files' = With(name, review) /\ run' = Loaded(kind, review)
           /\ DOMAIN files' = DOMAIN files \cup {name} /\ files'[name] = review
           /\ \A n \in DOMAIN files : n # name => files'[n] = files[n]
           /\ run'.kind = kind /\ RawName' = name
<1>1. PICK fs \in Reports :
        LET review == [no |-> spent.reviews + 1, findings |-> fs]
        IN /\ files' = With(File(kind, RoundOf(kind), "raw"), review)
           /\ run' = Loaded(kind, review)
  BY DEF Review
<1> DEFINE review == [no |-> spent.reviews + 1, findings |-> fs]
           name == File(kind, RoundOf(kind), "raw")
<1>2. review \in ReviewType /\ review.no = spent.reviews + 1
  BY ReportsAssumption DEF Typed, ReviewType
<1>3. name \in Kinds \X Nat \X Copies
  BY Names DEF Copies
<1>4. files' = With(name, review) /\ run' = Loaded(kind, review)
  BY <1>1
<1>5. UNCHANGED rounds
  BY DEF Review, jobRow
<1> HIDE DEF review
<1>6. run'.kind = kind
  BY <1>2, <1>4, LoadedRun
<1>7. RawName' = name
  BY <1>5, <1>6 DEF RawName, RoundOf
<1>8. name = File(kind, RoundOf(kind), "raw")
  OBVIOUS
<1> HIDE DEF name
<1>9. /\ DOMAIN files' = DOMAIN files \cup {name} /\ files'[name] = review
      /\ \A n \in DOMAIN files : n # name => files'[n] = files[n]
  BY <1>2, <1>3, <1>4, WithType
<1>10. QED
  BY <1>2, <1>3, <1>4, <1>6, <1>7, <1>8, <1>9

(***************************************************************************)
(* Every step keeps the account of the votes: a verdict is filed under the *)
(* id of the finding it is about, and as ids are told apart no other       *)
(* finding's entry changes.                                                *)
(***************************************************************************)
LEMMA VotingStep ==
  ASSUME Typed, Voting, Numbered, [Next]_vars
  PROVE  Voting'
<1>1. ASSUME NEW kind \in Kinds, Review(kind) PROVE Voting'
  <2>1. PICK review \in ReviewType :
          run' = Loaded(kind, review) /\ files'[RawName'] = review
    BY <1>1, ReviewStep
  <2> SUFFICES ASSUME run'.pc \in {"verify", "apply"} PROVE Voting'
    BY DEF Voting
  <2>2. Votes # 0
    BY <2>1, LoadedUnvoted
  <2>3. /\ DOMAIN run'.review.findings = DOMAIN review.findings
        /\ \A i \in DOMAIN review.findings :
              run'.review.findings[i].severity = review.findings[i].severity
    BY <2>1, LoadedFindings
  <2>4. /\ \A i, j \in DOMAIN review.findings :
              run'.review.findings[i].id = run'.review.findings[j].id => i = j
        /\ run'.todo = Blocking(run'.review.findings)
        /\ run'.byId = <<>>
        /\ run'.cast = [i \in DOMAIN review.findings |-> NoVerdicts]
    BY <2>1, <2>2, LoadedForVote
  <2>5. \A n : n \notin DOMAIN run'.byId
    BY <2>4
  <2>6. run'.pc = "verify"
    BY <2>1, LoadedRun
  <2>7. Votes > 0
    BY <2>2, VotesAssumption
  <2>8. \A i \in DOMAIN review.findings : run'.cast[i] = NoVerdicts /\ ~run'.cast[i].usable /\ run'.cast[i] \in VoteType
    BY <2>4 DEF NoVerdicts, VoteType
  <2>9. run'.todo \subseteq DOMAIN review.findings /\ \A i \in run'.todo : Gates(run'.review.findings[i])
    BY <2>3, <2>4 DEF Blocking
  <2>10. DOMAIN run'.cast = DOMAIN review.findings
    BY <2>4
  <2>11. QED
    BY ONLY <2>1, <2>3, <2>4, <2>5, <2>6, <2>7, <2>8, <2>9, <2>10 DEF Voting, Gates
<1>2. ASSUME run.pc = "verify", NEW tally \in VoteType, Decided(tally) PROVE Voting'
  <2> DEFINE i0 == First(run.todo)
             fs == run.review.findings
  <2>0. run.todo \in SUBSET Nat
    BY <1>2 DEF Voting, Typed, ReviewType
  <2>1. /\ i0 \in run.todo
        /\ run'.review = run.review /\ run'.kind = run.kind
        /\ run'.todo = run.todo \ {i0}
        /\ run'.pc = IF run.todo = {i0} THEN "apply" ELSE "verify"
        /\ run'.cast = [run.cast EXCEPT ![i0] = tally]
        /\ run'.byId = IF ~tally.usable THEN run.byId
              ELSE [n \in DOMAIN run.byId \cup {fs[i0].id} |->
                      IF n = fs[i0].id THEN tally ELSE run.byId[n]]
    BY <1>2, <2>0, DecidedRun
  <2>2. UNCHANGED <<rounds, files>>
    BY <1>2 DEF Decided, jobRow
  <2>3. files'[RawName'] = files[RawName]
    BY <2>1, <2>2 DEF RawName, RoundOf
  <2> HIDE DEF i0
  <2>4. /\ Votes > 0
        /\ DOMAIN fs = DOMAIN files[RawName].findings /\ DOMAIN run.cast = DOMAIN fs
        /\ \A i \in DOMAIN fs : fs[i].severity = files[RawName].findings[i].severity
        /\ \A i, j \in DOMAIN fs : fs[i].id = fs[j].id => i = j
        /\ run.todo \subseteq DOMAIN fs
        /\ \A i \in DOMAIN fs :
             /\ run.cast[i] \in VoteType
             /\ i \in run.todo => Gates(fs[i]) /\ ~run.cast[i].usable
             /\ run.cast[i].usable => Gates(fs[i])
             /\ fs[i].id \in DOMAIN run.byId <=> run.cast[i].usable
             /\ fs[i].id \in DOMAIN run.byId => run.byId[fs[i].id] = run.cast[i]
    BY <1>2 DEF Voting
  <2>5. tally.usable \in BOOLEAN
    BY DEF VoteType
  <2>6. DOMAIN run'.cast = DOMAIN fs /\ run'.cast[i0] = tally
        /\ \A i \in DOMAIN fs : i # i0 => run'.cast[i] = run.cast[i]
    BY <2>1, <2>4
  <2>7. ASSUME NEW i \in DOMAIN fs
        PROVE  /\ run'.cast[i] \in VoteType
               /\ i \in run'.todo => Gates(fs[i]) /\ ~run'.cast[i].usable
               /\ run'.cast[i].usable => Gates(fs[i])
               /\ fs[i].id \in DOMAIN run'.byId <=> run'.cast[i].usable
               /\ fs[i].id \in DOMAIN run'.byId => run'.byId[fs[i].id] = run'.cast[i]
    <3>1. CASE i = i0
      <4>1. Gates(fs[i]) /\ i \notin run'.todo /\ run'.cast[i] = tally /\ ~run.cast[i].usable
        BY <2>1, <2>4, <2>6, <3>1
      <4>2. CASE tally.usable
        <5>1. DOMAIN run'.byId = DOMAIN run.byId \cup {fs[i].id} /\ run'.byId[fs[i].id] = tally
          BY <2>1, <3>1, <4>2
        <5>2. QED
          BY <4>1, <4>2, <5>1
      <4>3. CASE ~tally.usable
        <5>1. run'.byId = run.byId
          BY <2>1, <4>3
        <5>2. QED
          BY <2>4, <4>1, <4>3, <5>1
      <4>4. QED
        BY <4>2, <4>3
    <3>2. CASE i # i0
      <4>1. run'.cast[i] = run.cast[i] /\ (i \in run'.todo => i \in run.todo)
        BY <2>1, <2>6, <3>2
      <4>2. fs[i].id # fs[i0].id
        BY <2>1, <2>4, <3>2
      <4>3. /\ fs[i].id \in DOMAIN run'.byId <=> fs[i].id \in DOMAIN run.byId
            /\ fs[i].id \in DOMAIN run.byId => run'.byId[fs[i].id] = run.byId[fs[i].id]
        BY <2>1, <4>2
      <4>4. QED
        BY <2>4, <4>1, <4>3
    <3>3. QED
      BY <3>1, <3>2
  <2>8. run'.todo \subseteq DOMAIN fs /\ (run'.pc = "apply" => run'.todo = {})
    BY <2>1, <2>4
  <2>9. QED
    BY ONLY <2>1, <2>3, <2>4, <2>6, <2>7, <2>8 DEF Voting, Gates
<1>3. CASE WriteVerified
  BY <1>3 DEF WriteVerified, Voting, Typed
<1>4. CASE Lost
  BY <1>4, RestType DEF Lost, Voting
<1>5. CASE Gate
  BY <1>5, RestType DEF Gate, DesignBlocks, DesignPasses, CodeBlocks, CodePasses, FinalBlocks, FinalPasses, Judge, Voting
<1>6. CASE Aside
  <2>1. RawName' = RawName
    BY <1>6 DEF Aside, RawName, RoundOf
  <2>2. QED
    BY <1>6, <2>1 DEF Aside, Voting
<1>7. QED
  BY <1>1, <1>2, <1>3, <1>4, <1>5, <1>6, StepCases, ElsewhereIsAside

(***************************************************************************)
(* Every step keeps what the gate may rely on.                             *)
(***************************************************************************)
LEMMA AtGateStep ==
  ASSUME Typed, Voting, Numbered, AtGate, [Next]_vars
  PROVE  AtGate'
<1>1. ASSUME NEW kind \in Kinds, Review(kind) PROVE AtGate'
  <2>1. PICK review \in ReviewType, name \in Kinds \X Nat \X Copies :
          /\ name = File(kind, RoundOf(kind), "raw") /\ run' = Loaded(kind, review)
          /\ DOMAIN files' = DOMAIN files \cup {name} /\ files'[name] = review /\ RawName' = name
    BY <1>1, ReviewStep
  <2>2. CASE Votes = 0
    <3>1. run'.review = review
      BY <2>1, <2>2, LoadedUnvoted
    <3>2. name[3] = "raw"
      BY <2>1 DEF File
    <3>3. QED
      BY <2>1, <2>2, <3>1, <3>2 DEF AtGate
  <2>3. CASE Votes # 0
    <3>1. run'.pc = "gate" => ~Blocks'
      BY <2>1, <2>3, LoadedForVote DEF Blocks
    <3>2. QED
      BY <2>3, <3>1 DEF AtGate
  <2>4. QED
    BY <2>2, <2>3
<1>2. ASSUME run.pc = "verify", NEW tally \in VoteType, Decided(tally) PROVE AtGate'
  <2>0. run.todo \in SUBSET Nat
    BY <1>2 DEF Voting, Typed, ReviewType
  <2>1. run'.pc # "gate"
    BY <1>2, <2>0, DecidedRun
  <2>2. UNCHANGED files
    BY <1>2 DEF Decided
  <2>3. QED
    BY <2>1, <2>2 DEF AtGate
<1>3. CASE WriteVerified
  <2>1. OwnCopy \in Kinds \X Nat \X Copies
    BY Names DEF Typed, Copies, OwnCopy
  <2>2. files' = With(OwnCopy, Applied) /\ Applied \in ReviewType
    BY <1>3, AppliedType DEF WriteVerified, OwnCopy
  <2>3. /\ run'.review = Applied /\ run'.kind = run.kind
        /\ UNCHANGED rounds /\ run.pc = "apply"
    BY <1>3 DEF WriteVerified, jobRow, Typed
  <2>4. OwnCopy' = OwnCopy
    BY <2>3 DEF OwnCopy, RoundOf
  <2>5. DOMAIN files' = DOMAIN files \cup {OwnCopy} /\ files'[OwnCopy] = Applied
    BY <2>1, <2>2, WithType
  <2>6. Votes > 0
    BY <2>3 DEF Voting
  <2>7. QED
    BY <2>3, <2>4, <2>5, <2>6 DEF AtGate
<1>4. CASE Lost
  BY <1>4, RestType DEF Lost, AtGate
<1>5. CASE Gate
  <2>1. run'.pc = "idle" /\ UNCHANGED files
    BY <1>5, RestType DEF Gate, DesignBlocks, DesignPasses, CodeBlocks, CodePasses, FinalBlocks, FinalPasses, Judge
  <2>2. QED
    BY <2>1 DEF AtGate
<1>6. CASE Aside
  <2>1. RawName' = RawName /\ OwnCopy' = OwnCopy
    BY <1>6 DEF Aside, RawName, OwnCopy, RoundOf
  <2>2. Blocks' = Blocks
    BY <1>6 DEF Aside, Blocks
  <2>3. QED
    BY <1>6, <2>1, <2>2 DEF Aside, AtGate
<1>7. QED
  BY <1>1, <1>2, <1>3, <1>4, <1>5, <1>6, StepCases, ElsewhereIsAside

(***************************************************************************)
(* Every step keeps SetAsideByItsOwnVotes: the review reaches its gate     *)
(* straight from the reviewer, when nothing gates or nobody votes, or      *)
(* through ApplyVerdicts, and there the account of the votes says what     *)
(* each id stands for.                                                     *)
(***************************************************************************)
LEMMA SetAsideStep ==
  ASSUME Typed, Voting, Numbered, SetAsideByItsOwnVotes, [Next]_vars
  PROVE  SetAsideByItsOwnVotes'
<1>1. ASSUME NEW kind \in Kinds, Review(kind) PROVE SetAsideByItsOwnVotes'
  <2>1. PICK review \in ReviewType, name \in Kinds \X Nat \X Copies :
          /\ run' = Loaded(kind, review)
          /\ DOMAIN files' = DOMAIN files \cup {name} /\ files'[name] = review /\ RawName' = name
    BY <1>1, ReviewStep
  <2>2. Raw' = review.findings
    BY <2>1 DEF Raw, Read, RawName
  <2>3. \A i \in DOMAIN review.findings : run'.review.findings[i].severity = review.findings[i].severity
    BY <2>1, LoadedFindings
  <2>4. ASSUME Votes > 0, run'.pc = "gate", NEW i \in DOMAIN review.findings PROVE ~Gates(review.findings[i])
    <3>0. Votes # 0
      BY <2>4, VotesAssumption
    <3>1. Blocking(run'.review.findings) = {}
      BY ONLY <2>1, <2>4, <3>0, LoadedForVote
    <3>2. i \in DOMAIN run'.review.findings
      BY <2>1, LoadedFindings
    <3>3. ~Gates(run'.review.findings[i])
      BY <3>1, <3>2 DEF Blocking
    <3>4. QED
      BY <2>3, <3>3 DEF Gates
  <2>5. QED
    BY <2>2, <2>3, <2>4 DEF SetAsideByItsOwnVotes
<1>2. ASSUME run.pc = "verify", NEW tally \in VoteType, Decided(tally) PROVE SetAsideByItsOwnVotes'
  <2>0. run.todo \in SUBSET Nat
    BY <1>2 DEF Voting, Typed, ReviewType
  <2>1. run'.pc # "gate"
    BY <1>2, <2>0, DecidedRun
  <2>2. QED
    BY <2>1 DEF SetAsideByItsOwnVotes
<1>3. CASE WriteVerified
  <2> DEFINE fs == run.review.findings
  <2>1. OwnCopy \in Kinds \X Nat \X Copies
    BY Names DEF Typed, Copies, OwnCopy
  <2>2. files' = With(OwnCopy, Applied) /\ Applied \in ReviewType
        /\ Applied.findings = ApplyVerdicts(fs, run.byId)
    BY <1>3, AppliedType DEF WriteVerified, OwnCopy
  <2>3. /\ run'.review = Applied /\ run'.kind = run.kind /\ run'.cast = run.cast
        /\ UNCHANGED rounds /\ run.pc = "apply"
    BY <1>3 DEF WriteVerified, jobRow, Typed
  <2>4. RawName' = RawName /\ OwnCopy # RawName /\ RawName \in DOMAIN files
    BY <2>3 DEF OwnCopy, RawName, RoundOf, File, Numbered
  <2>5. RawName \in DOMAIN files' /\ files'[RawName] = files[RawName]
    BY <2>1, <2>2, <2>4, WithType
  <2>6. Raw' = files[RawName].findings
    BY <2>4, <2>5 DEF Raw, Read, RawName
  <2>7. /\ Votes > 0
        /\ DOMAIN fs = DOMAIN files[RawName].findings
        /\ \A i \in DOMAIN fs :
             /\ fs[i].severity = files[RawName].findings[i].severity
             /\ run.cast[i].usable => Gates(fs[i])
             /\ fs[i].id \in DOMAIN run.byId <=> run.cast[i].usable
             /\ fs[i].id \in DOMAIN run.byId => run.byId[fs[i].id] = run.cast[i]
    BY <2>3 DEF Voting
  <2>8. ASSUME NEW i \in DOMAIN fs
        PROVE  Applied.findings[i].severity =
                 IF Votes > 0 /\ Gates(fs[i]) /\ run.cast[i].usable /\ ~run.cast[i].enough
                   THEN Nit ELSE fs[i].severity
    <3>1. fs[i] \in Findings
      BY DEF Typed, ReviewType
    <3>2. Applied.findings[i] =
            IF fs[i].id \notin DOMAIN run.byId THEN fs[i]
            ELSE IF run.byId[fs[i].id].enough THEN [fs[i] EXCEPT !.verification = "survived"]
            ELSE [fs[i] EXCEPT !.verification = "refuted", !.severity = Nit]
      BY <2>2 DEF ApplyVerdicts
    <3>3. QED
      BY <2>7, <3>1, <3>2 DEF Findings
  <2>9. QED
    BY <2>3, <2>6, <2>7, <2>8 DEF SetAsideByItsOwnVotes, Gates
<1>4. CASE Lost
  BY <1>4, RestType DEF Lost, SetAsideByItsOwnVotes
<1>5. CASE Gate
  BY <1>5, RestType DEF Gate, DesignBlocks, DesignPasses, CodeBlocks, CodePasses, FinalBlocks, FinalPasses, Judge,
                        SetAsideByItsOwnVotes
<1>6. CASE Aside
  <2>1. Raw' = Raw
    BY <1>6 DEF Aside, Raw, RoundOf, Read
  <2>2. QED
    BY <1>6, <2>1 DEF Aside, SetAsideByItsOwnVotes
<1>7. QED
  BY <1>1, <1>2, <1>3, <1>4, <1>5, <1>6, StepCases, ElsewhereIsAside

-----------------------------------------------------------------------------
(* Marks. *)

(***************************************************************************)
(* The copy that a reader is handed bears the marks.                       *)
(***************************************************************************)
LEMMA HandedMarked ==
  ASSUME Typed, Numbered, MarksKept
  PROVE  /\ Marked(NoReview)
         /\ \A kind \in Kinds, round \in Nat : Readable(PreferVerified(kind, round))
         /\ \A kind \in Kinds, round \in Nat : Marked(Read(PreferVerified(kind, round)))
         /\ last = <<>> \/ Readable(last) => Marked(Read(last))
<1>1. \A f \in refuted : f[1] # 0
  BY DEF Numbered, Typed
<1>2. Marked(NoReview)
  BY <1>1 DEF Marked, NoReview
<1>3. \A n : Readable(n) => Marked(Read(n))
  BY <1>2 DEF Read, MarksKept
<1>4. \A kind \in Kinds, round \in Nat : Readable(PreferVerified(kind, round))
  BY DEF PreferVerified, Readable, File
<1>5. <<>> \notin DOMAIN files
  <2>1. DOMAIN files \subseteq Kinds \X Nat \X Copies
    BY DEF Typed
  <2>2. <<>> \notin Kinds \X Nat \X Copies
    OBVIOUS
  <2>3. QED
    BY <2>1, <2>2
<1>6. Read(<<>>) = NoReview
  BY <1>5 DEF Read
<1>7. QED
  BY <1>2, <1>3, <1>4, <1>6

(***************************************************************************)
(* Nothing has been refuted at the start.                                  *)
(***************************************************************************)
LEMMA MarksKeptInit == Init => MarksKept
<1> SUFFICES ASSUME Init PROVE MarksKept
  OBVIOUS
<1>1. files = <<>> /\ refuted = {} /\ run.pc = "idle" /\ last = <<>>
  BY RestType DEF Init
<1>2. \A n : n \notin DOMAIN files
  BY <1>1
<1>3. QED
  BY <1>1, <1>2 DEF MarksKept, RefutationTravels

(***************************************************************************)
(* Every step keeps the marks: a new raw file has a number no refutation   *)
(* knows, a verified copy hides its raw file, and what a gate sees refuted *)
(* is marked in the copy that will be read.                                *)
(***************************************************************************)
LEMMA MarksKeptStep ==
  ASSUME Typed, Voting, Numbered, Numbered', MarksKept, [Next]_vars
  PROVE  MarksKept'
<1> DEFINE Planned == {"AWAITING_SPEC_APPROVAL", "IMPLEMENTING"}
<1>0. /\ Numbered => \A f \in refuted : f[1] # 0
      /\ \A n \in DOMAIN files : Readable(n) => Marked(files[n])
      /\ Standing \in Planned => last = <<>> \/ Readable(last)
      /\ RefutationTravels
  BY DEF MarksKept, Numbered, Typed
<1>00. \A f \in refuted' : f[1] # 0
  BY DEF Numbered
<1>1. ASSUME NEW kind \in Kinds, Review(kind) PROVE MarksKept'
  <2>1. PICK review \in ReviewType, name \in Kinds \X Nat \X Copies :
           /\ name = File(kind, RoundOf(kind), "raw") /\ review.no = spent.reviews + 1
           /\ run' = Loaded(kind, review)
           /\ DOMAIN files' = DOMAIN files \cup {name} /\ files'[name] = review
           /\ \A n \in DOMAIN files : n # name => files'[n] = files[n]
    BY <1>1, ReviewStep
  <2>2. UNCHANGED <<state, prev, rounds, last, refuted>> /\ spent.reviews \in Nat
    BY <1>1 DEF Review, jobRow, Typed
  <2>3. \A n : Readable(n)' <=> Readable(n)
    BY <2>1 DEF Readable, File
  <2>4. Marked(review)
    BY <2>1, <2>2 DEF Numbered, Marked
  <2>5. \A r : Marked(r)' <=> Marked(r)
    BY <2>2 DEF Marked
  <2>6. \A n \in DOMAIN files' : Readable(n)' => Marked(files'[n])
    BY <1>0, <2>1, <2>3, <2>4
  <2>7. \A n \in DOMAIN files' : Readable(n)' => Marked(files[n])'
    BY <2>5, <2>6
  <2>8. ASSUME NEW n \in DOMAIN files', files'[n].no = run'.review.no, NEW i \in DOMAIN run'.review.findings,
               run'.review.findings[i].verification = "refuted"
        PROVE  files'[n].findings[i].verification = "refuted"
    <3>1. run'.review.no = spent.reviews + 1
      BY <2>1, LoadedRun
    <3>2. n = name
      <4>1. n \in DOMAIN files /\ n # name => files[n].no <= spent.reviews /\ files[n].no \in Nat
        BY DEF Numbered, Typed, ReviewType
      <4>2. QED
        BY <2>1, <2>2, <2>8, <3>1, <4>1
    <3>3. i \in DOMAIN review.findings /\ run'.review.findings[i].verification = review.findings[i].verification
      BY <2>1, <2>8, LoadedFindings
    <3>4. QED
      BY <2>1, <2>8, <3>2, <3>3
  <2>9. Standing' = Standing
    BY <2>2 DEF Standing
  <2>10. RefutationTravels'
    <3>1. handed'.review = NoReview \/ handed'.review = Read(PreferVerified("code", rounds.code))
      <4>1. handed' = Nobody \/ Hand("CODE_REVIEW", Read(PreferVerified("code", rounds.code)))
        BY <1>1 DEF Review
      <4>2. CASE handed' = Nobody
        BY <4>2, RestType
      <4>3. CASE Hand("CODE_REVIEW", Read(PreferVerified("code", rounds.code)))
        BY <4>3 DEF Hand
      <4>4. QED
        BY <4>1, <4>2, <4>3
    <3>2. rounds.code \in Nat
      <4>1. rounds \in [{"design", "code"} -> Nat]
        BY DEF Typed, TypeOK
      <4>2. QED
        BY <4>1
    <3>3. Marked(Read(PreferVerified("code", rounds.code))) /\ Marked(NoReview)
      BY <3>2, HandedMarked DEF Kinds
    <3>4. Marked(handed'.review)
      BY <3>1, <3>3
    <3>5. QED
      BY <2>2, <3>4 DEF RefutationTravels, Marked
  <2>11. QED
    BY <1>0, <2>2, <2>3, <2>7, <2>8, <2>9, <2>10 DEF MarksKept
<1>2. ASSUME run.pc = "verify", NEW tally \in VoteType, Decided(tally) PROVE MarksKept'
  <2>0. run.todo \in SUBSET Nat
    BY <1>2 DEF Voting, Typed, ReviewType
  <2>1. run'.pc # "gate"
    BY <1>2, <2>0, DecidedRun
  <2>2. UNCHANGED <<state, prev, last, files, refuted, handed>>
    BY <1>2 DEF Decided, jobRow
  <2>3. QED
    BY <2>1, <2>2 DEF MarksKept, Readable, Marked, Standing, RefutationTravels
<1>3. CASE WriteVerified
  <2>1. OwnCopy \in Kinds \X Nat \X Copies
    BY Names DEF Typed, Copies, OwnCopy
  <2>2. files' = With(OwnCopy, Applied) /\ Applied \in ReviewType /\ Applied.no = run.review.no
    BY <1>3, AppliedType DEF WriteVerified, OwnCopy
  <2>3. /\ run'.review = Applied
        /\ UNCHANGED <<state, prev, rounds, last, refuted, handed>> /\ run.pc = "apply"
    BY <1>3 DEF WriteVerified, jobRow, Typed
  <2>4. /\ DOMAIN files' = DOMAIN files \cup {OwnCopy} /\ files'[OwnCopy] = Applied
        /\ \A n \in DOMAIN files : n # OwnCopy => files'[n] = files[n]
    BY <2>1, <2>2, WithType
  <2>5. \A n : Readable(n)' => Readable(n)
    BY <2>4 DEF Readable
  <2>6. ~Readable(RawName)'
    <3>1. RawName[1] = run.kind /\ RawName[2] = RoundOf(run.kind) /\ RawName[3] = "raw"
      BY DEF RawName, File
    <3>2. File(run.kind, RoundOf(run.kind), "verified") \in DOMAIN files'
      BY <2>4 DEF OwnCopy
    <3>3. RawName' = RawName
      BY <1>3, <2>3 DEF RawName, RoundOf, WriteVerified, Typed
    <3>4. QED
      BY <3>1, <3>2, <3>3 DEF Readable
  <2>61. RawName' = RawName
    BY <1>3, <2>3 DEF RawName, RoundOf, WriteVerified, Typed
  <2>7. Marked(Applied)
    <3>1. \A f \in refuted : f[1] < run.review.no /\ f[1] \in Nat /\ run.review.no \in Nat
      BY <2>3 DEF Numbered, Typed, ReviewType
    <3>2. QED
      BY <2>2, <3>1 DEF Marked
  <2>8. \A n \in DOMAIN files' : Readable(n)' => Marked(files'[n])
    BY <1>0, <2>4, <2>5, <2>7
  <2>9. \A n \in DOMAIN files' : Readable(n)' => Marked(files[n])'
    BY <2>3, <2>8 DEF Marked
  <2>10. \A n \in DOMAIN files' : Readable(n)' /\ files'[n].no = run'.review.no => files'[n] = run'.review
    <3>1. \A n \in DOMAIN files : files[n].no = run.review.no => n = RawName
      BY <2>3 DEF Numbered
    <3>2. QED
      BY <2>2, <2>3, <2>4, <2>6, <2>61, <3>1
  <2>11. Standing' \notin Planned
    <3>1. state = StateOf[run.kind] /\ run.kind \in Kinds
      BY <2>3 DEF Typed, TypeOK
    <3>2. QED
      BY <2>3, <3>1 DEF Standing, StateOf, Kinds
  <2>12. RefutationTravels'
    BY <1>0, <2>3 DEF RefutationTravels
  <2>13. QED
    BY <2>9, <2>10, <2>11, <2>12 DEF MarksKept
<1>4. CASE Lost
  <2>1. run' = Idle /\ handed' = Nobody /\ UNCHANGED <<state, prev, last, files, refuted>>
    BY <1>4 DEF Lost, jobRow
  <2>2. RefutationTravels'
    BY <1>00, <2>1, RestType DEF RefutationTravels
  <2>3. QED
    BY <2>1, <2>2, RestType DEF MarksKept, Readable, Marked, Standing
<1>5. CASE Gate
  <2>1. PICK kind \in Kinds : Judge(kind)
    BY <1>5 DEF Gate, DesignBlocks, DesignPasses, CodeBlocks, CodePasses, FinalBlocks, FinalPasses, Kinds
  <2>2. /\ run.pc = "gate" /\ run' = Idle /\ handed' = Nobody /\ UNCHANGED files
        /\ \A f \in refuted' : f \in refuted \/
              \E i \in DOMAIN run.review.findings :
                f = <<run.review.no, i>> /\ run.review.findings[i].verification = "refuted"
    BY <2>1 DEF Judge
  <2>3. \A n : Readable(n)' <=> Readable(n)
    BY <2>2 DEF Readable
  <2>4. \A n \in DOMAIN files : Readable(n) => Marked(files[n])'
    <3>1. SUFFICES ASSUME NEW n \in DOMAIN files, Readable(n), NEW f \in refuted', f[1] = files[n].no
                   PROVE  files[n].findings[f[2]].verification = "refuted"
      BY <2>2 DEF Marked
    <3>2. CASE f \in refuted
      BY <1>0, <3>1, <3>2 DEF Marked
    <3>3. ASSUME NEW i \in DOMAIN run.review.findings,
                 f = <<run.review.no, i>>, run.review.findings[i].verification = "refuted"
          PROVE  files[n].findings[f[2]].verification = "refuted"
      BY <2>2, <3>1, <3>3 DEF MarksKept
    <3>4. QED
      BY <2>2, <3>2, <3>3
  <2>5. Standing' \in Planned => last' = <<>> \/ Readable(last)'
    <3>1. state = StateOf[run.kind] /\ run.kind \in Kinds
      BY <2>2 DEF Typed, TypeOK
    <3>2. CASE DesignPasses
      <4>1. last' = <<>> \/ last' = PreferVerified("design", RoundOf("design"))
        BY <3>2 DEF DesignPasses
      <4>2. Readable(PreferVerified("design", RoundOf("design")))
        BY Names, HandedMarked DEF Kinds
      <4>3. QED
        BY <2>2, <4>1, <4>2 DEF Readable
    <3>3. CASE ~DesignPasses
      BY <1>5, <3>1, <3>3 DEF Gate, DesignBlocks, CodeBlocks, CodePasses, FinalBlocks, FinalPasses, Goto, Standing,
                              StateOf, Kinds
    <3>4. QED
      BY <3>2, <3>3
  <2>6. RefutationTravels'
    BY <1>00, <2>2, RestType DEF RefutationTravels
  <2>7. QED
    BY <2>2, <2>3, <2>4, <2>5, <2>6, RestType DEF MarksKept
<1>6. CASE Elsewhere
  <2>1. Aside /\ run.pc = "idle" /\ UNCHANGED last
    <3>1. Aside
      BY <1>6, ElsewhereIsAside
    <3>2. run.pc = "idle" /\ UNCHANGED last
      BY <1>6 DEF Elsewhere, Plan, Implement, Fix, Build, Decide, Hold, Resume, At
    <3>3. QED
      BY <3>1, <3>2
  <2>2. Standing' \in Planned => Standing \in Planned
    BY <1>6 DEF Elsewhere, Plan, Implement, Fix, Build, Decide, Hold, Resume, At, Goto, Standing, PipelineStates, Kinds, StateOf
  <2>3. \A n : Readable(n)' <=> Readable(n)
    BY <2>1 DEF Aside, Readable
  <2>4. RefutationTravels'
    <3>1. rounds.code \in Nat
      <4>1. rounds \in [{"design", "code"} -> Nat]
        BY DEF Typed, TypeOK
      <4>2. QED
        BY <4>1
    <3>2. CASE Plan
      BY <3>2 DEF Plan, Hand, RefutationTravels
    <3>3. CASE Implement
      <4>1. handed' = [to |-> "IMPLEMENTING", review |-> Read(last)] /\ Standing = "IMPLEMENTING"
        BY <3>3 DEF Implement, Hand, At, Standing
      <4>2. Marked(Read(last))
        BY <1>0, <4>1, HandedMarked
      <4>3. QED
        BY <2>1, <4>1, <4>2 DEF Aside, Marked, RefutationTravels
    <3>4. CASE Fix
      <4>1. handed'.review = NoReview \/ handed'.review = FixFindings
        <5>1. handed' = Nobody \/ Hand("FIXING", FixFindings)
          BY <3>4 DEF Fix
        <5>2. CASE handed' = Nobody
          BY <5>2, RestType
        <5>3. CASE Hand("FIXING", FixFindings)
          BY <5>3 DEF Hand
        <5>4. QED
          BY <5>1, <5>2, <5>3
      <4>2. Marked(FixFindings) /\ Marked(NoReview)
        BY <3>1, HandedMarked DEF FixFindings, Kinds
      <4>3. Marked(handed'.review)
        BY <4>1, <4>2
      <4>4. QED
        BY <2>1, <4>3 DEF Aside, Marked, RefutationTravels
    <3>5. CASE Build \/ Decide \/ Hold \/ Resume
      <4>1. handed' = Nobody
        BY <3>5 DEF Build, Decide, Hold, Resume
      <4>2. QED
        BY <1>00, <4>1, RestType DEF RefutationTravels
    <3>6. QED
      BY <1>6, <3>2, <3>3, <3>4, <3>5 DEF Elsewhere
  <2>5. QED
    BY <1>0, <2>1, <2>2, <2>3, <2>4 DEF Aside, MarksKept, Marked
<1>7. CASE UNCHANGED vars
  BY <1>7 DEF vars, jobRow, MarksKept, Readable, Marked, Standing, RefutationTravels
<1>8. QED
  BY <1>1, <1>2, <1>3, <1>4, <1>5, <1>6, <1>7, StepCases

-----------------------------------------------------------------------------
(* What blocked; the theorems. *)

(***************************************************************************)
(* What blocks at the gate is what a reader of the review will find.       *)
(***************************************************************************)
LEMMA BlockedReadable ==
  ASSUME Typed, Numbered, AtGate, run.pc = "gate", Blocks
  PROVE  Read(PreferVerified(run.kind, RoundOf(run.kind))) = run.review
<1>1. CASE Votes = 0
  <2>1. OwnCopy \notin DOMAIN files
    <3>1. OwnCopy[3] = "verified"
      BY DEF OwnCopy, File
    <3>2. QED
      BY <1>1, <3>1 DEF AtGate
  <2>2. RawName \in DOMAIN files /\ run.review = files[RawName]
    BY <1>1 DEF AtGate, Numbered
  <2>3. QED
    BY <2>1, <2>2 DEF OwnCopy, RawName, PreferVerified, Read
<1>2. CASE Votes # 0
  <2>1. OwnCopy \in DOMAIN files /\ files[OwnCopy] = run.review
    BY <1>2, VotesAssumption DEF AtGate
  <2>2. QED
    BY <2>1 DEF OwnCopy, PreferVerified, Read
<1>3. QED
  BY <1>1, <1>2

(***************************************************************************)
(* A file of another name leaves what a reader finds as it was.            *)
(***************************************************************************)
LEMMA ElsewhereWritten ==
  ASSUME Typed, NEW name \in Kinds \X Nat \X Copies, NEW review,
         files' = With(name, review), NEW kind, NEW round, name[1] # kind \/ name[2] # round
  PROVE  Read(PreferVerified(kind, round))' = Read(PreferVerified(kind, round))
<1>1. DOMAIN files' = DOMAIN files \cup {name} /\ \A n \in DOMAIN files : n # name => files'[n] = files[n]
  BY DEF With
<1>2. name # File(kind, round, "verified") /\ name # File(kind, round, "raw")
  BY DEF File
<1>3. PreferVerified(kind, round)' = PreferVerified(kind, round)
  BY <1>1, <1>2 DEF PreferVerified
<1>4. PreferVerified(kind, round) # name
  BY <1>2 DEF PreferVerified
<1>5. QED
  BY <1>1, <1>3, <1>4 DEF Read

(***************************************************************************)
(* No review has blocked at the start.                                     *)
(***************************************************************************)
LEMMA BlockedKeptInit == Init => BlockedKept
<1> SUFFICES ASSUME Init PROVE BlockedKept
  OBVIOUS
<1>1. rounds.code = 0 /\ source = "" /\ Standing = "PLANNING" /\ handed.to = ""
  BY RestType DEF Init, Standing
<1>2. QED
  BY <1>1 DEF BlockedKept, ToldWhatBlocked

(***************************************************************************)
(* Every step keeps the review that blocked for its readers: until the     *)
(* fixer and the next round's reviewer have been told, only files of       *)
(* another kind or round are written.                                      *)
(***************************************************************************)
LEMMA BlockedKeptStep ==
  ASSUME Typed, Voting, Numbered, AtGate, BlockedKept, [Next]_vars
  PROVE  BlockedKept'
<1>0. rounds \in [{"design", "code"} -> Nat] /\ rounds.code \in Nat /\ rounds.design \in Nat
  <2>1. rounds \in [{"design", "code"} -> Nat]
    BY DEF Typed, TypeOK
  <2>2. QED
    BY <2>1
<1>00. /\ source \in {"code_review", "final_review"} => Standing = "FIXING" /\ FixFindings = judged.diff
       /\ Standing \in BeforeCode => rounds.code = 0
       /\ Standing = "CODE_REVIEW" /\ rounds.code > 0 =>
            Read(PreferVerified("code", rounds.code)) = judged.diff
       /\ ToldWhatBlocked
  BY DEF BlockedKept
<1>1. ASSUME NEW kind \in Kinds, Review(kind) PROVE BlockedKept'
  <2>1. PICK review \in ReviewType, name \in Kinds \X Nat \X Copies :
           name = File(kind, RoundOf(kind), "raw") /\ files' = With(name, review)
    BY <1>1, ReviewStep
  <2>2. UNCHANGED <<state, prev, rounds, source, judged>> /\ state = StateOf[kind]
    BY <1>1 DEF Review, jobRow, At
  <2>3. Standing = state /\ Standing' = Standing /\ Standing # "FIXING" /\ (Standing = "CODE_REVIEW" => kind = "code")
    BY <2>2 DEF Standing, StateOf, Kinds
  <2>4. kind = "code" => Read(PreferVerified("code", rounds.code))' = Read(PreferVerified("code", rounds.code))
    <3>1. ASSUME kind = "code" PROVE name[2] # rounds.code
      BY <1>0, <2>1, <3>1 DEF File, RoundOf
    <3>2. ASSUME kind = "code", NEW round, round = rounds.code
          PROVE  Read(PreferVerified("code", round))' = Read(PreferVerified("code", round))
      BY <2>1, <3>1, <3>2, ElsewhereWritten
    <3>3. QED
      BY <2>2, <3>2
  <2>5. ToldWhatBlocked'
    <3>1. CASE handed' = Nobody
      BY <3>1, RestType DEF ToldWhatBlocked
    <3>2. CASE kind = "code" /\ rounds.code > 0 /\ Hand("CODE_REVIEW", Read(PreferVerified("code", rounds.code)))
      <4>1. handed'.review = Read(PreferVerified("code", rounds.code))
        BY <3>2 DEF Hand
      <4>2. Standing = "CODE_REVIEW"
        BY <2>2, <2>3, <3>2 DEF StateOf
      <4>3. QED
        BY <1>00, <2>2, <3>2, <4>1, <4>2 DEF ToldWhatBlocked
    <3>3. QED
      BY <1>1, <3>1, <3>2 DEF Review
  <2>6. QED
    BY <1>00, <2>2, <2>3, <2>4, <2>5 DEF BlockedKept
<1>2. ASSUME run.pc = "verify", NEW tally \in VoteType, Decided(tally) PROVE BlockedKept'
  <2>1. UNCHANGED <<state, prev, rounds, source, files, judged, handed>>
    BY <1>2 DEF Decided, jobRow
  <2>2. QED
    BY <2>1 DEF BlockedKept, Standing, FixFindings, PreferVerified, Read, ToldWhatBlocked
<1>3. CASE WriteVerified
  <2>1. OwnCopy \in Kinds \X Nat \X Copies
    BY Names DEF Typed, Copies, OwnCopy
  <2>2. files' = With(OwnCopy, Applied)
    BY <1>3 DEF WriteVerified, OwnCopy
  <2>3. UNCHANGED <<state, prev, rounds, source, judged, handed>> /\ state = StateOf[run.kind] /\ run.kind \in Kinds
    BY <1>3 DEF WriteVerified, jobRow, Typed, TypeOK
  <2>4. Standing = state /\ Standing' = Standing /\ Standing # "FIXING" /\ (Standing = "CODE_REVIEW" => run.kind = "code")
    BY <2>3 DEF Standing, StateOf, Kinds
  <2>5. run.kind = "code" => Read(PreferVerified("code", rounds.code))' = Read(PreferVerified("code", rounds.code))
    <3>1. ASSUME run.kind = "code" PROVE OwnCopy[2] # rounds.code
      BY <1>0, <3>1 DEF OwnCopy, File, RoundOf
    <3>2. ASSUME run.kind = "code", NEW round, round = rounds.code
          PROVE  Read(PreferVerified("code", round))' = Read(PreferVerified("code", round))
      BY <2>1, <2>2, <3>1, <3>2, ElsewhereWritten
    <3>3. QED
      BY <2>3, <3>2
  <2>6. QED
    BY <1>00, <2>3, <2>4, <2>5 DEF BlockedKept, ToldWhatBlocked
<1>4. CASE Lost
  <2>1. handed' = Nobody /\ UNCHANGED <<state, prev, rounds, source, files, judged>>
    BY <1>4 DEF Lost, jobRow
  <2>2. ToldWhatBlocked'
    BY <2>1, RestType DEF ToldWhatBlocked
  <2>3. QED
    BY <2>1, <2>2 DEF BlockedKept, Standing, FixFindings, PreferVerified, Read
<1>5. CASE Gate
  <2>1. PICK kind \in Kinds : Judge(kind)
    BY <1>5 DEF Gate, DesignBlocks, DesignPasses, CodeBlocks, CodePasses, FinalBlocks, FinalPasses, Kinds
  <2>2. /\ run.pc = "gate" /\ handed' = Nobody /\ UNCHANGED files /\ state = StateOf[run.kind]
        /\ run.kind = kind
    BY <2>1 DEF Judge, Typed, TypeOK
  <2>3. /\ kind = "design" => judged'.diff = judged.diff
        /\ kind # "design" => judged'.diff = run.review
    BY <2>1 DEF Judge, Typed
  <2>4. ToldWhatBlocked'
    BY <2>2, RestType DEF ToldWhatBlocked
  <2>5. Standing = state /\ source \notin {"code_review", "final_review"}
    BY <1>00, <2>2 DEF Standing, StateOf, Kinds
  <2>6. CASE CodeBlocks
    <3>1. kind = "code" /\ Blocks /\ state = "CODE_REVIEW" /\ RoundOf(run.kind) = rounds.code + 1 /\ run.kind = "code"
      BY <2>2, <2>6 DEF CodeBlocks, Judge, StateOf, RoundOf
    <3>2. rounds'.code = rounds.code + 1
      BY <1>0, <2>6 DEF CodeBlocks
    <3>3. Read(PreferVerified("code", rounds.code + 1)) = run.review
      BY <2>2, <3>1, BlockedReadable
    <3>4. Read(PreferVerified("code", rounds.code))' = run.review
      BY <2>2, <3>2, <3>3 DEF Read, PreferVerified
    <3>5. \/ source' = "code_review" /\ Standing' = "FIXING"
          \/ UNCHANGED source /\ Standing' = "CODE_REVIEW"
      BY <2>6, <3>1 DEF CodeBlocks, Goto, Standing
    <3>6. QED
      BY <2>3, <2>4, <2>5, <3>1, <3>4, <3>5 DEF BlockedKept, FixFindings, BeforeCode
  <2>7. CASE FinalBlocks
    <3>1. kind = "final" /\ Blocks /\ state = "FINAL_REVIEW" /\ RoundOf(run.kind) = 0 /\ run.kind = "final"
      BY <2>2, <2>7 DEF FinalBlocks, Judge, StateOf, RoundOf
    <3>2. Read(PreferVerified("final", 0)) = run.review
      BY <2>2, <3>1, BlockedReadable
    <3>3. Read(PreferVerified("final", 0))' = run.review
      BY <2>2, <3>2 DEF Read, PreferVerified
    <3>4. \/ source' = "final_review" /\ Standing' = "FIXING"
          \/ UNCHANGED source /\ Standing' = "FINAL_REVIEW"
      BY <2>7, <3>1 DEF FinalBlocks, Goto, Standing
    <3>5. QED
      BY <2>3, <2>4, <2>5, <3>1, <3>3, <3>4 DEF BlockedKept, FixFindings, BeforeCode
  <2>8. CASE DesignBlocks \/ DesignPasses
    <3>1. state = "DESIGN_REVIEW" /\ rounds.code = 0
      BY <1>00, <2>2, <2>5, <2>8 DEF DesignBlocks, DesignPasses, Judge, StateOf, BeforeCode
    <3>2. rounds'.code = 0 /\ UNCHANGED source
      <4>1. rounds' = rounds \/ rounds' = [rounds EXCEPT !.design = @ + 1]
        BY <2>8 DEF DesignBlocks, DesignPasses
      <4>2. UNCHANGED source
        BY <2>8 DEF DesignBlocks, DesignPasses
      <4>3. QED
        BY <1>0, <3>1, <4>1, <4>2
    <3>3. QED
      BY <2>4, <2>5, <3>2 DEF BlockedKept
  <2>9. CASE CodePasses \/ FinalPasses
    <3>1. UNCHANGED source /\ Standing' \in {"AWAITING_CODE_APPROVAL", "BUILDING", "AWAITING_MERGE_APPROVAL"}
      BY <2>9 DEF CodePasses, FinalPasses, Goto, Standing
    <3>2. QED
      BY <2>4, <2>5, <3>1 DEF BlockedKept, BeforeCode
  <2>10. QED
    BY <1>5, <2>6, <2>7, <2>8, <2>9 DEF Gate
<1>6. CASE Elsewhere
  <2>1. UNCHANGED <<files, judged, rounds>>
    BY <1>6, ElsewhereIsAside DEF Aside
  <2>2. \A kind, round : Read(PreferVerified(kind, round))' = Read(PreferVerified(kind, round))
    BY <2>1 DEF Read, PreferVerified
  <2>3. Standing \notin {"", "FIXING"} => source \notin {"code_review", "final_review"}
    BY <1>00
  <2>4. ToldWhatBlocked'
    <3>1. CASE handed' = Nobody \/ Plan \/ Implement
      <4>1. \A to, r : Hand(to, r) => handed'.to = to
        BY DEF Hand
      <4>2. handed'.to \in {"", "PLANNING", "IMPLEMENTING"}
        <5>1. CASE handed' = Nobody
          BY <5>1, RestType
        <5>2. CASE Plan \/ Implement
          BY <4>1, <5>2 DEF Plan, Implement
        <5>3. QED
          BY <3>1, <5>1, <5>2
      <4>3. QED
        BY <4>2 DEF ToldWhatBlocked
    <3>2. CASE source \in {"code_review", "final_review"} /\ Hand("FIXING", FixFindings)
      BY <1>00, <2>1, <3>2 DEF Hand, ToldWhatBlocked
    <3>3. QED
      BY <1>6, <3>1, <3>2 DEF Elsewhere, Fix, Build, Decide, Hold, Resume
  <2>5. source' \in {"code_review", "final_review"} => source' = source /\ Standing' = Standing
    <3>1. CASE Hold \/ Resume
      <4>1. Standing' = Standing
        BY <3>1 DEF Hold, Resume, At, Goto, Standing, PipelineStates, Kinds, StateOf
      <4>2. source' \in {source, "human"}
        BY <3>1 DEF Hold, Resume
      <4>3. QED
        BY <4>1, <4>2
    <3>2. CASE Fix
      BY <3>2 DEF Fix, At, Goto, Standing
    <3>3. CASE Plan \/ Implement \/ Build \/ Decide
      <4>1. source' \in {source, "", "analysis", "human"}
        BY <3>3 DEF Plan, Implement, Build, Decide
      <4>2. Standing \notin {"", "FIXING"}
        BY <3>3 DEF Plan, Implement, Build, Decide, At, Standing
      <4>3. QED
        BY <2>3, <4>1, <4>2
    <3>4. QED
      BY <1>6, <3>1, <3>2, <3>3 DEF Elsewhere
  <2>6. Standing' \in BeforeCode => Standing \in BeforeCode
    BY <1>6 DEF Elsewhere, Plan, Implement, Fix, Build, Decide, Hold, Resume, At, Goto, Standing, PipelineStates, Kinds, StateOf, BeforeCode
  <2>7. Standing' = "CODE_REVIEW" => Standing \in {"CODE_REVIEW", "IMPLEMENTING"}
    BY <1>6 DEF Elsewhere, Plan, Implement, Fix, Build, Decide, Hold, Resume, At, Goto, Standing, PipelineStates, Kinds, StateOf
  <2>8. source' = source => FixFindings' = FixFindings
    <3>1. Read(PreferVerified("code", rounds.code))' = Read(PreferVerified("code", rounds.code))
      BY <2>1 DEF Read, PreferVerified
    <3>2. Read(PreferVerified("final", 0))' = Read(PreferVerified("final", 0))
      BY <2>1 DEF Read, PreferVerified
    <3>3. QED
      BY <3>1, <3>2 DEF FixFindings
  <2>9. Read(PreferVerified("code", rounds.code))' = Read(PreferVerified("code", rounds.code))
    BY <2>1 DEF Read, PreferVerified
  <2>10. QED
    BY <1>0, <1>00, <2>1, <2>4, <2>5, <2>6, <2>7, <2>8, <2>9 DEF BlockedKept, BeforeCode
<1>7. CASE UNCHANGED vars
  BY <1>7 DEF vars, jobRow, BlockedKept, Standing, FixFindings, PreferVerified, Read, ToldWhatBlocked
<1>8. QED
  BY <1>1, <1>2, <1>3, <1>4, <1>5, <1>6, <1>7, StepCases

(***************************************************************************)
(* The inductive invariant.                                                *)
(***************************************************************************)
IInv == Typed /\ Numbered /\ Voting /\ AtGate /\ SetAsideByItsOwnVotes /\ MarksKept /\ BlockedKept

(***************************************************************************)
(* The invariant holds at the start.                                       *)
(***************************************************************************)
LEMMA InvInit == Init => IInv
<1> SUFFICES ASSUME Init PROVE IInv
  OBVIOUS
<1>1. run.pc = "idle" /\ files = <<>>
  BY RestType DEF Init
<1>2. \A n : n \notin DOMAIN files
  BY <1>1
<1>3. Voting /\ AtGate /\ SetAsideByItsOwnVotes
  BY <1>1, <1>2 DEF Voting, AtGate, SetAsideByItsOwnVotes
<1>4. QED
  BY <1>3, TypedInit, NumberedInit, MarksKeptInit, BlockedKeptInit DEF IInv

(***************************************************************************)
(* Every step keeps the invariant, part by part.                           *)
(***************************************************************************)
LEMMA InvStep == IInv /\ [Next]_vars => IInv'
BY TypedStep, NumberedStep, VotingStep, AtGateStep, SetAsideStep, MarksKeptStep, BlockedKeptStep DEF IInv

(***************************************************************************)
(* It is an invariant.                                                     *)
(***************************************************************************)
LEMMA InvHolds == Spec => []IInv
BY InvInit, InvStep, PTL DEF Spec

(***************************************************************************)
(* Type correctness of the review files' state.                            *)
(***************************************************************************)
THEOREM ReviewTypeCorrect == Spec => []TypeOK
<1>1. IInv => TypeOK
  BY DEF IInv, Typed
<1>2. QED
  BY <1>1, InvHolds, PTL

(***************************************************************************)
(* For any number of votes and any threshold, and whatever ids a reviewer  *)
(* wrote: at the gate a finding has severity nit if its own verifiers set  *)
(* it aside, and otherwise the severity it came with.                      *)
(***************************************************************************)
THEOREM OwnVotesDecide == Spec => []SetAsideByItsOwnVotes
<1>1. IInv => SetAsideByItsOwnVotes
  BY DEF IInv
<1>2. QED
  BY <1>1, InvHolds, PTL

(***************************************************************************)
(* The fixer and the next round's reviewer are handed the review that      *)
(* blocked, however often its state is lost or run again.                  *)
(***************************************************************************)
THEOREM FixerIsTold == Spec => []ToldWhatBlocked
<1>1. IInv => ToldWhatBlocked
  BY DEF IInv, BlockedKept
<1>2. QED
  BY <1>1, InvHolds, PTL

(***************************************************************************)
(* Whoever is handed a review with a refuted finding, the planner          *)
(* excepted, is handed the refutation with it.                             *)
(***************************************************************************)
THEOREM MarksTravel == Spec => []RefutationTravels
<1>1. IInv => RefutationTravels
  BY DEF IInv, MarksKept
<1>2. QED
  BY <1>1, InvHolds, PTL

-----------------------------------------------------------------------------
(* The loop over the jobs. *)

Pcs == {"off", "tick", "visit", "round", "select", "settle", "drain"}

Loops ==
  [pc : Pcs, job : 0..NumJobs, dispatched : BOOLEAN, pending : BOOLEAN,
   again : BOOLEAN, blind : BOOLEAN]

SlotStates ==
  [pc : {"free", "step", "unmark", "return"}, job : 0..NumJobs, copy : Run!Rows]

\* The step of slot k is at work, or has not yet been taken out of inFlight.
Busy(k) == slot[k].pc \in {"step", "unmark"}

(***************************************************************************)
(* The inductive invariant: busy slots have jobs of their own, exactly the *)
(* ones in flight, and there are none when the engine is off.              *)
(***************************************************************************)
SlotInv ==
  /\ \A k \in Run!Slots : Busy(k) => slot[k].job \in inFlight
  /\ \A a, b \in Run!Slots : (Busy(a) /\ Busy(b) /\ slot[a].job = slot[b].job) => a = b
  /\ loop.pc = "off" => \A k \in Run!Slots : ~Busy(k)

(***************************************************************************)
(* The parts of TypeOK that only concern one variable.                     *)
(***************************************************************************)
LoopTyped ==
  /\ row \in [Run!Jobs -> Run!Rows]
  /\ listed \in [Run!Jobs -> Run!Rows]
  /\ loop \in Loops
  /\ inFlight \subseteq Run!Jobs
  /\ slot \in [Run!Slots -> SlotStates]
  /\ stopping \in BOOLEAN /\ starts \in 0..MaxStarts

LoopPlaced ==
  /\ loop.pc = "visit" => loop.job \in Run!Jobs
  /\ \A j \in inFlight : \E k \in Run!Slots :
       slot[k].job = j /\ slot[k].pc \in {"step", "unmark"}

(***************************************************************************)
(* The type invariant is what each variable is, and where they meet.       *)
(***************************************************************************)
LEMMA LoopTypeParts == Run!TypeOK <=> LoopTyped /\ LoopPlaced
  BY DEF Run!TypeOK, LoopTyped, LoopPlaced, Loops, Pcs, SlotStates

(***************************************************************************)
(* A fresh loop record is a loop record.                                   *)
(***************************************************************************)
LEMMA LoopType ==
  ASSUME NEW pc \in Pcs
  PROVE  Run!Loop(pc) \in Loops /\ Run!Loop(pc).pc = pc /\ Run!Loop(pc).job = 0
  BY NumJobsAssumption DEF Run!Loop, Loops, Pcs

(***************************************************************************)
(* So is the record of a Run that returns.                                 *)
(***************************************************************************)
LEMMA LeavingType ==
  ASSUME loop \in Loops
  PROVE  Run!Leaving \in Loops /\ Run!Leaving.pc = "off"
<1>1. loop.blind \in BOOLEAN
  BY DEF Loops
<1>2. ASSUME NEW l \in Loops
      PROVE  LET m == [l EXCEPT !.blind = loop.blind] IN m \in Loops /\ m.pc = l.pc
  BY <1>1 DEF Loops
<1>3. Run!Loop("off") \in Loops /\ Run!Loop("off").pc = "off"
  BY LoopType DEF Pcs
<1>4. QED
  BY <1>2, <1>3 DEF Run!Leaving

(***************************************************************************)
(* A copy that is out of use is a row.                                     *)
(***************************************************************************)
LEMMA GoneType == Run!Gone \in Run!Rows
  BY BoundsAssumption DEF Run!Gone, Run!Rows, Run!States

(***************************************************************************)
(* The loop record stays one as the tick moves on to the next job.         *)
(***************************************************************************)
LEMMA PastType ==
  ASSUME loop \in Loops, loop.pc = "visit", loop.job \in Run!Jobs,
         NEW d \in BOOLEAN, NEW p \in BOOLEAN, Run!Past(d, p)
  PROVE  /\ loop' \in Loops
         /\ loop'.pc \in {"visit", "round"}
         /\ loop'.pc = "visit" => loop'.job \in Run!Jobs
         /\ listed \in [Run!Jobs -> Run!Rows] => listed' \in [Run!Jobs -> Run!Rows]
<1>1. /\ loop.job \in 1..NumJobs
      /\ loop.dispatched \in BOOLEAN /\ loop.pending \in BOOLEAN
      /\ loop.again \in BOOLEAN /\ loop.blind \in BOOLEAN
  BY DEF Loops, Run!Jobs
<1> DEFINE dd == loop.dispatched \/ d
           pp == loop.pending \/ p
<1>a. dd \in BOOLEAN /\ pp \in BOOLEAN
  BY <1>1
<1>b. loop' = [loop EXCEPT !.dispatched = dd, !.pending = pp,
                           !.pc = IF @ = "visit" /\ loop.job = NumJobs THEN "round" ELSE @,
                           !.job = IF @ = NumJobs THEN 0 ELSE @ + 1]
  BY DEF Run!Past
<1>l. listed \in [Run!Jobs -> Run!Rows] => listed' \in [Run!Jobs -> Run!Rows]
  BY GoneType DEF Run!Past
<1> HIDE DEF dd, pp
<1> DEFINE after(pc, job) ==
      [loop EXCEPT !.dispatched = dd, !.pending = pp, !.pc = pc, !.job = job]
<1>c. ASSUME NEW pc \in Pcs, NEW job \in 0..NumJobs
      PROVE  /\ after(pc, job) \in Loops
             /\ after(pc, job).pc = pc
             /\ after(pc, job).job = job
  BY <1>a DEF Loops
<1>2. CASE loop.job = NumJobs
  <2>1. loop' = after("round", 0)
    BY <1>b, <1>2
  <2>2. "round" \in Pcs /\ 0 \in 0..NumJobs
    BY NumJobsAssumption DEF Pcs
  <2>3. QED
    BY <1>c, <1>l, <2>1, <2>2
<1>3. CASE loop.job # NumJobs
  <2>1. loop' = after("visit", loop.job + 1)
    BY <1>b, <1>3
  <2>2. loop.job + 1 \in 1..NumJobs /\ loop.job + 1 \in 0..NumJobs
    BY <1>1, <1>3, NumJobsAssumption
  <2>3. "visit" \in Pcs
    BY DEF Pcs
  <2>4. QED
    BY <1>c, <1>l, <2>1, <2>2, <2>3 DEF Run!Jobs
<1>4. QED
  BY <1>2, <1>3

(***************************************************************************)
(* A row that is written again is a row.                                   *)
(***************************************************************************)
LEMMA WritesType == ASSUME NEW r PROVE Run!Writes(r) \subseteq Run!Rows
  BY DEF Run!Writes

(***************************************************************************)
(* A free slot.                                                            *)
(***************************************************************************)
LEMMA EmptyType == Run!Empty \in SlotStates /\ Run!Empty.pc = "free"
  BY NumJobsAssumption, GoneType DEF Run!Empty, SlotStates

-----------------------------------------------------------------------------
(***************************************************************************)
(* The engine is off at the start.                                         *)
(***************************************************************************)
LEMMA LoopTypeInit == Run!Init => Run!TypeOK
<1> SUFFICES ASSUME Run!Init PROVE Run!TypeOK
  OBVIOUS
<1>1. [state : {"work", "waiting"}, writes : {0}] \subseteq Run!Rows
  BY BoundsAssumption DEF Run!Rows, Run!States
<1>2. loop \in Loops /\ loop.pc = "off"
  BY LoopType DEF Run!Init, Pcs
<1>3. starts \in 0..MaxStarts /\ inFlight \subseteq Run!Jobs
  BY BoundsAssumption DEF Run!Init
<1>4. row \in [Run!Jobs -> Run!Rows] /\ listed \in [Run!Jobs -> Run!Rows]
  BY <1>1, GoneType DEF Run!Init
<1>5. LoopTyped
  BY <1>2, <1>3, <1>4, EmptyType DEF Run!Init, LoopTyped
<1>6. LoopPlaced
  BY <1>2 DEF Run!Init, LoopPlaced
<1>7. QED
  BY <1>5, <1>6, LoopTypeParts

(***************************************************************************)
(* Every step keeps the types, and a job in flight keeps its slot.         *)
(***************************************************************************)
LEMMA LoopTypeStep == Run!TypeOK /\ [Run!Next]_Run!vars => Run!TypeOK'
<1> SUFFICES ASSUME LoopTyped, LoopPlaced, [Run!Next]_Run!vars PROVE LoopTyped' /\ LoopPlaced'
  BY LoopTypeParts, PTL
<1> USE DEF LoopTyped, LoopPlaced
<1>1. CASE Run!Start
  <2>1. loop' \in Loops /\ loop'.pc = "tick"
    BY <1>1, LoopType DEF Run!Start, Pcs
  <2>2. starts' \in 0..MaxStarts
    BY <1>1, BoundsAssumption DEF Run!Start
  <2>3. /\ UNCHANGED <<row, listed, slot>>
        /\ inFlight' = {} /\ stopping' = FALSE
    BY <1>1 DEF Run!Start
  <2>4. QED
    BY <2>1, <2>2, <2>3
<1>2. CASE Run!Stop
  BY <1>2 DEF Run!Stop
<1>3. CASE Run!List
  <2>1. NumJobs # 0 => 1 \in Run!Jobs /\ 1 \in 0..NumJobs
    BY NumJobsAssumption DEF Run!Jobs
  <2>2. loop' \in Loops /\ (loop'.pc = "visit" => loop'.job \in Run!Jobs)
    BY <1>3, <2>1 DEF Run!List, Loops, Pcs
  <2>3. QED
    BY <1>3, <2>2 DEF Run!List
<1>4. CASE Run!ListFails
  BY <1>4 DEF Run!ListFails, Loops, Pcs
<1>5. CASE Run!Round
  <2>1. loop' = Run!Leaving \/ \E pc \in {"tick", "settle", "select"} : loop' = Run!Loop(pc)
    BY <1>5 DEF Run!Round
  <2>2. loop' \in Loops /\ loop'.pc # "visit"
    BY <2>1, LoopType, LeavingType DEF Pcs
  <2>3. QED
    BY <1>5, <2>2 DEF Run!Round
<1>6. CASE Run!Settle
  <2>1. loop' \in Loops /\ loop'.pc = "tick"
    BY <1>6, LoopType DEF Run!Settle, Loops, Pcs
  <2>2. QED
    BY <1>6, <2>1 DEF Run!Settle
<1>7. CASE Run!Select
  <2>1. loop' \in Loops /\ loop'.pc # "visit"
    BY <1>7, LoopType DEF Run!Select, Pcs
  <2>2. QED
    BY <1>7, <2>1 DEF Run!Select
<1>8. CASE Run!Drain
  <2>1. loop' \in Loops /\ loop'.pc # "visit"
    BY <1>8, LoopType DEF Run!Drain, Pcs
  <2>2. QED
    BY <1>8, <2>1 DEF Run!Drain
<1>9. ASSUME NEW j \in Run!Jobs, Run!Visit(j) PROVE LoopTyped' /\ LoopPlaced'
  <2>0. Run!Visiting(j) /\ loop.pc = "visit" /\ loop.job = j
    BY <1>9 DEF Run!Visit, Run!SkipDone, Run!SkipInFlight, Run!SkipWaiting, Run!MoveAway, Run!PutToWork,
                Run!Dispatch, Run!CapReached, Run!Visitable, Run!Visiting
  <2> DEFINE Moved == /\ loop' \in Loops /\ listed' \in [Run!Jobs -> Run!Rows]
                      /\ loop'.pc = "visit" => loop'.job \in Run!Jobs
  <2>1. \A d, p \in BOOLEAN : Run!Past(d, p) => Moved
    BY <2>0, PastType
  <2>2. CASE Run!SkipDone(j) \/ Run!SkipInFlight(j) \/ Run!SkipWaiting(j) \/ Run!CapReached(j)
    <3>1. \E d, p \in BOOLEAN : Run!Past(d, p)
      BY <2>2 DEF Run!SkipDone, Run!SkipInFlight, Run!SkipWaiting, Run!CapReached
    <3>2. UNCHANGED <<row, inFlight, slot, stopping, starts>>
      BY <2>2 DEF Run!SkipDone, Run!SkipInFlight, Run!SkipWaiting, Run!CapReached
    <3>3. QED
      BY <2>1, <3>1, <3>2
  <2>3. CASE Run!MoveAway(j)
    <3>1. PICK new \in Run!Writes(listed[j]) : row' = [row EXCEPT ![j] = new]
      BY <2>3 DEF Run!MoveAway
    <3>2. new \in Run!Rows
      BY <3>1, WritesType
    <3>3. Moved /\ UNCHANGED <<inFlight, slot, stopping, starts>>
      BY <2>1, <2>3 DEF Run!MoveAway
    <3>4. QED
      BY <3>1, <3>2, <3>3
  <2>4. CASE Run!PutToWork(j)
    <3>1. PICK new \in Run!Writes(listed[j]) :
            /\ row' = [row EXCEPT ![j] = new]
            /\ listed' = [listed EXCEPT ![j] = new]
      BY <2>4 DEF Run!PutToWork
    <3>2. new \in Run!Rows
      BY <3>1, WritesType
    <3>3. UNCHANGED <<loop, inFlight, slot, stopping, starts>>
      BY <2>4 DEF Run!PutToWork
    <3>4. QED
      BY <3>1, <3>2, <3>3
  <2>5. CASE Run!Dispatch(j)
    <3>1. PICK k \in Run!Slots :
            /\ Run!Free(k)
            /\ slot' = [slot EXCEPT ![k] = [pc |-> "step", job |-> j, copy |-> listed[j]]]
      BY <2>5 DEF Run!Dispatch, Run!FirstFree
    <3>2. [pc |-> "step", job |-> j, copy |-> listed[j]] \in SlotStates
      BY NumJobsAssumption DEF SlotStates, Run!Jobs
    <3>3. Moved /\ inFlight' = inFlight \cup {j}
            /\ UNCHANGED <<row, stopping, starts>>
      BY <2>1, <2>5 DEF Run!Dispatch
    <3>4. LoopTyped'
      BY <3>1, <3>2, <3>3
    <3>5. ASSUME NEW i \in inFlight'
          PROVE  \E s \in Run!Slots : slot'[s].job = i /\ slot'[s].pc \in {"step", "unmark"}
      <4>1. CASE i = j
        BY <3>1, <4>1
      <4>2. CASE i \in inFlight
        <5>1. PICK s \in Run!Slots : slot[s].job = i /\ slot[s].pc \in {"step", "unmark"}
          BY <4>2
        <5>2. s # k
          BY <3>1, <5>1 DEF Run!Free
        <5>3. QED
          BY <3>1, <5>1, <5>2
      <4>3. QED
        BY <3>3, <3>5, <4>1, <4>2
    <3>6. QED
      BY <3>3, <3>4, <3>5
  <2>6. QED
    BY <1>9, <2>2, <2>3, <2>4, <2>5 DEF Run!Visit
<1>10. ASSUME NEW k \in Run!Slots, Run!Goroutine(k) PROVE LoopTyped' /\ LoopPlaced'
  <2>1. CASE Run!StepEnds(k)
    <3>1. PICK new \in Run!Writes(slot[k].copy) : row' = [row EXCEPT ![slot[k].job] = new]
      BY <2>1 DEF Run!StepEnds
    <3>2. row' \in [Run!Jobs -> Run!Rows]
      BY <3>1, WritesType
    <3>3. slot' = [slot EXCEPT ![k].pc = "unmark", ![k].copy = Run!Gone]
            /\ UNCHANGED <<listed, loop, inFlight, stopping, starts>>
      BY <2>1 DEF Run!StepEnds
    <3>a. [slot[k] EXCEPT !.pc = "unmark", !.copy = Run!Gone] \in SlotStates
      <4>1. slot[k] \in SlotStates
        OBVIOUS
      <4>2. QED
        BY <4>1, GoneType DEF SlotStates
    <3>b. slot' = [slot EXCEPT ![k] = [slot[k] EXCEPT !.pc = "unmark", !.copy = Run!Gone]]
      BY <3>3
    <3>4. LoopTyped'
      BY <3>2, <3>3, <3>a, <3>b
    <3>5. QED
      BY <2>1, <3>3, <3>4 DEF Run!StepEnds, SlotStates
  <2>2. CASE Run!Unmark(k)
    <3>1. /\ slot' = [slot EXCEPT ![k].pc = "return"]
          /\ inFlight' = inFlight \ {slot[k].job}
          /\ UNCHANGED <<row, listed, loop, stopping, starts>>
      BY <2>2 DEF Run!Unmark
    <3>2. LoopTyped'
      BY <3>1 DEF SlotStates
    <3>3. ASSUME NEW i \in inFlight'
          PROVE  \E s \in Run!Slots : slot'[s].job = i /\ slot'[s].pc \in {"step", "unmark"}
      <4>1. PICK s \in Run!Slots : slot[s].job = i /\ slot[s].pc \in {"step", "unmark"}
        BY <3>1, <3>3
      <4>2. s # k
        BY <3>1, <3>3, <4>1
      <4>3. QED
        BY <3>1, <4>1, <4>2
    <3>4. QED
      BY <3>1, <3>2, <3>3
  <2>3. CASE Run!Return(k)
    <3>1. /\ slot[k].pc = "return"
          /\ slot' = [slot EXCEPT ![k] = Run!Empty]
          /\ UNCHANGED <<row, listed, loop, inFlight, stopping, starts>>
      BY <2>3 DEF Run!Return
    <3>2. QED
      BY <3>1, EmptyType
  <2>4. QED
    BY <1>10, <2>1, <2>2, <2>3 DEF Run!Goroutine
<1>11. CASE UNCHANGED Run!vars
  BY <1>11 DEF Run!vars
<1>12. QED
  BY <1>1, <1>2, <1>3, <1>4, <1>5, <1>6, <1>7, <1>8, <1>9, <1>10, <1>11
  DEF Run!Next, Run!Engine, Run!Off

(***************************************************************************)
(* The loop, the maps and the slots have their types, and a job in flight  *)
(* has the slot its step runs in.                                          *)
(***************************************************************************)
THEOREM LoopTypeCorrect == Run!Spec => []Run!TypeOK
  BY LoopTypeInit, LoopTypeStep, PTL DEF Run!Spec

-----------------------------------------------------------------------------
(***************************************************************************)
(* No step is at work at the start.                                        *)
(***************************************************************************)
LEMMA SlotInit == Run!Init => SlotInv
  BY DEF Run!Init, SlotInv, Busy, Run!Empty

(***************************************************************************)
(* A step is started only for a job that is not in flight; a job leaves    *)
(* inFlight after its step's last write; Run returns after both.           *)
(***************************************************************************)
LEMMA SlotStep == Run!TypeOK /\ SlotInv /\ [Run!Next]_Run!vars => SlotInv'
<1> SUFFICES ASSUME LoopTyped, SlotInv, [Run!Next]_Run!vars PROVE SlotInv'
  BY LoopTypeParts
<1> USE DEF SlotInv
<1>1. CASE Run!Start \/ Run!Settle \/ Run!Drain
  <2>1. slot' = slot /\ \A k \in Run!Slots : ~Busy(k)
    BY <1>1 DEF Run!Start, Run!Settle, Run!Drain, Run!NoStep, Run!Free, Busy
  <2>2. QED
    BY <2>1 DEF Busy
<1>2. CASE Run!Round
  <2>1. UNCHANGED <<slot, inFlight>>
    BY <1>2 DEF Run!Round
  <2>2. CASE loop.again /\ Run!Quiet
    <3>1. \A k \in Run!Slots : ~Busy(k)
      BY <2>2 DEF Run!Quiet
    <3>2. QED
      BY <2>1, <3>1 DEF Busy
  <2>3. CASE ~(loop.again /\ Run!Quiet)
    <3>1. \E pc \in {"tick", "settle", "select"} : loop' = Run!Loop(pc)
      BY <1>2, <2>3 DEF Run!Round
    <3>2. loop'.pc # "off"
      BY <3>1 DEF Run!Loop
    <3>3. QED
      BY <2>1, <3>2 DEF Busy
  <2>4. QED
    BY <2>2, <2>3
<1>3. CASE Run!Stop \/ Run!List \/ Run!ListFails \/ Run!Select
  <2>1. UNCHANGED <<slot, inFlight>>
    BY <1>3 DEF Run!Stop, Run!List, Run!ListFails, Run!Select
  <2>2. loop'.pc = "off" => loop.pc = "off"
    <3>1. CASE Run!Select
      <4>1. loop' = Run!Loop("tick") \/ loop' = Run!Loop("drain")
        BY <3>1 DEF Run!Select
      <4>2. QED
        BY <4>1 DEF Run!Loop
    <3>2. CASE ~Run!Select
      BY <1>3, <3>2 DEF Run!Stop, Run!List, Run!ListFails, LoopTyped, Loops
    <3>3. QED
      BY <3>1, <3>2
  <2>3. QED
    BY <2>1, <2>2 DEF Busy
<1>4. ASSUME NEW j \in Run!Jobs, Run!Visit(j) PROVE SlotInv'
  <2>1. loop.pc = "visit" /\ loop.job = j
    BY <1>4 DEF Run!Visit, Run!SkipDone, Run!SkipInFlight, Run!SkipWaiting, Run!MoveAway, Run!PutToWork,
                Run!Dispatch, Run!CapReached, Run!Visitable, Run!Visiting
  <2>2. loop'.pc # "off"
    <3>1. (\E d, p \in BOOLEAN : Run!Past(d, p)) \/ loop' = loop
      BY <1>4 DEF Run!Visit, Run!SkipDone, Run!SkipInFlight, Run!SkipWaiting, Run!MoveAway, Run!PutToWork,
                  Run!Dispatch, Run!CapReached
    <3>2. QED
      BY <2>1, <3>1, PastType DEF LoopTyped
  <2>3. CASE Run!Dispatch(j)
    <3>1. PICK k \in Run!Slots :
            /\ Run!Free(k)
            /\ slot' = [slot EXCEPT ![k] = [pc |-> "step", job |-> j, copy |-> listed[j]]]
      BY <2>3 DEF Run!Dispatch, Run!FirstFree
    <3>2. j \notin inFlight /\ inFlight' = inFlight \cup {j}
      BY <2>3 DEF Run!Dispatch, Run!Visitable
    <3>3. /\ slot'[k].job = j
          /\ \A i \in Run!Slots \ {k} : slot'[i] = slot[i]
      BY <3>1 DEF LoopTyped
    <3>4. QED
      BY <2>2, <3>2, <3>3 DEF Busy
  <2>4. CASE ~Run!Dispatch(j)
    <3>1. UNCHANGED <<slot, inFlight>>
      BY <1>4, <2>4 DEF Run!Visit, Run!SkipDone, Run!SkipInFlight, Run!SkipWaiting, Run!MoveAway,
                        Run!PutToWork, Run!CapReached
    <3>2. QED
      BY <2>2, <3>1 DEF Busy
  <2>5. QED
    BY <2>3, <2>4
<1>5. ASSUME NEW k \in Run!Slots, Run!Goroutine(k) PROVE SlotInv'
  <2>1. loop' = loop
    BY <1>5 DEF Run!Goroutine, Run!StepEnds, Run!Unmark, Run!Return
  <2>2. \A i \in Run!Slots \ {k} : slot'[i] = slot[i]
    BY <1>5 DEF Run!Goroutine, Run!StepEnds, Run!Unmark, Run!Return, LoopTyped
  <2>3. CASE Run!StepEnds(k)
    <3>1. /\ Busy(k) /\ slot'[k].job = slot[k].job
          /\ inFlight' = inFlight
      BY <2>3 DEF Run!StepEnds, Busy, LoopTyped, SlotStates
    <3>2. QED
      BY <2>1, <2>2, <3>1 DEF Busy
  <2>4. CASE Run!Unmark(k)
    <3>1. /\ Busy(k) /\ slot'[k].pc = "return"
          /\ inFlight' = inFlight \ {slot[k].job}
      BY <2>4 DEF Run!Unmark, Busy, LoopTyped, SlotStates
    <3>2. QED
      BY <2>1, <2>2, <3>1 DEF Busy
  <2>5. CASE Run!Return(k)
    <3>1. slot'[k].pc = "free" /\ inFlight' = inFlight
      BY <2>5, EmptyType DEF Run!Return, LoopTyped
    <3>2. QED
      BY <2>1, <2>2, <3>1 DEF Busy
  <2>6. QED
    BY <1>5, <2>3, <2>4, <2>5 DEF Run!Goroutine
<1>6. CASE UNCHANGED Run!vars
  BY <1>6 DEF Run!vars, Busy
<1>7. QED
  BY <1>1, <1>2, <1>3, <1>4, <1>5, <1>6 DEF Run!Next, Run!Engine, Run!Off

(***************************************************************************)
(* The slots and inFlight agree in every behaviour.                        *)
(***************************************************************************)
LEMMA SlotsHold == Run!Spec => []SlotInv
  BY LoopTypeCorrect, SlotInit, SlotStep, PTL DEF Run!Spec

(***************************************************************************)
(* No job ever has two steps at work.                                      *)
(***************************************************************************)
THEOREM OneStepPerJobHolds == Run!Spec => []OneStepPerJob
<1>1. SlotInv => OneStepPerJob
  BY DEF SlotInv, OneStepPerJob, Busy, Running, Slots, Run!Slots
<1>2. QED
  BY <1>1, SlotsHold, PTL

(***************************************************************************)
(* When Run has returned, no step is at work.                              *)
(***************************************************************************)
THEOREM OffIsIdleHolds == Run!Spec => []OffIsIdle
<1>1. SlotInv => OffIsIdle
  BY DEF SlotInv, OffIsIdle, Busy, Running, Slots, Run!Slots
<1>2. QED
  BY <1>1, SlotsHold, PTL

-----------------------------------------------------------------------------
(* What `run --once' leaves behind. *)

NoneBusy == \A k \in Run!Slots : ~Busy(k)

AtWork(j) == row[j].state = "work"

\* The last look of --once, as long as it starts nothing: no step is left that
\* could write a row, so the copies still to be visited are the rows, and none
\* of the visited ones is at work.
LastLook ==
  loop.again /\ ~loop.dispatched =>
    /\ NoneBusy
    /\ loop.pc \in {"tick", "visit", "round"}
    /\ loop.pc = "visit" =>
         \A j \in Run!Jobs : \/ j >= loop.job /\ row[j] = listed[j]
                             \/ j < loop.job /\ (~loop.pending => ~AtWork(j))
    /\ loop.pc = "round" /\ ~loop.pending /\ ~loop.blind => \A j \in Run!Jobs : ~AtWork(j)

\* An engine that has returned without Ctrl-C has had that look.
Left ==
  /\ loop.pc = "drain" => stopping
  /\ loop.pc = "off" /\ starts > 0 /\ ~stopping =>
       loop.blind \/ \A j \in Run!Jobs : ~AtWork(j)

DrainInv == LastLook /\ Left

(***************************************************************************)
(* What the fresh loop records say.                                        *)
(***************************************************************************)
LEMMA LoopFields ==
  ASSUME NEW pc
  PROVE  /\ Run!Loop(pc).pc = pc /\ ~Run!Loop(pc).again /\ ~Run!Loop(pc).dispatched
         /\ ~Run!Loop(pc).pending /\ ~Run!Loop(pc).blind
BY DEF Run!Loop

(***************************************************************************)
(* How the tick moves on.                                                  *)
(***************************************************************************)
LEMMA PastFields ==
  ASSUME loop \in Loops, loop.pc = "visit", loop.job \in Run!Jobs,
         NEW d \in BOOLEAN, NEW p \in BOOLEAN, Run!Past(d, p)
  PROVE  /\ loop'.again = loop.again /\ loop'.blind = loop.blind
         /\ loop'.dispatched = (loop.dispatched \/ d)
         /\ loop'.pending = (loop.pending \/ p)
         /\ loop.job = NumJobs => loop'.pc = "round"
         /\ loop.job # NumJobs => loop'.pc = "visit" /\ loop'.job = loop.job + 1
         /\ \A j \in Run!Jobs : j # loop.job /\ listed \in [Run!Jobs -> Run!Rows] => listed'[j] = listed[j]
<1> DEFINE dd == loop.dispatched \/ d
           pp == loop.pending \/ p
<1>1. dd \in BOOLEAN /\ pp \in BOOLEAN
  OBVIOUS
<1>2. loop' = [loop EXCEPT !.dispatched = dd, !.pending = pp,
                           !.pc = IF @ = "visit" /\ loop.job = NumJobs THEN "round" ELSE @,
                           !.job = IF @ = NumJobs THEN 0 ELSE @ + 1]
  BY DEF Run!Past
<1>3. \A j \in Run!Jobs : j # loop.job /\ listed \in [Run!Jobs -> Run!Rows] => listed'[j] = listed[j]
  BY DEF Run!Past
<1> HIDE DEF dd, pp
<1>4. /\ loop'.again = loop.again /\ loop'.blind = loop.blind
      /\ loop'.dispatched = dd /\ loop'.pending = pp
      /\ loop.job = NumJobs => loop'.pc = "round"
      /\ loop.job # NumJobs => loop'.pc = "visit" /\ loop'.job = loop.job + 1
  BY <1>2 DEF Loops
<1>5. QED
  BY <1>3, <1>4 DEF dd, pp

(***************************************************************************)
(* No engine has run yet.                                                  *)
(***************************************************************************)
LEMMA DrainInit == Run!Init => DrainInv
BY LoopFields DEF Run!Init, DrainInv, LastLook, Left

(***************************************************************************)
(* A visit that starts no step of the last look leaves the rows before it  *)
(* at rest and the copies after it as they were read.                      *)
(***************************************************************************)
LEMMA VisitLooks ==
  ASSUME LoopTyped, LastLook, NEW j \in Run!Jobs, Run!Visit(j)
  PROVE  LastLook'
<1>1. loop.pc = "visit" /\ loop.job = j
  BY DEF Run!Visit, Run!SkipDone, Run!SkipInFlight, Run!SkipWaiting, Run!MoveAway, Run!PutToWork,
         Run!Dispatch, Run!CapReached, Run!Visitable, Run!Visiting
<1>2. loop \in Loops /\ listed \in [Run!Jobs -> Run!Rows] /\ row \in [Run!Jobs -> Run!Rows]
  BY DEF LoopTyped
<1>3. CASE Run!PutToWork(j)
  <2>1. /\ UNCHANGED <<loop, slot>> /\ row'[j] = listed'[j]
        /\ \A i \in Run!Jobs \ {j} : row'[i] = row[i] /\ listed'[i] = listed[i]
    BY <1>2, <1>3 DEF Run!PutToWork
  <2>2. \A i \in Run!Jobs : i < j => i # j
    BY DEF Run!Jobs
  <2>3. j >= loop.job
    BY <1>1 DEF Run!Jobs
  <2>4. QED
    BY <1>1, <2>1, <2>2, <2>3 DEF LastLook, NoneBusy, Busy, AtWork
<1>4. CASE Run!Dispatch(j)
  <2>1. Run!Past(TRUE, TRUE)
    BY <1>4 DEF Run!Dispatch
  <2>2. loop'.dispatched
    BY <1>1, <1>2, <2>1, PastFields
  <2>3. QED
    BY <2>2 DEF LastLook
<1>5. CASE ~Run!PutToWork(j) /\ ~Run!Dispatch(j)
  <2>1. PICK p \in BOOLEAN :
          /\ Run!Past(FALSE, p) /\ UNCHANGED slot
          /\ \A i \in Run!Jobs \ {j} : row'[i] = row[i]
          /\ p \/ row'[j].state # "work" \/ (row'[j] = row[j] /\ listed[j].state # "work")
    <3>1. CASE Run!SkipDone(j) \/ Run!SkipWaiting(j)
      BY <3>1 DEF Run!SkipDone, Run!SkipWaiting, Run!Visitable
    <3>2. CASE Run!SkipInFlight(j) \/ Run!CapReached(j)
      BY <3>2 DEF Run!SkipInFlight, Run!CapReached
    <3>3. CASE Run!MoveAway(j)
      <4>1. PICK new \in Run!Writes(listed[j]) : new.state # "work" /\ row' = [row EXCEPT ![j] = new]
        BY <3>3 DEF Run!MoveAway
      <4>2. Run!Past(FALSE, FALSE) /\ UNCHANGED slot
        BY <3>3 DEF Run!MoveAway
      <4>3. row'[j].state # "work" /\ \A i \in Run!Jobs \ {j} : row'[i] = row[i]
        BY <1>2, <4>1
      <4>4. QED
        BY <4>2, <4>3
    <3>4. QED
      BY <1>5, <3>1, <3>2, <3>3 DEF Run!Visit
  <2>2. /\ loop'.again = loop.again /\ loop'.blind = loop.blind
        /\ loop'.dispatched = (loop.dispatched \/ FALSE)
        /\ loop'.pending = (loop.pending \/ p)
        /\ loop.job = NumJobs => loop'.pc = "round"
        /\ loop.job # NumJobs => loop'.pc = "visit" /\ loop'.job = loop.job + 1
        /\ \A i \in Run!Jobs : i # loop.job => listed'[i] = listed[i]
    BY <1>1, <1>2, <2>1, PastFields
  <2>3. SUFFICES ASSUME loop'.again, ~loop'.dispatched PROVE LastLook'
    BY DEF LastLook
  <2>4. /\ NoneBusy
        /\ \A i \in Run!Jobs : \/ i >= j /\ row[i] = listed[i]
                               \/ i < j /\ (~loop.pending => ~AtWork(i))
    BY <1>1, <2>2, <2>3 DEF LastLook
  <2>5. NoneBusy'
    BY <2>1, <2>4 DEF NoneBusy, Busy
  <2>6. ~loop'.pending => row'[j].state # "work"
    <3>1. row[j] = listed[j]
      BY <2>4 DEF Run!Jobs
    <3>2. QED
      BY <2>1, <2>2, <3>1
  <2>7. \A i \in Run!Jobs : i < j /\ ~loop'.pending => row'[i].state # "work"
    <3>1. \A i \in Run!Jobs : i < j => i # j /\ ~(i >= j)
      BY DEF Run!Jobs
    <3>2. ~loop'.pending => ~loop.pending
      BY <2>2
    <3>3. \A i \in Run!Jobs : i < j /\ ~loop.pending => row[i].state # "work"
      BY <2>4, <3>1 DEF AtWork
    <3>4. QED
      BY <2>1, <3>1, <3>2, <3>3
  <2>8. \A i \in Run!Jobs : i > j => row'[i] = listed'[i]
    BY <1>1, <2>1, <2>2, <2>4 DEF Run!Jobs
  <2>9. CASE j = NumJobs
    <3>1. \A i \in Run!Jobs : i = j \/ i < j
      BY <2>9, NumJobsAssumption DEF Run!Jobs
    <3>2. QED
      BY <1>1, <2>2, <2>5, <2>6, <2>7, <2>9, <3>1 DEF LastLook, AtWork
  <2>10. CASE j # NumJobs
    <3>1. \A i \in Run!Jobs : \/ i >= j + 1 /\ i > j
                              \/ i < j + 1 /\ (i = j \/ i < j)
      BY DEF Run!Jobs
    <3>2. loop'.pc = "visit" /\ loop'.job = j + 1
      BY <1>1, <2>2, <2>10
    <3>3. QED
      BY <2>5, <2>6, <2>7, <2>8, <3>1, <3>2 DEF LastLook, AtWork
  <2>11. QED
    BY <2>9, <2>10
<1>6. QED
  BY <1>3, <1>4, <1>5

(***************************************************************************)
(* Only a quiet last look, or Ctrl-C, ends Run.                            *)
(***************************************************************************)
LEMMA DrainStep == Run!TypeOK /\ SlotInv /\ DrainInv /\ [Run!Next]_Run!vars => DrainInv'
<1> SUFFICES ASSUME LoopTyped, SlotInv, DrainInv, [Run!Next]_Run!vars PROVE DrainInv'
  BY LoopTypeParts
<1>0. /\ loop \in Loops /\ stopping \in BOOLEAN /\ starts \in Nat
  BY BoundsAssumption DEF LoopTyped
<1>1. CASE Run!Start \/ Run!Settle
  <2>1. /\ NoneBusy' /\ loop'.pc = "tick"
    <3>1. loop' = Run!Loop("tick") \/ loop' = [Run!Loop("tick") EXCEPT !.again = TRUE]
      BY <1>1 DEF Run!Start, Run!Settle
    <3>2. loop'.pc = "tick"
      BY <3>1 DEF Run!Loop
    <3>3. QED
      BY <1>1, <3>2 DEF Run!Start, Run!Settle, Run!NoStep, Run!Free, NoneBusy, Busy
  <2>2. QED
    BY <2>1 DEF DrainInv, LastLook, Left
<1>2. CASE Run!List
  <2>1. /\ listed' = row /\ UNCHANGED <<row, slot, stopping, starts>>
        /\ loop'.again = loop.again /\ loop'.dispatched = loop.dispatched
        /\ loop'.pc \in {"visit", "round"}
        /\ loop'.pc = "round" => NumJobs = 0
        /\ loop'.pc = "visit" => loop'.job = 1
    BY <1>0, <1>2 DEF Run!List, Loops
  <2>2. NumJobs = 0 => Run!Jobs = {}
    BY DEF Run!Jobs
  <2>3. \A j \in Run!Jobs : j >= 1
    BY DEF Run!Jobs
  <2>4. QED
    BY <2>1, <2>2, <2>3 DEF DrainInv, LastLook, Left, NoneBusy, Busy, AtWork
<1>3. CASE Run!ListFails
  <2>1. /\ UNCHANGED <<slot, stopping, starts>> /\ loop'.pc = "round" /\ loop'.blind
        /\ loop'.again = loop.again /\ loop'.dispatched = loop.dispatched
    BY <1>0, <1>3 DEF Run!ListFails, Loops
  <2>2. QED
    BY <2>1 DEF DrainInv, LastLook, Left, NoneBusy, Busy
<1>4. CASE Run!Round
  <2>1. UNCHANGED <<row, slot, stopping, starts>> /\ loop.pc = "round"
    BY <1>4 DEF Run!Round
  <2>2. CASE loop.again /\ Run!Quiet
    <3>1. loop' = Run!Leaving
      BY <1>4, <2>2 DEF Run!Round
    <3>2. loop'.blind = loop.blind /\ loop'.pc = "off" /\ ~loop'.again
      BY <3>1 DEF Run!Leaving, Run!Loop
    <3>3. loop.blind \/ \A j \in Run!Jobs : ~AtWork(j)
      BY <2>1, <2>2 DEF DrainInv, LastLook, Run!Quiet
    <3>4. QED
      BY <2>1, <3>2, <3>3 DEF DrainInv, LastLook, Left, AtWork
  <2>3. CASE ~(loop.again /\ Run!Quiet)
    <3>1. \E pc \in {"tick", "settle", "select"} : loop' = Run!Loop(pc)
      BY <1>4, <2>3 DEF Run!Round
    <3>2. loop'.pc \in {"tick", "settle", "select"} /\ ~loop'.again
      BY <3>1, LoopFields
    <3>3. QED
      BY <3>2 DEF DrainInv, LastLook, Left
  <2>4. QED
    BY <2>2, <2>3
<1>5. CASE Run!Select
  <2>1. loop' = Run!Loop("tick") \/ (stopping /\ loop' = Run!Loop("drain"))
    BY <1>5 DEF Run!Select
  <2>2. UNCHANGED <<stopping, starts>>
    BY <1>5 DEF Run!Select
  <2>3. QED
    BY <2>1, <2>2, LoopFields DEF DrainInv, LastLook, Left
<1>6. CASE Run!Drain
  <2>1. loop' = Run!Loop("off") /\ stopping' = stopping /\ stopping
    BY <1>6 DEF Run!Drain, DrainInv, Left
  <2>2. QED
    BY <2>1, LoopFields DEF DrainInv, LastLook, Left
<1>7. CASE Run!Stop
  BY <1>7 DEF Run!Stop, DrainInv, LastLook, Left, NoneBusy, Busy, AtWork
<1>8. ASSUME NEW j \in Run!Jobs, Run!Visit(j) PROVE DrainInv'
  <2>1. LastLook'
    BY <1>8, VisitLooks DEF DrainInv
  <2>2. loop.pc = "visit" /\ loop.job = j
    BY <1>8 DEF Run!Visit, Run!SkipDone, Run!SkipInFlight, Run!SkipWaiting, Run!MoveAway, Run!PutToWork,
                Run!Dispatch, Run!CapReached, Run!Visitable, Run!Visiting
  <2>3. (\E d, p \in BOOLEAN : Run!Past(d, p)) \/ loop' = loop
    BY <1>8 DEF Run!Visit, Run!SkipDone, Run!SkipInFlight, Run!SkipWaiting, Run!MoveAway, Run!PutToWork,
                Run!Dispatch, Run!CapReached
  <2>4. loop'.pc \in {"visit", "round"}
    BY <1>0, <2>2, <2>3, PastType
  <2>5. QED
    BY <2>1, <2>4 DEF DrainInv, Left
<1>9. ASSUME NEW k \in Run!Slots, Run!Goroutine(k) PROVE DrainInv'
  <2>1. UNCHANGED <<loop, listed, stopping, starts>>
    BY <1>9 DEF Run!Goroutine, Run!StepEnds, Run!Unmark, Run!Return
  <2>2. CASE Run!StepEnds(k)
    <3>1. Busy(k)
      BY <2>2 DEF Run!StepEnds, Busy
    <3>2. ~NoneBusy /\ loop.pc # "off"
      BY <3>1 DEF NoneBusy, SlotInv
    <3>3. QED
      BY <2>1, <3>2 DEF DrainInv, LastLook, Left
  <2>3. CASE Run!Unmark(k) \/ Run!Return(k)
    <3>1. row' = row /\ \A i \in Run!Slots \ {k} : slot'[i] = slot[i]
      BY <2>3 DEF Run!Unmark, Run!Return, LoopTyped
    <3>2. slot'[k].pc \in {"return", "free"}
      BY <2>3, EmptyType DEF Run!Unmark, Run!Return, LoopTyped, SlotStates
    <3>3. NoneBusy => NoneBusy'
      BY <3>1, <3>2 DEF NoneBusy, Busy
    <3>4. QED
      BY <2>1, <3>1, <3>3 DEF DrainInv, LastLook, Left, AtWork
  <2>4. QED
    BY <1>9, <2>2, <2>3 DEF Run!Goroutine
<1>10. CASE UNCHANGED Run!vars
  BY <1>10 DEF Run!vars, DrainInv, LastLook, Left, NoneBusy, Busy, AtWork
<1>11. QED
  BY <1>1, <1>2, <1>3, <1>4, <1>5, <1>6, <1>7, <1>8, <1>9, <1>10 DEF Run!Next, Run!Engine, Run!Off

(***************************************************************************)
(* `run --once' leaves no job behind that could go on, however many jobs,  *)
(* slots and starts there are and whenever steps end.                      *)
(***************************************************************************)
THEOREM OnceDrainsHolds == Run!Spec => []OnceDrains
<1>1. DrainInv => OnceDrains
  BY DEF DrainInv, Left, OnceDrains, AtWork, Jobs, Run!Jobs
<1>2. QED
  BY <1>1, SlotsHold, LoopTypeCorrect, DrainInit, DrainStep, PTL DEF Run!Spec
=============================================================================
