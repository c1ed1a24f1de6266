----------------------------- MODULE Diff_proofs -----------------------------
(***************************************************************************)
(* The diff page, for every change, in any number of files, hunks and      *)
(* lines, with honest and lying hunk headers, captured whole or cut short  *)
(* anywhere, and for every budget: the side-by-side view shows what the    *)
(* unified view shows, and the page accounts for the whole patch.          *)
(* After these theorems come the lemmas about a patch as a walk through    *)
(* the places of its change, which Patches_proofs builds on.               *)
(***************************************************************************)
EXTENDS Diff, SequenceTheorems, WellFoundedInduction, FiniteSetTheorems, TLAPS

-----------------------------------------------------------------------------
(***************************************************************************)
(* Flattening: FlattenSeq is a recursive function of the library, so that  *)
(* what is needed of it is shown by induction over sets.                   *)
(***************************************************************************)

(***************************************************************************)
(* Induction on the natural numbers, over a set: the numbers outside of T  *)
(* would have a least one, and that one is neither 0 nor a successor of    *)
(* one in T.                                                               *)
(***************************************************************************)
LEMMA NatSets ==
  ASSUME NEW T, 0 \in T, \A n \in Nat : n \in T => n + 1 \in T
  PROVE  \A n \in Nat : n \in T
<1> DEFINE R == OpToRel(<, Nat)
           B == {n \in Nat : n \notin T}
<1>1. IsWellFoundedOn(R, Nat)
  BY NatLessThanWellFounded
<1>2. ASSUME B # {} PROVE FALSE
  <2>1. PICK x \in B : \A y \in B : ~(<<y, x>> \in R)
    <3> HIDE DEF R
    <3> QED BY <1>1, <1>2, WFMin
  <2>2. x # 0 /\ x \in Nat
    OBVIOUS
  <2>3. x - 1 \in Nat /\ x - 1 < x
    BY <2>2
  <2>4. x - 1 \in B
    BY <2>2, <2>3
  <2>5. <<x - 1, x>> \in R
    BY <2>2, <2>3 DEF OpToRel
  <2>6. QED
    BY <2>1, <2>4, <2>5
<1>3. QED
  BY <1>2

(***************************************************************************)
(* A set of natural numbers that is not empty has a least one.             *)
(***************************************************************************)
LEMMA LeastOf ==
  ASSUME NEW S \in SUBSET Nat, S # {}
  PROVE  \E x \in S : \A y \in S : x <= y
<1> DEFINE R == OpToRel(<, Nat)
<1>1. IsWellFoundedOn(R, Nat)
  BY NatLessThanWellFounded
<1>2. PICK x \in S : \A y \in S : ~(<<y, x>> \in R)
  <2> HIDE DEF R
  <2> QED BY <1>1, WFMin
<1>3. ASSUME NEW y \in S PROVE x <= y
  <2>1. ~(<<y, x>> \in R)
    BY <1>2
  <2>2. ~(y < x)
    BY <2>1 DEF OpToRel
  <2>3. QED
    BY <2>2
<1>4. QED
  BY <1>3

(***************************************************************************)
(* Concatenation is associative.                                           *)
(***************************************************************************)
LEMMA CatAssociative == \A S : \A a, b, c \in Seq(S) : (a \o b) \o c = a \o (b \o c)
  BY ConcatAssociative

\* The recursion of FlattenSeq, up to n.
FlatTo(f, seqs, n) == [i \in 1..n |-> IF i = 1 THEN seqs[i] ELSE f[i - 1] \o seqs[i]]

(***************************************************************************)
(* The recursion by which the library defines FlattenSeq has a solution at *)
(* every length: the one for n items is continued by one more.             *)
(***************************************************************************)
LEMMA FlatExists ==
  ASSUME NEW S, NEW seqs \in Seq(Seq(S))
  PROVE  \A n \in Nat : n <= Len(seqs) => \E f : f \in [1..n -> Seq(S)] /\ f = FlatTo(f, seqs, n)
<1> DEFINE T == {n \in Nat : n <= Len(seqs) => \E f : f \in [1..n -> Seq(S)] /\ f = FlatTo(f, seqs, n)}
<1>1. 0 \in T
  <2>1. LET f == [i \in 1..0 |-> <<>>] IN f \in [1..0 -> Seq(S)] /\ f = FlatTo(f, seqs, 0)
    BY DEF FlatTo
  <2>2. QED
    BY <2>1
<1>2. ASSUME NEW n \in Nat, n \in T, n + 1 <= Len(seqs) PROVE n + 1 \in T
  <2>1. PICK f : f \in [1..n -> Seq(S)] /\ f = FlatTo(f, seqs, n)
    BY <1>2
  <2> DEFINE new == IF n = 0 THEN seqs[n + 1] ELSE f[n] \o seqs[n + 1]
             ext == [i \in 1..(n + 1) |-> IF i <= n THEN f[i] ELSE new]
  <2>2. new \in Seq(S)
    <3>1. seqs[n + 1] \in Seq(S)
      BY <1>2
    <3>2. n # 0 => f[n] \in Seq(S)
      BY <1>2, <2>1
    <3>3. QED
      BY <3>1, <3>2
  <2>3. ASSUME NEW i \in 1..(n + 1) PROVE ext[i] = IF i = 1 THEN seqs[i] ELSE ext[i - 1] \o seqs[i]
    <3> HIDE DEF new
    <3>1. CASE i <= n
      <4>1. FlatTo(f, seqs, n)[i] = IF i = 1 THEN seqs[i] ELSE f[i - 1] \o seqs[i]
        BY <3>1 DEF FlatTo
      <4>2. ext[i] = f[i] /\ (i # 1 => ext[i - 1] = f[i - 1])
        BY <3>1
      <4>3. QED
        BY <2>1, <4>1, <4>2
    <3>2. CASE i = n + 1
      <4>1. ext[i] = new /\ (i # 1 => ext[i - 1] = f[n])
        BY <3>2
      <4>2. QED
        BY <3>2, <4>1 DEF new
    <3>3. QED
      BY <3>1, <3>2
  <2>4. ext \in [1..(n + 1) -> Seq(S)]
    <3> HIDE DEF new
    <3> QED BY <2>1, <2>2
  <2>5. ext = FlatTo(ext, seqs, n + 1)
    <3> HIDE DEF ext
    <3> QED BY <2>3, <2>4 DEF FlatTo
  <2>6. QED
    <3> HIDE DEF ext
    <3> QED BY <2>4, <2>5
<1>3. \A n \in Nat : n \in T => n + 1 \in T
  <2> SUFFICES ASSUME NEW n \in Nat, n \in T PROVE n + 1 \in T
    OBVIOUS
  <2>1. CASE n + 1 <= Len(seqs)
    BY <1>2, <2>1
  <2>2. CASE ~(n + 1 <= Len(seqs))
    BY <2>2
  <2>3. QED
    BY <2>1, <2>2
<1>4. \A n \in Nat : n \in T
  <2> HIDE DEF T
  <2> QED BY <1>1, <1>3, NatSets
<1>5. QED
  BY <1>4

\* The first n items are the same.
Agree(s, t, n) == \A i \in 1..n : s[i] = t[i]

(***************************************************************************)
(* Two solutions of that recursion agree as far as the sequences they      *)
(* flatten do.                                                             *)
(***************************************************************************)
LEMMA FlatUnique ==
  ASSUME NEW s, NEW t, NEW m \in Nat, NEW n \in Nat, NEW f, NEW g,
         f = FlatTo(f, s, m), g = FlatTo(g, t, n), Agree(s, t, m), m <= n
  PROVE  Agree(f, g, m)
<1> USE DEF Agree
<1> DEFINE T == {k \in Nat : k \in 1..m => f[k] = g[k]}
<1>1. 0 \in T
  OBVIOUS
<1>2. ASSUME NEW k \in Nat, k \in T PROVE k + 1 \in T
  <2> SUFFICES ASSUME k + 1 \in 1..m PROVE f[k + 1] = g[k + 1]
    OBVIOUS
  <2>1. FlatTo(f, s, m)[k + 1] = IF k + 1 = 1 THEN s[k + 1] ELSE f[k] \o s[k + 1]
    BY DEF FlatTo
  <2>2. FlatTo(g, t, n)[k + 1] = IF k + 1 = 1 THEN t[k + 1] ELSE g[k] \o t[k + 1]
    BY DEF FlatTo
  <2>3. f[k + 1] = FlatTo(f, s, m)[k + 1] /\ g[k + 1] = FlatTo(g, t, n)[k + 1]
    OBVIOUS
  <2>4. QED
    BY <1>2, <2>1, <2>2, <2>3
<1>3. \A k \in Nat : k \in T
  <2> HIDE DEF T
  <2> QED BY <1>1, <1>2, NatSets
<1>4. QED
  BY <1>3

(***************************************************************************)
(* FlattenSeq is the last value of the solution.                           *)
(***************************************************************************)
LEMMA FlattenIs ==
  ASSUME NEW S, NEW seqs \in Seq(Seq(S)), seqs # <<>>
  PROVE  \E f : /\ f \in [1..Len(seqs) -> Seq(S)] /\ f = FlatTo(f, seqs, Len(seqs))
                /\ FlattenSeq(seqs) = f[Len(seqs)]
<1>0. Len(seqs) \in Nat /\ Len(seqs) # 0 /\ Len(seqs) <= Len(seqs)
  BY EmptySeq
<1> DEFINE flat == CHOOSE f : f = [i \in 1..Len(seqs) |-> IF i = 1 THEN seqs[i] ELSE f[i - 1] \o seqs[i]]
<1>1. \E f : f \in [1..Len(seqs) -> Seq(S)] /\ f = FlatTo(f, seqs, Len(seqs))
  <2>1. \A n \in Nat : n <= Len(seqs) => \E f : f \in [1..n -> Seq(S)] /\ f = FlatTo(f, seqs, n)
    BY FlatExists
  <2>2. QED
    BY <1>0, <2>1, Zenon
<1>2. flat = FlatTo(flat, seqs, Len(seqs))
  BY <1>1, Zenon DEF FlatTo
<1>3. FlattenSeq(seqs) = flat[Len(seqs)]
  BY <1>0 DEF FlattenSeq
<1> HIDE DEF flat
<1>4. PICK f : f \in [1..Len(seqs) -> Seq(S)] /\ f = FlatTo(f, seqs, Len(seqs))
  BY <1>1
<1>5. Agree(f, flat, Len(seqs))
  <2>1. Agree(seqs, seqs, Len(seqs))
    BY DEF Agree
  <2>2. QED
    BY <1>0, <1>4, <1>2, <2>1, FlatUnique
<1>6. f[Len(seqs)] = flat[Len(seqs)]
  BY <1>0, <1>5 DEF Agree
<1>7. QED
  BY <1>3, <1>4, <1>6

(***************************************************************************)
(* Nothing flattens to nothing.                                            *)
(***************************************************************************)
LEMMA FlattenEmpty == FlattenSeq(<<>>) = <<>>
  BY EmptySeq DEF FlattenSeq

(***************************************************************************)
(* What is flattened has the items of the parts.                           *)
(***************************************************************************)
LEMMA FlattenType ==
  ASSUME NEW S, NEW seqs \in Seq(Seq(S))
  PROVE  FlattenSeq(seqs) \in Seq(S)
<1>1. CASE seqs = <<>>
  BY <1>1, FlattenEmpty, EmptySeq
<1>2. CASE seqs # <<>>
  <2>1. PICK f : /\ f \in [1..Len(seqs) -> Seq(S)] /\ FlattenSeq(seqs) = f[Len(seqs)]
    BY <1>2, FlattenIs
  <2>2. Len(seqs) \in 1..Len(seqs)
    <3>1. Len(seqs) \in Nat \ {0}
      BY <1>2, EmptySeq
    <3>2. QED
      BY <3>1
  <2>3. QED
    BY <2>1, <2>2
<1>3. QED
  BY <1>1, <1>2

(***************************************************************************)
(* One more part is put at the end: a file more, a hunk more, a row more.  *)
(***************************************************************************)
LEMMA FlattenAppend ==
  ASSUME NEW S, NEW seqs \in Seq(Seq(S)), NEW more \in Seq(S)
  PROVE  FlattenSeq(Append(seqs, more)) = FlattenSeq(seqs) \o more
<1> DEFINE all == Append(seqs, more)
<1>0. /\ all \in Seq(Seq(S)) /\ all # <<>> /\ Len(all) = Len(seqs) + 1 /\ Len(seqs) \in Nat
      /\ all[Len(all)] = more /\ \A i \in 1..Len(seqs) : all[i] = seqs[i]
  BY AppendProperties, LenProperties
<1> HIDE DEF all
<1>1. PICK g : /\ g \in [1..Len(all) -> Seq(S)] /\ g = FlatTo(g, all, Len(all))
               /\ FlattenSeq(all) = g[Len(all)]
  BY <1>0, FlattenIs
<1>2. FlatTo(g, all, Len(all))[Len(all)] =
        IF Len(all) = 1 THEN all[Len(all)] ELSE g[Len(all) - 1] \o all[Len(all)]
  BY <1>0 DEF FlatTo
<1>3. g[Len(all)] = IF Len(seqs) = 0 THEN more ELSE g[Len(seqs)] \o more
  <2>1. g[Len(all)] = FlatTo(g, all, Len(all))[Len(all)]
    BY <1>1
  <2>2. Len(all) - 1 = Len(seqs) /\ (Len(all) = 1 <=> Len(seqs) = 0)
    BY <1>0
  <2>3. QED
    BY <1>0, <1>2, <2>1, <2>2, Zenon
<1>4. CASE seqs = <<>>
  <2>1. FlattenSeq(seqs) = <<>> /\ Len(seqs) = 0
    BY <1>4, FlattenEmpty, EmptySeq
  <2>2. <<>> \o more = more
    BY ConcatEmptySeq
  <2>3. FlattenSeq(all) = more
    BY <1>1, <1>3, <2>1
  <2>4. QED
    BY <2>1, <2>2, <2>3 DEF all
<1>5. CASE seqs # <<>>
  <2>1. PICK f : /\ f \in [1..Len(seqs) -> Seq(S)] /\ f = FlatTo(f, seqs, Len(seqs))
                 /\ FlattenSeq(seqs) = f[Len(seqs)]
    BY <1>5, FlattenIs
  <2>2. \A i \in 1..Len(seqs) : f[i] = g[i]
    <3>1. \A i \in 1..Len(seqs) : seqs[i] = all[i]
      BY <1>0
    <3>2. Len(seqs) <= Len(all) /\ Len(all) \in Nat
      BY <1>0
    <3>4. f = FlatTo(f, seqs, Len(seqs))
      BY <2>1
    <3>5. g = FlatTo(g, all, Len(all))
      BY <1>1
    <3>3. QED
      <4>1. Agree(seqs, all, Len(seqs))
        BY <3>1 DEF Agree
      <4>2. Agree(f, g, Len(seqs))
        BY ONLY <1>0, <3>2, <3>4, <3>5, <4>1, FlatUnique
      <4>3. QED
        BY <4>2 DEF Agree
  <2>3. Len(seqs) # 0 /\ Len(seqs) \in 1..Len(seqs)
    <3>1. Len(seqs) \in Nat \ {0}
      BY <1>5, EmptySeq
    <3>2. QED
      BY <3>1
  <2>4. FlattenSeq(all) = FlattenSeq(seqs) \o more
    BY <1>1, <1>3, <2>1, <2>2, <2>3
  <2>5. QED
    BY <2>4 DEF all
<1>6. QED
  BY <1>4, <1>5

(***************************************************************************)
(* A single part flattens to itself.                                       *)
(***************************************************************************)
LEMMA FlattenOne ==
  ASSUME NEW S, NEW s \in Seq(S)
  PROVE  FlattenSeq(<<s>>) = s
<1>1. <<>> \in Seq(Seq(S))
  BY EmptySeq
<1>2. Append(<<>>, s) = <<>> \o <<s>>
  BY <1>1, AppendIsConcat
<1>3. <<s>> \in Seq(Seq(S))
  OBVIOUS
<1>4. <<>> \o <<s>> = <<s>>
  BY <1>3, ConcatEmptySeq
<1>5. FlattenSeq(Append(<<>>, s)) = <<>> \o s
  BY <1>1, FlattenAppend, FlattenEmpty
<1>6. <<>> \o s = s
  BY ConcatEmptySeq
<1>7. QED
  BY <1>2, <1>4, <1>5, <1>6

(***************************************************************************)
(* What a sequence's first n items grow by.                                *)
(***************************************************************************)
LEMMA FrontGrows ==
  ASSUME NEW S, NEW s \in Seq(S), NEW n \in Nat, n + 1 <= Len(s)
  PROVE  /\ SubSeq(s, 1, n) \in Seq(S) /\ s[n + 1] \in S
         /\ SubSeq(s, 1, n + 1) = Append(SubSeq(s, 1, n), s[n + 1])
<1>1. Len(s) \in Nat /\ s \in [1..Len(s) -> S]
  BY LenProperties
<1>2. 1 \in 1..Len(s) /\ n + 1 \in 1..Len(s) /\ (n + 1) - 1 = n
  BY <1>1
<1>3. s[n + 1] \in S
  BY <1>1, <1>2
<1>4. SubSeq(s, 1, n) \in Seq(S)
  <2>1. \A i \in 1..n : s[i] \in S
    BY <1>1
  <2>2. QED
    BY <2>1, SubSeqProperties
<1>5. SubSeq(s, 1, n + 1) = SubSeq(s, 1, n) \o <<s[n + 1]>>
  BY <1>2, SubSeqRecursiveSecond
<1>6. Append(SubSeq(s, 1, n), s[n + 1]) = SubSeq(s, 1, n) \o <<s[n + 1]>>
  BY <1>3, <1>4, AppendIsConcat
<1>7. QED
  BY <1>3, <1>4, <1>5, <1>6

(***************************************************************************)
(* Flattening distributes over concatenation, by induction on the length   *)
(* of the second sequence.                                                 *)
(***************************************************************************)
LEMMA FlattenCat ==
  ASSUME NEW S, NEW s \in Seq(Seq(S)), NEW t \in Seq(Seq(S))
  PROVE  FlattenSeq(s \o t) = FlattenSeq(s) \o FlattenSeq(t)
<1> DEFINE P(n) == FlattenSeq(s \o SubSeq(t, 1, n)) = FlattenSeq(s) \o FlattenSeq(SubSeq(t, 1, n))
           T == {n \in Nat : n <= Len(t) => P(n)}
<1>0. FlattenSeq(s) \in Seq(S)
  BY FlattenType
<1>1. 0 \in T
  <2>1. SubSeq(t, 1, 0) = <<>>
    BY SubSeqEmpty
  <2>2. s \o <<>> = s /\ FlattenSeq(s) \o <<>> = FlattenSeq(s)
    BY <1>0, ConcatEmptySeq
  <2>3. QED
    BY <2>1, <2>2, FlattenEmpty
<1>2. ASSUME NEW n \in Nat, n \in T, n + 1 <= Len(t) PROVE n + 1 \in T
  <2> DEFINE front == SubSeq(t, 1, n)
  <2>0. Len(t) \in Nat /\ n <= Len(t)
    BY <1>2, LenProperties
  <2>1. front \in Seq(Seq(S)) /\ t[n + 1] \in Seq(S) /\ SubSeq(t, 1, n + 1) = Append(front, t[n + 1])
    BY <1>2, FrontGrows
  <2>6. FlattenSeq(s \o front) = FlattenSeq(s) \o FlattenSeq(front)
    BY <1>2, <2>0
  <2> HIDE DEF front
  <2>2. /\ Append(front, t[n + 1]) = front \o <<t[n + 1]>> /\ s \o front \in Seq(Seq(S)) /\ <<t[n + 1]>> \in Seq(Seq(S))
    BY <2>1, AppendIsConcat, ConcatProperties
  <2>3. s \o Append(front, t[n + 1]) = Append(s \o front, t[n + 1])
    <3>1. Append(s \o front, t[n + 1]) = (s \o front) \o <<t[n + 1]>>
      BY <2>1, <2>2, AppendIsConcat
    <3>2. (s \o front) \o <<t[n + 1]>> = s \o (front \o <<t[n + 1]>>)
      <4>1. \A a, b, c \in Seq(Seq(S)) : (a \o b) \o c = a \o (b \o c)
        <5> DEFINE U == Seq(S)
        <5> HIDE DEF U
        <5>1. \A a, b, c \in Seq(U) : (a \o b) \o c = a \o (b \o c)
          BY ONLY CatAssociative
        <5>2. QED
          BY <5>1 DEF U
      <4>2. front \in Seq(Seq(S)) /\ <<t[n + 1]>> \in Seq(Seq(S))
        BY <2>1, <2>2
      <4>3. QED
        BY <4>1, <4>2, Zenon
    <3>3. QED
      BY <2>2, <3>1, <3>2
  <2>4. FlattenSeq(s \o Append(front, t[n + 1])) = FlattenSeq(s \o front) \o t[n + 1]
    BY <2>1, <2>2, <2>3, FlattenAppend
  <2>5. FlattenSeq(Append(front, t[n + 1])) = FlattenSeq(front) \o t[n + 1]
    BY <2>1, FlattenAppend
  <2>7. FlattenSeq(front) \in Seq(S)
    BY <2>1, FlattenType
  <2>8. (FlattenSeq(s) \o FlattenSeq(front)) \o t[n + 1] = FlattenSeq(s) \o (FlattenSeq(front) \o t[n + 1])
    <3>1. \A a, b, c \in Seq(S) : (a \o b) \o c = a \o (b \o c)
      BY ONLY CatAssociative
    <3>2. t[n + 1] \in Seq(S)
      BY <2>1
    <3>3. QED
      BY <1>0, <2>7, <3>1, <3>2, Zenon
  <2>9. P(n + 1)
    BY <2>1, <2>4, <2>5, <2>6, <2>8
  <2>10. QED
    BY <2>9
<1>3. \A n \in Nat : n \in T
  <2>1. \A n \in Nat : n \in T => n + 1 \in T
    <3> SUFFICES ASSUME NEW n \in Nat, n \in T PROVE n + 1 \in T
      OBVIOUS
    <3>1. CASE n + 1 <= Len(t)
      BY <1>2, <3>1
    <3>2. CASE ~(n + 1 <= Len(t))
      BY <3>2
    <3>3. QED
      BY <3>1, <3>2
  <2> HIDE DEF T
  <2> QED BY <1>1, <2>1, NatSets
<1>4. P(Len(t))
  <2>1. Len(t) \in Nat /\ Len(t) <= Len(t)
    BY LenProperties
  <2>2. QED
    BY <1>3, <2>1
<1>5. SubSeq(t, 1, Len(t)) = t
  BY SubSeqFull
<1>6. QED
  BY <1>4, <1>5

-----------------------------------------------------------------------------
(* Concatenation, and maps to sequences. *)

(***************************************************************************)
(* A function on 1..n is a sequence of length n.                           *)
(***************************************************************************)
LEMMA FunctionIsSeq ==
  ASSUME NEW T, NEW n \in Nat, NEW f \in [1..n -> T]
  PROVE  f \in Seq(T) /\ Len(f) = n
<1>1. f \in Seq(T)
  BY SeqDef
<1>2. DOMAIN f = 1..Len(f) /\ Len(f) \in Nat
  BY <1>1, LenProperties
<1>3. QED
  BY <1>1, <1>2

\* u is s and then t.
Joins(u, s, t) == u = s \o t

(***************************************************************************)
(* The items of a concatenation, by their places.                          *)
(***************************************************************************)
LEMMA CatIs ==
  ASSUME NEW T, NEW s \in Seq(T), NEW t \in Seq(T)
  PROVE  /\ s \o t \in Seq(T) /\ Len(s \o t) = Len(s) + Len(t) /\ Len(s) \in Nat /\ Len(t) \in Nat
         /\ \A i \in 1..Len(s) : (s \o t)[i] = s[i]
         /\ \A i \in 1..Len(t) : (s \o t)[Len(s) + i] = t[i]
<1>1. Len(s) \in Nat /\ Len(t) \in Nat
  BY LenProperties
<1>2. /\ s \o t \in Seq(T) /\ Len(s \o t) = Len(s) + Len(t)
      /\ \A i \in 1..(Len(s) + Len(t)) : (s \o t)[i] = IF i <= Len(s) THEN s[i] ELSE t[i - Len(s)]
  BY ConcatProperties
<1>3. \A i \in 1..Len(s) : (s \o t)[i] = s[i]
  BY <1>1, <1>2
<1>4. ASSUME NEW i \in 1..Len(t) PROVE (s \o t)[Len(s) + i] = t[i]
  <2>1. Len(s) + i \in 1..(Len(s) + Len(t)) /\ ~(Len(s) + i <= Len(s)) /\ (Len(s) + i) - Len(s) = i
    BY <1>1
  <2>2. QED
    BY <1>2, <2>1
<1>5. QED
  BY <1>1, <1>2, <1>3, <1>4

(***************************************************************************)
(* A sequence that has the items of the one and then those of the other is *)
(* their concatenation.                                                    *)
(***************************************************************************)
LEMMA IsCat ==
  ASSUME NEW T, NEW s \in Seq(T), NEW t \in Seq(T), NEW u \in Seq(T), Len(u) = Len(s) + Len(t),
         \A i \in 1..Len(s) : u[i] = s[i], \A i \in 1..Len(t) : u[Len(s) + i] = t[i]
  PROVE  u = s \o t
<1>1. /\ s \o t \in Seq(T) /\ Len(s \o t) = Len(s) + Len(t) /\ Len(s) \in Nat /\ Len(t) \in Nat
      /\ \A i \in 1..Len(s) : (s \o t)[i] = s[i]
      /\ \A i \in 1..Len(t) : (s \o t)[Len(s) + i] = t[i]
  BY CatIs
<1>2. ASSUME NEW i \in 1..Len(u) PROVE u[i] = (s \o t)[i]
  <2>1. CASE i <= Len(s)
    BY <1>1, <2>1
  <2>2. CASE ~(i <= Len(s))
    <3>1. i - Len(s) \in 1..Len(t) /\ Len(s) + (i - Len(s)) = i
      BY <1>1, <2>2
    <3>2. u[Len(s) + (i - Len(s))] = (s \o t)[Len(s) + (i - Len(s))]
      BY <1>1, <3>1
    <3>3. QED
      BY <3>1, <3>2
  <2>3. QED
    BY <2>1, <2>2
<1>3. QED
  BY <1>1, <1>2, SeqEqual

(***************************************************************************)
(* CatIs, for a sequence that is known to be the concatenation.            *)
(***************************************************************************)
LEMMA JoinIs ==
  ASSUME NEW T, NEW s \in Seq(T), NEW t \in Seq(T), NEW u, Joins(u, s, t)
  PROVE  /\ u \in Seq(T) /\ Len(u) = Len(s) + Len(t) /\ Len(s) \in Nat /\ Len(t) \in Nat
         /\ \A i \in 1..Len(s) : u[i] = s[i]
         /\ \A i \in 1..Len(t) : u[Len(s) + i] = t[i]
  BY CatIs DEF Joins

(***************************************************************************)
(* IsCat, in the words of Joins.                                           *)
(***************************************************************************)
LEMMA JoinedBy ==
  ASSUME NEW T, NEW s \in Seq(T), NEW t \in Seq(T), NEW u \in Seq(T), Len(u) = Len(s) + Len(t),
         \A i \in 1..Len(s) : u[i] = s[i], \A i \in 1..Len(t) : u[Len(s) + i] = t[i]
  PROVE  Joins(u, s, t)
  BY IsCat DEF Joins

\* The maps from S to T, their images of a sequence, and the image flattened.
Maps(S, T)    == [S -> T]
Image(g, s)   == [i \in DOMAIN s |-> g[s[i]]]
FlatMap(g, s) == FlattenSeq(Image(g, s))

(***************************************************************************)
(* A map's image of a sequence is a sequence of the same length.           *)
(***************************************************************************)
LEMMA ImageIs ==
  ASSUME NEW S, NEW T, NEW g \in Maps(S, T), NEW s \in Seq(S)
  PROVE  /\ Image(g, s) \in Seq(T) /\ Len(Image(g, s)) = Len(s) /\ Len(s) \in Nat
         /\ \A i \in 1..Len(s) : Image(g, s)[i] = g[s[i]]
<1>1. Len(s) \in Nat /\ DOMAIN s = 1..Len(s) /\ \A i \in 1..Len(s) : s[i] \in S
  BY LenProperties
<1>2. Image(g, s) \in [1..Len(s) -> T] /\ \A i \in 1..Len(s) : Image(g, s)[i] = g[s[i]]
  BY <1>1 DEF Image, Maps
<1>3. Image(g, s) \in Seq(T) /\ Len(Image(g, s)) = Len(s)
  BY <1>1, <1>2, FunctionIsSeq
<1>4. QED
  BY <1>1, <1>2, <1>3

(***************************************************************************)
(* An image distributes over concatenation.                                *)
(***************************************************************************)
LEMMA ImageCat ==
  ASSUME NEW S, NEW T, NEW g \in Maps(S, T), NEW s \in Seq(S), NEW t \in Seq(S), NEW u, Joins(u, s, t)
  PROVE  Joins(Image(g, u), Image(g, s), Image(g, t))
<1>1. /\ u \in Seq(S) /\ Len(u) = Len(s) + Len(t) /\ Len(s) \in Nat /\ Len(t) \in Nat
      /\ \A i \in 1..Len(s) : u[i] = s[i]
      /\ \A i \in 1..Len(t) : u[Len(s) + i] = t[i]
  BY JoinIs
<1> DEFINE a == Image(g, s)
           b == Image(g, t)
           c == Image(g, u)
<1>2. a \in Seq(T) /\ Len(a) = Len(s) /\ \A i \in 1..Len(s) : a[i] = g[s[i]]
  BY ImageIs
<1>3. b \in Seq(T) /\ Len(b) = Len(t) /\ \A i \in 1..Len(t) : b[i] = g[t[i]]
  BY ImageIs
<1>4. c \in Seq(T) /\ Len(c) = Len(u) /\ \A i \in 1..Len(u) : c[i] = g[u[i]]
  BY <1>1, ImageIs
<1> HIDE DEF a, b, c
<1>5. \A i \in 1..Len(s) : c[i] = a[i]
  BY <1>1, <1>2, <1>4
<1>6. ASSUME NEW i \in 1..Len(t) PROVE c[Len(s) + i] = b[i]
  <2>1. Len(s) + i \in 1..Len(u)
    BY <1>1
  <2>2. c[Len(s) + i] = g[u[Len(s) + i]]
    BY <1>4, <2>1
  <2>3. u[Len(s) + i] = t[i]
    BY <1>1
  <2>4. QED
    BY <1>3, <2>2, <2>3
<1>7. Len(c) = Len(a) + Len(b) /\ (\A i \in 1..Len(a) : c[i] = a[i]) /\ (\A i \in 1..Len(b) : c[Len(a) + i] = b[i])
  BY <1>1, <1>2, <1>3, <1>4, <1>5, <1>6
<1>8. Joins(c, a, b)
  BY <1>2, <1>3, <1>4, <1>7, JoinedBy
<1>9. QED
  BY <1>8 DEF a, b, c

(***************************************************************************)
(* What a map to sequences makes of a sequence, flattened, is a sequence.  *)
(***************************************************************************)
LEMMA FlatMapType ==
  ASSUME NEW S, NEW U, NEW g \in Maps(S, Seq(U)), NEW s \in Seq(S)
  PROVE  FlatMap(g, s) \in Seq(U)
<1> DEFINE T == Seq(U)
<1>1. g \in Maps(S, T)
  OBVIOUS
<1> HIDE DEF T
<1>2. Image(g, s) \in Seq(T)
  BY <1>1, ImageIs
<1>3. QED
  BY <1>2, FlattenType DEF T, FlatMap

(***************************************************************************)
(* Of nothing it makes nothing.                                            *)
(***************************************************************************)
LEMMA FlatMapEmpty ==
  ASSUME NEW g
  PROVE  FlatMap(g, <<>>) = <<>>
<1>1. Image(g, <<>>) = <<>>
  BY DEF Image
<1>2. QED
  BY <1>1, FlattenEmpty DEF FlatMap

(***************************************************************************)
(* Of one item it makes what the map gives for it.                         *)
(***************************************************************************)
LEMMA FlatMapOne ==
  ASSUME NEW S, NEW U, NEW g \in Maps(S, Seq(U)), NEW x \in S
  PROVE  FlatMap(g, <<x>>) = g[x]
<1>1. Image(g, <<x>>) = <<g[x]>>
  BY DEF Image
<1>2. QED
  BY <1>1, FlattenOne DEF FlatMap, Maps

(***************************************************************************)
(* It distributes over concatenation.                                      *)
(***************************************************************************)
LEMMA FlatMapJoin ==
  ASSUME NEW S, NEW U, NEW g \in Maps(S, Seq(U)), NEW s \in Seq(S), NEW t \in Seq(S), NEW u, Joins(u, s, t)
  PROVE  Joins(FlatMap(g, u), FlatMap(g, s), FlatMap(g, t))
<1> DEFINE T == Seq(U)
<1>1. g \in Maps(S, T)
  OBVIOUS
<1> HIDE DEF T
<1>2. Image(g, s) \in Seq(T) /\ Image(g, t) \in Seq(T) /\ Joins(Image(g, u), Image(g, s), Image(g, t))
  BY <1>1, ImageIs, ImageCat
<1>3. FlattenSeq(Image(g, s) \o Image(g, t)) = FlattenSeq(Image(g, s)) \o FlattenSeq(Image(g, t))
  BY <1>2, FlattenCat DEF T
<1>4. QED
  BY <1>2, <1>3 DEF FlatMap, Joins

(***************************************************************************)
(* And so over one more item.                                              *)
(***************************************************************************)
LEMMA FlatMapAppend ==
  ASSUME NEW S, NEW U, NEW g \in Maps(S, Seq(U)), NEW s \in Seq(S), NEW x \in S
  PROVE  FlatMap(g, Append(s, x)) = FlatMap(g, s) \o g[x]
<1>1. Joins(Append(s, x), s, <<x>>)
  BY AppendIsConcat DEF Joins
<1>2. <<x>> \in Seq(S)
  OBVIOUS
<1> DEFINE y == <<x>>
           u == Append(s, x)
<1>3. y \in Seq(S) /\ Joins(u, s, y)
  BY <1>1, <1>2
<1> HIDE DEF y, u
<1>4. Joins(FlatMap(g, u), FlatMap(g, s), FlatMap(g, y))
  BY <1>3, FlatMapJoin
<1>5. FlatMap(g, <<x>>) = g[x]
  BY FlatMapOne
<1>6. QED
  BY <1>4, <1>5 DEF y, u, Joins

-----------------------------------------------------------------------------
(* Only and Column. *)

\* What Only makes of one item.
OnlyMap(S, K) == [x \in S |-> IF x.kind \in K THEN <<x>> ELSE <<>>]

(***************************************************************************)
(* Only is such a flattened map: an item of the kinds gives itself,        *)
(* another gives nothing.                                                  *)
(***************************************************************************)
LEMMA OnlyIs ==
  ASSUME NEW S, NEW K, NEW s \in Seq(S)
  PROVE  OnlyMap(S, K) \in Maps(S, Seq(S)) /\ Only(s, K) = FlatMap(OnlyMap(S, K), s)
<1>1. OnlyMap(S, K) \in Maps(S, Seq(S))
  BY DEF OnlyMap, Maps
<1>2. DOMAIN s = 1..Len(s) /\ \A i \in DOMAIN s : s[i] \in S
  BY LenProperties
<1>3. \A i \in DOMAIN s : OnlyMap(S, K)[s[i]] = IF s[i].kind \in K THEN <<s[i]>> ELSE <<>>
  BY <1>2 DEF OnlyMap
<1>4. Image(OnlyMap(S, K), s) = [i \in DOMAIN s |-> IF s[i].kind \in K THEN <<s[i]>> ELSE <<>>]
  BY <1>3 DEF Image
<1>5. QED
  BY <1>1, <1>4 DEF Only, FlatMap

(***************************************************************************)
(* What Only keeps is of the same type.                                    *)
(***************************************************************************)
LEMMA OnlyType ==
  ASSUME NEW S, NEW K, NEW s \in Seq(S)
  PROVE  Only(s, K) \in Seq(S) /\ Len(Only(s, K)) \in Nat
<1> DEFINE g == OnlyMap(S, K)
<1>1. g \in Maps(S, Seq(S)) /\ Only(s, K) = FlatMap(g, s)
  BY OnlyIs
<1> HIDE DEF g
<1>2. FlatMap(g, s) \in Seq(S)
  BY <1>1, FlatMapType
<1>3. QED
  BY <1>1, <1>2, LenProperties

(***************************************************************************)
(* Of nothing Only keeps nothing.                                          *)
(***************************************************************************)
LEMMA OnlyEmpty ==
  ASSUME NEW K
  PROVE  Only(<<>>, K) = <<>>
<1>1. <<>> \in Seq({})
  BY EmptySeq
<1>2. QED
  <2>1. Only(<<>>, K) = FlatMap(OnlyMap({}, K), <<>>)
    BY <1>1, OnlyIs
  <2>2. QED
    BY <2>1, FlatMapEmpty

(***************************************************************************)
(* Only keeps one more line when its kind is asked for.                    *)
(***************************************************************************)
LEMMA OnlyAppend ==
  ASSUME NEW S, NEW K, NEW s \in Seq(S), NEW x \in S
  PROVE  Only(Append(s, x), K) = IF x.kind \in K THEN Append(Only(s, K), x) ELSE Only(s, K)
<1>1. Append(s, x) \in Seq(S)
  BY AppendProperties
<1>2. Only(Append(s, x), K) = Only(s, K) \o OnlyMap(S, K)[x]
  <2>1. Only(Append(s, x), K) = FlatMap(OnlyMap(S, K), Append(s, x))
    BY <1>1, OnlyIs
  <2>2. OnlyMap(S, K) \in Maps(S, Seq(S)) /\ Only(s, K) = FlatMap(OnlyMap(S, K), s)
    BY OnlyIs
  <2>3. QED
    BY <2>1, <2>2, FlatMapAppend
<1>3. OnlyMap(S, K)[x] = IF x.kind \in K THEN <<x>> ELSE <<>>
  BY DEF OnlyMap
<1>4. Only(s, K) \in Seq(S)
  BY OnlyType
<1>5. Only(s, K) \o <<>> = Only(s, K) /\ Only(s, K) \o <<x>> = Append(Only(s, K), x)
  BY <1>4, ConcatEmptySeq, AppendIsConcat
<1>6. QED
  BY <1>2, <1>3, <1>5

(***************************************************************************)
(* Only distributes over concatenation.                                    *)
(***************************************************************************)
LEMMA OnlyJoin ==
  ASSUME NEW S, NEW K, NEW s \in Seq(S), NEW t \in Seq(S), NEW u, Joins(u, s, t)
  PROVE  Joins(Only(u, K), Only(s, K), Only(t, K))
<1>1. u \in Seq(S)
  BY JoinIs
<1> DEFINE g == OnlyMap(S, K)
<1>2. g \in Maps(S, Seq(S)) /\ Only(s, K) = FlatMap(g, s) /\ Only(t, K) = FlatMap(g, t) /\ Only(u, K) = FlatMap(g, u)
  BY <1>1, OnlyIs
<1> HIDE DEF g
<1>3. Joins(FlatMap(g, u), FlatMap(g, s), FlatMap(g, t))
  BY <1>2, FlatMapJoin
<1>4. QED
  BY <1>2, <1>3

\* The rows of the side-by-side view, and what a column makes of one.
RowsOver(S) == [left : Seq(S), right : Seq(S)]
ColumnMap(S, side) == [r \in RowsOver(S) |-> IF side = "left" THEN r.left ELSE r.right]

(***************************************************************************)
(* A column of the side-by-side view is a flattened map too.               *)
(***************************************************************************)
LEMMA ColumnIs ==
  ASSUME NEW S, NEW side, NEW rows \in Seq(RowsOver(S))
  PROVE  ColumnMap(S, side) \in Maps(RowsOver(S), Seq(S)) /\ Column(rows, side) = FlatMap(ColumnMap(S, side), rows)
<1>1. ColumnMap(S, side) \in Maps(RowsOver(S), Seq(S))
  BY DEF ColumnMap, Maps, RowsOver
<1>2. DOMAIN rows = 1..Len(rows) /\ \A i \in DOMAIN rows : rows[i] \in RowsOver(S)
  BY LenProperties
<1>3. \A i \in DOMAIN rows : ColumnMap(S, side)[rows[i]] = IF side = "left" THEN rows[i].left ELSE rows[i].right
  BY <1>2 DEF ColumnMap
<1>4. Image(ColumnMap(S, side), rows) = [i \in DOMAIN rows |-> IF side = "left" THEN rows[i].left ELSE rows[i].right]
  BY <1>3 DEF Image
<1>5. QED
  BY <1>1, <1>4 DEF Column, FlatMap

(***************************************************************************)
(* Without rows a column is empty.                                         *)
(***************************************************************************)
LEMMA ColumnEmpty ==
  ASSUME NEW side
  PROVE  Column(<<>>, side) = <<>>
<1>1. <<>> \in Seq(RowsOver({}))
  BY EmptySeq
<1>2. QED
  <2>1. Column(<<>>, side) = FlatMap(ColumnMap({}, side), <<>>)
    BY <1>1, ColumnIs
  <2>2. QED
    BY <2>1, FlatMapEmpty

(***************************************************************************)
(* One more row adds its cell to the column.                               *)
(***************************************************************************)
LEMMA ColumnAppend ==
  ASSUME NEW S, NEW side, NEW s \in Seq(RowsOver(S)), NEW x \in RowsOver(S)
  PROVE  Column(Append(s, x), side) = Column(s, side) \o IF side = "left" THEN x.left ELSE x.right
<1>1. Append(s, x) \in Seq(RowsOver(S))
  BY AppendProperties
<1>2. Column(Append(s, x), side) = FlatMap(ColumnMap(S, side), Append(s, x))
  BY <1>1, ColumnIs
<1>3. ColumnMap(S, side) \in Maps(RowsOver(S), Seq(S)) /\ Column(s, side) = FlatMap(ColumnMap(S, side), s)
  BY ColumnIs
<1>4. ColumnMap(S, side)[x] = IF side = "left" THEN x.left ELSE x.right
  BY DEF ColumnMap
<1> DEFINE g == ColumnMap(S, side)
           R == RowsOver(S)
<1>5. s \in Seq(R) /\ x \in R /\ g \in Maps(R, Seq(S))
  BY <1>3
<1>6. FlatMap(g, Append(s, x)) = FlatMap(g, s) \o g[x]
  <2> HIDE DEF g, R
  <2> QED BY <1>5, FlatMapAppend
<1>7. QED
  BY <1>2, <1>3, <1>4, <1>6

(***************************************************************************)
(* A column distributes over concatenation of rows.                        *)
(***************************************************************************)
LEMMA ColumnJoin ==
  ASSUME NEW S, NEW side, NEW s \in Seq(RowsOver(S)), NEW t \in Seq(RowsOver(S)), NEW u, Joins(u, s, t)
  PROVE  Joins(Column(u, side), Column(s, side), Column(t, side))
<1>1. u \in Seq(RowsOver(S))
  BY JoinIs
<1> DEFINE g == ColumnMap(S, side)
           R == RowsOver(S)
<1>2. /\ g \in Maps(R, Seq(S)) /\ Column(s, side) = FlatMap(g, s) /\ Column(t, side) = FlatMap(g, t) /\ Column(u, side) = FlatMap(g, u)
      /\ s \in Seq(R) /\ t \in Seq(R)
  BY <1>1, ColumnIs
<1> HIDE DEF g, R
<1>3. Joins(FlatMap(g, u), FlatMap(g, s), FlatMap(g, t))
  BY <1>2, FlatMapJoin
<1>4. QED
  BY <1>2, <1>3

-----------------------------------------------------------------------------
(* Runs of lines. *)

(***************************************************************************)
(* Induction over sequences, for a set of them, by their lengths.          *)
(***************************************************************************)
LEMMA SeqSets ==
  ASSUME NEW S, NEW F, <<>> \in F, \A s \in Seq(S), x \in S : s \in F => Append(s, x) \in F
  PROVE  \A s \in Seq(S) : s \in F
<1> SUFFICES ASSUME NEW s \in Seq(S) PROVE s \in F
  OBVIOUS
<1> DEFINE T == {n \in Nat : n <= Len(s) => SubSeq(s, 1, n) \in F}
<1>0. Len(s) \in Nat
  BY LenProperties
<1>1. 0 \in T
  <2>1. SubSeq(s, 1, 0) = <<>>
    BY SubSeqEmpty
  <2>2. QED
    BY <2>1
<1>2. ASSUME NEW n \in Nat, n \in T PROVE n + 1 \in T
  <2> SUFFICES ASSUME n + 1 <= Len(s) PROVE SubSeq(s, 1, n + 1) \in F
    OBVIOUS
  <2>1. SubSeq(s, 1, n) \in Seq(S) /\ s[n + 1] \in S /\ SubSeq(s, 1, n + 1) = Append(SubSeq(s, 1, n), s[n + 1])
    BY FrontGrows
  <2>2. SubSeq(s, 1, n) \in F
    BY <1>0, <1>2
  <2> DEFINE front == SubSeq(s, 1, n)
             next == SubSeq(s, 1, n + 1)
             x == s[n + 1]
  <2>3. front \in Seq(S) /\ x \in S /\ next = Append(front, x) /\ front \in F
    BY <2>1, <2>2
  <2> HIDE DEF front, next, x
  <2>4. next \in F
    BY <2>3
  <2>5. QED
    BY <2>4 DEF next
<1>3. \A n \in Nat : n \in T
  <2> HIDE DEF T
  <2> QED BY <1>1, <1>2, NatSets
<1>4. SubSeq(s, 1, Len(s)) \in F
  BY <1>0, <1>3
<1>5. SubSeq(s, 1, Len(s)) = s
  BY SubSeqFull
<1>6. QED
  BY <1>4, <1>5

(***************************************************************************)
(* A sequence over S whose items are all in T is one over T.               *)
(***************************************************************************)
LEMMA SeqWithin ==
  ASSUME NEW S, NEW T, NEW s \in Seq(S), \A i \in 1..Len(s) : s[i] \in T
  PROVE  s \in Seq(T)
<1>1. Len(s) \in Nat /\ s \in [1..Len(s) -> S]
  BY LenProperties
<1>2. s \in [1..Len(s) -> T]
  BY <1>1
<1>3. QED
  BY <1>1, <1>2, FunctionIsSeq

(***************************************************************************)
(* When every line is of the kinds asked for, Only keeps them all.         *)
(***************************************************************************)
LEMMA OnlyAll ==
  ASSUME NEW S, NEW K, NEW s \in Seq(S), \A i \in 1..Len(s) : s[i].kind \in K
  PROVE  Only(s, K) = s
<1> DEFINE T == {x \in S : x.kind \in K}
           F == {t \in Seq(T) : Only(t, K) = t}
<1>1. s \in Seq(T)
  <2>1. \A i \in 1..Len(s) : s[i] \in T
    BY LenProperties
  <2> HIDE DEF T
  <2>2. QED
    BY <2>1, SeqWithin
<1>2. <<>> \in F
  BY OnlyEmpty, EmptySeq
<1>3. \A t \in Seq(T), x \in T : t \in F => Append(t, x) \in F
  <2> SUFFICES ASSUME NEW t \in Seq(T), NEW x \in T, t \in F PROVE Append(t, x) \in F
    OBVIOUS
  <2>1. x.kind \in K /\ Only(t, K) = t
    OBVIOUS
  <2> HIDE DEF T
  <2>2. Only(Append(t, x), K) = Append(t, x)
    BY <2>1, OnlyAppend
  <2>3. Append(t, x) \in Seq(T)
    BY AppendProperties
  <2>4. QED
    BY <2>2, <2>3
<1>4. \A t \in Seq(T) : t \in F
  <2> HIDE DEF T, F
  <2> QED BY <1>2, <1>3, SeqSets
<1>5. QED
  <2> HIDE DEF T
  <2> QED BY <1>1, <1>4

(***************************************************************************)
(* When none is, it keeps none.                                            *)
(***************************************************************************)
LEMMA OnlyNone ==
  ASSUME NEW S, NEW K, NEW s \in Seq(S), \A i \in 1..Len(s) : s[i].kind \notin K
  PROVE  Only(s, K) = <<>>
<1> DEFINE T == {x \in S : x.kind \notin K}
           F == {t \in Seq(T) : Only(t, K) = <<>>}
<1>1. s \in Seq(T)
  <2>1. \A i \in 1..Len(s) : s[i] \in T
    BY LenProperties
  <2> HIDE DEF T
  <2>2. QED
    BY <2>1, SeqWithin
<1>2. <<>> \in F
  BY OnlyEmpty, EmptySeq
<1>3. \A t \in Seq(T), x \in T : t \in F => Append(t, x) \in F
  <2> SUFFICES ASSUME NEW t \in Seq(T), NEW x \in T, t \in F PROVE Append(t, x) \in F
    OBVIOUS
  <2>1. x.kind \notin K /\ Only(t, K) = <<>>
    OBVIOUS
  <2> HIDE DEF T
  <2>2. Only(Append(t, x), K) = <<>>
    BY <2>1, OnlyAppend
  <2>3. Append(t, x) \in Seq(T)
    BY AppendProperties
  <2>4. QED
    BY <2>2, <2>3
<1>4. \A t \in Seq(T) : t \in F
  <2> HIDE DEF T, F
  <2> QED BY <1>2, <1>3, SeqSets
<1>5. QED
  <2> HIDE DEF T
  <2> QED BY <1>1, <1>4

(***************************************************************************)
(* The items i to j of a sequence.                                         *)
(***************************************************************************)
LEMMA SpanIs ==
  ASSUME NEW S, NEW ls \in Seq(S), NEW i \in 1..(Len(ls) + 1), NEW j \in (i - 1)..Len(ls)
  PROVE  /\ SubSeq(ls, i, j) \in Seq(S) /\ Len(SubSeq(ls, i, j)) = j - i + 1
         /\ \A k \in 1..(j - i + 1) : SubSeq(ls, i, j)[k] = ls[i + k - 1]
         /\ \A k \in i..j : ls[k] \in S
<1>1. Len(ls) \in Nat /\ \A k \in 1..Len(ls) : ls[k] \in S
  BY LenProperties
<1>2. i \in Int /\ j \in Int /\ \A k \in i..j : ls[k] \in S
  BY <1>1
<1>3. /\ SubSeq(ls, i, j) \in Seq(S) /\ Len(SubSeq(ls, i, j)) = IF i <= j THEN j - i + 1 ELSE 0
      /\ \A k \in 1..(j - i + 1) : SubSeq(ls, i, j)[k] = ls[i + k - 1]
  BY <1>2, SubSeqProperties
<1>4. Len(SubSeq(ls, i, j)) = j - i + 1
  BY <1>1, <1>3
<1>5. QED
  BY <1>2, <1>3, <1>4

(***************************************************************************)
(* A span and the item after it.                                           *)
(***************************************************************************)
LEMMA SpanGrows ==
  ASSUME NEW S, NEW ls \in Seq(S), NEW i \in 1..(Len(ls) + 1), NEW j \in (i - 1)..Len(ls), j + 1 <= Len(ls)
  PROVE  SubSeq(ls, i, j + 1) = SubSeq(ls, i, j) \o <<ls[j + 1]>>
<1>1. Len(ls) \in Nat
  BY LenProperties
<1>2. i \in 1..Len(ls) /\ j + 1 \in i..Len(ls) /\ (j + 1) - 1 = j
  BY <1>1
<1>3. QED
  BY <1>2, SubSeqRecursiveSecond

(***************************************************************************)
(* Two spans that meet are a span.                                         *)
(***************************************************************************)
LEMMA SpansJoin ==
  ASSUME NEW S, NEW ls \in Seq(S), NEW i \in 1..(Len(ls) + 1), NEW j \in (i - 1)..Len(ls), NEW k \in j..Len(ls)
  PROVE  Joins(SubSeq(ls, i, k), SubSeq(ls, i, j), SubSeq(ls, j + 1, k))
  BY LenProperties, ConcatAdjacentSubSeq DEF Joins

(***************************************************************************)
(* What Run chooses exists and is what it says: as many lines of the kind  *)
(* as follow one another from i on.                                        *)
(***************************************************************************)
LEMMA RunIs ==
  ASSUME NEW S, NEW ls \in Seq(S), NEW i \in 1..(Len(ls) + 1), NEW kind, NEW n, n = Run(ls, i, kind)
  PROVE  /\ n \in 0..(Len(ls) - i + 1) /\ n \in Nat
         /\ \A k \in i..(i + n - 1) : ls[k].kind = kind
         /\ i + n <= Len(ls) => ls[i + n].kind # kind
<1>1. Len(ls) \in Nat
  BY LenProperties
<1> DEFINE E == {m \in Nat : m <= Len(ls) - i + 1 /\ (i + m <= Len(ls) => ls[i + m].kind # kind)}
<1>2. Len(ls) - i + 1 \in E
  BY <1>1
<1>3. PICK m \in E : \A y \in E : m <= y
  <2> HIDE DEF E
  <2> QED
    <3>1. E # {}
      BY <1>2
    <3>2. E \in SUBSET Nat
      BY DEF E
    <3>3. QED
      BY <3>1, <3>2, LeastOf
<1>5. m \in 0..(Len(ls) - i + 1) /\ (i + m <= Len(ls) => ls[i + m].kind # kind)
  BY <1>1, <1>3
<1>4. ASSUME NEW k \in i..(i + m - 1) PROVE ls[k].kind = kind
  <2>1. k - i \in Nat /\ k - i < m /\ k - i <= Len(ls) - i + 1 /\ i + (k - i) = k /\ k <= Len(ls)
    BY <1>1, <1>3
  <2>2. k - i \notin E
    <3> HIDE DEF E
    <3>1. \A y \in E : m <= y
      BY <1>3
    <3>2. ASSUME k - i \in E PROVE FALSE
      <4>1. m <= k - i
        BY <3>1, <3>2
      <4>2. m \in Nat /\ k - i \in Nat
        BY <1>5, <2>1
      <4>3. QED
        BY <2>1, <4>1, <4>2
    <3>3. QED
      BY <3>2
  <2>3. i + (k - i) <= Len(ls) /\ ls[i + (k - i)].kind = kind
    BY <2>1, <2>2
  <2>4. QED
    BY <2>1, <2>3
<1> HIDE DEF E
<1>6. \E x \in 0..(Len(ls) - i + 1) : (\A k \in i..(i + x - 1) : ls[k].kind = kind) /\ (i + x <= Len(ls) => ls[i + x].kind # kind)
  BY <1>4, <1>5
<1>7. n \in 0..(Len(ls) - i + 1) /\ (\A k \in i..(i + n - 1) : ls[k].kind = kind) /\ (i + n <= Len(ls) => ls[i + n].kind # kind)
  BY <1>6 DEF Run
<1>8. QED
  BY <1>1, <1>7

(***************************************************************************)
(* The cells of one side of a change block, read downwards, are the lines  *)
(* of its run.                                                             *)
(***************************************************************************)
LEMMA SidesAre ==
  ASSUME NEW S, NEW ls \in Seq(S), NEW i \in 1..(Len(ls) + 1), NEW d \in Nat, i + d - 1 <= Len(ls),
         NEW n \in Nat, d <= n
  PROVE  FlattenSeq([k \in 1..n |-> Side(ls, i, d, k)]) = SubSeq(ls, i, i + d - 1)
<1>0. Len(ls) \in Nat /\ \A k \in 1..Len(ls) : ls[k] \in S
  BY LenProperties
<1> DEFINE U == Seq(S)
           Sides(m) == [k \in 1..m |-> Side(ls, i, d, k)]
           Least(m) == IF m <= d THEN m ELSE d
           T == {m \in Nat : FlattenSeq(Sides(m)) = SubSeq(ls, i, i + Least(m) - 1)}
<1>1. 0 \in T
  <2>1. Sides(0) = <<>>
    OBVIOUS
  <2>2. SubSeq(ls, i, i + Least(0) - 1) = <<>>
    <3>1. i + Least(0) - 1 \in Int /\ i + Least(0) - 1 < i /\ i \in Int
      BY <1>0
    <3>2. QED
      BY <3>1, SubSeqEmpty
  <2>3. FlattenSeq(Sides(0)) = <<>>
    BY <2>1, FlattenEmpty
  <2> HIDE DEF Sides, Least
  <2>4. QED
    BY <2>2, <2>3
<1>2. ASSUME NEW m \in Nat, m \in T PROVE m + 1 \in T
  <2>1. ASSUME NEW k \in Nat \ {0} PROVE Side(ls, i, d, k) \in Seq(S)
    <3>1. CASE k <= d
      <4>1. ls[i + k - 1] \in S
        BY <1>0, <3>1
      <4>2. QED
        BY <3>1, <4>1 DEF Side
    <3>2. CASE ~(k <= d)
      BY <3>2 DEF Side
    <3>3. QED
      BY <3>1, <3>2
  <2>2. Sides(m) \in [1..m -> U] /\ Side(ls, i, d, m + 1) \in U
    BY <2>1
  <2>3. Sides(m + 1) = Append(Sides(m), Side(ls, i, d, m + 1))
    <3> DEFINE a == Sides(m)
               b == Sides(m + 1)
               x == Side(ls, i, d, m + 1)
    <3>1. b \in [1..(m + 1) -> U] /\ \A k \in 1..m : b[k] = a[k]
      BY <2>1
    <3>2. b[m + 1] = x
      OBVIOUS
    <3> HIDE DEF a, b, x, U
    <3>3. a \in Seq(U) /\ Len(a) = m /\ b \in Seq(U) /\ Len(b) = m + 1
      BY <2>2, <3>1, FunctionIsSeq DEF a
    <3>4. /\ Append(a, x) \in Seq(U) /\ Len(Append(a, x)) = m + 1
          /\ (\A k \in 1..m : Append(a, x)[k] = a[k]) /\ Append(a, x)[m + 1] = x
      BY <2>2, <3>3, AppendProperties DEF x
    <3>5. \A k \in 1..(m + 1) : Append(a, x)[k] = b[k]
      BY <3>1, <3>2, <3>4
    <3>6. b = Append(a, x)
      BY <3>3, <3>4, <3>5, SeqEqual
    <3>7. QED
      BY <3>6 DEF a, b, x
  <2>4. Sides(m) \in Seq(U)
    <3> DEFINE a == Sides(m)
    <3> HIDE DEF U
    <3>1. a \in [1..m -> U]
      BY <2>2
    <3> HIDE DEF a
    <3>2. a \in Seq(U)
      BY <3>1, FunctionIsSeq
    <3>3. QED
      BY <3>2 DEF a
  <2>5. FlattenSeq(Sides(m + 1)) = FlattenSeq(Sides(m)) \o Side(ls, i, d, m + 1)
    BY <2>2, <2>3, <2>4, FlattenAppend
  <2>6. FlattenSeq(Sides(m)) = SubSeq(ls, i, i + Least(m) - 1)
    BY <1>2
  <2> HIDE DEF Sides
  <2>7. CASE m + 1 <= d
    <3> DEFINE j == i + m - 1
    <3>1. Least(m) = m /\ Least(m + 1) = m + 1 /\ Side(ls, i, d, m + 1) = <<ls[j + 1]>>
      BY <2>7 DEF Side
    <3>2. j \in (i - 1)..Len(ls) /\ j + 1 <= Len(ls) /\ i + (m + 1) - 1 = j + 1
      BY <1>0, <2>7
    <3>3. SubSeq(ls, i, j + 1) = SubSeq(ls, i, j) \o <<ls[j + 1]>>
      <4> HIDE DEF j
      <4> QED BY <3>2, SpanGrows
    <3>4. FlattenSeq(Sides(m + 1)) = SubSeq(ls, i, i + (m + 1) - 1)
      BY <2>5, <2>6, <3>1, <3>2, <3>3
    <3>5. QED
      BY <3>1, <3>4
  <2>8. CASE ~(m + 1 <= d)
    <3>1. Least(m) = d /\ Least(m + 1) = d /\ Side(ls, i, d, m + 1) = <<>>
      BY <2>8 DEF Side
    <3>2. SubSeq(ls, i, i + d - 1) \in Seq(S)
      BY <1>0, SpanIs
    <3>3. SubSeq(ls, i, i + d - 1) \o <<>> = SubSeq(ls, i, i + d - 1)
      BY <3>2, ConcatEmptySeq
    <3>4. QED
      BY <2>5, <2>6, <3>1, <3>3
  <2>9. QED
    BY <2>7, <2>8
<1>3. \A m \in Nat : m \in T
  <2> HIDE DEF T
  <2> QED BY <1>1, <1>2, NatSets
<1>4. QED
  BY <1>3

-----------------------------------------------------------------------------
(* Rows. *)

\* No row is empty, and two different lines share one only as a deletion and an addition.
FairRows(rows) ==
  \A r \in DOMAIN rows :
    /\ rows[r].left # <<>> \/ rows[r].right # <<>>
    /\ rows[r].left # <<>> /\ rows[r].right # <<>> /\ rows[r].left # rows[r].right =>
         rows[r].left[1].kind = "del" /\ rows[r].right[1].kind = "add"

\* Rows that show these lines.
Shows(rows, s) ==
  /\ Column(rows, "left") = Only(s, {"ctx", "del"})
  /\ Column(rows, "right") = Only(s, {"ctx", "add"})
  /\ FairRows(rows)

\* Every line has a kind.
Kinded(S) == \A x \in S : x.kind \in Kinds

\* s is the d lines from i on.
IsSpan(s, ls, i, d) == s = SubSeq(ls, i, i + d - 1)

\* The rows of a change block: d deletions from i on, a additions from j on.
AreRows(rows, ls, i, j, d, a, n) == rows = [k \in 1..n |-> [left |-> Side(ls, i, d, k), right |-> Side(ls, j, a, k)]]

\* The lines i to i + d - 1 are all of one kind.
OfKind(ls, i, d, kind) ==
  /\ i \in 1..(Len(ls) + 1) /\ d \in Nat /\ i + d - 1 <= Len(ls)
  /\ \A k \in i..(i + d - 1) : ls[k].kind = kind

(***************************************************************************)
(* A cell holds one line of the run, or nothing beyond its end.            *)
(***************************************************************************)
LEMMA SideIs ==
  ASSUME NEW S, NEW ls \in Seq(S), NEW i, NEW d, NEW kind, OfKind(ls, i, d, kind), NEW k \in Nat, k > 0
  PROVE  /\ Side(ls, i, d, k) \in Seq(S)
         /\ k <= d => Side(ls, i, d, k) # <<>> /\ Side(ls, i, d, k)[1].kind = kind
         /\ k > d => Side(ls, i, d, k) = <<>>
<1>0. Len(ls) \in Nat /\ \A j \in 1..Len(ls) : ls[j] \in S
  BY LenProperties
<1>1. CASE k <= d
  <2>1. i + k - 1 \in 1..Len(ls) /\ i + k - 1 \in i..(i + d - 1)
    BY <1>0, <1>1 DEF OfKind
  <2>2. ls[i + k - 1] \in S /\ ls[i + k - 1].kind = kind
    BY <1>0, <2>1 DEF OfKind
  <2>3. Side(ls, i, d, k) = <<ls[i + k - 1]>>
    BY <1>1 DEF Side
  <2>4. Side(ls, i, d, k) \in Seq(S) /\ Side(ls, i, d, k) # <<>> /\ Side(ls, i, d, k)[1] = ls[i + k - 1]
    BY <2>2, <2>3
  <2>5. ~(k > d)
    BY <1>1 DEF OfKind
  <2>6. QED
    BY <2>2, <2>4, <2>5
<1>2. CASE ~(k <= d)
  BY <1>2, EmptySeq DEF Side
<1>3. QED
  BY <1>1, <1>2

(***************************************************************************)
(* The lines of a span are of the kind that its places are.                *)
(***************************************************************************)
LEMMA SpanOfKind ==
  ASSUME NEW S, NEW ls \in Seq(S), NEW i, NEW d, NEW kind, OfKind(ls, i, d, kind), NEW s, IsSpan(s, ls, i, d)
  PROVE  s \in Seq(S) /\ \A k \in 1..Len(s) : s[k].kind = kind
<1>0. Len(ls) \in Nat
  BY LenProperties
<1>1. i \in 1..(Len(ls) + 1) /\ d \in Nat /\ i + d - 1 \in (i - 1)..Len(ls) /\ (i + d - 1) - i + 1 = d
  BY <1>0 DEF OfKind
<1>2. s \in Seq(S) /\ Len(s) = d /\ \A k \in 1..d : s[k] = ls[i + k - 1]
  BY <1>1, SpanIs DEF IsSpan
<1>3. \A k \in 1..d : i + k - 1 \in i..(i + d - 1)
  BY <1>1
<1>4. \A k \in 1..d : ls[i + k - 1].kind = kind
  BY <1>3 DEF OfKind
<1>5. QED
  BY <1>2, <1>4

(***************************************************************************)
(* The rows of a change block show the deletions on the left, the          *)
(* additions on the right, and pair nothing but a deletion with an         *)
(* addition.                                                               *)
(***************************************************************************)
LEMMA RowsOfBlock ==
  ASSUME NEW S, NEW ls \in Seq(S), NEW i, NEW j, NEW d \in Nat, NEW a \in Nat,
         OfKind(ls, i, d, "del"), OfKind(ls, j, a, "add"),
         NEW n \in Nat, d <= n, a <= n, n <= d \/ n <= a,
         NEW rows, AreRows(rows, ls, i, j, d, a, n), 
         NEW one, IsSpan(one, ls, i, d), NEW two, IsSpan(two, ls, j, a), NEW s, Joins(s, one, two)
  PROVE  rows \in Seq(RowsOver(S)) /\ Shows(rows, s)
<1> DEFINE R == RowsOver(S)
<1>1. rows = [k \in 1..n |-> [left |-> Side(ls, i, d, k), right |-> Side(ls, j, a, k)]]
  BY DEF AreRows
<1>2. ASSUME NEW k \in 1..n PROVE Side(ls, i, d, k) \in Seq(S) /\ Side(ls, j, a, k) \in Seq(S)
  <2>1. k \in Nat /\ k > 0
    OBVIOUS
  <2>2. QED
    BY <2>1, SideIs
<1>3. rows \in [1..n -> R]
  BY <1>1, <1>2 DEF RowsOver
<1>4. rows \in Seq(R)
  <2> HIDE DEF R
  <2> QED BY <1>3, FunctionIsSeq
<1>5. Column(rows, "left") = one
  <2>1. [k \in DOMAIN rows |-> IF "left" = "left" THEN rows[k].left ELSE rows[k].right] = [k \in 1..n |-> Side(ls, i, d, k)]
    BY <1>1
  <2>2. FlattenSeq([k \in 1..n |-> Side(ls, i, d, k)]) = SubSeq(ls, i, i + d - 1)
    BY SidesAre DEF OfKind
  <2>3. QED
    BY <2>1, <2>2 DEF Column, IsSpan
<1>6. Column(rows, "right") = two
  <2>1. [k \in DOMAIN rows |-> IF "right" = "left" THEN rows[k].left ELSE rows[k].right] = [k \in 1..n |-> Side(ls, j, a, k)]
    BY <1>1
  <2>2. FlattenSeq([k \in 1..n |-> Side(ls, j, a, k)]) = SubSeq(ls, j, j + a - 1)
    BY SidesAre DEF OfKind
  <2>3. QED
    BY <2>1, <2>2 DEF Column, IsSpan
<1>7. FairRows(rows)
  <2> SUFFICES ASSUME NEW k \in 1..n
               PROVE /\ rows[k].left # <<>> \/ rows[k].right # <<>>
                     /\ rows[k].left # <<>> /\ rows[k].right # <<>> /\ rows[k].left # rows[k].right =>
                          rows[k].left[1].kind = "del" /\ rows[k].right[1].kind = "add"
    BY <1>3 DEF FairRows
  <2>0. k \in Nat /\ k > 0
    OBVIOUS
  <2> DEFINE x == Side(ls, i, d, k)
             y == Side(ls, j, a, k)
  <2>1. rows[k].left = x /\ rows[k].right = y
    BY <1>1
  <2>2. (k <= d => x # <<>> /\ x[1].kind = "del") /\ (k > d => x = <<>>)
    BY <2>0, SideIs
  <2>3. (k <= a => y # <<>> /\ y[1].kind = "add") /\ (k > a => y = <<>>)
    BY <2>0, SideIs
  <2>4. k <= d \/ k <= a
    OBVIOUS
  <2>5. k <= d \/ k > d
    OBVIOUS
  <2>6. k <= a \/ k > a
    OBVIOUS
  <2> HIDE DEF x, y
  <2>7. QED
    BY <2>1, <2>2, <2>3, <2>4, <2>5, <2>6
<1>8. one \in Seq(S) /\ \A k \in 1..Len(one) : one[k].kind = "del"
  BY SpanOfKind
<1>9. two \in Seq(S) /\ \A k \in 1..Len(two) : two[k].kind = "add"
  BY SpanOfKind
<1>10. Only(one, {"ctx", "del"}) = one /\ Only(one, {"ctx", "add"}) = <<>>
  BY <1>8, OnlyAll, OnlyNone
<1>11. Only(two, {"ctx", "del"}) = <<>> /\ Only(two, {"ctx", "add"}) = two
  BY <1>9, OnlyAll, OnlyNone
<1>12. \A K : Joins(Only(s, K), Only(one, K), Only(two, K))
  BY <1>8, <1>9, OnlyJoin
<1>13. /\ Only(s, {"ctx", "del"}) = Only(one, {"ctx", "del"}) \o Only(two, {"ctx", "del"})
       /\ Only(s, {"ctx", "add"}) = Only(one, {"ctx", "add"}) \o Only(two, {"ctx", "add"})
  BY <1>12 DEF Joins
<1>14. one \o <<>> = one /\ <<>> \o two = two
  BY <1>8, <1>9, ConcatEmptySeq
<1>15. Only(s, {"ctx", "del"}) = one /\ Only(s, {"ctx", "add"}) = two
  BY <1>10, <1>11, <1>13, <1>14
<1>16. QED
  BY <1>4, <1>5, <1>6, <1>7, <1>15 DEF Shows

-----------------------------------------------------------------------------
(* A block, and Split. *)

(***************************************************************************)
(* No rows show no lines.                                                  *)
(***************************************************************************)
LEMMA ShowsNothing == Shows(<<>>, <<>>)
  BY ColumnEmpty, OnlyEmpty DEF Shows, FairRows

(***************************************************************************)
(* Rows that show some lines, followed by rows that show the next, show    *)
(* them all.                                                               *)
(***************************************************************************)
LEMMA ShowsJoin ==
  ASSUME NEW S, NEW x \in Seq(RowsOver(S)), NEW y \in Seq(RowsOver(S)), NEW s \in Seq(S), NEW t \in Seq(S),
         Shows(x, s), Shows(y, t), NEW z, Joins(z, x, y), NEW u, Joins(u, s, t)
  PROVE  z \in Seq(RowsOver(S)) /\ Shows(z, u)
<1>1. \A K : Joins(Only(u, K), Only(s, K), Only(t, K))
  BY OnlyJoin
<1>2. \A side : Joins(Column(z, side), Column(x, side), Column(y, side))
  BY ColumnJoin
<1>3. Column(z, "left") = Only(u, {"ctx", "del"}) /\ Column(z, "right") = Only(u, {"ctx", "add"})
  <2>1. /\ Only(u, {"ctx", "del"}) = Only(s, {"ctx", "del"}) \o Only(t, {"ctx", "del"})
        /\ Only(u, {"ctx", "add"}) = Only(s, {"ctx", "add"}) \o Only(t, {"ctx", "add"})
    BY <1>1 DEF Joins
  <2>2. Column(z, "left") = Column(x, "left") \o Column(y, "left") /\ Column(z, "right") = Column(x, "right") \o Column(y, "right")
    BY <1>2 DEF Joins
  <2>3. /\ Column(x, "left") = Only(s, {"ctx", "del"}) /\ Column(x, "right") = Only(s, {"ctx", "add"})
        /\ Column(y, "left") = Only(t, {"ctx", "del"}) /\ Column(y, "right") = Only(t, {"ctx", "add"})
    BY DEF Shows
  <2>4. QED
    BY <2>1, <2>2, <2>3
<1> DEFINE R == RowsOver(S)
<1>4. x \in Seq(R) /\ y \in Seq(R) /\ DOMAIN x = 1..Len(x) /\ DOMAIN y = 1..Len(y)
  BY LenProperties
<1> HIDE DEF R
<1>5. /\ z \in Seq(R) /\ Len(z) = Len(x) + Len(y) /\ Len(x) \in Nat /\ Len(y) \in Nat
      /\ \A i \in 1..Len(x) : z[i] = x[i]
      /\ \A i \in 1..Len(y) : z[Len(x) + i] = y[i]
  BY <1>4, JoinIs
<1>6. FairRows(x) /\ FairRows(y)
  BY DEF Shows
<1>7. DOMAIN z = 1..(Len(x) + Len(y))
  BY <1>5, LenProperties
<1>8. ASSUME NEW r \in DOMAIN z
      PROVE /\ z[r].left # <<>> \/ z[r].right # <<>>
            /\ z[r].left # <<>> /\ z[r].right # <<>> /\ z[r].left # z[r].right =>
                 z[r].left[1].kind = "del" /\ z[r].right[1].kind = "add"
  <2>1. CASE r <= Len(x)
    <3>1. z[r] = x[r] /\ r \in DOMAIN x
      BY <1>4, <1>5, <1>7, <2>1
    <3>2. QED
      BY <1>6, <3>1 DEF FairRows
  <2>2. CASE ~(r <= Len(x))
    <3>1. r - Len(x) \in 1..Len(y) /\ Len(x) + (r - Len(x)) = r
      BY <1>5, <1>7, <2>2
    <3>2. z[r] = y[r - Len(x)] /\ r - Len(x) \in DOMAIN y
      BY <1>4, <1>5, <3>1
    <3>3. QED
      BY <1>6, <3>2 DEF FairRows
  <2>3. QED
    BY <2>1, <2>2
<1>9. FairRows(z)
  BY <1>8 DEF FairRows
<1>10. QED
  BY <1>3, <1>5, <1>9 DEF Shows, R

(***************************************************************************)
(* A context line's row shows it on both sides.                            *)
(***************************************************************************)
LEMMA ContextRow ==
  ASSUME NEW S, NEW x \in S, x.kind = "ctx"
  PROVE  <<[left |-> <<x>>, right |-> <<x>>]>> \in Seq(RowsOver(S)) /\ Shows(<<[left |-> <<x>>, right |-> <<x>>]>>, <<x>>)
<1> DEFINE s == <<x>>
           row == [left |-> <<x>>, right |-> <<x>>]
           rows == <<row>>
<1>1. s \in Seq(S) /\ Len(s) = 1 /\ s[1] = x /\ s # <<>>
  OBVIOUS
<1>2. row \in RowsOver(S) /\ row.left = s /\ row.right = s
  BY DEF RowsOver
<1>3. \A K : "ctx" \in K => Only(s, K) = s
  <2> HIDE DEF s
  <2>1. \A i \in 1..Len(s) : s[i].kind = "ctx"
    BY <1>1
  <2>2. QED
    BY <1>1, <2>1, OnlyAll
<1>4. \A side : Column(rows, side) = s
  <2> SUFFICES ASSUME NEW side PROVE Column(rows, side) = s
    OBVIOUS
  <2>1. [k \in DOMAIN rows |-> IF side = "left" THEN rows[k].left ELSE rows[k].right] = <<s>>
    BY <1>2
  <2>2. FlattenSeq(<<s>>) = s
    <3> HIDE DEF s
    <3> QED BY <1>1, FlattenOne
  <2>3. QED
    BY <2>1, <2>2 DEF Column
<1>5. FairRows(rows)
  BY <1>1, <1>2 DEF FairRows
<1>6. rows \in Seq(RowsOver(S))
  <2> HIDE DEF row
  <2> QED BY <1>2
<1>7. Shows(rows, s)
  <2> HIDE DEF rows, s
  <2> QED BY <1>3, <1>4, <1>5 DEF Shows
<1>8. QED
  BY <1>6, <1>7

(***************************************************************************)
(* Block takes at least one line and not more than there are, and its rows *)
(* show them.                                                              *)
(***************************************************************************)
LEMMA BlockIs ==
  ASSUME NEW S, Kinded(S), NEW ls \in Seq(S), NEW i \in 1..Len(ls)
  PROVE  LET m == Block(ls, i).length IN
         /\ m \in 1..(Len(ls) - i + 1)
         /\ Block(ls, i).rows \in Seq(RowsOver(S))
         /\ Shows(Block(ls, i).rows, SubSeq(ls, i, i + m - 1))
<1>0. Len(ls) \in Nat /\ ls[i] \in S /\ i \in 1..(Len(ls) + 1) /\ i \in Nat
  BY LenProperties
<1>1. ls[i].kind \in {"ctx", "add", "del"}
  BY <1>0 DEF Kinded, Kinds
<1> DEFINE d == Run(ls, i, "del")
           j == i + d
           a == Run(ls, j, "add")
           n == IF d > a THEN d ELSE a
<1>2. CASE ls[i].kind = "ctx"
  <2> DEFINE r == <<[left |-> <<ls[i]>>, right |-> <<ls[i]>>]>>
             s == <<ls[i]>>
  <2>1. Block(ls, i).rows = r /\ Block(ls, i).length = 1
    BY <1>2 DEF Block
  <2>2. SubSeq(ls, i, i) = <<ls[i]>>
    <3>1. i - 1 \in (i - 1)..Len(ls) /\ (i - 1) + 1 = i
      BY <1>0
    <3>2. SubSeq(ls, i, (i - 1) + 1) = SubSeq(ls, i, i - 1) \o <<ls[(i - 1) + 1]>>
      BY <1>0, <3>1, SpanGrows
    <3>3. SubSeq(ls, i, i - 1) = <<>>
      BY <1>0, SubSeqEmpty
    <3>4. <<>> \o <<ls[i]>> = <<ls[i]>>
      <4>1. <<ls[i]>> \in Seq(S)
        BY <1>0
      <4>2. QED
        BY <4>1, ConcatEmptySeq
    <3>5. QED
      BY <3>1, <3>2, <3>3, <3>4
  <2>3. r \in Seq(RowsOver(S)) /\ Shows(r, s)
    BY <1>0, <1>2, ContextRow
  <2>4. i + 1 - 1 = i /\ 1 \in 1..(Len(ls) - i + 1)
    BY <1>0
  <2>5. SubSeq(ls, i, i) = s
    BY <2>2
  <2> HIDE DEF r, s
  <2>6. QED
    BY <2>1, <2>3, <2>4, <2>5
<1>3. CASE ls[i].kind # "ctx"
  <2>1. /\ d \in 0..(Len(ls) - i + 1) /\ d \in Nat
        /\ \A k \in i..(i + d - 1) : ls[k].kind = "del"
        /\ i + d <= Len(ls) => ls[i + d].kind # "del"
    <3> HIDE DEF d
    <3>1. d = Run(ls, i, "del")
      BY DEF d
    <3>2. QED
      BY <1>0, <3>1, RunIs
  <2>2. j \in 1..(Len(ls) + 1) /\ j \in Nat
    BY <1>0, <2>1
  <2>3. /\ a \in 0..(Len(ls) - j + 1) /\ a \in Nat
        /\ \A k \in j..(j + a - 1) : ls[k].kind = "add"
        /\ j + a <= Len(ls) => ls[j + a].kind # "add"
    <3> HIDE DEF a, j
    <3>1. a = Run(ls, j, "add")
      BY DEF a
    <3>2. QED
      BY <2>2, <3>1, RunIs
  <2>4. d + a \in 1..(Len(ls) - i + 1)
    <3> HIDE DEF d, a
    <3>1. CASE ls[i].kind = "del"
      <4>1. d # 0
        BY <1>0, <2>1, <3>1
      <4>2. QED
        BY <1>0, <2>1, <2>3, <4>1
    <3>2. CASE ls[i].kind = "add"
      <4>1. CASE d = 0
        <5>1. a # 0
          BY <1>0, <2>3, <3>2, <4>1
        <5>2. QED
          BY <1>0, <2>1, <2>3, <4>1, <5>1
      <4>2. CASE d # 0
        BY <1>0, <2>1, <2>3, <4>2
      <4>3. QED
        BY <4>1, <4>2
    <3>3. QED
      BY <1>1, <1>3, <3>1, <3>2
  <2>5. /\ Block(ls, i).length = d + a
        /\ Block(ls, i).rows = [k \in 1..n |-> [left |-> Side(ls, i, d, k), right |-> Side(ls, j, a, k)]]
    BY <1>3 DEF Block
  <2> HIDE DEF d, a, j, n
  <2>6. j = i + d
    BY DEF j
  <2>7. n \in Nat /\ d <= n /\ a <= n /\ (n <= d \/ n <= a)
    BY <2>1, <2>3 DEF n
  <2>8. OfKind(ls, i, d, "del") /\ OfKind(ls, j, a, "add")
    BY <1>0, <2>1, <2>2, <2>3, <2>6 DEF OfKind
  <2>9. AreRows(Block(ls, i).rows, ls, i, j, d, a, n)
    BY <2>5 DEF AreRows
  <2>10. Joins(SubSeq(ls, i, j + a - 1), SubSeq(ls, i, i + d - 1), SubSeq(ls, j, j + a - 1))
    <3>1. i + d - 1 \in (i - 1)..Len(ls) /\ j + a - 1 \in (i + d - 1)..Len(ls) /\ (i + d - 1) + 1 = j
      BY <1>0, <2>1, <2>2, <2>3, <2>6
    <3>2. QED
      BY <1>0, <3>1, SpansJoin
  <2>11. IsSpan(SubSeq(ls, i, i + d - 1), ls, i, d) /\ IsSpan(SubSeq(ls, j, j + a - 1), ls, j, a)
    BY DEF IsSpan
  <2>12. Block(ls, i).rows \in Seq(RowsOver(S)) /\ Shows(Block(ls, i).rows, SubSeq(ls, i, j + a - 1))
    BY <2>1, <2>3, <2>7, <2>8, <2>9, <2>10, <2>11, RowsOfBlock
  <2>13. j + a - 1 = i + (d + a) - 1
    BY <1>0, <2>1, <2>3, <2>6
  <2>14. QED
    BY <2>4, <2>5, <2>12, <2>13
<1>4. QED
  BY <1>2, <1>3

\* f[i] is what Split makes of the lines from i on.
SplitFrom(f, ls) ==
  [i \in 1..(Len(ls) + 1) |-> IF i > Len(ls) THEN <<>> ELSE Block(ls, i).rows \o f[i + Block(ls, i).length]]

\* The same, from a place on.
SplitsFrom(f, ls, low) ==
  \A i \in low..(Len(ls) + 1) :
    f[i] = IF i > Len(ls) THEN <<>> ELSE Block(ls, i).rows \o f[i + Block(ls, i).length]

(***************************************************************************)
(* Split's recursion, which runs from the end of the lines to their        *)
(* beginning, has a solution.                                              *)
(***************************************************************************)
LEMMA SplitExists ==
  ASSUME NEW S, Kinded(S), NEW ls \in Seq(S)
  PROVE  \E f : f = SplitFrom(f, ls)
<1>0. Len(ls) \in Nat
  BY LenProperties
<1> DEFINE N == Len(ls)
           T == {n \in Nat : n <= N => \E f : DOMAIN f = 1..(N + 1) /\ SplitsFrom(f, ls, N + 1 - n)}
<1>1. 0 \in T
  <2> DEFINE f == [i \in 1..(N + 1) |-> <<>>]
  <2>1. DOMAIN f = 1..(N + 1) /\ SplitsFrom(f, ls, N + 1 - 0)
    BY <1>0 DEF SplitsFrom
  <2>2. QED
    BY <2>1
<1>2. ASSUME NEW n \in Nat, n \in T, n + 1 <= N PROVE n + 1 \in T
  <2> DEFINE k == N - n
  <2>1. PICK f : DOMAIN f = 1..(N + 1) /\ SplitsFrom(f, ls, N + 1 - n)
    BY <1>0, <1>2
  <2>2. k \in 1..N /\ N + 1 - n = k + 1 /\ N + 1 - (n + 1) = k
    BY <1>0, <1>2
  <2> DEFINE m == Block(ls, k).length
             g == [i \in 1..(N + 1) |-> IF i = k THEN Block(ls, k).rows \o f[k + m] ELSE f[i]]
  <2> HIDE DEF k
  <2>3. m \in 1..(N - k + 1)
    BY <2>2, BlockIs
  <2>4. ASSUME NEW i \in k..(N + 1)
        PROVE  g[i] = IF i > N THEN <<>> ELSE Block(ls, i).rows \o g[i + Block(ls, i).length]
    <3>1. CASE i = k
      <4>1. k + m # k /\ k + m \in 1..(N + 1) /\ ~(k > N)
        BY <1>0, <2>2, <2>3
      <4> HIDE DEF m
      <4>2. g[k] = Block(ls, k).rows \o f[k + m] /\ g[k + m] = f[k + m]
        <5> DEFINE new == Block(ls, k).rows \o f[k + m]
                   q == k + m
        <5>1. g = [x \in 1..(N + 1) |-> IF x = k THEN new ELSE f[x]]
          OBVIOUS
        <5>2. k \in 1..(N + 1) /\ q \in 1..(N + 1) /\ q # k
          BY <1>0, <2>2, <4>1
        <5> HIDE DEF new, q, g
        <5>3. g[k] = new /\ g[q] = f[q]
          BY <5>1, <5>2
        <5>4. QED
          BY <5>3 DEF new, q
      <4>3. QED
        BY <3>1, <4>1, <4>2 DEF m
    <3>2. CASE i # k
      <4>1. i \in (k + 1)..(N + 1) /\ i \in 1..(N + 1)
        BY <1>0, <2>2, <3>2
      <4>2. f[i] = IF i > N THEN <<>> ELSE Block(ls, i).rows \o f[i + Block(ls, i).length]
        BY <2>1, <2>2, <4>1 DEF SplitsFrom
      <4>3. g[i] = f[i]
        BY <3>2, <4>1
      <4>4. ASSUME i <= N PROVE g[i + Block(ls, i).length] = f[i + Block(ls, i).length]
        <5> DEFINE b == Block(ls, i).length
        <5>1. b \in 1..(N - i + 1)
          BY <4>1, <4>4, BlockIs
        <5> HIDE DEF b
        <5>2. i + b \in 1..(N + 1) /\ i + b # k
          BY <1>0, <2>2, <4>1, <4>4, <5>1
        <5>3. g[i + b] = f[i + b]
          BY <5>2
        <5>4. QED
          BY <5>3 DEF b
      <4>5. i > N \/ i <= N
        BY <1>0, <4>1
      <4>6. QED
        BY <4>2, <4>3, <4>4, <4>5
    <3>3. QED
      BY <3>1, <3>2
  <2>5. DOMAIN g = 1..(N + 1) /\ SplitsFrom(g, ls, k)
    <3>1. DOMAIN g = 1..(N + 1)
      OBVIOUS
    <3> HIDE DEF g
    <3>2. SplitsFrom(g, ls, k)
      BY <2>4 DEF SplitsFrom
    <3>3. QED
      BY <3>1, <3>2
  <2>6. \E h : DOMAIN h = 1..(N + 1) /\ SplitsFrom(h, ls, N + 1 - (n + 1))
    <3> HIDE DEF g
    <3> QED BY <2>2, <2>5
  <2>7. QED
    BY <2>6
<1>3. \A n \in Nat : n \in T => n + 1 \in T
  <2> SUFFICES ASSUME NEW n \in Nat, n \in T PROVE n + 1 \in T
    OBVIOUS
  <2>1. CASE n + 1 <= N
    BY <1>2, <2>1
  <2>2. CASE ~(n + 1 <= N)
    BY <2>2
  <2>3. QED
    BY <2>1, <2>2
<1>4. \A n \in Nat : n \in T
  <2> HIDE DEF T
  <2> QED BY <1>1, <1>3, NatSets
<1>5. PICK f : DOMAIN f = 1..(N + 1) /\ SplitsFrom(f, ls, N + 1 - N)
  BY <1>0, <1>4
<1>6. N + 1 - N = 1
  BY <1>0
<1>7. SplitsFrom(f, ls, 1)
  BY <1>5, <1>6
<1> DEFINE h == [i \in 1..(N + 1) |-> f[i]]
<1>8. h = SplitFrom(h, ls)
  <2>1. \A i \in 1..(N + 1) : h[i] = f[i]
    OBVIOUS
  <2>2. DOMAIN h = 1..(N + 1)
    OBVIOUS
  <2>3. ASSUME NEW i \in 1..(N + 1)
        PROVE  h[i] = IF i > N THEN <<>> ELSE Block(ls, i).rows \o h[i + Block(ls, i).length]
    <3> HIDE DEF h
    <3>1. f[i] = IF i > N THEN <<>> ELSE Block(ls, i).rows \o f[i + Block(ls, i).length]
      BY <1>7 DEF SplitsFrom
    <3>2. ASSUME i <= N PROVE h[i + Block(ls, i).length] = f[i + Block(ls, i).length]
      <4> DEFINE b == Block(ls, i).length
      <4>1. b \in 1..(N - i + 1)
        BY <1>0, <3>2, BlockIs
      <4> HIDE DEF b
      <4>2. i + b \in 1..(N + 1)
        BY <1>0, <4>1
      <4>3. h[i + b] = f[i + b]
        BY <2>1, <4>2
      <4>4. QED
        BY <4>3 DEF b
    <3>3. i > N \/ i <= N
      BY <1>0
    <3>4. QED
      BY <2>1, <3>1, <3>2, <3>3
  <2>4. h = [i \in 1..(N + 1) |-> h[i]]
    OBVIOUS
  <2> HIDE DEF h
  <2>5. QED
    BY <2>3, <2>4 DEF SplitFrom
<1>9. QED
  <2> HIDE DEF h
  <2> QED BY <1>8

(***************************************************************************)
(* One block in front of rows that show the rest.                          *)
(***************************************************************************)
LEMMA SplitStep ==
  ASSUME NEW S, Kinded(S), NEW ls \in Seq(S), NEW f, f = SplitFrom(f, ls), NEW i \in 1..Len(ls),
         \A j \in (i + 1)..(Len(ls) + 1) : f[j] \in Seq(RowsOver(S)) /\ Shows(f[j], SubSeq(ls, j, Len(ls)))
  PROVE  f[i] \in Seq(RowsOver(S)) /\ Shows(f[i], SubSeq(ls, i, Len(ls)))
<1>0. Len(ls) \in Nat /\ i \in 1..(Len(ls) + 1) /\ ~(i > Len(ls))
  BY LenProperties
<1> DEFINE m == Block(ls, i).length
           x == Block(ls, i).rows
           j == i + m
<1>1. m \in 1..(Len(ls) - i + 1) /\ x \in Seq(RowsOver(S)) /\ Shows(x, SubSeq(ls, i, i + m - 1))
  BY BlockIs
<1>2. f[i] = x \o f[j]
  BY <1>0 DEF SplitFrom
<1> HIDE DEF m, x
<1>3. j \in (i + 1)..(Len(ls) + 1) /\ j \in 1..(Len(ls) + 1) /\ Len(ls) \in (j - 1)..Len(ls)
  BY <1>0, <1>1
<1>4. f[j] \in Seq(RowsOver(S)) /\ Shows(f[j], SubSeq(ls, j, Len(ls)))
  BY <1>3
<1>5. i + m - 1 \in (i - 1)..Len(ls) /\ Len(ls) \in (i + m - 1)..Len(ls) /\ (i + m - 1) + 1 = j
  BY <1>0, <1>1
<1> HIDE DEF j
<1>6. Joins(SubSeq(ls, i, Len(ls)), SubSeq(ls, i, i + m - 1), SubSeq(ls, j, Len(ls)))
  BY <1>0, <1>5, SpansJoin
<1>7. SubSeq(ls, i, i + m - 1) \in Seq(S) /\ SubSeq(ls, j, Len(ls)) \in Seq(S)
  BY <1>0, <1>3, <1>5, SpanIs
<1> DEFINE z == f[i]
           y == f[j]
           s == SubSeq(ls, i, i + m - 1)
           t == SubSeq(ls, j, Len(ls))
           u == SubSeq(ls, i, Len(ls))
<1>8. /\ x \in Seq(RowsOver(S)) /\ y \in Seq(RowsOver(S)) /\ s \in Seq(S) /\ t \in Seq(S)
      /\ Shows(x, s) /\ Shows(y, t) /\ Joins(z, x, y) /\ Joins(u, s, t)
  BY <1>1, <1>2, <1>4, <1>6, <1>7 DEF Joins
<1> HIDE DEF z, y, s, t, u
<1>9. z \in Seq(RowsOver(S)) /\ Shows(z, u)
  BY <1>8, ShowsJoin
<1>10. QED
  BY <1>9 DEF z, u

(***************************************************************************)
(* Split shows every line of a hunk, for hunks of any length.              *)
(***************************************************************************)
LEMMA SplitShows ==
  ASSUME NEW S, Kinded(S), NEW ls \in Seq(S)
  PROVE  Split(ls) \in Seq(RowsOver(S)) /\ Shows(Split(ls), ls)
<1>0. Len(ls) \in Nat
  BY LenProperties
<1> DEFINE from == CHOOSE f : f = [i \in 1..(Len(ls) + 1) |-> IF i > Len(ls) THEN <<>>
                                       ELSE Block(ls, i).rows \o f[i + Block(ls, i).length]]
<1>1. from = SplitFrom(from, ls)
  BY SplitExists, Zenon DEF SplitFrom
<1>2. Split(ls) = from[1]
  BY DEF Split
<1> HIDE DEF from
<1> DEFINE N == Len(ls)
           Q(i) == from[i] \in Seq(RowsOver(S)) /\ Shows(from[i], SubSeq(ls, i, N))
           Bad == {n \in 0..N : ~Q(N + 1 - n)}
<1>3. Q(N + 1)
  <2>1. from[N + 1] = <<>>
    BY <1>0, <1>1 DEF SplitFrom
  <2>2. SubSeq(ls, N + 1, N) = <<>>
    BY <1>0, SubSeqEmpty
  <2>3. QED
    BY <2>1, <2>2, ShowsNothing, EmptySeq
<1>4. ASSUME Bad # {} PROVE FALSE
  <2>1. PICK n \in Bad : \A y \in Bad : n <= y
    <3>1. Bad \in SUBSET Nat
      BY <1>0
    <3> HIDE DEF Bad
    <3>2. QED
      BY <1>4, <3>1, LeastOf
  <2>2. n \in 0..N /\ ~Q(N + 1 - n)
    OBVIOUS
  <2>3. \A y \in 0..N : y < n => Q(N + 1 - y)
    <3> HIDE DEF Q
    <3> SUFFICES ASSUME NEW y \in 0..N, y < n, ~Q(N + 1 - y) PROVE FALSE
      OBVIOUS
    <3>1. y \in Bad
      OBVIOUS
    <3> HIDE DEF Bad
    <3>2. n <= y
      BY <2>1, <3>1
    <3>3. QED
      BY <1>0, <2>2, <3>2
  <2> DEFINE i == N + 1 - n
  <2>4. n # 0
    <3>1. N + 1 - 0 = N + 1
      BY <1>0
    <3> HIDE DEF Q
    <3>2. QED
      BY <1>3, <2>2, <3>1
  <2>5. i \in 1..N
    BY <1>0, <2>2, <2>4
  <2>6. ASSUME NEW j \in (i + 1)..(N + 1) PROVE Q(j)
    <3>1. N + 1 - j \in 0..N /\ N + 1 - j < n /\ N + 1 - (N + 1 - j) = j
      BY <1>0, <2>2, <2>5
    <3> HIDE DEF Q, i
    <3>2. Q(N + 1 - (N + 1 - j))
      BY <2>3, <3>1
    <3>3. QED
      BY <3>1, <3>2
  <2> HIDE DEF i
  <2>7. Q(i)
    BY <1>1, <2>5, <2>6, SplitStep
  <2> HIDE DEF Q
  <2>8. QED
    BY <2>2, <2>7 DEF i
<1>5. Q(1)
  <2>1. N \in 0..N /\ N + 1 - N = 1
    BY <1>0
  <2> HIDE DEF Q
  <2>2. Q(N + 1 - N)
    BY <1>4, <2>1
  <2>3. QED
    BY <2>1, <2>2
<1>6. SubSeq(ls, 1, N) = ls
  BY SubSeqFull
<1>7. QED
  BY <1>2, <1>5, <1>6

-----------------------------------------------------------------------------
(* What is parsed, and its counts. *)

\* What the parser makes of a patch whose lines carry these words.
Words    == Texts \cup Paths \cup {"644", "755"}
Statuses == {"", "added", "deleted", "modified", "renamed", "copied", "mode"}
Warnings == {"hunk is short", "body is shorter", "body is longer", "not a usable number",
             "unparsable hunk header", "names no path"}

ParsedLine == [kind : Kinds, text : Words, noNL : BOOLEAN, oldNo : Nat, newNo : Nat]
ParsedHunk == [claim : Seq(Nat), lines : Seq(ParsedLine)]
ParsedFile ==
  [old : Words, new : Words, status : Statuses, oldMode : Words, newMode : Words, binary : BOOLEAN,
   hunks : Seq(ParsedHunk), adds : Nat, dels : Nat, flags : SUBSET Warnings]

(***************************************************************************)
(* The fields of parsed lines, hunks and files.                            *)
(***************************************************************************)
LEMMA FieldTypes ==
  /\ \A l \in ParsedLine : l.kind \in Kinds
  /\ \A h \in ParsedHunk : h.lines \in Seq(ParsedLine)
  /\ \A f \in ParsedFile : f.hunks \in Seq(ParsedHunk) /\ f.adds \in Nat /\ f.dels \in Nat /\ f.binary \in BOOLEAN
<1>1. \A l \in ParsedLine : l.kind \in Kinds
  BY DEF ParsedLine
<1>2. \A h \in ParsedHunk : h.lines \in Seq(ParsedLine)
  BY DEF ParsedLine, ParsedHunk
<1>3. \A f \in ParsedFile : f.hunks \in Seq(ParsedHunk) /\ f.adds \in Nat /\ f.dels \in Nat /\ f.binary \in BOOLEAN
  BY DEF ParsedFile
<1>4. QED
  BY <1>1, <1>2, <1>3

\* What BodyOf makes of one hunk.
BodyMap == [h \in ParsedHunk |-> h.lines]

(***************************************************************************)
(* The lines of some hunks are a flattened map of them.                    *)
(***************************************************************************)
LEMMA BodyIs ==
  ASSUME NEW hunks \in Seq(ParsedHunk)
  PROVE  BodyMap \in Maps(ParsedHunk, Seq(ParsedLine)) /\ BodyOf(hunks) = FlatMap(BodyMap, hunks)
<1>1. BodyMap \in Maps(ParsedHunk, Seq(ParsedLine))
  BY FieldTypes DEF BodyMap, Maps
<1>2. DOMAIN hunks = 1..Len(hunks) /\ \A i \in DOMAIN hunks : hunks[i] \in ParsedHunk
  BY LenProperties
<1>3. \A i \in DOMAIN hunks : BodyMap[hunks[i]] = hunks[i].lines
  BY <1>2 DEF BodyMap
<1>4. Image(BodyMap, hunks) = [i \in DOMAIN hunks |-> hunks[i].lines]
  BY <1>3 DEF Image
<1>5. QED
  BY <1>1, <1>4 DEF BodyOf, FlatMap

(***************************************************************************)
(* They are lines.                                                         *)
(***************************************************************************)
LEMMA BodyType ==
  ASSUME NEW hunks \in Seq(ParsedHunk)
  PROVE  BodyOf(hunks) \in Seq(ParsedLine) /\ Len(BodyOf(hunks)) \in Nat
<1> DEFINE H == ParsedHunk
           T == ParsedLine
<1>1. hunks \in Seq(H) /\ BodyMap \in Maps(H, Seq(T)) /\ BodyOf(hunks) = FlatMap(BodyMap, hunks)
  BY BodyIs
<1> HIDE DEF H, T
<1>2. BodyOf(hunks) \in Seq(T)
  BY <1>1, FlatMapType
<1>3. QED
  BY <1>2, LenProperties DEF T

(***************************************************************************)
(* Without hunks there are none.                                           *)
(***************************************************************************)
LEMMA BodyEmpty == BodyOf(<<>>) = <<>>
<1>1. <<>> \in Seq(ParsedHunk)
  BY EmptySeq
<1>2. QED
  BY <1>1, BodyIs, FlatMapEmpty

(***************************************************************************)
(* One more hunk adds its lines.                                           *)
(***************************************************************************)
LEMMA BodyAppend ==
  ASSUME NEW hunks \in Seq(ParsedHunk), NEW h \in ParsedHunk
  PROVE  BodyOf(Append(hunks, h)) = BodyOf(hunks) \o h.lines
<1>1. Append(hunks, h) \in Seq(ParsedHunk)
  BY AppendProperties
<1>2. BodyOf(Append(hunks, h)) = FlatMap(BodyMap, Append(hunks, h))
  BY <1>1, BodyIs
<1>3. BodyMap \in Maps(ParsedHunk, Seq(ParsedLine)) /\ BodyOf(hunks) = FlatMap(BodyMap, hunks)
  BY BodyIs
<1>4. BodyMap[h] = h.lines
  BY DEF BodyMap
<1> DEFINE H == ParsedHunk
           T == ParsedLine
<1>5. hunks \in Seq(H) /\ h \in H /\ BodyMap \in Maps(H, Seq(T))
  BY <1>3
<1>6. FlatMap(BodyMap, Append(hunks, h)) = FlatMap(BodyMap, hunks) \o BodyMap[h]
  <2> HIDE DEF H, T
  <2> QED BY <1>5, FlatMapAppend
<1>7. QED
  BY <1>2, <1>3, <1>4, <1>6

\* What Shown makes of one file.
ShownMap == [f \in ParsedFile |-> BodyOf(f.hunks)]

(***************************************************************************)
(* The lines of some files are a flattened map too.                        *)
(***************************************************************************)
LEMMA ShownIs ==
  ASSUME NEW fs \in Seq(ParsedFile)
  PROVE  ShownMap \in Maps(ParsedFile, Seq(ParsedLine)) /\ Shown(fs) = FlatMap(ShownMap, fs)
<1>1. ShownMap \in Maps(ParsedFile, Seq(ParsedLine))
  BY FieldTypes, BodyType DEF ShownMap, Maps
<1>2. DOMAIN fs = 1..Len(fs) /\ \A i \in DOMAIN fs : fs[i] \in ParsedFile
  BY LenProperties
<1>3. \A i \in DOMAIN fs : ShownMap[fs[i]] = BodyOf(fs[i].hunks)
  BY <1>2 DEF ShownMap
<1>4. Image(ShownMap, fs) = [i \in DOMAIN fs |-> BodyOf(fs[i].hunks)]
  BY <1>3 DEF Image
<1>5. QED
  BY <1>1, <1>4 DEF Shown, FlatMap

(***************************************************************************)
(* They are lines.                                                         *)
(***************************************************************************)
LEMMA ShownType ==
  ASSUME NEW fs \in Seq(ParsedFile)
  PROVE  Shown(fs) \in Seq(ParsedLine)
<1> DEFINE F == ParsedFile
           T == ParsedLine
<1>1. fs \in Seq(F) /\ ShownMap \in Maps(F, Seq(T)) /\ Shown(fs) = FlatMap(ShownMap, fs)
  BY ShownIs
<1> HIDE DEF F, T
<1>2. Shown(fs) \in Seq(T)
  BY <1>1, FlatMapType
<1>3. QED
  BY <1>2 DEF T

(***************************************************************************)
(* Without files there are none.                                           *)
(***************************************************************************)
LEMMA ShownEmpty == Shown(<<>>) = <<>>
<1>1. <<>> \in Seq(ParsedFile)
  BY EmptySeq
<1>2. QED
  BY <1>1, ShownIs, FlatMapEmpty

(***************************************************************************)
(* One more file adds the lines of its hunks.                              *)
(***************************************************************************)
LEMMA ShownAppend ==
  ASSUME NEW fs \in Seq(ParsedFile), NEW f \in ParsedFile
  PROVE  Shown(Append(fs, f)) = Shown(fs) \o BodyOf(f.hunks)
<1>1. Append(fs, f) \in Seq(ParsedFile)
  BY AppendProperties
<1>2. Shown(Append(fs, f)) = FlatMap(ShownMap, Append(fs, f))
  BY <1>1, ShownIs
<1>3. ShownMap \in Maps(ParsedFile, Seq(ParsedLine)) /\ Shown(fs) = FlatMap(ShownMap, fs)
  BY ShownIs
<1>4. ShownMap[f] = BodyOf(f.hunks)
  BY DEF ShownMap
<1> DEFINE F == ParsedFile
           T == ParsedLine
<1>5. fs \in Seq(F) /\ f \in F /\ ShownMap \in Maps(F, Seq(T))
  BY <1>3
<1>6. FlatMap(ShownMap, Append(fs, f)) = FlatMap(ShownMap, fs) \o ShownMap[f]
  <2> HIDE DEF F, T
  <2> QED BY <1>5, FlatMapAppend
<1>7. QED
  BY <1>2, <1>3, <1>4, <1>6

(***************************************************************************)
(* How many of a sequence's lines are of these kinds.                      *)
(***************************************************************************)
LEMMA OnlyCounts ==
  ASSUME NEW S, NEW K, NEW s \in Seq(S), NEW t \in Seq(S)
  PROVE  Len(Only(s \o t, K)) = Len(Only(s, K)) + Len(Only(t, K))
<1> DEFINE u == s \o t
<1>1. Joins(u, s, t)
  BY DEF Joins
<1> HIDE DEF u
<1>2. Joins(Only(u, K), Only(s, K), Only(t, K))
  BY <1>1, OnlyJoin
<1>3. Only(s, K) \in Seq(S) /\ Only(t, K) \in Seq(S)
  BY OnlyType
<1>4. Len(Only(u, K)) = Len(Only(s, K)) + Len(Only(t, K))
  BY <1>2, <1>3, JoinIs
<1>5. QED
  BY <1>4 DEF u

(***************************************************************************)
(* One more file adds what its hunks count.                                *)
(***************************************************************************)
LEMMA CountsAdd ==
  ASSUME NEW fs \in Seq(ParsedFile), NEW f \in ParsedFile, NEW kind
  PROVE  Len(Only(Shown(Append(fs, f)), {kind})) = Len(Only(Shown(fs), {kind})) + CountOf(f.hunks, kind)
<1>1. Shown(fs) \in Seq(ParsedLine) /\ BodyOf(f.hunks) \in Seq(ParsedLine)
  BY FieldTypes, ShownType, BodyType
<1>2. Len(Only(Shown(fs) \o BodyOf(f.hunks), {kind})) = Len(Only(Shown(fs), {kind})) + Len(Only(BodyOf(f.hunks), {kind}))
  BY <1>1, OnlyCounts
<1>3. QED
  BY <1>2, ShownAppend DEF CountOf

-----------------------------------------------------------------------------
(* fillFiles, file by file. *)

\* The rows that the first n files take, as far as they are in this set.
BodiesIn(fs, n, is) == [i \in 1..n |-> IF i \in is THEN BodyOf(fs[i].hunks) ELSE <<>>]
RowsIn(fs, n, is)   == Len(FlattenSeq(BodiesIn(fs, n, is)))

(***************************************************************************)
(* The fields of the i-th file.                                            *)
(***************************************************************************)
LEMMA FileFields ==
  ASSUME NEW fs \in Seq(ParsedFile), NEW i \in 1..Len(fs)
  PROVE  /\ fs[i] \in ParsedFile /\ fs[i].hunks \in Seq(ParsedHunk)
         /\ BodyOf(fs[i].hunks) \in Seq(ParsedLine) /\ Rows(fs[i]) \in Nat
         /\ fs[i].adds \in Nat /\ fs[i].dels \in Nat
<1>1. fs[i] \in ParsedFile
  BY LenProperties
<1>2. fs[i].hunks \in Seq(ParsedHunk) /\ fs[i].adds \in Nat /\ fs[i].dels \in Nat
  BY <1>1, FieldTypes
<1>3. QED
  BY <1>1, <1>2, BodyType DEF Rows

(***************************************************************************)
(* The lines of the first n files, each file's by itself.                  *)
(***************************************************************************)
LEMMA BodiesType ==
  ASSUME NEW fs \in Seq(ParsedFile), NEW n \in Nat, n <= Len(fs), NEW is
  PROVE  BodiesIn(fs, n, is) \in Seq(Seq(ParsedLine)) /\ Len(BodiesIn(fs, n, is)) = n
<1> DEFINE U == Seq(ParsedLine)
<1>0. Len(fs) \in Nat
  BY LenProperties
<1>1. ASSUME NEW i \in 1..n PROVE (IF i \in is THEN BodyOf(fs[i].hunks) ELSE <<>>) \in U
  <2>1. BodyOf(fs[i].hunks) \in U
    BY <1>0, FileFields
  <2>2. QED
    BY <2>1, EmptySeq
<1> HIDE DEF U
<1>2. BodiesIn(fs, n, is) \in [1..n -> U]
  BY <1>1 DEF BodiesIn
<1>3. QED
  BY <1>2, FunctionIsSeq DEF U

(***************************************************************************)
(* The rows that some files take are a number.                             *)
(***************************************************************************)
LEMMA RowsType ==
  ASSUME NEW fs \in Seq(ParsedFile), NEW n \in Nat, n <= Len(fs), NEW is
  PROVE  RowsIn(fs, n, is) \in Nat
<1>1. FlattenSeq(BodiesIn(fs, n, is)) \in Seq(ParsedLine)
  BY BodiesType, FlattenType
<1>2. QED
  BY <1>1, LenProperties DEF RowsIn

(***************************************************************************)
(* They grow by the rows of the next file, when it is among the rendered.  *)
(***************************************************************************)
LEMMA RowsAdd ==
  ASSUME NEW fs \in Seq(ParsedFile), NEW n \in Nat, n + 1 <= Len(fs), NEW is, NEW js,
         \A i \in 1..n : i \in is <=> i \in js
  PROVE  RowsIn(fs, n + 1, js) = RowsIn(fs, n, is) + IF n + 1 \in js THEN Rows(fs[n + 1]) ELSE 0
<1>0. Len(fs) \in Nat /\ n <= Len(fs) /\ n + 1 \in 1..Len(fs)
  BY LenProperties
<1> DEFINE U == Seq(ParsedLine)
           a == BodiesIn(fs, n, is)
           b == BodiesIn(fs, n + 1, js)
           x == IF n + 1 \in js THEN BodyOf(fs[n + 1].hunks) ELSE <<>>
<1>1. x \in U
  BY <1>0, FileFields, EmptySeq
<1>2. a \in Seq(U) /\ Len(a) = n /\ b \in Seq(U) /\ Len(b) = n + 1
  BY <1>0, BodiesType
<1>3. (\A i \in 1..n : b[i] = a[i]) /\ b[n + 1] = x
  BY DEF BodiesIn
<1>4. FlattenSeq(Append(a, x)) = FlattenSeq(a) \o x
  BY <1>1, <1>2, FlattenAppend
<1>5. FlattenSeq(a) \in Seq(ParsedLine)
  BY <1>2, FlattenType
<1>6. Len(FlattenSeq(a) \o x) = Len(FlattenSeq(a)) + Len(x)
  BY <1>1, <1>5, CatIs
<1>7. Len(x) = IF n + 1 \in js THEN Rows(fs[n + 1]) ELSE 0
  BY EmptySeq DEF Rows
<1> HIDE DEF a, b, x, U
<1>8. /\ Append(a, x) \in Seq(U) /\ Len(Append(a, x)) = n + 1
      /\ (\A i \in 1..n : Append(a, x)[i] = a[i]) /\ Append(a, x)[n + 1] = x
  BY <1>1, <1>2, AppendProperties
<1>9. \A i \in 1..(n + 1) : Append(a, x)[i] = b[i]
  BY <1>3, <1>8
<1>10. b = Append(a, x)
  BY <1>2, <1>8, <1>9, SeqEqual
<1>11. QED
  BY <1>4, <1>6, <1>7, <1>10 DEF RowsIn, a, b

-----------------------------------------------------------------------------

\* What the page has of a file, as a stub or not.
PageFile(f, stub) ==
  [stub |-> stub, flags |-> f.flags,
   hunks |-> IF ~stub /\ ~f.binary THEN f.hunks ELSE <<>>,
   split |-> IF ~stub /\ ~f.binary THEN [h \in DOMAIN f.hunks |-> Split(f.hunks[h].lines)] ELSE <<>>]

\* Everything that it may have of some files.
PageFiles(fs) == {PageFile(fs[i], b) : i \in 1..Len(fs), b \in BOOLEAN}

\* The files that are not stubs.
Rendered(v, n) == {i \in 1..n : ~v.files[i].stub}

\* Every file counts what its hunks hold.
Counted(fs) == \A i \in 1..Len(fs) : fs[i].adds = CountOf(fs[i].hunks, "add") /\ fs[i].dels = CountOf(fs[i].hunks, "del")

\* What fillFiles has after n files.
Views(v, fs, n)    == \A i \in 1..n : v.files[i].stub \in BOOLEAN /\ v.files[i] = PageFile(fs[i], v.files[i].stub)
Totals(v, fs, n)   == /\ v.adds = Len(Only(Shown(SubSeq(fs, 1, n)), {"add"}))
                      /\ v.dels = Len(Only(Shown(SubSeq(fs, 1, n)), {"del"}))
                      /\ v.stubs = n - Cardinality(Rendered(v, n))

\* What is rendered was spent, and fits in the budget without the file asked for.
Within(v, fs, n, focus) == /\ v.spent \in Nat
                           /\ RowsIn(fs, n, Rendered(v, n) \ {focus}) <= v.spent
                           /\ RowsIn(fs, n, Rendered(v, n) \ {focus}) <= Budget

\* Nothing is rendered behind a stub but the file asked for.
InOrder(v, n, focus) == /\ v.stubbing \in BOOLEAN
                        /\ focus \in 1..n => ~v.files[focus].stub
                        /\ ~v.stubbing => \A i \in 1..n : ~v.files[i].stub
                        /\ \A i, k \in 1..n : v.files[i].stub /\ ~v.files[k].stub => k < i \/ k = focus

\* The invariant of fillFiles' loop.
Filling(v, fs, n, focus) ==
  /\ v.files \in Seq(PageFiles(fs)) /\ Len(v.files) = n
  /\ Views(v, fs, n) /\ Totals(v, fs, n) /\ Within(v, fs, n, focus) /\ InOrder(v, n, focus)

(***************************************************************************)
(* Before the first file nothing is shown, counted or spent.               *)
(***************************************************************************)
LEMMA FillingNothing ==
  ASSUME NEW fs \in Seq(ParsedFile), NEW focus
  PROVE  Filling(NothingYet, fs, 0, focus)
<1> DEFINE v == NothingYet
<1>1. v.files = <<>> /\ v.adds = 0 /\ v.dels = 0 /\ v.stubs = 0 /\ v.spent = 0 /\ v.stubbing = FALSE
  BY DEF NothingYet
<1> HIDE DEF v
<1>2. v.files \in Seq(PageFiles(fs)) /\ Len(v.files) = 0
  BY <1>1, EmptySeq
<1>3. Rendered(v, 0) = {} /\ Rendered(v, 0) \ {focus} = {}
  BY DEF Rendered
<1>4. Views(v, fs, 0) /\ InOrder(v, 0, focus)
  <2>1. \A i \in 1..0 : FALSE
    OBVIOUS
  <2>2. Views(v, fs, 0)
    BY <2>1 DEF Views
  <2>3. v.stubbing \in BOOLEAN
    BY <1>1
  <2>4. InOrder(v, 0, focus)
    BY <2>1, <2>3, Zenon DEF InOrder
  <2>5. QED
    BY <2>2, <2>4
<1>5. Totals(v, fs, 0)
  <2>1. SubSeq(fs, 1, 0) = <<>>
    BY SubSeqEmpty
  <2>2. \A K : Len(Only(Shown(SubSeq(fs, 1, 0)), K)) = 0
    BY <2>1, ShownEmpty, OnlyEmpty, EmptySeq
  <2>3. Cardinality({}) = 0
    BY FS_EmptySet
  <2>4. QED
    <3>1. v.adds = 0 /\ v.dels = 0 /\ v.stubs = 0 - 0
      BY <1>1
    <3>2. QED
      BY <1>3, <2>2, <2>3, <3>1, Zenon DEF Totals
<1>6. Within(v, fs, 0, focus)
  <2>1. BodiesIn(fs, 0, {}) = <<>>
    BY DEF BodiesIn
  <2>2. RowsIn(fs, 0, {}) = 0
    BY <2>1, FlattenEmpty, EmptySeq DEF RowsIn
  <2>3. QED
    <3>1. v.spent \in Nat /\ 0 <= v.spent /\ 0 <= Budget
      BY <1>1, BudgetAssumption
    <3>2. QED
      BY <1>3, <2>2, <3>1, Zenon DEF Within
<1>7. QED
  BY <1>2, <1>4, <1>5, <1>6 DEF Filling, v

(***************************************************************************)
(* fillFiles, one file further: the page has the file or its stub, the     *)
(* totals count either, the rendered ones stay within the budget, and no   *)
(* file is rendered behind a stub but the one asked for.                   *)
(***************************************************************************)
LEMMA FillingStep ==
  ASSUME NEW fs \in Seq(ParsedFile), Counted(fs), NEW focus \in Nat, NEW n \in Nat, n + 1 <= Len(fs),
         NEW v, Filling(v, fs, n, focus)
  PROVE  Filling(View(v, fs[n + 1], n + 1, focus), fs, n + 1, focus)
<1> DEFINE m == n + 1
           f == fs[m]
           w == View(v, f, m, focus)
           render == m = focus \/ (~v.stubbing /\ v.spent + Rows(f) <= Budget)
           new == PageFile(f, ~render)
           F == PageFiles(fs)
<1>0. Len(fs) \in Nat /\ m \in 1..Len(fs) /\ n <= Len(fs) /\ m \in Nat
  BY LenProperties
<1>1. /\ w.spent = (IF render THEN v.spent + Rows(f) ELSE v.spent)
      /\ w.stubbing = (v.stubbing \/ ~render)
      /\ w.adds = v.adds + f.adds /\ w.dels = v.dels + f.dels
      /\ w.stubs = (IF render THEN v.stubs ELSE v.stubs + 1)
      /\ w.files = Append(v.files, new)
  BY DEF View, PageFile
<1>2. f \in ParsedFile /\ Rows(f) \in Nat /\ f.adds \in Nat /\ f.dels \in Nat /\ f.hunks \in Seq(ParsedHunk)
  BY <1>0, FileFields
<1>3. f.adds = CountOf(f.hunks, "add") /\ f.dels = CountOf(f.hunks, "del")
  BY <1>0 DEF Counted
<1>4. render \in BOOLEAN
  OBVIOUS
<1>5. new \in F /\ new.stub = ~render /\ new.stub \in BOOLEAN
  <2>1. new.stub = ~render /\ new.stub \in BOOLEAN
    BY DEF PageFile
  <2> DEFINE b == ~render
  <2>2. b \in BOOLEAN /\ new = PageFile(fs[m], b)
    OBVIOUS
  <2> HIDE DEF b, new
  <2>3. new \in F
    BY <1>0, <2>2 DEF PageFiles
  <2>4. QED
    BY <2>1, <2>3
<1>6. v.files \in Seq(F) /\ Len(v.files) = n /\ Views(v, fs, n) /\ Totals(v, fs, n) /\ Within(v, fs, n, focus) /\ InOrder(v, n, focus)
  BY DEF Filling
<1>7. new = PageFile(f, new.stub)
  BY <1>5
<1>8. SubSeq(fs, 1, m) = Append(SubSeq(fs, 1, n), f) /\ SubSeq(fs, 1, n) \in Seq(ParsedFile)
  BY FrontGrows
<1>9. /\ render = (m = focus \/ (~v.stubbing /\ v.spent + Rows(f) <= Budget))
  OBVIOUS
<1> HIDE DEF w, f, render, new, F, m
<1>10. m = n + 1
  BY DEF m
<1>11. /\ w.files \in Seq(F) /\ Len(w.files) = m
       /\ (\A i \in 1..n : w.files[i] = v.files[i]) /\ w.files[m] = new
  BY <1>1, <1>5, <1>6, <1>10, AppendProperties
<1>12. Views(w, fs, m)
  <2> SUFFICES ASSUME NEW i \in 1..m PROVE w.files[i].stub \in BOOLEAN /\ w.files[i] = PageFile(fs[i], w.files[i].stub)
    BY DEF Views
  <2>1. CASE i = m
    <3>1. w.files[i] = new /\ fs[i] = f
      BY <1>11, <2>1 DEF f
    <3>2. QED
      BY <1>5, <1>7, <3>1
  <2>2. CASE i # m
    <3>1. i \in 1..n
      BY <1>10, <2>2
    <3>2. QED
      BY <1>6, <1>11, <3>1 DEF Views
  <2>3. QED
    BY <2>1, <2>2
<1>13. Rendered(w, m) = Rendered(v, n) \cup (IF render THEN {m} ELSE {}) /\ m \notin Rendered(v, n)
  <2>1. ASSUME NEW i \in 1..m PROVE i \in Rendered(w, m) <=> i \in Rendered(v, n) \/ (render /\ i = m)
    <3>1. CASE i = m
      BY <1>5, <1>10, <1>11, <3>1 DEF Rendered
    <3>2. CASE i # m
      <4>1. i \in 1..n
        BY <1>10, <3>2
      <4>2. QED
        BY <1>11, <3>2, <4>1 DEF Rendered
    <3>3. QED
      BY <3>1, <3>2
  <2>2. Rendered(w, m) \subseteq 1..m /\ Rendered(v, n) \subseteq 1..m /\ m \notin Rendered(v, n) /\ m \in 1..m
    BY <1>0, <1>10 DEF Rendered
  <2>3. QED
    BY <2>1, <2>2
<1>14. Totals(w, fs, m)
  <2>1. /\ Len(Only(Shown(SubSeq(fs, 1, m)), {"add"})) = Len(Only(Shown(SubSeq(fs, 1, n)), {"add"})) + f.adds
        /\ Len(Only(Shown(SubSeq(fs, 1, m)), {"del"})) = Len(Only(Shown(SubSeq(fs, 1, n)), {"del"})) + f.dels
    <3> DEFINE front == SubSeq(fs, 1, n)
               whole == SubSeq(fs, 1, m)
    <3>1. front \in Seq(ParsedFile) /\ whole = Append(front, f)
      BY <1>8
    <3> HIDE DEF front, whole
    <3>2. ASSUME NEW kind PROVE Len(Only(Shown(whole), {kind})) = Len(Only(Shown(front), {kind})) + CountOf(f.hunks, kind)
      BY <1>2, <3>1, CountsAdd
    <3>3. QED
      BY <1>3, <3>2 DEF front, whole
  <2>2. IsFiniteSet(Rendered(v, n)) /\ Cardinality(Rendered(v, n)) \in Nat
    <3>1. IsFiniteSet(1..n)
      BY FS_Interval
    <3>2. QED
      BY <3>1, FS_Subset, FS_CardinalityType DEF Rendered
  <2>3. Cardinality(Rendered(w, m)) = Cardinality(Rendered(v, n)) + IF render THEN 1 ELSE 0
    <3>1. CASE render
      <4>1. Rendered(w, m) = Rendered(v, n) \cup {m}
        BY <1>13, <3>1
      <4>2. QED
        BY <1>13, <2>2, <3>1, <4>1, FS_AddElement
    <3>2. CASE ~render
      <4>1. Rendered(w, m) = Rendered(v, n)
        BY <1>13, <3>2
      <4>2. QED
        BY <2>2, <3>2, <4>1
    <3>3. QED
      BY <3>1, <3>2
  <2>4. w.stubs = m - Cardinality(Rendered(w, m))
    <3>1. v.stubs = n - Cardinality(Rendered(v, n))
      BY <1>6 DEF Totals
    <3>2. w.stubs = IF render THEN v.stubs ELSE v.stubs + 1
      BY <1>1
    <3>3. QED
      BY <1>4, <1>10, <2>2, <2>3, <3>1, <3>2
  <2>5. QED
    BY <1>1, <1>6, <2>1, <2>4 DEF Totals
<1>15. Within(w, fs, m, focus)
  <2> DEFINE is == Rendered(v, n) \ {focus}
             js == Rendered(w, m) \ {focus}
  <2>1. \A i \in 1..n : i \in is <=> i \in js
    BY <1>10, <1>13
  <2>2. m \in js <=> render /\ m # focus
    BY <1>13
  <2>3. RowsIn(fs, n, is) \in Nat /\ RowsIn(fs, n, is) <= v.spent /\ RowsIn(fs, n, is) <= Budget /\ v.spent \in Nat
    BY <1>0, <1>6, RowsType DEF Within
  <2> HIDE DEF is, js
  <2>4. RowsIn(fs, m, js) = RowsIn(fs, n, is) + IF m \in js THEN Rows(f) ELSE 0
    BY <2>1, RowsAdd DEF m, f
  <2>5. w.spent = IF render THEN v.spent + Rows(f) ELSE v.spent
    BY <1>1
  <2>6. CASE render /\ m # focus
    <3>1. v.spent + Rows(f) <= Budget
      BY <1>9, <2>6
    <3>2. RowsIn(fs, m, js) = RowsIn(fs, n, is) + Rows(f) /\ w.spent = v.spent + Rows(f)
      BY <2>2, <2>4, <2>5, <2>6
    <3>3. w.spent \in Nat /\ RowsIn(fs, m, js) <= w.spent /\ RowsIn(fs, m, js) <= Budget
      BY <1>2, <2>3, <3>1, <3>2, BudgetAssumption
    <3>4. QED
      BY <3>3 DEF Within, js
  <2>7. CASE ~(render /\ m # focus)
    <3>1. RowsIn(fs, m, js) = RowsIn(fs, n, is)
      BY <2>2, <2>3, <2>4, <2>7
    <3>2. w.spent \in Nat /\ v.spent <= w.spent
      BY <1>2, <1>4, <2>3, <2>5
    <3>3. w.spent \in Nat /\ RowsIn(fs, m, js) <= w.spent /\ RowsIn(fs, m, js) <= Budget
      BY <2>3, <3>1, <3>2
    <3>4. QED
      BY <3>3 DEF Within, js
  <2>8. QED
    BY <2>6, <2>7
<1>16. InOrder(w, m, focus)
  <2>1. /\ v.stubbing \in BOOLEAN
        /\ focus \in 1..n => ~v.files[focus].stub
        /\ ~v.stubbing => \A i \in 1..n : ~v.files[i].stub
        /\ \A i, k \in 1..n : v.files[i].stub /\ ~v.files[k].stub => k < i \/ k = focus
    BY <1>6 DEF InOrder
  <2>2. w.stubbing \in BOOLEAN
    BY <1>1, <1>4, <2>1
  <2>3. ASSUME focus \in 1..m PROVE ~w.files[focus].stub
    <3>1. CASE focus = m
      BY <1>5, <1>9, <1>11, <3>1
    <3>2. CASE focus # m
      <4>1. focus \in 1..n
        BY <1>10, <2>3, <3>2
      <4>2. QED
        BY <1>11, <2>1, <4>1
    <3>3. QED
      BY <3>1, <3>2
  <2>4. ASSUME ~w.stubbing, NEW i \in 1..m PROVE ~w.files[i].stub
    <3>1. ~v.stubbing /\ render
      BY <1>1, <2>4
    <3>2. CASE i = m
      BY <1>5, <1>11, <3>1, <3>2
    <3>3. CASE i # m
      <4>1. i \in 1..n
        BY <1>10, <3>3
      <4>2. QED
        BY <1>11, <2>1, <3>1, <4>1
    <3>4. QED
      BY <3>2, <3>3
  <2>5. ASSUME NEW i \in 1..m, NEW k \in 1..m, w.files[i].stub, ~w.files[k].stub PROVE k < i \/ k = focus
    <3>1. CASE k = m
      <4>1. render
        BY <1>5, <1>11, <2>5, <3>1
      <4>2. i # m
        BY <2>5, <3>1
      <4>3. i \in 1..n /\ v.files[i].stub
        BY <1>10, <1>11, <2>5, <4>2
      <4>4. v.stubbing
        BY <2>1, <4>3
      <4>5. QED
        BY <1>9, <3>1, <4>1, <4>4
    <3>2. CASE k # m
      <4>1. k \in 1..n /\ ~v.files[k].stub
        <5>1. k \in 1..n
          BY <1>10, <3>2
        <5>2. QED
          BY <1>11, <2>5, <5>1
      <4>2. CASE i = m
        BY <1>10, <4>1, <4>2
      <4>3. CASE i # m
        <5>1. i \in 1..n
          BY <1>10, <4>3
        <5>2. v.files[i].stub
          BY <1>11, <2>5, <5>1
        <5>3. QED
          BY <2>1, <4>1, <5>1, <5>2
      <4>4. QED
        BY <4>2, <4>3
    <3>3. QED
      BY <3>1, <3>2
  <2>6. QED
    BY <2>2, <2>3, <2>4, <2>5 DEF InOrder
<1>17. Filling(w, fs, m, focus)
  BY <1>11, <1>12, <1>14, <1>15, <1>16 DEF Filling, F
<1>18. QED
  BY <1>17 DEF w, m, f

\* The function that Filled chooses.
FilledTo(f, fs, focus, n) == [k \in 0..n |-> IF k = 0 THEN NothingYet ELSE View(f[k - 1], fs[k], k, focus)]

(***************************************************************************)
(* The recursion over the files has a solution at every length.            *)
(***************************************************************************)
LEMMA FilledExists ==
  ASSUME NEW fs, NEW focus
  PROVE  \A n \in Nat : \E f : f = FilledTo(f, fs, focus, n)
<1> DEFINE T == {n \in Nat : \E f : f = FilledTo(f, fs, focus, n)}
<1>1. 0 \in T
  <2> DEFINE f == [k \in 0..0 |-> NothingYet]
  <2>1. f = FilledTo(f, fs, focus, 0)
    BY DEF FilledTo
  <2>2. QED
    BY <2>1
<1>2. ASSUME NEW n \in Nat, n \in T PROVE n + 1 \in T
  <2>1. PICK f : f = FilledTo(f, fs, focus, n)
    BY <1>2
  <2> DEFINE new == View(f[n], fs[n + 1], n + 1, focus)
             g   == [k \in 0..(n + 1) |-> IF k <= n THEN f[k] ELSE new]
  <2>2. ASSUME NEW k \in 0..(n + 1) PROVE g[k] = IF k = 0 THEN NothingYet ELSE View(g[k - 1], fs[k], k, focus)
    <3>1. CASE k = 0
      <4>1. f[0] = NothingYet
        BY <2>1 DEF FilledTo
      <4>2. QED
        BY <3>1, <4>1
    <3>2. CASE k \in 1..n
      <4>1. k \in 0..n /\ k # 0
        BY <3>2
      <4>2. f[k] = View(f[k - 1], fs[k], k, focus)
        BY <2>1, <4>1 DEF FilledTo
      <4>3. g[k] = f[k] /\ g[k - 1] = f[k - 1]
        BY <3>2
      <4>4. QED
        BY <4>1, <4>2, <4>3
    <3>3. CASE k = n + 1
      <4>1. g[k] = new /\ g[k - 1] = f[n] /\ k # 0
        BY <3>3
      <4>2. QED
        BY <3>3, <4>1
    <3>4. QED
      BY <3>1, <3>2, <3>3
  <2>3. g = FilledTo(g, fs, focus, n + 1)
    <3>1. g = [k \in 0..(n + 1) |-> g[k]]
      OBVIOUS
    <3> HIDE DEF g
    <3>2. QED
      BY <2>2, <3>1 DEF FilledTo
  <2>4. QED
    BY <2>3
<1> HIDE DEF T
<1>3. \A n \in Nat : n \in T
  BY <1>1, <1>2, NatSets
<1>4. QED
  BY <1>3 DEF T

(***************************************************************************)
(* After the last file all of that holds for the whole patch.              *)
(***************************************************************************)
LEMMA FilledIs ==
  ASSUME NEW fs \in Seq(ParsedFile), Counted(fs), NEW focus \in Nat
  PROVE  Filling(Filled(fs, focus), fs, Len(fs), focus)
<1> DEFINE N == Len(fs)
           upTo == CHOOSE f : f = [k \in 0..Len(fs) |-> IF k = 0 THEN NothingYet ELSE View(f[k - 1], fs[k], k, focus)]
           T == {n \in Nat : n <= N => Filling(upTo[n], fs, n, focus)}
<1>0. N \in Nat
  BY LenProperties
<1>1. upTo = FilledTo(upTo, fs, focus, N)
  <2>1. \E f : f = FilledTo(f, fs, focus, N)
    BY <1>0, FilledExists
  <2>2. QED
    BY <2>1, Zenon DEF FilledTo
<1>2. Filled(fs, focus) = upTo[N]
  BY DEF Filled
<1> HIDE DEF upTo
<1>3. 0 \in T
  <2>1. upTo[0] = NothingYet
    BY <1>0, <1>1 DEF FilledTo
  <2>2. QED
    BY <2>1, FillingNothing
<1>4. ASSUME NEW n \in Nat, n \in T PROVE n + 1 \in T
  <2> SUFFICES ASSUME n + 1 <= N PROVE Filling(upTo[n + 1], fs, n + 1, focus)
    OBVIOUS
  <2>1. Filling(upTo[n], fs, n, focus)
    BY <1>0, <1>4
  <2>2. upTo[n + 1] = View(upTo[n], fs[n + 1], n + 1, focus)
    <3>1. n + 1 \in 0..N /\ n + 1 # 0 /\ (n + 1) - 1 = n
      BY <1>0
    <3> HIDE DEF N
    <3>2. QED
      BY <1>1, <3>1 DEF FilledTo
  <2>3. QED
    BY <2>1, <2>2, FillingStep
<1> HIDE DEF T
<1>5. \A n \in Nat : n \in T
  BY <1>3, <1>4, NatSets
<1>6. QED
  BY <1>0, <1>2, <1>5 DEF T

-----------------------------------------------------------------------------
(* The parser: files and hunks. *)

\* The parser, with everything of its state that the hunks and the counts rest on.
Parsers ==
  [state : {"header", "hunk", "payload"}, files : Seq(ParsedFile), inFile : BOOLEAN, cur : ParsedFile,
   inHunk : BOOLEAN, hunk : ParsedHunk, hdrOld : Words, hdrNew : Words, sawOldHeader : BOOLEAN,
   sawOldNull : BOOLEAN, sawNewNull : BOOLEAN, sawModeLine : BOOLEAN, oldRem : Int, newRem : Int,
   oldNo : Nat, newNo : Nat, at : Nat, err : BOOLEAN, closed : BOOLEAN]

\* The counts of a file and the lines of its hunks, the open one's included.
Tally(f, h) == /\ f.adds = CountOf(f.hunks, "add") + Len(Only(h.lines, {"add"}))
               /\ f.dels = CountOf(f.hunks, "del") + Len(Only(h.lines, {"del"}))

\* The counts are in order, a hunk is open only in a file, and the hunk state has an open hunk.
Sound(q) ==
  /\ Counted(q.files) /\ Tally(q.cur, q.hunk)
  /\ ~q.inHunk => q.hunk = NoHunk
  /\ q.inHunk => q.inFile
  /\ q.state = "hunk" => q.inHunk

\* A step of the parser that leaves the counts in order, and closes nothing.
Keeps(q, r) == r \in Parsers /\ Sound(r) /\ r.at = q.at /\ r.closed = q.closed

(***************************************************************************)
(* The parser before the first line.                                       *)
(***************************************************************************)
LEMMA Nothing ==
  /\ NoFile \in ParsedFile /\ NoHunk \in ParsedHunk /\ NoHunk.lines = <<>> /\ Tally(NoFile, NoHunk) /\ Start \in Parsers
<1>1. NoHunk \in ParsedHunk /\ NoHunk.lines = <<>>
  <2>1. NoClaim \in Seq(Nat)
    BY DEF NoClaim
  <2>2. <<>> \in Seq(ParsedLine)
    BY EmptySeq
  <2>3. QED
    BY <2>1, <2>2 DEF NoHunk, ParsedHunk
<1>2. NoFile \in ParsedFile
  <2>1. <<>> \in Seq(ParsedHunk)
    BY EmptySeq
  <2>2. QED
    BY <2>1 DEF NoFile, ParsedFile, Words, Statuses, Texts
<1>3. Tally(NoFile, NoHunk)
  <2>1. NoFile.adds = 0 /\ NoFile.dels = 0 /\ NoFile.hunks = <<>>
    BY DEF NoFile
  <2>2. \A K : Len(Only(<<>>, K)) = 0
    BY OnlyEmpty, EmptySeq
  <2>3. QED
    BY <1>1, <2>1, <2>2, BodyEmpty DEF Tally, CountOf
<1>4. Start \in Parsers
  <2>1. <<>> \in Seq(ParsedFile)
    BY EmptySeq
  <2>2. QED
    BY <1>1, <1>2, <2>1 DEF Start, Parsers, Words, Texts
<1>5. QED
  BY <1>1, <1>2, <1>3, <1>4

(***************************************************************************)
(* A new file counts nothing yet.                                          *)
(***************************************************************************)
LEMMA StartFileKeeps ==
  ASSUME NEW q \in Parsers, Counted(q.files), q.state # "hunk", ~q.closed
  PROVE  Keeps(q, StartFile(q)) /\ StartFile(q).inFile /\ ~StartFile(q).inHunk /\ StartFile(q).state = q.state
<1> DEFINE r == StartFile(q)
<1>1. r \in Parsers
  BY Nothing DEF StartFile, Parsers
<1>2. /\ r.files = q.files /\ r.cur = NoFile /\ r.hunk = NoHunk /\ r.inHunk = FALSE /\ r.inFile = TRUE
      /\ r.state = q.state /\ r.at = q.at /\ r.closed = FALSE
  BY DEF StartFile, Start
<1> HIDE DEF r
<1>3. Sound(r)
  BY <1>2, Nothing DEF Sound
<1>4. q.closed = FALSE
  BY DEF Parsers
<1>5. QED
  BY <1>1, <1>2, <1>3, <1>4 DEF Keeps, r

(***************************************************************************)
(* A warning changes no count.                                             *)
(***************************************************************************)
LEMMA FlagKeeps ==
  ASSUME NEW q \in Parsers, Sound(q), ~q.closed, NEW msg \in Warnings
  PROVE  /\ Keeps(q, Flag(q, msg)) /\ Flag(q, msg).inFile
         /\ Flag(q, msg).inHunk = q.inHunk /\ Flag(q, msg).hunk = q.hunk
<1> DEFINE r == InFile(q)
           s == Flag(q, msg)
<1>1. r \in Parsers /\ Sound(r) /\ r.inFile /\ r.at = q.at /\ r.closed = q.closed
      /\ r.inHunk = q.inHunk 
  <2>1. CASE q.inFile
    BY <2>1 DEF InFile
  <2>2. CASE ~q.inFile
    <3>1. q.state # "hunk" /\ Counted(q.files) /\ q.inHunk = FALSE
      BY <2>2 DEF Sound, Parsers
    <3>2. Keeps(q, StartFile(q)) /\ StartFile(q).inFile /\ ~StartFile(q).inHunk
      BY <3>1, StartFileKeeps
    <3>3. QED
      BY <2>2, <3>1, <3>2 DEF InFile, Keeps, Parsers
  <2>3. QED
    BY <2>1, <2>2
<1>2. s = [r EXCEPT !.cur.flags = @ \cup {msg}]
  BY DEF Flag
<1> HIDE DEF r, s
<1>3. s \in Parsers
  BY <1>1, <1>2 DEF Parsers, ParsedFile
<1>4. /\ s.files = r.files /\ s.hunk = r.hunk /\ s.inHunk = r.inHunk /\ s.inFile = r.inFile
      /\ s.state = r.state /\ s.at = r.at /\ s.closed = r.closed
      /\ s.cur.adds = r.cur.adds /\ s.cur.dels = r.cur.dels /\ s.cur.hunks = r.cur.hunks
  BY <1>1, <1>2 DEF Parsers, ParsedFile
<1>5. Sound(s)
  BY <1>1, <1>4 DEF Sound, Tally
<1>6. r.hunk = q.hunk
  <2>1. CASE q.inFile
    BY <2>1 DEF InFile, r
  <2>2. CASE ~q.inFile
    BY <1>1, <2>2 DEF Sound, Parsers
  <2>3. QED
    BY <2>1, <2>2
<1>7. QED
  BY <1>1, <1>3, <1>4, <1>5, <1>6 DEF Keeps, s

(***************************************************************************)
(* One more hunk adds its lines to the counts.                             *)
(***************************************************************************)
LEMMA CountsHunk ==
  ASSUME NEW hunks \in Seq(ParsedHunk), NEW h \in ParsedHunk, NEW kind
  PROVE  CountOf(Append(hunks, h), kind) = CountOf(hunks, kind) + Len(Only(h.lines, {kind}))
<1>1. BodyOf(hunks) \in Seq(ParsedLine) /\ h.lines \in Seq(ParsedLine)
  BY FieldTypes, BodyType
<1>2. Len(Only(BodyOf(hunks) \o h.lines, {kind})) = Len(Only(BodyOf(hunks), {kind})) + Len(Only(h.lines, {kind}))
  BY <1>1, OnlyCounts
<1>3. QED
  BY <1>2, BodyAppend DEF CountOf

(***************************************************************************)
(* Closing a hunk moves its lines to the file's hunks: what the file       *)
(* counts was counted line by line.                                        *)
(***************************************************************************)
LEMMA CloseHunkKeeps ==
  ASSUME NEW q \in Parsers, Sound(q), ~q.closed
  PROVE  LET r == CloseHunk(q) IN
         /\ r \in Parsers /\ r.at = q.at /\ r.closed = q.closed /\ ~r.inHunk /\ r.hunk = NoHunk
         /\ r.inFile = q.inFile /\ r.state = q.state /\ r.files = q.files /\ Tally(r.cur, NoHunk)
<1> DEFINE r == CloseHunk(q)
<1>1. CASE ~q.inHunk
  BY <1>1 DEF CloseHunk, Sound
<1>2. CASE q.inHunk
  <2> DEFINE s == IF Owes(q) THEN Flag(q, "hunk is short") ELSE q
  <2>1. q.inFile
    BY <1>2 DEF Sound
  <2>2. /\ s \in Parsers /\ s.at = q.at /\ s.closed = q.closed /\ s.inFile = q.inFile /\ s.state = q.state
        /\ s.files = q.files /\ s.hunk = q.hunk /\ Tally(s.cur, s.hunk)
    <3>1. CASE ~Owes(q)
      BY <3>1 DEF Sound
    <3>2. CASE Owes(q)
      <4> DEFINE f == Flag(q, "hunk is short")
      <4>1. "hunk is short" \in Warnings
        BY DEF Warnings
      <4>2. Keeps(q, f) /\ f.inFile /\ f.hunk = q.hunk
        BY <4>1, FlagKeeps
      <4>3. f.files = q.files /\ f.state = q.state
        BY <2>1 DEF Flag, InFile, Parsers
      <4>4. q.inFile = TRUE /\ f.inFile = TRUE
        BY <2>1, <4>2 DEF Keeps, Parsers
      <4> HIDE DEF f
      <4>5. f \in Parsers /\ f.at = q.at /\ f.closed = q.closed /\ Tally(f.cur, f.hunk)
        BY <4>2 DEF Keeps, Sound
      <4>6. s = f
        BY <3>2 DEF f
      <4>7. QED
        BY <4>2, <4>3, <4>4, <4>5, <4>6
    <3>3. QED
      BY <3>1, <3>2
  <2>3. r = [s EXCEPT !.cur.hunks = Append(@, q.hunk), !.inHunk = FALSE, !.hunk = NoHunk, !.oldRem = 0, !.newRem = 0]
    BY <1>2 DEF CloseHunk
  <2> HIDE DEF r, s
  <2> DEFINE hunks == Append(s.cur.hunks, q.hunk)
  <2>4. s.cur \in ParsedFile /\ s.cur.hunks \in Seq(ParsedHunk) /\ q.hunk \in ParsedHunk
    BY <2>2, FieldTypes DEF Parsers
  <2>5. hunks \in Seq(ParsedHunk)
    BY <2>4, AppendProperties
  <2>6. r \in Parsers
    <3> DEFINE f == [s.cur EXCEPT !.hunks = hunks]
    <3> HIDE DEF hunks
    <3>1. f \in ParsedFile
      BY <2>4, <2>5 DEF ParsedFile
    <3>2. r = [s EXCEPT !.cur = f, !.inHunk = FALSE, !.hunk = NoHunk, !.oldRem = 0, !.newRem = 0]
      BY <2>2, <2>3 DEF Parsers, hunks
    <3> HIDE DEF f
    <3>3. s \in Parsers /\ NoHunk \in ParsedHunk
      BY <2>2, Nothing
    <3> DEFINE t == [s EXCEPT !.cur = f, !.inHunk = FALSE, !.hunk = NoHunk]
    <3>4. t \in Parsers
      BY ONLY <3>1, <3>3 DEF Parsers
    <3> DEFINE none == 0
    <3>5. r = [t EXCEPT !.oldRem = none, !.newRem = none] /\ none \in Int
      BY ONLY <3>2, <3>3 DEF Parsers
    <3> HIDE DEF t, none
    <3>6. QED
      BY ONLY <3>4, <3>5 DEF Parsers
  <2>7. /\ r.at = s.at /\ r.closed = s.closed /\ r.inHunk = FALSE /\ r.hunk = NoHunk /\ r.inFile = s.inFile
        /\ r.state = s.state /\ r.files = s.files
        /\ r.cur.hunks = hunks /\ r.cur.adds = s.cur.adds /\ r.cur.dels = s.cur.dels
    BY <2>2, <2>3, <2>4 DEF Parsers, ParsedFile
  <2>8. \A kind : CountOf(hunks, kind) = CountOf(s.cur.hunks, kind) + Len(Only(q.hunk.lines, {kind}))
    BY <2>4, CountsHunk
  <2>9. Tally(r.cur, NoHunk)
    <3>1. \A K : Len(Only(NoHunk.lines, K)) = 0
      BY Nothing, OnlyEmpty, EmptySeq
    <3>2. r.cur.adds = CountOf(hunks, "add") /\ r.cur.dels = CountOf(hunks, "del")
      BY <2>2, <2>7, <2>8 DEF Tally
    <3>3. r.cur.adds \in Nat /\ r.cur.dels \in Nat
      BY <2>6, FieldTypes DEF Parsers
    <3>4. QED
      BY <2>7, <3>1, <3>2, <3>3 DEF Tally
  <2>10. QED
    BY <2>2, <2>6, <2>7, <2>9 DEF r
<1>3. QED
  BY <1>1, <1>2

(***************************************************************************)
(* One more file that counts what its hunks have.                          *)
(***************************************************************************)
LEMMA CountedAppend ==
  ASSUME NEW fs \in Seq(ParsedFile), Counted(fs), NEW f \in ParsedFile, Tally(f, NoHunk)
  PROVE  Append(fs, f) \in Seq(ParsedFile) /\ Counted(Append(fs, f))
<1> DEFINE gs == Append(fs, f)
<1>1. gs \in Seq(ParsedFile) /\ Len(gs) = Len(fs) + 1 /\ Len(fs) \in Nat
  BY AppendProperties, LenProperties
<1>2. gs[Len(fs) + 1] = f /\ \A i \in 1..Len(fs) : gs[i] = fs[i]
  BY AppendProperties
<1>3. f.adds = CountOf(f.hunks, "add") /\ f.dels = CountOf(f.hunks, "del")
  <2>1. \A K : Len(Only(NoHunk.lines, K)) = 0
    BY Nothing, OnlyEmpty, EmptySeq
  <2>2. f.adds = CountOf(f.hunks, "add") + 0 /\ f.dels = CountOf(f.hunks, "del") + 0
    BY <2>1 DEF Tally
  <2>3. CountOf(f.hunks, "add") \in Nat /\ CountOf(f.hunks, "del") \in Nat
    BY FieldTypes, BodyType, OnlyType, LenProperties DEF CountOf
  <2>4. QED
    BY <2>2, <2>3
<1> HIDE DEF gs
<1>4. Counted(gs)
  <2> SUFFICES ASSUME NEW i \in 1..Len(gs)
               PROVE  gs[i].adds = CountOf(gs[i].hunks, "add") /\ gs[i].dels = CountOf(gs[i].hunks, "del")
    BY DEF Counted
  <2>1. CASE i \in 1..Len(fs)
    BY <1>2, <2>1 DEF Counted
  <2>2. CASE i = Len(fs) + 1
    BY <1>2, <1>3, <2>2
  <2>3. QED
    BY <1>1, <2>1, <2>2
<1>5. QED
  BY <1>1, <1>4 DEF gs

(***************************************************************************)
(* Naming a file and giving it a status change no count.                   *)
(***************************************************************************)
LEMMA SealedNamed ==
  ASSUME NEW q \in Parsers, Tally(q.cur, NoHunk)
  PROVE  Sealed(Named(q), q) \in ParsedFile /\ Tally(Sealed(Named(q), q), NoHunk)
<1> DEFINE f == Named(q)
           g == Sealed(f, q)
<1>1. q.cur \in ParsedFile /\ q.hdrOld \in Words /\ q.hdrNew \in Words
  BY DEF Parsers
<1>2. f \in ParsedFile /\ f.adds = q.cur.adds /\ f.dels = q.cur.dels /\ f.hunks = q.cur.hunks
  <2> DEFINE old == IF q.cur.old = "" /\ ~q.sawOldNull THEN q.hdrOld ELSE q.cur.old
             new == IF q.cur.new = "" /\ ~q.sawNewNull THEN q.hdrNew ELSE q.cur.new
  <2>1. old \in Words /\ new \in Words
    BY <1>1 DEF ParsedFile
  <2>2. "(unknown path)" \in Words /\ "names no path" \in Warnings
    BY DEF Words, Paths, Warnings
  <2>3. f = IF old = "" /\ new = "" THEN [q.cur EXCEPT !.new = "(unknown path)", !.flags = @ \cup {"names no path"}]
            ELSE [q.cur EXCEPT !.old = old, !.new = new]
    BY DEF Named
  <2> HIDE DEF old, new, f
  <2>4. QED
    BY <1>1, <2>1, <2>2, <2>3 DEF ParsedFile
<1> HIDE DEF f
<1>3. g \in ParsedFile /\ g.adds = f.adds /\ g.dels = f.dels /\ g.hunks = f.hunks
  <2>1. "mode" \in Statuses /\ "modified" \in Statuses
    BY DEF Statuses
  <2>2. QED
    BY <1>2, <2>1 DEF Sealed, ParsedFile
<1> HIDE DEF g
<1>4. Tally(g, NoHunk)
  BY <1>2, <1>3 DEF Tally
<1>5. QED
  BY <1>3, <1>4 DEF f, g

(***************************************************************************)
(* Closing a file closes its hunk and keeps the counts.                    *)
(***************************************************************************)
LEMMA CloseFileKeeps ==
  ASSUME NEW q \in Parsers, Sound(q), ~q.closed, q.state # "hunk" \/ q.inFile
  PROVE  Keeps(q, CloseFile(q)) /\ ~CloseFile(q).inHunk /\ CloseFile(q).state # "hunk"
<1> DEFINE c == CloseHunk(q)
           r == CloseFile(q)
<1>1. CASE ~q.inFile
  BY <1>1 DEF CloseFile, Keeps, Sound
<1>2. CASE q.inFile
  <2> DEFINE f == Sealed(Named(c), c)
  <2>1. /\ c \in Parsers /\ c.at = q.at /\ c.closed = q.closed /\ c.files = q.files /\ Tally(c.cur, NoHunk)
    BY CloseHunkKeeps
  <2>2. r = [c EXCEPT !.files = Append(@, f), !.inFile = FALSE, !.cur = NoFile,
                      !.inHunk = FALSE, !.hunk = NoHunk, !.state = "header"]
    BY <1>2 DEF CloseFile
  <2> HIDE DEF c
  <2>3. f \in ParsedFile /\ Tally(f, NoHunk)
    BY <2>1, SealedNamed
  <2> HIDE DEF r, f
  <2>4. c.files \in Seq(ParsedFile) /\ Counted(c.files)
    BY <2>1 DEF Parsers, Sound
  <2> DEFINE fs == Append(c.files, f)
  <2>5. fs \in Seq(ParsedFile) /\ Counted(fs)
    BY <2>3, <2>4, CountedAppend
  <2>6. r = [c EXCEPT !.files = fs, !.inFile = FALSE, !.cur = NoFile,
                      !.inHunk = FALSE, !.hunk = NoHunk, !.state = "header"]
    BY <2>2
  <2> HIDE DEF fs
  <2>7. r \in Parsers
    BY <2>1, <2>5, <2>6, Nothing DEF Parsers
  <2>8. /\ r.files = fs /\ r.cur = NoFile /\ r.hunk = NoHunk /\ r.inHunk = FALSE /\ r.state = "header"
        /\ r.at = c.at /\ r.closed = c.closed
    BY <2>1, <2>6 DEF Parsers
  <2>9. Sound(r)
    BY <2>5, <2>8, Nothing DEF Sound
  <2>10. QED
    BY <2>1, <2>7, <2>8, <2>9 DEF Keeps, r
<1>3. QED
  BY <1>1, <1>2

-----------------------------------------------------------------------------
(* The parser: the lines of a hunk. *)

(***************************************************************************)
(* One more line of a kind.                                                *)
(***************************************************************************)
LEMMA OneMore ==
  ASSUME NEW ls \in Seq(ParsedLine), NEW l \in ParsedLine, NEW kind
  PROVE  Len(Only(Append(ls, l), {kind})) = Len(Only(ls, {kind})) + IF l.kind = kind THEN 1 ELSE 0
<1>1. Only(Append(ls, l), {kind}) = IF l.kind \in {kind} THEN Append(Only(ls, {kind}), l) ELSE Only(ls, {kind})
  BY OnlyAppend
<1>2. Only(ls, {kind}) \in Seq(ParsedLine) /\ Len(Only(ls, {kind})) \in Nat
  BY OnlyType
<1>3. Len(Append(Only(ls, {kind}), l)) = Len(Only(ls, {kind})) + 1
  BY <1>2, AppendProperties
<1>4. QED
  BY <1>1, <1>2, <1>3

(***************************************************************************)
(* A line is added to the open hunk and to the file's count at once.       *)
(***************************************************************************)
LEMMA AddLineKeeps ==
  ASSUME NEW q \in Parsers, Sound(q), q.inHunk, NEW kind \in Kinds, NEW text \in Words
  PROVE  Keeps(q, AddLine(q, kind, text)) /\ AddLine(q, kind, text).inHunk
<1> DEFINE r == AddLine(q, kind, text)
           old == kind # "add"
           new == kind # "del"
           l == [kind |-> kind, text |-> text, noNL |-> FALSE,
                 oldNo |-> IF old THEN q.oldNo ELSE 0, newNo |-> IF new THEN q.newNo ELSE 0]
           ls == Append(q.hunk.lines, l)
           h == [q.hunk EXCEPT !.lines = ls]
           adds == IF kind = "add" THEN q.cur.adds + 1 ELSE q.cur.adds
           dels == IF kind = "del" THEN q.cur.dels + 1 ELSE q.cur.dels
           f == [q.cur EXCEPT !.adds = adds, !.dels = dels]
           a == IF old THEN q.oldNo + 1 ELSE q.oldNo
           b == IF old THEN q.oldRem - 1 ELSE q.oldRem
           c == IF new THEN q.newNo + 1 ELSE q.newNo
           d == IF new THEN q.newRem - 1 ELSE q.newRem
<1>1. /\ q.cur \in ParsedFile /\ q.hunk \in ParsedHunk /\ q.oldNo \in Nat /\ q.newNo \in Nat
      /\ q.oldRem \in Int /\ q.newRem \in Int
  BY DEF Parsers
<1>2. q.hunk.lines \in Seq(ParsedLine) /\ q.cur.adds \in Nat /\ q.cur.dels \in Nat
  BY <1>1, FieldTypes
<1>3. a \in Nat /\ b \in Int /\ c \in Nat /\ d \in Int /\ adds \in Nat /\ dels \in Nat
  <2>1. a \in Nat /\ b \in Int
    BY <1>1
  <2>2. c \in Nat /\ d \in Int
    BY <1>1
  <2>3. adds \in Nat /\ dels \in Nat
    BY <1>2
  <2>4. QED
    BY <2>1, <2>2, <2>3
<1>4. l \in ParsedLine /\ l.kind = kind
  <2> DEFINE o == IF old THEN q.oldNo ELSE 0
             n == IF new THEN q.newNo ELSE 0
  <2>1. o \in Nat /\ n \in Nat
    BY <1>1
  <2> HIDE DEF o, n
  <2>2. l = [kind |-> kind, text |-> text, noNL |-> FALSE, oldNo |-> o, newNo |-> n]
    BY DEF o, n
  <2>3. QED
    BY <2>1, <2>2 DEF ParsedLine
<1>5. r = [q EXCEPT !.hunk = h, !.oldNo = a, !.oldRem = b, !.newNo = c, !.newRem = d, !.cur = f]
  <2>1. r = [q EXCEPT !.hunk.lines = ls, !.oldNo = a, !.oldRem = b, !.newNo = c, !.newRem = d,
                      !.cur.adds = adds, !.cur.dels = dels]
    BY DEF AddLine, Parsers
  <2> HIDE DEF r, a, b, c, d, ls, adds, dels, l
  <2>2. QED
    BY <1>1, <2>1 DEF Parsers, ParsedHunk, ParsedFile
<1> HIDE DEF r, a, b, c, d, l
<1>6. ls \in Seq(ParsedLine) /\ \A k : Len(Only(ls, {k})) = Len(Only(q.hunk.lines, {k})) + IF kind = k THEN 1 ELSE 0
  <2>1. ls \in Seq(ParsedLine)
    BY <1>2, <1>4, AppendProperties
  <2>2. ASSUME NEW k PROVE Len(Only(ls, {k})) = Len(Only(q.hunk.lines, {k})) + IF l.kind = k THEN 1 ELSE 0
    BY <1>2, <1>4, OneMore
  <2>3. QED
    BY <1>4, <2>1, <2>2
<1> HIDE DEF ls, adds, dels
<1>7. h \in ParsedHunk /\ h.lines = ls
  BY <1>1, <1>6 DEF ParsedHunk
<1>8. f \in ParsedFile /\ f.adds = adds /\ f.dels = dels /\ f.hunks = q.cur.hunks
  BY <1>1, <1>3 DEF ParsedFile
<1> HIDE DEF h, f
<1>9. r \in Parsers
  BY <1>3, <1>5, <1>7, <1>8 DEF Parsers
<1>10. /\ r.hunk = h /\ r.cur = f /\ r.files = q.files /\ r.inHunk = q.inHunk /\ r.inFile = q.inFile
       /\ r.state = q.state /\ r.at = q.at /\ r.closed = q.closed
  BY <1>5 DEF Parsers
<1>11. Tally(f, h)
  <2>1. Tally(q.cur, q.hunk)
    BY DEF Sound
  <2>2. \A k : CountOf(q.cur.hunks, k) \in Nat /\ Len(Only(q.hunk.lines, {k})) \in Nat
    BY <1>1, <1>2, FieldTypes, BodyType, OnlyType DEF CountOf
  <2>3. f.adds = CountOf(f.hunks, "add") + Len(Only(h.lines, {"add"}))
    <3> DEFINE m == CountOf(q.cur.hunks, "add")
               n == Len(Only(q.hunk.lines, {"add"}))
    <3>1. q.cur.adds = m + n /\ m \in Nat /\ n \in Nat
      BY <2>1, <2>2 DEF Tally
    <3>2. Len(Only(h.lines, {"add"})) = n + IF kind = "add" THEN 1 ELSE 0
      BY <1>6, <1>7
    <3>3. f.adds = (IF kind = "add" THEN q.cur.adds + 1 ELSE q.cur.adds) /\ CountOf(f.hunks, "add") = m
      BY <1>8 DEF adds
    <3> HIDE DEF m, n
    <3>4. QED
      BY <3>1, <3>2, <3>3
  <2>4. f.dels = CountOf(f.hunks, "del") + Len(Only(h.lines, {"del"}))
    <3> DEFINE m == CountOf(q.cur.hunks, "del")
               n == Len(Only(q.hunk.lines, {"del"}))
    <3>1. q.cur.dels = m + n /\ m \in Nat /\ n \in Nat
      BY <2>1, <2>2 DEF Tally
    <3>2. Len(Only(h.lines, {"del"})) = n + IF kind = "del" THEN 1 ELSE 0
      BY <1>6, <1>7
    <3>3. f.dels = (IF kind = "del" THEN q.cur.dels + 1 ELSE q.cur.dels) /\ CountOf(f.hunks, "del") = m
      BY <1>8 DEF dels
    <3> HIDE DEF m, n
    <3>4. QED
      BY <3>1, <3>2, <3>3
  <2>5. QED
    BY <2>3, <2>4 DEF Tally
<1>12. Sound(r)
  BY <1>10, <1>11 DEF Sound
<1>13. QED
  BY <1>9, <1>10, <1>12 DEF Keeps, r

(***************************************************************************)
(* The mark for a missing newline changes the last line's flag, and no     *)
(* line's kind.                                                            *)
(***************************************************************************)
LEMMA MarkKeeps ==
  ASSUME NEW q \in Parsers, Sound(q)
  PROVE  Keeps(q, MarkNoNewline(q)) /\ MarkNoNewline(q).inHunk = q.inHunk /\ MarkNoNewline(q).state = q.state
<1> DEFINE r == MarkNoNewline(q)
<1>1. CASE ~q.inHunk \/ q.hunk.lines = <<>>
  BY <1>1 DEF MarkNoNewline, Keeps
<1>2. CASE q.inHunk /\ q.hunk.lines # <<>>
  <2> DEFINE ls == q.hunk.lines
             n == Len(ls)
             l == [ls[n] EXCEPT !.noNL = TRUE]
             ms == [ls EXCEPT ![n] = l]
             front == SubSeq(ls, 1, n - 1)
             h == [q.hunk EXCEPT !.lines = ms]
  <2>1. q.hunk \in ParsedHunk /\ ls \in Seq(ParsedLine)
    BY FieldTypes DEF Parsers
  <2>2. n \in Nat /\ n # 0 /\ n \in 1..n
    BY <1>2, <2>1, EmptySeq, LenProperties
  <2>3. ls[n] \in ParsedLine
    BY <2>1, <2>2
  <2>4. l \in ParsedLine /\ l.kind = ls[n].kind
    BY <2>3 DEF ParsedLine
  <2>5. r = [q EXCEPT !.hunk = h]
    BY <1>2, <2>1 DEF MarkNoNewline, Parsers, ParsedHunk
  <2> HIDE DEF l, r
  <2>6. ms \in Seq(ParsedLine) /\ Len(ms) = n /\ ms[n] = l /\ \A i \in 1..(n - 1) : ms[i] = ls[i]
    BY <2>1, <2>2, <2>4, ExceptSeq
  <2>7. h \in ParsedHunk /\ h.lines = ms
    BY <2>1, <2>6 DEF ParsedHunk
  <2> HIDE DEF ms, h
  <2>8. n - 1 \in Nat /\ (n - 1) + 1 = n
    BY <2>2
  <2>9. front \in Seq(ParsedLine) /\ SubSeq(ls, 1, n) = Append(front, ls[n]) /\ Len(front) = n - 1
        /\ \A i \in 1..(n - 1) : front[i] = ls[i]
    BY <2>1, <2>2, <2>8, FrontGrows, SubSeqProperties
  <2>10. SubSeq(ls, 1, n) = ls
    BY <2>1, SubSeqFull
  <2> HIDE DEF front, n
  <2>11. ms = Append(front, l)
    <3>1. /\ Append(front, l) \in Seq(ParsedLine) /\ Len(Append(front, l)) = n
          /\ (\A i \in 1..(n - 1) : Append(front, l)[i] = front[i]) /\ Append(front, l)[n] = l
      BY <2>4, <2>8, <2>9, AppendProperties
    <3>2. \A i \in 1..n : Append(front, l)[i] = ms[i]
      BY <2>2, <2>6, <2>9, <3>1
    <3>3. QED
      BY <2>6, <3>1, <3>2, SeqEqual
  <2>12. \A k : Len(Only(ms, {k})) = Len(Only(ls, {k}))
    <3> SUFFICES ASSUME NEW k PROVE Len(Only(ms, {k})) = Len(Only(ls, {k}))
      OBVIOUS
    <3>1. Len(Only(Append(front, l), {k})) = Len(Only(front, {k})) + IF l.kind = k THEN 1 ELSE 0
      BY <2>4, <2>9, OneMore
    <3>2. Len(Only(Append(front, ls[n]), {k})) = Len(Only(front, {k})) + IF ls[n].kind = k THEN 1 ELSE 0
      BY <2>3, <2>9, OneMore
    <3>3. QED
      BY <2>4, <2>9, <2>10, <2>11, <3>1, <3>2
  <2>13. r \in Parsers
    BY <2>5, <2>7 DEF Parsers
  <2>14. /\ r.hunk = h /\ r.cur = q.cur /\ r.files = q.files /\ r.inHunk = q.inHunk /\ r.inFile = q.inFile
         /\ r.state = q.state /\ r.at = q.at /\ r.closed = q.closed
    BY <2>5 DEF Parsers
  <2>15. Sound(r)
    BY <1>2, <2>7, <2>12, <2>14 DEF Sound, Tally
  <2>16. QED
    BY <2>13, <2>14, <2>15 DEF Keeps, r
<1>3. QED
  BY <1>1, <1>2

\* What a line of a patch may be, and its first byte.
Heads == {"diff --git", "diff --cc", "@@@", "@@", "@@ junk", "\\", "--- ", "+++ ", "body", "", "other",
          "new file mode", "deleted file mode", "old mode", "new mode", "similarity", "renamed from",
          "renamed to", "copied from", "copied to", "index", "binary differ", "git binary"}
Bytes == {"d", "\\", "@", " ", "+", "-", "", "z", "["}

\* The numbers of a hunk header, and a line of a patch.
Claims    == [1..4 -> Nat \cup {Huge}]
PatchLine == [head : Heads, byte : Bytes, text : Words, also : Words, claim : Claims]

(***************************************************************************)
(* The fields of a line of a patch.                                        *)
(***************************************************************************)
LEMMA LineFields ==
  ASSUME NEW l \in PatchLine
  PROVE  l.text \in Words /\ l.also \in Words /\ l.claim \in Claims
  BY DEF PatchLine

(***************************************************************************)
(* A file that is opened where there was none counts nothing yet.          *)
(***************************************************************************)
LEMMA InFileKeeps ==
  ASSUME NEW q \in Parsers, Sound(q), ~q.closed
  PROVE  Keeps(q, InFile(q)) /\ InFile(q).inFile /\ InFile(q).inHunk = q.inHunk /\ InFile(q).state = q.state
<1>1. CASE q.inFile
  BY <1>1 DEF InFile, Keeps
<1>2. CASE ~q.inFile
  <2>1. q.state # "hunk" /\ Counted(q.files) /\ q.inHunk = FALSE
    BY <1>2 DEF Sound, Parsers
  <2>2. Keeps(q, StartFile(q)) /\ StartFile(q).inFile /\ ~StartFile(q).inHunk /\ StartFile(q).state = q.state
    BY <2>1, StartFileKeeps
  <2>3. QED
    BY <1>2, <2>1, <2>2 DEF InFile, Keeps, Parsers
<1>3. QED
  BY <1>1, <1>2

(***************************************************************************)
(* A body line, classified by its first byte, keeps the counts.            *)
(***************************************************************************)
LEMMA ClassifiedKeeps ==
  ASSUME NEW q \in Parsers, Sound(q), q.inHunk, NEW l \in PatchLine
  PROVE  Keeps(q, Classified(q, l)) /\ Classified(q, l).inHunk
<1>1. l.text \in Words /\ BodyKind(l.byte) \in Kinds
  BY LineFields DEF BodyKind, Kinds
<1>2. Keeps(q, AddLine(q, BodyKind(l.byte), l.text)) /\ AddLine(q, BodyKind(l.byte), l.text).inHunk
  BY <1>1, AddLineKeeps
<1>3. Keeps(q, MarkNoNewline(q)) /\ MarkNoNewline(q).inHunk
  BY MarkKeeps
<1>4. QED
  BY <1>2, <1>3 DEF Classified

(***************************************************************************)
(* Only the state changes.                                                 *)
(***************************************************************************)
LEMMA StateKeeps ==
  ASSUME NEW q \in Parsers, Sound(q), NEW state \in {"header", "hunk", "payload"}, state = "hunk" => q.inHunk
  PROVE  Keeps(q, [q EXCEPT !.state = state])
<1> DEFINE r == [q EXCEPT !.state = state]
<1>1. r \in Parsers
  BY DEF Parsers
<1>2. /\ r.files = q.files /\ r.cur = q.cur /\ r.hunk = q.hunk /\ r.inHunk = q.inHunk /\ r.inFile = q.inFile
      /\ r.state = state /\ r.at = q.at /\ r.closed = q.closed
  BY DEF Parsers
<1> HIDE DEF r
<1>3. Sound(r)
  BY <1>2 DEF Sound
<1>4. QED
  BY <1>1, <1>2, <1>3 DEF Keeps, r

(***************************************************************************)
(* A body line, and the return to the header state when the counts are     *)
(* used up.                                                                *)
(***************************************************************************)
LEMMA InBodyKeeps ==
  ASSUME NEW q \in Parsers, Sound(q), q.inHunk, NEW l \in PatchLine
  PROVE  Keeps(q, InBody(q, l))
<1> DEFINE c == Classified(q, l)
           state == IF Owes(c) THEN "hunk" ELSE "header"
<1>1. Keeps(q, c) /\ c.inHunk
  BY ClassifiedKeeps
<1>2. InBody(q, l) = [c EXCEPT !.state = state] /\ state \in {"header", "hunk", "payload"}
  BY DEF InBody
<1> HIDE DEF c, state
<1>3. Keeps(c, [c EXCEPT !.state = state])
  BY <1>1, <1>2, StateKeeps DEF Keeps
<1>4. QED
  BY <1>1, <1>2, <1>3 DEF Keeps

(***************************************************************************)
(* A hunk header closes the hunk before it and opens one without lines,    *)
(* whatever it claims.                                                     *)
(***************************************************************************)
LEMMA OpenHunkKeeps ==
  ASSUME NEW q \in Parsers, Sound(q), ~q.closed, NEW claim \in Claims, q.state = "header"
  PROVE  Keeps(q, OpenHunk(q, claim))
<1> DEFINE in   == InFile(q)
           open == CloseHunk(in)
           n    == [i \in 1..4 |-> IF claim[i] # Huge THEN claim[i] ELSE IF i \in {2, 4} THEN 1 ELSE 0]
           ok   == IF \E i \in 1..4 : claim[i] = Huge THEN Flag(open, "not a usable number") ELSE open
           h    == [claim |-> n, lines |-> <<>>]
           due  == [ok EXCEPT !.inHunk = TRUE, !.hunk = h,
                              !.oldNo = n[1], !.oldRem = n[2], !.newNo = n[3], !.newRem = n[4]]
           state == IF Owes(due) THEN "hunk" ELSE "header"
<1>1. Keeps(q, in) /\ in.inFile /\ in.state = "header"
  BY InFileKeeps
<1>2. OpenHunk(q, claim) = [due EXCEPT !.state = state] /\ state \in {"header", "hunk", "payload"}
  BY DEF OpenHunk
<1>3. h.lines = <<>>
  OBVIOUS
<1> HIDE DEF in
<1>4. /\ open \in Parsers /\ open.at = q.at /\ open.closed = q.closed /\ open.inHunk = FALSE /\ open.hunk = NoHunk
      /\ open.inFile /\ open.state = "header" /\ open.files = in.files /\ Tally(open.cur, NoHunk)
  <2>1. in \in Parsers /\ Sound(in) /\ in.at = q.at /\ in.closed = q.closed
    BY <1>1 DEF Keeps
  <2>2. /\ open \in Parsers /\ open.at = in.at /\ open.closed = in.closed /\ ~open.inHunk /\ open.hunk = NoHunk
        /\ open.inFile = in.inFile /\ open.state = in.state /\ open.files = in.files /\ Tally(open.cur, NoHunk)
    BY <2>1, CloseHunkKeeps
  <2> HIDE DEF open
  <2>3. QED
    BY <1>1, <2>1, <2>2 DEF Parsers
<1> HIDE DEF open
<1>5. Sound(open)
  BY <1>1, <1>4 DEF Sound, Keeps
<1>6. ok \in Parsers /\ Sound(ok) /\ ok.at = q.at /\ ok.closed = q.closed /\ ok.inFile /\ ok.inHunk = FALSE
  <2>1. "not a usable number" \in Warnings
    BY DEF Warnings
  <2> DEFINE f == Flag(open, "not a usable number")
  <2>2. Keeps(open, f) /\ f.inFile /\ f.inHunk = open.inHunk
    BY <1>4, <1>5, <2>1, FlagKeeps
  <2> HIDE DEF f
  <2>3. ok = f \/ ok = open
    BY DEF f
  <2> HIDE DEF ok
  <2>4. QED
    BY <1>4, <1>5, <2>2, <2>3 DEF Keeps
<1> HIDE DEF ok
<1>7. n \in Seq(Nat) /\ n[1] \in Nat /\ n[2] \in Nat /\ n[3] \in Nat /\ n[4] \in Nat
  <2>1. ASSUME NEW i \in 1..4 PROVE n[i] \in Nat
    BY DEF Claims
  <2>2. n \in [1..4 -> Nat]
    <3>1. n = [i \in 1..4 |-> n[i]]
      OBVIOUS
    <3> HIDE DEF n
    <3>2. QED
      BY <2>1, <3>1
  <2> HIDE DEF n
  <2>3. n \in Seq(Nat)
    BY <2>2, FunctionIsSeq
  <2>4. QED
    BY <2>1, <2>3
<1> HIDE DEF n
<1>8. h \in ParsedHunk
  <2>1. <<>> \in Seq(ParsedLine)
    BY EmptySeq
  <2>2. QED
    BY <1>7, <2>1 DEF ParsedHunk
<1> HIDE DEF h
<1>9. due \in Parsers
  <2> DEFINE a == n[1]
             b == n[2]
             c == n[3]
             d == n[4]
  <2>1. a \in Nat /\ b \in Int /\ c \in Nat /\ d \in Int
    BY <1>7
  <2>2. due = [ok EXCEPT !.inHunk = TRUE, !.hunk = h, !.oldNo = a, !.oldRem = b, !.newNo = c, !.newRem = d]
    OBVIOUS
  <2> HIDE DEF a, b, c, d, due
  <2>3. QED
    BY <1>6, <1>8, <2>1, <2>2 DEF Parsers
<1>10. /\ due.hunk = h /\ due.cur = ok.cur /\ due.files = ok.files /\ due.inHunk = TRUE /\ due.inFile = ok.inFile
       /\ due.state = ok.state /\ due.at = ok.at /\ due.closed = ok.closed
  BY <1>6 DEF Parsers
<1> HIDE DEF due
<1>11. Sound(due)
  <2>1. Tally(ok.cur, NoHunk) /\ Counted(ok.files)
    BY <1>6 DEF Sound
  <2>2. Tally(ok.cur, h)
    BY <1>3, <2>1, Nothing DEF Tally
  <2>3. QED
    BY <1>6, <1>10, <2>1, <2>2 DEF Sound
<1> HIDE DEF state
<1>12. Keeps(due, [due EXCEPT !.state = state])
  BY <1>2, <1>9, <1>10, <1>11, StateKeeps
<1>13. QED
  BY <1>2, <1>6, <1>10, <1>12 DEF Keeps

-----------------------------------------------------------------------------
(* The parser: the lines outside a hunk. *)

\* Another file that counts the same.
Recounts(f, g) == g \in ParsedFile /\ g.adds = f.adds /\ g.dels = f.dels /\ g.hunks = f.hunks

(***************************************************************************)
(* The current file changes, and counts the same.                          *)
(***************************************************************************)
LEMMA CurKeeps ==
  ASSUME NEW q \in Parsers, Sound(q), NEW f, Recounts(q.cur, f), NEW a \in BOOLEAN, NEW b \in BOOLEAN, NEW c \in BOOLEAN, NEW d \in BOOLEAN
  PROVE  Keeps(q, [q EXCEPT !.cur = f, !.sawModeLine = a, !.sawOldHeader = b, !.sawOldNull = c, !.sawNewNull = d])
<1> DEFINE r == [q EXCEPT !.cur = f, !.sawModeLine = a, !.sawOldHeader = b, !.sawOldNull = c, !.sawNewNull = d]
<1>1. r \in Parsers
  BY DEF Parsers, Recounts
<1>2. /\ r.files = q.files /\ r.cur = f /\ r.hunk = q.hunk /\ r.inHunk = q.inHunk /\ r.inFile = q.inFile
      /\ r.state = q.state /\ r.at = q.at /\ r.closed = q.closed
  BY DEF Parsers
<1> HIDE DEF r
<1>3. Sound(r)
  BY <1>2 DEF Sound, Tally, Recounts
<1>4. QED
  BY <1>1, <1>2, <1>3 DEF Keeps, r

\* The parser with another current file, and other marks.
Marked(q, r, f, a, b, c, d) ==
  r = [q EXCEPT !.cur = f, !.sawModeLine = a, !.sawOldHeader = b, !.sawOldNull = c, !.sawNewNull = d]

(***************************************************************************)
(* The same, for a parser that is known to have changed so.                *)
(***************************************************************************)
LEMMA MarkedKeeps ==
  ASSUME NEW q \in Parsers, Sound(q), NEW f, Recounts(q.cur, f), NEW a \in BOOLEAN, NEW b \in BOOLEAN, NEW c \in BOOLEAN, NEW d \in BOOLEAN,
         NEW r, Marked(q, r, f, a, b, c, d)
  PROVE  Keeps(q, r)
  BY CurKeeps, Zenon DEF Marked

(***************************************************************************)
(* An extended header line says something of the file and changes no       *)
(* count.                                                                  *)
(***************************************************************************)
LEMMA ExtendedKeeps ==
  ASSUME NEW q \in Parsers, Sound(q), NEW l \in PatchLine
  PROVE  Keeps(q, Extended(q, l)) /\ Extended(q, l).state = q.state
<1> DEFINE r == Extended(q, l)
           Marks(f, a) == [q EXCEPT !.cur = f, !.sawModeLine = a, !.sawOldHeader = q.sawOldHeader,
                                    !.sawOldNull = q.sawOldNull, !.sawNewNull = q.sawNewNull]
<1>1. q.cur \in ParsedFile /\ l.text \in Words
  BY LineFields DEF Parsers
<1>2. r = q \/ \E f, a : Recounts(q.cur, f) /\ a \in BOOLEAN /\ r = Marks(f, a)
  <2>1. CASE q.inFile /\ l.head = "new file mode"
    <3> DEFINE f == [q.cur EXCEPT !.status = "added", !.newMode = l.text]
    <3>1. Recounts(q.cur, f)
      BY <1>1 DEF Recounts, ParsedFile, Statuses
    <3>2. r = [q EXCEPT !.cur.status = "added", !.cur.newMode = l.text]
      BY <2>1 DEF Extended
    <3>3. r = Marks(f, q.sawModeLine)
      BY <3>2 DEF Parsers, ParsedFile
    <3>4. q.sawModeLine \in BOOLEAN
      BY DEF Parsers
    <3>5. QED
      BY <3>1, <3>3, <3>4
  <2>2. CASE q.inFile /\ l.head = "deleted file mode"
    <3> DEFINE f == [q.cur EXCEPT !.status = "deleted", !.oldMode = l.text]
    <3>1. Recounts(q.cur, f)
      BY <1>1 DEF Recounts, ParsedFile, Statuses
    <3>2. r = [q EXCEPT !.cur.status = "deleted", !.cur.oldMode = l.text]
      BY <2>2 DEF Extended
    <3>3. r = Marks(f, q.sawModeLine)
      BY <3>2 DEF Parsers, ParsedFile
    <3>4. q.sawModeLine \in BOOLEAN
      BY DEF Parsers
    <3>5. QED
      BY <3>1, <3>3, <3>4
  <2>3. CASE q.inFile /\ l.head = "old mode"
    <3> DEFINE f == [q.cur EXCEPT !.oldMode = l.text]
    <3>1. Recounts(q.cur, f)
      BY <1>1 DEF Recounts, ParsedFile, Statuses
    <3>2. r = [q EXCEPT !.cur.oldMode = l.text, !.sawModeLine = TRUE]
      BY <2>3 DEF Extended
    <3>3. r = Marks(f, TRUE)
      BY <3>2 DEF Parsers, ParsedFile
    <3>4. TRUE \in BOOLEAN
      BY DEF Parsers
    <3>5. QED
      BY <3>1, <3>3, <3>4
  <2>4. CASE q.inFile /\ l.head = "new mode"
    <3> DEFINE f == [q.cur EXCEPT !.newMode = l.text]
    <3>1. Recounts(q.cur, f)
      BY <1>1 DEF Recounts, ParsedFile, Statuses
    <3>2. r = [q EXCEPT !.cur.newMode = l.text, !.sawModeLine = TRUE]
      BY <2>4 DEF Extended
    <3>3. r = Marks(f, TRUE)
      BY <3>2 DEF Parsers, ParsedFile
    <3>4. TRUE \in BOOLEAN
      BY DEF Parsers
    <3>5. QED
      BY <3>1, <3>3, <3>4
  <2>5. CASE q.inFile /\ l.head = "renamed from"
    <3> DEFINE f == [q.cur EXCEPT !.status = "renamed", !.old = l.text]
    <3>1. Recounts(q.cur, f)
      BY <1>1 DEF Recounts, ParsedFile, Statuses
    <3>2. r = [q EXCEPT !.cur.status = "renamed", !.cur.old = l.text]
      BY <2>5 DEF Extended
    <3>3. r = Marks(f, q.sawModeLine)
      BY <3>2 DEF Parsers, ParsedFile
    <3>4. q.sawModeLine \in BOOLEAN
      BY DEF Parsers
    <3>5. QED
      BY <3>1, <3>3, <3>4
  <2>6. CASE q.inFile /\ l.head = "renamed to"
    <3> DEFINE f == [q.cur EXCEPT !.status = "renamed", !.new = l.text]
    <3>1. Recounts(q.cur, f)
      BY <1>1 DEF Recounts, ParsedFile, Statuses
    <3>2. r = [q EXCEPT !.cur.status = "renamed", !.cur.new = l.text]
      BY <2>6 DEF Extended
    <3>3. r = Marks(f, q.sawModeLine)
      BY <3>2 DEF Parsers, ParsedFile
    <3>4. q.sawModeLine \in BOOLEAN
      BY DEF Parsers
    <3>5. QED
      BY <3>1, <3>3, <3>4
  <2>7. CASE q.inFile /\ l.head = "copied from"
    <3> DEFINE f == [q.cur EXCEPT !.status = "copied", !.old = l.text]
    <3>1. Recounts(q.cur, f)
      BY <1>1 DEF Recounts, ParsedFile, Statuses
    <3>2. r = [q EXCEPT !.cur.status = "copied", !.cur.old = l.text]
      BY <2>7 DEF Extended
    <3>3. r = Marks(f, q.sawModeLine)
      BY <3>2 DEF Parsers, ParsedFile
    <3>4. q.sawModeLine \in BOOLEAN
      BY DEF Parsers
    <3>5. QED
      BY <3>1, <3>3, <3>4
  <2>8. CASE q.inFile /\ l.head = "copied to"
    <3> DEFINE f == [q.cur EXCEPT !.status = "copied", !.new = l.text]
    <3>1. Recounts(q.cur, f)
      BY <1>1 DEF Recounts, ParsedFile, Statuses
    <3>2. r = [q EXCEPT !.cur.status = "copied", !.cur.new = l.text]
      BY <2>8 DEF Extended
    <3>3. r = Marks(f, q.sawModeLine)
      BY <3>2 DEF Parsers, ParsedFile
    <3>4. q.sawModeLine \in BOOLEAN
      BY DEF Parsers
    <3>5. QED
      BY <3>1, <3>3, <3>4
  <2>9. CASE q.inFile /\ l.head = "index" /\ l.text # "" /\ q.cur.oldMode = "" /\ q.cur.newMode = ""
    <3> DEFINE f == [q.cur EXCEPT !.oldMode = l.text, !.newMode = l.text]
    <3>1. Recounts(q.cur, f)
      BY <1>1 DEF Recounts, ParsedFile
    <3>2. r = [q EXCEPT !.cur.oldMode = l.text, !.cur.newMode = l.text]
      BY <2>9 DEF Extended
    <3>3. r = Marks(f, q.sawModeLine)
      BY <3>2 DEF Parsers, ParsedFile
    <3>4. q.sawModeLine \in BOOLEAN
      BY DEF Parsers
    <3>5. QED
      BY <3>1, <3>3, <3>4
  <2>10. CASE q.inFile /\ l.head \in {"binary differ", "git binary"}
    <3> DEFINE f == [q.cur EXCEPT !.binary = TRUE]
    <3>1. Recounts(q.cur, f)
      BY <1>1 DEF Recounts, ParsedFile
    <3>2. r = [q EXCEPT !.cur.binary = TRUE]
      BY <2>10 DEF Extended
    <3>3. r = Marks(f, q.sawModeLine)
      BY <3>2 DEF Parsers, ParsedFile
    <3>4. q.sawModeLine \in BOOLEAN
      BY DEF Parsers
    <3>5. QED
      BY <3>1, <3>3, <3>4
  <2>11. CASE \/ ~q.inFile
            \/ /\ l.head # "new file mode" /\ l.head # "deleted file mode" /\ l.head # "old mode" /\ l.head # "new mode" /\ l.head # "renamed from" /\ l.head # "renamed to" /\ l.head # "copied from" /\ l.head # "copied to"
               /\ ~(l.head = "index" /\ l.text # "" /\ q.cur.oldMode = "" /\ q.cur.newMode = "")
               /\ l.head \notin {"binary differ", "git binary"}
    BY <2>11 DEF Extended
  <2>12. QED
    BY <2>1, <2>2, <2>3, <2>4, <2>5, <2>6, <2>7, <2>8, <2>9, <2>10, <2>11
<1>3. ASSUME NEW f, NEW a, Recounts(q.cur, f), a \in BOOLEAN, r = Marks(f, a) PROVE Keeps(q, r) /\ r.state = q.state
  <2>1. q.sawOldHeader \in BOOLEAN /\ q.sawOldNull \in BOOLEAN /\ q.sawNewNull \in BOOLEAN
    BY DEF Parsers
  <2>2. Keeps(q, Marks(f, a))
    BY <1>3, <2>1, CurKeeps
  <2>3. Marks(f, a).state = q.state
    BY DEF Parsers
  <2>4. QED
    BY <1>3, <2>2, <2>3
<1>4. Keeps(q, q)
  BY DEF Keeps
<1> HIDE DEF r, Marks
<1>5. Keeps(q, r) /\ r.state = q.state
  BY <1>2, <1>3, <1>4
<1>6. QED
  BY <1>5 DEF r

(***************************************************************************)
(* An old-file header may close the file before it.                        *)
(***************************************************************************)
LEMMA OldHeaderKeeps ==
  ASSUME NEW q \in Parsers, Sound(q), ~q.closed, q.state = "header", NEW path \in Words
  PROVE  Keeps(q, OldHeader(q, path))
<1> DEFINE c == IF ~q.inFile \/ q.sawOldHeader \/ q.inHunk THEN StartFile(CloseFile(q)) ELSE q
           f == [c.cur EXCEPT !.old = path]
           r == OldHeader(q, path)
<1>1. Keeps(q, c)
  <2> DEFINE s == CloseFile(q)
             t == StartFile(s)
  <2>1. Keeps(q, s) /\ s.state # "hunk"
    BY CloseFileKeeps
  <2> HIDE DEF s
  <2>2. Keeps(s, t)
    BY <2>1, StartFileKeeps DEF Keeps, Sound
  <2> HIDE DEF t
  <2>3. Keeps(q, t)
    BY <2>1, <2>2 DEF Keeps
  <2>4. c = t \/ c = q
    BY DEF t, s
  <2> HIDE DEF c
  <2>5. QED
    BY <2>3, <2>4 DEF Keeps
<1>2. /\ path = "/dev/null" => r = [c EXCEPT !.sawOldHeader = TRUE, !.sawOldNull = TRUE]
      /\ path # "/dev/null" => r = [c EXCEPT !.sawOldHeader = TRUE, !.cur.old = path]
  BY DEF OldHeader
<1> HIDE DEF c, r
<1>3. c \in Parsers /\ Sound(c) /\ c.at = q.at /\ c.closed = q.closed
  BY <1>1 DEF Keeps
<1>4. /\ c.cur \in ParsedFile /\ c.sawModeLine \in BOOLEAN /\ c.sawNewNull \in BOOLEAN /\ c.sawOldNull \in BOOLEAN
      /\ Recounts(c.cur, c.cur)
  BY <1>3 DEF Parsers, Recounts
<1>5. Recounts(c.cur, f)
  BY <1>4 DEF Recounts, ParsedFile
<1>6. ASSUME path = "/dev/null" PROVE Keeps(c, r)
  <2> DEFINE yes == TRUE
  <2>1. yes \in BOOLEAN /\ Marked(c, r, c.cur, c.sawModeLine, yes, yes, c.sawNewNull)
    BY <1>2, <1>3, <1>4, <1>6 DEF Parsers, Marked
  <2> HIDE DEF f, yes
  <2>2. QED
    BY <1>3, <1>4, <2>1, MarkedKeeps
<1>7. ASSUME path # "/dev/null" PROVE Keeps(c, r)
  <2> DEFINE yes == TRUE
  <2>a. yes \in BOOLEAN /\ r = [c EXCEPT !.sawOldHeader = yes, !.cur.old = path]
    BY <1>2, <1>7
  <2> HIDE DEF yes
  <2>9. r = [c EXCEPT !.sawOldHeader = yes, !.cur = f]
    BY <1>3, <1>4, <2>a DEF Parsers, ParsedFile
  <2> HIDE DEF f
  <2> DEFINE t == [c EXCEPT !.sawOldHeader = yes]
  <2>1. Marked(c, t, c.cur, c.sawModeLine, yes, c.sawOldNull, c.sawNewNull)
    BY <1>3, <1>4, <2>a DEF Parsers, Marked
  <2>2. t.cur = c.cur /\ r = [t EXCEPT !.cur = f]
    BY <1>3, <2>9 DEF Parsers
  <2> HIDE DEF t
  <2>3. Keeps(c, t)
    BY <1>3, <1>4, <2>a, <2>1, MarkedKeeps
  <2>4. t \in Parsers /\ Sound(t) /\ Recounts(t.cur, f) /\ t.at = c.at /\ t.closed = c.closed
    BY <1>5, <2>2, <2>3 DEF Keeps
  <2>5. t.sawModeLine \in BOOLEAN /\ t.sawOldHeader \in BOOLEAN /\ t.sawOldNull \in BOOLEAN /\ t.sawNewNull \in BOOLEAN
    BY <2>4 DEF Parsers
  <2>6. Marked(t, r, f, t.sawModeLine, t.sawOldHeader, t.sawOldNull, t.sawNewNull)
    BY <2>2, <2>4, <2>5 DEF Parsers, Marked
  <2>7. Keeps(t, r)
    BY <2>4, <2>5, <2>6, MarkedKeeps
  <2>8. QED
    BY <2>4, <2>7 DEF Keeps
<1>8. Keeps(c, r)
  BY <1>6, <1>7
<1>9. QED
  BY <1>3, <1>8 DEF Keeps, r

(***************************************************************************)
(* A new-file header names the file.                                       *)
(***************************************************************************)
LEMMA NewHeaderKeeps ==
  ASSUME NEW q \in Parsers, Sound(q), ~q.closed, NEW path \in Words
  PROVE  Keeps(q, NewHeader(q, path))
<1> DEFINE c == InFile(q)
           f == [c.cur EXCEPT !.new = path]
           r == NewHeader(q, path)
<1>1. Keeps(q, c)
  BY InFileKeeps
<1>2. /\ path = "/dev/null" => r = [c EXCEPT !.sawNewNull = TRUE]
      /\ path # "/dev/null" => r = [c EXCEPT !.cur.new = path]
  BY DEF NewHeader
<1> HIDE DEF c, r
<1>3. c \in Parsers /\ Sound(c) /\ c.at = q.at /\ c.closed = q.closed
  BY <1>1 DEF Keeps
<1>4. /\ c.cur \in ParsedFile /\ c.sawModeLine \in BOOLEAN /\ c.sawNewNull \in BOOLEAN /\ c.sawOldNull \in BOOLEAN
      /\ c.sawOldHeader \in BOOLEAN /\ Recounts(c.cur, c.cur)
  BY <1>3 DEF Parsers, Recounts
<1>5. Recounts(c.cur, f)
  BY <1>4 DEF Recounts, ParsedFile
<1>6. ASSUME path = "/dev/null" PROVE Keeps(c, r)
  <2> DEFINE yes == TRUE
  <2>1. yes \in BOOLEAN /\ Marked(c, r, c.cur, c.sawModeLine, c.sawOldHeader, c.sawOldNull, yes)
    BY <1>2, <1>3, <1>4, <1>6 DEF Parsers, Marked
  <2> HIDE DEF f, yes
  <2>2. QED
    BY <1>3, <1>4, <2>1, MarkedKeeps
<1>7. ASSUME path # "/dev/null" PROVE Keeps(c, r)
  <2>1. r = [c EXCEPT !.cur = f]
    BY <1>2, <1>7
  <2> HIDE DEF f
  <2>2. Marked(c, r, f, c.sawModeLine, c.sawOldHeader, c.sawOldNull, c.sawNewNull)
    BY <1>3, <2>1 DEF Parsers, Marked
  <2>3. QED
    BY <1>3, <1>4, <1>5, <2>2, MarkedKeeps
<1>8. Keeps(c, r)
  BY <1>6, <1>7
<1>9. QED
  BY <1>3, <1>8 DEF Keeps, r

-----------------------------------------------------------------------------
(* The invariant. *)

(***************************************************************************)
(* Any line outside a hunk keeps the counts.                               *)
(***************************************************************************)
LEMMA InHeaderKeeps ==
  ASSUME NEW q \in Parsers, Sound(q), ~q.closed, q.state = "header", NEW l \in PatchLine
  PROVE  Keeps(q, InHeader(q, l))
<1> DEFINE r == InHeader(q, l)
<1>1. l.text \in Words /\ l.also \in Words /\ l.claim \in Claims
  BY LineFields
<1>2. CASE l.head \in {"@@@", "diff --cc"}
  <2>1. r = [q EXCEPT !.err = TRUE]
    BY <1>2 DEF InHeader
  <2> HIDE DEF r
  <2>2. r \in Parsers
    BY <2>1 DEF Parsers
  <2>3. /\ r.files = q.files /\ r.cur = q.cur /\ r.hunk = q.hunk /\ r.inHunk = q.inHunk /\ r.inFile = q.inFile
        /\ r.state = q.state /\ r.at = q.at /\ r.closed = q.closed
    BY <2>1 DEF Parsers
  <2>4. Sound(r)
    BY <2>3 DEF Sound
  <2>5. QED
    BY <2>2, <2>3, <2>4 DEF Keeps, r
<1>3. CASE l.head = "diff --git"
  <2> DEFINE s == CloseFile(q)
             t == StartFile(s)
  <2>1. r = [t EXCEPT !.hdrOld = l.text, !.hdrNew = l.also]
    BY <1>3 DEF InHeader
  <2>2. Keeps(q, s) /\ s.state # "hunk"
    BY CloseFileKeeps
  <2> HIDE DEF s
  <2>3. Keeps(s, t)
    BY <2>2, StartFileKeeps DEF Keeps, Sound
  <2> HIDE DEF t, r
  <2>4. t \in Parsers /\ Sound(t) /\ t.at = q.at /\ t.closed = q.closed
    BY <2>2, <2>3 DEF Keeps
  <2>5. r \in Parsers
    BY <1>1, <2>1, <2>4 DEF Parsers
  <2>6. /\ r.files = t.files /\ r.cur = t.cur /\ r.hunk = t.hunk /\ r.inHunk = t.inHunk /\ r.inFile = t.inFile
        /\ r.state = t.state /\ r.at = t.at /\ r.closed = t.closed
    BY <2>1, <2>4 DEF Parsers
  <2>7. Sound(r)
    BY <2>4, <2>6 DEF Sound
  <2>8. QED
    BY <2>4, <2>5, <2>6, <2>7 DEF Keeps, r
<1>4. CASE l.head = "@@"
  <2>1. r = OpenHunk(q, l.claim)
    BY <1>4 DEF InHeader
  <2>2. QED
    BY <1>1, <2>1, OpenHunkKeeps
<1>5. CASE l.head = "@@ junk"
  <2>1. r = Flag(q, "unparsable hunk header") /\ "unparsable hunk header" \in Warnings
    BY <1>5 DEF InHeader, Warnings
  <2>2. QED
    BY <2>1, FlagKeeps
<1>6. CASE l.head = "\\"
  <2>1. r = MarkNoNewline(q)
    BY <1>6 DEF InHeader
  <2>2. QED
    BY <2>1, MarkKeeps
<1>7. CASE l.head = "--- "
  <2>1. r = OldHeader(q, l.text)
    BY <1>7 DEF InHeader
  <2>2. QED
    BY <1>1, <2>1, OldHeaderKeeps
<1>8. CASE l.head = "+++ "
  <2>1. r = NewHeader(q, l.text)
    BY <1>8 DEF InHeader
  <2>2. QED
    BY <1>1, <2>1, NewHeaderKeeps
<1>9. CASE l.head = "git binary"
  <2> DEFINE x == Extended(q, l)
  <2>1. r = [x EXCEPT !.state = "payload"]
    BY <1>9 DEF InHeader
  <2>2. Keeps(q, x)
    BY ExtendedKeeps
  <2> HIDE DEF x, r
  <2>3. Keeps(x, r)
    BY <2>1, <2>2, StateKeeps DEF Keeps
  <2>4. QED
    BY <2>2, <2>3 DEF Keeps, r
<1>10. CASE l.head = "body" /\ l.byte \in {" ", "+", "-"} /\ q.inHunk
  <2> DEFINE x == Flag(q, "body is longer")
  <2>1. r = InBody(x, l) /\ "body is longer" \in Warnings
    BY <1>10 DEF InHeader, Warnings
  <2>2. Keeps(q, x) /\ x.inHunk
    BY <1>10, <2>1, FlagKeeps
  <2> HIDE DEF x, r
  <2>3. Keeps(x, r)
    BY <2>1, <2>2, InBodyKeeps DEF Keeps
  <2>4. QED
    BY <2>2, <2>3 DEF Keeps, r
<1>11. CASE /\ l.head \notin {"@@@", "diff --cc", "diff --git", "@@", "@@ junk", "\\", "--- ", "+++ ", "git binary"}
            /\ ~(l.head = "body" /\ l.byte \in {" ", "+", "-"} /\ q.inHunk)
  <2>1. r = Extended(q, l)
    BY <1>11 DEF InHeader
  <2>2. QED
    BY <2>1, ExtendedKeeps
<1>12. QED
  BY <1>2, <1>3, <1>4, <1>5, <1>6, <1>7, <1>8, <1>9, <1>10, <1>11

-----------------------------------------------------------------------------

\* The page is what fillFiles makes of the files, for the file asked for.
Painted ==
  page.painted =>
    /\ p.closed /\ page.focus \in 0..Len(p.files)
    /\ LET v == Filled(p.files, page.focus) IN
       page.files = v.files /\ page.adds = v.adds /\ page.dels = v.dels /\ page.stubs = v.stubs

\* The inductive invariant.
DInv == /\ lines \in Seq(PatchLine)
        /\ p \in Parsers /\ Sound(p) /\ p.at # 0
        /\ Painted

(***************************************************************************)
(* The parser stays sound over a line.                                     *)
(***************************************************************************)
LEMMA ConsumedSound ==
  ASSUME NEW q \in Parsers, NEW r, Keeps(q, r)
  PROVE  Consumed(r) \in Parsers /\ Sound(Consumed(r)) /\ Consumed(r).at # 0
<1> DEFINE s == Consumed(r)
<1>1. r \in Parsers /\ Sound(r) /\ r.at \in Nat
  BY DEF Keeps, Parsers
<1>2. s \in Parsers
  <2> DEFINE next == r.at + 1
  <2>1. next \in Nat /\ s = [r EXCEPT !.at = next]
    BY <1>1 DEF Consumed
  <2> HIDE DEF next, s
  <2>2. QED
    BY <1>1, <2>1 DEF Parsers
<1>3. /\ s.files = r.files /\ s.cur = r.cur /\ s.hunk = r.hunk /\ s.inHunk = r.inHunk /\ s.inFile = r.inFile
      /\ s.state = r.state /\ s.at = r.at + 1
  BY <1>1 DEF Consumed, Parsers
<1> HIDE DEF s
<1>4. Sound(s) /\ s.at # 0
  BY <1>1, <1>3 DEF Sound
<1>5. QED
  BY <1>2, <1>4 DEF s

(***************************************************************************)
(* The line that is read.                                                  *)
(***************************************************************************)
LEMMA LineIs ==
  ASSUME lines \in Seq(PatchLine), p \in Parsers, p.at # 0, More
  PROVE  Line \in PatchLine /\ ~p.closed /\ p.at \in 1..Len(lines)
<1>1. p.at \in Nat /\ Len(lines) \in Nat
  BY LenProperties DEF Parsers
<1>2. p.at \in 1..Len(lines)
  BY <1>1 DEF More
<1>3. QED
  BY <1>2, LenProperties DEF Line, More

(***************************************************************************)
(* In a hunk: a body line, or a line that ends the hunk early and is read  *)
(* again outside of it.                                                    *)
(***************************************************************************)
LEMMA StepHunkInv == DInv /\ StepHunk => DInv'
<1> SUFFICES ASSUME DInv, StepHunk PROVE DInv'
  OBVIOUS
<1>1. More /\ p.state = "hunk" /\ lines' = lines /\ page' = page
  BY DEF StepHunk
<1>2. lines \in Seq(PatchLine) /\ p \in Parsers /\ Sound(p) /\ p.at # 0
  BY DEF DInv
<1>3. Line \in PatchLine /\ ~p.closed
  BY <1>1, <1>2, LineIs
<1> DEFINE x == Flag(p, "body is shorter")
           y == [x EXCEPT !.state = "header"]
           r == IF Line.byte \in {"", " ", "+", "-", "\\"} THEN InBody(p, Line) ELSE InHeader(y, Line)
<1>4. p' = Consumed(r)
  BY DEF StepHunk
<1>5. Keeps(p, InBody(p, Line))
  BY <1>1, <1>2, <1>3, InBodyKeeps DEF Sound
<1>6. Keeps(p, InHeader(y, Line))
  <2>1. "body is shorter" \in Warnings
    BY DEF Warnings
  <2>2. Keeps(p, x)
    BY <1>2, <1>3, <2>1, FlagKeeps
  <2> HIDE DEF x
  <2>3. x \in Parsers /\ Sound(x)
    BY <2>2 DEF Keeps
  <2>4. Keeps(x, y) /\ y.state = "header"
    BY <2>3, StateKeeps DEF Parsers
  <2> HIDE DEF y
  <2>5. y \in Parsers /\ Sound(y) /\ ~y.closed
    BY <1>3, <2>2, <2>4 DEF Keeps
  <2>6. Keeps(y, InHeader(y, Line))
    BY <1>3, <2>4, <2>5, InHeaderKeeps
  <2>7. QED
    BY <2>2, <2>4, <2>6 DEF Keeps
<1>7. Keeps(p, r)
  BY <1>5, <1>6
<1> HIDE DEF r
<1>8. p' \in Parsers /\ Sound(p') /\ p'.at # 0
  BY <1>2, <1>4, <1>7, ConsumedSound
<1>9. ~page.painted
  BY <1>3 DEF DInv, Painted
<1>10. QED
  BY <1>1, <1>2, <1>8, <1>9 DEF DInv, Painted

-----------------------------------------------------------------------------
(* What git writes. *)

(***************************************************************************)
(* A line with a head, a first byte and a text.                            *)
(***************************************************************************)
LEMMA Made ==
  ASSUME NEW head \in Heads, NEW byte \in Bytes, NEW text \in Words
  PROVE  L(head, byte, text) \in PatchLine /\ <<L(head, byte, text)>> \in Seq(PatchLine)
<1>1. NoClaim \in Claims
  BY DEF NoClaim, Claims
<1>2. "" \in Words
  BY DEF Words, Texts
<1>3. L(head, byte, text) \in PatchLine
  BY <1>1, <1>2 DEF L, PatchLine
<1>4. QED
  BY <1>3

(***************************************************************************)
(* A header line.                                                          *)
(***************************************************************************)
LEMMA HeaderMade ==
  ASSUME NEW head \in Heads, NEW text \in Words
  PROVE  Header(head, text) \in PatchLine /\ <<Header(head, text)>> \in Seq(PatchLine)
<1>1. "d" \in Bytes
  BY DEF Bytes
<1>2. QED
  BY <1>1, Made DEF Header

(***************************************************************************)
(* Two pieces of a patch are a piece of a patch.                           *)
(***************************************************************************)
LEMMA Pieces ==
  ASSUME NEW s \in Seq(PatchLine), NEW t \in Seq(PatchLine)
  PROVE  s \o t \in Seq(PatchLine)
  BY CatIs

(***************************************************************************)
(* So is nothing.                                                          *)
(***************************************************************************)
LEMMA NoLines == <<>> \in Seq(PatchLine)
  BY EmptySeq

(***************************************************************************)
(* What git writes for a body line.                                        *)
(***************************************************************************)
LEMMA WrittenIs ==
  ASSUME NEW l \in BodyLine, NEW strip \in BOOLEAN
  PROVE  Written(l, strip) \in PatchLine
<1>1. l.text \in Words
  BY DEF BodyLine, Words
<1> DEFINE byte == CASE l.kind = "ctx" -> " " [] l.kind = "add" -> "+" [] OTHER -> "-"
           head == CASE l.kind = "del" /\ l.text = "-- x" -> "--- "
                     [] l.kind = "add" /\ l.text = "++ x" -> "+++ "
                     [] OTHER -> "body"
<1>2. byte \in Bytes
  BY DEF Bytes
<1>3. head \in Heads
  BY DEF Heads
<1>4. Written(l, strip) = L("", "", "") \/ Written(l, strip) = L(head, byte, l.text)
  BY DEF Written
<1> HIDE DEF byte, head
<1>5. "" \in Heads /\ "" \in Bytes /\ "" \in Words
  BY DEF Heads, Bytes, Words, Texts
<1>6. QED
  BY <1>1, <1>2, <1>3, <1>4, <1>5, Made

(***************************************************************************)
(* What git writes for a hunk.                                             *)
(***************************************************************************)
LEMMA HunkWritten ==
  ASSUME NEW h \in HunkChange, NEW strip \in BOOLEAN
  PROVE  WrittenHunk(h, strip) \in Seq(PatchLine)
<1> DEFINE T == Seq(PatchLine)
           Piece(i) == <<Written(h.body[i], strip)>> \o IF h.body[i].noNL THEN <<NoNewlineMarker>> ELSE <<>>
           s == [i \in DOMAIN h.body |-> Piece(i)]
           first == <<HunkLine(h.claim)>>
<1>1. h.claim \in Claims /\ h.body \in Seq(BodyLine)
  BY DEF HunkChange, Claims
<1>2. DOMAIN h.body = 1..Len(h.body) /\ Len(h.body) \in Nat
  BY <1>1, LenProperties
<1>3. ASSUME NEW i \in 1..Len(h.body) PROVE Piece(i) \in T
  <2>1. h.body[i] \in BodyLine
    BY <1>1, <1>2
  <2>2. <<Written(h.body[i], strip)>> \in T
    BY <2>1, WrittenIs
  <2>3. <<NoNewlineMarker>> \in T
    <3>1. "\\" \in Heads /\ "\\" \in Bytes /\ "" \in Words
      BY DEF Heads, Bytes, Words, Texts
    <3>2. QED
      BY <3>1, Made DEF NoNewlineMarker
  <2> DEFINE b == IF h.body[i].noNL THEN <<NoNewlineMarker>> ELSE <<>>
  <2>4. b \in T
    BY <2>3, NoLines
  <2> HIDE DEF b
  <2>5. <<Written(h.body[i], strip)>> \o b \in T
    BY <2>2, <2>4, Pieces
  <2>6. QED
    BY <2>5 DEF b
<1>4. s \in Seq(T)
  <2> HIDE DEF T, Piece
  <2>1. s \in [1..Len(h.body) -> T]
    BY <1>2, <1>3
  <2> HIDE DEF s
  <2>2. QED
    BY <1>2, <2>1, FunctionIsSeq
<1>5. FlattenSeq(s) \in T
  <2> HIDE DEF s
  <2>1. QED
    BY <1>4, FlattenType
<1>6. first \in T
  <2>1. "@@" \in Heads /\ "@" \in Bytes /\ "" \in Words
    BY DEF Heads, Bytes, Words, Texts
  <2>2. L("@@", "@", "") \in PatchLine
    BY <2>1, Made
  <2>3. HunkLine(h.claim) \in PatchLine
    BY <1>1, <2>2 DEF HunkLine, PatchLine
  <2>4. QED
    BY <2>3
<1>7. WrittenHunk(h, strip) = first \o FlattenSeq(s)
  BY DEF WrittenHunk
<1> HIDE DEF first, s
<1>8. QED
  BY <1>5, <1>6, <1>7, Pieces

(***************************************************************************)
(* What git writes for a file: each part of it that may be missing is a    *)
(* piece of a patch.                                                       *)
(***************************************************************************)
LEMMA FileWritten ==
  ASSUME NEW f \in FileChange, NEW strip \in BOOLEAN
  PROVE  WrittenFile(f, strip) \in Seq(PatchLine)
<1> DEFINE T == Seq(PatchLine)
           moded == f.oldMode # f.newMode /\ f.status \notin {"added", "deleted"}
           edited == f.hunks # <<>> \/ f.binary # "no"
           a1 == <<GitLine(f.old, f.new)>>
           a2 == IF f.status = "added" THEN <<Header("new file mode", f.newMode)>> ELSE <<>>
           a3 == IF f.status = "deleted" THEN <<Header("deleted file mode", f.oldMode)>> ELSE <<>>
           a4 == IF moded THEN <<Header("old mode", f.oldMode), Header("new mode", f.newMode)>> ELSE <<>>
           a5 == IF f.status \in {"renamed", "copied"}
                 THEN <<Header("similarity", ""), Header(Moved[f.status].from, f.old), Header(Moved[f.status].to, f.new)>>
                 ELSE <<>>
           a6 == IF f.status \in {"added", "deleted"} \/ (edited /\ moded) THEN <<Header("index", "")>>
                 ELSE IF edited THEN <<Header("index", f.newMode)>> ELSE <<>>
           a7 == CASE f.binary = "differ"  -> <<Header("binary differ", "")>>
                   [] f.binary = "payload" -> <<Header("git binary", ""), L("body", "z", "")>>
                   [] OTHER -> <<>>
           s  == [i \in DOMAIN f.hunks |-> WrittenHunk(f.hunks[i], strip)]
           b  == <<L("--- ", "-", IF f.status = "added" THEN "/dev/null" ELSE f.old),
                   L("+++ ", "+", IF f.status = "deleted" THEN "/dev/null" ELSE f.new)>>
           a8 == IF f.hunks = <<>> THEN <<>> ELSE b \o FlattenSeq(s)
           c  == <<Header("diff --cc", f.new), Header("@@@", "")>>
<1>1. /\ f.old \in Words /\ f.new \in Words /\ f.oldMode \in Words /\ f.newMode \in Words
      /\ "" \in Words /\ "/dev/null" \in Words
  BY DEF FileChange, Words, Paths, Texts
<1>2. f.hunks \in Seq(HunkChange)
  BY DEF FileChange
<1>3. \A h1, h2 \in PatchLine : <<h1>> \in T /\ <<h1, h2>> \in T
  OBVIOUS
<1>4. \A h1, h2, h3 \in PatchLine : <<h1, h2, h3>> \in T
  OBVIOUS
<1>5. a1 \in T
  <2>1. "diff --git" \in Heads
    BY DEF Heads
  <2>2. Header("diff --git", f.old) \in PatchLine
    BY <1>1, <2>1, HeaderMade
  <2>3. GitLine(f.old, f.new) \in PatchLine
    BY <1>1, <2>2 DEF GitLine, PatchLine
  <2>4. QED
    BY <2>3
<1>6. a2 \in T
  <2>1. "new file mode" \in Heads
    BY DEF Heads
  <2>2. QED
    BY <1>1, <2>1, HeaderMade, NoLines
<1>7. a3 \in T
  <2>1. "deleted file mode" \in Heads
    BY DEF Heads
  <2>2. QED
    BY <1>1, <2>1, HeaderMade, NoLines
<1>8. a4 \in T
  <2>1. "old mode" \in Heads /\ "new mode" \in Heads
    BY DEF Heads
  <2>2. Header("old mode", f.oldMode) \in PatchLine /\ Header("new mode", f.newMode) \in PatchLine
    BY <1>1, <2>1, HeaderMade
  <2> HIDE DEF moded, T
  <2>3. QED
    BY <1>3, <2>2, NoLines DEF T
<1>9. a5 \in T
  <2>1. "similarity" \in Heads
    BY DEF Heads
  <2>2. ASSUME f.status \in {"renamed", "copied"} PROVE Moved[f.status].from \in Heads /\ Moved[f.status].to \in Heads
    <3>1. CASE f.status = "renamed"
      <4>1. Moved["renamed"].from = "renamed from" /\ Moved["renamed"].to = "renamed to"
        BY DEF Moved
      <4>2. QED
        BY <3>1, <4>1 DEF Heads
    <3>2. CASE f.status = "copied"
      <4>1. Moved["copied"].from = "copied from" /\ Moved["copied"].to = "copied to"
        BY DEF Moved
      <4>2. QED
        BY <3>2, <4>1 DEF Heads
    <3>3. QED
      BY <2>2, <3>1, <3>2
  <2>3. ASSUME f.status \in {"renamed", "copied"}
        PROVE  <<Header("similarity", ""), Header(Moved[f.status].from, f.old), Header(Moved[f.status].to, f.new)>> \in T
    <3>1. /\ Header("similarity", "") \in PatchLine /\ Header(Moved[f.status].from, f.old) \in PatchLine
          /\ Header(Moved[f.status].to, f.new) \in PatchLine
      BY <1>1, <2>1, <2>2, <2>3, HeaderMade
    <3> HIDE DEF T
    <3>2. QED
      BY <1>4, <3>1
  <2>4. QED
    BY <2>3, NoLines
<1>10. a6 \in T
  <2>1. "index" \in Heads
    BY DEF Heads
  <2>2. <<Header("index", "")>> \in T /\ <<Header("index", f.newMode)>> \in T
    BY <1>1, <2>1, HeaderMade
  <2> HIDE DEF T, edited, moded
  <2>3. QED
    BY <2>2, NoLines DEF T
<1>11. a7 \in T
  <2>1. "binary differ" \in Heads /\ "git binary" \in Heads /\ "body" \in Heads /\ "z" \in Bytes
    BY DEF Heads, Bytes
  <2>2. Header("binary differ", "") \in PatchLine /\ Header("git binary", "") \in PatchLine /\ L("body", "z", "") \in PatchLine
    BY <1>1, <2>1, HeaderMade, Made
  <2>3. <<Header("binary differ", "")>> \in T /\ <<Header("git binary", ""), L("body", "z", "")>> \in T
    BY <1>3, <2>2
  <2> HIDE DEF T
  <2>4. QED
    BY <2>3, NoLines DEF T
<1>12. a8 \in T
  <2>1. b \in T
    <3> DEFINE old == IF f.status = "added" THEN "/dev/null" ELSE f.old
               new == IF f.status = "deleted" THEN "/dev/null" ELSE f.new
    <3>1. old \in Words /\ new \in Words
      BY <1>1
    <3>2. "--- " \in Heads /\ "+++ " \in Heads /\ "-" \in Bytes /\ "+" \in Bytes
      BY DEF Heads, Bytes
    <3>3. b = <<L("--- ", "-", old), L("+++ ", "+", new)>>
      OBVIOUS
    <3> HIDE DEF old, new, b, T
    <3>4. QED
      BY <1>3, <3>1, <3>2, <3>3, Made
  <2>2. DOMAIN f.hunks = 1..Len(f.hunks) /\ Len(f.hunks) \in Nat
    BY <1>2, LenProperties
  <2>3. ASSUME NEW i \in 1..Len(f.hunks) PROVE WrittenHunk(f.hunks[i], strip) \in T
    <3>1. f.hunks[i] \in HunkChange
      BY <1>2, <2>2
    <3>2. QED
      BY <3>1, HunkWritten
  <2>4. s \in Seq(T)
    <3> HIDE DEF T
    <3>1. s \in [1..Len(f.hunks) -> T]
      BY <2>2, <2>3
    <3> HIDE DEF s
    <3>2. QED
      BY <2>2, <3>1, FunctionIsSeq
  <2> HIDE DEF s, b
  <2>5. FlattenSeq(s) \in T
    BY <2>4, FlattenType
  <2>6. b \o FlattenSeq(s) \in T
    BY <2>1, <2>5, Pieces
  <2>7. QED
    BY <2>6, NoLines
<1>13. c \in T
  <2>1. "diff --cc" \in Heads /\ "@@@" \in Heads
    BY DEF Heads
  <2>2. Header("diff --cc", f.new) \in PatchLine /\ Header("@@@", "") \in PatchLine
    BY <1>1, <2>1, HeaderMade
  <2> HIDE DEF T
  <2>3. QED
    BY <1>3, <2>2
<1>14. WrittenFile(f, strip) = IF f.status = "combined" THEN c ELSE a1 \o a2 \o a3 \o a4 \o a5 \o a6 \o a7 \o a8
  BY DEF WrittenFile
<1> HIDE DEF a1, a2, a3, a4, a5, a6, a7, a8, c, T, moded, edited
<1>15. \A x, y : x \in T /\ y \in T => x \o y \in T
  BY Pieces DEF T
<1>16. a1 \o a2 \o a3 \o a4 \o a5 \o a6 \o a7 \o a8 \in T
  <2>1. a1 \o a2 \in T
    BY <1>5, <1>6, <1>15
  <2>2. a1 \o a2 \o a3 \in T
    BY <1>7, <1>15, <2>1
  <2>3. a1 \o a2 \o a3 \o a4 \in T
    BY <1>8, <1>15, <2>2
  <2>4. a1 \o a2 \o a3 \o a4 \o a5 \in T
    BY <1>9, <1>15, <2>3
  <2>5. a1 \o a2 \o a3 \o a4 \o a5 \o a6 \in T
    BY <1>10, <1>15, <2>4
  <2>6. a1 \o a2 \o a3 \o a4 \o a5 \o a6 \o a7 \in T
    BY <1>11, <1>15, <2>5
  <2>7. QED
    BY <1>12, <1>15, <2>6
<1>17. QED
  BY <1>13, <1>14, <1>16 DEF T

(***************************************************************************)
(* What git writes for a change, of any length, is lines the parser knows. *)
(***************************************************************************)
LEMMA PatchIs ==
  ASSUME NEW c \in Changes, NEW strip \in BOOLEAN
  PROVE  Patch(c, strip) \in Seq(PatchLine)
<1> DEFINE T == Seq(PatchLine)
           s == [i \in DOMAIN c |-> WrittenFile(c[i], strip)]
<1>1. c \in Seq(FileChange) /\ Len(c) \in Nat /\ DOMAIN c = 1..Len(c)
  BY ChangesAssumption, LenProperties
<1>2. ASSUME NEW i \in 1..Len(c) PROVE WrittenFile(c[i], strip) \in T
  BY <1>1, FileWritten
<1>3. s \in Seq(T)
  <2> HIDE DEF T
  <2>1. s \in [1..Len(c) -> T]
    BY <1>1, <1>2
  <2> HIDE DEF s
  <2>2. QED
    BY <1>1, <2>1, FunctionIsSeq
<1> HIDE DEF s
<1>4. FlattenSeq(s) \in T
  BY <1>3, FlattenType
<1>5. QED
  BY <1>4 DEF Patch, s

-----------------------------------------------------------------------------
(* The steps. *)

(***************************************************************************)
(* So is what a capture has that stopped before a line or inside it.       *)
(***************************************************************************)
LEMMA CapturedIs ==
  ASSUME lines \in Seq(PatchLine), NEW n \in 1..Len(lines), NEW inside \in BOOLEAN
  PROVE  Captured(n, inside) \in Seq(PatchLine)
<1> DEFINE head == SubSeq(lines, 1, n)
           l == head[n]
           c == Clipped(l)
<1>1. head \in Seq(PatchLine) /\ Len(head) = n /\ n \in 1..n
  <2>1. Len(lines) \in Nat
    BY LenProperties
  <2>2. 1 \in 1..Len(lines) /\ n - 1 + 1 = n /\ n \in Nat
    BY <2>1
  <2>3. QED
    BY <2>1, <2>2, SubSeqProperties
<1> HIDE DEF head
<1>2. l \in PatchLine
  BY <1>1
<1>3. c \in PatchLine
  <2>1. "@@ junk" \in Heads /\ "@" \in Bytes /\ "" \in Words /\ "other" \in Heads /\ "body" \in Heads /\ "" \in Heads /\ "cut" \in Words
    BY DEF Heads, Bytes, Words, Texts
  <2>2. Junk \in PatchLine
    BY <2>1, Made DEF Junk
  <2>3. [l EXCEPT !.head = IF l.byte = "" THEN "" ELSE "body", !.text = "cut"] \in PatchLine
    BY <1>2, <2>1 DEF PatchLine
  <2>4. [Header("other", "") EXCEPT !.byte = l.byte] \in PatchLine
    BY <1>2, <2>1, HeaderMade DEF PatchLine
  <2>5. c \in {Junk, [l EXCEPT !.head = IF l.byte = "" THEN "" ELSE "body", !.text = "cut"], l,
               [Header("other", "") EXCEPT !.byte = l.byte]}
    <3> DEFINE x == [l EXCEPT !.head = IF l.byte = "" THEN "" ELSE "body", !.text = "cut"]
               y == [Header("other", "") EXCEPT !.byte = l.byte]
    <3>1. c = CASE l.head \in {"@@", "@@ junk"} -> Junk [] IsBody(l) -> x [] l.head = "\\" -> l [] OTHER -> y
      BY DEF Clipped
    <3> HIDE DEF x, y, c
    <3>2. c \in {Junk, x, l, y}
      BY <3>1
    <3>3. QED
      BY <3>2 DEF x, y
  <2>6. QED
    BY <1>2, <2>2, <2>3, <2>4, <2>5
<1>4. Captured(n, inside) = IF inside THEN [head EXCEPT ![n] = c] ELSE head
  BY DEF Captured, head
<1> HIDE DEF c
<1>5. [head EXCEPT ![n] = c] \in Seq(PatchLine)
  BY <1>1, <1>3, ExceptSeq
<1>6. QED
  BY <1>1, <1>4, <1>5

(***************************************************************************)
(* So is the trailer that says the capture stopped.                        *)
(***************************************************************************)
LEMMA TrailerIs == Trailer \in Seq(PatchLine)
<1>1. "" \in Heads /\ "" \in Bytes /\ "" \in Words /\ "other" \in Heads /\ "[" \in Bytes
  BY DEF Heads, Bytes, Words, Texts
<1>2. L("", "", "") \in PatchLine /\ L("other", "[", "") \in PatchLine
  BY <1>1, Made
<1>3. \A h1, h2, h3 \in PatchLine : <<h1, h2, h3>> \in Seq(PatchLine)
  OBVIOUS
<1>4. QED
  BY <1>2, <1>3 DEF Trailer

(***************************************************************************)
(* The invariant holds before the first line, for every change.            *)
(***************************************************************************)
LEMMA InitDInv == Init => DInv
<1> SUFFICES ASSUME Init PROVE DInv
  OBVIOUS
<1>1. lines \in Seq(PatchLine)
  BY PatchIs DEF Init
<1>2. p = Start /\ page.painted = FALSE
  BY DEF Init, NoPage
<1>3. p \in Parsers /\ p.at # 0
  <2>1. Start.at = 1
    BY DEF Start
  <2>2. QED
    BY <1>2, <2>1, Nothing
<1>4. Sound(p)
  <2>1. p.files = <<>> /\ p.cur = NoFile /\ p.hunk = NoHunk /\ p.inHunk = FALSE /\ p.state = "header"
    BY <1>2 DEF Start
  <2>2. Counted(<<>>)
    <3>1. \A i \in 1..Len(<<>>) : FALSE
      BY EmptySeq
    <3>2. QED
      BY <3>1 DEF Counted
  <2>3. QED
    BY <2>1, <2>2, Nothing DEF Sound
<1>5. QED
  BY <1>1, <1>2, <1>3, <1>4 DEF DInv, Painted

(***************************************************************************)
(* It holds when the capture turns out to have stopped here.               *)
(***************************************************************************)
LEMMA CutInv == ASSUME NEW inside \in BOOLEAN PROVE DInv /\ Cut(inside) => DInv'
<1> SUFFICES ASSUME DInv, Cut(inside) PROVE DInv'
  OBVIOUS
<1>1. lines \in Seq(PatchLine) /\ p \in Parsers /\ Sound(p) /\ p.at # 0 /\ Painted
  BY DEF DInv
<1>2. More /\ (p.at > 1 \/ inside) /\ p' = p /\ page' = page
  BY DEF Cut
<1>3. p.at \in 1..Len(lines) /\ ~p.closed
  BY <1>1, <1>2, LineIs
<1> DEFINE n == IF inside THEN p.at ELSE p.at - 1
           t == IF persisted THEN Trailer ELSE <<>>
<1>4. n \in 1..Len(lines)
  <2>1. Len(lines) \in Nat
    BY <1>1, LenProperties
  <2>2. QED
    BY <1>2, <1>3, <2>1
<1>5. lines' = Captured(n, inside) \o t
  BY DEF Cut
<1>6. t \in Seq(PatchLine)
  BY TrailerIs, NoLines
<1> HIDE DEF n, t
<1>7. lines' \in Seq(PatchLine)
  BY <1>1, <1>4, <1>5, <1>6, CapturedIs, Pieces
<1>8. QED
  BY <1>1, <1>2, <1>7 DEF DInv, Painted

(***************************************************************************)
(* It holds when a line of a binary payload is passed over, or ends it.    *)
(***************************************************************************)
LEMMA StepPayloadInv == DInv /\ StepPayload => DInv'
<1> SUFFICES ASSUME DInv, StepPayload PROVE DInv'
  OBVIOUS
<1>1. More /\ p.state = "payload" /\ lines' = lines /\ page' = page
  BY DEF StepPayload
<1>2. lines \in Seq(PatchLine) /\ p \in Parsers /\ Sound(p) /\ p.at # 0
  BY DEF DInv
<1>3. Line \in PatchLine /\ ~p.closed
  BY <1>1, <1>2, LineIs
<1> DEFINE y == [p EXCEPT !.state = "header"]
           r == IF Line.head \in {"diff --git", "diff --cc"} THEN InHeader(y, Line) ELSE p
<1>4. p' = Consumed(r)
  BY DEF StepPayload
<1>5. Keeps(p, p)
  BY <1>2 DEF Keeps
<1>6. Keeps(p, InHeader(y, Line))
  <2>1. Keeps(p, y) /\ y.state = "header"
    BY <1>2, StateKeeps DEF Parsers
  <2> HIDE DEF y
  <2>2. y \in Parsers /\ Sound(y) /\ ~y.closed
    BY <1>3, <2>1 DEF Keeps
  <2>3. Keeps(y, InHeader(y, Line))
    BY <1>3, <2>1, <2>2, InHeaderKeeps
  <2>4. QED
    BY <2>1, <2>3 DEF Keeps
<1>7. Keeps(p, r)
  BY <1>5, <1>6
<1> HIDE DEF r
<1>8. p' \in Parsers /\ Sound(p') /\ p'.at # 0
  BY <1>2, <1>4, <1>7, ConsumedSound
<1>9. ~page.painted
  BY <1>3 DEF DInv, Painted
<1>10. QED
  BY <1>1, <1>2, <1>8, <1>9 DEF DInv, Painted

(***************************************************************************)
(* It holds over a line outside a hunk.                                    *)
(***************************************************************************)
LEMMA StepHeaderInv == DInv /\ StepHeader => DInv'
<1> SUFFICES ASSUME DInv, StepHeader PROVE DInv'
  OBVIOUS
<1>1. More /\ p.state = "header" /\ lines' = lines /\ page' = page
  BY DEF StepHeader
<1>2. lines \in Seq(PatchLine) /\ p \in Parsers /\ Sound(p) /\ p.at # 0
  BY DEF DInv
<1>3. Line \in PatchLine /\ ~p.closed
  BY <1>1, <1>2, LineIs
<1> DEFINE r == InHeader(p, Line)
<1>4. p' = Consumed(r)
  BY DEF StepHeader
<1>5. Keeps(p, r)
  BY <1>1, <1>2, <1>3, InHeaderKeeps
<1> HIDE DEF r
<1>6. p' \in Parsers /\ Sound(p') /\ p'.at # 0
  BY <1>2, <1>4, <1>5, ConsumedSound
<1>7. ~page.painted
  BY <1>3 DEF DInv, Painted
<1>8. QED
  BY <1>1, <1>2, <1>6, <1>7 DEF DInv, Painted

(***************************************************************************)
(* It holds when the parser closes the last file.                          *)
(***************************************************************************)
LEMMA FinishInv == DInv /\ Finish => DInv'
<1> SUFFICES ASSUME DInv, Finish PROVE DInv'
  OBVIOUS
<1>1. ~p.closed /\ lines' = lines /\ page' = page
  BY DEF Finish
<1>2. lines \in Seq(PatchLine) /\ p \in Parsers /\ Sound(p) /\ p.at # 0
  BY DEF DInv
<1> DEFINE r == CloseFile(p)
           s == [r EXCEPT !.closed = TRUE]
<1>3. p' = s
  BY DEF Finish
<1>4. r \in Parsers /\ Sound(r) /\ r.at = p.at
  <2>1. Keeps(p, r)
    BY <1>1, <1>2, CloseFileKeeps DEF Sound
  <2>2. QED
    BY <2>1 DEF Keeps
<1> HIDE DEF r
<1>5. s \in Parsers
  BY <1>4 DEF Parsers
<1>6. /\ s.files = r.files /\ s.cur = r.cur /\ s.hunk = r.hunk /\ s.inHunk = r.inHunk /\ s.inFile = r.inFile
      /\ s.state = r.state /\ s.at = r.at
  BY <1>4 DEF Parsers
<1> HIDE DEF s
<1>7. Sound(s)
  BY <1>4, <1>6 DEF Sound
<1>8. ~page.painted
  BY <1>1 DEF DInv, Painted
<1>9. QED
  BY <1>1, <1>2, <1>3, <1>4, <1>5, <1>6, <1>7, <1>8 DEF DInv, Painted

(***************************************************************************)
(* It holds when the page is painted, whichever file was asked for.        *)
(***************************************************************************)
LEMMA PaintInv == ASSUME NEW focus \in 0..Len(p.files) PROVE DInv /\ Paint(focus) => DInv'
<1> SUFFICES ASSUME DInv, Paint(focus) PROVE DInv'
  OBVIOUS
<1> DEFINE v == Filled(p.files, focus)
<1>1. /\ p.closed /\ lines' = lines /\ p' = p
      /\ page' = [painted |-> TRUE, files |-> v.files, focus |-> focus, adds |-> v.adds, dels |-> v.dels, stubs |-> v.stubs]
  BY DEF Paint
<1> HIDE DEF v
<1>2. /\ page'.focus = focus
      /\ page'.files = v.files /\ page'.adds = v.adds /\ page'.dels = v.dels /\ page'.stubs = v.stubs
  BY <1>1
<1>3. Painted'
  BY <1>1, <1>2 DEF Painted, v
<1>4. QED
  BY <1>1, <1>3 DEF DInv

(***************************************************************************)
(* In every reachable state each file counts the additions and deletions   *)
(* that its hunks hold, the open hunk's included, and a page that is       *)
(* painted is what fillFiles makes of the files.                           *)
(***************************************************************************)
THEOREM Pages == Spec => []DInv
<1>1. DInv /\ [Next]_vars => DInv'
  <2> SUFFICES ASSUME DInv, [Next]_vars PROVE DInv'
    OBVIOUS
  <2>1. CASE StepHunk
    BY <2>1, StepHunkInv
  <2>2. CASE StepPayload
    BY <2>2, StepPayloadInv
  <2>3. CASE StepHeader
    BY <2>3, StepHeaderInv
  <2>4. CASE Finish
    BY <2>4, FinishInv
  <2>5. CASE \E inside \in BOOLEAN : Cut(inside)
    BY <2>5, CutInv
  <2>6. CASE \E focus \in 0..Len(p.files) : Paint(focus)
    BY <2>6, PaintInv
  <2>7. CASE UNCHANGED vars
    BY <2>7 DEF DInv, Painted, vars
  <2>8. QED
    BY <2>1, <2>2, <2>3, <2>4, <2>5, <2>6, <2>7 DEF Next
<1>2. QED
  BY InitDInv, <1>1, PTL DEF Spec

-----------------------------------------------------------------------------
(* The page. *)

(***************************************************************************)
(* What is painted is what fillFiles has after the last file.              *)
(***************************************************************************)
LEMMA PaintedIs ==
  ASSUME DInv, page.painted
  PROVE  /\ p.files \in Seq(ParsedFile) /\ Counted(p.files) /\ page.focus \in 0..Len(p.files)
         /\ \E v : /\ Filling(v, p.files, Len(p.files), page.focus)
                   /\ page.files = v.files /\ page.adds = v.adds /\ page.dels = v.dels /\ page.stubs = v.stubs
<1>1. p.files \in Seq(ParsedFile) /\ Counted(p.files) /\ page.focus \in 0..Len(p.files)
  BY DEF DInv, Parsers, Sound, Painted
<1>2. page.focus \in Nat
  BY <1>1, LenProperties
<1> DEFINE v == Filled(p.files, page.focus)
<1>3. page.files = v.files /\ page.adds = v.adds /\ page.dels = v.dels /\ page.stubs = v.stubs
  BY DEF DInv, Painted
<1>4. Filling(v, p.files, Len(p.files), page.focus)
  BY <1>1, <1>2, FilledIs
<1> HIDE DEF v
<1>5. QED
  BY <1>1, <1>3, <1>4

(***************************************************************************)
(* On a page the split view of a hunk shows the hunk.                      *)
(***************************************************************************)
LEMMA Agrees == DInv => ViewsAgree
<1> SUFFICES ASSUME DInv, page.painted, NEW i \in DOMAIN page.files, NEW j \in DOMAIN page.files[i].hunks
             PROVE  LET ls   == page.files[i].hunks[j].lines
                        rows == page.files[i].split[j] IN Shows(rows, ls)
  BY DEF ViewsAgree, Shows, FairRows
<1>1. PICK v : Filling(v, p.files, Len(p.files), page.focus) /\ page.files = v.files
  BY PaintedIs
<1> DEFINE fs == p.files
           f  == fs[i]
           b  == v.files[i].stub
<1>2. fs \in Seq(ParsedFile)
  BY PaintedIs
<1>3. v.files \in Seq(PageFiles(fs)) /\ Len(v.files) = Len(fs) /\ Views(v, fs, Len(fs))
  BY <1>1 DEF Filling
<1>4. i \in 1..Len(fs)
  BY <1>1, <1>3, LenProperties
<1>5. b \in BOOLEAN /\ page.files[i] = PageFile(f, b)
  BY <1>1, <1>3, <1>4 DEF Views
<1>6. f.hunks \in Seq(ParsedHunk)
  BY <1>2, <1>4, FileFields
<1> HIDE DEF b, f, fs
<1>7. CASE ~b /\ ~f.binary
  <2>1. page.files[i].hunks = f.hunks /\ page.files[i].split = [h \in DOMAIN f.hunks |-> Split(f.hunks[h].lines)]
    BY <1>5, <1>7 DEF PageFile
  <2>2. f.hunks[j] \in ParsedHunk
    BY <1>6, <2>1, LenProperties
  <2>3. f.hunks[j].lines \in Seq(ParsedLine)
    BY <2>2, FieldTypes
  <2>4. Kinded(ParsedLine)
    BY FieldTypes DEF Kinded
  <2>5. Shows(Split(f.hunks[j].lines), f.hunks[j].lines)
    BY <2>3, <2>4, SplitShows
  <2>6. QED
    BY <2>1, <2>5
<1>8. CASE b \/ f.binary
  <2>1. page.files[i].hunks = <<>>
    BY <1>5, <1>8 DEF PageFile
  <2>2. QED
    BY <2>1
<1>9. QED
  BY <1>7, <1>8

(***************************************************************************)
(* The page's totals count every file, and what is rendered is in order    *)
(* and within the budget.                                                  *)
(***************************************************************************)
LEMMA Accounts == DInv => PageAccounts
<1> SUFFICES ASSUME DInv, page.painted
             PROVE  LET shown == {i \in DOMAIN page.files : ~page.files[i].stub}
                        all   == Shown(p.files) IN
                    /\ Len(page.files) = Len(p.files)
                    /\ page.adds = Len(Only(all, {"add"}))
                    /\ page.dels = Len(Only(all, {"del"}))
                    /\ page.stubs = Len(p.files) - Cardinality(shown)
                    /\ page.focus # 0 => page.focus \in shown
                    /\ RowsOf(shown \ {page.focus}) <= Budget
                    /\ \A i \in DOMAIN page.files :
                         /\ page.files[i].flags = p.files[i].flags
                         /\ i \in shown /\ ~p.files[i].binary => page.files[i].hunks = p.files[i].hunks
                         /\ i \notin shown => \A k \in shown : k < i \/ k = page.focus
  BY DEF PageAccounts
<1>1. PICK v : /\ Filling(v, p.files, Len(p.files), page.focus)
               /\ page.files = v.files /\ page.adds = v.adds /\ page.dels = v.dels /\ page.stubs = v.stubs
  BY PaintedIs
<1> DEFINE fs    == p.files
           focus == page.focus
           n     == Len(fs)
           shown == {i \in DOMAIN page.files : ~page.files[i].stub}
<1>2. fs \in Seq(ParsedFile) /\ focus \in 0..n /\ n \in Nat
  BY PaintedIs, LenProperties
<1>3. /\ v.files \in Seq(PageFiles(fs)) /\ Len(v.files) = n
      /\ Views(v, fs, n) /\ Totals(v, fs, n) /\ Within(v, fs, n, focus) /\ InOrder(v, n, focus)
  BY <1>1 DEF Filling
<1>4. DOMAIN page.files = 1..n /\ Len(page.files) = n
  BY <1>1, <1>3, LenProperties
<1>5. shown = Rendered(v, n)
  BY <1>1, <1>4 DEF Rendered
<1>6. SubSeq(fs, 1, n) = fs
  BY <1>2, SubSeqFull
<1>7. RowsOf(shown \ {focus}) = RowsIn(fs, n, shown \ {focus})
  <2>1. DOMAIN fs = 1..n
    BY <1>2, LenProperties
  <2>2. QED
    BY <2>1 DEF RowsOf, RowsIn, BodiesIn
<1> HIDE DEF shown, n
<1>8. page.adds = Len(Only(Shown(fs), {"add"})) /\ page.dels = Len(Only(Shown(fs), {"del"})) /\ page.stubs = n - Cardinality(shown)
  BY <1>1, <1>3, <1>5, <1>6 DEF Totals
<1>9. focus # 0 => focus \in shown
  <2> SUFFICES ASSUME focus # 0 PROVE focus \in Rendered(v, n)
    BY <1>5
  <2>1. focus \in 1..n
    BY <1>2
  <2>2. QED
    BY <1>3, <2>1 DEF InOrder, Rendered
<1>10. RowsOf(shown \ {focus}) <= Budget
  BY <1>3, <1>5, <1>7 DEF Within
<1>11. ASSUME NEW i \in DOMAIN page.files
       PROVE  /\ page.files[i].flags = fs[i].flags
              /\ i \in shown /\ ~fs[i].binary => page.files[i].hunks = fs[i].hunks
              /\ i \notin shown => \A k \in shown : k < i \/ k = focus
  <2>1. i \in 1..n
    BY <1>4
  <2>2. page.files[i].stub \in BOOLEAN /\ page.files[i] = PageFile(fs[i], page.files[i].stub)
    BY <1>1, <1>3, <2>1 DEF Views
  <2>3. i \in shown <=> ~page.files[i].stub
    BY <1>1, <1>5, <2>1 DEF Rendered
  <2>4. page.files[i].flags = fs[i].flags
    BY <2>2 DEF PageFile
  <2>5. i \in shown /\ ~fs[i].binary => page.files[i].hunks = fs[i].hunks
    BY <2>2, <2>3 DEF PageFile
  <2>6. ASSUME i \notin shown, NEW k \in shown PROVE k < i \/ k = focus
    <3>1. k \in 1..n /\ ~v.files[k].stub /\ v.files[i].stub
      BY <1>1, <1>5, <2>3, <2>6 DEF Rendered
    <3>2. QED
      BY <1>3, <2>1, <3>1 DEF InOrder
  <2>7. QED
    BY <2>4, <2>5, <2>6
<1>12. QED
  BY <1>4, <1>8, <1>9, <1>10, <1>11 DEF shown, n

(***************************************************************************)
(* For every change git can write, in any number of files and hunks of any *)
(* length, honest or lying, whole or cut short, the side-by-side view      *)
(* shows on each side exactly the lines that the unified view has there,   *)
(* in their order, and pairs only a deletion with an addition              *)
(* (internal/diff: Split; server/diffpage.go: fillFiles).                  *)
(***************************************************************************)
THEOREM ViewsMatch == Spec => []ViewsAgree
  BY Pages, Agrees, PTL

(***************************************************************************)
(* For every such change and every budget, the totals on the page are      *)
(* those of the whole patch, stubs included, the file asked for is         *)
(* rendered, a stub is followed by nothing rendered but that file, and the *)
(* rest that is rendered fits in the budget (server/diffpage.go:           *)
(* fillFiles).                                                             *)
(***************************************************************************)
THEOREM TotalsHold == Spec => []PageAccounts
  BY Pages, Accounts, PTL

-----------------------------------------------------------------------------
(* The places in a change, and the lines that lead from one to the next. *)

\* Places in a change: before it, among the headers of file f of which these
\* have been written, after its old name, in its hunk h with k lines written
\* and whether the last one's marker is, too; and within a combined diff.
Spot(at, f, h, k, done, seen) == [at |-> at, f |-> f, h |-> h, k |-> k, done |-> done, seen |-> seen]
Spots == [at : {"start", "head", "old", "hunk", "cc"}, f : Nat, h : Nat, k : Nat, done : BOOLEAN, seen : SUBSET Heads]

Before              == Spot("start", 0, 0, 0, TRUE, {})
HeadSpot(f, seen)   == Spot("head", f, 0, 0, TRUE, seen)
OldSpot(f)          == Spot("old", f, 0, 0, TRUE, {})
HunkSpot(f, h, k, done) == Spot("hunk", f, h, k, done, {})
Combine             == Spot("cc", 0, 0, 0, TRUE, {})

\* The headers that git writes for a file between its first line and its hunks.
Moded(f)  == f.oldMode # f.newMode /\ f.status \notin {"added", "deleted"}
Edited(f) == f.hunks # <<>> \/ f.binary # "no"
Blank(f)  == f.status \in {"added", "deleted"} \/ (Edited(f) /\ Moded(f))
Needs(f, n) ==
  \/ n = "new file mode" /\ f.status = "added"
  \/ n = "deleted file mode" /\ f.status = "deleted"
  \/ n \in {"old mode", "new mode"} /\ Moded(f)
  \/ n = "similarity" /\ f.status \in {"renamed", "copied"}
  \/ n \in {"renamed from", "renamed to"} /\ f.status = "renamed"
  \/ n \in {"copied from", "copied to"} /\ f.status = "copied"
  \/ n = "index" /\ (Blank(f) \/ Edited(f))
  \/ n = "binary differ" /\ f.binary = "differ"
  \/ n \in {"git binary", "body"} /\ f.binary = "payload"
Says(f, n) ==
  CASE n \in {"new file mode", "new mode"} -> f.newMode
    [] n \in {"deleted file mode", "old mode"} -> f.oldMode
    [] n \in {"renamed from", "copied from"} -> f.old
    [] n \in {"renamed to", "copied to"} -> f.new
    [] n = "index" /\ ~Blank(f) -> f.newMode
    [] OTHER -> ""
HeadLine(f, n) == IF n = "body" THEN L("body", "z", "") ELSE Header(n, Says(f, n))
ModeNames == {"new file mode", "deleted file mode", "old mode", "new mode"}
AllSeen(f, seen) == \A n \in Heads : Needs(f, n) => n \in seen

OldLine(f) == L("--- ", "-", IF f.status = "added" THEN "/dev/null" ELSE f.old)
NewLine(f) == L("+++ ", "+", IF f.status = "deleted" THEN "/dev/null" ELSE f.new)

\* A hunk, a file is complete at this place.
HunkDone(c, a) == a.at = "hunk" /\ a.done /\ (a.h > 0 => a.k = Len(c[a.f].hunks[a.h].body))
Complete(c, a) ==
  \/ a.at = "start"
  \/ a.at = "head" /\ AllSeen(c[a.f], a.seen) /\ c[a.f].hunks = <<>>
  \/ HunkDone(c, a) /\ a.h = Len(c[a.f].hunks)

\* The line l leads from a to b.
IsCombined(c, a, l, b) ==
  /\ b = Combine
  /\ \/ a = Combine
     \/ /\ Complete(c, a) /\ a.f < Len(c) /\ c[a.f + 1].status = "combined"
        /\ l.head = "diff --cc" /\ l.byte = "d"
IsGit(c, a, l, b) ==
  /\ Complete(c, a) /\ a.f < Len(c) /\ c[a.f + 1].status # "combined"
  /\ l = GitLine(c[a.f + 1].old, c[a.f + 1].new) /\ b = HeadSpot(a.f + 1, {})
IsHead(c, a, l, b) ==
  \E n \in Heads :
    /\ a.at = "head" /\ Needs(c[a.f], n) /\ l = HeadLine(c[a.f], n)
    /\ n = "index" => \A m \in ModeNames : Needs(c[a.f], m) => m \in a.seen
    /\ (n = "body") <=> ("git binary" \in a.seen)
    /\ b = HeadSpot(a.f, a.seen \cup {n})
IsOld(c, a, l, b) ==
  /\ a.at = "head" /\ AllSeen(c[a.f], a.seen) /\ c[a.f].hunks # <<>>
  /\ l = OldLine(c[a.f]) /\ b = OldSpot(a.f)
IsNew(c, a, l, b) == a.at = "old" /\ l = NewLine(c[a.f]) /\ b = HunkSpot(a.f, 0, 0, TRUE)
IsHunk(c, a, l, b) ==
  /\ HunkDone(c, a) /\ a.h < Len(c[a.f].hunks)
  /\ l = HunkLine(c[a.f].hunks[a.h + 1].claim) /\ b = HunkSpot(a.f, a.h + 1, 0, TRUE)
IsText(c, strip, a, l, b) ==
  LET body == c[a.f].hunks[a.h].body IN
  /\ a.at = "hunk" /\ a.h > 0 /\ a.done /\ a.k < Len(body)
  /\ l = Written(body[a.k + 1], strip) /\ b = HunkSpot(a.f, a.h, a.k + 1, ~body[a.k + 1].noNL)
IsMarker(c, a, l, b) == a.at = "hunk" /\ ~a.done /\ l = NoNewlineMarker /\ b = HunkSpot(a.f, a.h, a.k, TRUE)

Leads(c, strip, a, l, b) ==
  \/ IsCombined(c, a, l, b) \/ IsGit(c, a, l, b) \/ IsHead(c, a, l, b) \/ IsOld(c, a, l, b) \/ IsNew(c, a, l, b)
  \/ IsHunk(c, a, l, b) \/ IsText(c, strip, a, l, b) \/ IsMarker(c, a, l, b)

\* g tells for each line of s the place that it leads to.
Walks(c, strip, s, g) ==
  /\ g \in [0..Len(s) -> Spots]
  /\ \A i \in 1..Len(s) : Leads(c, strip, g[i - 1], s[i], g[i])

\* The lines s lead from a to b.
Goes(c, strip, s, a, b) == \E g : Walks(c, strip, s, g) /\ g[0] = a /\ g[Len(s)] = b

(***************************************************************************)
(* No lines lead from a place to itself.                                   *)
(***************************************************************************)
LEMMA GoesNone ==
  ASSUME NEW c, NEW strip, NEW a \in Spots
  PROVE  Goes(c, strip, <<>>, a, a)
<1> DEFINE g == [i \in 0..0 |-> a]
<1>1. Len(<<>>) = 0
  OBVIOUS
<1>2. g \in [0..0 -> Spots] /\ g[0] = a
  OBVIOUS
<1> HIDE DEF g
<1>3. Walks(c, strip, <<>>, g)
  BY <1>1, <1>2 DEF Walks
<1>4. QED
  BY <1>1, <1>2, <1>3 DEF Goes

(***************************************************************************)
(* One line that leads from a place to another goes there.                 *)
(***************************************************************************)
LEMMA GoesOne ==
  ASSUME NEW c, NEW strip, NEW a \in Spots, NEW l \in PatchLine, NEW b \in Spots, Leads(c, strip, a, l, b)
  PROVE  Goes(c, strip, <<l>>, a, b)
<1> DEFINE g == [i \in 0..1 |-> IF i = 0 THEN a ELSE b]
           s == <<l>>
<1>1. Len(s) = 1 /\ s[1] = l
  OBVIOUS
<1>2. g \in [0..1 -> Spots] /\ g[0] = a /\ g[1] = b
  OBVIOUS
<1> HIDE DEF g, s
<1>3. Walks(c, strip, s, g)
  <2>1. ASSUME NEW i \in 1..1 PROVE Leads(c, strip, g[i - 1], s[i], g[i])
    <3>1. i = 1 /\ i - 1 = 0
      OBVIOUS
    <3>2. QED
      BY <1>1, <1>2, <3>1
  <2>2. QED
    BY <1>1, <1>2, <2>1 DEF Walks
<1>4. QED
  BY <1>1, <1>2, <1>3 DEF Goes, s

(***************************************************************************)
(* Lines that go from a to b and lines that go on from b, one after the    *)
(* other.                                                                  *)
(***************************************************************************)
LEMMA GoesJoin ==
  ASSUME NEW c, NEW strip, NEW s \in Seq(PatchLine), NEW t \in Seq(PatchLine), NEW a, NEW b, NEW d,
         Goes(c, strip, s, a, b), Goes(c, strip, t, b, d)
  PROVE  Goes(c, strip, s \o t, a, d)
<1>1. PICK x : Walks(c, strip, s, x) /\ x[0] = a /\ x[Len(s)] = b
  BY DEF Goes
<1>2. PICK y : Walks(c, strip, t, y) /\ y[0] = b /\ y[Len(t)] = d
  BY DEF Goes
<1> DEFINE m == Len(s)
           n == Len(t)
           u == s \o t
           g == [i \in 0..(m + n) |-> IF i <= m THEN x[i] ELSE y[i - m]]
<1>3. /\ m \in Nat /\ n \in Nat /\ Len(u) = m + n
      /\ \A i \in 1..m : u[i] = s[i]
      /\ \A i \in 1..n : u[m + i] = t[i]
  BY CatIs
<1>4. x \in [0..m -> Spots] /\ y \in [0..n -> Spots]
  BY <1>1, <1>2 DEF Walks
<1>5. \A i \in 1..m : Leads(c, strip, x[i - 1], s[i], x[i])
  BY <1>1 DEF Walks
<1>6. \A i \in 1..n : Leads(c, strip, y[i - 1], t[i], y[i])
  BY <1>2 DEF Walks
<1>7. x[0] = a /\ x[m] = b /\ y[0] = b /\ y[n] = d
  BY <1>1, <1>2
<1> HIDE DEF m, n, u
<1>8. \A i \in 0..m : g[i] = x[i]
  BY <1>3
<1>9. \A i \in 0..n : g[m + i] = y[i]
  <2>1. ASSUME NEW i \in 0..n PROVE g[m + i] = y[i]
    <3>1. CASE i = 0
      BY <1>3, <1>7, <3>1
    <3>2. CASE i # 0
      <4>1. m + i \in 0..(m + n) /\ ~(m + i <= m) /\ (m + i) - m = i
        BY <1>3, <3>2
      <4>2. QED
        BY <4>1
    <3>3. QED
      BY <3>1, <3>2
  <2>2. QED
    BY <2>1
<1>10. g \in [0..(m + n) -> Spots]
  <2>1. ASSUME NEW i \in 0..(m + n) PROVE g[i] \in Spots
    <3>1. CASE i <= m
      <4>1. i \in 0..m
        BY <1>3, <3>1
      <4>2. QED
        BY <1>4, <1>8, <4>1
    <3>2. CASE ~(i <= m)
      <4>1. i - m \in 0..n
        BY <1>3, <3>2
      <4>2. QED
        BY <1>4, <3>2, <4>1
    <3>3. QED
      BY <3>1, <3>2
  <2>2. QED
    BY <2>1
<1> HIDE DEF g
<1>11. ASSUME NEW i \in 1..(m + n) PROVE Leads(c, strip, g[i - 1], u[i], g[i])
  <2>1. CASE i <= m
    <3>1. i \in 1..m /\ i - 1 \in 0..m /\ i \in 0..m
      BY <1>3, <2>1
    <3>2. g[i - 1] = x[i - 1] /\ g[i] = x[i] /\ u[i] = s[i]
      BY <1>3, <1>8, <3>1
    <3>3. QED
      BY <1>5, <3>1, <3>2
  <2>2. CASE ~(i <= m)
    <3> DEFINE j == i - m
    <3>1. j \in 1..n /\ j - 1 \in 0..n /\ j \in 0..n /\ i = m + j /\ i - 1 = m + (j - 1)
      BY <1>3, <2>2
    <3> HIDE DEF j
    <3>2. g[i - 1] = y[j - 1] /\ g[i] = y[j] /\ u[i] = t[j]
      BY <1>3, <1>9, <3>1
    <3>3. QED
      BY <1>6, <3>1, <3>2
  <2>3. QED
    BY <2>1, <2>2
<1>12. Walks(c, strip, u, g)
  BY <1>3, <1>10, <1>11 DEF Walks
<1>13. g[0] = a /\ g[m + n] = d
  <2>1. 0 \in 0..m /\ n \in 0..n
    BY <1>3
  <2>2. QED
    BY <1>7, <1>8, <1>9, <2>1
<1>14. QED
  BY <1>3, <1>12, <1>13 DEF Goes, u

(***************************************************************************)
(* Pieces that go from place to place, flattened: by induction on how      *)
(* many pieces there are.                                                  *)
(***************************************************************************)
LEMMA FlatGoes ==
  ASSUME NEW c, NEW strip, NEW s \in Seq(Seq(PatchLine)), NEW at \in [0..Len(s) -> Spots],
         \A k \in 1..Len(s) : Goes(c, strip, s[k], at[k - 1], at[k])
  PROVE  Goes(c, strip, FlattenSeq(s), at[0], at[Len(s)])
<1> DEFINE N == Len(s)
           F(n) == FlattenSeq(SubSeq(s, 1, n))
           T == {n \in Nat : n <= N => F(n) \in Seq(PatchLine) /\ Goes(c, strip, F(n), at[0], at[n])}
<1>1. N \in Nat
  BY LenProperties
<1>2. 0 \in T
  <2>1. SubSeq(s, 1, 0) = <<>>
    BY SubSeqProperties
  <2>2. F(0) = <<>>
    BY <2>1, FlattenEmpty
  <2>3. <<>> \in Seq(PatchLine) /\ at[0] \in Spots
    BY <1>1
  <2> HIDE DEF F
  <2>4. QED
    BY <1>1, <2>2, <2>3, GoesNone
<1>3. ASSUME NEW n \in Nat, n \in T PROVE n + 1 \in T
  <2>1. SUFFICES ASSUME n + 1 <= N PROVE F(n + 1) \in Seq(PatchLine) /\ Goes(c, strip, F(n + 1), at[0], at[n + 1])
    OBVIOUS
  <2>2. F(n) \in Seq(PatchLine) /\ Goes(c, strip, F(n), at[0], at[n])
    BY <1>1, <1>3, <2>1
  <2>3. /\ SubSeq(s, 1, n) \in Seq(Seq(PatchLine)) /\ s[n + 1] \in Seq(PatchLine)
        /\ SubSeq(s, 1, n + 1) = Append(SubSeq(s, 1, n), s[n + 1])
    BY <2>1, FrontGrows
  <2>4. F(n + 1) = F(n) \o s[n + 1]
    BY <2>3, FlattenAppend
  <2>5. n + 1 \in 1..N /\ (n + 1) - 1 = n
    <3> HIDE DEF N, T, F
    <3>1. QED
      BY ONLY <1>1, <2>1, n \in Nat
  <2>6. Goes(c, strip, s[n + 1], at[n], at[n + 1])
    BY <2>5
  <2> HIDE DEF F
  <2>7. F(n + 1) \in Seq(PatchLine)
    BY <2>2, <2>3, <2>4, CatIs
  <2>8. QED
    BY <2>2, <2>3, <2>4, <2>6, <2>7, GoesJoin
<1> HIDE DEF T
<1>4. N \in T
  BY <1>1, <1>2, <1>3, NatSets
<1>5. SubSeq(s, 1, N) = s
  <2>1. /\ SubSeq(s, 1, N) \in Seq(Seq(PatchLine)) /\ Len(SubSeq(s, 1, N)) = N
        /\ \A k \in 1..N : SubSeq(s, 1, N)[k] = s[k]
    BY <1>1, SubSeqProperties
  <2>2. QED
    BY <2>1, SeqEqual
<1>6. F(N) \in Seq(PatchLine) /\ Goes(c, strip, F(N), at[0], at[N])
  <2>1. N <= N
    BY <1>1
  <2> HIDE DEF F, N
  <2>2. QED
    BY <1>4, <2>1 DEF T
<1>7. F(N) = FlattenSeq(s)
  BY <1>5
<1> HIDE DEF F
<1>8. QED
  BY <1>6, <1>7

(***************************************************************************)
(* The named places are places.                                            *)
(***************************************************************************)
LEMMA SpotsAre ==
  /\ Before \in Spots /\ Combine \in Spots
  /\ \A f \in Nat : OldSpot(f) \in Spots
  /\ \A f \in Nat, seen \in SUBSET Heads : HeadSpot(f, seen) \in Spots
  /\ \A f \in Nat, h \in Nat, k \in Nat, done \in BOOLEAN : HunkSpot(f, h, k, done) \in Spots
  BY DEF Before, Combine, HeadSpot, OldSpot, HunkSpot, Spot, Spots

\* The change c, a file of it and a hunk of that.
File(c, f) == c \in Seq(FileChange) /\ f \in 1..Len(c) /\ c[f].status # "combined"
HunkOf(c, f, h) == File(c, f) /\ h \in 1..Len(c[f].hunks)

(***************************************************************************)
(* The types of what a file of the change is made of.                      *)
(***************************************************************************)
LEMMA FilesAre ==
  ASSUME NEW c, NEW f, File(c, f)
  PROVE  /\ c[f] \in FileChange /\ c[f].hunks \in Seq(HunkChange) /\ Len(c[f].hunks) \in Nat /\ f \in Nat
         /\ \A h \in 1..Len(c[f].hunks) :
              /\ c[f].hunks[h] \in HunkChange /\ c[f].hunks[h].body \in Seq(BodyLine) /\ h \in Nat
              /\ c[f].hunks[h].claim \in Claims /\ Len(c[f].hunks[h].body) \in Nat
<1>1. c[f] \in FileChange /\ f \in Nat
  BY LenProperties DEF File
<1>2. c[f].hunks \in Seq(HunkChange)
  BY <1>1 DEF FileChange
<1>3. ASSUME NEW h \in 1..Len(c[f].hunks)
      PROVE  /\ c[f].hunks[h] \in HunkChange /\ c[f].hunks[h].body \in Seq(BodyLine) /\ h \in Nat
             /\ c[f].hunks[h].claim \in Claims
  <2>1. c[f].hunks[h] \in HunkChange /\ h \in Nat
    BY <1>2, LenProperties
  <2>2. QED
    BY <2>1 DEF HunkChange, Claims
<1>4. QED
  BY <1>1, <1>2, <1>3, LenProperties

WrittenLine(l, strip) == <<Written(l, strip)>> \o IF l.noNL THEN <<NoNewlineMarker>> ELSE <<>>

(***************************************************************************)
(* The marker is a line of a patch.                                        *)
(***************************************************************************)
LEMMA MarkerMade == NoNewlineMarker \in PatchLine
<1>1. "\\" \in Heads /\ "\\" \in Bytes /\ "" \in Words
  BY DEF Heads, Bytes, Words, Texts
<1>2. QED
  BY <1>1, Made DEF NoNewlineMarker

(***************************************************************************)
(* What git writes for one line of a body, with its marker, goes one       *)
(* line on in the hunk.                                                    *)
(***************************************************************************)
LEMMA LineGoes ==
  ASSUME NEW c, NEW strip \in BOOLEAN, NEW f, NEW h, HunkOf(c, f, h),
         NEW k \in Nat, k + 1 <= Len(c[f].hunks[h].body)
  PROVE  LET s == WrittenLine(c[f].hunks[h].body[k + 1], strip) IN
         s \in Seq(PatchLine) /\ Goes(c, strip, s, HunkSpot(f, h, k, TRUE), HunkSpot(f, h, k + 1, TRUE))
<1> DEFINE body == c[f].hunks[h].body
           l == body[k + 1]
           a == HunkSpot(f, h, k, TRUE)
           m == HunkSpot(f, h, k + 1, ~l.noNL)
           b == HunkSpot(f, h, k + 1, TRUE)
           w == Written(l, strip)
           x == <<w>>
           y == IF l.noNL THEN <<NoNewlineMarker>> ELSE <<>>
<1>1. body \in Seq(BodyLine) /\ Len(body) \in Nat /\ f \in Nat /\ h \in Nat /\ h > 0
  BY FilesAre DEF HunkOf
<1>2. l \in BodyLine
  BY <1>1
<1>3. l.noNL \in BOOLEAN
  BY <1>2 DEF BodyLine
<1>4. a \in Spots /\ m \in Spots /\ b \in Spots
  <2>1. k + 1 \in Nat
    OBVIOUS
  <2>2. TRUE \in BOOLEAN /\ (~l.noNL) \in BOOLEAN
    OBVIOUS
  <2>3. QED
    BY <1>1, <2>1, <2>2, SpotsAre
<1>5. w \in PatchLine
  BY <1>2, WrittenIs
<1>6. a.at = "hunk" /\ a.f = f /\ a.h = h /\ a.k = k /\ a.done = TRUE
  BY DEF HunkSpot, Spot
<1>7. m.at = "hunk" /\ m.f = f /\ m.h = h /\ m.k = k + 1 /\ m.done = ~l.noNL
  BY DEF HunkSpot, Spot
<1> HIDE DEF w, a
<1>8. IsText(c, strip, a, w, m)
  <2>1. a.k < Len(body) /\ a.h > 0
    BY <1>1, <1>6
  <2>2. w = Written(c[a.f].hunks[a.h].body[a.k + 1], strip)
    BY <1>6 DEF w
  <2>3. m = HunkSpot(a.f, a.h, a.k + 1, ~c[a.f].hunks[a.h].body[a.k + 1].noNL)
    BY <1>6
  <2> HIDE DEF m
  <2>4. QED
    BY <1>6, <2>1, <2>2, <2>3 DEF IsText
<1> HIDE DEF m, b
<1>9. Goes(c, strip, x, a, m) /\ x \in Seq(PatchLine)
  BY <1>4, <1>5, <1>8, GoesOne DEF Leads
<1>10. Goes(c, strip, y, m, b) /\ y \in Seq(PatchLine)
  <2>1. CASE l.noNL
    <3>1. IsMarker(c, m, NoNewlineMarker, b)
      BY <1>7, <2>1 DEF IsMarker, b
    <3>2. QED
      BY <1>4, <2>1, <3>1, GoesOne, MarkerMade DEF Leads
  <2>2. CASE ~l.noNL
    <3>1. m = b
      BY <1>3, <2>2 DEF m, b
    <3>2. QED
      BY <1>4, <2>2, <3>1, GoesNone, NoLines
  <2>3. QED
    BY <2>1, <2>2
<1> HIDE DEF x, y
<1>11. Goes(c, strip, x \o y, a, b) /\ x \o y \in Seq(PatchLine)
  BY <1>9, <1>10, GoesJoin, Pieces
<1>12. QED
  BY <1>11 DEF WrittenLine, x, y, w, a, b

\* Where hunk h of a file ends; before the first one for 0.
HunkEnd(c, f, h) == HunkSpot(f, h, IF h = 0 THEN 0 ELSE Len(c[f].hunks[h].body), TRUE)

(***************************************************************************)
(* A hunk is done where it ends.                                           *)
(***************************************************************************)
LEMMA HunkEnds ==
  ASSUME NEW c, NEW f, File(c, f), NEW h \in 0..Len(c[f].hunks)
  PROVE  /\ HunkEnd(c, f, h) \in Spots /\ HunkDone(c, HunkEnd(c, f, h)) 
         /\ HunkEnd(c, f, h).f = f /\ HunkEnd(c, f, h).h = h
<1> DEFINE k == IF h = 0 THEN 0 ELSE Len(c[f].hunks[h].body)
           a == HunkSpot(f, h, k, TRUE)
<1>1. k \in Nat /\ f \in Nat /\ h \in Nat
  <2> DEFINE n == Len(c[f].hunks)
             size(i) == Len(c[f].hunks[i].body)
  <2>1. f \in Nat /\ n \in Nat /\ \A i \in 1..n : size(i) \in Nat
    BY FilesAre
  <2>2. h \in 0..n /\ k = IF h = 0 THEN 0 ELSE size(h)
    OBVIOUS
  <2> HIDE DEF n, size, k
  <2>3. h \in Nat /\ (h # 0 => h \in 1..n)
    BY <2>1, <2>2
  <2>4. QED
    BY <2>1, <2>2, <2>3
<1>2. h > 0 => k = Len(c[f].hunks[h].body)
  OBVIOUS
<1> HIDE DEF k
<1>3. a \in Spots
  BY <1>1, SpotsAre
<1>4. a.at = "hunk" /\ a.f = f /\ a.h = h /\ a.k = k /\ a.done = TRUE
  BY DEF HunkSpot, Spot
<1> HIDE DEF a
<1>5. HunkDone(c, a)
  BY <1>2, <1>4 DEF HunkDone
<1>6. HunkEnd(c, f, h) = a
  BY DEF HunkEnd, a, k
<1>7. QED
  BY <1>3, <1>4, <1>5, <1>6

(***************************************************************************)
(* What git writes for a hunk, its header and its body, goes from the      *)
(* end of the hunk before it to its own.                                   *)
(***************************************************************************)
LEMMA HunkGoes ==
  ASSUME NEW c, NEW strip \in BOOLEAN, NEW f, NEW h, HunkOf(c, f, h)
  PROVE  Goes(c, strip, WrittenHunk(c[f].hunks[h], strip), HunkEnd(c, f, h - 1), HunkEnd(c, f, h))
<1> DEFINE d == c[f].hunks[h]
           body == d.body
           N == Len(body)
           s == [i \in DOMAIN body |-> WrittenLine(body[i], strip)]
           a == HunkEnd(c, f, h - 1)
           m == HunkSpot(f, h, 0, TRUE)
           at == [k \in 0..N |-> HunkSpot(f, h, k, TRUE)]
           first == HunkLine(d.claim)
<1>1. /\ File(c, f) /\ d \in HunkChange /\ body \in Seq(BodyLine) /\ N \in Nat /\ f \in Nat /\ h \in Nat /\ h > 0
      /\ h - 1 \in 0..Len(c[f].hunks) /\ (h - 1) + 1 = h /\ h <= Len(c[f].hunks) /\ DOMAIN body = 1..N
      /\ d.claim \in Claims
  BY FilesAre, LenProperties DEF HunkOf
<1>2. a \in Spots /\ HunkDone(c, a) /\ a.f = f /\ a.h = h - 1
  BY <1>1, HunkEnds
<1>3. ASSUME NEW k \in 1..N
      PROVE  s[k] \in Seq(PatchLine) /\ Goes(c, strip, s[k], at[k - 1], at[k])
  <2>1. k - 1 \in Nat /\ (k - 1) + 1 = k /\ (k - 1) + 1 <= N /\ k - 1 \in 0..N /\ k \in 0..N
    <3>1. N \in Nat /\ k \in 1..N
      BY <1>1
    <3> HIDE DEF N
    <3>2. QED
      BY ONLY <3>1
  <2>2. s[k] = WrittenLine(body[k], strip)
    BY <1>1
  <2>3. at[k - 1] = HunkSpot(f, h, k - 1, TRUE) /\ at[k] = HunkSpot(f, h, k, TRUE)
    BY <2>1
  <2> DEFINE j == k - 1
  <2>4. j \in Nat /\ j + 1 = k /\ j + 1 <= Len(c[f].hunks[h].body)
    BY <2>1
  <2>5. at[k - 1] = HunkSpot(f, h, j, TRUE)
    BY <2>3
  <2> HIDE DEF j, at, s
  <2>6. LET x == WrittenLine(c[f].hunks[h].body[j + 1], strip) IN
         x \in Seq(PatchLine) /\ Goes(c, strip, x, HunkSpot(f, h, j, TRUE), HunkSpot(f, h, j + 1, TRUE))
    BY <2>4, LineGoes
  <2>7. QED
    BY <2>2, <2>3, <2>4, <2>5, <2>6
<1>4. s \in Seq(Seq(PatchLine)) /\ Len(s) = N
  <2>1. s \in [1..N -> Seq(PatchLine)]
    <3>1. DOMAIN s = 1..N /\ s = [i \in 1..N |-> s[i]]
      BY <1>1
    <3> HIDE DEF s
    <3>2. QED
      BY <1>3, <3>1
  <2>2. N \in Nat
    BY <1>1
  <2> HIDE DEF s, N
  <2>3. QED
    BY ONLY <2>1, <2>2, FunctionIsSeq
<1>5. at \in [0..N -> Spots]
  <2>1. ASSUME NEW k \in 0..N PROVE HunkSpot(f, h, k, TRUE) \in Spots
    <3>1. k \in Nat
      BY <1>1
    <3>2. QED
      BY <1>1, <3>1, SpotsAre
  <2>2. QED
    BY <2>1
<1>6. at[0] = m /\ at[N] = HunkEnd(c, f, h)
  <2>1. at[0] = m /\ at[N] = HunkSpot(f, h, N, TRUE)
    <3>1. N \in Nat /\ 0 \in 0..N /\ N \in 0..N
      BY <1>1
    <3> HIDE DEF N
    <3>2. QED
      BY <3>1
  <2>2. HunkEnd(c, f, h) = HunkSpot(f, h, N, TRUE)
    <3>1. h # 0 /\ N = Len(c[f].hunks[h].body)
      BY <1>1
    <3> HIDE DEF N, at, s, m, a, first
    <3>2. QED
      BY ONLY <3>1 DEF HunkEnd
  <2>3. QED
    BY <2>1, <2>2
<1>7. first \in PatchLine /\ <<first>> \in Seq(PatchLine)
  <2>1. "@@" \in Heads /\ "@" \in Bytes /\ "" \in Words
    BY DEF Heads, Bytes, Words, Texts
  <2>2. L("@@", "@", "") \in PatchLine
    BY <2>1, Made
  <2>3. HunkLine(d.claim) \in PatchLine
    BY <1>1, <2>2 DEF HunkLine, PatchLine
  <2>4. QED
    BY <2>3
<1>8. IsHunk(c, a, first, m)
  <2>1. a.h < Len(c[a.f].hunks) /\ a.h + 1 = h
    BY <1>1, <1>2
  <2> HIDE DEF a
  <2>2. first = HunkLine(c[a.f].hunks[a.h + 1].claim) /\ m = HunkSpot(a.f, a.h + 1, 0, TRUE)
    BY <1>2, <2>1
  <2> HIDE DEF first, m
  <2>3. QED
    BY <1>2, <2>1, <2>2 DEF IsHunk
<1>9. m \in Spots
  BY <1>1, SpotsAre
<1>10. WrittenHunk(d, strip) = <<first>> \o FlattenSeq(s)
  BY DEF WrittenHunk, WrittenLine
<1> HIDE DEF s, at, first, a, m, d
<1>11. Goes(c, strip, FlattenSeq(s), m, HunkEnd(c, f, h))
  BY <1>3, <1>4, <1>5, <1>6, FlatGoes
<1>12. Goes(c, strip, <<first>>, a, m)
  BY <1>2, <1>7, <1>8, <1>9, GoesOne DEF Leads
<1>13. FlattenSeq(s) \in Seq(PatchLine)
  BY <1>4, FlattenType
<1>14. QED
  BY <1>7, <1>10, <1>11, <1>12, <1>13, GoesJoin DEF a, d

-----------------------------------------------------------------------------
(* The headers of a file. *)

\* All headers that git writes for a file.
AllNames(f) == {n \in Heads : Needs(f, n)}

(***************************************************************************)
(* One line is a sequence of lines.                                        *)
(***************************************************************************)
LEMMA OneLine ==
  ASSUME NEW l \in PatchLine
  PROVE  <<l>> \in Seq(PatchLine)
  OBVIOUS

(***************************************************************************)
(* One header line that the file needs, at its turn, is one more seen.     *)
(***************************************************************************)
LEMMA HeadGoes1 ==
  ASSUME NEW c, NEW strip, NEW f, File(c, f), NEW seen \in SUBSET Heads, NEW n \in Heads, Needs(c[f], n),
         n = "index" => \A m \in ModeNames : Needs(c[f], m) => m \in seen,
         (n = "body") <=> ("git binary" \in seen)
  PROVE  /\ HeadLine(c[f], n) \in PatchLine /\ <<HeadLine(c[f], n)>> \in Seq(PatchLine)
         /\ Goes(c, strip, <<HeadLine(c[f], n)>>, HeadSpot(f, seen), HeadSpot(f, seen \cup {n}))
<1> DEFINE l == HeadLine(c[f], n)
           a == HeadSpot(f, seen)
           b == HeadSpot(f, seen \cup {n})
<1>1. f \in Nat /\ c[f] \in FileChange
  BY FilesAre
<1>2. a \in Spots /\ b \in Spots
  BY <1>1, SpotsAre
<1>3. Says(c[f], n) \in Words
  BY <1>1 DEF Says, FileChange, Words, Paths, Texts
<1>4. l \in PatchLine
  <2>1. "body" \in Heads /\ "z" \in Bytes /\ "" \in Words
    BY DEF Heads, Bytes, Words, Texts
  <2>2. QED
    BY <1>3, <2>1, Made, HeaderMade DEF HeadLine
<1>5. a.at = "head" /\ a.f = f /\ a.seen = seen
  BY DEF HeadSpot, Spot
<1> HIDE DEF l, a
<1>6. IsHead(c, a, l, b)
  BY <1>5 DEF IsHead, l
<1> HIDE DEF b
<1>7. Goes(c, strip, <<l>>, a, b)
  BY <1>2, <1>4, <1>6, GoesOne DEF Leads
<1>8. <<l>> \in Seq(PatchLine)
  BY <1>4, OneLine
<1>9. QED
  BY <1>4, <1>7, <1>8 DEF l, a, b

\* s are header lines of file f, and lead from these seen to those seen.
HeadGoes(c, strip, f, s, seen, more) ==
  s \in Seq(PatchLine) /\ Goes(c, strip, s, HeadSpot(f, seen), HeadSpot(f, more)) /\ more \in SUBSET Heads

(***************************************************************************)
(* The same, of a piece of the headers.                                    *)
(***************************************************************************)
LEMMA HeadGoesOne ==
  ASSUME NEW c, NEW strip, NEW f, File(c, f), NEW seen \in SUBSET Heads, NEW n \in Heads, Needs(c[f], n),
         n = "index" => \A m \in ModeNames : Needs(c[f], m) => m \in seen,
         (n = "body") <=> ("git binary" \in seen)
  PROVE  HeadGoes(c, strip, f, <<HeadLine(c[f], n)>>, seen, seen \cup {n})
  BY HeadGoes1 DEF HeadGoes

(***************************************************************************)
(* No header line changes nothing.                                         *)
(***************************************************************************)
LEMMA HeadGoesNone ==
  ASSUME NEW c, NEW strip, NEW f, File(c, f), NEW seen \in SUBSET Heads
  PROVE  HeadGoes(c, strip, f, <<>>, seen, seen)
<1>1. HeadSpot(f, seen) \in Spots
  BY FilesAre, SpotsAre
<1>2. QED
  BY <1>1, GoesNone, NoLines DEF HeadGoes

(***************************************************************************)
(* Two pieces of the headers, one after the other.                         *)
(***************************************************************************)
LEMMA HeadGoesJoin ==
  ASSUME NEW c, NEW strip, NEW f, NEW s, NEW t, NEW x, NEW y, NEW z,
         HeadGoes(c, strip, f, s, x, y), HeadGoes(c, strip, f, t, y, z)
  PROVE  HeadGoes(c, strip, f, s \o t, x, z)
  BY GoesJoin, Pieces DEF HeadGoes

(***************************************************************************)
(* Two lines, one by one.                                                  *)
(***************************************************************************)
LEMMA TwoLines ==
  ASSUME NEW a \in PatchLine, NEW b \in PatchLine
  PROVE  <<a, b>> = <<a>> \o <<b>>
<1>1. <<a>> \in Seq(PatchLine) /\ <<b>> \in Seq(PatchLine) /\ <<a, b>> \in Seq(PatchLine)
  OBVIOUS
<1>2. Len(<<a>>) = 1 /\ Len(<<b>>) = 1 /\ Len(<<a, b>>) = 2
  OBVIOUS
<1>3. \A i \in 1..1 : <<a, b>>[i] = <<a>>[i]
  OBVIOUS
<1>4. \A i \in 1..1 : <<a, b>>[1 + i] = <<b>>[i]
  OBVIOUS
<1> DEFINE u == <<a, b>>
           s == <<a>>
           t == <<b>>
<1>5. /\ s \in Seq(PatchLine) /\ t \in Seq(PatchLine) /\ u \in Seq(PatchLine) /\ Len(s) = 1 /\ Len(t) = 1 /\ Len(u) = 2
      /\ \A i \in 1..1 : u[i] = s[i]
      /\ \A i \in 1..1 : u[1 + i] = t[i]
  BY <1>1, <1>2, <1>3, <1>4
<1> HIDE DEF u, s, t
<1>6. /\ Len(u) = Len(s) + Len(t) /\ \A i \in 1..Len(s) : u[i] = s[i]
      /\ \A i \in 1..Len(t) : u[Len(s) + i] = t[i]
  BY <1>5
<1>7. u = s \o t
  BY <1>5, <1>6, IsCat
<1>8. QED
  BY <1>7 DEF u, s, t

(***************************************************************************)
(* Three lines, one by one.                                                *)
(***************************************************************************)
LEMMA ThreeLines ==
  ASSUME NEW a \in PatchLine, NEW b \in PatchLine, NEW d \in PatchLine
  PROVE  <<a, b, d>> = <<a>> \o <<b, d>>
<1>1. <<a>> \in Seq(PatchLine) /\ <<b, d>> \in Seq(PatchLine) /\ <<a, b, d>> \in Seq(PatchLine)
  OBVIOUS
<1>2. Len(<<a>>) = 1 /\ Len(<<b, d>>) = 2 /\ Len(<<a, b, d>>) = 3
  OBVIOUS
<1>3. \A i \in 1..1 : <<a, b, d>>[i] = <<a>>[i]
  OBVIOUS
<1>4. \A i \in 1..2 : <<a, b, d>>[1 + i] = <<b, d>>[i]
  OBVIOUS
<1> DEFINE u == <<a, b, d>>
           s == <<a>>
           t == <<b, d>>
<1>5. /\ s \in Seq(PatchLine) /\ t \in Seq(PatchLine) /\ u \in Seq(PatchLine) /\ Len(s) = 1 /\ Len(t) = 2 /\ Len(u) = 3
      /\ \A i \in 1..1 : u[i] = s[i]
      /\ \A i \in 1..2 : u[1 + i] = t[i]
  BY <1>1, <1>2, <1>3, <1>4
<1> HIDE DEF u, s, t
<1>6. /\ Len(u) = Len(s) + Len(t) /\ \A i \in 1..Len(s) : u[i] = s[i]
      /\ \A i \in 1..Len(t) : u[Len(s) + i] = t[i]
  BY <1>5
<1>7. u = s \o t
  BY <1>5, <1>6, IsCat
<1>8. QED
  BY <1>7 DEF u, s, t

(***************************************************************************)
(* Two header lines that the file needs, neither of them the index line.   *)
(***************************************************************************)
LEMMA HeadGoesTwo ==
  ASSUME NEW c, NEW strip, NEW f, File(c, f), NEW seen \in SUBSET Heads,
         NEW n \in Heads, Needs(c[f], n), n # "index", n # "body", "git binary" \notin seen,
         NEW m \in Heads, Needs(c[f], m), m # "index", (m = "body") <=> (n = "git binary")
  PROVE  HeadGoes(c, strip, f, <<HeadLine(c[f], n), HeadLine(c[f], m)>>, seen, (seen \cup {n}) \cup {m})
<1>1. HeadGoes(c, strip, f, <<HeadLine(c[f], n)>>, seen, seen \cup {n})
  BY HeadGoesOne
<1>2. HeadGoes(c, strip, f, <<HeadLine(c[f], m)>>, seen \cup {n}, (seen \cup {n}) \cup {m})
  <2> DEFINE s == seen \cup {n}
  <2>1. s \in SUBSET Heads /\ ((m = "body") <=> ("git binary" \in s))
    OBVIOUS
  <2> HIDE DEF s
  <2>2. HeadGoes(c, strip, f, <<HeadLine(c[f], m)>>, s, s \cup {m})
    BY <2>1, HeadGoesOne
  <2>3. QED
    BY <2>2 DEF s
<1>3. HeadLine(c[f], n) \in PatchLine
  BY HeadGoes1
<1>4. HeadLine(c[f], m) \in PatchLine
  <2> DEFINE s == seen \cup {n}
  <2>1. s \in SUBSET Heads /\ ((m = "body") <=> ("git binary" \in s))
    OBVIOUS
  <2> HIDE DEF s
  <2>2. QED
    BY <2>1, HeadGoes1
<1> DEFINE x == HeadLine(c[f], n)
           y == HeadLine(c[f], m)
<1>5. <<x, y>> = <<x>> \o <<y>>
  BY <1>3, <1>4, TwoLines
<1>6. HeadGoes(c, strip, f, <<x>> \o <<y>>, seen, (seen \cup {n}) \cup {m})
  BY <1>1, <1>2, HeadGoesJoin
<1>7. QED
  BY <1>5, <1>6

\* Those of some names.
Upto(f, names) == {n \in names : Needs(f, n)}

N1 == {"new file mode"}
N2 == N1 \cup {"deleted file mode"}
N3 == N2 \cup {"old mode", "new mode"}
N4 == N3 \cup {"similarity", "renamed from", "renamed to", "copied from", "copied to"}
N5 == N4 \cup {"index"}
N6 == N5 \cup {"binary differ", "git binary", "body"}

(***************************************************************************)
(* The headers are all named, and the index line comes after the mode      *)
(* lines.                                                                  *)
(***************************************************************************)
LEMMA HeadSets ==
  ASSUME NEW f
  PROVE  /\ N6 \subseteq Heads /\ AllNames(f) = Upto(f, N6)
         /\ Upto(f, N1) \in SUBSET Heads /\ Upto(f, N2) \in SUBSET Heads /\ Upto(f, N3) \in SUBSET Heads
         /\ Upto(f, N4) \in SUBSET Heads /\ Upto(f, N5) \in SUBSET Heads /\ {} \in SUBSET Heads
         /\ "git binary" \notin N5
         /\ ModeNames \subseteq N4
<1>1. N6 \subseteq Heads /\ "git binary" \notin N5 /\ ModeNames \subseteq N4
  BY DEF N1, N2, N3, N4, N5, N6, Heads, ModeNames
<1>2. \A n : Needs(f, n) => n \in N6
  BY DEF N1, N2, N3, N4, N5, N6, Needs
<1>3. N1 \subseteq N2 /\ N2 \subseteq N3 /\ N3 \subseteq N4 /\ N4 \subseteq N5 /\ N5 \subseteq N6
  BY DEF N1, N2, N3, N4, N5, N6
<1>4. QED
  BY <1>1, <1>2, <1>3 DEF AllNames, Upto

\* What git writes before the hunks, part by part.
Part1(f) == IF f.status = "added" THEN <<Header("new file mode", f.newMode)>> ELSE <<>>
Part2(f) == IF f.status = "deleted" THEN <<Header("deleted file mode", f.oldMode)>> ELSE <<>>
Part3(f) == IF Moded(f) THEN <<Header("old mode", f.oldMode), Header("new mode", f.newMode)>> ELSE <<>>
Part4(f) == IF f.status \in {"renamed", "copied"}
            THEN <<Header("similarity", ""), Header(Moved[f.status].from, f.old), Header(Moved[f.status].to, f.new)>>
            ELSE <<>>
Part5(f) == IF Blank(f) THEN <<Header("index", "")>>
            ELSE IF Edited(f) THEN <<Header("index", f.newMode)>> ELSE <<>>
Part6(f) == CASE f.binary = "differ"  -> <<Header("binary differ", "")>>
              [] f.binary = "payload" -> <<Header("git binary", ""), L("body", "z", "")>>
              [] OTHER -> <<>>

(***************************************************************************)
(* The mode of a file that is added.                                       *)
(***************************************************************************)
LEMMA Part1Goes ==
  ASSUME NEW c, NEW strip, NEW f, File(c, f)
  PROVE  HeadGoes(c, strip, f, Part1(c[f]), {}, Upto(c[f], N1))
<1> DEFINE d == c[f]
           n == "new file mode"
<1>1. CASE d.status = "added"
  <2>1. Needs(d, n) /\ n \in Heads /\ n # "index" /\ n # "body"
    BY <1>1 DEF Needs, Heads
  <2>2. HeadGoes(c, strip, f, <<HeadLine(d, n)>>, {}, {} \cup {n})
    BY <2>1, HeadGoesOne
  <2>3. {} \cup {n} = Upto(d, N1)
    BY <2>1 DEF Upto, N1
  <2>4. <<HeadLine(d, n)>> = Part1(d)
    BY <1>1 DEF Part1, HeadLine, Says
  <2> HIDE DEF d
  <2>5. QED
    BY <2>2, <2>3, <2>4 DEF d
<1>2. CASE d.status # "added"
  <2>1. ~Needs(d, n)
    BY <1>2 DEF Needs
  <2>2. {} = Upto(d, N1)
    BY <2>1 DEF Upto, N1
  <2>3. Part1(d) = <<>>
    BY <1>2 DEF Part1
  <2>4. QED
    BY <2>2, <2>3, HeadGoesNone
<1>3. QED
  BY <1>1, <1>2

(***************************************************************************)
(* The mode of a file that is deleted.                                     *)
(***************************************************************************)
LEMMA Part2Goes ==
  ASSUME NEW c, NEW strip, NEW f, File(c, f)
  PROVE  HeadGoes(c, strip, f, Part2(c[f]), Upto(c[f], N1), Upto(c[f], N2))
<1> DEFINE d == c[f]
           n == "deleted file mode"
           s == Upto(d, N1)
<1>1. s \in SUBSET Heads /\ "git binary" \notin s
  BY HeadSets DEF Upto, N1
<1>2. CASE d.status = "deleted"
  <2>1. Needs(d, n) /\ n \in Heads /\ n # "index" /\ n # "body"
    BY <1>2 DEF Needs, Heads
  <2>3. s \cup {n} = Upto(d, N2)
    BY <2>1 DEF Upto, N2
  <2> HIDE DEF s
  <2>2. HeadGoes(c, strip, f, <<HeadLine(d, n)>>, s, s \cup {n})
    BY <1>1, <2>1, HeadGoesOne
  <2>4. <<HeadLine(d, n)>> = Part2(d)
    BY <1>2 DEF Part2, HeadLine, Says
  <2> HIDE DEF d
  <2>5. QED
    BY <2>2, <2>3, <2>4 DEF d, s
<1>3. CASE d.status # "deleted"
  <2>1. ~Needs(d, n)
    BY <1>3 DEF Needs
  <2>2. s = Upto(d, N2)
    BY <2>1 DEF Upto, N2
  <2>3. Part2(d) = <<>>
    BY <1>3 DEF Part2
  <2>4. QED
    BY <1>1, <2>2, <2>3, HeadGoesNone
<1>4. QED
  BY <1>2, <1>3

(***************************************************************************)
(* The modes of one whose mode differs.                                    *)
(***************************************************************************)
LEMMA Part3Goes ==
  ASSUME NEW c, NEW strip, NEW f, File(c, f)
  PROVE  HeadGoes(c, strip, f, Part3(c[f]), Upto(c[f], N2), Upto(c[f], N3))
<1> DEFINE d == c[f]
           n == "old mode"
           m == "new mode"
           s == Upto(d, N2)
<1>1. s \in SUBSET Heads /\ "git binary" \notin s
  BY HeadSets DEF Upto, N1, N2
<1>2. CASE Moded(d)
  <2>1. /\ Needs(d, n) /\ n \in Heads /\ n # "index" /\ n # "body" /\ n # "git binary"
        /\ Needs(d, m) /\ m \in Heads /\ m # "index" /\ m # "body"
    BY <1>2 DEF Needs, Heads
  <2>3. (s \cup {n}) \cup {m} = Upto(d, N3)
    BY <2>1 DEF Upto, N3
  <2>4. <<HeadLine(d, n), HeadLine(d, m)>> = Part3(d)
    BY <1>2 DEF Part3, HeadLine, Says
  <2> HIDE DEF s
  <2>2. HeadGoes(c, strip, f, <<HeadLine(d, n), HeadLine(d, m)>>, s, (s \cup {n}) \cup {m})
    <3> HIDE DEF n, m
    <3>1. n # "index" /\ n # "body" /\ n # "git binary" /\ m # "index" /\ m # "body"
      BY <2>1
    <3>2. QED
      BY <1>1, <2>1, <3>1, HeadGoesTwo
  <2> HIDE DEF d
  <2>5. QED
    BY <2>2, <2>3, <2>4 DEF d, s
<1>3. CASE ~Moded(d)
  <2>1. ~Needs(d, n) /\ ~Needs(d, m)
    BY <1>3 DEF Needs
  <2>2. s = Upto(d, N3)
    BY <2>1 DEF Upto, N3
  <2>3. Part3(d) = <<>>
    BY <1>3 DEF Part3
  <2>4. QED
    BY <1>1, <2>2, <2>3, HeadGoesNone
<1>4. QED
  BY <1>2, <1>3

(***************************************************************************)
(* The names of one that is renamed or copied.                             *)
(***************************************************************************)
LEMMA Part4Goes ==
  ASSUME NEW c, NEW strip, NEW f, File(c, f)
  PROVE  HeadGoes(c, strip, f, Part4(c[f]), Upto(c[f], N3), Upto(c[f], N4))
<1> DEFINE d == c[f]
           s == Upto(d, N3)
<1>1. s \in SUBSET Heads /\ "git binary" \notin s
  BY HeadSets DEF Upto, N1, N2, N3
<1>2. ASSUME NEW from \in {"renamed from", "copied from"}, NEW to \in {"renamed to", "copied to"},
             d.status \in {"renamed", "copied"}, Needs(d, from), Needs(d, to),
             Moved[d.status].from = from, Moved[d.status].to = to
      PROVE  HeadGoes(c, strip, f, Part4(d), s, Upto(d, N4))
  <2> DEFINE o == "similarity"
             s1 == s \cup {o}
             x == HeadLine(d, o)
             y == HeadLine(d, from)
             z == HeadLine(d, to)
  <2>1. /\ Needs(d, o) /\ o \in Heads /\ o # "index" /\ o # "body"
        /\ from \in Heads /\ from # "index" /\ from # "body" /\ from # "git binary"
        /\ to \in Heads /\ to # "index" /\ to # "body"
    BY <1>2 DEF Needs, Heads
  <2>2. (s1 \cup {from}) \cup {to} = Upto(d, N4)
    <3>1. ASSUME NEW n \in {"similarity", "renamed from", "renamed to", "copied from", "copied to"}
          PROVE  Needs(d, n) <=> n \in {o, from, to}
      <4>1. d.status = "renamed" \/ d.status = "copied"
        BY <1>2
      <4>2. CASE d.status = "renamed"
        <5>1. from = "renamed from" /\ to = "renamed to"
          BY <1>2, <4>2 DEF Needs
        <5>2. QED
          BY <4>2, <5>1 DEF Needs
      <4>3. CASE d.status = "copied"
        <5>1. from = "copied from" /\ to = "copied to"
          BY <1>2, <4>3 DEF Needs
        <5>2. QED
          BY <4>3, <5>1 DEF Needs
      <4>4. QED
        BY <4>1, <4>2, <4>3
    <3>2. QED
      BY <1>2, <3>1 DEF Upto, N4
  <2>3. Part4(d) = <<x, y, z>>
    <3>1. x = Header("similarity", "")
      BY DEF HeadLine, Says
    <3>2. y = Header(from, d.old)
      BY DEF HeadLine, Says
    <3>3. z = Header(to, d.new)
      BY DEF HeadLine, Says
    <3>4. QED
      BY <1>2, <3>1, <3>2, <3>3 DEF Part4
  <2>4. s1 \in SUBSET Heads /\ "git binary" \notin s1
    BY <1>1, <2>1
  <2>5. HeadGoes(c, strip, f, <<x>>, s, s1)
    <3> HIDE DEF s
    <3>1. QED
      BY <1>1, <2>1, HeadGoesOne
  <2>6. x \in PatchLine
    <3> HIDE DEF s, x
    <3>1. QED
      BY <1>1, <2>1, HeadGoes1 DEF x
  <2> HIDE DEF s1
  <2>7. HeadGoes(c, strip, f, <<y, z>>, s1, (s1 \cup {from}) \cup {to})
    BY <1>2, <2>1, <2>4, HeadGoesTwo
  <2>8. y \in PatchLine /\ z \in PatchLine
    <3>1. ("git binary" \notin s1 \cup {from}) /\ s1 \cup {from} \in SUBSET Heads
      BY <2>1, <2>4
    <3> DEFINE s2 == s1 \cup {from}
    <3> HIDE DEF s2
    <3>2. y \in PatchLine
      BY <1>2, <2>1, <2>4, HeadGoes1
    <3>3. z \in PatchLine
      BY <1>2, <2>1, <2>4, HeadGoes1
    <3>4. QED
      BY <3>2, <3>3
  <2> HIDE DEF x, y, z, s, d
  <2>9. <<x, y, z>> = <<x>> \o <<y, z>>
    BY <2>6, <2>8, ThreeLines
  <2> DEFINE xs == <<x>>
             ys == <<y, z>>
             end == (s1 \cup {from}) \cup {to}
  <2>10. HeadGoes(c, strip, f, xs, s, s1) /\ HeadGoes(c, strip, f, ys, s1, end)
    BY <2>5, <2>7
  <2>11. Part4(d) = xs \o ys /\ end = Upto(d, N4)
    BY <2>2, <2>3, <2>9
  <2> HIDE DEF xs, ys, end
  <2>12. HeadGoes(c, strip, f, xs \o ys, s, end)
    BY <2>10, HeadGoesJoin
  <2>13. QED
    BY <2>11, <2>12
<1>3. CASE d.status = "renamed"
  <2>1. Moved["renamed"].from = "renamed from" /\ Moved["renamed"].to = "renamed to"
    BY DEF Moved
  <2>2. Needs(d, "renamed from") /\ Needs(d, "renamed to")
    BY <1>3 DEF Needs
  <2>3. QED
    BY <1>2, <1>3, <2>1, <2>2
<1>4. CASE d.status = "copied"
  <2>1. Moved["copied"].from = "copied from" /\ Moved["copied"].to = "copied to"
    BY DEF Moved
  <2>2. Needs(d, "copied from") /\ Needs(d, "copied to")
    BY <1>4 DEF Needs
  <2>3. QED
    BY <1>2, <1>4, <2>1, <2>2
<1>5. CASE d.status \notin {"renamed", "copied"}
  <2>2. s = Upto(d, N4)
    BY <1>5 DEF Upto, N4, Needs
  <2>3. Part4(d) = <<>>
    BY <1>5 DEF Part4
  <2>4. QED
    BY <1>1, <2>2, <2>3, HeadGoesNone
<1>6. QED
  BY <1>3, <1>4, <1>5

(***************************************************************************)
(* The index line: without a mode where a mode line was written.           *)
(***************************************************************************)
LEMMA Part5Goes ==
  ASSUME NEW c, NEW strip, NEW f, File(c, f)
  PROVE  HeadGoes(c, strip, f, Part5(c[f]), Upto(c[f], N4), Upto(c[f], N5))
<1> DEFINE d == c[f]
           n == "index"
           s == Upto(d, N4)
<1>1. s \in SUBSET Heads /\ "git binary" \notin s /\ \A m \in ModeNames : Needs(d, m) => m \in s
  BY HeadSets DEF Upto, N5
<1>2. CASE Blank(d) \/ Edited(d)
  <2>1. Needs(d, n) /\ n \in Heads /\ n # "body"
    BY <1>2 DEF Needs, Heads
  <2>3. s \cup {n} = Upto(d, N5)
    BY <2>1 DEF Upto, N5
  <2>4. <<HeadLine(d, n)>> = Part5(d)
    BY <1>2 DEF Part5, HeadLine, Says
  <2> HIDE DEF s
  <2>2. HeadGoes(c, strip, f, <<HeadLine(d, n)>>, s, s \cup {n})
    BY <1>1, <2>1, HeadGoesOne
  <2> HIDE DEF d
  <2>5. QED
    BY <2>2, <2>3, <2>4 DEF d, s
<1>3. CASE ~(Blank(d) \/ Edited(d))
  <2>1. ~Needs(d, n)
    BY <1>3 DEF Needs
  <2>2. s = Upto(d, N5)
    BY <2>1 DEF Upto, N5
  <2>3. Part5(d) = <<>>
    BY <1>3 DEF Part5
  <2>4. QED
    BY <1>1, <2>2, <2>3, HeadGoesNone
<1>4. QED
  BY <1>2, <1>3

(***************************************************************************)
(* What git writes of a binary file; with it all headers are seen.         *)
(***************************************************************************)
LEMMA Part6Goes ==
  ASSUME NEW c, NEW strip, NEW f, File(c, f)
  PROVE  HeadGoes(c, strip, f, Part6(c[f]), Upto(c[f], N5), AllNames(c[f]))
<1> DEFINE d == c[f]
           s == Upto(d, N5)
<1>1. s \in SUBSET Heads /\ "git binary" \notin s /\ AllNames(d) = Upto(d, N6)
  BY HeadSets DEF Upto
<1>2. CASE d.binary = "differ"
  <2> DEFINE n == "binary differ"
  <2>1. Needs(d, n) /\ n \in Heads /\ n # "body" /\ n # "index" /\ ~Needs(d, "git binary") /\ ~Needs(d, "body")
    BY <1>2 DEF Needs, Heads
  <2>3. s \cup {n} = AllNames(d)
    BY <1>1, <2>1 DEF Upto, N6
  <2>4. <<HeadLine(d, n)>> = Part6(d)
    BY <1>2 DEF Part6, HeadLine, Says
  <2> HIDE DEF s
  <2>2. HeadGoes(c, strip, f, <<HeadLine(d, n)>>, s, s \cup {n})
    BY <1>1, <2>1, HeadGoesOne
  <2> HIDE DEF d
  <2>5. QED
    BY <2>2, <2>3, <2>4 DEF d, s
<1>3. CASE d.binary = "payload"
  <2> DEFINE n == "git binary"
             m == "body"
  <2>1. /\ Needs(d, n) /\ n \in Heads /\ n # "index" /\ n # "body" /\ ~Needs(d, "binary differ")
        /\ Needs(d, m) /\ m \in Heads /\ m # "index"
    BY <1>3 DEF Needs, Heads
  <2>3. (s \cup {n}) \cup {m} = AllNames(d)
    BY <1>1, <2>1 DEF Upto, N6
  <2>4. <<HeadLine(d, n), HeadLine(d, m)>> = Part6(d)
    BY <1>3 DEF Part6, HeadLine, Says
  <2>5. ((m = "body") <=> (n = "git binary"))
    OBVIOUS
  <2> HIDE DEF s
  <2>2. HeadGoes(c, strip, f, <<HeadLine(d, n), HeadLine(d, m)>>, s, (s \cup {n}) \cup {m})
    BY <1>1, <2>1, <2>5, HeadGoesTwo
  <2> HIDE DEF d
  <2>6. QED
    BY <2>2, <2>3, <2>4 DEF d, s
<1>4. CASE d.binary \notin {"differ", "payload"}
  <2>1. ~Needs(d, "binary differ") /\ ~Needs(d, "git binary") /\ ~Needs(d, "body")
    BY <1>4 DEF Needs
  <2>2. s = AllNames(d)
    BY <1>1, <2>1 DEF Upto, N6
  <2>3. Part6(d) = <<>>
    BY <1>4 DEF Part6
  <2>4. QED
    BY <1>1, <2>2, <2>3, HeadGoesNone
<1>5. QED
  BY <1>2, <1>3, <1>4

-----------------------------------------------------------------------------
(* Files, and the whole patch. *)

\* Where the file f is complete; before the first one for 0.
AnyCombined(c, f) == \E i \in 1..f : c[i].status = "combined"
FileEnd(c, f) ==
  IF f = 0 THEN Before
  ELSE IF AnyCombined(c, f) THEN Combine
  ELSE IF c[f].hunks = <<>> THEN HeadSpot(f, AllNames(c[f]))
  ELSE HunkEnd(c, f, Len(c[f].hunks))

(***************************************************************************)
(* A file is complete where it ends, unless a combined diff came before.   *)
(***************************************************************************)
LEMMA FileEnds ==
  ASSUME NEW c \in Seq(FileChange), NEW f \in 0..Len(c)
  PROVE  /\ FileEnd(c, f) \in Spots
         /\ AnyCombined(c, f) => FileEnd(c, f) = Combine
         /\ ~AnyCombined(c, f) => Complete(c, FileEnd(c, f)) /\ FileEnd(c, f).f = f /\ FileEnd(c, f).at # "cc"
<1> DEFINE a == FileEnd(c, f)
<1>1. CASE f = 0
  <2>1. a = Before /\ ~AnyCombined(c, f)
    BY <1>1 DEF FileEnd, AnyCombined
  <2>2. a.at = "start" /\ a.f = 0 /\ a \in Spots
    BY <2>1, SpotsAre DEF Before, Spot
  <2> HIDE DEF a
  <2>3. Complete(c, a)
    BY <2>2 DEF Complete
  <2>4. QED
    BY <1>1, <2>1, <2>2, <2>3 DEF a
<1>2. CASE f # 0 /\ AnyCombined(c, f)
  BY <1>2, SpotsAre DEF FileEnd
<1>3. CASE f # 0 /\ ~AnyCombined(c, f) /\ c[f].hunks = <<>>
  <2>1. a = HeadSpot(f, AllNames(c[f]))
    BY <1>3 DEF FileEnd
  <2>2. f \in Nat /\ AllNames(c[f]) \in SUBSET Heads
    BY DEF AllNames
  <2>3. AllSeen(c[f], AllNames(c[f]))
    BY DEF AllSeen, AllNames
  <2>4. a.at = "head" /\ a.f = f /\ a.seen = AllNames(c[f])
    BY <2>1 DEF HeadSpot, Spot
  <2>5. a \in Spots
    BY <2>1, <2>2, SpotsAre
  <2> HIDE DEF a
  <2>6. Complete(c, a)
    BY <1>3, <2>3, <2>4 DEF Complete
  <2>7. QED
    BY <1>3, <2>4, <2>5, <2>6 DEF a
<1>4. CASE f # 0 /\ ~AnyCombined(c, f) /\ c[f].hunks # <<>>
  <2>1. a = HunkEnd(c, f, Len(c[f].hunks))
    BY <1>4 DEF FileEnd
  <2>2. File(c, f)
    BY <1>4 DEF File, AnyCombined
  <2>3. Len(c[f].hunks) \in 0..Len(c[f].hunks)
    BY <2>2, FilesAre
  <2>4. a \in Spots /\ HunkDone(c, a) /\ a.f = f /\ a.h = Len(c[f].hunks)
    BY <2>1, <2>2, <2>3, HunkEnds
  <2>5. a.at = "hunk"
    BY <2>4 DEF HunkDone
  <2> HIDE DEF a
  <2>6. Complete(c, a)
    BY <2>4 DEF Complete
  <2>7. QED
    BY <1>4, <2>4, <2>5, <2>6 DEF a
<1>5. QED
  BY <1>1, <1>2, <1>3, <1>4

(***************************************************************************)
(* Any lines go on within a combined diff.                                 *)
(***************************************************************************)
LEMMA CombinedGoes ==
  ASSUME NEW c, NEW strip, NEW s \in Seq(PatchLine)
  PROVE  Goes(c, strip, s, Combine, Combine)
<1> DEFINE N == Len(s)
           g == [i \in 0..N |-> Combine]
<1>1. N \in Nat
  BY LenProperties
<1>2. g \in [0..N -> Spots] /\ \A i \in 0..N : g[i] = Combine
  BY SpotsAre
<1> HIDE DEF g
<1>3. ASSUME NEW i \in 1..N PROVE Leads(c, strip, g[i - 1], s[i], g[i])
  <2>1. g[i - 1] = Combine /\ g[i] = Combine
    BY <1>1, <1>2
  <2>2. QED
    BY <2>1 DEF Leads, IsCombined
<1>4. Walks(c, strip, s, g)
  BY <1>2, <1>3 DEF Walks
<1>5. g[0] = Combine /\ g[N] = Combine
  BY <1>1, <1>2
<1>6. QED
  BY <1>4, <1>5 DEF Goes

\* s is part of a patch, and leads from a to b.
Writes(c, strip, s, a, b) == s \in Seq(PatchLine) /\ Goes(c, strip, s, a, b)

(***************************************************************************)
(* Two parts of a patch, one after the other.                              *)
(***************************************************************************)
LEMMA WritesJoin ==
  ASSUME NEW c, NEW strip, NEW s, NEW t, NEW x, NEW y, NEW z, Writes(c, strip, s, x, y), Writes(c, strip, t, y, z)
  PROVE  Writes(c, strip, s \o t, x, z)
  BY GoesJoin, Pieces DEF Writes

(***************************************************************************)
(* One line of it.                                                         *)
(***************************************************************************)
LEMMA WritesOne ==
  ASSUME NEW c, NEW strip, NEW a \in Spots, NEW l \in PatchLine, NEW b \in Spots, Leads(c, strip, a, l, b)
  PROVE  Writes(c, strip, <<l>>, a, b)
  BY GoesOne, OneLine DEF Writes

\* The headers and the hunks of a file.
HeadPart(f) ==
  <<GitLine(f.old, f.new)>> \o Part1(f) \o Part2(f) \o Part3(f) \o Part4(f) \o Part5(f) \o Part6(f)
HunkPart(f, strip) ==
  IF f.hunks = <<>> THEN <<>>
  ELSE <<OldLine(f), NewLine(f)>> \o FlattenSeq([i \in DOMAIN f.hunks |-> WrittenHunk(f.hunks[i], strip)])

(***************************************************************************)
(* A file's part of the patch is its headers and its hunks.                *)
(***************************************************************************)
LEMMA FileParts ==
  ASSUME NEW f, NEW strip, f.status # "combined"
  PROVE  WrittenFile(f, strip) = HeadPart(f) \o HunkPart(f, strip)
<1> DEFINE a1 == <<GitLine(f.old, f.new)>>
<1>1. /\ Part1(f) = IF f.status = "added" THEN <<Header("new file mode", f.newMode)>> ELSE <<>>
      /\ Part2(f) = IF f.status = "deleted" THEN <<Header("deleted file mode", f.oldMode)>> ELSE <<>>
      /\ Part3(f) = IF f.oldMode # f.newMode /\ f.status \notin {"added", "deleted"} THEN <<Header("old mode", f.oldMode), Header("new mode", f.newMode)>> ELSE <<>>
  BY DEF Part1, Part2, Part3, Moded
<1>2. Part4(f) = IF f.status \in {"renamed", "copied"}
                 THEN <<Header("similarity", ""), Header(Moved[f.status].from, f.old), Header(Moved[f.status].to, f.new)>>
                 ELSE <<>>
  BY DEF Part4
<1>3. Part5(f) =
        IF f.status \in {"added", "deleted"}
           \/ ((f.hunks # <<>> \/ f.binary # "no") /\ (f.oldMode # f.newMode /\ f.status \notin {"added", "deleted"}))
        THEN <<Header("index", "")>>
        ELSE IF f.hunks # <<>> \/ f.binary # "no" THEN <<Header("index", f.newMode)>> ELSE <<>>
  BY DEF Part5, Blank, Edited, Moded
<1>4. Part6(f) = CASE f.binary = "differ"  -> <<Header("binary differ", "")>>
                   [] f.binary = "payload" -> <<Header("git binary", ""), L("body", "z", "")>>
                   [] OTHER -> <<>>
  BY DEF Part6
<1>5. HunkPart(f, strip) =
        IF f.hunks = <<>> THEN <<>>
        ELSE <<L("--- ", "-", IF f.status = "added" THEN "/dev/null" ELSE f.old),
               L("+++ ", "+", IF f.status = "deleted" THEN "/dev/null" ELSE f.new)>> \o
             FlattenSeq([i \in DOMAIN f.hunks |-> WrittenHunk(f.hunks[i], strip)])
  BY DEF HunkPart, OldLine, NewLine
<1>6. QED
  BY <1>1, <1>2, <1>3, <1>4, <1>5, Zenon DEF WrittenFile, HeadPart

(***************************************************************************)
(* The headers of a file lead from the end of the file before it to        *)
(* where all of them are seen.                                             *)
(***************************************************************************)
LEMMA HeadWritten ==
  ASSUME NEW c, NEW strip \in BOOLEAN, NEW f, File(c, f), NEW a \in Spots, Complete(c, a), a.f = f - 1
  PROVE  Writes(c, strip, HeadPart(c[f]), a, HeadSpot(f, AllNames(c[f])))
<1> DEFINE d == c[f]
           l == GitLine(d.old, d.new)
           b == HeadSpot(f, {})
<1>1. d \in FileChange /\ f \in Nat /\ d.status # "combined" /\ f \in 1..Len(c) /\ Len(c) \in Nat
  BY FilesAre, LenProperties DEF File
<1>2. l \in PatchLine
  <2>1. "diff --git" \in Heads
    BY DEF Heads
  <2>2. d.old \in Words /\ d.new \in Words
    BY <1>1 DEF FileChange, Words, Paths
  <2>3. Header("diff --git", d.old) \in PatchLine
    BY <2>1, <2>2, HeaderMade
  <2>4. QED
    BY <2>2, <2>3 DEF GitLine, PatchLine
<1>3. b \in Spots
  BY <1>1, SpotsAre
<1>4. IsGit(c, a, l, b)
  <2>1. a.f < Len(c) /\ a.f + 1 = f
    BY <1>1
  <2>2. l = GitLine(c[a.f + 1].old, c[a.f + 1].new) /\ b = HeadSpot(a.f + 1, {}) /\ c[a.f + 1].status # "combined"
    BY <1>1, <2>1
  <2> HIDE DEF l, b, d
  <2>3. QED
    BY <2>1, <2>2 DEF IsGit
<1> HIDE DEF l, b
<1>5. Writes(c, strip, <<l>>, a, b)
  BY <1>2, <1>3, <1>4, WritesOne DEF Leads
<1>6. /\ Writes(c, strip, Part1(d), b, HeadSpot(f, Upto(d, N1)))
      /\ Writes(c, strip, Part2(d), HeadSpot(f, Upto(d, N1)), HeadSpot(f, Upto(d, N2)))
      /\ Writes(c, strip, Part3(d), HeadSpot(f, Upto(d, N2)), HeadSpot(f, Upto(d, N3)))
      /\ Writes(c, strip, Part4(d), HeadSpot(f, Upto(d, N3)), HeadSpot(f, Upto(d, N4)))
      /\ Writes(c, strip, Part5(d), HeadSpot(f, Upto(d, N4)), HeadSpot(f, Upto(d, N5)))
      /\ Writes(c, strip, Part6(d), HeadSpot(f, Upto(d, N5)), HeadSpot(f, AllNames(d)))
  BY Part1Goes, Part2Goes, Part3Goes, Part4Goes, Part5Goes, Part6Goes DEF HeadGoes, Writes, b
<1> DEFINE s0 == <<l>>
           s1 == s0 \o Part1(d)
           s2 == s1 \o Part2(d)
           s3 == s2 \o Part3(d)
           s4 == s3 \o Part4(d)
           s5 == s4 \o Part5(d)
           s6 == s5 \o Part6(d)
<1>7. HeadPart(d) = s6
  BY DEF HeadPart, l
<1> HIDE DEF d
<1>8. Writes(c, strip, s1, a, HeadSpot(f, Upto(d, N1)))
  BY <1>5, <1>6, WritesJoin
<1> HIDE DEF s0, s1
<1>9. Writes(c, strip, s2, a, HeadSpot(f, Upto(d, N2)))
  BY <1>6, <1>8, WritesJoin
<1> HIDE DEF s2
<1>10. Writes(c, strip, s3, a, HeadSpot(f, Upto(d, N3)))
  BY <1>6, <1>9, WritesJoin
<1> HIDE DEF s3
<1>11. Writes(c, strip, s4, a, HeadSpot(f, Upto(d, N4)))
  BY <1>6, <1>10, WritesJoin
<1> HIDE DEF s4
<1>12. Writes(c, strip, s5, a, HeadSpot(f, Upto(d, N5)))
  BY <1>6, <1>11, WritesJoin
<1> HIDE DEF s5
<1>13. Writes(c, strip, s6, a, HeadSpot(f, AllNames(d)))
  BY <1>6, <1>12, WritesJoin
<1>14. QED
  BY <1>7, <1>13 DEF d

(***************************************************************************)
(* Its old and new name and its hunks lead from there to the end of the    *)
(* last hunk.                                                              *)
(***************************************************************************)
LEMMA HunksWritten ==
  ASSUME NEW c, NEW strip \in BOOLEAN, NEW f, File(c, f), c[f].hunks # <<>>
  PROVE  Writes(c, strip, HunkPart(c[f], strip), HeadSpot(f, AllNames(c[f])), HunkEnd(c, f, Len(c[f].hunks)))
<1> DEFINE d == c[f]
           N == Len(d.hunks)
           a == HeadSpot(f, AllNames(d))
           b == OldSpot(f)
           e == HunkEnd(c, f, 0)
           at == [h \in 0..N |-> HunkEnd(c, f, h)]
           s == [i \in DOMAIN d.hunks |-> WrittenHunk(d.hunks[i], strip)]
           x == OldLine(d)
           y == NewLine(d)
<1>1. d \in FileChange /\ f \in Nat /\ d.hunks \in Seq(HunkChange) /\ N \in Nat /\ DOMAIN d.hunks = 1..N
  BY FilesAre, LenProperties
<1>2. a \in Spots /\ b \in Spots
  BY <1>1, SpotsAre DEF AllNames
<1>3. at \in [0..N -> Spots] /\ at[0] = e /\ at[N] = HunkEnd(c, f, N)
  <2>1. \A h \in 0..N : HunkEnd(c, f, h) \in Spots
    BY HunkEnds
  <2>2. QED
    BY <1>1, <2>1
<1>4. x \in PatchLine /\ y \in PatchLine
  <2> DEFINE o == IF d.status = "added" THEN "/dev/null" ELSE d.old
             n == IF d.status = "deleted" THEN "/dev/null" ELSE d.new
  <2>1. o \in Words /\ n \in Words
    BY <1>1 DEF FileChange, Words, Paths
  <2>2. "--- " \in Heads /\ "+++ " \in Heads /\ "-" \in Bytes /\ "+" \in Bytes
    BY DEF Heads, Bytes
  <2>3. x = L("--- ", "-", o) /\ y = L("+++ ", "+", n)
    BY DEF OldLine, NewLine
  <2> HIDE DEF o, n, x, y
  <2>4. QED
    BY <2>1, <2>2, <2>3, Made
<1>5. Writes(c, strip, <<x>>, a, b)
  <2>1. a.at = "head" /\ a.f = f /\ a.seen = AllNames(d)
    BY DEF HeadSpot, Spot
  <2>2. AllSeen(d, AllNames(d))
    BY DEF AllSeen, AllNames
  <2> HIDE DEF a, b, x
  <2>3. IsOld(c, a, x, b)
    BY <2>1, <2>2 DEF IsOld, b, x
  <2>4. QED
    BY <1>2, <1>4, <2>3, WritesOne DEF Leads
<1>6. Writes(c, strip, <<y>>, b, e)
  <2>1. b.at = "old" /\ b.f = f
    BY DEF OldSpot, Spot
  <2>2. e = HunkSpot(f, 0, 0, TRUE) /\ e \in Spots
    BY <1>1, <1>3, SpotsAre DEF HunkEnd
  <2> HIDE DEF b, y, e
  <2>3. IsNew(c, b, y, e)
    BY <2>1, <2>2 DEF IsNew, y
  <2>4. QED
    BY <1>2, <1>4, <2>2, <2>3, WritesOne DEF Leads
<1>7. <<x, y>> = <<x>> \o <<y>>
  <2> HIDE DEF x, y
  <2>1. QED
    BY <1>4, TwoLines
<1>8. Writes(c, strip, <<x, y>>, a, e)
  <2> HIDE DEF x, y, a, e, b
  <2>1. Writes(c, strip, <<x>> \o <<y>>, a, e)
    BY <1>5, <1>6, WritesJoin
  <2>2. QED
    BY <1>7, <2>1
<1>9. ASSUME NEW h \in 1..N PROVE s[h] \in Seq(PatchLine) /\ Goes(c, strip, s[h], at[h - 1], at[h])
  <2>1. HunkOf(c, f, h) /\ h - 1 \in 0..N /\ h \in 0..N
    BY <1>1 DEF HunkOf
  <2>2. s[h] = WrittenHunk(d.hunks[h], strip) /\ at[h - 1] = HunkEnd(c, f, h - 1) /\ at[h] = HunkEnd(c, f, h)
    BY <1>1, <2>1
  <2>3. d.hunks[h] \in HunkChange
    BY <1>1
  <2> HIDE DEF s, at
  <2>4. Goes(c, strip, WrittenHunk(c[f].hunks[h], strip), HunkEnd(c, f, h - 1), HunkEnd(c, f, h))
    BY <2>1, HunkGoes
  <2>5. s[h] \in Seq(PatchLine)
    BY <2>2, <2>3, HunkWritten
  <2>6. QED
    BY <2>2, <2>4, <2>5
<1>10. s \in Seq(Seq(PatchLine)) /\ Len(s) = N
  <2>1. s \in [1..N -> Seq(PatchLine)]
    <3>1. DOMAIN s = 1..N /\ s = [i \in 1..N |-> s[i]]
      BY <1>1
    <3> HIDE DEF s
    <3>2. QED
      BY <1>9, <3>1
  <2> HIDE DEF s
  <2>2. QED
    BY <1>1, <2>1, FunctionIsSeq
<1>11. HunkPart(d, strip) = <<x, y>> \o FlattenSeq(s)
  BY DEF HunkPart
<1> HIDE DEF s, at, a, b, e, x, y, d
<1>12. Goes(c, strip, FlattenSeq(s), e, HunkEnd(c, f, N)) /\ FlattenSeq(s) \in Seq(PatchLine)
  BY <1>3, <1>9, <1>10, FlatGoes, FlattenType
<1>13. Writes(c, strip, <<x, y>> \o FlattenSeq(s), a, HunkEnd(c, f, N))
  BY <1>8, <1>12, WritesJoin DEF Writes
<1>14. QED
  BY <1>11, <1>13 DEF a, d

(***************************************************************************)
(* What git writes for a file leads from the end of the file before it     *)
(* to its own end.                                                         *)
(***************************************************************************)
LEMMA FileGoes ==
  ASSUME NEW c \in Seq(FileChange), NEW strip \in BOOLEAN, NEW f \in 1..Len(c)
  PROVE  Writes(c, strip, WrittenFile(c[f], strip), FileEnd(c, f - 1), FileEnd(c, f))
<1> DEFINE d == c[f]
           a == FileEnd(c, f - 1)
           b == FileEnd(c, f)
           w == WrittenFile(d, strip)
<1>1. d \in FileChange /\ f \in Nat /\ Len(c) \in Nat /\ f - 1 \in 0..Len(c) /\ f \in 0..Len(c)
  BY LenProperties
<1>2. w \in Seq(PatchLine)
  BY <1>1, FileWritten
<1>3. CASE AnyCombined(c, f - 1)
  <2>1. AnyCombined(c, f)
    BY <1>1, <1>3 DEF AnyCombined
  <2>2. a = Combine /\ b = Combine
    BY <1>1, <1>3, <2>1, FileEnds
  <2> HIDE DEF a, b, w
  <2>3. QED
    BY <1>2, <2>2, CombinedGoes DEF Writes, a, b, w
<1>4. CASE ~AnyCombined(c, f - 1) /\ d.status = "combined"
  <2> DEFINE x == Header("diff --cc", d.new)
             y == Header("@@@", "")
  <2>1. AnyCombined(c, f)
    BY <1>1, <1>4 DEF AnyCombined
  <2>2. b = Combine
    BY <1>1, <2>1, FileEnds
  <2>3. a \in Spots /\ Complete(c, a) /\ a.f = f - 1
    BY <1>1, <1>4, FileEnds
  <2>4. w = <<x, y>>
    BY <1>4 DEF WrittenFile
  <2>5. x \in PatchLine /\ y \in PatchLine
    <3>1. "diff --cc" \in Heads /\ "@@@" \in Heads
      BY DEF Heads
    <3>2. d.new \in Words /\ "" \in Words
      BY <1>1 DEF FileChange, Words, Paths, Texts
    <3>3. QED
      BY <3>1, <3>2, HeaderMade
  <2>6. x.head = "diff --cc" /\ x.byte = "d"
    BY DEF Header, L
  <2> HIDE DEF a, b, x, y
  <2>7. a.f < Len(c) /\ c[a.f + 1].status = "combined"
    BY <1>1, <1>4, <2>3
  <2>8. IsCombined(c, a, x, Combine)
    BY <2>3, <2>6, <2>7 DEF IsCombined
  <2>9. Writes(c, strip, <<x>>, a, Combine)
    BY <2>3, <2>5, <2>8, WritesOne, SpotsAre DEF Leads
  <2>10. Writes(c, strip, <<y>>, Combine, Combine)
    BY <2>5, OneLine, CombinedGoes DEF Writes
  <2>11. Writes(c, strip, <<x>> \o <<y>>, a, Combine)
    BY <2>9, <2>10, WritesJoin
  <2>12. <<x, y>> = <<x>> \o <<y>>
    BY <2>5, TwoLines
  <2> HIDE DEF w, d
  <2>13. Writes(c, strip, w, a, b)
    BY <2>2, <2>4, <2>11, <2>12
  <2>14. QED
    BY <2>13 DEF w, a, b, d
<1>5. CASE ~AnyCombined(c, f - 1) /\ d.status # "combined"
  <2>1. ~AnyCombined(c, f) /\ File(c, f)
    BY <1>1, <1>5 DEF AnyCombined, File
  <2>2. a \in Spots /\ Complete(c, a) /\ a.f = f - 1
    BY <1>1, <1>5, FileEnds
  <2>3. w = HeadPart(d) \o HunkPart(d, strip)
    BY <1>5, FileParts
  <2> DEFINE m == HeadSpot(f, AllNames(d))
  <2>4. Writes(c, strip, HeadPart(d), a, m)
    <3> HIDE DEF a
    <3>1. QED
      BY <2>1, <2>2, HeadWritten
  <2>5. CASE d.hunks = <<>>
    <3>1. b = m
      BY <1>1, <2>1, <2>5 DEF FileEnd
    <3>2. HunkPart(d, strip) = <<>>
      BY <2>5 DEF HunkPart
    <3>3. m \in Spots
      BY <1>1, SpotsAre DEF AllNames
    <3> HIDE DEF m, a, b, w
    <3>4. Writes(c, strip, <<>>, m, m)
      BY <3>3, GoesNone, NoLines DEF Writes
    <3>5. Writes(c, strip, w, a, b)
      BY <2>3, <2>4, <3>1, <3>2, <3>4, WritesJoin
    <3>6. QED
      BY <3>5 DEF w, a, b
  <2>6. CASE d.hunks # <<>>
    <3>1. b = HunkEnd(c, f, Len(d.hunks))
      BY <1>1, <2>1, <2>6 DEF FileEnd
    <3>2. Writes(c, strip, HunkPart(d, strip), m, HunkEnd(c, f, Len(d.hunks)))
      BY <2>1, <2>6, HunksWritten
    <3> HIDE DEF m, a, b, w
    <3>3. Writes(c, strip, w, a, b)
      BY <2>3, <2>4, <3>1, <3>2, WritesJoin
    <3>4. QED
      BY <3>3 DEF w, a, b
  <2>7. QED
    BY <2>5, <2>6
<1>6. QED
  BY <1>3, <1>4, <1>5

(***************************************************************************)
(* What `git diff' writes for a change, with or without the trailing       *)
(* spaces, leads from before the change to its end.                        *)
(***************************************************************************)
LEMMA PatchGoes ==
  ASSUME NEW c \in Seq(FileChange), NEW strip \in BOOLEAN
  PROVE  Writes(c, strip, Patch(c, strip), Before, FileEnd(c, Len(c)))
<1> DEFINE N == Len(c)
           s == [i \in DOMAIN c |-> WrittenFile(c[i], strip)]
           at == [f \in 0..N |-> FileEnd(c, f)]
<1>1. N \in Nat /\ DOMAIN c = 1..N
  BY LenProperties
<1>2. at \in [0..N -> Spots] /\ at[0] = Before /\ at[N] = FileEnd(c, N)
  <2>1. \A f \in 0..N : FileEnd(c, f) \in Spots
    BY FileEnds
  <2>2. FileEnd(c, 0) = Before
    BY DEF FileEnd
  <2>3. QED
    BY <1>1, <2>1, <2>2
<1>3. ASSUME NEW f \in 1..N PROVE s[f] \in Seq(PatchLine) /\ Goes(c, strip, s[f], at[f - 1], at[f])
  <2>1. f - 1 \in 0..N /\ f \in 0..N
    BY <1>1
  <2>2. s[f] = WrittenFile(c[f], strip) /\ at[f - 1] = FileEnd(c, f - 1) /\ at[f] = FileEnd(c, f)
    BY <1>1, <2>1
  <2> HIDE DEF s, at
  <2>3. Writes(c, strip, WrittenFile(c[f], strip), FileEnd(c, f - 1), FileEnd(c, f))
    BY FileGoes
  <2>4. QED
    BY <2>2, <2>3 DEF Writes
<1>4. s \in Seq(Seq(PatchLine)) /\ Len(s) = N
  <2>1. s \in [1..N -> Seq(PatchLine)]
    <3>1. DOMAIN s = 1..N /\ s = [i \in 1..N |-> s[i]]
      BY <1>1
    <3> HIDE DEF s
    <3>2. QED
      BY <1>3, <3>1
  <2> HIDE DEF s
  <2>2. QED
    BY <1>1, <2>1, FunctionIsSeq
<1>5. Patch(c, strip) = FlattenSeq(s)
  BY DEF Patch
<1> HIDE DEF s, at
<1>6. Goes(c, strip, FlattenSeq(s), at[0], at[N]) /\ FlattenSeq(s) \in Seq(PatchLine)
  BY <1>2, <1>3, <1>4, FlatGoes, FlattenType
<1>7. QED
  BY <1>2, <1>5, <1>6 DEF Writes

-----------------------------------------------------------------------------
(* A walk stays within the change. *)

\* A hunk is open at this place.
Opened(a) == a.at = "hunk" /\ a.h > 0

\* The place a lies within the hunks of the file f.
Inside(f, a) ==
  /\ a.h \in 0..Len(f.hunks)
  /\ a.h = 0 => a.done
  /\ a.h # 0 => a.k \in 0..Len(f.hunks[a.h].body)
  /\ ~a.done => a.k # 0 /\ f.hunks[a.h].body[a.k].noNL

\* A place that the change c has.
InPlace(c, a) ==
  /\ a \in Spots
  /\ a.at = "cc" => AnyCombined(c, Len(c))
  /\ a.at = "start" => a.f = 0
  /\ a.at \in {"head", "old", "hunk"} => File(c, a.f) /\ ~AnyCombined(c, a.f)
  /\ a.at = "head" => a.seen \subseteq AllNames(c[a.f])
  /\ a.at \in {"old", "hunk"} => c[a.f].hunks # <<>>
  /\ a.at = "hunk" => Inside(c[a.f], a)

(***************************************************************************)
(* The parts of a place among the headers.                                 *)
(***************************************************************************)
LEMMA HeadSpotIs ==
  \A f, seen : HeadSpot(f, seen).at = "head" /\ HeadSpot(f, seen).f = f /\ HeadSpot(f, seen).seen = seen
  BY DEF HeadSpot, Spot

(***************************************************************************)
(* Those of the place after the old name.                                  *)
(***************************************************************************)
LEMMA OldSpotIs == \A f : OldSpot(f).at = "old" /\ OldSpot(f).f = f
  BY DEF OldSpot, Spot

(***************************************************************************)
(* The two places outside the files.                                       *)
(***************************************************************************)
LEMMA EdgeSpots == Before.at = "start" /\ Before.f = 0 /\ Combine.at = "cc"
  BY DEF Before, Combine, Spot

(***************************************************************************)
(* The types of a place's parts.                                           *)
(***************************************************************************)
LEMMA SpotFields ==
  \A a \in Spots : a.f \in Nat /\ a.h \in Nat /\ a.k \in Nat /\ a.done \in BOOLEAN /\ a.seen \in SUBSET Heads
                   /\ a.at \in {"start", "head", "old", "hunk", "cc"}
  BY DEF Spots

(***************************************************************************)
(* git's first line for a file leads to the headers of the next file.      *)
(***************************************************************************)
LEMMA GitStays ==
  ASSUME NEW c \in Seq(FileChange), NEW a, InPlace(c, a), NEW l, NEW b, IsGit(c, a, l, b)
  PROVE  /\ InPlace(c, b) /\ b.at = "head" /\ b.f = a.f + 1 /\ b.seen = {} /\ File(c, b.f)
         /\ a.at \in {"start", "head", "hunk"}
<1> DEFINE f == a.f + 1
<1>1. b = HeadSpot(f, {}) /\ a.f < Len(c) /\ c[f].status # "combined" /\ Complete(c, a)
  BY DEF IsGit
<1>2. a.at \in {"start", "head", "hunk"}
  BY <1>1 DEF Complete, HunkDone
<1>3. a.f \in Nat /\ ~AnyCombined(c, a.f)
  <2>1. CASE a.at = "start"
    <3>1. a.f = 0
      BY <2>1 DEF InPlace
    <3>2. QED
      BY <3>1 DEF AnyCombined
  <2>2. CASE a.at # "start"
    <3>1. a.f \in Nat
      BY SpotFields DEF InPlace
    <3>2. QED
      BY <1>2, <2>2, <3>1 DEF InPlace
  <2>3. QED
    BY <2>1, <2>2
<1>4. Len(c) \in Nat
  BY LenProperties
<1>5. f \in 1..Len(c) /\ f \in Nat /\ \A i \in 1..f : i \in 1..a.f \/ i = f
  BY <1>1, <1>3, <1>4
<1>6. File(c, f)
  BY <1>1, <1>5 DEF File
<1> HIDE DEF f
<1>7. ~AnyCombined(c, f)
  BY <1>1, <1>3, <1>5 DEF AnyCombined
<1>8. b.at = "head" /\ b.f = f /\ b.seen = {}
  BY <1>1, HeadSpotIs
<1>9. b \in Spots
  BY <1>1, <1>5, SpotsAre
<1>10. InPlace(c, b)
  BY <1>6, <1>7, <1>8, <1>9 DEF InPlace
<1>11. QED
  BY <1>2, <1>6, <1>8, <1>10 DEF f

(***************************************************************************)
(* A header line leads on among the headers of its file.                   *)
(***************************************************************************)
LEMMA HeadStays ==
  ASSUME NEW c \in Seq(FileChange), NEW a, InPlace(c, a), NEW l, NEW b, IsHead(c, a, l, b)
  PROVE  InPlace(c, b) /\ b.at = "head" /\ b.f = a.f /\ a.at = "head"
<1>1. PICK n \in Heads : a.at = "head" /\ Needs(c[a.f], n) /\ b = HeadSpot(a.f, a.seen \cup {n})
  BY DEF IsHead
<1>2. File(c, a.f) /\ ~AnyCombined(c, a.f) /\ a.seen \subseteq AllNames(c[a.f])
  BY <1>1 DEF InPlace
<1>3. a.f \in Nat /\ a.seen \in SUBSET Heads
  BY SpotFields DEF InPlace
<1>4. a.seen \cup {n} \subseteq AllNames(c[a.f]) /\ a.seen \cup {n} \in SUBSET Heads
  BY <1>1, <1>2, <1>3 DEF AllNames
<1>5. b.at = "head" /\ b.f = a.f /\ b.seen = a.seen \cup {n}
  BY <1>1, HeadSpotIs
<1>6. b \in Spots
  BY <1>1, <1>3, <1>4, SpotsAre
<1>7. InPlace(c, b)
  BY <1>2, <1>4, <1>5, <1>6 DEF InPlace
<1>8. QED
  BY <1>1, <1>5, <1>7

(***************************************************************************)
(* The old name leads away from the headers.                               *)
(***************************************************************************)
LEMMA OldStays ==
  ASSUME NEW c \in Seq(FileChange), NEW a, InPlace(c, a), NEW l, NEW b, IsOld(c, a, l, b)
  PROVE  InPlace(c, b) /\ b.at = "old" /\ b.f = a.f /\ a.at = "head"
<1>1. a.at = "head" /\ c[a.f].hunks # <<>> /\ b = OldSpot(a.f)
  BY DEF IsOld
<1>2. File(c, a.f) /\ ~AnyCombined(c, a.f)
  BY <1>1 DEF InPlace
<1>3. a.f \in Nat
  BY SpotFields DEF InPlace
<1>4. b.at = "old" /\ b.f = a.f
  BY <1>1, OldSpotIs
<1>5. b \in Spots
  BY <1>1, <1>3, SpotsAre
<1>6. InPlace(c, b)
  BY <1>1, <1>2, <1>4, <1>5 DEF InPlace
<1>7. QED
  BY <1>1, <1>4, <1>6

(***************************************************************************)
(* The new name leads to the file's hunks, before the first.               *)
(***************************************************************************)
LEMMA NewStays ==
  ASSUME NEW c \in Seq(FileChange), NEW a, InPlace(c, a), NEW l, NEW b, IsNew(c, a, l, b)
  PROVE  InPlace(c, b) /\ b.at = "hunk" /\ b.f = a.f /\ b.h = 0 /\ b.k = 0 /\ b.done = TRUE /\ a.at = "old"
<1>1. a.at = "old" /\ b = HunkSpot(a.f, 0, 0, TRUE)
  BY DEF IsNew
<1>2. File(c, a.f) /\ ~AnyCombined(c, a.f) /\ c[a.f].hunks # <<>>
  BY <1>1 DEF InPlace
<1>3. a.f \in Nat
  BY SpotFields DEF InPlace
<1>4. Len(c[a.f].hunks) \in Nat
  BY <1>2, FilesAre
<1>5. b.at = "hunk" /\ b.f = a.f /\ b.h = 0 /\ b.k = 0 /\ b.done = TRUE
  BY <1>1 DEF HunkSpot, Spot
<1>6. b \in Spots
  BY <1>1, <1>3, SpotsAre
<1>7. Inside(c[a.f], b)
  BY <1>4, <1>5 DEF Inside
<1>8. InPlace(c, b)
  BY <1>2, <1>5, <1>6, <1>7 DEF InPlace
<1>9. QED
  BY <1>1, <1>5, <1>8

(***************************************************************************)
(* A hunk's header leads into the hunk.                                    *)
(***************************************************************************)
LEMMA HunkStays ==
  ASSUME NEW c \in Seq(FileChange), NEW a, InPlace(c, a), NEW l, NEW b, IsHunk(c, a, l, b)
  PROVE  /\ InPlace(c, b) /\ b.at = "hunk" /\ b.f = a.f /\ b.h = a.h + 1 /\ b.k = 0 /\ a.at = "hunk" /\ Opened(b)
         /\ b.h \in 1..Len(c[a.f].hunks) /\ b.done = TRUE
<1> DEFINE h == a.h + 1
<1>1. a.at = "hunk" /\ b = HunkSpot(a.f, h, 0, TRUE) /\ a.h < Len(c[a.f].hunks)
  BY DEF IsHunk, HunkDone
<1>2. File(c, a.f) /\ ~AnyCombined(c, a.f) /\ c[a.f].hunks # <<>>
  BY <1>1 DEF InPlace
<1>3. a.f \in Nat /\ a.h \in Nat
  BY SpotFields DEF InPlace
<1>4. Len(c[a.f].hunks) \in Nat
  BY <1>2, FilesAre
<1>5. h \in 1..Len(c[a.f].hunks) /\ h \in Nat /\ h > 0 /\ h # 0 /\ h \in 0..Len(c[a.f].hunks)
  BY <1>1, <1>3, <1>4
<1> HIDE DEF h
<1>6. 0 \in 0..Len(c[a.f].hunks[h].body)
  <2>1. Len(c[a.f].hunks[h].body) \in Nat
    BY <1>2, <1>5, FilesAre
  <2>2. QED
    BY <2>1
<1>7. b.at = "hunk" /\ b.f = a.f /\ b.h = h /\ b.k = 0 /\ b.done = TRUE
  BY <1>1 DEF HunkSpot, Spot
<1>8. b \in Spots
  BY <1>1, <1>3, <1>5, SpotsAre
<1>9. Inside(c[a.f], b)
  BY <1>5, <1>6, <1>7 DEF Inside
<1>10. InPlace(c, b)
  BY <1>2, <1>7, <1>8, <1>9 DEF InPlace
<1>11. Opened(b)
  BY <1>5, <1>7 DEF Opened
<1>12. QED
  BY <1>1, <1>5, <1>7, <1>10, <1>11 DEF h

(***************************************************************************)
(* Inside an open hunk.                                                    *)
(***************************************************************************)
LEMMA OpenedIs ==
  ASSUME NEW c \in Seq(FileChange), NEW a, InPlace(c, a), Opened(a)
  PROVE  /\ HunkOf(c, a.f, a.h) /\ a.h \in 1..Len(c[a.f].hunks) /\ a.h \in Nat /\ a.f \in Nat /\ a.k \in Nat
         /\ c[a.f].hunks[a.h].body \in Seq(BodyLine) /\ Len(c[a.f].hunks[a.h].body) \in Nat
         /\ a.k \in 0..Len(c[a.f].hunks[a.h].body) /\ a.done \in BOOLEAN /\ c[a.f].hunks # <<>>
         /\ ~a.done => a.k \in 1..Len(c[a.f].hunks[a.h].body) /\ c[a.f].hunks[a.h].body[a.k].noNL
         /\ ~AnyCombined(c, a.f) /\ File(c, a.f) /\ a.at = "hunk" /\ c[a.f].hunks[a.h].claim \in Claims
<1>1. a.at = "hunk" /\ a.h > 0
  BY DEF Opened
<1>2. a.f \in Nat /\ a.h \in Nat /\ a.k \in Nat /\ a.done \in BOOLEAN
  BY SpotFields DEF InPlace
<1>3. File(c, a.f) /\ ~AnyCombined(c, a.f) /\ Inside(c[a.f], a) /\ c[a.f].hunks # <<>>
  BY <1>1 DEF InPlace
<1>4. a.h # 0 /\ a.h \in 0..Len(c[a.f].hunks) /\ Len(c[a.f].hunks) \in Nat
  <2>1. Len(c[a.f].hunks) \in Nat
    BY <1>3, FilesAre
  <2>2. a.h # 0
    BY <1>1, <1>2
  <2>3. QED
    BY <1>3, <2>1, <2>2 DEF Inside
<1>5. a.h \in 1..Len(c[a.f].hunks)
  BY <1>2, <1>4
<1>6. /\ c[a.f].hunks[a.h].body \in Seq(BodyLine) /\ Len(c[a.f].hunks[a.h].body) \in Nat
      /\ c[a.f].hunks[a.h].claim \in Claims
  BY <1>3, <1>5, FilesAre
<1>7. /\ a.k \in 0..Len(c[a.f].hunks[a.h].body)
      /\ ~a.done => a.k # 0 /\ c[a.f].hunks[a.h].body[a.k].noNL
  BY <1>3, <1>4 DEF Inside
<1>8. HunkOf(c, a.f, a.h)
  BY <1>3, <1>5 DEF HunkOf
<1>9. ~a.done => a.k \in 1..Len(c[a.f].hunks[a.h].body)
  <2> DEFINE n == Len(c[a.f].hunks[a.h].body)
  <2>1. n \in Nat /\ a.k \in 0..n /\ (~a.done => a.k # 0)
    BY <1>6, <1>7
  <2> HIDE DEF n
  <2>2. QED
    BY <1>2, <2>1 DEF n
<1>10. QED
  BY <1>1, <1>2, <1>3, <1>5, <1>6, <1>7, <1>8, <1>9

(***************************************************************************)
(* A line of a body leads one line on in its hunk.                         *)
(***************************************************************************)
LEMMA TextStays ==
  ASSUME NEW c \in Seq(FileChange), NEW strip, NEW a, InPlace(c, a), NEW l, NEW b, IsText(c, strip, a, l, b)
  PROVE  /\ InPlace(c, b) /\ b.at = "hunk" /\ b.f = a.f /\ b.h = a.h /\ b.k = a.k + 1
         /\ Opened(a) /\ Opened(b) /\ a.done
         /\ b.k \in 1..Len(c[a.f].hunks[a.h].body)
         /\ b.done = ~c[a.f].hunks[a.h].body[b.k].noNL
<1> DEFINE k == a.k + 1
           body == c[a.f].hunks[a.h].body
           done == ~body[k].noNL
<1>1. a.at = "hunk" /\ a.h > 0 /\ a.done /\ a.k < Len(body) /\ b = HunkSpot(a.f, a.h, k, done)
  BY DEF IsText
<1>2. Opened(a)
  BY <1>1 DEF Opened
<1>3. body \in Seq(BodyLine) /\ Len(body) \in Nat /\ a.k \in Nat /\ a.f \in Nat /\ a.h \in Nat /\ a.h \in 1..Len(c[a.f].hunks)
      /\ File(c, a.f) /\ ~AnyCombined(c, a.f) /\ c[a.f].hunks # <<>> /\ Len(c[a.f].hunks) \in Nat
  BY <1>2, OpenedIs, FilesAre
<1>5. k \in 1..Len(body) /\ k \in Nat /\ k # 0 /\ k \in 0..Len(body)
  <2> DEFINE n == Len(body)
  <2>1. n \in Nat /\ a.k \in Nat /\ a.k < n
    BY <1>1, <1>3
  <2> HIDE DEF n
  <2>2. k \in 1..n /\ k \in Nat /\ k # 0 /\ k \in 0..n
    BY <2>1
  <2>3. QED
    BY <2>2 DEF n
<1>6. body[k].noNL \in BOOLEAN
  <2>1. body[k] \in BodyLine
    BY SMTT(20), <1>3, <1>5
  <2>2. QED
    BY <2>1 DEF BodyLine
<1>7. done \in BOOLEAN /\ (~done => body[k].noNL)
  BY <1>6
<1>8. b.at = "hunk" /\ b.f = a.f /\ b.h = a.h /\ b.k = k /\ b.done = done
  BY <1>1 DEF HunkSpot, Spot
<1> HIDE DEF k, done
<1>9. b \in Spots
  BY <1>1, <1>3, <1>5, <1>7, SpotsAre
<1>10. Inside(c[a.f], b)
  <2>1. b.h \in 0..Len(c[a.f].hunks) /\ b.h # 0
    BY <1>3, <1>8
  <2>2. b.k \in 0..Len(c[a.f].hunks[b.h].body) /\ b.k # 0
    BY <1>5, <1>8
  <2>3. ~b.done => c[a.f].hunks[b.h].body[b.k].noNL
    BY <1>7, <1>8
  <2>4. QED
    BY <2>1, <2>2, <2>3 DEF Inside
<1>11. InPlace(c, b)
  BY <1>3, <1>8, <1>9, <1>10 DEF InPlace
<1>12. b.h > 0
  BY <1>1, <1>8
<1>13. Opened(b)
  BY <1>8, <1>12 DEF Opened
<1>14. QED
  BY <1>1, <1>2, <1>5, <1>8, <1>11, <1>13 DEF k, done

(***************************************************************************)
(* The marker leads no further, but is written then.                       *)
(***************************************************************************)
LEMMA MarkerStays ==
  ASSUME NEW c \in Seq(FileChange), NEW a, InPlace(c, a), NEW l, NEW b, IsMarker(c, a, l, b)
  PROVE  /\ InPlace(c, b) /\ b.at = "hunk" /\ b.f = a.f /\ b.h = a.h /\ b.k = a.k /\ b.done = TRUE
         /\ Opened(a) /\ Opened(b) /\ ~a.done
<1>1. a.at = "hunk" /\ ~a.done /\ b = HunkSpot(a.f, a.h, a.k, TRUE)
  BY DEF IsMarker
<1>2. a.f \in Nat /\ a.h \in Nat /\ a.k \in Nat
  BY SpotFields DEF InPlace
<1>3. File(c, a.f) /\ ~AnyCombined(c, a.f) /\ Inside(c[a.f], a) /\ c[a.f].hunks # <<>>
  BY <1>1 DEF InPlace
<1>4. a.h # 0
  BY <1>1, <1>3 DEF Inside
<1>5. a.h > 0
  BY <1>2, <1>4
<1>6. b.at = "hunk" /\ b.f = a.f /\ b.h = a.h /\ b.k = a.k /\ b.done = TRUE
  BY <1>1 DEF HunkSpot, Spot
<1>7. b \in Spots
  BY <1>1, <1>2, SpotsAre
<1>8. Inside(c[a.f], b)
  BY <1>3, <1>6 DEF Inside
<1>9. InPlace(c, b)
  BY <1>3, <1>6, <1>7, <1>8 DEF InPlace
<1>10. QED
  BY <1>1, <1>5, <1>6, <1>9 DEF Opened

(***************************************************************************)
(* Once in a combined diff, the change has one.                            *)
(***************************************************************************)
LEMMA CombineStays ==
  ASSUME NEW c \in Seq(FileChange), NEW a, InPlace(c, a), NEW l, NEW b, IsCombined(c, a, l, b)
  PROVE  InPlace(c, b) /\ b.at = "cc" /\ AnyCombined(c, Len(c))
<1>1. b = Combine /\ b.at = "cc"
  BY EdgeSpots DEF IsCombined
<1>2. b \in Spots
  BY <1>1, SpotsAre
<1>3. AnyCombined(c, Len(c))
  <2>1. CASE a = Combine
    BY <2>1, EdgeSpots DEF InPlace
  <2>2. CASE a # Combine
    <3>1. a.f < Len(c) /\ c[a.f + 1].status = "combined"
      BY <2>2 DEF IsCombined
    <3>2. a.f \in Nat /\ Len(c) \in Nat
      BY SpotFields, LenProperties DEF InPlace
    <3>3. a.f + 1 \in 1..Len(c)
      BY <3>1, <3>2
    <3>4. QED
      BY <3>1, <3>3 DEF AnyCombined
  <2>3. QED
    BY <2>1, <2>2
<1>4. InPlace(c, b)
  BY <1>1, <1>2, <1>3 DEF InPlace
<1>5. QED
  BY <1>1, <1>3, <1>4

(***************************************************************************)
(* Every line leads from a place that the change has to one that it has.   *)
(***************************************************************************)
LEMMA Stays ==
  ASSUME NEW c \in Seq(FileChange), NEW strip, NEW a, InPlace(c, a), NEW l, NEW b, Leads(c, strip, a, l, b)
  PROVE  InPlace(c, b)
<1>1. CASE IsCombined(c, a, l, b)
  BY <1>1, CombineStays
<1>2. CASE IsGit(c, a, l, b)
  BY <1>2, GitStays
<1>3. CASE IsHead(c, a, l, b)
  BY <1>3, HeadStays
<1>4. CASE IsOld(c, a, l, b)
  BY <1>4, OldStays
<1>5. CASE IsNew(c, a, l, b)
  BY <1>5, NewStays
<1>6. CASE IsHunk(c, a, l, b)
  BY <1>6, HunkStays
<1>7. CASE IsText(c, strip, a, l, b)
  BY <1>7, TextStays
<1>8. CASE IsMarker(c, a, l, b)
  BY <1>8, MarkerStays
<1>9. QED
  BY <1>1, <1>2, <1>3, <1>4, <1>5, <1>6, <1>7, <1>8 DEF Leads

(***************************************************************************)
(* So does every walk from before the change.                              *)
(***************************************************************************)
LEMMA WalkStays ==
  ASSUME NEW c \in Seq(FileChange), NEW strip, NEW s \in Seq(PatchLine), NEW g, Walks(c, strip, s, g), g[0] = Before
  PROVE  \A i \in 0..Len(s) : InPlace(c, g[i])
<1> DEFINE T == {i \in Nat : i <= Len(s) => InPlace(c, g[i])}
<1>1. Len(s) \in Nat
  BY LenProperties
<1>2. 0 \in T
  <2>1. InPlace(c, Before)
    BY EdgeSpots, SpotsAre DEF InPlace
  <2>2. QED
    BY <2>1
<1>3. ASSUME NEW i \in Nat, i \in T PROVE i + 1 \in T
  <2>1. SUFFICES ASSUME i + 1 <= Len(s) PROVE InPlace(c, g[i + 1])
    OBVIOUS
  <2>2. i + 1 \in 1..Len(s) /\ (i + 1) - 1 = i /\ i <= Len(s)
    BY <1>1, <2>1
  <2>3. InPlace(c, g[i])
    BY <1>3, <2>2
  <2>4. Leads(c, strip, g[i], s[i + 1], g[i + 1])
    BY <2>2 DEF Walks
  <2>5. QED
    BY <2>3, <2>4, Stays
<1> HIDE DEF T
<1>4. \A i \in Nat : i \in T
  BY <1>2, <1>3, NatSets
<1>5. QED
  BY <1>1, <1>4 DEF T
=============================================================================
