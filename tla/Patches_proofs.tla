---------------------------- MODULE Patches_proofs ----------------------------
(***************************************************************************)
(* A change, the patch that git writes for it, and what ParseUnified makes *)
(* of that, for changes of any number of files, hunks and lines, captured  *)
(* whole or cut short anywhere.  A patch is a walk through the change,     *)
(* each line of it leading from one place to the next; the parser stands   *)
(* before each line at the place it comes from.  So a whole and honest     *)
(* patch is read back as the change, a damaged hunk leaves a warning, and  *)
(* no line is lost, whatever the headers claim (unless a line past a       *)
(* hunk's counts can be mistaken for one).                                 *)
(***************************************************************************)
EXTENDS Diff_proofs

-----------------------------------------------------------------------------
(* What the parser's functions change. *)

\* Two parsers that agree on what the headers said, two files on what they
\* are called, and two parsers on their open hunk and on where they stand.
SameHeaders(q, r) ==
  /\ r.hdrOld = q.hdrOld /\ r.hdrNew = q.hdrNew /\ r.sawOldHeader = q.sawOldHeader
  /\ r.sawOldNull = q.sawOldNull /\ r.sawNewNull = q.sawNewNull /\ r.sawModeLine = q.sawModeLine
SameNames(f, g) ==
  /\ g.old = f.old /\ g.new = f.new /\ g.status = f.status
  /\ g.oldMode = f.oldMode /\ g.newMode = f.newMode /\ g.binary = f.binary
SameHunk(q, r) ==
  /\ r.inHunk = q.inHunk /\ r.hunk = q.hunk
  /\ r.oldRem = q.oldRem /\ r.newRem = q.newRem /\ r.oldNo = q.oldNo /\ r.newNo = q.newNo
SameEnds(q, r) == r.at = q.at /\ r.err = q.err /\ r.closed = q.closed
SameFiles(q, r) == r.files = q.files /\ r.inFile = q.inFile

(***************************************************************************)
(* What startFile makes of the parser.                                     *)
(***************************************************************************)
LEMMA StartFileIs ==
  ASSUME NEW q
  PROVE  LET r == StartFile(q) IN
         /\ r.state = q.state /\ r.files = q.files /\ r.at = q.at /\ r.inFile = TRUE /\ r.cur = NoFile
         /\ r.inHunk = FALSE /\ r.hunk = NoHunk /\ r.hdrOld = "" /\ r.hdrNew = "" /\ r.sawOldHeader = FALSE
         /\ r.sawOldNull = FALSE /\ r.sawNewNull = FALSE /\ r.sawModeLine = FALSE /\ r.err = FALSE /\ r.closed = FALSE
  BY DEF StartFile, Start

(***************************************************************************)
(* A warning is added to the current file, and nothing else changes.       *)
(***************************************************************************)
LEMMA FlagIs ==
  ASSUME NEW q \in Parsers, q.inFile, NEW msg
  PROVE  LET r == Flag(q, msg) IN
         /\ r.cur.flags = q.cur.flags \cup {msg} /\ SameNames(q.cur, r.cur) /\ r.cur.hunks = q.cur.hunks
         /\ SameHeaders(q, r) /\ SameHunk(q, r) /\ SameEnds(q, r) /\ SameFiles(q, r) /\ r.state = q.state
<1> DEFINE f == [q.cur EXCEPT !.flags = @ \cup {msg}]
           r == Flag(q, msg)
<1>1. r = [q EXCEPT !.cur = f]
  BY DEF Flag, InFile, Parsers
<1>2. q.cur \in ParsedFile
  BY DEF Parsers
<1>3. f.flags = q.cur.flags \cup {msg} /\ SameNames(q.cur, f) /\ f.hunks = q.cur.hunks
  BY <1>2 DEF ParsedFile, SameNames
<1> HIDE DEF f, r
<1>4. r.cur = f
  BY <1>1 DEF Parsers
<1>5. SameHeaders(q, r) /\ SameHunk(q, r) /\ SameEnds(q, r) /\ SameFiles(q, r) /\ r.state = q.state
  BY <1>1 DEF Parsers, SameHeaders, SameHunk, SameEnds, SameFiles
<1>6. QED
  BY <1>3, <1>4, <1>5 DEF r

(***************************************************************************)
(* The state alone is set.                                                 *)
(***************************************************************************)
LEMMA StateIs ==
  ASSUME NEW q \in Parsers, NEW s
  PROVE  LET r == [q EXCEPT !.state = s] IN
         SameHeaders(q, r) /\ SameHunk(q, r) /\ SameEnds(q, r) /\ SameFiles(q, r) /\ r.cur = q.cur /\ r.state = s
  BY DEF Parsers, SameHeaders, SameHunk, SameEnds, SameFiles

(***************************************************************************)
(* closeHunk appends the open hunk to the file's, with a warning where     *)
(* it is short.                                                            *)
(***************************************************************************)
LEMMA CloseHunkIs ==
  ASSUME NEW q \in Parsers, Sound(q), q.inHunk
  PROVE  LET r == CloseHunk(q) IN
         /\ r.cur.flags = q.cur.flags \cup (IF Owes(q) THEN {"hunk is short"} ELSE {})
         /\ SameNames(q.cur, r.cur) /\ r.cur.hunks = Append(q.cur.hunks, q.hunk)
         /\ SameHeaders(q, r) /\ SameEnds(q, r) /\ SameFiles(q, r) /\ r.state = q.state
         /\ r.inHunk = FALSE /\ r.hunk = NoHunk
<1> DEFINE r == CloseHunk(q)
           s == IF Owes(q) THEN Flag(q, "hunk is short") ELSE q
           hunks == Append(q.cur.hunks, q.hunk)
           none == 0
           f == [s.cur EXCEPT !.hunks = hunks]
<1>1. q.inFile
  BY DEF Sound
<1>2. /\ s \in Parsers /\ SameNames(q.cur, s.cur) /\ s.cur.hunks = q.cur.hunks /\ SameHeaders(q, s) /\ SameHunk(q, s)
      /\ SameEnds(q, s) /\ SameFiles(q, s) /\ s.state = q.state
      /\ s.cur.flags = q.cur.flags \cup (IF Owes(q) THEN {"hunk is short"} ELSE {})
  <2>1. CASE ~Owes(q)
    <3>1. q.cur.flags \cup {} = q.cur.flags
      OBVIOUS
    <3>2. QED
      BY <2>1, <3>1 DEF SameNames, SameHeaders, SameHunk, SameEnds, SameFiles
  <2>2. CASE Owes(q)
    <3> DEFINE t == Flag(q, "hunk is short")
    <3>1. t \in Parsers
      <4>1. [q EXCEPT !.cur.flags = @ \cup {"hunk is short"}] \in Parsers
        <5>1. q.cur \in ParsedFile
          BY DEF Parsers
        <5> DEFINE g == [q.cur EXCEPT !.flags = @ \cup {"hunk is short"}]
        <5>2. g \in ParsedFile
          BY <5>1 DEF ParsedFile, Warnings
        <5> HIDE DEF g
        <5>3. [q EXCEPT !.cur = g] \in Parsers
          BY <5>2 DEF Parsers
        <5>4. [q EXCEPT !.cur.flags = @ \cup {"hunk is short"}] = [q EXCEPT !.cur = g]
          BY DEF g
        <5>5. QED
          BY <5>3, <5>4
      <4>2. QED
        BY <1>1, <4>1 DEF Flag, InFile
    <3>2. /\ SameNames(q.cur, t.cur) /\ t.cur.hunks = q.cur.hunks /\ SameHeaders(q, t) /\ SameHunk(q, t)
          /\ SameEnds(q, t) /\ SameFiles(q, t) /\ t.state = q.state /\ t.cur.flags = q.cur.flags \cup {"hunk is short"}
      BY <1>1, FlagIs
    <3>3. s = t
      BY <2>2
    <3> HIDE DEF t, s
    <3>4. QED
      BY <2>2, <3>1, <3>2, <3>3
  <2>3. QED
    BY <2>1, <2>2
<1> HIDE DEF s
<1>3. r = [s EXCEPT !.cur = f, !.inHunk = FALSE, !.hunk = NoHunk, !.oldRem = none, !.newRem = none]
  <2>1. r = [s EXCEPT !.cur.hunks = Append(@, q.hunk), !.inHunk = FALSE, !.hunk = NoHunk, !.oldRem = 0, !.newRem = 0]
    BY DEF CloseHunk, s
  <2>2. s.cur.hunks = q.cur.hunks
    BY <1>2
  <2>3. QED
    BY <1>2, <2>1, <2>2 DEF Parsers, ParsedFile
<1>4. s.cur \in ParsedFile
  BY <1>2 DEF Parsers
<1> HIDE DEF hunks
<1>5. f.hunks = hunks /\ SameNames(s.cur, f) /\ f.flags = s.cur.flags
  BY <1>4 DEF ParsedFile, SameNames
<1> HIDE DEF f, r, none
<1>6. r.cur = f /\ r.inHunk = FALSE /\ r.hunk = NoHunk
  BY <1>2, <1>3 DEF Parsers
<1>7. SameHeaders(s, r) /\ SameEnds(s, r) /\ SameFiles(s, r) /\ r.state = s.state
  BY <1>2, <1>3 DEF Parsers, SameHeaders, SameEnds, SameFiles
<1>8. SameHeaders(q, r) /\ SameEnds(q, r) /\ SameFiles(q, r) /\ r.state = q.state
  BY <1>2, <1>7 DEF SameHeaders, SameEnds, SameFiles
<1>9. SameNames(q.cur, r.cur)
  BY <1>2, <1>5, <1>6 DEF SameNames
<1>10. QED
  BY <1>2, <1>5, <1>6, <1>8, <1>9 DEF r, hunks

(***************************************************************************)
(* addLine appends a line at the next line numbers, and takes it off the   *)
(* counts that are left.                                                   *)
(***************************************************************************)
LEMMA AddLineIs ==
  ASSUME NEW q \in Parsers, NEW kind \in Kinds, NEW text
  PROVE  LET r == AddLine(q, kind, text)
             l == [kind |-> kind, text |-> text, noNL |-> FALSE,
                   oldNo |-> IF kind # "add" THEN q.oldNo ELSE 0, newNo |-> IF kind # "del" THEN q.newNo ELSE 0] IN
         /\ r.hunk.lines = Append(q.hunk.lines, l) /\ r.hunk.claim = q.hunk.claim
         /\ r.oldNo = q.oldNo + (IF kind # "add" THEN 1 ELSE 0) /\ r.oldRem = q.oldRem - (IF kind # "add" THEN 1 ELSE 0)
         /\ r.newNo = q.newNo + (IF kind # "del" THEN 1 ELSE 0) /\ r.newRem = q.newRem - (IF kind # "del" THEN 1 ELSE 0)
         /\ r.cur.flags = q.cur.flags /\ SameNames(q.cur, r.cur) /\ r.cur.hunks = q.cur.hunks
         /\ SameHeaders(q, r) /\ SameEnds(q, r) /\ SameFiles(q, r) /\ r.inHunk = q.inHunk /\ r.state = q.state
<1> DEFINE r == AddLine(q, kind, text)
           old == kind # "add"
           new == kind # "del"
           l == [kind |-> kind, text |-> text, noNL |-> FALSE,
                 oldNo |-> IF old THEN q.oldNo ELSE 0, newNo |-> IF new THEN q.newNo ELSE 0]
           ls == Append(q.hunk.lines, l)
           h == [q.hunk EXCEPT !.lines = ls]
           adds == IF kind = "add" THEN q.cur.adds + 1 ELSE q.cur.adds
           dels == IF kind = "del" THEN q.cur.dels + 1 ELSE q.cur.dels
           f == [q.cur EXCEPT !.adds = adds, !.dels = dels]
           a == IF old THEN q.oldNo + 1 ELSE q.oldNo
           b == IF old THEN q.oldRem - 1 ELSE q.oldRem
           c == IF new THEN q.newNo + 1 ELSE q.newNo
           d == IF new THEN q.newRem - 1 ELSE q.newRem
<1>1. /\ q.cur \in ParsedFile /\ q.hunk \in ParsedHunk /\ q.oldNo \in Nat /\ q.newNo \in Nat
      /\ q.oldRem \in Int /\ q.newRem \in Int
  BY DEF Parsers
<1>2. r = [q EXCEPT !.hunk = h, !.oldNo = a, !.oldRem = b, !.newNo = c, !.newRem = d, !.cur = f]
  <2>1. r = [q EXCEPT !.hunk.lines = ls, !.oldNo = a, !.oldRem = b, !.newNo = c, !.newRem = d,
                      !.cur.adds = adds, !.cur.dels = dels]
    BY DEF AddLine, Parsers
  <2> HIDE DEF r, a, b, c, d, ls, adds, dels, l
  <2>2. QED
    BY <1>1, <2>1 DEF Parsers, ParsedHunk, ParsedFile
<1>3. /\ a = q.oldNo + (IF kind # "add" THEN 1 ELSE 0) /\ b = q.oldRem - (IF kind # "add" THEN 1 ELSE 0)
  BY <1>1
<1>4. /\ c = q.newNo + (IF kind # "del" THEN 1 ELSE 0) /\ d = q.newRem - (IF kind # "del" THEN 1 ELSE 0)
  BY <1>1
<1> HIDE DEF r, a, b, c, d, ls, adds, dels
<1>5. h.lines = ls /\ h.claim = q.hunk.claim
  BY <1>1 DEF ParsedHunk
<1>6. f.flags = q.cur.flags /\ SameNames(q.cur, f) /\ f.hunks = q.cur.hunks
  BY <1>1 DEF ParsedFile, SameNames
<1> HIDE DEF h, f
<1>7. r.hunk = h /\ r.cur = f /\ r.oldNo = a /\ r.oldRem = b /\ r.newNo = c /\ r.newRem = d
  BY <1>2 DEF Parsers
<1>8. SameHeaders(q, r) /\ SameEnds(q, r) /\ SameFiles(q, r) /\ r.inHunk = q.inHunk /\ r.state = q.state
  BY <1>2 DEF Parsers, SameHeaders, SameEnds, SameFiles
<1>9. QED
  BY <1>3, <1>4, <1>5, <1>6, <1>7, <1>8 DEF r, ls

(***************************************************************************)
(* The mark goes on the last line of the open hunk.                        *)
(***************************************************************************)
LEMMA MarkIs ==
  ASSUME NEW q \in Parsers, q.inHunk, q.hunk.lines # <<>>
  PROVE  LET r == MarkNoNewline(q)
             n == Len(q.hunk.lines) IN
         /\ r.hunk.lines = [q.hunk.lines EXCEPT ![n] = [@ EXCEPT !.noNL = TRUE]] /\ r.hunk.claim = q.hunk.claim
         /\ r.oldNo = q.oldNo /\ r.oldRem = q.oldRem /\ r.newNo = q.newNo /\ r.newRem = q.newRem
         /\ r.cur = q.cur /\ SameHeaders(q, r) /\ SameEnds(q, r) /\ SameFiles(q, r) /\ r.inHunk = q.inHunk /\ r.state = q.state
<1> DEFINE r == MarkNoNewline(q)
           ls == q.hunk.lines
           n == Len(ls)
           ms == [ls EXCEPT ![n] = [@ EXCEPT !.noNL = TRUE]]
           h == [q.hunk EXCEPT !.lines = ms]
<1>1. q.hunk \in ParsedHunk
  BY DEF Parsers
<1>2. r = [q EXCEPT !.hunk = h]
  BY <1>1 DEF MarkNoNewline, Parsers, ParsedHunk
<1> HIDE DEF ms, r
<1>3. h.lines = ms /\ h.claim = q.hunk.claim
  BY <1>1 DEF ParsedHunk
<1> HIDE DEF h
<1>4. /\ r.hunk = h /\ r.oldNo = q.oldNo /\ r.oldRem = q.oldRem /\ r.newNo = q.newNo /\ r.newRem = q.newRem
      /\ r.cur = q.cur /\ SameHeaders(q, r) /\ SameEnds(q, r) /\ SameFiles(q, r) /\ r.inHunk = q.inHunk /\ r.state = q.state
  BY <1>2 DEF Parsers, SameHeaders, SameEnds, SameFiles
<1>5. QED
  BY <1>3, <1>4 DEF r, ms

(***************************************************************************)
(* closeFile closes the hunk, names the file and appends it to the         *)
(* files.                                                                  *)
(***************************************************************************)
LEMMA CloseFileIs ==
  ASSUME NEW q \in Parsers, Sound(q), ~q.closed, q.inFile
  PROVE  LET r == CloseFile(q)
             c == CloseHunk(q) IN
         /\ c \in Parsers /\ r.files = Append(q.files, Sealed(Named(c), c)) /\ r.inFile = FALSE /\ r.cur = NoFile
         /\ r.inHunk = FALSE /\ r.hunk = NoHunk /\ r.state = "header" /\ r.err = c.err /\ r.at = q.at /\ r.closed = q.closed
<1> DEFINE c == CloseHunk(q)
           r == CloseFile(q)
           f == Sealed(Named(c), c)
           fs == Append(c.files, f)
<1>1. c \in Parsers /\ c.at = q.at /\ c.closed = q.closed /\ c.files = q.files
  BY CloseHunkKeeps
<1>2. r = [c EXCEPT !.files = fs, !.inFile = FALSE, !.cur = NoFile,
                    !.inHunk = FALSE, !.hunk = NoHunk, !.state = "header"]
  BY DEF CloseFile
<1>3. fs = Append(q.files, f)
  BY <1>1
<1> HIDE DEF c, r, f, fs
<1>4. /\ r.files = fs /\ r.inFile = FALSE /\ r.cur = NoFile /\ r.hunk = NoHunk /\ r.inHunk = FALSE /\ r.state = "header"
      /\ r.at = c.at /\ r.closed = c.closed /\ r.err = c.err
  BY <1>1, <1>2 DEF Parsers
<1>5. QED
  BY <1>1, <1>3, <1>4 DEF c, r, f

(***************************************************************************)
(* A line in a hunk's body: as it is classified, and then the state is     *)
(* the headers' again if the counts are used up.                           *)
(***************************************************************************)
LEMMA InBodyIs ==
  ASSUME NEW q \in Parsers, Sound(q), q.inHunk, NEW l \in PatchLine
  PROVE  LET r == InBody(q, l)
             c == Classified(q, l) IN
         /\ c \in Parsers /\ SameHeaders(c, r) /\ SameHunk(c, r) /\ SameEnds(c, r) /\ SameFiles(c, r) /\ r.cur = c.cur
         /\ r.state = IF Owes(r) THEN "hunk" ELSE "header"
<1> DEFINE c == Classified(q, l)
           s == IF Owes(c) THEN "hunk" ELSE "header"
           r == InBody(q, l)
<1>1. c \in Parsers
  BY ClassifiedKeeps DEF Keeps
<1>2. r = [c EXCEPT !.state = s]
  BY DEF InBody
<1> HIDE DEF c, s, r
<1>3. SameHeaders(c, r) /\ SameHunk(c, r) /\ SameEnds(c, r) /\ SameFiles(c, r) /\ r.cur = c.cur /\ r.state = s
  BY <1>1, <1>2, StateIs
<1>4. Owes(r) <=> Owes(c)
  BY <1>3 DEF Owes, SameHunk
<1>5. r.state = IF Owes(r) THEN "hunk" ELSE "header"
  BY <1>3, <1>4 DEF s
<1>6. QED
  BY <1>1, <1>3, <1>5 DEF c, r

\* The numbers that the parser takes from a hunk's header.
Due(n) == IF n = Huge THEN 1 ELSE n
Given(claim) == [i \in 1..4 |-> IF claim[i] # Huge THEN claim[i] ELSE IF i \in {2, 4} THEN 1 ELSE 0]

(***************************************************************************)
(* What the parser takes from a header are numbers: a count that is        *)
(* missing or too large is 1.                                              *)
(***************************************************************************)
LEMMA GivenIs ==
  ASSUME NEW claim \in Claims
  PROVE  /\ Given(claim) \in Seq(Nat) /\ Given(claim)[1] \in Nat /\ Given(claim)[3] \in Nat
         /\ Given(claim)[2] = Due(claim[2]) /\ Given(claim)[4] = Due(claim[4])
         /\ Due(claim[2]) \in Nat /\ Due(claim[4]) \in Nat
<1> DEFINE n == Given(claim)
<1>1. \A i \in 1..4 : n[i] = (IF claim[i] # Huge THEN claim[i] ELSE IF i \in {2, 4} THEN 1 ELSE 0) /\ n[i] \in Nat
  BY DEF Given, Claims
<1>2. n = [i \in 1..4 |-> n[i]]
  BY DEF Given
<1> HIDE DEF n
<1>3. n \in [1..4 -> Nat]
  BY <1>1, <1>2
<1>4. n \in Seq(Nat)
  BY <1>3, FunctionIsSeq
<1>5. n[1] \in Nat /\ n[2] \in Nat /\ n[3] \in Nat /\ n[4] \in Nat
  BY <1>1
<1>6. n[2] = Due(claim[2]) /\ n[4] = Due(claim[4])
  BY <1>1 DEF Due
<1>7. QED
  BY <1>4, <1>5, <1>6 DEF n

(***************************************************************************)
(* openHunk closes the open hunk and opens one with the counts of its      *)
(* header, with a warning where a number is of no use.                     *)
(***************************************************************************)
LEMMA OpenHunkIs ==
  ASSUME NEW q \in Parsers, Sound(q), ~q.closed, q.inFile, NEW claim \in Claims
  PROVE  LET r == OpenHunk(q, claim)
             c == CloseHunk(q) IN
         /\ c \in Parsers
         /\ r.inHunk = TRUE /\ r.hunk = [claim |-> Given(claim), lines |-> <<>>]
         /\ r.oldNo = Given(claim)[1] /\ r.oldRem = Given(claim)[2]
         /\ r.newNo = Given(claim)[3] /\ r.newRem = Given(claim)[4]
         /\ r.cur.flags = c.cur.flags \cup (IF \E i \in 1..4 : claim[i] = Huge THEN {"not a usable number"} ELSE {})
         /\ SameNames(c.cur, r.cur) /\ r.cur.hunks = c.cur.hunks
         /\ SameHeaders(c, r) /\ SameEnds(c, r) /\ SameFiles(c, r)
         /\ r.state = IF Owes(r) THEN "hunk" ELSE "header"
<1> DEFINE c == CloseHunk(q)
           n == Given(claim)
           x == Flag(c, "not a usable number")
           ok == IF \E i \in 1..4 : claim[i] = Huge THEN x ELSE c
           h == [claim |-> n, lines |-> <<>>]
           n1 == n[1]
           n2 == n[2]
           n3 == n[3]
           n4 == n[4]
           due == [ok EXCEPT !.inHunk = TRUE, !.hunk = h, !.oldNo = n1, !.oldRem = n2, !.newNo = n3, !.newRem = n4]
           s == IF Owes(due) THEN "hunk" ELSE "header"
           r == OpenHunk(q, claim)
<1>1. r = [due EXCEPT !.state = s]
  BY DEF OpenHunk, InFile, Given
<1>2. c \in Parsers /\ c.inFile /\ c.inHunk = FALSE
  <2>1. c \in Parsers /\ ~c.inHunk /\ c.inFile = q.inFile
    BY CloseHunkKeeps
  <2> HIDE DEF c
  <2>2. QED
    BY <2>1 DEF Parsers
<1> HIDE DEF c, r, n
<1>3. /\ ok \in Parsers
      /\ ok.cur.flags = c.cur.flags \cup (IF \E i \in 1..4 : claim[i] = Huge THEN {"not a usable number"} ELSE {})
      /\ SameNames(c.cur, ok.cur) /\ ok.cur.hunks = c.cur.hunks
      /\ SameHeaders(c, ok) /\ SameEnds(c, ok) /\ SameFiles(c, ok)
  <2>1. CASE ~\E i \in 1..4 : claim[i] = Huge
    <3>1. c.cur.flags \cup {} = c.cur.flags /\ ok = c
      BY <2>1
    <3>2. QED
      BY <1>2, <2>1, <3>1 DEF SameNames, SameHeaders, SameEnds, SameFiles
  <2>2. CASE \E i \in 1..4 : claim[i] = Huge
    <3>1. x.cur.flags = c.cur.flags \cup {"not a usable number"} /\ SameNames(c.cur, x.cur)
          /\ x.cur.hunks = c.cur.hunks /\ SameHeaders(c, x) /\ SameEnds(c, x) /\ SameFiles(c, x)
      BY <1>2, FlagIs
    <3>2. x \in Parsers
      <4> DEFINE g == [c.cur EXCEPT !.flags = @ \cup {"not a usable number"}]
      <4>1. c.cur \in ParsedFile
        BY <1>2 DEF Parsers
      <4>2. g \in ParsedFile
        BY <4>1 DEF ParsedFile, Warnings
      <4>3. x = [c EXCEPT !.cur = g]
        BY <1>2 DEF Flag, InFile, Parsers
      <4> HIDE DEF g, x
      <4>4. QED
        BY <1>2, <4>2, <4>3 DEF Parsers
    <3>3. ok = x
      BY <2>2
    <3> HIDE DEF x, ok
    <3>4. QED
      BY <2>2, <3>1, <3>2, <3>3
  <2>3. QED
    BY <2>1, <2>2
<1> HIDE DEF ok, h, n1, n2, n3, n4
<1>4. /\ due.inHunk = TRUE /\ due.hunk = h /\ due.oldNo = n1 /\ due.oldRem = n2 /\ due.newNo = n3 /\ due.newRem = n4
      /\ due.cur = ok.cur /\ SameHeaders(ok, due) /\ SameEnds(ok, due) /\ SameFiles(ok, due)
  BY <1>3 DEF Parsers, SameHeaders, SameEnds, SameFiles
<1>5. DOMAIN due = DOMAIN ok
  OBVIOUS
<1> HIDE DEF due, s
<1>6. /\ r.inHunk = due.inHunk /\ r.hunk = due.hunk /\ r.oldNo = due.oldNo /\ r.oldRem = due.oldRem
      /\ r.newNo = due.newNo /\ r.newRem = due.newRem
      /\ r.cur = due.cur /\ SameHeaders(due, r) /\ SameEnds(due, r) /\ SameFiles(due, r) /\ r.state = s
  BY <1>1, <1>3, <1>5 DEF Parsers, SameHeaders, SameEnds, SameFiles
<1>7. r.state = IF Owes(r) THEN "hunk" ELSE "header"
  BY <1>6 DEF s, Owes
<1>8. SameHeaders(c, r) /\ SameEnds(c, r) /\ SameFiles(c, r)
  BY <1>3, <1>4, <1>6 DEF SameHeaders, SameEnds, SameFiles
<1>9. /\ r.cur.flags = c.cur.flags \cup (IF \E i \in 1..4 : claim[i] = Huge THEN {"not a usable number"} ELSE {})
      /\ SameNames(c.cur, r.cur) /\ r.cur.hunks = c.cur.hunks
  BY <1>3, <1>4, <1>6
<1>10. /\ r.inHunk = TRUE /\ r.hunk = h /\ r.oldNo = n1 /\ r.oldRem = n2 /\ r.newNo = n3 /\ r.newRem = n4
  BY <1>4, <1>6
<1>11. QED
  BY <1>2, <1>7, <1>8, <1>9, <1>10 DEF r, c, h, n, n1, n2, n3, n4

-----------------------------------------------------------------------------
(* A hunk as it is read. *)

\* The first k lines of a hunk's body; its i-th line as the parser has it, with
\* or without the mark; the first k lines, the last one's mark read or not;
\* and the whole hunk.
Fore(h, k) == SubSeq(h.body, 1, k)
LineAt(h, i, noNL) ==
  [kind |-> h.body[i].kind, text |-> h.body[i].text, noNL |-> noNL,
   oldNo |-> IF h.body[i].kind = "add" THEN 0 ELSE Given(h.claim)[1] + Olds(Fore(h, i - 1)),
   newNo |-> IF h.body[i].kind = "del" THEN 0 ELSE Given(h.claim)[3] + News(Fore(h, i - 1))]
ReadLines(h, k, done) == [i \in 1..k |-> LineAt(h, i, h.body[i].noNL /\ (i = k => done))]
ReadHunk(h) == [claim |-> Given(h.claim), lines |-> ReadLines(h, Len(h.body), TRUE)]

(***************************************************************************)
(* Nothing of a body, and all of it, counted.                              *)
(***************************************************************************)
LEMMA FrontEdges ==
  ASSUME NEW h \in HunkChange
  PROVE  /\ Olds(Fore(h, 0)) = 0 /\ News(Fore(h, 0)) = 0
         /\ Olds(Fore(h, Len(h.body))) = Olds(h.body) /\ News(Fore(h, Len(h.body))) = News(h.body)
         /\ Olds(h.body) \in Nat /\ News(h.body) \in Nat /\ Len(h.body) \in Nat
<1>1. h.body \in Seq(BodyLine)
  BY DEF HunkChange
<1>2. Fore(h, 0) = <<>>
  BY <1>1, SubSeqProperties DEF Fore
<1>3. Fore(h, Len(h.body)) = h.body
  BY <1>1, SubSeqFull DEF Fore
<1>4. Len(<<>>) = 0
  OBVIOUS
<1>5. QED
  BY <1>1, <1>2, <1>3, <1>4, OnlyEmpty, OnlyType, LenProperties DEF Olds, News

(***************************************************************************)
(* What is counted of the front of a body are numbers.                     *)
(***************************************************************************)
LEMMA FrontCounts ==
  ASSUME NEW h \in HunkChange, NEW k \in 0..Len(h.body)
  PROVE  Olds(Fore(h, k)) \in Nat /\ News(Fore(h, k)) \in Nat
<1>1. h.body \in Seq(BodyLine) /\ Len(h.body) \in Nat
  BY LenProperties DEF HunkChange
<1>2. k \in Nat /\ \A i \in 1..k : h.body[i] \in BodyLine
  BY <1>1
<1>3. Fore(h, k) \in Seq(BodyLine)
  BY <1>1, <1>2, SubSeqProperties DEF Fore
<1>4. QED
  BY <1>3, OnlyType DEF Olds, News

(***************************************************************************)
(* One more line of it counts on the old side unless it is added, and on   *)
(* the new one unless it is deleted.                                       *)
(***************************************************************************)
LEMMA FrontStep ==
  ASSUME NEW h \in HunkChange, NEW k \in Nat, k + 1 <= Len(h.body)
  PROVE  /\ h.body[k + 1] \in BodyLine
         /\ Olds(Fore(h, k + 1)) = Olds(Fore(h, k)) + (IF h.body[k + 1].kind # "add" THEN 1 ELSE 0)
         /\ News(Fore(h, k + 1)) = News(Fore(h, k)) + (IF h.body[k + 1].kind # "del" THEN 1 ELSE 0)
<1> DEFINE s == Fore(h, k)
           x == h.body[k + 1]
<1>1. h.body \in Seq(BodyLine) /\ Len(h.body) \in Nat
  BY LenProperties DEF HunkChange
<1>2. s \in Seq(BodyLine) /\ x \in BodyLine /\ Fore(h, k + 1) = Append(s, x)
  BY <1>1, FrontGrows DEF Fore
<1>3. x.kind \in Kinds
  BY <1>2 DEF BodyLine
<1> HIDE DEF s, x
<1>4. x.kind # "add" <=> x.kind \in {"ctx", "del"}
  BY <1>3 DEF Kinds
<1>5. x.kind # "del" <=> x.kind \in {"ctx", "add"}
  BY <1>3 DEF Kinds
<1>6. \A K : /\ Only(Append(s, x), K) = IF x.kind \in K THEN Append(Only(s, K), x) ELSE Only(s, K)
             /\ Only(s, K) \in Seq(BodyLine) /\ Len(Only(s, K)) \in Nat
  BY <1>2, OnlyAppend, OnlyType
<1>7. \A K : Len(Append(Only(s, K), x)) = Len(Only(s, K)) + 1
  BY <1>2, <1>6, AppendProperties
<1>8. \A K : Len(Only(Append(s, x), K)) = Len(Only(s, K)) + (IF x.kind \in K THEN 1 ELSE 0)
  BY <1>6, <1>7
<1>9. Olds(Append(s, x)) = Olds(s) + (IF x.kind # "add" THEN 1 ELSE 0)
  BY <1>4, <1>8 DEF Olds
<1>10. News(Append(s, x)) = News(s) + (IF x.kind # "del" THEN 1 ELSE 0)
  BY <1>5, <1>8 DEF News
<1>11. QED
  BY <1>2, <1>9, <1>10 DEF s, x

(***************************************************************************)
(* A line of the change as the parser has it is a parsed line.             *)
(***************************************************************************)
LEMMA LineAtType ==
  ASSUME NEW h \in HunkChange, NEW i \in 1..Len(h.body), NEW noNL \in BOOLEAN
  PROVE  LineAt(h, i, noNL) \in ParsedLine
<1>1. h.body \in Seq(BodyLine) /\ Len(h.body) \in Nat /\ h.claim \in Claims
  BY LenProperties DEF HunkChange, Claims
<1>2. h.body[i] \in BodyLine
  BY <1>1
<1>3. h.body[i].kind \in Kinds /\ h.body[i].text \in Words
  BY <1>2 DEF BodyLine, Words
<1>4. i - 1 \in 0..Len(h.body)
  BY <1>1
<1>5. Given(h.claim)[1] \in Nat /\ Given(h.claim)[3] \in Nat
  BY <1>1, GivenIs
<1>6. Olds(Fore(h, i - 1)) \in Nat /\ News(Fore(h, i - 1)) \in Nat
  BY <1>4, FrontCounts
<1> DEFINE a == IF h.body[i].kind = "add" THEN 0 ELSE Given(h.claim)[1] + Olds(Fore(h, i - 1))
           b == IF h.body[i].kind = "del" THEN 0 ELSE Given(h.claim)[3] + News(Fore(h, i - 1))
<1>7. a \in Nat /\ b \in Nat
  BY <1>5, <1>6
<1>8. LineAt(h, i, noNL) = [kind |-> h.body[i].kind, text |-> h.body[i].text, noNL |-> noNL, oldNo |-> a, newNo |-> b]
  BY DEF LineAt
<1> HIDE DEF a, b
<1>9. QED
  BY <1>3, <1>7, <1>8 DEF ParsedLine

(***************************************************************************)
(* So are the lines read of a hunk, and there are as many of them as of    *)
(* the body.                                                               *)
(***************************************************************************)
LEMMA ReadLinesType ==
  ASSUME NEW h \in HunkChange, NEW k \in 0..Len(h.body), NEW done \in BOOLEAN
  PROVE  /\ ReadLines(h, k, done) \in Seq(ParsedLine) /\ Len(ReadLines(h, k, done)) = k
         /\ \A i \in 1..k : ReadLines(h, k, done)[i] = LineAt(h, i, h.body[i].noNL /\ (i = k => done))
<1>1. h.body \in Seq(BodyLine) /\ Len(h.body) \in Nat
  BY LenProperties DEF HunkChange
<1>2. ASSUME NEW i \in 1..k PROVE LineAt(h, i, h.body[i].noNL /\ (i = k => done)) \in ParsedLine
  <2>1. i \in 1..Len(h.body)
    BY <1>1
  <2> DEFINE m == h.body[i].noNL /\ (i = k => done)
  <2>2. m \in BOOLEAN
    OBVIOUS
  <2> HIDE DEF m
  <2>3. LineAt(h, i, m) \in ParsedLine
    BY <2>1, <2>2, LineAtType
  <2>4. QED
    BY <2>3 DEF m
<1> DEFINE f == [i \in 1..k |-> LineAt(h, i, h.body[i].noNL /\ (i = k => done))]
<1>3. f \in [1..k -> ParsedLine]
  BY <1>2
<1>4. k \in Nat
  BY <1>1
<1>5. f = ReadLines(h, k, done)
  BY DEF ReadLines
<1>6. \A i \in 1..k : f[i] = LineAt(h, i, h.body[i].noNL /\ (i = k => done))
  OBVIOUS
<1> HIDE DEF f
<1>7. f \in Seq(ParsedLine) /\ Len(f) = k
  BY <1>3, <1>4, FunctionIsSeq
<1>8. QED
  BY <1>5, <1>6, <1>7

(***************************************************************************)
(* None before the first.                                                  *)
(***************************************************************************)
LEMMA ReadLinesEmpty == ASSUME NEW h \in HunkChange PROVE ReadLines(h, 0, TRUE) = <<>>
<1>1. Len(h.body) \in Nat
  BY FrontEdges
<1>2. 0 \in 0..Len(h.body)
  BY <1>1
<1>3. ReadLines(h, 0, TRUE) \in Seq(ParsedLine) /\ Len(ReadLines(h, 0, TRUE)) = 0
  BY <1>2, ReadLinesType
<1>4. QED
  BY <1>3, EmptySeq

(***************************************************************************)
(* One more line read.                                                     *)
(***************************************************************************)
LEMMA ReadLinesStep ==
  ASSUME NEW h \in HunkChange, NEW k \in Nat, k + 1 <= Len(h.body)
  PROVE  ReadLines(h, k + 1, ~h.body[k + 1].noNL) = Append(ReadLines(h, k, TRUE), LineAt(h, k + 1, FALSE))
<1> DEFINE n == k + 1
           done == ~h.body[n].noNL
           s == ReadLines(h, k, TRUE)
           x == LineAt(h, n, FALSE)
           t == ReadLines(h, n, done)
           u == Append(s, x)
<1>1. Len(h.body) \in Nat
  BY FrontEdges
<1>2. n \in 0..Len(h.body) /\ n \in 1..Len(h.body) /\ k \in 0..Len(h.body) /\ n \in Nat
  BY <1>1
<1>3. s \in Seq(ParsedLine) /\ Len(s) = k /\ \A i \in 1..k : s[i] = LineAt(h, i, h.body[i].noNL /\ (i = k => TRUE))
  BY <1>2, ReadLinesType
<1>4. done \in BOOLEAN
  OBVIOUS
<1> HIDE DEF done, n
<1>5. t \in Seq(ParsedLine) /\ Len(t) = n /\ \A i \in 1..n : t[i] = LineAt(h, i, h.body[i].noNL /\ (i = n => done))
  BY <1>2, <1>4, ReadLinesType
<1>6. x \in ParsedLine
  BY <1>2, LineAtType
<1> HIDE DEF s, x, t
<1>7. u \in Seq(ParsedLine) /\ Len(u) = k + 1 /\ (\A i \in 1..k : u[i] = s[i]) /\ u[k + 1] = x
  BY <1>3, <1>6, AppendProperties
<1>8. ASSUME NEW i \in 1..n PROVE t[i] = u[i]
  <2>1. CASE i = n
    <3>1. t[n] = LineAt(h, n, h.body[n].noNL /\ (n = n => done))
      BY <1>5, <2>1
    <3>2. (h.body[n].noNL /\ (n = n => done)) = FALSE
      BY DEF done
    <3>3. u[n] = x
      BY <1>7 DEF n
    <3>4. QED
      BY <2>1, <3>1, <3>2, <3>3 DEF x
  <2>2. CASE i # n
    <3>1. i \in 1..k
      BY <1>2, <2>2 DEF n
    <3>2. s[i] = LineAt(h, i, h.body[i].noNL /\ (i = k => TRUE))
      BY <1>3, <3>1
    <3>3. t[i] = LineAt(h, i, h.body[i].noNL /\ (i = n => done))
      BY <1>5
    <3>4. (h.body[i].noNL /\ (i = k => TRUE)) = (h.body[i].noNL /\ (i = n => done))
      BY <2>2
    <3>5. QED
      BY <1>7, <3>1, <3>2, <3>3, <3>4
  <2>3. QED
    BY <2>1, <2>2
<1>9. Len(t) = Len(u)
  BY <1>5, <1>7 DEF n
<1> HIDE DEF u
<1>10. t = u
  BY <1>5, <1>7, <1>8, <1>9, SeqEqual
<1>11. QED
  BY <1>10 DEF t, u, s, x, done, n

(***************************************************************************)
(* Its marker read.                                                        *)
(***************************************************************************)
LEMMA ReadLinesMark ==
  ASSUME NEW h \in HunkChange, NEW k \in 1..Len(h.body), h.body[k].noNL
  PROVE  [ReadLines(h, k, FALSE) EXCEPT ![k] = [@ EXCEPT !.noNL = TRUE]] = ReadLines(h, k, TRUE)
<1> DEFINE s == ReadLines(h, k, FALSE)
           t == ReadLines(h, k, TRUE)
           u == [s EXCEPT ![k] = [@ EXCEPT !.noNL = TRUE]]
<1>1. Len(h.body) \in Nat
  BY FrontEdges
<1>2. k \in 0..Len(h.body) /\ k \in Nat /\ k \in 1..k
  BY <1>1
<1>3. s \in Seq(ParsedLine) /\ Len(s) = k /\ \A i \in 1..k : s[i] = LineAt(h, i, h.body[i].noNL /\ (i = k => FALSE))
  BY <1>2, ReadLinesType
<1>4. t \in Seq(ParsedLine) /\ Len(t) = k /\ \A i \in 1..k : t[i] = LineAt(h, i, h.body[i].noNL /\ (i = k => TRUE))
  BY <1>2, ReadLinesType
<1>5. DOMAIN s = 1..k /\ DOMAIN t = 1..k
  BY <1>3, <1>4, LenProperties
<1>6. s = [i \in 1..k |-> s[i]] /\ t = [i \in 1..k |-> t[i]]
  BY <1>3, <1>4, <1>5, LenProperties
<1> HIDE DEF s, t
<1>7. ASSUME NEW i \in 1..k PROVE t[i] = IF i = k THEN [s[k] EXCEPT !.noNL = TRUE] ELSE s[i]
  <2>1. CASE i = k
    <3>1. t[k] = LineAt(h, k, h.body[k].noNL /\ (k = k => TRUE)) /\ s[k] = LineAt(h, k, h.body[k].noNL /\ (k = k => FALSE))
      BY <1>2, <1>3, <1>4
    <3>2. (h.body[k].noNL /\ (k = k => TRUE)) = TRUE /\ (h.body[k].noNL /\ (k = k => FALSE)) = FALSE
      OBVIOUS
    <3>3. t[k] = LineAt(h, k, TRUE) /\ s[k] = LineAt(h, k, FALSE)
      BY <3>1, <3>2
    <3>4. [LineAt(h, k, FALSE) EXCEPT !.noNL = TRUE] = LineAt(h, k, TRUE)
      <4> DEFINE x == h.body[k].kind
                 y == h.body[k].text
                 m == IF h.body[k].kind = "add" THEN 0 ELSE Given(h.claim)[1] + Olds(Fore(h, k - 1))
                 n == IF h.body[k].kind = "del" THEN 0 ELSE Given(h.claim)[3] + News(Fore(h, k - 1))
                 mk(z) == [kind |-> x, text |-> y, noNL |-> z, oldNo |-> m, newNo |-> n]
      <4>1. LineAt(h, k, FALSE) = mk(FALSE) /\ LineAt(h, k, TRUE) = mk(TRUE)
        BY DEF LineAt
      <4> HIDE DEF x, y, m, n
      <4>2. \A v, w : [mk(v) EXCEPT !.noNL = w] = mk(w)
        OBVIOUS
      <4> HIDE DEF mk
      <4>3. [mk(FALSE) EXCEPT !.noNL = TRUE] = mk(TRUE)
        BY <4>2
      <4>4. QED
        BY ONLY <4>1, <4>3
    <3>5. QED
      BY <2>1, <3>3, <3>4
  <2>2. CASE i # k
    <3>1. (h.body[i].noNL /\ (i = k => FALSE)) = (h.body[i].noNL /\ (i = k => TRUE))
      BY <2>2
    <3>2. t[i] = LineAt(h, i, h.body[i].noNL /\ (i = k => TRUE)) /\ s[i] = LineAt(h, i, h.body[i].noNL /\ (i = k => FALSE))
      BY <1>3, <1>4
    <3>3. QED
      BY <2>2, <3>1, <3>2
  <2>3. QED
    BY <2>1, <2>2
<1>8. u = [i \in 1..k |-> IF i = k THEN [s[k] EXCEPT !.noNL = TRUE] ELSE s[i]]
  BY <1>5
<1>9. u = t
  BY <1>6, <1>7, <1>8
<1>10. QED
  BY <1>9 DEF s, t

\* A hunk whose first k lines already show that its header is wrong, and one
\* that the parser must warn of when it is whole.
Wrong(h, k) == Huge \in {h.claim[2], h.claim[4]} \/ \E i \in 0..(k - 1) : UsedUp(h, i)
BadHunk(h)  == Wrong(h, Len(h.body)) \/ Due(h.claim[2]) > Olds(h.body) \/ Due(h.claim[4]) > News(h.body)

(***************************************************************************)
(* The counts of a header are used up where that many old and new lines    *)
(* have come.                                                              *)
(***************************************************************************)
LEMMA UsedUpIs ==
  ASSUME NEW h, NEW k
  PROVE  UsedUp(h, k) <=> Olds(Fore(h, k)) >= Due(h.claim[2]) /\ News(Fore(h, k)) >= Due(h.claim[4])
  BY DEF UsedUp, Fore, Due

(***************************************************************************)
(* A front that is not all of the body counts less than the body.          *)
(***************************************************************************)
LEMMA FrontMore ==
  ASSUME NEW h \in HunkChange, NEW k \in 0..(Len(h.body) - 1)
  PROVE  Olds(Fore(h, k)) + News(Fore(h, k)) < Olds(h.body) + News(h.body)
<1> DEFINE N == Len(h.body)
           M(i) == Olds(Fore(h, i)) + News(Fore(h, i))
           T == {m \in Nat : k + m + 1 <= N => M(k) < M(k + m + 1)}
<1>1. N \in Nat /\ k \in Nat
  BY FrontEdges
<1>2. ASSUME NEW i \in Nat, i + 1 <= N PROVE M(i) < M(i + 1) /\ M(i) \in Nat /\ M(i + 1) \in Nat
  <2>1. i \in 0..N /\ i + 1 \in 0..N
    BY <1>1, <1>2
  <2> DEFINE x == h.body[i + 1]
             a == Olds(Fore(h, i))
             b == News(Fore(h, i))
             d == Olds(Fore(h, i + 1))
             e == News(Fore(h, i + 1))
  <2>2. a \in Nat /\ b \in Nat /\ d \in Nat /\ e \in Nat
    BY <2>1, FrontCounts
  <2>3. d = a + (IF x.kind # "add" THEN 1 ELSE 0) /\ e = b + (IF x.kind # "del" THEN 1 ELSE 0)
    BY <1>2, FrontStep
  <2> HIDE DEF a, b, d, e
  <2>4. a + b < d + e /\ a + b \in Nat /\ d + e \in Nat
    <3>1. CASE x.kind = "add"
      <4>1. x.kind # "del"
        BY <3>1
      <4>2. d = a + 0 /\ e = b + 1
        BY <2>3, <3>1, <4>1
      <4>3. QED
        BY <2>2, <4>2
    <3>2. CASE x.kind # "add"
      <4>1. d = a + 1 /\ e >= b
        BY <2>2, <2>3, <3>2
      <4>2. QED
        BY <2>2, <4>1
    <3>3. QED
      BY <3>1, <3>2
  <2>5. QED
    BY <2>4 DEF a, b, d, e
<1> HIDE DEF M, N
<1>3. 0 \in T
  BY <1>1, <1>2
<1>4. ASSUME NEW m \in Nat, m \in T PROVE m + 1 \in T
  <2>1. SUFFICES ASSUME k + (m + 1) + 1 <= N PROVE M(k) < M(k + (m + 1) + 1)
    OBVIOUS
  <2> DEFINE i == k + m + 1
  <2>2. i \in Nat /\ i + 1 <= N /\ i <= N /\ i + 1 = k + (m + 1) + 1 /\ k + 1 <= N
    BY <1>1, <2>1
  <2>3. M(k) < M(i)
    BY <1>4, <2>2
  <2> HIDE DEF i
  <2>4. M(i) < M(i + 1) /\ M(i) \in Nat /\ M(i + 1) \in Nat
    BY <1>2, <2>2
  <2>5. M(k) \in Nat
    BY <1>1, <1>2, <2>2
  <2>6. M(k) < M(i + 1)
    BY <2>3, <2>4, <2>5
  <2>7. QED
    BY <2>2, <2>6
<1> HIDE DEF T
<1>5. \A m \in Nat : m \in T
  BY <1>3, <1>4, NatSets
<1>6. N - (k + 1) \in Nat /\ k + (N - (k + 1)) + 1 = N
  BY <1>1 DEF N
<1>7. M(k) < M(N)
  <2> DEFINE m == N - (k + 1)
  <2>1. m \in T /\ k + m + 1 = N
    BY <1>5, <1>6
  <2> HIDE DEF m
  <2>2. k + m + 1 <= N
    BY <1>1, <2>1
  <2>3. QED
    BY <2>1, <2>2 DEF T
<1>8. QED
  BY <1>7, FrontEdges DEF M, N

(***************************************************************************)
(* The numbers of an honest header are taken as they are, count its        *)
(* lines, and are not used up before the last one.                         *)
(***************************************************************************)
LEMMA HonestIs ==
  ASSUME NEW h \in HunkChange, Honest(h)
  PROVE  /\ Given(h.claim) = h.claim /\ Due(h.claim[2]) = Olds(h.body) /\ Due(h.claim[4]) = News(h.body)
         /\ \A i \in 1..4 : h.claim[i] # Huge
         /\ \A k \in 0..(Len(h.body) - 1) : ~UsedUp(h, k)
         /\ ~BadHunk(h)
<1>1. h.claim \in [1..4 -> Nat \cup {Huge}]
  BY DEF HunkChange
<1>2. h.claim[2] = Olds(h.body) /\ h.claim[4] = News(h.body) /\ h.claim[1] # Huge /\ h.claim[3] # Huge
  BY DEF Honest
<1>3. Olds(h.body) \in Nat /\ News(h.body) \in Nat /\ Len(h.body) \in Nat
  BY FrontEdges
<1>4. \A i \in 1..4 : h.claim[i] # Huge
  <2>1. h.claim[2] # Huge /\ h.claim[4] # Huge
    BY <1>2, <1>3, HugeAssumption
  <2>2. QED
    BY <1>2, <2>1
<1>5. Given(h.claim) = h.claim
  <2>1. h.claim = [i \in 1..4 |-> h.claim[i]]
    BY <1>1
  <2>2. Given(h.claim) = [i \in 1..4 |-> h.claim[i]]
    BY <1>4 DEF Given
  <2>3. QED
    BY <2>1, <2>2
<1>6. Due(h.claim[2]) = Olds(h.body) /\ Due(h.claim[4]) = News(h.body)
  BY <1>2, <1>4 DEF Due
<1>7. ASSUME NEW k \in 0..(Len(h.body) - 1), UsedUp(h, k) PROVE FALSE
  <2>1. Olds(Fore(h, k)) >= Olds(h.body) /\ News(Fore(h, k)) >= News(h.body)
    BY <1>6, <1>7, UsedUpIs
  <2>2. k \in 0..Len(h.body)
    BY <1>3
  <2>3. Olds(Fore(h, k)) \in Nat /\ News(Fore(h, k)) \in Nat
    BY <2>2, FrontCounts
  <2>4. Olds(Fore(h, k)) + News(Fore(h, k)) < Olds(h.body) + News(h.body)
    BY FrontMore
  <2>5. QED
    BY <1>3, <2>1, <2>3, <2>4
<1>8. ~BadHunk(h)
  <2>1. ~Wrong(h, Len(h.body))
    BY <1>4, <1>7 DEF Wrong
  <2>2. QED
    BY <1>3, <1>6, <2>1 DEF BadHunk
<1>9. QED
  BY <1>4, <1>5, <1>6, <1>7, <1>8

(***************************************************************************)
(* A hunk shorter or longer than its header says is bad.                   *)
(***************************************************************************)
LEMMA BadIs ==
  ASSUME NEW h \in HunkChange, Short(h) \/ Over(h)
  PROVE  BadHunk(h)
<1>1. CASE Over(h)
  BY <1>1 DEF Over, BadHunk, Wrong
<1>2. CASE Short(h) /\ Huge \in {h.claim[2], h.claim[4]}
  BY <1>2 DEF BadHunk, Wrong
<1>3. CASE Short(h) /\ Huge \notin {h.claim[2], h.claim[4]}
  <2>1. Due(h.claim[2]) = h.claim[2] /\ Due(h.claim[4]) = h.claim[4]
    BY <1>3 DEF Due
  <2>2. QED
    BY <1>3, <2>1 DEF Short, BadHunk
<1>4. QED
  BY <1>1, <1>2, <1>3

(***************************************************************************)
(* How git writes a line of a body: its first byte tells the kind, with    *)
(* or without its trailing spaces.                                         *)
(***************************************************************************)
LEMMA WrittenFields ==
  ASSUME NEW l \in BodyLine, NEW strip \in BOOLEAN
  PROVE  LET w == Written(l, strip) IN
         /\ w.byte \in {" ", "+", "-", ""} /\ BodyKind(w.byte) = l.kind /\ w.text = l.text
         /\ w.head \in {"body", "", "--- ", "+++ "} /\ (w.byte = "" <=> w.head = "") /\ IsBody(w)
<1>1. l.kind \in Kinds /\ l.text \in Texts
  BY DEF BodyLine
<1> DEFINE w == Written(l, strip)
<1>2. CASE l.kind = "ctx" /\ l.text = "" /\ strip
  BY <1>2 DEF Written, L, BodyKind, IsBody, Texts
<1>3. CASE ~(l.kind = "ctx" /\ l.text = "" /\ strip)
  <2> DEFINE byte == CASE l.kind = "ctx" -> " " [] l.kind = "add" -> "+" [] OTHER -> "-"
             head == CASE l.kind = "del" /\ l.text = "-- x" -> "--- "
                       [] l.kind = "add" /\ l.text = "++ x" -> "+++ "
                       [] OTHER -> "body"
  <2>1. w = L(head, byte, l.text)
    BY <1>3 DEF Written
  <2>2. byte \in {" ", "+", "-"} /\ BodyKind(byte) = l.kind
    BY <1>1 DEF Kinds, BodyKind
  <2>3. head \in {"body", "--- ", "+++ "}
    OBVIOUS
  <2> HIDE DEF w, byte, head
  <2>4. w.head = head /\ w.byte = byte /\ w.text = l.text
    BY <2>1 DEF L
  <2>5. IsBody(w)
    BY <1>1, <2>2, <2>3, <2>4 DEF IsBody
  <2>6. QED
    BY <2>2, <2>3, <2>4, <2>5 DEF w
<1>4. QED
  BY <1>2, <1>3

(***************************************************************************)
(* A line past the counts of a hunk that is not mistakable looks like a    *)
(* line of a body.                                                         *)
(***************************************************************************)
LEMMA PlainLine ==
  ASSUME NEW h \in HunkChange, ~Mistakable(h), NEW k \in 0..(Len(h.body) - 1), UsedUp(h, k), NEW strip \in BOOLEAN
  PROVE  Written(h.body[k + 1], strip).head = "body" /\ Written(h.body[k + 1], strip).byte \in {" ", "+", "-"}
<1> DEFINE l == h.body[k + 1]
<1>1. Written(l, TRUE).head \notin {"--- ", "+++ ", ""}
  BY DEF Mistakable
<1>2. h.body \in Seq(BodyLine) /\ Len(h.body) \in Nat
  BY LenProperties DEF HunkChange
<1>3. k + 1 \in 1..Len(h.body)
  BY <1>2
<1>4. l \in BodyLine
  BY <1>2, <1>3
<1> HIDE DEF l
<1>5. Written(l, TRUE).head = "body"
  <2>1. TRUE \in BOOLEAN
    OBVIOUS
  <2>2. Written(l, TRUE).head \in {"body", "", "--- ", "+++ "}
    BY <1>4, <2>1, WrittenFields
  <2>3. QED
    BY <1>1, <2>2
<1>6. Written(l, strip).head = "body"
  BY <1>5 DEF Written, L
<1>7. Written(l, strip).byte \in {" ", "+", "-", ""} /\ (Written(l, strip).byte = "" <=> Written(l, strip).head = "")
  BY <1>4, WrittenFields
<1>8. QED
  BY <1>6, <1>7 DEF l

-----------------------------------------------------------------------------
(* A file as it is read. *)

\* What the parser has made of the headers of the file d, these having been
\* read, its old name and its new one.
StatusNames == {"new file mode", "deleted file mode", "renamed from", "renamed to", "copied from", "copied to"}
Among(seen, names) == \E n \in names : n \in seen
Heard(d, q, seen, old, new) ==
  /\ q.hdrOld = d.old /\ q.hdrNew = d.new
  /\ q.sawOldHeader <=> old
  /\ q.sawOldNull <=> old /\ d.status = "added"
  /\ q.sawNewNull <=> new /\ d.status = "deleted"
  /\ q.sawModeLine <=> Among(seen, {"old mode", "new mode"})
  /\ q.cur.binary <=> Among(seen, {"binary differ", "git binary"})
  /\ q.cur.status = IF Among(seen, StatusNames) THEN d.status ELSE ""
  /\ Moded(d) => /\ q.cur.oldMode = IF "old mode" \in seen THEN d.oldMode ELSE ""
                 /\ q.cur.newMode = IF "new mode" \in seen THEN d.newMode ELSE ""
  /\ q.cur.old \in {"", d.old} /\ (d.status = "added" => q.cur.old = "")
  /\ q.cur.new \in {"", d.new}

\* The parsed file x is named as the file d, and says what happened to it.
Names(x, d) ==
  /\ Path(x) = d.new
  /\ d.status \in {"renamed", "copied"} => x.old = d.old
  /\ d.status = "added" /\ d.hunks # <<>> => x.old = ""
  /\ x.status = IF d.status = "modified" /\ d.hunks = <<>> /\ d.binary = "no" THEN "mode" ELSE d.status
  /\ x.binary <=> d.binary # "no"
  /\ d.oldMode # d.newMode => x.oldMode = d.oldMode /\ x.newMode = d.newMode

\* The parsed file f has the first n hunks of d, with a warning where one is
\* bad and with none where all are honest; f is what is made of d.
Hunks(d, f, n) ==
  /\ Len(f.hunks) = n
  /\ \A j \in 1..n : f.hunks[j] = ReadHunk(d.hunks[j]) /\ (BadHunk(d.hunks[j]) => f.flags # {})
Fair(d, f, n) == (\A j \in 1..n : Honest(d.hunks[j])) => f.flags = {}
ReadFile(d, x) == Names(x, d) /\ Hunks(d, x, Len(d.hunks)) /\ Fair(d, x, Len(d.hunks))

(***************************************************************************)
(* What all headers of a file together say of it.                          *)
(***************************************************************************)
LEMMA AllSays ==
  ASSUME NEW d \in FileChange, d.status # "combined"
  PROVE  /\ Among(AllNames(d), {"old mode", "new mode"}) <=> Moded(d)
         /\ Among(AllNames(d), {"binary differ", "git binary"}) <=> d.binary # "no"
         /\ Among(AllNames(d), StatusNames) <=> d.status # "modified"
         /\ Moded(d) => "old mode" \in AllNames(d) /\ "new mode" \in AllNames(d)
<1>1. d.status \in {"added", "deleted", "modified", "renamed", "copied"} /\ d.binary \in {"no", "differ", "payload"}
  BY DEF FileChange
<1>2. \A n \in Heads : n \in AllNames(d) <=> Needs(d, n)
  BY DEF AllNames
<1>3. /\ "old mode" \in Heads /\ "new mode" \in Heads /\ "binary differ" \in Heads /\ "git binary" \in Heads
      /\ "new file mode" \in Heads /\ "deleted file mode" \in Heads /\ "renamed from" \in Heads
      /\ "renamed to" \in Heads /\ "copied from" \in Heads /\ "copied to" \in Heads
  BY DEF Heads
<1>4. ("old mode" \in AllNames(d) <=> Moded(d)) /\ ("new mode" \in AllNames(d) <=> Moded(d))
  BY <1>2, <1>3 DEF Needs
<1>5. ("binary differ" \in AllNames(d) <=> d.binary = "differ") /\ ("git binary" \in AllNames(d) <=> d.binary = "payload")
  BY <1>2, <1>3 DEF Needs
<1>6. /\ "new file mode" \in AllNames(d) <=> d.status = "added"
      /\ "deleted file mode" \in AllNames(d) <=> d.status = "deleted"
      /\ "renamed from" \in AllNames(d) <=> d.status = "renamed"
      /\ "renamed to" \in AllNames(d) <=> d.status = "renamed"
      /\ "copied from" \in AllNames(d) <=> d.status = "copied"
      /\ "copied to" \in AllNames(d) <=> d.status = "copied"
  BY <1>2, <1>3 DEF Needs
<1>7. QED
  BY <1>1, <1>4, <1>5, <1>6 DEF Among, StatusNames

(***************************************************************************)
(* A file whose headers and hunks have all been read is named as it was    *)
(* changed, by what git reports of it (Named and Sealed, for nameFile      *)
(* and closeFile).                                                         *)
(***************************************************************************)
LEMMA NamedIs ==
  ASSUME NEW q \in Parsers, NEW d \in FileChange, d.status # "combined", Reported(d), NEW both \in BOOLEAN,
         both <=> d.hunks # <<>>, Heard(d, q, AllNames(d), both, both), q.cur.hunks = <<>> <=> d.hunks = <<>>
  PROVE  LET x == Sealed(Named(q), q) IN
         Names(x, d) /\ x.hunks = q.cur.hunks /\ x.flags = q.cur.flags
<1> DEFINE f == q.cur
           old == IF f.old = "" /\ ~q.sawOldNull THEN q.hdrOld ELSE f.old
           new == IF f.new = "" /\ ~q.sawNewNull THEN q.hdrNew ELSE f.new
           g == Named(q)
           x == Sealed(g, q)
<1>1. f \in ParsedFile
  BY DEF Parsers
<1>2. /\ d.old \in {"a", "b"} /\ d.new \in {"a", "b"}
      /\ d.status \in {"added", "deleted", "modified", "renamed", "copied"} /\ d.binary \in {"no", "differ", "payload"}
  BY DEF FileChange, FileNames
<1>3. old = IF d.status = "added" /\ both THEN "" ELSE d.old
  BY <1>2 DEF Heard
<1>4. new = d.new \/ (d.status = "deleted" /\ both /\ new = "")
  BY <1>2 DEF Heard
<1>5. ~(old = "" /\ new = "")
  BY <1>2, <1>3, <1>4
<1>6. g = [f EXCEPT !.old = old, !.new = new]
  BY <1>5 DEF Named
<1> HIDE DEF g, x, old, new
<1>7. g.old = old /\ g.new = new /\ g.status = f.status /\ g.oldMode = f.oldMode /\ g.newMode = f.newMode
      /\ g.binary = f.binary /\ g.hunks = f.hunks /\ g.flags = f.flags /\ g \in [old : {g.old}, new : {g.new}, status : {g.status}, oldMode : {g.oldMode}, newMode : {g.newMode}, binary : {g.binary}, hunks : {g.hunks}, adds : {g.adds}, dels : {g.dels}, flags : {g.flags}]
  BY <1>1, <1>6 DEF ParsedFile
<1> DEFINE s == IF q.sawModeLine /\ f.hunks = <<>> /\ ~f.binary THEN "mode" ELSE "modified"
<1>8. x = IF f.status # "" THEN g ELSE [g EXCEPT !.status = s]
  BY <1>7 DEF Sealed, x
<1> HIDE DEF s
<1>9. /\ x.old = old /\ x.new = new /\ x.oldMode = f.oldMode /\ x.newMode = f.newMode
      /\ x.binary = f.binary /\ x.hunks = f.hunks /\ x.flags = f.flags
      /\ x.status = IF f.status # "" THEN f.status ELSE s
  BY <1>7, <1>8
<1>10. f.status = IF d.status # "modified" THEN d.status ELSE ""
  BY AllSays DEF Heard
<1>11. f.binary <=> d.binary # "no"
  BY AllSays DEF Heard
<1>12. q.sawModeLine <=> Moded(d)
  BY AllSays DEF Heard
<1>13. x.status = IF d.status = "modified" /\ d.hunks = <<>> /\ d.binary = "no" THEN "mode" ELSE d.status
  <2>1. CASE d.status # "modified"
    BY <1>2, <1>9, <1>10, <2>1
  <2>2. CASE d.status = "modified" /\ d.hunks = <<>> /\ d.binary = "no"
    <3>1. d.oldMode # d.newMode
      BY <2>2 DEF Reported
    <3>2. Moded(d)
      BY <2>2, <3>1 DEF Moded
    <3>3. s = "mode"
      BY <1>11, <1>12, <2>2, <3>2 DEF s
    <3>4. QED
      BY <1>9, <1>10, <2>2, <3>3
  <2>3. CASE d.status = "modified" /\ ~(d.hunks = <<>> /\ d.binary = "no")
    <3>1. s = "modified"
      BY <1>11, <2>3 DEF s
    <3>2. QED
      BY <1>9, <1>10, <2>3, <3>1
  <2>4. QED
    BY <2>1, <2>2, <2>3
<1>14. Path(x) = d.new
  <2>1. CASE new = d.new
    BY <1>2, <1>9, <2>1 DEF Path
  <2>2. CASE d.status = "deleted" /\ new = ""
    <3>1. old = d.old /\ d.old = d.new
      BY <1>3, <2>2 DEF Reported
    <3>2. QED
      BY <1>9, <2>2, <3>1 DEF Path
  <2>3. QED
    BY <1>4, <2>1, <2>2
<1>15. d.oldMode # d.newMode => x.oldMode = d.oldMode /\ x.newMode = d.newMode
  <2>1. SUFFICES ASSUME d.oldMode # d.newMode PROVE x.oldMode = d.oldMode /\ x.newMode = d.newMode
    OBVIOUS
  <2>2. Moded(d)
    BY <2>1 DEF Moded, Reported
  <2>3. f.oldMode = d.oldMode /\ f.newMode = d.newMode
    BY <2>2, AllSays DEF Heard
  <2>4. QED
    BY <1>9, <2>3
<1>16. (d.status \in {"renamed", "copied"} => x.old = d.old) /\ (d.status = "added" /\ d.hunks # <<>> => x.old = "")
  BY <1>3, <1>9
<1>17. Names(x, d)
  BY <1>9, <1>11, <1>13, <1>14, <1>15, <1>16 DEF Names
<1>18. QED
  BY <1>9, <1>17 DEF x, g

-----------------------------------------------------------------------------
(* The parser stands at a place of the change. *)

\* The open hunk of the parser is the hunk h, of which k lines have been read.
Reading(h, q, k, done) ==
  /\ q.hunk.claim = Given(h.claim) /\ q.hunk.lines = ReadLines(h, k, done)
  /\ q.oldRem = Due(h.claim[2]) - Olds(Fore(h, k)) /\ q.newRem = Due(h.claim[4]) - News(Fore(h, k))
  /\ q.oldNo = Given(h.claim)[1] + Olds(Fore(h, k)) /\ q.newNo = Given(h.claim)[3] + News(Fore(h, k))
  /\ Wrong(h, k) => q.cur.flags # {}

\* The parser stands at the place a of the change c: it has read the files and
\* hunks before that and what of the current ones comes before.
Seen(d, a) == IF a.at = "head" THEN a.seen ELSE AllNames(d)
Whole(a)   == IF Opened(a) THEN a.h - 1 ELSE 0
Begun(a)   == IF Opened(a) THEN a.h ELSE 0
Behind(a)  == IF a.at = "start" THEN 0 ELSE a.f - 1
DoneWith(c, fs, n) == Len(fs) = n /\ \A i \in 1..n : ReadFile(c[i], fs[i])
Amid(d, q, a) ==
  /\ Heard(d, q, Seen(d, a), a.at # "head", a.at = "hunk")
  /\ Hunks(d, q.cur, Whole(a)) /\ Fair(d, q.cur, Begun(a))
  /\ Opened(a) => Reading(d.hunks[a.h], q, a.k, a.done)
StandsAt(c, q, a) ==
  /\ InPlace(c, a) /\ a.at # "cc" /\ ~q.err
  /\ q.inFile <=> a.at # "start"
  /\ q.inHunk <=> Opened(a)
  /\ DoneWith(c, q.files, Behind(a))
  /\ a.at # "start" => Amid(c[a.f], q, a)

\* What a parser must be for a line to be read.
Ready(q) == q \in Parsers /\ Sound(q) /\ ~q.closed

(***************************************************************************)
(* Where a parser stands depends on its files, its headers, its open       *)
(* hunk and its warnings alone.                                            *)
(***************************************************************************)
LEMMA StandsSame ==
  ASSUME NEW c, NEW q, NEW a, StandsAt(c, q, a), NEW r,
         SameHeaders(q, r), SameHunk(q, r), SameFiles(q, r), r.err = q.err, SameNames(q.cur, r.cur),
         r.cur.hunks = q.cur.hunks, r.cur.flags = q.cur.flags
  PROVE  StandsAt(c, r, a)
<1>1. a.at # "start" => Amid(c[a.f], r, a)
  <2>1. SUFFICES ASSUME a.at # "start" PROVE Amid(c[a.f], r, a)
    OBVIOUS
  <2> DEFINE d == c[a.f]
  <2>2. Amid(d, q, a)
    BY <2>1 DEF StandsAt
  <2> HIDE DEF d
  <2>3. Heard(d, r, Seen(d, a), a.at # "head", a.at = "hunk")
    BY <2>2 DEF Amid, Heard, SameHeaders, SameNames
  <2>4. Hunks(d, r.cur, Whole(a)) /\ Fair(d, r.cur, Begun(a))
    BY <2>2 DEF Amid, Hunks, Fair
  <2>5. Opened(a) => Reading(d.hunks[a.h], r, a.k, a.done)
    BY <2>2 DEF Amid, Reading, SameHunk
  <2>6. QED
    BY <2>3, <2>4, <2>5 DEF Amid, d
<1>2. QED
  BY <1>1 DEF StandsAt, SameHunk, SameFiles

(***************************************************************************)
(* The counts that are left say whether the header's are used up.          *)
(***************************************************************************)
LEMMA OwesIs ==
  ASSUME NEW h \in HunkChange, NEW k \in 0..Len(h.body), NEW q, NEW done, Reading(h, q, k, done)
  PROVE  Owes(q) <=> ~UsedUp(h, k)
<1>1. Olds(Fore(h, k)) \in Nat /\ News(Fore(h, k)) \in Nat
  BY FrontCounts
<1>2. h.claim \in Claims
  BY DEF HunkChange, Claims
<1>3. Due(h.claim[2]) \in Nat /\ Due(h.claim[4]) \in Nat
  BY <1>2, GivenIs
<1>4. q.oldRem > 0 <=> ~(Olds(Fore(h, k)) >= Due(h.claim[2]))
  BY <1>1, <1>3 DEF Reading
<1>5. q.newRem > 0 <=> ~(News(Fore(h, k)) >= Due(h.claim[4]))
  BY <1>1, <1>3 DEF Reading
<1>6. QED
  BY <1>4, <1>5, UsedUpIs DEF Owes

(***************************************************************************)
(* A whole hunk that still owes lines is bad.                              *)
(***************************************************************************)
LEMMA OwesBad ==
  ASSUME NEW h \in HunkChange, NEW q, Reading(h, q, Len(h.body), TRUE)
  PROVE  Owes(q) <=> Due(h.claim[2]) > Olds(h.body) \/ Due(h.claim[4]) > News(h.body)
<1>1. /\ Olds(Fore(h, Len(h.body))) = Olds(h.body) /\ News(Fore(h, Len(h.body))) = News(h.body)
      /\ Olds(h.body) \in Nat /\ News(h.body) \in Nat /\ Len(h.body) \in Nat
  BY FrontEdges
<1>2. Len(h.body) \in 0..Len(h.body)
  BY <1>1
<1>3. Owes(q) <=> ~UsedUp(h, Len(h.body))
  BY <1>2, OwesIs
<1>4. h.claim \in Claims
  BY DEF HunkChange, Claims
<1>5. Due(h.claim[2]) \in Nat /\ Due(h.claim[4]) \in Nat
  BY <1>4, GivenIs
<1>6. QED
  BY <1>1, <1>3, <1>5, UsedUpIs

(***************************************************************************)
(* Where a hunk is done all of its lines, and the last one's marker,       *)
(* have come.                                                              *)
(***************************************************************************)
LEMMA HunkDoneIs ==
  ASSUME NEW c \in Seq(FileChange), NEW a, InPlace(c, a), Opened(a), HunkDone(c, a)
  PROVE  a.done = TRUE /\ a.k = Len(c[a.f].hunks[a.h].body)
  BY DEF HunkDone, Opened, InPlace, Spots

(***************************************************************************)
(* A warning on a whole hunk that still owes lines.                        *)
(***************************************************************************)
LEMMA FlagStands ==
  ASSUME NEW c \in Seq(FileChange), NEW q, Ready(q), NEW a, StandsAt(c, q, a), Opened(a), HunkDone(c, a), Owes(q), NEW msg
  PROVE  StandsAt(c, Flag(q, msg), a)
<1> DEFINE r == Flag(q, msg)
           d == c[a.f]
           h == d.hunks[a.h]
<1>1. InPlace(c, a) /\ q.inFile /\ q \in Parsers /\ a.at # "start" /\ Amid(d, q, a)
  BY DEF StandsAt, Ready, Opened
<1>2. /\ r.cur.flags = q.cur.flags \cup {msg} /\ SameNames(q.cur, r.cur) /\ r.cur.hunks = q.cur.hunks
      /\ SameHeaders(q, r) /\ SameHunk(q, r) /\ SameEnds(q, r) /\ SameFiles(q, r)
  BY <1>1, FlagIs
<1>3. a.h \in 1..Len(d.hunks) /\ h \in HunkChange /\ a.h \in Nat
  BY <1>1, OpenedIs, FilesAre
<1>4. Reading(h, q, Len(h.body), TRUE)
  <2>1. Reading(h, q, a.k, a.done)
    BY <1>1 DEF Amid
  <2>2. a.done = TRUE /\ a.k = Len(h.body)
    BY <1>1, HunkDoneIs
  <2>3. QED
    BY <2>1, <2>2
<1>5. ~Honest(h)
  <2>1. BadHunk(h)
    BY <1>3, <1>4, OwesBad DEF BadHunk
  <2>2. QED
    BY <1>3, <2>1, HonestIs
<1> HIDE DEF r, d, h
<1>6. Amid(d, r, a)
  <2>1. Heard(d, r, Seen(d, a), a.at # "head", a.at = "hunk")
    BY <1>1, <1>2 DEF Amid, Heard, SameHeaders, SameNames
  <2>2. r.cur.flags # {}
    BY <1>2
  <2>3. Hunks(d, r.cur, Whole(a))
    BY <1>1, <1>2, <2>2 DEF Amid, Hunks
  <2>4. Fair(d, r.cur, Begun(a))
    <3>1. a.h \in 1..Begun(a)
      BY <1>3 DEF Begun
    <3>2. QED
      BY <1>5, <3>1 DEF Fair, h
  <2>5. Reading(d.hunks[a.h], r, a.k, a.done)
    BY <1>1, <1>2, <2>2 DEF Amid, Reading, SameHunk
  <2>6. QED
    BY <2>1, <2>3, <2>4, <2>5 DEF Amid
<1>7. QED
  BY <1>2, <1>6 DEF StandsAt, SameHunk, SameFiles, SameEnds, r, d

(***************************************************************************)
(* Closing a whole hunk, or none.                                          *)
(***************************************************************************)
LEMMA CloseHunkStands ==
  ASSUME NEW c \in Seq(FileChange), NEW q, Ready(q), NEW a, StandsAt(c, q, a), a.at # "start",
         a.at = "hunk" => HunkDone(c, a)
  PROVE  LET r == CloseHunk(q)
             d == c[a.f] IN
         /\ r \in Parsers /\ ~r.err /\ SameFiles(q, r) /\ r.inHunk = FALSE
         /\ Heard(d, r, Seen(d, a), a.at # "head", a.at = "hunk")
         /\ Hunks(d, r.cur, Begun(a)) /\ Fair(d, r.cur, Begun(a))
<1> DEFINE r == CloseHunk(q)
           d == c[a.f]
<1>1. q \in Parsers /\ Sound(q) /\ ~q.closed /\ ~q.err /\ Amid(d, q, a) /\ InPlace(c, a)
  BY DEF StandsAt, Ready
<1>2. r \in Parsers
  BY <1>1, CloseHunkKeeps
<1>3. CASE ~Opened(a)
  <2>1. ~q.inHunk
    BY <1>3 DEF StandsAt
  <2>2. r = q
    BY <2>1 DEF CloseHunk
  <2>3. q.inHunk = FALSE
    BY <1>1, <2>1 DEF Parsers
  <2>4. Whole(a) = Begun(a)
    BY <1>3 DEF Whole, Begun
  <2> HIDE DEF r
  <2>5. QED
    BY <1>1, <1>2, <2>2, <2>3, <2>4 DEF Amid, SameFiles, r
<1>4. CASE Opened(a)
  <2> DEFINE h == d.hunks[a.h]
  <2>1. q.inHunk
    BY <1>4 DEF StandsAt
  <2>2. /\ r.cur.flags = q.cur.flags \cup (IF Owes(q) THEN {"hunk is short"} ELSE {})
        /\ SameNames(q.cur, r.cur) /\ r.cur.hunks = Append(q.cur.hunks, q.hunk)
        /\ SameHeaders(q, r) /\ SameEnds(q, r) /\ SameFiles(q, r) /\ r.inHunk = FALSE
    BY <1>1, <2>1, CloseHunkIs
  <2>3. a.h \in 1..Len(d.hunks) /\ h \in HunkChange /\ a.h \in Nat /\ a.at = "hunk"
    BY <1>1, <1>4, OpenedIs, FilesAre
  <2>4. Reading(h, q, Len(h.body), TRUE)
    <3>1. Reading(h, q, a.k, a.done)
      BY <1>1, <1>4 DEF Amid
    <3>2. a.done = TRUE /\ a.k = Len(h.body)
      BY <1>1, <1>4, <2>3, HunkDoneIs
    <3>3. QED
      BY <3>1, <3>2
  <2> HIDE DEF r, d
  <2>5. BadHunk(h) => r.cur.flags # {}
    <3>1. Wrong(h, Len(h.body)) => q.cur.flags # {}
      BY <2>4 DEF Reading
    <3>2. CASE Wrong(h, Len(h.body))
      BY <2>2, <3>1, <3>2
    <3>3. CASE Due(h.claim[2]) > Olds(h.body) \/ Due(h.claim[4]) > News(h.body)
      <4>1. Owes(q)
        BY <2>3, <2>4, <3>3, OwesBad
      <4>2. "hunk is short" \in r.cur.flags
        BY <2>2, <4>1
      <4>3. QED
        BY <4>2
    <3>4. QED
      BY <3>2, <3>3 DEF BadHunk
  <2>6. Honest(h) => ~Owes(q)
    BY <2>3, <2>4, OwesBad, HonestIs DEF BadHunk
  <2>7. q.hunk = ReadHunk(h)
    <3>1. q.hunk \in ParsedHunk
      BY <1>1 DEF Parsers
    <3>2. q.hunk.claim = Given(h.claim) /\ q.hunk.lines = ReadLines(h, Len(h.body), TRUE)
      BY <2>4 DEF Reading
    <3>3. q.hunk = [claim |-> q.hunk.claim, lines |-> q.hunk.lines]
      BY <3>1 DEF ParsedHunk
    <3>4. QED
      BY <3>2, <3>3 DEF ReadHunk
  <2>8. q.cur.hunks \in Seq(ParsedHunk) /\ q.hunk \in ParsedHunk
    <3>1. q.cur \in ParsedFile /\ q.hunk \in ParsedHunk
      BY <1>1 DEF Parsers
    <3>2. QED
      BY <3>1 DEF ParsedFile
  <2>9. Whole(a) = a.h - 1 /\ Begun(a) = a.h
    BY <1>4 DEF Whole, Begun
  <2>10. Hunks(d, q.cur, a.h - 1) /\ Fair(d, q.cur, a.h)
    BY <1>1, <2>9 DEF Amid
  <2> DEFINE n == a.h - 1
  <2>11. n \in Nat /\ a.h = n + 1 /\ Len(q.cur.hunks) = n
    BY <2>3, <2>10 DEF Hunks
  <2> HIDE DEF n
  <2>12. Len(r.cur.hunks) = n + 1 /\ r.cur.hunks[n + 1] = q.hunk /\ \A j \in 1..n : r.cur.hunks[j] = q.cur.hunks[j]
    <3> DEFINE xs == q.cur.hunks
               x == q.hunk
    <3>1. xs \in Seq(ParsedHunk) /\ x \in ParsedHunk /\ Len(xs) = n
      BY <2>8, <2>11
    <3> HIDE DEF xs, x
    <3>2. Len(Append(xs, x)) = n + 1 /\ Append(xs, x)[n + 1] = x /\ \A j \in 1..n : Append(xs, x)[j] = xs[j]
      BY <3>1, AppendProperties
    <3>3. r.cur.hunks = Append(xs, x)
      BY <2>2 DEF xs, x
    <3>4. QED
      BY <3>2, <3>3 DEF xs, x
  <2>13. q.cur.flags \subseteq r.cur.flags
    BY <2>2
  <2>14. Hunks(d, r.cur, a.h)
    <3>1. ASSUME NEW j \in 1..(n + 1) PROVE r.cur.hunks[j] = ReadHunk(d.hunks[j]) /\ (BadHunk(d.hunks[j]) => r.cur.flags # {})
      <4>1. CASE j = n + 1
        BY <2>5, <2>7, <2>11, <2>12, <4>1
      <4>2. CASE j # n + 1
        <5>1. j \in 1..n
          BY <2>11, <4>2
        <5>2. q.cur.hunks[j] = ReadHunk(d.hunks[j]) /\ (BadHunk(d.hunks[j]) => q.cur.flags # {})
          BY <2>10, <5>1 DEF Hunks, n
        <5>3. QED
          BY <2>12, <2>13, <5>1, <5>2
      <4>3. QED
        BY <4>1, <4>2
    <3>2. QED
      BY <2>11, <2>12, <3>1 DEF Hunks
  <2>15. Fair(d, r.cur, a.h)
    <3>1. SUFFICES ASSUME \A j \in 1..a.h : Honest(d.hunks[j]) PROVE r.cur.flags = {}
      BY DEF Fair
    <3>2. q.cur.flags = {}
      BY <2>10, <3>1 DEF Fair
    <3>3. Honest(h)
      <4>1. a.h \in 1..a.h
        BY <2>3
      <4>2. QED
        BY <3>1, <4>1
    <3>4. QED
      BY <2>2, <2>6, <3>2, <3>3
  <2>16. Heard(d, r, Seen(d, a), a.at # "head", a.at = "hunk")
    BY <1>1, <2>2 DEF Amid, Heard, SameHeaders, SameNames
  <2>17. ~r.err
    BY <1>1, <2>2 DEF SameEnds
  <2>18. QED
    BY <1>2, <2>2, <2>9, <2>14, <2>15, <2>16, <2>17 DEF r, d
<1>5. QED
  BY <1>3, <1>4

\* Every file of the change is reported as git does.
AllReported(c) == \A i \in 1..Len(c) : Reported(c[i])

(***************************************************************************)
(* Where a file is complete all of its headers and all of its hunks have   *)
(* come.                                                                   *)
(***************************************************************************)
LEMMA CompleteIs ==
  ASSUME NEW c \in Seq(FileChange), NEW a, InPlace(c, a), Complete(c, a), a.at # "start"
  PROVE  LET d == c[a.f] IN
         /\ File(c, a.f) /\ (a.at = "hunk" => HunkDone(c, a)) /\ a.at \in {"head", "hunk"}
         /\ Seen(d, a) = AllNames(d) /\ Begun(a) = Len(d.hunks)
         /\ a.at # "head" <=> d.hunks # <<>>
<1> DEFINE d == c[a.f]
<1>1. CASE a.at = "head" /\ AllSeen(d, a.seen) /\ d.hunks = <<>>
  <2>1. File(c, a.f) /\ a.seen \subseteq AllNames(d)
    BY <1>1 DEF InPlace
  <2>2. AllNames(d) \subseteq a.seen
    BY <1>1 DEF AllSeen, AllNames
  <2>3. Seen(d, a) = AllNames(d)
    BY <1>1, <2>1, <2>2 DEF Seen
  <2>4. Len(d.hunks) = 0
    BY <1>1
  <2>5. Begun(a) = 0
    BY <1>1 DEF Begun, Opened
  <2>6. QED
    BY <1>1, <2>1, <2>3, <2>4, <2>5
<1>2. CASE HunkDone(c, a) /\ a.h = Len(d.hunks)
  <2>1. a.at = "hunk"
    BY <1>2 DEF HunkDone
  <2>2. File(c, a.f) /\ d.hunks # <<>>
    BY <2>1 DEF InPlace
  <2>3. d.hunks \in Seq(HunkChange) /\ Len(d.hunks) \in Nat
    BY <2>2, FilesAre
  <2>4. Len(d.hunks) # 0
    BY <2>2, <2>3, EmptySeq
  <2>5. Begun(a) = Len(d.hunks)
    BY <1>2, <2>1, <2>3, <2>4 DEF Begun, Opened
  <2>6. Seen(d, a) = AllNames(d)
    BY <2>1 DEF Seen
  <2>7. QED
    BY <1>2, <2>1, <2>2, <2>5, <2>6
<1>3. QED
  BY <1>1, <1>2 DEF Complete

(***************************************************************************)
(* Closing a file that is complete leaves it as one more that has been     *)
(* read.                                                                   *)
(***************************************************************************)
LEMMA CloseFileStands ==
  ASSUME NEW c \in Seq(FileChange), AllReported(c), NEW q, Ready(q), NEW a, StandsAt(c, q, a), Complete(c, a)
  PROVE  LET r == CloseFile(q) IN
         /\ r.inFile = FALSE /\ ~r.err /\ r.inHunk = FALSE /\ DoneWith(c, r.files, a.f) /\ a.f \in 0..Len(c)
         /\ q.state = "header" => r.state = "header"
<1> DEFINE r == CloseFile(q)
           d == c[a.f]
<1>1. q \in Parsers /\ Sound(q) /\ ~q.closed /\ ~q.err /\ InPlace(c, a)
  BY DEF StandsAt, Ready
<1>2. CASE a.at = "start"
  <2>1. ~q.inFile /\ ~q.inHunk /\ DoneWith(c, q.files, 0)
    BY <1>2 DEF StandsAt, Behind, Opened
  <2>2. r = q
    BY <2>1 DEF CloseFile
  <2>3. a.f = 0
    BY <1>1, <1>2 DEF InPlace
  <2>4. 0 \in 0..Len(c)
    <3>1. Len(c) \in Nat
      BY LenProperties
    <3>2. QED
      BY <3>1
  <2>5. q.inFile = FALSE /\ q.inHunk = FALSE
    BY <1>1, <2>1 DEF Parsers
  <2> HIDE DEF r
  <2>6. QED
    BY <1>1, <1>2, <2>1, <2>2, <2>3, <2>4, <2>5 DEF r
<1>3. CASE a.at # "start"
  <2> DEFINE x == CloseHunk(q)
             n == Len(d.hunks)
             s == Sealed(Named(x), x)
             both == d.hunks # <<>>
  <2>1. /\ File(c, a.f) /\ (a.at = "hunk" => HunkDone(c, a)) /\ a.at \in {"head", "hunk"}
        /\ Seen(d, a) = AllNames(d) /\ Begun(a) = n /\ (a.at # "head" <=> both)
    BY <1>1, <1>3, CompleteIs
  <2>2. /\ x \in Parsers /\ ~x.err /\ SameFiles(q, x)
        /\ Heard(d, x, Seen(d, a), a.at # "head", a.at = "hunk")
        /\ Hunks(d, x.cur, Begun(a)) /\ Fair(d, x.cur, Begun(a))
    BY <1>3, <2>1, CloseHunkStands
  <2>3. d \in FileChange /\ d.hunks \in Seq(HunkChange) /\ n \in Nat /\ d.status # "combined" /\ a.f \in 1..Len(c) /\ a.f \in Nat
    BY <2>1, FilesAre DEF File
  <2>4. q.inFile
    BY <1>3 DEF StandsAt
  <2>5. /\ r.files = Append(q.files, s) /\ r.inFile = FALSE /\ r.inHunk = FALSE /\ r.state = "header" /\ r.err = x.err
    BY <1>1, <2>4, CloseFileIs
  <2>6. Reported(d)
    BY <2>3 DEF AllReported
  <2>7. both \in BOOLEAN /\ (both <=> a.at # "head") /\ (both <=> a.at = "hunk")
    BY <2>1
  <2>8. Heard(d, x, AllNames(d), both, both)
    <3>1. ((a.at # "head") = both) /\ ((a.at = "hunk") = both)
      BY <2>7
    <3> HIDE DEF both, d, x
    <3>2. Heard(d, x, AllNames(d), a.at # "head", a.at = "hunk")
      BY <2>1, <2>2
    <3>3. QED
      BY <3>1, <3>2 DEF Heard
  <2>9. x.cur.hunks = <<>> <=> d.hunks = <<>>
    <3>1. Len(x.cur.hunks) = n
      BY <2>1, <2>2 DEF Hunks
    <3>2. x.cur.hunks \in Seq(ParsedHunk)
      BY <2>2 DEF Parsers, ParsedFile
    <3>3. (x.cur.hunks = <<>> <=> Len(x.cur.hunks) = 0) /\ (d.hunks = <<>> <=> n = 0)
      BY <2>3, <3>2, EmptySeq
    <3>4. QED
      BY <3>1, <3>3
  <2> HIDE DEF x, d, both, r, n
  <2>10. Names(s, d) /\ s.hunks = x.cur.hunks /\ s.flags = x.cur.flags
    <3>1. both <=> d.hunks # <<>>
      BY DEF both
    <3>2. QED
      BY <2>2, <2>3, <2>6, <2>7, <2>8, <2>9, <3>1, NamedIs
  <2>11. ReadFile(d, s)
    <3>1. Hunks(d, x.cur, n) /\ Fair(d, x.cur, n)
      BY <2>1, <2>2
    <3>2. QED
      BY <2>10, <3>1 DEF ReadFile, Hunks, Fair, n
  <2> DEFINE m == a.f - 1
  <2>12. DoneWith(c, q.files, m) /\ m \in Nat /\ a.f = m + 1
    <3>1. Behind(a) = m
      BY <1>3 DEF Behind
    <3>2. QED
      BY <2>3, <3>1 DEF StandsAt
  <2>13. s \in ParsedFile /\ q.files \in Seq(ParsedFile)
    <3>1. Tally(x.cur, NoHunk)
      BY <1>1, CloseHunkKeeps DEF x
    <3>2. QED
      BY <1>1, <2>2, <3>1, SealedNamed DEF Parsers
  <2> HIDE DEF s, m
  <2>14. DoneWith(c, r.files, a.f)
    <3> DEFINE fs == q.files
               gs == Append(fs, s)
    <3>1. fs \in Seq(ParsedFile) /\ Len(fs) = m /\ \A i \in 1..m : ReadFile(c[i], fs[i])
      BY <2>12, <2>13 DEF DoneWith
    <3> HIDE DEF fs
    <3>2. Len(gs) = m + 1 /\ gs[m + 1] = s /\ \A i \in 1..m : gs[i] = fs[i]
      BY <2>13, <3>1, AppendProperties
    <3>3. r.files = gs
      BY <2>5 DEF fs
    <3> HIDE DEF gs
    <3>4. ASSUME NEW i \in 1..(m + 1) PROVE ReadFile(c[i], gs[i])
      <4>1. CASE i = m + 1
        BY <2>11, <2>12, <3>2, <4>1 DEF d
      <4>2. CASE i # m + 1
        <5>1. i \in 1..m
          BY <2>12, <4>2
        <5>2. QED
          BY <3>1, <3>2, <5>1
      <4>3. QED
        BY <4>1, <4>2
    <3>5. QED
      BY <2>12, <3>2, <3>3, <3>4 DEF DoneWith
  <2>15. a.f \in 0..Len(c)
    BY <2>3
  <2>16. QED
    BY <2>2, <2>5, <2>14, <2>15 DEF r
<1>4. QED
  BY <1>2, <1>3

(***************************************************************************)
(* A git line closes the file before it, which is complete, and starts     *)
(* another.                                                                *)
(***************************************************************************)
LEMMA GitStands ==
  ASSUME NEW c \in Seq(FileChange), AllReported(c), NEW q, Ready(q), q.state = "header", NEW a, StandsAt(c, q, a),
         NEW l, NEW b, IsGit(c, a, l, b)
  PROVE  StandsAt(c, InHeader(q, l), b) /\ InHeader(q, l).state = "header"
<1> DEFINE s == CloseFile(q)
           t == StartFile(s)
           r == InHeader(q, l)
           d == c[b.f]
<1>1. InPlace(c, a) /\ Complete(c, a)
  BY DEF StandsAt, IsGit
<1>2. InPlace(c, b) /\ b.at = "head" /\ b.f = a.f + 1 /\ b.seen = {} /\ File(c, b.f)
  BY <1>1, GitStays
<1>3. l = GitLine(d.old, d.new)
  BY <1>2 DEF IsGit
<1>4. l.head = "diff --git" /\ l.text = d.old /\ l.also = d.new
  BY <1>3 DEF GitLine, Header, L
<1>5. r = [t EXCEPT !.hdrOld = d.old, !.hdrNew = d.new]
  BY <1>4 DEF InHeader
<1>6. DoneWith(c, s.files, a.f) /\ s.state = "header" /\ a.f \in Nat
  <2>1. DoneWith(c, s.files, a.f) /\ a.f \in 0..Len(c) /\ s.state = "header"
    BY <1>1, CloseFileStands
  <2>2. Len(c) \in Nat
    BY LenProperties
  <2>3. QED
    BY <2>1, <2>2
<1>7. /\ t.state = s.state /\ t.files = s.files /\ t.inFile = TRUE /\ t.cur = NoFile
      /\ t.inHunk = FALSE /\ t.sawOldHeader = FALSE
      /\ t.sawOldNull = FALSE /\ t.sawNewNull = FALSE /\ t.sawModeLine = FALSE /\ t.err = FALSE
  BY StartFileIs
<1>8. t \in Parsers
  <2>1. Keeps(q, s) /\ s.state # "hunk"
    BY CloseFileKeeps DEF Ready
  <2>2. Keeps(s, t)
    BY <2>1, StartFileKeeps DEF Keeps, Sound, Ready
  <2>3. QED
    BY <2>2 DEF Keeps
<1>9. a.f + 1 - 1 = a.f
  BY <1>6
<1> HIDE DEF s, t, r, d
<1>10. /\ r.state = "header" /\ r.files = s.files /\ r.inFile = TRUE /\ r.cur = NoFile
       /\ r.inHunk = FALSE /\ r.sawOldHeader = FALSE /\ r.hdrOld = d.old /\ r.hdrNew = d.new
       /\ r.sawOldNull = FALSE /\ r.sawNewNull = FALSE /\ r.sawModeLine = FALSE /\ r.err = FALSE
  BY <1>5, <1>6, <1>7, <1>8 DEF Parsers
<1>11. /\ r.cur.old = "" /\ r.cur.new = "" /\ r.cur.status = "" /\ r.cur.oldMode = "" /\ r.cur.newMode = ""
       /\ r.cur.binary = FALSE /\ r.cur.hunks = <<>> /\ r.cur.flags = {}
  <2>1. /\ NoFile.old = "" /\ NoFile.new = "" /\ NoFile.status = "" /\ NoFile.oldMode = "" /\ NoFile.newMode = ""
        /\ NoFile.binary = FALSE /\ NoFile.hunks = <<>> /\ NoFile.flags = {}
    BY DEF NoFile
  <2>2. r.cur = NoFile
    BY <1>10
  <2>3. QED
    BY ONLY <2>1, <2>2
<1>12. ~Opened(b) /\ Begun(b) = 0 /\ Whole(b) = 0 /\ Behind(b) = a.f /\ Seen(d, b) = {}
  <2>1. ~Opened(b)
    BY <1>2 DEF Opened
  <2>2. Behind(b) = a.f
    <3>1. b.at # "start"
      BY <1>2
    <3>2. b.f - 1 = a.f
      BY <1>2, <1>6
    <3>3. QED
      BY <3>1, <3>2 DEF Behind
  <2>3. Seen(d, b) = {}
    BY <1>2 DEF Seen
  <2>4. QED
    BY <2>1, <2>2, <2>3 DEF Begun, Whole
<1>13. Heard(d, r, {}, FALSE, FALSE)
  BY <1>10, <1>11 DEF Heard, Among
<1>14. Hunks(d, r.cur, 0) /\ Fair(d, r.cur, 0)
  <2>1. Len(<<>>) = 0
    OBVIOUS
  <2>2. Len(r.cur.hunks) = 0 /\ r.cur.flags = {}
    BY <1>11, <2>1
  <2>3. QED
    BY <2>2 DEF Hunks, Fair
<1>15. Amid(d, r, b)
  <2>1. Heard(d, r, Seen(d, b), b.at # "head", b.at = "hunk")
    BY <1>2, <1>12, <1>13 DEF Heard
  <2>2. QED
    BY <1>12, <1>14, <2>1 DEF Amid
<1>16. StandsAt(c, r, b)
  BY <1>2, <1>6, <1>10, <1>12, <1>15 DEF StandsAt, d
<1>17. QED
  BY <1>10, <1>16 DEF r

-----------------------------------------------------------------------------
(* Headers. *)

\* The part of it that the extended headers give: f is the current file, m
\* whether a mode line was seen.
Knows(d, f, m, seen) ==
  /\ m <=> Among(seen, {"old mode", "new mode"})
  /\ f.binary <=> Among(seen, {"binary differ", "git binary"})
  /\ f.status = IF Among(seen, StatusNames) THEN d.status ELSE ""
  /\ Moded(d) => /\ f.oldMode = IF "old mode" \in seen THEN d.oldMode ELSE ""
                 /\ f.newMode = IF "new mode" \in seen THEN d.newMode ELSE ""
  /\ f.old \in {"", d.old} /\ (d.status = "added" => f.old = "")
  /\ f.new \in {"", d.new}

\* Only the current file and the mark for mode lines change.
Learns(q, r, f, m) == r = [q EXCEPT !.cur = f, !.sawModeLine = m]

(***************************************************************************)
(* What else a header leaves as it is.                                     *)
(***************************************************************************)
LEMMA LearnsIs ==
  ASSUME NEW q \in Parsers, NEW f, NEW m, NEW r, Learns(q, r, f, m)
  PROVE  /\ r.cur = f /\ r.sawModeLine = m /\ SameHunk(q, r) /\ SameFiles(q, r) /\ SameEnds(q, r) /\ r.state = q.state
         /\ r.hdrOld = q.hdrOld /\ r.hdrNew = q.hdrNew /\ r.sawOldHeader = q.sawOldHeader
         /\ r.sawOldNull = q.sawOldNull /\ r.sawNewNull = q.sawNewNull
  BY DEF Learns, Parsers, SameHunk, SameFiles, SameEnds

(***************************************************************************)
(* A header of the current file leads to the next place among its          *)
(* headers.                                                                *)
(***************************************************************************)
LEMMA Learned ==
  ASSUME NEW c, NEW q \in Parsers, NEW a, StandsAt(c, q, a), a.at = "head", NEW b, b.at = "head", b.f = a.f, InPlace(c, b),
         NEW f, NEW m, NEW r, Learns(q, r, f, m), f.hunks = q.cur.hunks, f.flags = q.cur.flags,
         Knows(c[a.f], q.cur, q.sawModeLine, a.seen) => Knows(c[a.f], f, m, b.seen)
  PROVE  StandsAt(c, r, b)
<1> DEFINE d == c[a.f]
<1>1. Amid(d, q, a)
  BY DEF StandsAt
<1>2. /\ r.cur = f /\ r.sawModeLine = m /\ SameHunk(q, r) /\ SameFiles(q, r) /\ SameEnds(q, r) /\ r.state = q.state
      /\ r.hdrOld = q.hdrOld /\ r.hdrNew = q.hdrNew /\ r.sawOldHeader = q.sawOldHeader
      /\ r.sawOldNull = q.sawOldNull /\ r.sawNewNull = q.sawNewNull
  BY LearnsIs
<1> HIDE DEF d
<1>3. Seen(d, a) = a.seen /\ Seen(d, b) = b.seen
  BY DEF Seen
<1>4. ~Opened(a) /\ ~Opened(b)
  BY DEF Opened
<1>5. Begun(a) = 0 /\ Begun(b) = 0 /\ Whole(a) = 0 /\ Whole(b) = 0
  BY <1>4 DEF Begun, Whole
<1>6. Heard(d, q, a.seen, FALSE, FALSE)
  BY <1>1, <1>3 DEF Amid, Heard
<1>7. Knows(d, q.cur, q.sawModeLine, a.seen)
  BY <1>6 DEF Heard, Knows
<1>8. Knows(d, f, m, b.seen)
  BY <1>7 DEF d
<1>9. Heard(d, r, b.seen, FALSE, FALSE)
  BY <1>2, <1>6, <1>8 DEF Heard, Knows
<1>10. Hunks(d, r.cur, 0) /\ Fair(d, r.cur, 0)
  BY <1>1, <1>2, <1>5 DEF Amid, Hunks, Fair
<1>11. Amid(d, r, b)
  <2>1. Heard(d, r, Seen(d, b), b.at # "head", b.at = "hunk")
    BY <1>3, <1>9 DEF Heard
  <2>2. QED
    BY <1>4, <1>5, <1>10, <2>1 DEF Amid
<1>12. Behind(a) = Behind(b)
  BY DEF Behind
<1>13. QED
  BY <1>2, <1>4, <1>11, <1>12 DEF StandsAt, SameHunk, SameFiles, SameEnds, d

(***************************************************************************)
(* A name that is among some others is among one more.                     *)
(***************************************************************************)
LEMMA AmongMore ==
  \A seen, names, n : Among(seen \cup {n}, names) <=> Among(seen, names) \/ n \in names
  BY DEF Among

(***************************************************************************)
(* The parts of a header line.                                             *)
(***************************************************************************)
LEMMA HeadLineIs ==
  ASSUME NEW d, NEW n, n # "body"
  PROVE  HeadLine(d, n).head = n /\ HeadLine(d, n).text = Says(d, n) /\ HeadLine(d, n).byte = "d"
  BY DEF HeadLine, Header, L

(***************************************************************************)
(* What one header adds to what is known of its file.                      *)
(***************************************************************************)
LEMMA ExtendedLearns ==
  ASSUME NEW q \in Parsers, q.inFile, NEW d \in FileChange, NEW n \in Heads, n # "body", Needs(d, n), NEW seen
  PROVE  \E f, m : /\ Learns(q, Extended(q, HeadLine(d, n)), f, m) /\ f.hunks = q.cur.hunks /\ f.flags = q.cur.flags
                   /\ Knows(d, q.cur, q.sawModeLine, seen) => Knows(d, f, m, seen \cup {n})
<1> DEFINE l == HeadLine(d, n)
           r == Extended(q, l)
           g == q.cur
           m0 == q.sawModeLine
           new == seen \cup {n}
           yes == TRUE
           Good(f, m) == /\ Learns(q, r, f, m) /\ f.hunks = g.hunks /\ f.flags = g.flags
                         /\ Knows(d, g, m0, seen) => Knows(d, f, m, new)
<1>1. g \in ParsedFile /\ m0 \in BOOLEAN
  BY DEF Parsers
<1>2. l.head = n /\ l.text = Says(d, n)
  BY HeadLineIs
<1>3. /\ \A names : Among(new, names) <=> Among(seen, names) \/ n \in names
      /\ "old mode" \in new <=> "old mode" \in seen \/ n = "old mode"
      /\ "new mode" \in new <=> "new mode" \in seen \/ n = "new mode"
  BY AmongMore
<1>4. SUFFICES \E f, m : Good(f, m)
  OBVIOUS
<1>5. \A x : Learns(q, x, g, m0) <=> x = q
  BY DEF Learns, Parsers
<1> HIDE DEF l, new
<1>6. CASE n = "new file mode"
  <2> DEFINE f == [g EXCEPT !.status = "added", !.newMode = d.newMode]
  <2>1. l.text = d.newMode /\ d.status = "added"
    BY <1>2, <1>6 DEF Says, Needs
  <2>2. r = [q EXCEPT !.cur.status = "added", !.cur.newMode = d.newMode]
    BY <1>2, <1>6, <2>1 DEF Extended
  <2>3. Learns(q, r, f, m0)
    BY <1>1, <2>2 DEF Learns, Parsers, ParsedFile
  <2>4. /\ f.hunks = g.hunks /\ f.flags = g.flags /\ f.binary = g.binary /\ f.status = "added" /\ f.old = g.old /\ f.new = g.new
    BY <1>1 DEF ParsedFile
  <2> HIDE DEF f, r, g, m0
  <2>5. ~Moded(d)
    BY <2>1 DEF Moded
  <2>6. Knows(d, g, m0, seen) => Knows(d, f, m0, new)
    BY <1>3, <1>6, <2>1, <2>4, <2>5 DEF Knows, StatusNames
  <2>7. Good(f, m0)
    BY <2>3, <2>4, <2>6
  <2>8. QED
    BY <2>7
<1>7. CASE n = "deleted file mode"
  <2> DEFINE f == [g EXCEPT !.status = "deleted", !.oldMode = d.oldMode]
  <2>1. l.text = d.oldMode /\ d.status = "deleted"
    BY <1>2, <1>7 DEF Says, Needs
  <2>2. r = [q EXCEPT !.cur.status = "deleted", !.cur.oldMode = d.oldMode]
    BY <1>2, <1>7, <2>1 DEF Extended
  <2>3. Learns(q, r, f, m0)
    BY <1>1, <2>2 DEF Learns, Parsers, ParsedFile
  <2>4. /\ f.hunks = g.hunks /\ f.flags = g.flags /\ f.binary = g.binary /\ f.status = "deleted" /\ f.old = g.old /\ f.new = g.new
    BY <1>1 DEF ParsedFile
  <2> HIDE DEF f, r, g, m0
  <2>5. ~Moded(d)
    BY <2>1 DEF Moded
  <2>6. Knows(d, g, m0, seen) => Knows(d, f, m0, new)
    BY <1>3, <1>7, <2>1, <2>4, <2>5 DEF Knows, StatusNames
  <2>7. Good(f, m0)
    BY <2>3, <2>4, <2>6
  <2>8. QED
    BY <2>7
<1>8. CASE n = "old mode"
  <2> DEFINE f == [g EXCEPT !.oldMode = d.oldMode]
  <2>1. l.text = d.oldMode
    BY <1>2, <1>8 DEF Says
  <2>2. r = [q EXCEPT !.cur.oldMode = d.oldMode, !.sawModeLine = yes]
    BY <1>2, <1>8, <2>1 DEF Extended
  <2> HIDE DEF yes
  <2>3. Learns(q, r, f, yes)
    BY <1>1, <2>2 DEF Learns, Parsers, ParsedFile
  <2>4. /\ f.hunks = g.hunks /\ f.flags = g.flags /\ f.binary = g.binary /\ f.status = g.status /\ f.old = g.old /\ f.new = g.new
        /\ f.oldMode = d.oldMode /\ f.newMode = g.newMode
    BY <1>1 DEF ParsedFile
  <2> HIDE DEF f, r, g, m0
  <2>6. Knows(d, g, m0, seen) => Knows(d, f, yes, new)
    BY <1>3, <1>8, <2>4 DEF Knows, StatusNames, yes
  <2>7. Good(f, yes)
    BY <2>3, <2>4, <2>6
  <2>8. QED
    BY <2>7
<1>9. CASE n = "new mode"
  <2> DEFINE f == [g EXCEPT !.newMode = d.newMode]
  <2>1. l.text = d.newMode
    BY <1>2, <1>9 DEF Says
  <2>2. r = [q EXCEPT !.cur.newMode = d.newMode, !.sawModeLine = yes]
    BY <1>2, <1>9, <2>1 DEF Extended
  <2> HIDE DEF yes
  <2>3. Learns(q, r, f, yes)
    BY <1>1, <2>2 DEF Learns, Parsers, ParsedFile
  <2>4. /\ f.hunks = g.hunks /\ f.flags = g.flags /\ f.binary = g.binary /\ f.status = g.status /\ f.old = g.old /\ f.new = g.new
        /\ f.newMode = d.newMode /\ f.oldMode = g.oldMode
    BY <1>1 DEF ParsedFile
  <2> HIDE DEF f, r, g, m0
  <2>6. Knows(d, g, m0, seen) => Knows(d, f, yes, new)
    BY <1>3, <1>9, <2>4 DEF Knows, StatusNames, yes
  <2>7. Good(f, yes)
    BY <2>3, <2>4, <2>6
  <2>8. QED
    BY <2>7
<1>10. CASE n \in {"renamed from", "copied from"}
  <2> DEFINE f == [g EXCEPT !.status = d.status, !.old = d.old]
  <2>1. l.text = d.old /\ d.status = (IF n = "renamed from" THEN "renamed" ELSE "copied") /\ d.status # "added"
    BY <1>2, <1>10 DEF Says, Needs
  <2>2. r = [q EXCEPT !.cur.status = d.status, !.cur.old = d.old]
    <3>1. CASE n = "renamed from"
      BY <1>2, <2>1, <3>1 DEF Extended
    <3>2. CASE n = "copied from"
      BY <1>2, <2>1, <3>2 DEF Extended
    <3>3. QED
      BY <1>10, <3>1, <3>2
  <2>3. Learns(q, r, f, m0)
    BY <1>1, <2>2 DEF Learns, Parsers, ParsedFile
  <2>4. /\ f.hunks = g.hunks /\ f.flags = g.flags /\ f.binary = g.binary /\ f.status = d.status /\ f.old = d.old /\ f.new = g.new
        /\ f.newMode = g.newMode /\ f.oldMode = g.oldMode
    BY <1>1 DEF ParsedFile
  <2> HIDE DEF f, r, g, m0
  <2>6. Knows(d, g, m0, seen) => Knows(d, f, m0, new)
    BY <1>3, <1>10, <2>1, <2>4 DEF Knows, StatusNames
  <2>7. Good(f, m0)
    BY <2>3, <2>4, <2>6
  <2>8. QED
    BY <2>7
<1>11. CASE n \in {"renamed to", "copied to"}
  <2> DEFINE f == [g EXCEPT !.status = d.status, !.new = d.new]
  <2>1. l.text = d.new /\ d.status = (IF n = "renamed to" THEN "renamed" ELSE "copied") /\ d.status # "added"
    BY <1>2, <1>11 DEF Says, Needs
  <2>2. r = [q EXCEPT !.cur.status = d.status, !.cur.new = d.new]
    <3>1. CASE n = "renamed to"
      BY <1>2, <2>1, <3>1 DEF Extended
    <3>2. CASE n = "copied to"
      BY <1>2, <2>1, <3>2 DEF Extended
    <3>3. QED
      BY <1>11, <3>1, <3>2
  <2>3. Learns(q, r, f, m0)
    BY <1>1, <2>2 DEF Learns, Parsers, ParsedFile
  <2>4. /\ f.hunks = g.hunks /\ f.flags = g.flags /\ f.binary = g.binary /\ f.status = d.status /\ f.old = g.old /\ f.new = d.new
        /\ f.newMode = g.newMode /\ f.oldMode = g.oldMode
    BY <1>1 DEF ParsedFile
  <2> HIDE DEF f, r, g, m0
  <2>6. Knows(d, g, m0, seen) => Knows(d, f, m0, new)
    BY <1>3, <1>11, <2>1, <2>4 DEF Knows, StatusNames
  <2>7. Good(f, m0)
    BY <2>3, <2>4, <2>6
  <2>8. QED
    BY <2>7
<1>12. CASE n = "index" /\ l.text # "" /\ g.oldMode = "" /\ g.newMode = ""
  <2> DEFINE t == l.text
             f == [g EXCEPT !.oldMode = t, !.newMode = t]
  <2>1. ~Moded(d)
    BY <1>2, <1>12 DEF Says, Needs, Blank
  <2>2. r = [q EXCEPT !.cur.oldMode = t, !.cur.newMode = t]
    BY <1>2, <1>12 DEF Extended
  <2> HIDE DEF t
  <2>3. Learns(q, r, f, m0)
    BY <1>1, <2>2 DEF Learns, Parsers, ParsedFile
  <2>4. /\ f.hunks = g.hunks /\ f.flags = g.flags /\ f.binary = g.binary /\ f.status = g.status /\ f.old = g.old /\ f.new = g.new
    BY <1>1 DEF ParsedFile
  <2> HIDE DEF f, r, g, m0
  <2>6. Knows(d, g, m0, seen) => Knows(d, f, m0, new)
    BY <1>3, <1>12, <2>1, <2>4 DEF Knows, StatusNames
  <2>7. Good(f, m0)
    BY <2>3, <2>4, <2>6
  <2>8. QED
    BY <2>7
<1>13. CASE n \in {"binary differ", "git binary"}
  <2> DEFINE f == [g EXCEPT !.binary = yes]
  <2>2. r = [q EXCEPT !.cur.binary = yes]
    BY <1>2, <1>13 DEF Extended
  <2> HIDE DEF yes
  <2>3. Learns(q, r, f, m0)
    BY <1>1, <2>2 DEF Learns, Parsers, ParsedFile
  <2>4. /\ f.hunks = g.hunks /\ f.flags = g.flags /\ f.binary = yes /\ f.status = g.status /\ f.old = g.old /\ f.new = g.new
        /\ f.newMode = g.newMode /\ f.oldMode = g.oldMode
    BY <1>1 DEF ParsedFile
  <2> HIDE DEF f, r, g, m0
  <2>6. Knows(d, g, m0, seen) => Knows(d, f, m0, new)
    BY <1>3, <1>13, <2>4 DEF Knows, StatusNames, yes
  <2>7. Good(f, m0)
    BY <2>3, <2>4, <2>6
  <2>8. QED
    BY <2>7
<1>14. CASE n = "similarity" \/ (n = "index" /\ ~(l.text # "" /\ g.oldMode = "" /\ g.newMode = ""))
  <2>1. r = q
    BY <1>2, <1>14 DEF Extended
  <2>2. Learns(q, r, g, m0)
    BY <1>5, <2>1
  <2> HIDE DEF r, g, m0
  <2>3. Knows(d, g, m0, seen) => Knows(d, g, m0, new)
    BY <1>3, <1>14 DEF Knows, StatusNames
  <2>4. Good(g, m0)
    BY <2>2, <2>3
  <2>5. QED
    BY <2>4
<1>15. n \in {"new file mode", "deleted file mode", "old mode", "new mode", "similarity", "renamed from",
             "renamed to", "copied from", "copied to", "index", "binary differ", "git binary"}
  BY DEF Needs
<1>16. QED
  BY <1>6, <1>7, <1>8, <1>9, <1>10, <1>11, <1>12, <1>13, <1>14, <1>15

(***************************************************************************)
(* A header is read, and what it says of the file is known.                *)
(***************************************************************************)
LEMMA HeadStands ==
  ASSUME NEW c \in Seq(FileChange), NEW q, Ready(q), NEW a, StandsAt(c, q, a),
         NEW l, l.head # "body", NEW b, IsHead(c, a, l, b)
  PROVE  LET r == InHeader(q, l) IN
         StandsAt(c, r, b) /\ r.state = (IF l.head = "git binary" THEN "payload" ELSE q.state)
<1> DEFINE d == c[a.f]
           r == InHeader(q, l)
           s == Extended(q, l)
<1>1. InPlace(c, a) /\ q \in Parsers
  BY DEF StandsAt, Ready
<1>2. InPlace(c, b) /\ b.at = "head" /\ b.f = a.f /\ a.at = "head"
  BY <1>1, HeadStays
<1>3. q.inFile
  BY <1>2 DEF StandsAt
<1>4. File(c, a.f)
  BY <1>1, <1>2 DEF InPlace
<1>5. d \in FileChange
  BY <1>4, FilesAre
<1>6. PICK n \in Heads : /\ Needs(d, n) /\ l = HeadLine(d, n) /\ b = HeadSpot(a.f, a.seen \cup {n})
  BY DEF IsHead
<1>7. l.head = n /\ n # "body"
  <2>1. HeadLine(d, "body").head = "body"
    BY DEF HeadLine, L
  <2>2. n # "body"
    BY <1>6, <2>1
  <2>3. QED
    BY <1>6, <2>2, HeadLineIs
<1>8. b.seen = a.seen \cup {n}
  BY <1>6, HeadSpotIs
<1>9. PICK f, m : /\ Learns(q, Extended(q, HeadLine(d, n)), f, m) /\ f.hunks = q.cur.hunks /\ f.flags = q.cur.flags
                  /\ Knows(d, q.cur, q.sawModeLine, a.seen) => Knows(d, f, m, a.seen \cup {n})
  BY <1>1, <1>3, <1>5, <1>6, <1>7, ExtendedLearns
<1>10. Learns(q, s, f, m)
  BY <1>6, <1>9
<1>11. n \notin {"@@@", "diff --cc", "diff --git", "@@", "@@ junk", "\\", "--- ", "+++ ", "body"}
  BY <1>6, <1>7 DEF Needs
<1>12. r = IF n = "git binary" THEN [s EXCEPT !.state = "payload"] ELSE s
  BY <1>7, <1>11 DEF InHeader
<1> HIDE DEF d, r, s
<1>13. StandsAt(c, s, b)
  BY <1>1, <1>2, <1>8, <1>9, <1>10, Learned DEF d
<1>14. s.state = q.state /\ s = [q EXCEPT !.cur = f, !.sawModeLine = m]
  <2>1. s.state = q.state
    BY <1>1, <1>10, LearnsIs
  <2>2. QED
    BY <1>10, <2>1 DEF Learns
<1>15. CASE n # "git binary"
  BY <1>7, <1>12, <1>13, <1>14, <1>15 DEF r
<1>16. CASE n = "git binary"
  <2>1. r = [s EXCEPT !.state = "payload"]
    BY <1>12, <1>16
  <2> DEFINE t == [q EXCEPT !.state = "payload"]
  <2>2. t \in Parsers /\ t.cur = q.cur /\ t.sawModeLine = q.sawModeLine
    BY <1>1 DEF Parsers
  <2>3. SameHeaders(q, t) /\ SameHunk(q, t) /\ SameEnds(q, t) /\ SameFiles(q, t) /\ t.state = "payload"
    BY <1>1, StateIs
  <2>4. r = [t EXCEPT !.cur = f, !.sawModeLine = m]
    BY <1>1, <1>14, <2>1 DEF Parsers
  <2> HIDE DEF t
  <2>5. Learns(t, r, f, m)
    BY <2>4 DEF Learns
  <2>6. StandsAt(c, t, a)
    BY <2>2, <2>3, StandsSame DEF SameEnds, SameNames
  <2>7. StandsAt(c, r, b)
    BY <1>2, <1>8, <1>9, <2>2, <2>5, <2>6, Learned DEF d
  <2>8. r.state = "payload"
    BY <2>2, <2>3, <2>5, LearnsIs
  <2>9. QED
    BY <1>7, <1>16, <2>7, <2>8 DEF r
<1>17. QED
  BY <1>15, <1>16

(***************************************************************************)
(* The payload of a binary patch tells nothing of its file.                *)
(***************************************************************************)
LEMMA PayloadStands ==
  ASSUME NEW c \in Seq(FileChange), NEW q, Ready(q), NEW a, StandsAt(c, q, a),
         NEW l, l.head = "body", NEW b, IsHead(c, a, l, b)
  PROVE  StandsAt(c, q, b)
<1> DEFINE d == c[a.f]
           f == q.cur
           m == q.sawModeLine
<1>1. InPlace(c, a) /\ q \in Parsers
  BY DEF StandsAt, Ready
<1>2. InPlace(c, b) /\ b.at = "head" /\ b.f = a.f /\ a.at = "head"
  BY <1>1, HeadStays
<1>3. PICK n \in Heads : /\ Needs(d, n) /\ l = HeadLine(d, n) /\ b = HeadSpot(a.f, a.seen \cup {n})
  BY DEF IsHead
<1>4. n = "body"
  BY <1>3, HeadLineIs
<1>5. b.seen = a.seen \cup {n}
  BY <1>3, HeadSpotIs
<1>6. Learns(q, q, f, m)
  BY <1>1 DEF Learns, Parsers
<1>7. \A names : Among(b.seen, names) <=> Among(a.seen, names) \/ n \in names
  BY <1>5 DEF Among
<1>8. ("old mode" \in b.seen <=> "old mode" \in a.seen) /\ ("new mode" \in b.seen <=> "new mode" \in a.seen)
  BY <1>4, <1>5
<1> HIDE DEF d
<1>9. Knows(d, f, m, a.seen) => Knows(d, f, m, b.seen)
  BY <1>4, <1>7, <1>8 DEF Knows, StatusNames
<1>10. QED
  BY <1>1, <1>2, <1>6, <1>9, Learned DEF d

(***************************************************************************)
(* The old name of a file that has hunks, all of its other headers being   *)
(* read.                                                                   *)
(***************************************************************************)
LEMMA OldStands ==
  ASSUME NEW c \in Seq(FileChange), NEW q, Ready(q), NEW a, StandsAt(c, q, a), NEW l, NEW b, IsOld(c, a, l, b)
  PROVE  StandsAt(c, InHeader(q, l), b) /\ InHeader(q, l).state = q.state
<1> DEFINE d == c[a.f]
           r == InHeader(q, l)
<1>1. InPlace(c, a) /\ q \in Parsers
  BY DEF StandsAt, Ready
<1>2. InPlace(c, b) /\ b.at = "old" /\ b.f = a.f /\ a.at = "head"
  BY <1>1, OldStays
<1>3. Amid(d, q, a) /\ q.inFile /\ ~q.inHunk /\ ~Opened(a) /\ ~Opened(b)
  BY <1>2 DEF StandsAt, Opened
<1>4. File(c, a.f) /\ AllSeen(d, a.seen) /\ a.seen \subseteq AllNames(d)
  BY <1>1, <1>2 DEF InPlace, IsOld
<1>5. d \in FileChange
  BY <1>4, FilesAre
<1>6. a.seen = AllNames(d)
  BY <1>4 DEF AllSeen, AllNames
<1>7. l.head = "--- " /\ l.text = IF d.status = "added" THEN "/dev/null" ELSE d.old
  BY DEF IsOld, OldLine, L
<1>8. d.old \in {"a", "b"}
  BY <1>5 DEF FileChange, FileNames
<1>9. Heard(d, q, AllNames(d), FALSE, FALSE)
  BY <1>2, <1>3, <1>6 DEF Amid, Heard, Seen
<1>10. r = OldHeader(q, l.text)
  BY <1>7 DEF InHeader
<1>11. r = IF d.status = "added" THEN [q EXCEPT !.sawOldHeader = TRUE, !.sawOldNull = TRUE]
           ELSE [q EXCEPT !.sawOldHeader = TRUE, !.cur.old = d.old]
  BY <1>3, <1>7, <1>8, <1>9, <1>10 DEF OldHeader, Heard
<1> HIDE DEF d, r
<1>12. /\ SameHunk(q, r) /\ SameFiles(q, r) /\ SameEnds(q, r) /\ r.state = q.state
       /\ r.hdrOld = q.hdrOld /\ r.hdrNew = q.hdrNew /\ r.sawNewNull = q.sawNewNull /\ r.sawModeLine = q.sawModeLine
  BY <1>1, <1>11 DEF Parsers, SameHunk, SameFiles, SameEnds
<1>13. /\ r.sawOldHeader = TRUE
       /\ r.sawOldNull = IF d.status = "added" THEN TRUE ELSE q.sawOldNull
  BY <1>1, <1>11 DEF Parsers
<1>14. /\ r.cur.old = IF d.status = "added" THEN q.cur.old ELSE d.old
       /\ r.cur.new = q.cur.new /\ r.cur.status = q.cur.status
       /\ r.cur.oldMode = q.cur.oldMode /\ r.cur.newMode = q.cur.newMode /\ r.cur.binary = q.cur.binary
       /\ r.cur.hunks = q.cur.hunks /\ r.cur.flags = q.cur.flags
  <2>1. CASE d.status = "added"
    <3>1. r.cur = q.cur
      BY <1>1, <1>11, <2>1 DEF Parsers
    <3>2. QED
      BY <2>1, <3>1
  <2>2. CASE d.status # "added"
    <3>1. r.cur = [q.cur EXCEPT !.old = d.old]
      BY <1>1, <1>11, <2>2 DEF Parsers
    <3>2. QED
      BY <1>1, <2>2, <3>1 DEF Parsers, ParsedFile
  <2>3. QED
    BY <2>1, <2>2
<1>15. Heard(d, r, AllNames(d), TRUE, FALSE)
  BY <1>9, <1>12, <1>13, <1>14 DEF Heard
<1>16. Begun(a) = 0 /\ Begun(b) = 0 /\ Whole(a) = 0 /\ Whole(b) = 0
  BY <1>3 DEF Begun, Whole
<1>17. Hunks(d, r.cur, 0) /\ Fair(d, r.cur, 0)
  BY <1>3, <1>14, <1>16 DEF Amid, Hunks, Fair
<1>18. Amid(d, r, b)
  <2>1. Heard(d, r, Seen(d, b), b.at # "head", b.at = "hunk")
    BY <1>2, <1>15 DEF Heard, Seen
  <2>2. QED
    BY <1>3, <1>16, <1>17, <2>1 DEF Amid
<1>19. Behind(a) = Behind(b)
  BY <1>2 DEF Behind
<1>20. QED
  BY <1>2, <1>3, <1>12, <1>18, <1>19 DEF StandsAt, SameHunk, SameFiles, SameEnds, d, r

(***************************************************************************)
(* Its new name.                                                           *)
(***************************************************************************)
LEMMA NewStands ==
  ASSUME NEW c \in Seq(FileChange), NEW q, Ready(q), NEW a, StandsAt(c, q, a), NEW l, NEW b, IsNew(c, a, l, b)
  PROVE  StandsAt(c, InHeader(q, l), b) /\ InHeader(q, l).state = q.state
<1> DEFINE d == c[a.f]
           r == InHeader(q, l)
<1>1. InPlace(c, a) /\ q \in Parsers
  BY DEF StandsAt, Ready
<1>2. InPlace(c, b) /\ b.at = "hunk" /\ b.f = a.f /\ b.h = 0 /\ a.at = "old"
  BY <1>1, NewStays
<1>3. Amid(d, q, a) /\ q.inFile /\ ~q.inHunk /\ ~Opened(a) /\ ~Opened(b)
  BY <1>2 DEF StandsAt, Opened
<1>4. File(c, a.f)
  BY <1>1, <1>2 DEF InPlace
<1>5. d \in FileChange
  BY <1>4, FilesAre
<1>7. l.head = "+++ " /\ l.text = IF d.status = "deleted" THEN "/dev/null" ELSE d.new
  BY DEF IsNew, NewLine, L
<1>8. d.new \in {"a", "b"}
  BY <1>5 DEF FileChange, FileNames
<1>9. Heard(d, q, AllNames(d), TRUE, FALSE)
  BY <1>2, <1>3 DEF Amid, Heard, Seen
<1>10. r = NewHeader(q, l.text) /\ InFile(q) = q
  BY <1>3, <1>7 DEF InHeader, InFile
<1>11. r = IF d.status = "deleted" THEN [q EXCEPT !.sawNewNull = TRUE] ELSE [q EXCEPT !.cur.new = d.new]
  BY <1>7, <1>8, <1>10 DEF NewHeader
<1> HIDE DEF d, r
<1>12. /\ SameHunk(q, r) /\ SameFiles(q, r) /\ SameEnds(q, r) /\ r.state = q.state
       /\ r.hdrOld = q.hdrOld /\ r.hdrNew = q.hdrNew /\ r.sawOldNull = q.sawOldNull /\ r.sawModeLine = q.sawModeLine
       /\ r.sawOldHeader = q.sawOldHeader
  BY <1>1, <1>11 DEF Parsers, SameHunk, SameFiles, SameEnds
<1>13. r.sawNewNull = IF d.status = "deleted" THEN TRUE ELSE q.sawNewNull
  BY <1>1, <1>11 DEF Parsers
<1>14. /\ r.cur.new = IF d.status = "deleted" THEN q.cur.new ELSE d.new
       /\ r.cur.old = q.cur.old /\ r.cur.status = q.cur.status
       /\ r.cur.oldMode = q.cur.oldMode /\ r.cur.newMode = q.cur.newMode /\ r.cur.binary = q.cur.binary
       /\ r.cur.hunks = q.cur.hunks /\ r.cur.flags = q.cur.flags
  <2>1. CASE d.status = "deleted"
    <3>1. r.cur = q.cur
      BY <1>1, <1>11, <2>1 DEF Parsers
    <3>2. QED
      BY <2>1, <3>1
  <2>2. CASE d.status # "deleted"
    <3>1. r.cur = [q.cur EXCEPT !.new = d.new]
      BY <1>1, <1>11, <2>2 DEF Parsers
    <3>2. QED
      BY <1>1, <2>2, <3>1 DEF Parsers, ParsedFile
  <2>3. QED
    BY <2>1, <2>2
<1>15. Heard(d, r, AllNames(d), TRUE, TRUE)
  BY <1>9, <1>12, <1>13, <1>14 DEF Heard
<1>16. Begun(a) = 0 /\ Begun(b) = 0 /\ Whole(a) = 0 /\ Whole(b) = 0
  BY <1>3 DEF Begun, Whole
<1>17. Hunks(d, r.cur, 0) /\ Fair(d, r.cur, 0)
  BY <1>3, <1>14, <1>16 DEF Amid, Hunks, Fair
<1>18. Amid(d, r, b)
  <2>1. Heard(d, r, Seen(d, b), b.at # "head", b.at = "hunk")
    BY <1>2, <1>15 DEF Heard, Seen
  <2>2. QED
    BY <1>3, <1>16, <1>17, <2>1 DEF Amid
<1>19. Behind(a) = Behind(b)
  BY <1>2 DEF Behind
<1>20. QED
  BY <1>2, <1>3, <1>12, <1>18, <1>19 DEF StandsAt, SameHunk, SameFiles, SameEnds, d, r

-----------------------------------------------------------------------------
(* Hunks. *)

(***************************************************************************)
(* A hunk's header closes the hunk before it, which is whole, and opens    *)
(* another.                                                                *)
(***************************************************************************)
LEMMA HunkStands ==
  ASSUME NEW c \in Seq(FileChange), NEW q, Ready(q), NEW a, StandsAt(c, q, a), NEW l, NEW b, IsHunk(c, a, l, b)
  PROVE  LET r == InHeader(q, l) IN StandsAt(c, r, b) /\ r.state = (IF Owes(r) THEN "hunk" ELSE "header")
<1> DEFINE d == c[a.f]
           s == CloseHunk(q)
           r == InHeader(q, l)
           h == d.hunks[b.h]
<1>1. InPlace(c, a) /\ q \in Parsers /\ Sound(q) /\ ~q.closed /\ HunkDone(c, a)
  BY DEF StandsAt, Ready, IsHunk
<1>2. /\ InPlace(c, b) /\ b.at = "hunk" /\ b.f = a.f /\ b.h = a.h + 1 /\ b.k = 0 /\ a.at = "hunk" /\ Opened(b)
      /\ b.h \in 1..Len(d.hunks) /\ b.done = TRUE
  BY <1>1, HunkStays
<1>3. q.inFile
  BY <1>2 DEF StandsAt
<1>4. File(c, a.f)
  BY <1>1, <1>2 DEF InPlace
<1>5. h \in HunkChange /\ h.claim \in Claims
  BY <1>2, <1>4, FilesAre, OpenedIs DEF HunkChange, Claims
<1>6. l = HunkLine(h.claim)
  BY <1>2 DEF IsHunk
<1>7. l.head = "@@" /\ l.claim = h.claim
  <2>1. HunkLine(h.claim).head = "@@" /\ HunkLine(h.claim).claim = h.claim
    BY DEF HunkLine, L
  <2>2. QED
    BY <1>6, <2>1
<1>8. r = OpenHunk(q, h.claim)
  BY <1>7 DEF InHeader
<1> DEFINE claim == h.claim
<1>9. /\ s \in Parsers /\ ~s.err /\ SameFiles(q, s) /\ s.inHunk = FALSE
      /\ Heard(d, s, Seen(d, a), a.at # "head", a.at = "hunk")
      /\ Hunks(d, s.cur, Begun(a)) /\ Fair(d, s.cur, Begun(a))
  BY <1>1, <1>2, CloseHunkStands
<1>10. /\ r.inHunk = TRUE /\ r.hunk = [claim |-> Given(h.claim), lines |-> <<>>]
       /\ r.oldNo = Given(h.claim)[1] /\ r.oldRem = Given(h.claim)[2]
       /\ r.newNo = Given(h.claim)[3] /\ r.newRem = Given(h.claim)[4]
       /\ r.cur.flags = s.cur.flags \cup (IF \E i \in 1..4 : h.claim[i] = Huge THEN {"not a usable number"} ELSE {})
       /\ SameNames(s.cur, r.cur) /\ r.cur.hunks = s.cur.hunks
       /\ SameHeaders(s, r) /\ SameEnds(s, r) /\ SameFiles(s, r)
       /\ r.state = IF Owes(r) THEN "hunk" ELSE "header"
  <2>1. claim \in Claims /\ r = OpenHunk(q, claim)
    BY <1>5, <1>8
  <2> HIDE DEF claim, r, h, d
  <2>2. LET t == OpenHunk(q, claim) IN
        /\ t.inHunk = TRUE /\ t.hunk = [claim |-> Given(claim), lines |-> <<>>]
        /\ t.oldNo = Given(claim)[1] /\ t.oldRem = Given(claim)[2]
        /\ t.newNo = Given(claim)[3] /\ t.newRem = Given(claim)[4]
        /\ t.cur.flags = s.cur.flags \cup (IF \E i \in 1..4 : claim[i] = Huge THEN {"not a usable number"} ELSE {})
        /\ SameNames(s.cur, t.cur) /\ t.cur.hunks = s.cur.hunks
        /\ SameHeaders(s, t) /\ SameEnds(s, t) /\ SameFiles(s, t)
        /\ t.state = IF Owes(t) THEN "hunk" ELSE "header"
    BY <1>1, <1>3, <2>1, OpenHunkIs
  <2> HIDE DEF s
  <2>3. QED
    BY <2>1, <2>2 DEF claim
<1> HIDE DEF d, s, r, h
<1>11. a.h \in Nat /\ Begun(a) = a.h /\ Whole(b) = a.h /\ Begun(b) = a.h + 1
  <2>1. a \in Spots
    BY <1>1 DEF InPlace
  <2>2. a.h \in Nat
    BY <2>1, SpotFields
  <2>3. Begun(a) = a.h
    BY <1>2, <2>2 DEF Begun, Opened
  <2>4. a.h + 1 - 1 = a.h
    BY <2>2
  <2>5. QED
    BY <1>2, <2>2, <2>3, <2>4 DEF Whole, Begun
<1>12. Hunks(d, r.cur, Whole(b))
  BY <1>9, <1>10, <1>11 DEF Hunks
<1>13. Fair(d, r.cur, Begun(b))
  <2>1. SUFFICES ASSUME \A j \in 1..(a.h + 1) : Honest(d.hunks[j]) PROVE r.cur.flags = {}
    BY <1>11 DEF Fair
  <2>2. s.cur.flags = {}
    <3>1. \A j \in 1..a.h : j \in 1..(a.h + 1)
      BY <1>11
    <3>2. QED
      BY <1>9, <1>11, <2>1, <3>1 DEF Fair
  <2>3. a.h + 1 \in 1..(a.h + 1)
    BY <1>11
  <2>4. Honest(h)
    BY <1>2, <2>1, <2>3 DEF h
  <2>5. \A i \in 1..4 : h.claim[i] # Huge
    BY <1>5, <2>4, HonestIs
  <2>6. QED
    BY <1>10, <2>2, <2>5
<1>14. Reading(h, r, 0, TRUE)
  <2>1. r.hunk.claim = Given(h.claim) /\ r.hunk.lines = ReadLines(h, 0, TRUE)
    <3>1. r.hunk.claim = Given(h.claim) /\ r.hunk.lines = <<>>
      <4> DEFINE g == Given(h.claim)
      <4>1. r.hunk = [claim |-> g, lines |-> <<>>]
        BY <1>10
      <4> HIDE DEF g
      <4>2. r.hunk.claim = g /\ r.hunk.lines = <<>>
        BY ONLY <4>1
      <4>3. QED
        BY <4>2 DEF g
    <3>2. QED
      BY <1>5, <3>1, ReadLinesEmpty
  <2>2. Olds(Fore(h, 0)) = 0 /\ News(Fore(h, 0)) = 0
    BY <1>5, FrontEdges
  <2>3. /\ Given(h.claim)[1] \in Nat /\ Given(h.claim)[3] \in Nat
        /\ Given(h.claim)[2] = Due(h.claim[2]) /\ Given(h.claim)[4] = Due(h.claim[4])
        /\ Due(h.claim[2]) \in Nat /\ Due(h.claim[4]) \in Nat
    BY <1>5, GivenIs
  <2>4. r.oldRem = Due(h.claim[2]) - 0 /\ r.newRem = Due(h.claim[4]) - 0
        /\ r.oldNo = Given(h.claim)[1] + 0 /\ r.newNo = Given(h.claim)[3] + 0
    <3> DEFINE g == Given(h.claim)
               x == Due(h.claim[2])
               y == Due(h.claim[4])
    <3>1. r.oldNo = g[1] /\ r.oldRem = g[2] /\ r.newNo = g[3] /\ r.newRem = g[4]
      BY <1>10
    <3>2. g[1] \in Nat /\ g[3] \in Nat /\ g[2] = x /\ g[4] = y /\ x \in Nat /\ y \in Nat
      BY <2>3
    <3> HIDE DEF g, x, y
    <3>3. x - 0 = x /\ y - 0 = y /\ g[1] + 0 = g[1] /\ g[3] + 0 = g[3]
      BY <3>2
    <3>4. QED
      BY <3>1, <3>2, <3>3 DEF g, x, y
  <2>5. Wrong(h, 0) => r.cur.flags # {}
    <3>1. SUFFICES ASSUME Wrong(h, 0) PROVE r.cur.flags # {}
      OBVIOUS
    <3>2. Huge \in {h.claim[2], h.claim[4]}
      BY <3>1 DEF Wrong
    <3>3. \E i \in 1..4 : h.claim[i] = Huge
      BY <3>2
    <3>4. QED
      BY <1>10, <3>3
  <2>6. QED
    BY <2>1, <2>2, <2>4, <2>5 DEF Reading
<1>15. Heard(d, r, AllNames(d), TRUE, TRUE)
  BY ZenonT(20), <1>2, <1>9, <1>10 DEF Heard, SameHeaders, SameNames, Seen
<1>16. Amid(d, r, b)
  <2>1. Heard(d, r, Seen(d, b), b.at # "head", b.at = "hunk")
    BY <1>2, <1>15 DEF Heard, Seen
  <2>2. Reading(d.hunks[b.h], r, b.k, b.done)
    BY <1>2, <1>14 DEF h
  <2>3. QED
    BY <1>12, <1>13, <2>1, <2>2 DEF Amid
<1>17. Behind(a) = Behind(b) /\ DoneWith(c, q.files, Behind(a))
  BY <1>2 DEF Behind, StandsAt
<1>18. r.files = q.files /\ r.inFile = q.inFile /\ r.err = s.err
  BY <1>9, <1>10 DEF SameFiles, SameEnds
<1>19. StandsAt(c, r, b)
  BY <1>2, <1>3, <1>9, <1>10, <1>16, <1>17, <1>18 DEF StandsAt, d
<1>20. QED
  BY <1>10, <1>19 DEF r

(***************************************************************************)
(* A parsed line, part by part.                                            *)
(***************************************************************************)
LEMMA LineAtIs ==
  ASSUME NEW h, NEW i, NEW noNL, NEW kind, kind = h.body[i].kind, NEW text, text = h.body[i].text,
         NEW u, u = (IF kind = "add" THEN 0 ELSE Given(h.claim)[1] + Olds(Fore(h, i - 1))),
         NEW w, w = (IF kind = "del" THEN 0 ELSE Given(h.claim)[3] + News(Fore(h, i - 1)))
  PROVE  LineAt(h, i, noNL) = [kind |-> kind, text |-> text, noNL |-> noNL, oldNo |-> u, newNo |-> w]
  BY DEF LineAt

(***************************************************************************)
(* One more line shows that a header is wrong if the counts were used up   *)
(* before it.                                                              *)
(***************************************************************************)
LEMMA WrongMore ==
  ASSUME NEW h, NEW k \in Nat
  PROVE  Wrong(h, k + 1) => Wrong(h, k) \/ UsedUp(h, k)
<1>1. \A i \in 0..(k + 1 - 1) : i = k \/ i \in 0..(k - 1)
  OBVIOUS
<1>2. QED
  BY <1>1 DEF Wrong

(***************************************************************************)
(* A line of a hunk's body is added to the open hunk.                      *)
(***************************************************************************)
LEMMA BodyStands ==
  ASSUME NEW c \in Seq(FileChange), NEW strip \in BOOLEAN, NEW q \in Parsers, NEW a, StandsAt(c, q, a), NEW l \in PatchLine, NEW b,
         IsText(c, strip, a, l, b),
         UsedUp(c[a.f].hunks[a.h], a.k) => q.cur.flags # {}, NEW s, s = AddLine(q, BodyKind(l.byte), l.text)
  PROVE  StandsAt(c, s, b)
<1> DEFINE d == c[a.f]
           h == d.hunks[a.h]
           m == h.body[a.k + 1]
           kind == BodyKind(l.byte)
<1>1. InPlace(c, a) /\ q.inFile
  BY DEF StandsAt, IsText
<1>2. /\ InPlace(c, b) /\ b.at = "hunk" /\ b.f = a.f /\ b.h = a.h /\ b.k = a.k + 1
      /\ Opened(a) /\ Opened(b) /\ a.done
      /\ b.k \in 1..Len(h.body) /\ b.done = ~h.body[b.k].noNL
  BY <1>1, TextStays
<1>3. /\ h \in HunkChange /\ a.k \in Nat /\ a.k + 1 <= Len(h.body) /\ h.claim \in Claims /\ a.h \in Nat /\ a.at = "hunk"
      /\ a.h \in 1..Len(d.hunks) /\ a.k \in 0..Len(h.body) /\ Len(h.body) \in Nat /\ a.done = TRUE
  <2>1. HunkOf(c, a.f, a.h)
    BY <1>1, <1>2, OpenedIs
  <2>2. /\ h \in HunkChange
    BY <2>1, FilesAre DEF HunkOf
  <2>3. /\ a.h \in Nat /\ a.k \in Nat /\ a.h \in 1..Len(d.hunks) /\ a.at = "hunk" /\ h.claim \in Claims
        /\ Len(h.body) \in Nat /\ a.k \in 0..Len(h.body) /\ a.done \in BOOLEAN
    BY <1>1, <1>2, OpenedIs
  <2>4. a.k + 1 <= Len(h.body)
    BY <1>2
  <2>5. a.done = TRUE
    BY <1>2, <2>3
  <2>6. QED
    BY <2>2, <2>3, <2>4, <2>5
<1>4. l = Written(m, strip) /\ m \in BodyLine
  <2>1. l = Written(m, strip)
    BY DEF IsText
  <2>2. QED
    BY <1>3, <2>1, FrontStep
<1>5. kind = m.kind /\ l.text = m.text /\ m.kind \in Kinds
  <2>1. BodyKind(l.byte) = m.kind /\ l.text = m.text
    BY <1>4, WrittenFields
  <2>2. QED
    BY <1>4, <2>1 DEF BodyLine
<1>6. Amid(d, q, a) /\ Reading(h, q, a.k, TRUE)
  <2>1. Amid(d, q, a)
    BY <1>2, <1>3 DEF StandsAt
  <2>2. QED
    BY <1>2, <1>3, <2>1 DEF Amid
<1> DEFINE x == [kind |-> kind, text |-> l.text, noNL |-> FALSE,
                 oldNo |-> IF kind # "add" THEN q.oldNo ELSE 0, newNo |-> IF kind # "del" THEN q.newNo ELSE 0]
<1>7. /\ s.hunk.lines = Append(q.hunk.lines, x) /\ s.hunk.claim = q.hunk.claim
      /\ s.oldNo = q.oldNo + (IF kind # "add" THEN 1 ELSE 0) /\ s.oldRem = q.oldRem - (IF kind # "add" THEN 1 ELSE 0)
      /\ s.newNo = q.newNo + (IF kind # "del" THEN 1 ELSE 0) /\ s.newRem = q.newRem - (IF kind # "del" THEN 1 ELSE 0)
      /\ s.cur.flags = q.cur.flags /\ SameNames(q.cur, s.cur) /\ s.cur.hunks = q.cur.hunks
      /\ SameHeaders(q, s) /\ SameEnds(q, s) /\ SameFiles(q, s) /\ s.inHunk = q.inHunk
  <2> DEFINE text == l.text
  <2>1. kind \in Kinds /\ s = AddLine(q, kind, text)
    BY <1>5
  <2> HIDE DEF kind, text
  <2>2. LET t == AddLine(q, kind, text)
            y == [kind |-> kind, text |-> text, noNL |-> FALSE,
                  oldNo |-> IF kind # "add" THEN q.oldNo ELSE 0, newNo |-> IF kind # "del" THEN q.newNo ELSE 0] IN
        /\ t.hunk.lines = Append(q.hunk.lines, y) /\ t.hunk.claim = q.hunk.claim
        /\ t.oldNo = q.oldNo + (IF kind # "add" THEN 1 ELSE 0) /\ t.oldRem = q.oldRem - (IF kind # "add" THEN 1 ELSE 0)
        /\ t.newNo = q.newNo + (IF kind # "del" THEN 1 ELSE 0) /\ t.newRem = q.newRem - (IF kind # "del" THEN 1 ELSE 0)
        /\ t.cur.flags = q.cur.flags /\ SameNames(q.cur, t.cur) /\ t.cur.hunks = q.cur.hunks
        /\ SameHeaders(q, t) /\ SameEnds(q, t) /\ SameFiles(q, t) /\ t.inHunk = q.inHunk
    BY <2>1, AddLineIs
  <2>3. QED
    BY <2>1, <2>2 DEF text
<1>8. UsedUp(h, a.k) => q.cur.flags # {}
  OBVIOUS
<1> HIDE DEF d, h, m, kind
<1>9. x = LineAt(h, a.k + 1, FALSE)
  <2>1. q.oldNo = Given(h.claim)[1] + Olds(Fore(h, a.k)) /\ q.newNo = Given(h.claim)[3] + News(Fore(h, a.k))
    BY <1>6 DEF Reading
  <2> DEFINE no == FALSE
             i == a.k + 1
             t == l.text
  <2>2. i - 1 = a.k
    BY <1>3
  <2>3. kind = h.body[i].kind /\ t = h.body[i].text
    BY <1>5 DEF m
  <2> HIDE DEF i, t, no
  <2> DEFINE u == IF kind # "add" THEN q.oldNo ELSE 0
             w == IF kind # "del" THEN q.newNo ELSE 0
  <2>4. u = (IF kind = "add" THEN 0 ELSE Given(h.claim)[1] + Olds(Fore(h, i - 1)))
    BY <2>1, <2>2
  <2>5. w = (IF kind = "del" THEN 0 ELSE Given(h.claim)[3] + News(Fore(h, i - 1)))
    BY <2>1, <2>2
  <2>6. x = [kind |-> kind, text |-> t, noNL |-> no, oldNo |-> u, newNo |-> w]
    BY DEF t, no
  <2> HIDE DEF u, w, x
  <2>7. LineAt(h, i, no) = [kind |-> kind, text |-> t, noNL |-> no, oldNo |-> u, newNo |-> w]
    BY <2>3, <2>4, <2>5, LineAtIs
  <2>8. QED
    BY <2>6, <2>7 DEF no, i
<1> HIDE DEF x
<1> DEFINE k == a.k
           o == Olds(Fore(h, k))
           n == News(Fore(h, k))
           oo == Olds(Fore(h, k + 1))
           nn == News(Fore(h, k + 1))
<1>10. /\ oo = o + (IF kind # "add" THEN 1 ELSE 0) /\ nn = n + (IF kind # "del" THEN 1 ELSE 0)
       /\ o \in Nat /\ n \in Nat
  <2>1. o \in Nat /\ n \in Nat
    BY <1>3, FrontCounts
  <2>2. QED
    BY <1>3, <1>5, <2>1, FrontStep DEF m
<1>11. /\ q.oldRem = Due(h.claim[2]) - o /\ q.newRem = Due(h.claim[4]) - n
       /\ q.oldNo = Given(h.claim)[1] + o /\ q.newNo = Given(h.claim)[3] + n
       /\ q.hunk.claim = Given(h.claim) /\ q.hunk.lines = ReadLines(h, k, TRUE)
       /\ Wrong(h, k) => q.cur.flags # {}
  BY <1>6 DEF Reading
<1>12. Due(h.claim[2]) \in Nat /\ Due(h.claim[4]) \in Nat /\ Given(h.claim)[1] \in Nat /\ Given(h.claim)[3] \in Nat
  BY <1>3, GivenIs
<1>13. Reading(h, s, k + 1, b.done)
  <2>1. s.hunk.lines = ReadLines(h, k + 1, b.done)
    <3>1. b.done = ~h.body[k + 1].noNL
      BY <1>2
    <3>2. ReadLines(h, k + 1, ~h.body[k + 1].noNL) = Append(ReadLines(h, k, TRUE), LineAt(h, k + 1, FALSE))
      BY <1>3, ReadLinesStep
    <3>3. QED
      BY <1>7, <1>9, <1>11, <3>1, <3>2
  <2>2. s.oldRem = Due(h.claim[2]) - oo /\ s.newRem = Due(h.claim[4]) - nn
    <3> DEFINE one == IF kind # "add" THEN 1 ELSE 0
               two == IF kind # "del" THEN 1 ELSE 0
               x2 == Due(h.claim[2])
               x4 == Due(h.claim[4])
               g == Given(h.claim)
    <3>1. one \in Nat /\ two \in Nat
      OBVIOUS
    <3>2. /\ s.oldRem = q.oldRem - one /\ s.newRem = q.newRem - two /\ s.oldNo = q.oldNo + one /\ s.newNo = q.newNo + two
          /\ oo = o + one /\ nn = n + two
      BY <1>7, <1>10
    <3>3. /\ q.oldRem = x2 - o /\ q.newRem = x4 - n /\ q.oldNo = g[1] + o /\ q.newNo = g[3] + n
          /\ o \in Nat /\ n \in Nat /\ x2 \in Nat /\ x4 \in Nat /\ g[1] \in Nat /\ g[3] \in Nat
      BY <1>10, <1>11, <1>12
    <3> HIDE DEF o, n, oo, nn, one, two, x2, x4, g
    <3>4. /\ (x2 - o) - one = x2 - (o + one) /\ (x4 - n) - two = x4 - (n + two)
          /\ (g[1] + o) + one = g[1] + (o + one) /\ (g[3] + n) + two = g[3] + (n + two)
      BY SMTT(20), <3>1, <3>3
    <3>5. s.oldRem = x2 - oo /\ s.newRem = x4 - nn
      BY <3>2, <3>3, <3>4
    <3>6. s.oldNo = g[1] + oo /\ s.newNo = g[3] + nn
      BY <3>2, <3>3, <3>4
    <3>7. QED
      BY <3>5, <3>6 DEF x2, x4, g
  <2>3. s.oldNo = Given(h.claim)[1] + oo /\ s.newNo = Given(h.claim)[3] + nn
    <3> DEFINE one == IF kind # "add" THEN 1 ELSE 0
               two == IF kind # "del" THEN 1 ELSE 0
               x2 == Due(h.claim[2])
               x4 == Due(h.claim[4])
               g == Given(h.claim)
    <3>1. one \in Nat /\ two \in Nat
      OBVIOUS
    <3>2. /\ s.oldRem = q.oldRem - one /\ s.newRem = q.newRem - two /\ s.oldNo = q.oldNo + one /\ s.newNo = q.newNo + two
          /\ oo = o + one /\ nn = n + two
      BY <1>7, <1>10
    <3>3. /\ q.oldRem = x2 - o /\ q.newRem = x4 - n /\ q.oldNo = g[1] + o /\ q.newNo = g[3] + n
          /\ o \in Nat /\ n \in Nat /\ x2 \in Nat /\ x4 \in Nat /\ g[1] \in Nat /\ g[3] \in Nat
      BY <1>10, <1>11, <1>12
    <3> HIDE DEF o, n, oo, nn, one, two, x2, x4, g
    <3>4. /\ (x2 - o) - one = x2 - (o + one) /\ (x4 - n) - two = x4 - (n + two)
          /\ (g[1] + o) + one = g[1] + (o + one) /\ (g[3] + n) + two = g[3] + (n + two)
      BY SMTT(20), <3>1, <3>3
    <3>5. s.oldRem = x2 - oo /\ s.newRem = x4 - nn
      BY <3>2, <3>3, <3>4
    <3>6. s.oldNo = g[1] + oo /\ s.newNo = g[3] + nn
      BY <3>2, <3>3, <3>4
    <3>7. QED
      BY <3>5, <3>6 DEF x2, x4, g
  <2>4. Wrong(h, k + 1) => s.cur.flags # {}
    <3>1. Wrong(h, k + 1) => Wrong(h, k) \/ UsedUp(h, k)
      BY <1>3, WrongMore
    <3>2. QED
      BY <1>7, <1>8, <1>11, <3>1
  <2>5. QED
    BY <1>7, <1>11, <2>1, <2>2, <2>3, <2>4 DEF Reading
<1>14. Heard(d, s, AllNames(d), TRUE, TRUE)
  BY ZenonT(20), <1>3, <1>6, <1>7 DEF Amid, Heard, SameHeaders, SameNames, Seen
<1>15. Whole(a) = Whole(b) /\ Begun(a) = Begun(b) /\ Behind(a) = Behind(b)
  BY <1>2, <1>3 DEF Whole, Begun, Behind
<1>16. Hunks(d, s.cur, Whole(b)) /\ Fair(d, s.cur, Begun(b))
  BY <1>6, <1>7, <1>15 DEF Amid, Hunks, Fair
<1>17. Amid(d, s, b)
  <2>1. Heard(d, s, Seen(d, b), b.at # "head", b.at = "hunk")
    BY <1>2, <1>14 DEF Heard, Seen
  <2>2. Reading(d.hunks[b.h], s, b.k, b.done)
    BY <1>2, <1>13 DEF h
  <2>3. QED
    BY <1>16, <2>1, <2>2 DEF Amid
<1>18. DoneWith(c, q.files, Behind(a)) /\ ~q.err /\ q.inHunk
  BY <1>2 DEF StandsAt
<1>19. QED
  BY <1>1, <1>2, <1>7, <1>15, <1>17, <1>18 DEF StandsAt, SameFiles, SameEnds, d

(***************************************************************************)
(* A warning on a file whose open hunk lies about its lines.               *)
(***************************************************************************)
LEMMA FlagLiarStands ==
  ASSUME NEW c \in Seq(FileChange), NEW q, Ready(q), NEW a, StandsAt(c, q, a), Opened(a), ~Honest(c[a.f].hunks[a.h]), NEW msg
  PROVE  StandsAt(c, Flag(q, msg), a)
<1> DEFINE r == Flag(q, msg)
           d == c[a.f]
           h == d.hunks[a.h]
<1>1. InPlace(c, a) /\ q.inFile /\ q \in Parsers /\ a.at # "start" /\ Amid(d, q, a)
  BY DEF StandsAt, Ready, Opened
<1>2. /\ r.cur.flags = q.cur.flags \cup {msg} /\ SameNames(q.cur, r.cur) /\ r.cur.hunks = q.cur.hunks
      /\ SameHeaders(q, r) /\ SameHunk(q, r) /\ SameEnds(q, r) /\ SameFiles(q, r)
  BY <1>1, FlagIs
<1>3. a.h \in 1..Len(d.hunks) /\ a.h \in Nat
  BY <1>1, OpenedIs
<1>4. ~Honest(h)
  OBVIOUS
<1> HIDE DEF r, d, h
<1>5. Amid(d, r, a)
  <2>1. Heard(d, r, Seen(d, a), a.at # "head", a.at = "hunk")
    BY <1>1, <1>2 DEF Amid, Heard, SameHeaders, SameNames
  <2>2. r.cur.flags # {}
    BY <1>2
  <2>3. Hunks(d, r.cur, Whole(a))
    BY <1>1, <1>2, <2>2 DEF Amid, Hunks
  <2>4. Fair(d, r.cur, Begun(a))
    <3>1. a.h \in 1..Begun(a)
      BY <1>3 DEF Begun
    <3>2. QED
      BY <1>4, <3>1 DEF Fair, h
  <2>5. Reading(d.hunks[a.h], r, a.k, a.done)
    BY <1>1, <1>2, <2>2 DEF Amid, Reading, SameHunk
  <2>6. QED
    BY <2>1, <2>3, <2>4, <2>5 DEF Amid
<1>6. QED
  BY <1>2, <1>5 DEF StandsAt, SameHunk, SameFiles, SameEnds, r, d

\* The states of the parser at a place, and what it makes of a line.
StateAt(q, a) ==
  q.state = IF Opened(a) /\ Owes(q) THEN "hunk" ELSE IF a.at = "head" /\ "git binary" \in a.seen THEN "payload" ELSE "header"
BodyBytes == {"", " ", "+", "-", "\\"}
Read(q, l) ==
  IF q.state = "hunk"
  THEN IF l.byte \in BodyBytes THEN InBody(q, l) ELSE InHeader([Flag(q, "body is shorter") EXCEPT !.state = "header"], l)
  ELSE IF q.state = "payload"
  THEN IF l.head \in {"diff --git", "diff --cc"} THEN InHeader([q EXCEPT !.state = "header"], l) ELSE q
  ELSE InHeader(q, l)
Tied(c, q, a) == StandsAt(c, q, a) /\ StateAt(q, a)

(***************************************************************************)
(* Outside the body of a hunk the state is that of the headers again.      *)
(***************************************************************************)
LEMMA Resumes ==
  ASSUME NEW c \in Seq(FileChange), NEW q, Ready(q), NEW a, Tied(c, q, a), a.at = "hunk" => HunkDone(c, a),
         NEW l, l.byte \notin BodyBytes, q.state = "payload" => l.head \in {"diff --git", "diff --cc"}
  PROVE  \E s : Ready(s) /\ s.state = "header" /\ StandsAt(c, s, a) /\ Read(q, l) = InHeader(s, l)
<1> DEFINE Good(s) == Ready(s) /\ s.state = "header" /\ StandsAt(c, s, a) /\ Read(q, l) = InHeader(s, l)
<1>0. q \in Parsers /\ Sound(q) /\ ~q.closed /\ StandsAt(c, q, a) /\ StateAt(q, a)
  BY DEF Ready, Tied
<1>1. CASE q.state = "hunk"
  <2> DEFINE t == Flag(q, "body is shorter")
             s == [t EXCEPT !.state = "header"]
  <2>1. Opened(a) /\ Owes(q)
    BY <1>0, <1>1 DEF StateAt
  <2>2. HunkDone(c, a)
    BY <2>1 DEF Opened
  <2>3. StandsAt(c, t, a)
    BY <1>0, <2>1, <2>2, FlagStands
  <2>4. Keeps(q, t)
    BY <1>0, FlagKeeps DEF Warnings
  <2>5. t \in Parsers /\ Sound(t) /\ ~t.closed
    BY <1>0, <2>4 DEF Keeps
  <2>6. Keeps(t, s)
    BY <2>5, StateKeeps
  <2>7. Ready(s)
    BY <2>5, <2>6 DEF Keeps, Ready
  <2>8. SameHeaders(t, s) /\ SameHunk(t, s) /\ SameEnds(t, s) /\ SameFiles(t, s) /\ s.cur = t.cur /\ s.state = "header"
    BY <2>5, StateIs
  <2>9. Read(q, l) = InHeader(s, l)
    BY <1>1 DEF Read
  <2> HIDE DEF s, t
  <2>10. StandsAt(c, s, a)
    BY <2>3, <2>8, StandsSame DEF SameEnds, SameNames
  <2>11. Good(s)
    BY <2>7, <2>8, <2>9, <2>10
  <2>12. QED
    BY <2>11
<1>2. CASE q.state = "payload"
  <2> DEFINE s == [q EXCEPT !.state = "header"]
  <2>1. Keeps(q, s)
    BY <1>0, StateKeeps
  <2>2. Ready(s)
    BY <1>0, <2>1 DEF Keeps, Ready
  <2>3. SameHeaders(q, s) /\ SameHunk(q, s) /\ SameEnds(q, s) /\ SameFiles(q, s) /\ s.cur = q.cur /\ s.state = "header"
    BY <1>0, StateIs
  <2>4. Read(q, l) = InHeader(s, l)
    BY <1>2 DEF Read
  <2> HIDE DEF s
  <2>5. StandsAt(c, s, a)
    BY <1>0, <2>3, StandsSame DEF SameEnds, SameNames
  <2>6. Good(s)
    BY <2>2, <2>3, <2>4, <2>5
  <2>7. QED
    BY <2>6
<1>3. CASE q.state = "header"
  <2>1. Read(q, l) = InHeader(q, l)
    BY <1>3 DEF Read
  <2>2. Good(q)
    BY <1>0, <1>3, <2>1
  <2>3. QED
    BY <2>2
<1>4. QED
  BY <1>0, <1>1, <1>2, <1>3 DEF Parsers

(***************************************************************************)
(* A line of a body is read as one, in the hunk state or past the          *)
(* counts.                                                                 *)
(***************************************************************************)
LEMMA TextReads ==
  ASSUME NEW c \in Seq(FileChange), NEW strip \in BOOLEAN, NEW q, Ready(q), NEW a, Tied(c, q, a), NEW l \in PatchLine, NEW b,
         IsText(c, strip, a, l, b), ~Mistakable(c[a.f].hunks[a.h])
  PROVE  \E s : /\ Ready(s) /\ s.inHunk /\ StandsAt(c, s, a) /\ l.byte \in {" ", "+", "-", ""} /\ IsBody(l)
                /\ l.head \in {"body", ""} \/ q.state = "hunk"
                /\ q.state \in {"hunk", "header"} /\ (q.state = "header" => l.head = "body" /\ l.byte \in {" ", "+", "-"})
                /\ s = (IF q.state = "hunk" THEN q ELSE Flag(q, "body is longer"))
                /\ UsedUp(c[a.f].hunks[a.h], a.k) => s.cur.flags # {}
<1> DEFINE h == c[a.f].hunks[a.h]
           m == h.body[a.k + 1]
           Good(s) == /\ Ready(s) /\ s.inHunk /\ StandsAt(c, s, a) /\ l.byte \in {" ", "+", "-", ""} /\ IsBody(l)
                      /\ l.head \in {"body", ""} \/ q.state = "hunk"
                      /\ q.state \in {"hunk", "header"} /\ (q.state = "header" => l.head = "body" /\ l.byte \in {" ", "+", "-"})
                      /\ s = (IF q.state = "hunk" THEN q ELSE Flag(q, "body is longer"))
                      /\ UsedUp(h, a.k) => s.cur.flags # {}
<1>1. q \in Parsers /\ Sound(q) /\ ~q.closed /\ StandsAt(c, q, a) /\ StateAt(q, a) /\ InPlace(c, a) /\ q.inFile
  BY DEF Ready, Tied, StandsAt, IsText
<1>2. Opened(a) /\ a.done /\ a.k < Len(h.body)
  BY DEF IsText, Opened
<1>3. h \in HunkChange /\ a.k \in Nat /\ Len(h.body) \in Nat /\ a.at = "hunk" /\ a.done = TRUE
  <2>1. HunkOf(c, a.f, a.h) /\ a.k \in Nat /\ a.at = "hunk" /\ a.done \in BOOLEAN
    BY <1>1, <1>2, OpenedIs
  <2>2. h \in HunkChange /\ Len(h.body) \in Nat
    BY <2>1, FilesAre DEF HunkOf
  <2>3. QED
    BY <1>2, <2>1, <2>2
<1>4. a.k \in 0..(Len(h.body) - 1) /\ a.k \in 0..Len(h.body) /\ a.k + 1 <= Len(h.body)
  <2> DEFINE n == Len(h.body)
             k == a.k
  <2>1. k < n /\ k \in Nat /\ n \in Nat
    BY <1>2, <1>3
  <2> HIDE DEF n, k
  <2>2. k \in 0..(n - 1) /\ k \in 0..n /\ k + 1 <= n
    BY <2>1
  <2>3. QED
    BY <2>2 DEF n, k
<1>5. l = Written(m, strip) /\ m \in BodyLine
  <2>1. l = Written(m, strip)
    BY DEF IsText
  <2>2. QED
    BY <1>3, <1>4, <2>1, FrontStep
<1>6. l.byte \in {" ", "+", "-", ""} /\ IsBody(l)
  BY <1>5, WrittenFields
<1>7. q.inHunk /\ Reading(h, q, a.k, a.done)
  <2>1. Amid(c[a.f], q, a) /\ q.inHunk
    BY <1>1, <1>2, <1>3 DEF StandsAt
  <2>2. QED
    BY <1>2, <2>1 DEF Amid
<1>8. Owes(q) <=> ~UsedUp(h, a.k)
  BY <1>3, <1>4, <1>7, OwesIs
<1>9. q.state = IF Owes(q) THEN "hunk" ELSE "header"
  BY <1>1, <1>2, <1>3 DEF StateAt
<1>10. CASE Owes(q)
  <2>1. Good(q)
    BY <1>1, <1>6, <1>7, <1>8, <1>9, <1>10
  <2>2. QED
    BY <2>1
<1>11. CASE ~Owes(q)
  <2> DEFINE s == Flag(q, "body is longer")
  <2>1. UsedUp(h, a.k)
    BY <1>8, <1>11
  <2>2. l.head = "body" /\ l.byte \in {" ", "+", "-"}
    BY <1>3, <1>4, <1>5, <2>1, PlainLine
  <2>3. ~Honest(h)
    BY <1>3, <1>4, <2>1, HonestIs
  <2>4. StandsAt(c, s, a)
    BY <1>1, <1>2, <2>3, FlagLiarStands
  <2>5. Keeps(q, s) /\ s.inHunk = q.inHunk
    BY <1>1, FlagKeeps DEF Warnings
  <2>6. Ready(s) /\ s.inHunk
    BY <1>1, <1>7, <2>5 DEF Ready, Keeps
  <2>7. s.cur.flags # {}
    <3>1. s.cur.flags = q.cur.flags \cup {"body is longer"}
      BY <1>1, FlagIs
    <3>2. QED
      BY <3>1
  <2>8. q.state = "header"
    BY <1>9, <1>11
  <2> HIDE DEF s
  <2>9. Good(s)
    BY <1>6, <2>2, <2>4, <2>6, <2>7, <2>8 DEF s
  <2>10. QED
    BY <2>9
<1>12. QED
  BY <1>10, <1>11

(***************************************************************************)
(* A line of a body takes the parser one line on in the hunk, whether      *)
(* its header still counts it or not.                                      *)
(***************************************************************************)
LEMMA TextStands ==
  ASSUME NEW c \in Seq(FileChange), NEW strip \in BOOLEAN, NEW q, Ready(q), NEW a, Tied(c, q, a), NEW l \in PatchLine, NEW b,
         IsText(c, strip, a, l, b), ~Mistakable(c[a.f].hunks[a.h])
  PROVE  Tied(c, Read(q, l), b)
<1>1. PICK s : /\ Ready(s) /\ s.inHunk /\ StandsAt(c, s, a) /\ l.byte \in {" ", "+", "-", ""} /\ IsBody(l)
               /\ l.head \in {"body", ""} \/ q.state = "hunk"
               /\ q.state \in {"hunk", "header"} /\ (q.state = "header" => l.head = "body" /\ l.byte \in {" ", "+", "-"})
               /\ s = (IF q.state = "hunk" THEN q ELSE Flag(q, "body is longer"))
               /\ UsedUp(c[a.f].hunks[a.h], a.k) => s.cur.flags # {}
  BY TextReads
<1> DEFINE r == InBody(s, l)
           t == Classified(s, l)
<1>2. InPlace(c, a) /\ Opened(a)
  BY DEF Tied, StandsAt, IsText, Opened
<1>3. Read(q, l) = r
  <2>1. CASE q.state = "hunk"
    BY <1>1, <2>1 DEF Read, BodyBytes
  <2>2. CASE q.state = "header"
    <3>1. q.inHunk
      BY <1>2 DEF Tied, StandsAt
    <3>2. l.head = "body" /\ l.byte \in {" ", "+", "-"} /\ s = Flag(q, "body is longer")
      BY <1>1, <2>2
    <3>3. InHeader(q, l) = r
      BY <3>1, <3>2 DEF InHeader
    <3>4. QED
      BY <2>2, <3>3 DEF Read
  <2>3. QED
    BY <1>1, <2>1, <2>2
<1>4. s \in Parsers /\ Sound(s) /\ s.inHunk /\ StandsAt(c, s, a)
  BY <1>1 DEF Ready
<1>5. t = AddLine(s, BodyKind(l.byte), l.text)
  BY <1>1 DEF Classified
<1>6. StandsAt(c, t, b)
  BY <1>1, <1>4, <1>5, BodyStands
<1>7. /\ t \in Parsers /\ SameHeaders(t, r) /\ SameHunk(t, r) /\ SameEnds(t, r) /\ SameFiles(t, r) /\ r.cur = t.cur
      /\ r.state = IF Owes(r) THEN "hunk" ELSE "header"
  BY <1>4, InBodyIs
<1>8. Opened(b) /\ b.at = "hunk"
  BY <1>2, TextStays
<1> HIDE DEF r, t
<1>9. StandsAt(c, r, b)
  BY <1>6, <1>7, StandsSame DEF SameEnds, SameNames
<1>10. StateAt(r, b)
  BY <1>7, <1>8 DEF StateAt
<1>11. QED
  BY <1>3, <1>9, <1>10 DEF Tied

(***************************************************************************)
(* The marker is put on the line before it.                                *)
(***************************************************************************)
LEMMA MarkStands ==
  ASSUME NEW c \in Seq(FileChange), NEW q, Ready(q), NEW a, StandsAt(c, q, a), NEW l, NEW b, IsMarker(c, a, l, b)
  PROVE  /\ StandsAt(c, MarkNoNewline(q), b) /\ Opened(a) /\ Opened(b) /\ b.at = "hunk" /\ a.at = "hunk"
         /\ MarkNoNewline(q).state = q.state /\ (Owes(MarkNoNewline(q)) <=> Owes(q)) /\ q.inHunk
<1> DEFINE d == c[a.f]
           h == d.hunks[a.h]
           r == MarkNoNewline(q)
           k == a.k
<1>1. InPlace(c, a) /\ q \in Parsers /\ Sound(q)
  BY DEF StandsAt, Ready
<1>2. /\ InPlace(c, b) /\ b.at = "hunk" /\ b.f = a.f /\ b.h = a.h /\ b.k = k /\ b.done = TRUE
      /\ Opened(a) /\ Opened(b) /\ ~a.done
  BY <1>1, MarkerStays
<1>3. a.at = "hunk" /\ a.done = FALSE /\ k \in 1..Len(h.body) /\ h.body[k].noNL
  BY <1>1, <1>2, OpenedIs
<1>4. h \in HunkChange /\ Len(h.body) \in Nat /\ k \in 0..Len(h.body) /\ k # 0
  <2>1. HunkOf(c, a.f, a.h)
    BY <1>1, <1>2, OpenedIs
  <2>2. h \in HunkChange /\ Len(h.body) \in Nat
    BY <2>1, FilesAre DEF HunkOf
  <2> DEFINE n == Len(h.body)
  <2>3. n \in Nat /\ k \in 1..n
    BY <1>3, <2>2
  <2> HIDE DEF n, k
  <2>4. k \in 0..n /\ k # 0
    BY <2>3
  <2>5. QED
    BY <2>2, <2>4 DEF n
<1>5. Amid(d, q, a) /\ q.inHunk /\ q.inFile /\ ~q.err /\ DoneWith(c, q.files, Behind(a))
  BY <1>2, <1>3 DEF StandsAt
<1>6. Reading(h, q, k, FALSE)
  BY <1>2, <1>3, <1>5 DEF Amid
<1>7. q.hunk.lines = ReadLines(h, k, FALSE) /\ Len(q.hunk.lines) = k
  <2>1. q.hunk.lines = ReadLines(h, k, FALSE)
    BY <1>6 DEF Reading
  <2>3. Len(ReadLines(h, k, FALSE)) = k
    BY <1>4, ReadLinesType
  <2>4. QED
    BY <2>1, <2>3
<1>8. q.hunk.lines # <<>>
  <2>1. Len(<<>>) = 0
    OBVIOUS
  <2>2. QED
    BY <1>4, <1>7, <2>1
<1>9. /\ r.hunk.lines = [q.hunk.lines EXCEPT ![Len(q.hunk.lines)] = [@ EXCEPT !.noNL = TRUE]] /\ r.hunk.claim = q.hunk.claim
      /\ r.oldNo = q.oldNo /\ r.oldRem = q.oldRem /\ r.newNo = q.newNo /\ r.newRem = q.newRem
      /\ r.cur = q.cur /\ SameHeaders(q, r) /\ SameEnds(q, r) /\ SameFiles(q, r) /\ r.inHunk = q.inHunk /\ r.state = q.state
  BY <1>1, <1>5, <1>8, MarkIs
<1>10. r.hunk.lines = ReadLines(h, k, TRUE)
  <2>1. [ReadLines(h, k, FALSE) EXCEPT ![k] = [@ EXCEPT !.noNL = TRUE]] = ReadLines(h, k, TRUE)
    BY <1>3, <1>4, ReadLinesMark
  <2>2. QED
    BY <1>7, <1>9, <2>1
<1> HIDE DEF d, h, r, k
<1>11. Reading(h, r, k, TRUE)
  BY <1>6, <1>9, <1>10 DEF Reading
<1>12. Owes(r) <=> Owes(q)
  BY <1>9 DEF Owes
<1>13. Whole(a) = Whole(b) /\ Begun(a) = Begun(b) /\ Behind(a) = Behind(b)
  BY <1>2, <1>3 DEF Whole, Begun, Behind
<1>14. Amid(d, r, b)
  <2>1. Heard(d, r, Seen(d, b), b.at # "head", b.at = "hunk")
    BY ZenonT(20), <1>2, <1>3, <1>5, <1>9 DEF Amid, Heard, SameHeaders, Seen
  <2>2. Reading(d.hunks[b.h], r, b.k, b.done)
    BY <1>2, <1>11 DEF h, k
  <2>3. Hunks(d, r.cur, Whole(b)) /\ Fair(d, r.cur, Begun(b))
    BY <1>5, <1>9, <1>13 DEF Amid
  <2>4. QED
    BY <2>1, <2>2, <2>3 DEF Amid
<1>15. StandsAt(c, r, b)
  BY <1>2, <1>5, <1>9, <1>13, <1>14 DEF StandsAt, SameFiles, SameEnds, d
<1>16. QED
  BY <1>2, <1>3, <1>5, <1>9, <1>12, <1>15 DEF r

(***************************************************************************)
(* The marker, in the hunk state or past the counts, is put on the line    *)
(* before it.                                                              *)
(***************************************************************************)
LEMMA MarkerStands ==
  ASSUME NEW c \in Seq(FileChange), NEW q, Ready(q), NEW a, Tied(c, q, a), NEW l \in PatchLine, NEW b, IsMarker(c, a, l, b)
  PROVE  Tied(c, Read(q, l), b)
<1> DEFINE t == MarkNoNewline(q)
           r == InBody(q, l)
<1>1. l.head = "\\" /\ l.byte = "\\"
  BY DEF IsMarker, NoNewlineMarker, L
<1>2. StandsAt(c, q, a) /\ StateAt(q, a) /\ q \in Parsers /\ Sound(q)
  BY DEF Tied, Ready
<1>3. /\ StandsAt(c, t, b) /\ Opened(a) /\ Opened(b) /\ b.at = "hunk" /\ a.at = "hunk"
      /\ t.state = q.state /\ (Owes(t) <=> Owes(q)) /\ q.inHunk
  BY <1>2, MarkStands
<1>4. Classified(q, l) = t
  BY <1>1 DEF Classified
<1>5. CASE Owes(q)
  <2>1. q.state = "hunk"
    BY <1>2, <1>3, <1>5 DEF StateAt
  <2>2. Read(q, l) = r
    BY <1>1, <2>1 DEF Read, BodyBytes
  <2>3. /\ SameHeaders(t, r) /\ SameHunk(t, r) /\ SameEnds(t, r) /\ SameFiles(t, r) /\ r.cur = t.cur
        /\ r.state = IF Owes(r) THEN "hunk" ELSE "header"
    BY <1>2, <1>3, <1>4, InBodyIs
  <2> HIDE DEF r, t
  <2>4. StandsAt(c, r, b)
    BY <1>3, <2>3, StandsSame DEF SameEnds, SameNames
  <2>5. StateAt(r, b)
    BY <1>3, <2>3 DEF StateAt
  <2>6. QED
    BY <2>2, <2>4, <2>5 DEF Tied
<1>6. CASE ~Owes(q)
  <2>1. q.state = "header"
    BY <1>2, <1>3, <1>6 DEF StateAt
  <2>2. Read(q, l) = t
    BY <1>1, <2>1 DEF Read, InHeader
  <2> HIDE DEF t
  <2>3. StateAt(t, b)
    BY <1>3, <1>6, <2>1 DEF StateAt
  <2>4. QED
    BY <1>3, <2>2, <2>3 DEF Tied
<1>7. QED
  BY <1>5, <1>6

-----------------------------------------------------------------------------
(* Every line that git writes takes the parser to the next place. *)

Plain(c) == \A h \in AllHunks(c) : ~Mistakable(h)

(***************************************************************************)
(* An open hunk is one of the change.                                      *)
(***************************************************************************)
LEMMA PlainIs ==
  ASSUME NEW c \in Seq(FileChange), NEW a, InPlace(c, a), Opened(a)
  PROVE  c[a.f].hunks[a.h] \in AllHunks(c)
<1>1. HunkOf(c, a.f, a.h)
  BY OpenedIs
<1>2. a.f \in DOMAIN c
  BY <1>1, LenProperties DEF HunkOf, File
<1>3. c[a.f].hunks \in Seq(HunkChange) /\ a.h \in 1..Len(c[a.f].hunks)
  BY <1>1, FilesAre DEF HunkOf
<1>4. a.h \in DOMAIN c[a.f].hunks
  BY <1>3, LenProperties
<1>5. QED
  BY <1>2, <1>4 DEF AllHunks

(***************************************************************************)
(* git's first line for a file takes the parser to the file's headers.     *)
(***************************************************************************)
LEMMA GitReads ==
  ASSUME NEW c \in Seq(FileChange), AllReported(c), NEW q, Ready(q), NEW a, Tied(c, q, a), NEW l, NEW b, IsGit(c, a, l, b)
  PROVE  Tied(c, Read(q, l), b)
<1>1. l.head = "diff --git" /\ l.byte = "d"
  BY DEF IsGit, GitLine, Header, L
<1>2. l.byte \notin BodyBytes /\ (a.at = "hunk" => HunkDone(c, a))
  BY <1>1 DEF BodyBytes, IsGit, Complete
<1>3. PICK s : Ready(s) /\ s.state = "header" /\ StandsAt(c, s, a) /\ Read(q, l) = InHeader(s, l)
  <2>1. q.state = "payload" => l.head \in {"diff --git", "diff --cc"}
    BY <1>1
  <2>2. QED
    BY ZenonT(20), <1>2, <2>1, Resumes
<1>4. StandsAt(c, InHeader(s, l), b) /\ InHeader(s, l).state = "header"
  BY <1>3, GitStands
<1>5. InPlace(c, a)
  BY DEF Tied, StandsAt
<1>6. b.at = "head" /\ b.seen = {}
  BY <1>5, GitStays
<1> DEFINE r == InHeader(s, l)
<1>7. StandsAt(c, r, b) /\ r.state = "header" /\ Read(q, l) = r
  BY <1>3, <1>4
<1> HIDE DEF r
<1>8. StateAt(r, b)
  BY <1>6, <1>7 DEF StateAt, Opened
<1>9. QED
  BY <1>7, <1>8 DEF Tied

(***************************************************************************)
(* A header line, a line of the payload included, takes it on among        *)
(* them.                                                                   *)
(***************************************************************************)
LEMMA HeadReads ==
  ASSUME NEW c \in Seq(FileChange), NEW q, Ready(q), NEW a, Tied(c, q, a), NEW l, NEW b, IsHead(c, a, l, b)
  PROVE  Tied(c, Read(q, l), b)
<1> DEFINE d == c[a.f]
<1>1. StandsAt(c, q, a) /\ StateAt(q, a) /\ InPlace(c, a)
  BY DEF Tied, StandsAt
<1>2. b.at = "head" /\ a.at = "head"
  BY <1>1, HeadStays
<1>3. q.state = IF "git binary" \in a.seen THEN "payload" ELSE "header"
  BY <1>1, <1>2 DEF StateAt, Opened
<1>4. PICK n \in Heads : l = HeadLine(d, n) /\ (n = "body" <=> "git binary" \in a.seen) /\ b = HeadSpot(a.f, a.seen \cup {n}) /\ Needs(d, n)
  BY DEF IsHead
<1>5. l.head = n /\ b.seen = a.seen \cup {n}
  <2>1. HeadLine(d, "body").head = "body"
    BY DEF HeadLine, L
  <2>2. l.head = n
    BY <1>4, <2>1, HeadLineIs
  <2>3. QED
    BY <1>4, <2>2, HeadSpotIs
<1>6. CASE n = "body"
  <2>1. q.state = "payload" /\ "git binary" \in b.seen
    BY <1>3, <1>4, <1>5, <1>6
  <2>2. Read(q, l) = q
    BY <1>5, <1>6, <2>1 DEF Read
  <2>3. StandsAt(c, q, b)
    BY <1>1, <1>5, <1>6, PayloadStands
  <2>4. StateAt(q, b)
    BY <1>2, <2>1 DEF StateAt, Opened
  <2>5. QED
    BY <2>2, <2>3, <2>4 DEF Tied
<1>7. CASE n # "body"
  <2> DEFINE r == InHeader(q, l)
  <2>1. q.state = "header" /\ "git binary" \notin a.seen
    BY <1>3, <1>4, <1>7
  <2>2. Read(q, l) = r
    BY <2>1 DEF Read
  <2>3. StandsAt(c, r, b) /\ r.state = (IF l.head = "git binary" THEN "payload" ELSE q.state)
    BY <1>1, <1>5, <1>7, HeadStands
  <2> HIDE DEF r
  <2>4. StateAt(r, b)
    BY <1>2, <1>5, <2>1, <2>3 DEF StateAt, Opened
  <2>5. QED
    BY <2>2, <2>3, <2>4 DEF Tied
<1>8. QED
  BY <1>6, <1>7

(***************************************************************************)
(* The two names take it to the hunks.                                     *)
(***************************************************************************)
LEMMA NamesRead ==
  ASSUME NEW c \in Seq(FileChange), AllReported(c), NEW q, Ready(q), NEW a, Tied(c, q, a), NEW l, NEW b,
         IsOld(c, a, l, b) \/ IsNew(c, a, l, b)
  PROVE  Tied(c, Read(q, l), b) /\ q.state = "header"
<1> DEFINE r == InHeader(q, l)
<1>1. StandsAt(c, q, a) /\ StateAt(q, a) /\ InPlace(c, a)
  BY DEF Tied, StandsAt
<1>2. q.state = "header"
  <2>1. CASE IsOld(c, a, l, b)
    <3>1. a.at = "head" /\ c[a.f].hunks # <<>>
      BY <2>1 DEF IsOld
    <3>2. File(c, a.f) /\ a.seen \subseteq AllNames(c[a.f])
      BY <1>1, <3>1 DEF InPlace
    <3>3. Reported(c[a.f])
      BY <3>2 DEF AllReported, File
    <3>4. "git binary" \in AllNames(c[a.f]) => c[a.f].binary = "payload"
      BY DEF AllNames, Needs
    <3>5. "git binary" \notin a.seen
      BY <3>1, <3>2, <3>3, <3>4 DEF Reported
    <3>6. QED
      BY <1>1, <3>1, <3>5 DEF StateAt, Opened
  <2>2. CASE IsNew(c, a, l, b)
    <3>1. a.at = "old"
      BY <2>2 DEF IsNew
    <3>2. QED
      BY <1>1, <3>1 DEF StateAt, Opened
  <2>3. QED
    BY <2>1, <2>2
<1>3. Read(q, l) = r
  BY <1>2 DEF Read
<1>4. StandsAt(c, r, b) /\ r.state = q.state
  BY <1>1, OldStands, NewStands
<1>5. b.at = "old" \/ (b.at = "hunk" /\ b.h = 0)
  BY <1>1, OldStays, NewStays
<1> HIDE DEF r
<1>6. StateAt(r, b)
  <2>1. ~Opened(b)
    <3>1. ~(0 > 0)
      OBVIOUS
    <3>2. b.at = "old" => ~Opened(b)
      BY DEF Opened
    <3>3. b.h = 0 => ~Opened(b)
      BY <3>1 DEF Opened
    <3>4. QED
      BY <1>5, <3>2, <3>3
  <2>2. b.at # "head"
    BY <1>5
  <2>3. QED
    BY <1>2, <1>4, <2>1, <2>2 DEF StateAt
<1>7. QED
  BY <1>2, <1>3, <1>4, <1>6 DEF Tied

(***************************************************************************)
(* A hunk's header takes it into the hunk.                                 *)
(***************************************************************************)
LEMMA HunkReads ==
  ASSUME NEW c \in Seq(FileChange), NEW q, Ready(q), NEW a, Tied(c, q, a), NEW l, NEW b, IsHunk(c, a, l, b)
  PROVE  Tied(c, Read(q, l), b)
<1>1. l.byte = "@" /\ HunkDone(c, a)
  BY DEF IsHunk, HunkLine, L
<1>2. StandsAt(c, q, a) /\ StateAt(q, a) /\ InPlace(c, a)
  BY DEF Tied, StandsAt
<1>3. a.at = "hunk" /\ b.at = "hunk" /\ Opened(b)
  BY <1>2, HunkStays
<1>4. q.state # "payload"
  BY <1>2, <1>3 DEF StateAt
<1>5. l.byte \notin BodyBytes
  BY <1>1 DEF BodyBytes
<1>6. PICK s : Ready(s) /\ s.state = "header" /\ StandsAt(c, s, a) /\ Read(q, l) = InHeader(s, l)
  BY ZenonT(20), <1>1, <1>4, <1>5, Resumes
<1> DEFINE r == InHeader(s, l)
<1>7. StandsAt(c, r, b) /\ r.state = (IF Owes(r) THEN "hunk" ELSE "header")
  BY <1>6, HunkStands
<1>8. Read(q, l) = r
  BY <1>6
<1> HIDE DEF r
<1>9. StateAt(r, b)
  BY <1>3, <1>7 DEF StateAt
<1>10. QED
  BY <1>7, <1>8, <1>9 DEF Tied

(***************************************************************************)
(* A line that leads from the parser's place to another takes it there.    *)
(***************************************************************************)
LEMMA Follows ==
  ASSUME NEW c \in Seq(FileChange), AllReported(c), Plain(c), NEW strip \in BOOLEAN, NEW q, Ready(q), NEW a, Tied(c, q, a),
         NEW l \in PatchLine, NEW b, Leads(c, strip, a, l, b), b.at # "cc"
  PROVE  Tied(c, Read(q, l), b)
<1>1. InPlace(c, a)
  BY DEF Tied, StandsAt
<1>2. ~IsCombined(c, a, l, b)
  BY EdgeSpots DEF IsCombined
<1>3. CASE IsGit(c, a, l, b)
  BY <1>3, GitReads
<1>4. CASE IsHead(c, a, l, b)
  BY <1>4, HeadReads
<1>5. CASE IsOld(c, a, l, b) \/ IsNew(c, a, l, b)
  BY <1>5, NamesRead
<1>6. CASE IsHunk(c, a, l, b)
  BY <1>6, HunkReads
<1>7. CASE IsText(c, strip, a, l, b)
  <2>1. Opened(a)
    BY <1>7 DEF IsText, Opened
  <2>2. ~Mistakable(c[a.f].hunks[a.h])
    BY <1>1, <2>1, PlainIs DEF Plain
  <2>3. QED
    BY <1>7, <2>2, TextStands
<1>8. CASE IsMarker(c, a, l, b)
  BY <1>8, MarkerStands
<1>9. QED
  BY <1>2, <1>3, <1>4, <1>5, <1>6, <1>7, <1>8 DEF Leads

(***************************************************************************)
(* A line that leads into a combined diff from elsewhere ends the          *)
(* reading.                                                                *)
(***************************************************************************)
LEMMA Refuses ==
  ASSUME NEW c \in Seq(FileChange), NEW q, Ready(q), NEW a, Tied(c, q, a), NEW l, NEW b, IsCombined(c, a, l, b)
  PROVE  Read(q, l).err
<1>1. a.at # "cc" /\ InPlace(c, a)
  BY DEF Tied, StandsAt
<1>2. l.head = "diff --cc" /\ Complete(c, a)
  BY <1>1, EdgeSpots DEF IsCombined
<1>3. (a.at = "hunk" => HunkDone(c, a)) /\ l.byte \notin BodyBytes
  BY <1>1, <1>2, EdgeSpots DEF Complete, IsCombined, BodyBytes
<1>4. PICK s : Ready(s) /\ s.state = "header" /\ StandsAt(c, s, a) /\ Read(q, l) = InHeader(s, l)
  <2>1. q.state = "payload" => l.head \in {"diff --git", "diff --cc"}
    BY <1>2
  <2>4. \E s : Ready(s) /\ s.state = "header" /\ StandsAt(c, s, a) /\ Read(q, l) = InHeader(s, l)
    BY ZenonT(20), <1>3, <2>1, Resumes
  <2>5. QED
    BY <2>4
<1>5. InHeader(s, l) = [s EXCEPT !.err = TRUE]
  BY <1>2 DEF InHeader
<1>6. s \in Parsers
  BY <1>4 DEF Ready
<1>7. [s EXCEPT !.err = TRUE].err
  BY <1>6 DEF Parsers
<1>8. QED
  BY <1>4, <1>5, <1>7

-----------------------------------------------------------------------------
(* What the parser holds: no line and no file is added or dropped unseen. *)

\* All lines that the parser holds, of the files it has closed, of the current
\* one and of the open hunk; how many files these are.
All(q)   == Shown(q.files) \o (BodyOf(q.cur.hunks) \o q.hunk.lines)
Count(q) == Len(q.files) + (IF q.inFile THEN 1 ELSE 0)

\* Outside a file there is none, and nothing was refused.
Neat(q) == (~q.inFile => q.cur = NoFile) /\ ~q.err
Fit(q)  == q \in Parsers /\ Sound(q) /\ Neat(q)

\* A step that neither adds nor drops a line or a file.
Quiet(q, r) == Neat(r) /\ All(r) = All(q) /\ (q.inFile => Count(r) = Count(q))

(***************************************************************************)
(* Nothing is added or dropped where the files, the hunks and the lines    *)
(* are the same.                                                           *)
(***************************************************************************)
LEMMA QuietSame ==
  ASSUME NEW q, NEW r, Neat(q), r.files = q.files, r.inFile = q.inFile, r.inFile, r.cur.hunks = q.cur.hunks,
         r.hunk = q.hunk, r.err = q.err
  PROVE  Quiet(q, r)
  BY DEF Quiet, Neat, All, Count

(***************************************************************************)
(* Two such steps, one after the other.                                    *)
(***************************************************************************)
LEMMA QuietBoth ==
  ASSUME NEW q, NEW r, NEW s, Quiet(q, r), Quiet(r, s), q.inFile => r.inFile
  PROVE  Quiet(q, s)
  BY DEF Quiet

(***************************************************************************)
(* A file is begun where none is current.                                  *)
(***************************************************************************)
LEMMA FileQuiet ==
  ASSUME NEW q, Fit(q), ~q.closed
  PROVE  LET r == InFile(q) IN
         Fit(r) /\ r.inFile /\ ~r.closed /\ Quiet(q, r) /\ r.inHunk = q.inHunk /\ r.state = q.state
<1> DEFINE r == InFile(q)
<1>1. q \in Parsers /\ Sound(q) /\ Neat(q)
  BY DEF Fit
<1>2. r \in Parsers /\ Sound(r) /\ ~r.closed /\ r.inFile /\ r.inHunk = q.inHunk /\ r.state = q.state
  BY <1>1, InFileKeeps DEF Keeps
<1>3. CASE q.inFile
  <2>1. r = q
    BY <1>3 DEF InFile
  <2>2. Quiet(q, r)
    BY <1>1, <2>1 DEF Quiet
  <2> HIDE DEF r
  <2>3. QED
    BY <1>1, <1>2, <2>1, <2>2 DEF Fit, r
<1>4. CASE ~q.inFile
  <2>1. r = StartFile(q)
    BY <1>4 DEF InFile
  <2>2. r.files = q.files /\ r.inFile = TRUE /\ r.cur = NoFile /\ r.hunk = NoHunk /\ r.err = FALSE
    BY <2>1, StartFileIs
  <2>3. q.cur = NoFile /\ q.hunk = NoHunk
    BY <1>1, <1>4 DEF Neat, Sound
  <2> HIDE DEF r
  <2>4. All(r) = All(q)
    BY <2>2, <2>3 DEF All
  <2>5. Neat(r)
    BY <2>2 DEF Neat
  <2>6. Quiet(q, r)
    BY <1>4, <2>4, <2>5 DEF Quiet
  <2>7. QED
    BY <1>2, <2>5, <2>6 DEF Fit, r
<1>5. QED
  BY <1>3, <1>4

(***************************************************************************)
(* So it is for a warning.                                                 *)
(***************************************************************************)
LEMMA FlagQuiet ==
  ASSUME NEW q, Fit(q), ~q.closed, NEW msg \in Warnings
  PROVE  LET r == Flag(q, msg) IN Fit(r) /\ r.inFile /\ ~r.closed /\ Quiet(q, r) /\ r.inHunk = q.inHunk /\ r.state = q.state
<1> DEFINE g == InFile(q)
           r == Flag(g, msg)
<1>1. Fit(g) /\ g.inFile /\ ~g.closed /\ Quiet(q, g) /\ g.inHunk = q.inHunk /\ g.state = q.state
  BY FileQuiet
<1>2. InFile(g) = g
  BY <1>1 DEF InFile
<1>3. Flag(q, msg) = r
  BY <1>2 DEF Flag
<1> HIDE DEF g
<1>4. g \in Parsers /\ Sound(g) /\ Neat(g)
  BY <1>1 DEF Fit
<1>5. r.cur.hunks = g.cur.hunks /\ SameHunk(g, r) /\ SameEnds(g, r) /\ SameFiles(g, r) /\ r.state = g.state
  BY <1>1, <1>4, FlagIs
<1>6. r \in Parsers /\ Sound(r)
  BY <1>1, <1>4, FlagKeeps DEF Keeps
<1> HIDE DEF r
<1>7. Quiet(g, r)
  BY <1>1, <1>4, <1>5, QuietSame DEF SameHunk, SameEnds, SameFiles
<1>8. Quiet(q, r)
  BY <1>1, <1>7, QuietBoth
<1>9. QED
  BY <1>1, <1>3, <1>5, <1>6, <1>8 DEF Fit, Quiet, SameHunk, SameEnds, SameFiles

(***************************************************************************)
(* Closing a hunk moves its lines to the file's.                           *)
(***************************************************************************)
LEMMA HunkQuiet ==
  ASSUME NEW q, Fit(q), ~q.closed
  PROVE  LET r == CloseHunk(q) IN r \in Parsers /\ Quiet(q, r) /\ r.hunk = NoHunk /\ r.files = q.files /\ r.inFile = q.inFile
                                  /\ Tally(r.cur, NoHunk)
<1> DEFINE r == CloseHunk(q)
<1>1. q \in Parsers /\ Sound(q) /\ Neat(q)
  BY DEF Fit
<1>2. r \in Parsers /\ r.inFile = q.inFile /\ r.hunk = NoHunk /\ r.files = q.files /\ Tally(r.cur, NoHunk)
  BY <1>1, CloseHunkKeeps
<1>3. CASE ~q.inHunk
  <2>1. r = q
    BY <1>3 DEF CloseHunk
  <2> HIDE DEF r
  <2>2. Quiet(q, r)
    BY <1>1, <2>1 DEF Quiet
  <2>3. QED
    BY <1>2, <2>2 DEF r
<1>4. CASE q.inHunk
  <2> DEFINE S == Shown(q.files)
             hs == q.cur.hunks
             h == q.hunk
             T == ParsedLine
             B == BodyOf(hs)
             ls == h.lines
  <2>1. r.cur.hunks = Append(hs, h) /\ SameEnds(q, r)
    BY <1>1, <1>4, CloseHunkIs
  <2>2. hs \in Seq(ParsedHunk) /\ h \in ParsedHunk
    BY <1>1 DEF Parsers, ParsedFile
  <2>3. BodyOf(Append(hs, h)) = B \o ls
    BY <2>2, BodyAppend
  <2>4. B \in Seq(T) /\ ls \in Seq(T)
    BY <2>2, BodyType, FieldTypes
  <2>5. NoHunk.lines = <<>>
    BY Nothing
  <2>6. B \o ls \in Seq(T)
    <3> HIDE DEF B, ls, T
    <3>1. QED
      BY <2>4, ConcatProperties
  <2>7. (B \o ls) \o <<>> = B \o ls
    <3> HIDE DEF B, ls, T
    <3>1. QED
      BY <2>6, ConcatEmptySeq
  <2> HIDE DEF r, hs, h, B, ls
  <2>8. All(r) = S \o ((B \o ls) \o <<>>)
    BY <1>2, <2>1, <2>3, <2>5 DEF All
  <2>9. All(q) = S \o (B \o ls)
    BY DEF All, B, ls, hs, h
  <2>10. All(r) = All(q)
    BY <2>7, <2>8, <2>9
  <2>11. Neat(r)
    BY <1>1, <1>2, <1>4, <2>1 DEF Neat, SameEnds, Sound
  <2>12. Quiet(q, r)
    BY <1>2, <2>10, <2>11 DEF Quiet, Count
  <2>13. QED
    BY <1>2, <2>12 DEF r
<1>5. QED
  BY <1>3, <1>4

(***************************************************************************)
(* Naming a file leaves its hunks alone.                                   *)
(***************************************************************************)
LEMMA SealedHunks ==
  ASSUME NEW q \in Parsers
  PROVE  Sealed(Named(q), q).hunks = q.cur.hunks
<1> DEFINE f == q.cur
           g == Named(q)
           x == Sealed(g, q)
           old == IF q.cur.old = "" /\ ~q.sawOldNull THEN q.hdrOld ELSE q.cur.old
           new == IF q.cur.new = "" /\ ~q.sawNewNull THEN q.hdrNew ELSE q.cur.new
           s == IF q.sawModeLine /\ g.hunks = <<>> /\ ~g.binary THEN "mode" ELSE "modified"
<1>1. f \in ParsedFile
  BY DEF Parsers
<1>2. g = [f EXCEPT !.new = "(unknown path)", !.flags = @ \cup {"names no path"}] \/ g = [f EXCEPT !.old = old, !.new = new]
  BY DEF Named
<1> HIDE DEF old, new, g
<1>3. g.hunks = f.hunks
  BY <1>1, <1>2 DEF ParsedFile
<1>4. x = g \/ x = [g EXCEPT !.status = s]
  BY DEF Sealed
<1> HIDE DEF s, x
<1>5. x.hunks = g.hunks
  <2>1. DOMAIN g = DOMAIN f
    BY <1>1, <1>2 DEF ParsedFile
  <2>2. "status" \in DOMAIN g /\ "hunks" \in DOMAIN g
    BY <1>1, <2>1 DEF ParsedFile
  <2>3. QED
    BY <1>4, <2>2
<1>6. QED
  BY <1>3, <1>5 DEF x, g, f

(***************************************************************************)
(* Closing a file moves its lines to the files'.                           *)
(***************************************************************************)
LEMMA CloseQuiet ==
  ASSUME NEW q, Fit(q), ~q.closed, q.state # "hunk" \/ q.inFile
  PROVE  LET r == CloseFile(q) IN
         /\ Fit(r) /\ Neat(r) /\ All(r) = All(q) /\ Count(r) = Count(q) /\ ~r.inFile /\ ~r.closed /\ r.state # "hunk"
         /\ All(r) = Shown(r.files) /\ Count(r) = Len(r.files)
<1> DEFINE r == CloseFile(q)
           c == CloseHunk(q)
           x == Sealed(Named(c), c)
<1>1. q \in Parsers /\ Sound(q) /\ Neat(q)
  BY DEF Fit
<1>2. r \in Parsers /\ Sound(r) /\ ~r.closed /\ r.state # "hunk"
  BY <1>1, CloseFileKeeps DEF Keeps
<1>3. NoHunk.lines = <<>> /\ BodyOf(NoFile.hunks) = <<>>
  <2>1. NoFile.hunks = <<>>
    BY DEF NoFile
  <2>2. QED
    BY <2>1, BodyEmpty, Nothing
<1>4. r.inFile = FALSE /\ r.cur = NoFile /\ r.hunk = NoHunk
  <2>1. CASE q.inFile
    BY <1>1, <2>1, CloseFileIs
  <2>2. CASE ~q.inFile
    <3>1. r = q
      BY <2>2 DEF CloseFile
    <3>2. q.inFile = FALSE /\ q.inHunk = FALSE
      BY <1>1, <2>2 DEF Parsers, Sound
    <3>3. q.cur = NoFile /\ q.hunk = NoHunk
      BY <1>1, <2>2, <3>2 DEF Neat, Sound
    <3> HIDE DEF r
    <3>4. QED
      BY <3>1, <3>2, <3>3
  <2>3. QED
    BY <2>1, <2>2
<1>5. r.files \in Seq(ParsedFile)
  BY <1>2 DEF Parsers
<1> HIDE DEF r
<1>6. All(r) = Shown(r.files) /\ Count(r) = Len(r.files)
  <2> DEFINE S == Shown(r.files)
             e == <<>>
             T == ParsedLine
  <2>1. S \in Seq(T)
    BY <1>5, ShownType
  <2>2. Len(r.files) \in Nat
    BY <1>5, LenProperties
  <2> HIDE DEF S, T
  <2>3. S \o <<>> = S
    BY <2>1, ConcatEmptySeq
  <2>4. e \o e = e
    OBVIOUS
  <2>5. All(r) = S \o (e \o e)
    BY <1>3, <1>4 DEF All, S
  <2>6. All(r) = S
    BY <2>3, <2>4, <2>5
  <2>7. Count(r) = Len(r.files)
    <3> DEFINE n == Len(r.files)
    <3>1. Count(r) = n + 0
      BY <1>4 DEF Count
    <3> HIDE DEF n
    <3>2. n + 0 = n
      BY <2>2 DEF n
    <3>3. QED
      BY <3>1, <3>2 DEF n
  <2>8. QED
    BY <2>6, <2>7 DEF S
<1>7. CASE ~q.inFile
  <2>1. r = q
    BY <1>7 DEF CloseFile, r
  <2>2. QED
    BY <1>1, <1>2, <1>4, <1>6, <2>1 DEF Fit, r
<1>8. CASE q.inFile
  <2>1. /\ c \in Parsers /\ r.files = Append(q.files, x) /\ r.err = c.err
    BY <1>1, <1>8, CloseFileIs DEF r
  <2>2. /\ Quiet(q, c) /\ c.hunk = NoHunk /\ c.files = q.files /\ c.inFile = q.inFile /\ Tally(c.cur, NoHunk)
    BY HunkQuiet
  <2>3. x \in ParsedFile
    BY <2>1, <2>2, SealedNamed
  <2>4. x.hunks = c.cur.hunks
    BY <2>1, SealedHunks
  <2> HIDE DEF x, c
  <2>5. q.files \in Seq(ParsedFile) /\ c.cur.hunks \in Seq(ParsedHunk)
    BY <1>1, <2>1 DEF Parsers, ParsedFile
  <2>6. Shown(r.files) = Shown(q.files) \o BodyOf(c.cur.hunks)
    BY <2>1, <2>3, <2>4, <2>5, ShownAppend
  <2>7. All(c) = Shown(q.files) \o (BodyOf(c.cur.hunks) \o <<>>)
    BY <1>3, <2>2 DEF All
  <2>8. BodyOf(c.cur.hunks) \o <<>> = BodyOf(c.cur.hunks)
    <3> DEFINE B == BodyOf(c.cur.hunks)
               T == ParsedLine
    <3>1. B \in Seq(T)
      BY <2>5, BodyType
    <3> HIDE DEF B, T
    <3>2. B \o <<>> = B
      BY <3>1, ConcatEmptySeq
    <3>3. QED
      BY <3>2 DEF B
  <2>9. All(r) = All(q)
    BY <1>6, <2>2, <2>6, <2>7, <2>8 DEF Quiet
  <2>10. Len(r.files) = Len(q.files) + 1
    BY <2>1, <2>3, <2>5, AppendProperties
  <2>11. Count(r) = Count(q)
    BY <1>6, <1>8, <2>10 DEF Count
  <2>12. Neat(r)
    BY <1>4, <2>1, <2>2 DEF Neat, Quiet
  <2>13. QED
    BY <1>2, <1>4, <1>6, <2>9, <2>11, <2>12 DEF Fit, r
<1>9. QED
  BY <1>7, <1>8

(***************************************************************************)
(* startFile adds a file, and no line.                                     *)
(***************************************************************************)
LEMMA StartQuiet ==
  ASSUME NEW q, Fit(q), ~q.closed, ~q.inFile, q.state # "hunk"
  PROVE  LET r == StartFile(q) IN
         Fit(r) /\ r.inFile /\ ~r.closed /\ All(r) = All(q) /\ Count(r) = Count(q) + 1 /\ r.state = q.state
<1> DEFINE r == StartFile(q)
<1>1. q \in Parsers /\ Sound(q) /\ Neat(q)
  BY DEF Fit
<1>2. InFile(q) = r
  BY DEF InFile
<1>3. Fit(r) /\ r.inFile /\ ~r.closed /\ Quiet(q, r) /\ r.state = q.state
  BY <1>2, FileQuiet
<1>4. r.files = q.files /\ r.inFile = TRUE
  BY StartFileIs
<1> HIDE DEF r
<1>5. Count(r) = Count(q) + 1
  <2> DEFINE n == Len(q.files)
  <2>1. n \in Nat
    <3>1. q.files \in Seq(ParsedFile)
      BY <1>1 DEF Parsers
    <3>2. QED
      BY <3>1, LenProperties
  <2>2. Count(r) = n + 1 /\ Count(q) = n + 0
    BY <1>4 DEF Count
  <2> HIDE DEF n
  <2>3. QED
    BY <2>1, <2>2
<1>6. QED
  BY <1>3, <1>5 DEF Quiet, r

(***************************************************************************)
(* Only a warning or the state is set.                                     *)
(***************************************************************************)
LEMMA StateQuiet ==
  ASSUME NEW q, Fit(q), NEW s \in {"header", "hunk", "payload"}, s = "hunk" => q.inHunk
  PROVE  LET r == [q EXCEPT !.state = s] IN
         Fit(r) /\ Quiet(q, r) /\ r.closed = q.closed /\ r.inFile = q.inFile /\ r.inHunk = q.inHunk /\ r.state = s
<1> DEFINE r == [q EXCEPT !.state = s]
<1>1. q \in Parsers /\ Sound(q) /\ Neat(q)
  BY DEF Fit
<1>2. SameHunk(q, r) /\ SameEnds(q, r) /\ SameFiles(q, r) /\ r.cur = q.cur /\ r.state = s
  BY <1>1, StateIs
<1>3. r \in Parsers /\ Sound(r)
  BY <1>1, StateKeeps DEF Keeps
<1> HIDE DEF r
<1>4. r.files = q.files /\ r.inFile = q.inFile /\ r.hunk = q.hunk /\ r.err = q.err /\ r.closed = q.closed /\ r.inHunk = q.inHunk
  BY <1>2 DEF SameHunk, SameEnds, SameFiles
<1>5. Neat(r) /\ All(r) = All(q) /\ Count(r) = Count(q)
  BY <1>1, <1>2, <1>4 DEF Neat, All, Count
<1>6. QED
  BY <1>2, <1>3, <1>4, <1>5 DEF Quiet, Fit, r

(***************************************************************************)
(* An extended header adds neither.                                        *)
(***************************************************************************)
LEMMA ExtendedQuiet ==
  ASSUME NEW q, Fit(q), NEW l \in PatchLine
  PROVE  LET r == Extended(q, l) IN Fit(r) /\ Quiet(q, r) /\ r.closed = q.closed /\ r.inFile = q.inFile /\ r.inHunk = q.inHunk
<1> DEFINE r == Extended(q, l)
           e == l.text
           f == q.cur
<1>1. q \in Parsers /\ Sound(q) /\ Neat(q)
  BY DEF Fit
<1>2. r \in Parsers /\ Sound(r)
  BY <1>1, ExtendedKeeps DEF Keeps
<1> HIDE DEF e
<1>3. \/ r = q
      \/ q.inFile /\ \E g, m : r = [q EXCEPT !.cur = g, !.sawModeLine = m] /\ g.hunks = f.hunks
  <2>1. f \in ParsedFile
    BY <1>1 DEF Parsers
  <2>2. SUFFICES ASSUME q.inFile PROVE r = q \/ \E g, m : r = [q EXCEPT !.cur = g, !.sawModeLine = m] /\ g.hunks = f.hunks
    BY DEF Extended
  <2> DEFINE g1 == [f EXCEPT !.status = "added", !.newMode = e]
             g2 == [f EXCEPT !.status = "deleted", !.oldMode = e]
             g3 == [f EXCEPT !.oldMode = e]
             g4 == [f EXCEPT !.newMode = e]
             g5 == [f EXCEPT !.status = "renamed", !.old = e]
             g6 == [f EXCEPT !.status = "renamed", !.new = e]
             g7 == [f EXCEPT !.status = "copied", !.old = e]
             g8 == [f EXCEPT !.status = "copied", !.new = e]
             g9 == [f EXCEPT !.oldMode = e, !.newMode = e]
             g10 == [f EXCEPT !.binary = TRUE]
             m0 == q.sawModeLine
             Is(g, m) == r = [q EXCEPT !.cur = g, !.sawModeLine = m]
  <2>3. /\ g1.hunks = f.hunks /\ g2.hunks = f.hunks /\ g3.hunks = f.hunks /\ g4.hunks = f.hunks /\ g5.hunks = f.hunks
        /\ g6.hunks = f.hunks /\ g7.hunks = f.hunks /\ g8.hunks = f.hunks /\ g9.hunks = f.hunks /\ g10.hunks = f.hunks
    BY <2>1 DEF ParsedFile
  <2>4. CASE l.head = "new file mode"
    <3>1. r = [q EXCEPT !.cur.status = "added", !.cur.newMode = e]
      BY <2>2, <2>4 DEF Extended, e
    <3>2. Is(g1, m0)
      BY <1>1, <2>1, <3>1 DEF Parsers, ParsedFile
    <3>3. QED
      BY <2>3, <3>2
  <2>5. CASE l.head = "deleted file mode"
    <3>1. r = [q EXCEPT !.cur.status = "deleted", !.cur.oldMode = e]
      BY <2>2, <2>5 DEF Extended, e
    <3>2. Is(g2, m0)
      BY <1>1, <2>1, <3>1 DEF Parsers, ParsedFile
    <3>3. QED
      BY <2>3, <3>2
  <2>6. CASE l.head = "old mode"
    <3> DEFINE yes == TRUE
    <3>1. r = [q EXCEPT !.cur.oldMode = e, !.sawModeLine = yes]
      BY <2>2, <2>6 DEF Extended, e
    <3> HIDE DEF yes
    <3>2. Is(g3, yes)
      BY <1>1, <2>1, <3>1 DEF Parsers, ParsedFile
    <3>3. QED
      BY <2>3, <3>2
  <2>7. CASE l.head = "new mode"
    <3> DEFINE yes == TRUE
    <3>1. r = [q EXCEPT !.cur.newMode = e, !.sawModeLine = yes]
      BY <2>2, <2>7 DEF Extended, e
    <3> HIDE DEF yes
    <3>2. Is(g4, yes)
      BY <1>1, <2>1, <3>1 DEF Parsers, ParsedFile
    <3>3. QED
      BY <2>3, <3>2
  <2>8. CASE l.head = "renamed from"
    <3>1. r = [q EXCEPT !.cur.status = "renamed", !.cur.old = e]
      BY <2>2, <2>8 DEF Extended, e
    <3>2. Is(g5, m0)
      BY <1>1, <2>1, <3>1 DEF Parsers, ParsedFile
    <3>3. QED
      BY <2>3, <3>2
  <2>9. CASE l.head = "renamed to"
    <3>1. r = [q EXCEPT !.cur.status = "renamed", !.cur.new = e]
      BY <2>2, <2>9 DEF Extended, e
    <3>2. Is(g6, m0)
      BY <1>1, <2>1, <3>1 DEF Parsers, ParsedFile
    <3>3. QED
      BY <2>3, <3>2
  <2>10. CASE l.head = "copied from"
    <3>1. r = [q EXCEPT !.cur.status = "copied", !.cur.old = e]
      BY <2>2, <2>10 DEF Extended, e
    <3>2. Is(g7, m0)
      BY <1>1, <2>1, <3>1 DEF Parsers, ParsedFile
    <3>3. QED
      BY <2>3, <3>2
  <2>11. CASE l.head = "copied to"
    <3>1. r = [q EXCEPT !.cur.status = "copied", !.cur.new = e]
      BY <2>2, <2>11 DEF Extended, e
    <3>2. Is(g8, m0)
      BY <1>1, <2>1, <3>1 DEF Parsers, ParsedFile
    <3>3. QED
      BY <2>3, <3>2
  <2>12. CASE l.head = "index" /\ e # "" /\ f.oldMode = "" /\ f.newMode = ""
    <3>1. r = [q EXCEPT !.cur.oldMode = e, !.cur.newMode = e]
      BY <2>2, <2>12 DEF Extended, e
    <3>2. Is(g9, m0)
      BY <1>1, <2>1, <3>1 DEF Parsers, ParsedFile
    <3>3. QED
      BY <2>3, <3>2
  <2>13. CASE l.head \in {"binary differ", "git binary"}
    <3>1. r = [q EXCEPT !.cur.binary = TRUE]
      BY <2>2, <2>13 DEF Extended
    <3>2. Is(g10, m0)
      BY <1>1, <2>1, <3>1 DEF Parsers, ParsedFile
    <3>3. QED
      BY <2>3, <3>2
  <2>14. CASE /\ l.head \notin {"new file mode", "deleted file mode", "old mode", "new mode", "renamed from", "renamed to",
                               "copied from", "copied to", "binary differ", "git binary"}
              /\ ~(l.head = "index" /\ e # "" /\ f.oldMode = "" /\ f.newMode = "")
    <3>1. r = q
      BY <2>2, <2>14 DEF Extended, e
    <3>2. QED
      BY <3>1
  <2>15. QED
    BY <2>4, <2>5, <2>6, <2>7, <2>8, <2>9, <2>10, <2>11, <2>12, <2>13, <2>14
<1> HIDE DEF r, f
<1>4. r.files = q.files /\ r.inFile = q.inFile /\ r.hunk = q.hunk /\ r.err = q.err /\ r.closed = q.closed /\ r.inHunk = q.inHunk
  BY <1>1, <1>3 DEF Parsers
<1>5. r.cur.hunks = q.cur.hunks
  BY <1>1, <1>3 DEF Parsers, f
<1>6. CASE r = q
  <2>1. Quiet(q, r)
    BY <1>1, <1>6 DEF Quiet
  <2>2. QED
    BY <1>1, <1>2, <1>4, <2>1 DEF Fit, Quiet, r
<1>7. CASE r # q
  <2>1. q.inFile
    BY <1>3, <1>7
  <2>2. Quiet(q, r)
    BY <1>1, <1>4, <1>5, <2>1, QuietSame
  <2>3. QED
    BY <1>2, <1>4, <2>2 DEF Fit, Quiet, r
<1>8. QED
  BY <1>6, <1>7

(***************************************************************************)
(* Nor does a new name.                                                    *)
(***************************************************************************)
LEMMA NewHeaderQuiet ==
  ASSUME NEW q, Fit(q), ~q.closed, NEW path \in Words
  PROVE  LET r == NewHeader(q, path) IN Fit(r) /\ Quiet(q, r) /\ r.inFile
<1> DEFINE r == NewHeader(q, path)
           g == InFile(q)
<1>1. q \in Parsers /\ Sound(q)
  BY DEF Fit
<1>2. Fit(g) /\ g.inFile /\ Quiet(q, g)
  BY FileQuiet
<1>3. r \in Parsers /\ Sound(r)
  BY <1>1, NewHeaderKeeps DEF Keeps
<1>4. r = [g EXCEPT !.sawNewNull = TRUE] \/ r = [g EXCEPT !.cur.new = path]
  BY DEF NewHeader
<1> HIDE DEF g, r
<1>5. g \in Parsers /\ Neat(g)
  BY <1>2 DEF Fit
<1>6. r.files = g.files /\ r.inFile = g.inFile /\ r.hunk = g.hunk /\ r.err = g.err
  BY <1>4, <1>5 DEF Parsers
<1>7. r.cur.hunks = g.cur.hunks
  <2>1. g.cur \in ParsedFile
    BY <1>5 DEF Parsers
  <2>2. r.cur = g.cur \/ r.cur = [g.cur EXCEPT !.new = path]
    BY <1>4, <1>5 DEF Parsers
  <2>3. QED
    BY <2>1, <2>2 DEF ParsedFile
<1>8. Quiet(g, r)
  BY <1>2, <1>5, <1>6, <1>7, QuietSame
<1>9. Quiet(q, r)
  BY <1>2, <1>8, QuietBoth
<1>10. QED
  BY <1>2, <1>3, <1>6, <1>9 DEF Fit, Quiet, r

(***************************************************************************)
(* An old name adds no line, and a file only where one had an old name,    *)
(* or a hunk open, before it.                                              *)
(***************************************************************************)
LEMMA OldHeaderQuiet ==
  ASSUME NEW q, Fit(q), ~q.closed, q.state = "header", NEW path \in Words
  PROVE  LET r == OldHeader(q, path) IN
         Fit(r) /\ All(r) = All(q) /\ (q.inFile /\ ~q.sawOldHeader /\ ~q.inHunk => Count(r) = Count(q))
<1> DEFINE r == OldHeader(q, path)
           s == CloseFile(q)
           t == StartFile(s)
           g == IF ~q.inFile \/ q.sawOldHeader \/ q.inHunk THEN t ELSE q
<1>1. q \in Parsers /\ Sound(q)
  BY DEF Fit
<1>2. Fit(s) /\ All(s) = All(q) /\ ~s.inFile /\ ~s.closed /\ s.state # "hunk"
  BY CloseQuiet
<1>3. Fit(t) /\ t.inFile /\ All(t) = All(s)
  BY <1>2, StartQuiet
<1>4. r \in Parsers /\ Sound(r)
  BY <1>1, OldHeaderKeeps DEF Keeps
<1>5. r = [g EXCEPT !.sawOldHeader = TRUE, !.sawOldNull = TRUE] \/ r = [g EXCEPT !.sawOldHeader = TRUE, !.cur.old = path]
  BY DEF OldHeader
<1> HIDE DEF t, s, r
<1>6. Fit(g) /\ g.inFile /\ All(g) = All(q) /\ (q.inFile /\ ~q.sawOldHeader /\ ~q.inHunk => g = q)
  <2>1. CASE ~q.inFile \/ q.sawOldHeader \/ q.inHunk
    BY <1>2, <1>3, <2>1
  <2>2. CASE ~(~q.inFile \/ q.sawOldHeader \/ q.inHunk)
    BY <2>2
  <2>3. QED
    BY <2>1, <2>2
<1> HIDE DEF g
<1>7. g \in Parsers /\ Neat(g)
  BY <1>6 DEF Fit
<1>8. r.files = g.files /\ r.inFile = g.inFile /\ r.hunk = g.hunk /\ r.err = g.err
  BY <1>5, <1>7 DEF Parsers
<1>9. r.cur.hunks = g.cur.hunks
  <2>1. g.cur \in ParsedFile
    BY <1>7 DEF Parsers
  <2>2. r.cur = g.cur \/ r.cur = [g.cur EXCEPT !.old = path]
    BY <1>5, <1>7 DEF Parsers
  <2>3. QED
    BY <2>1, <2>2 DEF ParsedFile
<1>10. Quiet(g, r)
  BY <1>6, <1>7, <1>8, <1>9, QuietSame
<1>11. QED
  BY <1>4, <1>6, <1>10 DEF Fit, Quiet, r

(***************************************************************************)
(* A hunk's header adds neither a line nor a file.                         *)
(***************************************************************************)
LEMMA OpenQuiet ==
  ASSUME NEW q, Fit(q), ~q.closed, q.state = "header", NEW claim \in Claims
  PROVE  LET r == OpenHunk(q, claim) IN Fit(r) /\ Quiet(q, r) /\ r.inFile
<1> DEFINE r == OpenHunk(q, claim)
           g == InFile(q)
           c == CloseHunk(g)
<1>1. q \in Parsers /\ Sound(q)
  BY DEF Fit
<1>2. Fit(g) /\ g.inFile /\ Quiet(q, g) /\ ~g.closed
  BY FileQuiet
<1>3. r \in Parsers /\ Sound(r)
  BY <1>1, OpenHunkKeeps DEF Keeps
<1>4. InFile(g) = g
  BY <1>2 DEF InFile
<1>5. OpenHunk(g, claim) = r
  BY <1>4 DEF OpenHunk
<1> HIDE DEF g, r
<1>6. g \in Parsers /\ Sound(g)
  BY <1>2 DEF Fit
<1>7. /\ r.hunk = [claim |-> Given(claim), lines |-> <<>>]
      /\ r.cur.hunks = c.cur.hunks /\ SameEnds(c, r) /\ SameFiles(c, r)
  BY <1>2, <1>5, <1>6, OpenHunkIs
<1>8. Quiet(g, c) /\ c.hunk = NoHunk /\ c.files = g.files /\ c.inFile = g.inFile
  BY <1>2, HunkQuiet
<1> HIDE DEF c
<1>9. r.hunk.lines = <<>> /\ c.hunk.lines = <<>>
  <2> DEFINE x == Given(claim)
  <2>1. r.hunk = [claim |-> x, lines |-> <<>>]
    BY <1>7
  <2> HIDE DEF x
  <2>2. r.hunk.lines = <<>>
    BY ONLY <2>1
  <2>3. QED
    BY <1>8, <2>2, Nothing
<1>10. All(r) = All(c)
  BY <1>7, <1>9 DEF All, SameFiles
<1>11. Neat(r) /\ Count(r) = Count(c) /\ r.inFile
  BY <1>2, <1>7, <1>8 DEF Neat, SameFiles, SameEnds, Count, Quiet
<1>12. Quiet(q, r)
  BY <1>2, <1>8, <1>10, <1>11 DEF Quiet
<1>13. QED
  BY <1>3, <1>11, <1>12 DEF Fit, r

\* The same kinds and texts, whatever else the lines are.
SameText(s, t) == Len(s) = Len(t) /\ \A i \in 1..Len(t) : s[i].kind = t[i].kind /\ s[i].text = t[i].text

(***************************************************************************)
(* Lines of the same text behind the same lines.                           *)
(***************************************************************************)
LEMMA TextCat ==
  ASSUME NEW T, NEW s \in Seq(T), NEW t \in Seq(T), NEW u \in Seq(T), SameText(t, u)
  PROVE  SameText(s \o t, s \o u)
<1> DEFINE m == Len(s)
           n == Len(t)
           x == s \o t
           y == s \o u
<1>1. /\ m \in Nat /\ n \in Nat /\ Len(x) = m + n /\ Len(y) = m + n /\ Len(u) = n
      /\ (\A i \in 1..m : x[i] = s[i]) /\ (\A i \in 1..n : x[m + i] = t[i])
      /\ (\A i \in 1..m : y[i] = s[i]) /\ (\A i \in 1..n : y[m + i] = u[i])
  <2>1. m \in Nat /\ n \in Nat /\ Len(x) = m + n /\ (\A i \in 1..m : x[i] = s[i]) /\ (\A i \in 1..n : x[m + i] = t[i])
    BY CatIs
  <2>2. Len(u) = n
    BY DEF SameText
  <2>3. Len(y) = m + Len(u) /\ (\A i \in 1..m : y[i] = s[i]) /\ (\A i \in 1..Len(u) : y[m + i] = u[i])
    BY CatIs
  <2>4. QED
    BY <2>1, <2>2, <2>3
<1>2. \A i \in 1..n : t[i].kind = u[i].kind /\ t[i].text = u[i].text
  BY DEF SameText
<1> HIDE DEF m, n, x, y
<1>3. ASSUME NEW i \in 1..(m + n) PROVE x[i].kind = y[i].kind /\ x[i].text = y[i].text
  <2>1. CASE i \in 1..m
    BY <1>1, <2>1
  <2>2. CASE i \notin 1..m
    <3>1. i - m \in 1..n /\ m + (i - m) = i
      BY <1>1, <2>2
    <3>2. x[i] = t[i - m] /\ y[i] = u[i - m]
      BY <1>1, <3>1
    <3>3. QED
      BY <1>2, <3>1, <3>2
  <2>3. QED
    BY <2>1, <2>2
<1>4. QED
  BY <1>1, <1>3 DEF SameText, x, y

(***************************************************************************)
(* The lines of the parser have the right types.                           *)
(***************************************************************************)
LEMMA AllParts ==
  ASSUME NEW q \in Parsers
  PROVE  /\ Shown(q.files) \in Seq(ParsedLine) /\ BodyOf(q.cur.hunks) \in Seq(ParsedLine)
         /\ q.hunk.lines \in Seq(ParsedLine) /\ BodyOf(q.cur.hunks) \o q.hunk.lines \in Seq(ParsedLine)
         /\ All(q) \in Seq(ParsedLine)
<1> DEFINE T == ParsedLine
           s == Shown(q.files)
           t == BodyOf(q.cur.hunks)
           u == q.hunk.lines
<1>1. q.files \in Seq(ParsedFile) /\ q.cur.hunks \in Seq(ParsedHunk) /\ q.hunk \in ParsedHunk
  BY DEF Parsers, ParsedFile
<1>2. s \in Seq(T) /\ t \in Seq(T) /\ u \in Seq(T)
  BY <1>1, ShownType, BodyType, FieldTypes
<1> HIDE DEF T, s, t, u
<1>3. t \o u \in Seq(T)
  BY <1>2, ConcatProperties
<1>4. s \o (t \o u) \in Seq(T)
  BY <1>2, <1>3, ConcatProperties
<1>5. QED
  BY <1>2, <1>3, <1>4 DEF All, s, t, u, T

(***************************************************************************)
(* The marker changes no line's kind or text.                              *)
(***************************************************************************)
LEMMA MarkQuiet ==
  ASSUME NEW q, Fit(q)
  PROVE  LET r == MarkNoNewline(q) IN
         Fit(r) /\ SameText(All(q), All(r)) /\ Count(r) = Count(q) /\ r.inFile = q.inFile /\ r.closed = q.closed
<1> DEFINE r == MarkNoNewline(q)
           u == q.hunk.lines
           T == ParsedLine
<1>1. q \in Parsers /\ Sound(q) /\ Neat(q)
  BY DEF Fit
<1>2. r \in Parsers /\ Sound(r)
  BY <1>1, MarkKeeps DEF Keeps
<1>3. CASE ~q.inHunk \/ u = <<>>
  <2>1. r = q
    BY <1>3 DEF MarkNoNewline
  <2>2. SameText(All(q), All(q))
    BY DEF SameText
  <2> HIDE DEF r
  <2>3. QED
    BY <2>1, <2>2 DEF r
<1>4. CASE q.inHunk /\ u # <<>>
  <2>1. /\ r.hunk.lines = [u EXCEPT ![Len(u)] = [@ EXCEPT !.noNL = TRUE]]
        /\ r.cur = q.cur /\ SameEnds(q, r) /\ SameFiles(q, r)
    BY <1>1, <1>4, MarkIs
  <2> HIDE DEF r
  <2>2. u \in Seq(T) /\ r.hunk.lines \in Seq(T) /\ \A x \in T : [x EXCEPT !.noNL = TRUE].kind = x.kind /\ [x EXCEPT !.noNL = TRUE].text = x.text
    BY <1>1, <1>2, AllParts DEF ParsedLine
  <2> DEFINE w == r.hunk.lines
             WithMark(x) == [x EXCEPT !.noNL = TRUE]
  <2>3. Len(u) \in Nat /\ u \in [1..Len(u) -> T] /\ Len(w) \in Nat /\ DOMAIN w = 1..Len(w)
    BY <2>2, LenProperties
  <2>4. w = [u EXCEPT ![Len(u)] = WithMark(u[Len(u)])] /\ \A x \in T : WithMark(x).kind = x.kind /\ WithMark(x).text = x.text
    BY <2>1, <2>2
  <2> HIDE DEF WithMark, w, u, T
  <2>5. DOMAIN w = 1..Len(u)
    BY <2>3, <2>4
  <2>6. Len(w) = Len(u)
    <3> DEFINE k == Len(w)
               n == Len(u)
    <3>1. k \in Nat /\ n \in Nat /\ 1..k = 1..n
      BY <2>3, <2>5
    <3> HIDE DEF k, n
    <3>2. k <= n
      <4>1. CASE k = 0
        BY <3>1, <4>1
      <4>2. CASE k # 0
        <5>1. k \in 1..k
          BY <3>1, <4>2
        <5>2. QED
          BY <3>1, <5>1
      <4>3. QED
        BY <4>1, <4>2
    <3>3. n <= k
      <4>1. CASE n = 0
        BY <3>1, <4>1
      <4>2. CASE n # 0
        <5>1. n \in 1..n
          BY <3>1, <4>2
        <5>2. QED
          BY <3>1, <5>1
      <4>3. QED
        BY <4>1, <4>2
    <3>4. k = n
      BY <3>1, <3>2, <3>3
    <3>5. QED
      BY <3>4 DEF k, n
  <2>7. ASSUME NEW i \in 1..Len(w) PROVE u[i].kind = w[i].kind /\ u[i].text = w[i].text
    <3>1. u[i] \in T /\ i \in DOMAIN u
      BY <2>3, <2>6
    <3>2. w[i] = IF i = Len(u) THEN WithMark(u[i]) ELSE u[i]
      BY <2>4, <3>1
    <3>3. QED
      BY <2>4, <3>1, <3>2
  <2>8. SameText(u, w)
    BY <2>6, <2>7 DEF SameText
  <2> DEFINE S == Shown(q.files)
             B == BodyOf(q.cur.hunks)
  <2>9. S \in Seq(T) /\ B \in Seq(T) /\ B \o u \in Seq(T) /\ u \in Seq(T) /\ w \in Seq(T)
    BY <1>1, <2>2, AllParts DEF T, u, w
  <2>10. All(q) = S \o (B \o u) /\ All(r) = S \o (B \o w)
    BY <2>1 DEF All, SameFiles, u, w
  <2> HIDE DEF S, B
  <2>11. B \o w \in Seq(T)
    BY <2>9, ConcatProperties
  <2>12. SameText(B \o u, B \o w)
    BY <2>8, <2>9, TextCat
  <2>13. SameText(S \o (B \o u), S \o (B \o w))
    <3> DEFINE y == B \o u
               z == B \o w
    <3>1. y \in Seq(T) /\ z \in Seq(T) /\ SameText(y, z)
      BY <2>9, <2>11, <2>12
    <3> HIDE DEF y, z
    <3>2. SameText(S \o y, S \o z)
      BY <2>9, <3>1, TextCat
    <3>3. QED
      BY <3>2 DEF y, z
  <2>14. Neat(r) /\ Count(r) = Count(q)
    BY <1>1, <2>1 DEF Neat, SameEnds, SameFiles, Count
  <2>15. QED
    BY <1>2, <2>1, <2>10, <2>13, <2>14 DEF Fit, r, SameFiles, SameEnds
<1>5. QED
  BY <1>3, <1>4

\* From q to r one line of this kind and text is added to all that are held.
Adds(q, r, kind, text) == \E x \in ParsedLine : x.kind = kind /\ x.text = text /\ All(r) = Append(All(q), x)

(***************************************************************************)
(* addLine adds a line to those that are held.                             *)
(***************************************************************************)
LEMMA AddQuiet ==
  ASSUME NEW q, Fit(q), q.inHunk, NEW kind \in Kinds, NEW text \in Words
  PROVE  LET r == AddLine(q, kind, text) IN
         /\ Fit(r) /\ Count(r) = Count(q) /\ Adds(q, r, kind, text)
         /\ r.inHunk /\ r.inFile = q.inFile /\ r.closed = q.closed /\ r.state = q.state
<1> DEFINE T == ParsedLine
           r == AddLine(q, kind, text)
           x == [kind |-> kind, text |-> text, noNL |-> FALSE,
                 oldNo |-> IF kind # "add" THEN q.oldNo ELSE 0, newNo |-> IF kind # "del" THEN q.newNo ELSE 0]
           S == Shown(q.files)
           B == BodyOf(q.cur.hunks)
           u == q.hunk.lines
<1>1. q \in Parsers /\ Sound(q) /\ Neat(q)
  BY DEF Fit
<1>2. r \in Parsers /\ Sound(r) /\ r.inHunk
  BY <1>1, AddLineKeeps DEF Keeps
<1>3. x.kind = kind /\ x.text = text
  OBVIOUS
<1>4. x \in T
  <2> DEFINE no == FALSE
             i == IF kind # "add" THEN q.oldNo ELSE 0
             j == IF kind # "del" THEN q.newNo ELSE 0
  <2>1. no \in BOOLEAN /\ i \in Nat /\ j \in Nat
    BY <1>1 DEF Parsers
  <2>2. x = [kind |-> kind, text |-> text, noNL |-> no, oldNo |-> i, newNo |-> j]
    OBVIOUS
  <2> HIDE DEF no, i, j, x
  <2>3. QED
    BY <2>1, <2>2 DEF ParsedLine
<1> HIDE DEF x
<1>5. /\ r.hunk.lines = Append(u, x) /\ r.cur.hunks = q.cur.hunks
      /\ SameEnds(q, r) /\ SameFiles(q, r) /\ r.inHunk = q.inHunk /\ r.state = q.state
  <2>1. LET t == AddLine(q, kind, text)
            y == [kind |-> kind, text |-> text, noNL |-> FALSE,
                  oldNo |-> IF kind # "add" THEN q.oldNo ELSE 0, newNo |-> IF kind # "del" THEN q.newNo ELSE 0] IN
        /\ t.hunk.lines = Append(q.hunk.lines, y) /\ t.hunk.claim = q.hunk.claim
        /\ t.oldNo = q.oldNo + (IF kind # "add" THEN 1 ELSE 0) /\ t.oldRem = q.oldRem - (IF kind # "add" THEN 1 ELSE 0)
        /\ t.newNo = q.newNo + (IF kind # "del" THEN 1 ELSE 0) /\ t.newRem = q.newRem - (IF kind # "del" THEN 1 ELSE 0)
        /\ t.cur.flags = q.cur.flags /\ SameNames(q.cur, t.cur) /\ t.cur.hunks = q.cur.hunks
        /\ SameHeaders(q, t) /\ SameEnds(q, t) /\ SameFiles(q, t) /\ t.inHunk = q.inHunk /\ t.state = q.state
    BY ZenonT(20), <1>1, AddLineIs
  <2>2. QED
    BY ONLY <2>1 DEF r, x, u
<1> HIDE DEF r
<1>6. S \in Seq(T) /\ B \in Seq(T) /\ u \in Seq(T) /\ B \o u \in Seq(T)
  BY <1>1, AllParts
<1>7. All(q) = S \o (B \o u) /\ All(r) = S \o (B \o Append(u, x))
  BY <1>5 DEF All, SameFiles
<1> HIDE DEF S, B, u, T
<1>8. S \o (B \o Append(u, x)) = Append(S \o (B \o u), x)
  <2> DEFINE o == <<x>>
             v == B \o u
             w == S \o v
  <2>1. o \in Seq(T)
    BY <1>4
  <2>2. v \in Seq(T) /\ w \in Seq(T)
    BY <1>6, ConcatProperties
  <2>3. Append(u, x) = u \o o /\ Append(w, x) = w \o o
    BY <1>4, <1>6, <2>2, AppendIsConcat
  <2> HIDE DEF o
  <2>4. B \o (u \o o) = v \o o
    BY SMTT(20), <1>6, <2>1, ConcatAssociative
  <2> HIDE DEF v
  <2>5. S \o (v \o o) = w \o o
    BY SMTT(20), <1>6, <2>1, <2>2, ConcatAssociative
  <2>6. S \o (B \o Append(u, x)) = w \o o
    BY <2>3, <2>4, <2>5
  <2>7. QED
    BY <2>3, <2>6 DEF w, v
<1>9. Adds(q, r, kind, text)
  BY <1>3, <1>4, <1>7, <1>8 DEF Adds, T
<1>10. Neat(r) /\ Count(r) = Count(q) /\ r.inFile = q.inFile /\ r.closed = q.closed
  <2>1. q.inFile
    BY <1>1 DEF Sound
  <2>2. QED
    BY <1>1, <1>5, <2>1 DEF Neat, SameEnds, SameFiles, Count
<1>11. QED
  BY <1>2, <1>5, <1>9, <1>10 DEF Fit, r

(***************************************************************************)
(* The first byte of a line says a kind.                                   *)
(***************************************************************************)
LEMMA BodyKinds == \A b : BodyKind(b) \in Kinds
  BY DEF BodyKind, Kinds

(***************************************************************************)
(* A line in a hunk's body is added, unless it is a marker.                *)
(***************************************************************************)
LEMMA BodyTells ==
  ASSUME NEW q, Fit(q), q.inHunk, NEW l \in PatchLine
  PROVE  LET r == InBody(q, l) IN
         /\ Fit(r) /\ Count(r) = Count(q) /\ r.inFile = q.inFile /\ r.closed = q.closed
         /\ IF l.byte = "\\" THEN SameText(All(q), All(r)) ELSE Adds(q, r, BodyKind(l.byte), l.text)
<1> DEFINE c == Classified(q, l)
           r == InBody(q, l)
<1>1. q \in Parsers /\ Sound(q) /\ Neat(q)
  BY DEF Fit
<1>2. r \in Parsers /\ Sound(r)
  BY <1>1, InBodyKeeps DEF Keeps
<1>3. /\ c \in Parsers /\ SameHeaders(c, r) /\ SameHunk(c, r) /\ SameEnds(c, r) /\ SameFiles(c, r) /\ r.cur = c.cur
  BY <1>1, InBodyIs
<1>4. /\ Fit(c) /\ Count(c) = Count(q) /\ c.inFile = q.inFile /\ c.closed = q.closed
      /\ IF l.byte = "\\" THEN SameText(All(q), All(c)) ELSE Adds(q, c, BodyKind(l.byte), l.text)
  <2>1. CASE l.byte = "\\"
    <3>1. c = MarkNoNewline(q)
      BY <2>1 DEF Classified
    <3> HIDE DEF c
    <3>2. QED
      BY <2>1, <3>1, MarkQuiet
  <2>2. CASE l.byte # "\\"
    <3> DEFINE k == BodyKind(l.byte)
    <3>1. c = AddLine(q, k, l.text)
      BY <2>2 DEF Classified
    <3>2. k \in Kinds /\ l.text \in Words
      BY BodyKinds, LineFields
    <3> HIDE DEF c, k
    <3>3. Fit(c) /\ Count(c) = Count(q) /\ c.inFile = q.inFile /\ c.closed = q.closed /\ Adds(q, c, k, l.text)
      BY <3>1, <3>2, AddQuiet
    <3>4. QED
      BY <2>2, <3>3 DEF k
  <2>3. QED
    BY <2>1, <2>2
<1> HIDE DEF c, r
<1>5. All(r) = All(c)
  BY <1>3 DEF All, SameFiles, SameHunk
<1>6. Neat(r) /\ Count(r) = Count(c) /\ r.inFile = c.inFile /\ r.closed = c.closed
  BY <1>3, <1>4 DEF Fit, Neat, SameEnds, SameFiles, Count
<1>7. QED
  BY <1>2, <1>4, <1>5, <1>6 DEF Fit, Adds, r

(***************************************************************************)
(* The same lines, or none of them changed.                                *)
(***************************************************************************)
LEMMA SameTextSame == \A s, t : s = t => SameText(s, t)
  BY DEF SameText

(***************************************************************************)
(* The same lines as the same lines are the same.                          *)
(***************************************************************************)
LEMMA SameTextBoth == \A s, t, u : SameText(s, t) /\ SameText(t, u) => SameText(s, u)
  BY DEF SameText

\* What a line outside a hunk's body does with the lines and the files.
Overlong(q, l) == l.head = "body" /\ l.byte \in {" ", "+", "-"} /\ q.inHunk

(***************************************************************************)
(* Outside a hunk's body: a line that only the counts deny is added, and   *)
(* no other; a git line begins a file, and no other does but an old        *)
(* name.                                                                   *)
(***************************************************************************)
LEMMA HeaderTells ==
  ASSUME NEW q, Fit(q), ~q.closed, q.state = "header", NEW l \in PatchLine, l.head \notin {"@@@", "diff --cc"}
  PROVE  LET r == InHeader(q, l) IN
         /\ Fit(r) /\ ~r.closed
         /\ IF Overlong(q, l) THEN Adds(q, r, BodyKind(l.byte), l.text) ELSE SameText(All(q), All(r))
         /\ l.head = "diff --git" => Count(r) = Count(q) + 1
         /\ q.inFile /\ l.head # "diff --git" /\ (l.head = "--- " => ~q.sawOldHeader /\ ~q.inHunk) => Count(r) = Count(q)
<1> DEFINE r == InHeader(q, l)
<1>1. l.text \in Words /\ l.also \in Words /\ l.claim \in Claims
  BY LineFields
<1>2. q \in Parsers /\ Sound(q) /\ Neat(q)
  BY DEF Fit
<1>3. r \in Parsers /\ Sound(r) /\ ~r.closed
  BY <1>2, InHeaderKeeps DEF Keeps
<1> SUFFICES /\ Neat(r)
             /\ IF Overlong(q, l) THEN Adds(q, r, BodyKind(l.byte), l.text) ELSE SameText(All(q), All(r))
             /\ l.head = "diff --git" => Count(r) = Count(q) + 1
             /\ q.inFile /\ l.head # "diff --git" /\ (l.head = "--- " => ~q.sawOldHeader /\ ~q.inHunk) => Count(r) = Count(q)
  BY <1>3 DEF Fit
<1>4. CASE l.head = "diff --git"
  <2> DEFINE s == CloseFile(q)
             t == StartFile(s)
  <2>1. r = [t EXCEPT !.hdrOld = l.text, !.hdrNew = l.also]
    BY <1>4 DEF InHeader
  <2>2. Fit(s) /\ All(s) = All(q) /\ Count(s) = Count(q) /\ ~s.inFile /\ ~s.closed /\ s.state # "hunk"
    BY CloseQuiet
  <2> HIDE DEF s
  <2>3. Fit(t) /\ t.inFile /\ All(t) = All(s) /\ Count(t) = Count(s) + 1
    BY <2>2, StartQuiet
  <2> HIDE DEF t, r
  <2>4. t \in Parsers /\ Neat(t)
    BY <2>3 DEF Fit
  <2>5. r.files = t.files /\ r.cur = t.cur /\ r.hunk = t.hunk /\ r.inFile = t.inFile /\ r.err = t.err
    BY <2>1, <2>4 DEF Parsers
  <2>6. Quiet(t, r) /\ Count(r) = Count(t)
    BY <2>3, <2>4, <2>5, QuietSame DEF Quiet
  <2>7. All(r) = All(q) /\ Count(r) = Count(q) + 1 /\ Neat(r)
    BY <2>2, <2>3, <2>6 DEF Quiet
  <2>8. ~Overlong(q, l)
    BY <1>4 DEF Overlong
  <2>9. QED
    BY <1>4, <2>7, <2>8, SameTextSame
<1>5. CASE l.head = "@@"
  <2>1. r = OpenHunk(q, l.claim)
    BY <1>5 DEF InHeader
  <2> HIDE DEF r
  <2>2. Fit(r) /\ Quiet(q, r)
    BY <1>1, <2>1, OpenQuiet
  <2>3. ~Overlong(q, l)
    BY <1>5 DEF Overlong
  <2>4. QED
    BY <1>5, <2>2, <2>3, SameTextSame DEF Quiet, Fit
<1>6. CASE l.head = "@@ junk"
  <2>1. r = Flag(q, "unparsable hunk header") /\ "unparsable hunk header" \in Warnings
    BY <1>6 DEF InHeader, Warnings
  <2> HIDE DEF r
  <2>2. Fit(r) /\ Quiet(q, r)
    BY <2>1, FlagQuiet
  <2>3. ~Overlong(q, l)
    BY <1>6 DEF Overlong
  <2>4. QED
    BY <1>6, <2>2, <2>3, SameTextSame DEF Quiet, Fit
<1>7. CASE l.head = "\\"
  <2>1. r = MarkNoNewline(q)
    BY <1>7 DEF InHeader
  <2> HIDE DEF r
  <2>2. Fit(r) /\ SameText(All(q), All(r)) /\ Count(r) = Count(q)
    BY <2>1, MarkQuiet
  <2>3. ~Overlong(q, l)
    BY <1>7 DEF Overlong
  <2>4. QED
    BY <1>7, <2>2, <2>3 DEF Fit
<1>8. CASE l.head = "--- "
  <2>1. r = OldHeader(q, l.text)
    BY <1>8 DEF InHeader
  <2> HIDE DEF r
  <2>2. Fit(r) /\ All(r) = All(q) /\ (q.inFile /\ ~q.sawOldHeader /\ ~q.inHunk => Count(r) = Count(q))
    BY <1>1, <2>1, OldHeaderQuiet
  <2>3. ~Overlong(q, l)
    BY <1>8 DEF Overlong
  <2>4. QED
    BY <1>8, <2>2, <2>3, SameTextSame DEF Fit
<1>9. CASE l.head = "+++ "
  <2>1. r = NewHeader(q, l.text)
    BY <1>9 DEF InHeader
  <2> HIDE DEF r
  <2>2. Fit(r) /\ Quiet(q, r)
    BY <1>1, <2>1, NewHeaderQuiet
  <2>3. ~Overlong(q, l)
    BY <1>9 DEF Overlong
  <2>4. QED
    BY <1>9, <2>2, <2>3, SameTextSame DEF Quiet, Fit
<1>10. CASE l.head = "git binary"
  <2> DEFINE s == Extended(q, l)
  <2>1. r = [s EXCEPT !.state = "payload"]
    BY <1>10 DEF InHeader
  <2>2. Fit(s) /\ Quiet(q, s) /\ s.inFile = q.inFile
    BY ExtendedQuiet
  <2> HIDE DEF s
  <2>3. Fit(r) /\ Quiet(s, r)
    BY <2>1, <2>2, StateQuiet
  <2>4. Quiet(q, r)
    BY <2>2, <2>3, QuietBoth
  <2> HIDE DEF r
  <2>5. ~Overlong(q, l)
    BY <1>10 DEF Overlong
  <2>6. QED
    BY <1>10, <2>4, <2>5, SameTextSame DEF Quiet
<1>11. CASE Overlong(q, l)
  <2> DEFINE s == Flag(q, "body is longer")
  <2>1. r = InBody(s, l) /\ "body is longer" \in Warnings /\ l.byte # "\\" /\ l.head = "body" /\ q.inHunk
    BY <1>11 DEF InHeader, Overlong, Warnings
  <2>2. Fit(s) /\ s.inFile /\ ~s.closed /\ Quiet(q, s) /\ s.inHunk = q.inHunk
    BY <2>1, FlagQuiet
  <2> HIDE DEF s, r
  <2>3. Fit(r) /\ Count(r) = Count(s) /\ Adds(s, r, BodyKind(l.byte), l.text)
    BY <2>1, <2>2, BodyTells
  <2>4. Neat(r) /\ Adds(q, r, BodyKind(l.byte), l.text) /\ (q.inFile => Count(r) = Count(q))
    BY <2>2, <2>3 DEF Quiet, Fit, Adds
  <2>5. QED
    BY <1>11, <2>1, <2>4
<1>12. CASE l.head \notin {"diff --git", "@@", "@@ junk", "\\", "--- ", "+++ ", "git binary"} /\ ~Overlong(q, l)
  <2>1. r = Extended(q, l)
    BY <1>12 DEF InHeader, Overlong
  <2> HIDE DEF r
  <2>2. Fit(r) /\ Quiet(q, r)
    BY <2>1, ExtendedQuiet
  <2>3. QED
    BY <1>12, <2>2, SameTextSame DEF Quiet
<1>13. QED
  BY <1>4, <1>5, <1>6, <1>7, <1>8, <1>9, <1>10, <1>11, <1>12

\* What a line does with the lines and the files.
Taken(q, l) ==
  \/ q.state = "hunk" /\ l.byte \in {"", " ", "+", "-"}
  \/ q.state = "header" /\ Overlong(q, l)

(***************************************************************************)
(* A line is taken, and added to those that are held, or it changes        *)
(* nothing of them; a file is begun by a git line and otherwise only by    *)
(* an old name.                                                            *)
(***************************************************************************)
LEMMA ReadTells ==
  ASSUME NEW q, Fit(q), ~q.closed, NEW l \in PatchLine, l.head \notin {"@@@", "diff --cc"}
  PROVE  LET r == Read(q, l) IN
         /\ Fit(r) /\ ~r.closed /\ Keeps(q, r)
         /\ IF Taken(q, l) THEN Adds(q, r, BodyKind(l.byte), l.text) ELSE SameText(All(q), All(r))
         /\ l.head = "diff --git" /\ l.byte \notin BodyBytes /\ q.inFile => Count(r) = Count(q) + 1
         /\ l.head = "diff --git" /\ q.state = "header" => Count(r) = Count(q) + 1
         /\ q.inFile /\ l.head # "diff --git"
            /\ (l.head = "--- " => Taken(q, l) \/ (q.state = "header" /\ ~q.sawOldHeader /\ ~q.inHunk)) => Count(r) = Count(q)
<1> DEFINE r == Read(q, l)
<1>1. q \in Parsers /\ Sound(q) /\ Neat(q)
  BY DEF Fit
<1>2. q.state \in {"hunk", "payload", "header"}
  BY <1>1 DEF Parsers
<1>3. CASE q.state = "hunk" /\ l.byte \in BodyBytes
  <2>1. r = InBody(q, l) /\ q.inHunk /\ q.inFile
    BY <1>1, <1>3 DEF Read, Sound
  <2> HIDE DEF r
  <2>2. /\ Fit(r) /\ Count(r) = Count(q) /\ r.closed = q.closed
        /\ IF l.byte = "\\" THEN SameText(All(q), All(r)) ELSE Adds(q, r, BodyKind(l.byte), l.text)
    BY <2>1, BodyTells
  <2>3. Taken(q, l) <=> l.byte # "\\"
    BY <1>3 DEF Taken, BodyBytes
  <2>4. Keeps(q, r)
    BY <1>1, <2>1, InBodyKeeps
  <2>5. QED
    BY <1>3, <2>2, <2>3, <2>4 DEF r
<1>4. CASE q.state = "hunk" /\ l.byte \notin BodyBytes
  <2> DEFINE s == Flag(q, "body is shorter")
             t == [s EXCEPT !.state = "header"]
  <2>1. r = InHeader(t, l) /\ "body is shorter" \in Warnings /\ q.inHunk /\ q.inFile
    BY <1>1, <1>4 DEF Read, Sound, Warnings
  <2>2. Fit(s) /\ s.inFile /\ ~s.closed /\ Quiet(q, s) /\ s.inHunk = q.inHunk
    BY <2>1, FlagQuiet
  <2>3. Keeps(q, s)
    BY <1>1, <2>1, FlagKeeps
  <2> HIDE DEF s
  <2>4. Fit(t) /\ Quiet(s, t) /\ ~t.closed /\ t.inFile /\ t.state = "header"
    <3> DEFINE z == "header"
    <3>1. z \in {"header", "hunk", "payload"} /\ (z = "hunk" => s.inHunk) /\ t = [s EXCEPT !.state = z]
      OBVIOUS
    <3> HIDE DEF z, t
    <3>2. Fit(t) /\ Quiet(s, t) /\ t.closed = s.closed /\ t.inFile = s.inFile /\ t.state = z
      BY <2>2, <3>1, StateQuiet
    <3>3. QED
      BY <2>2, <3>2 DEF z
  <2>5. Keeps(s, t)
    BY <2>2, StateKeeps DEF Fit
  <2>6. Quiet(q, t) /\ All(t) = All(q) /\ Count(t) = Count(q)
    BY <2>1, <2>2, <2>4, QuietBoth DEF Quiet
  <2> HIDE DEF t, r
  <2>7. /\ Fit(r) /\ ~r.closed
        /\ IF Overlong(t, l) THEN Adds(t, r, BodyKind(l.byte), l.text) ELSE SameText(All(t), All(r))
        /\ l.head = "diff --git" => Count(r) = Count(t) + 1
        /\ t.inFile /\ l.head # "diff --git" /\ (l.head = "--- " => ~t.sawOldHeader /\ ~t.inHunk) => Count(r) = Count(t)
    BY <2>1, <2>4, HeaderTells
  <2>8. ~Taken(q, l) /\ ~Overlong(t, l)
    BY <1>4 DEF Taken, Overlong, BodyBytes
  <2>9. Keeps(q, r)
    <3>1. Keeps(t, r)
      BY <2>1, <2>4, InHeaderKeeps DEF Fit
    <3>2. QED
      BY <2>3, <2>5, <3>1 DEF Keeps
  <2>10. QED
    BY <1>4, <2>4, <2>6, <2>7, <2>8, <2>9 DEF r
<1>5. CASE q.state = "payload" /\ l.head = "diff --git"
  <2> DEFINE t == [q EXCEPT !.state = "header"]
  <2>1. r = InHeader(t, l)
    BY <1>5 DEF Read
  <2>2. Fit(t) /\ Quiet(q, t) /\ ~t.closed /\ t.inFile = q.inFile /\ t.state = "header"
    <3> DEFINE z == "header"
    <3>1. z \in {"header", "hunk", "payload"} /\ (z = "hunk" => q.inHunk) /\ t = [q EXCEPT !.state = z]
      OBVIOUS
    <3> HIDE DEF z, t
    <3>2. Fit(t) /\ Quiet(q, t) /\ t.closed = q.closed /\ t.inFile = q.inFile /\ t.state = z
      BY <3>1, StateQuiet
    <3>3. QED
      BY <3>2 DEF z
  <2>3. Keeps(q, t)
    BY <1>1, StateKeeps
  <2> HIDE DEF t, r
  <2>4. /\ Fit(r) /\ ~r.closed
        /\ IF Overlong(t, l) THEN Adds(t, r, BodyKind(l.byte), l.text) ELSE SameText(All(t), All(r))
        /\ l.head = "diff --git" => Count(r) = Count(t) + 1
    BY <2>1, <2>2, HeaderTells
  <2>5. ~Taken(q, l) /\ ~Overlong(t, l)
    BY <1>5 DEF Taken, Overlong
  <2>6. Keeps(q, r)
    <3>1. Keeps(t, r)
      BY <2>1, <2>2, InHeaderKeeps DEF Fit
    <3>2. QED
      BY <2>3, <3>1 DEF Keeps
  <2>7. QED
    BY <1>5, <2>2, <2>4, <2>5, <2>6 DEF r, Quiet
<1>6. CASE q.state = "payload" /\ l.head # "diff --git"
  <2>1. r = q
    BY <1>6 DEF Read
  <2>2. ~Taken(q, l)
    BY <1>6 DEF Taken
  <2>3. Keeps(q, q)
    BY <1>1 DEF Keeps
  <2> HIDE DEF r
  <2>4. QED
    BY <1>6, <2>1, <2>2, <2>3, SameTextSame DEF r
<1>7. CASE q.state = "header"
  <2>1. r = InHeader(q, l)
    BY <1>7 DEF Read
  <2> HIDE DEF r
  <2>2. /\ Fit(r) /\ ~r.closed
        /\ IF Overlong(q, l) THEN Adds(q, r, BodyKind(l.byte), l.text) ELSE SameText(All(q), All(r))
        /\ l.head = "diff --git" => Count(r) = Count(q) + 1
        /\ q.inFile /\ l.head # "diff --git" /\ (l.head = "--- " => ~q.sawOldHeader /\ ~q.inHunk) => Count(r) = Count(q)
    BY <1>7, <2>1, HeaderTells
  <2>3. Taken(q, l) <=> Overlong(q, l)
    BY <1>7 DEF Taken
  <2>4. l.head = "--- " => ~Overlong(q, l)
    BY DEF Overlong
  <2>5. Keeps(q, r)
    BY <1>1, <1>7, <2>1, InHeaderKeeps
  <2>6. QED
    BY <2>2, <2>3, <2>4, <2>5 DEF r
<1>8. QED
  BY <1>2, <1>3, <1>4, <1>5, <1>6, <1>7

-----------------------------------------------------------------------------
(* The steps of the model. *)

(***************************************************************************)
(* A line that is read keeps what holds of every state of the parser, as   *)
(* the handlers do.                                                        *)
(***************************************************************************)
LEMMA ReadKeeps ==
  ASSUME NEW q \in Parsers, Sound(q), ~q.closed, NEW l \in PatchLine
  PROVE  Keeps(q, Read(q, l))
<1> DEFINE r == Read(q, l)
           z == "header"
<1>1. q.state \in {"hunk", "payload", "header"} /\ z \in {"header", "hunk", "payload"} /\ z # "hunk"
  BY DEF Parsers
<1>2. CASE q.state = "hunk" /\ l.byte \in BodyBytes
  <2>1. r = InBody(q, l) /\ q.inHunk
    BY <1>2 DEF Read, Sound
  <2>2. QED
    BY <2>1, InBodyKeeps
<1>3. CASE q.state = "hunk" /\ l.byte \notin BodyBytes
  <2> DEFINE s == Flag(q, "body is shorter")
             t == [s EXCEPT !.state = z]
  <2>1. r = InHeader(t, l) /\ "body is shorter" \in Warnings
    BY <1>3 DEF Read, Warnings
  <2>2. Keeps(q, s)
    BY <2>1, FlagKeeps
  <2> HIDE DEF s
  <2>3. s \in Parsers /\ Sound(s)
    BY <2>2 DEF Keeps
  <2>4. t.state = z
    BY <2>3 DEF Parsers
  <2> HIDE DEF z
  <2>5. Keeps(s, t)
    BY <1>1, <2>3, StateKeeps
  <2> HIDE DEF t, r
  <2>6. t \in Parsers /\ Sound(t) /\ ~t.closed /\ t.state = "header"
    BY <2>2, <2>4, <2>5 DEF Keeps, z
  <2>7. Keeps(t, r)
    BY <2>1, <2>6, InHeaderKeeps
  <2>8. QED
    BY <2>2, <2>5, <2>7 DEF Keeps, r
<1>4. CASE q.state = "payload" /\ l.head \in {"diff --git", "diff --cc"}
  <2> DEFINE t == [q EXCEPT !.state = z]
  <2>1. r = InHeader(t, l)
    BY <1>4 DEF Read
  <2>2. t.state = z
    BY DEF Parsers
  <2> HIDE DEF z
  <2>3. Keeps(q, t)
    BY <1>1, StateKeeps
  <2> HIDE DEF t, r
  <2>4. t \in Parsers /\ Sound(t) /\ ~t.closed /\ t.state = "header"
    BY <2>2, <2>3 DEF Keeps, z
  <2>5. Keeps(t, r)
    BY <2>1, <2>4, InHeaderKeeps
  <2>6. QED
    BY <2>3, <2>5 DEF Keeps, r
<1>5. CASE q.state = "payload" /\ l.head \notin {"diff --git", "diff --cc"}
  <2>1. r = q
    BY <1>5 DEF Read
  <2> HIDE DEF r
  <2>2. QED
    BY <2>1 DEF Keeps, r
<1>6. CASE q.state = "header"
  <2>1. r = InHeader(q, l)
    BY <1>6 DEF Read
  <2>2. QED
    BY <1>6, <2>1, InHeaderKeeps
<1>7. QED
  BY <1>1, <1>2, <1>3, <1>4, <1>5, <1>6

(***************************************************************************)
(* That a line is behind changes nothing but the place in the patch.       *)
(***************************************************************************)
LEMMA ConsumedIs ==
  ASSUME NEW r \in Parsers
  PROVE  LET s == Consumed(r) IN
         /\ SameHeaders(r, s) /\ SameHunk(r, s) /\ SameFiles(r, s) /\ s.cur = r.cur /\ s.state = r.state
         /\ s.err = r.err /\ s.closed = r.closed /\ s.at = r.at + 1
  BY DEF Consumed, Parsers, SameHeaders, SameHunk, SameFiles

\* The steps that read a line.
StepLine == StepHunk \/ StepPayload \/ StepHeader

(***************************************************************************)
(* The three steps of the model that read a line are one function of the   *)
(* parser and the line.                                                    *)
(***************************************************************************)
LEMMA StepReads ==
  ASSUME DInv, StepLine
  PROVE  /\ More /\ ~p.closed /\ ~p.err /\ Line \in PatchLine /\ p.at \in 1..Len(lines)
         /\ p \in Parsers /\ Sound(p)
         /\ p' = Consumed(Read(p, Line)) /\ Read(p, Line) \in Parsers /\ Sound(Read(p, Line))
         /\ p'.at = p.at + 1 /\ p'.closed = FALSE
         /\ change' = change /\ lines' = lines /\ truncated' = truncated /\ persisted' = persisted
<1>1. lines \in Seq(PatchLine) /\ p \in Parsers /\ Sound(p) /\ p.at # 0
  BY DEF DInv
<1>2. More /\ change' = change /\ lines' = lines /\ truncated' = truncated /\ persisted' = persisted
  BY DEF StepLine, StepHunk, StepPayload, StepHeader
<1>3. Line \in PatchLine /\ ~p.closed /\ p.at \in 1..Len(lines) /\ ~p.err
  BY <1>1, <1>2, LineIs DEF More
<1> DEFINE r == Read(p, Line)
<1>4. p' = Consumed(r)
  <2>1. CASE StepHunk
    BY <2>1 DEF StepHunk, Read, BodyBytes
  <2>2. CASE StepPayload
    BY <2>2 DEF StepPayload, Read
  <2>3. CASE StepHeader
    BY <2>3 DEF StepHeader, Read
  <2>4. QED
    BY <2>1, <2>2, <2>3 DEF StepLine
<1>5. Keeps(p, r)
  BY <1>1, <1>3, ReadKeeps
<1> HIDE DEF r
<1>6. r \in Parsers /\ Sound(r) /\ r.at = p.at /\ r.closed = p.closed /\ p.closed = FALSE
  BY <1>1, <1>3, <1>5 DEF Keeps, Parsers
<1>7. p'.at = r.at + 1 /\ p'.closed = r.closed
  BY <1>4, <1>6, ConsumedIs
<1>8. QED
  BY <1>1, <1>2, <1>3, <1>4, <1>6, <1>7 DEF r

(***************************************************************************)
(* All that is held, and whether it is in order, is the same when the      *)
(* line is behind.                                                         *)
(***************************************************************************)
LEMMA ConsumedFits ==
  ASSUME NEW r \in Parsers, Sound(r)
  PROVE  LET s == Consumed(r) IN
         (Fit(r) => Fit(s)) /\ All(s) = All(r) /\ Count(s) = Count(r)
<1> DEFINE s == Consumed(r)
<1>1. SameHunk(r, s) /\ SameFiles(r, s) /\ s.cur = r.cur /\ s.err = r.err
  BY ConsumedIs
<1>2. Keeps(r, r)
  BY DEF Keeps
<1>3. s \in Parsers /\ Sound(s)
  BY <1>2, ConsumedSound
<1> HIDE DEF s
<1>4. All(s) = All(r) /\ Count(s) = Count(r)
  BY <1>1 DEF All, Count, SameHunk, SameFiles
<1>5. Fit(r) => Fit(s)
  BY <1>1, <1>3 DEF Fit, Neat, SameFiles
<1>6. QED
  BY <1>4, <1>5 DEF s

(***************************************************************************)
(* The lines that git writes between the files, the headers and the        *)
(* bodies.                                                                 *)
(***************************************************************************)
LEMMA LIs == \A head, byte, text : L(head, byte, text).head = head /\ L(head, byte, text).byte = byte /\ L(head, byte, text).text = text
  BY DEF L

(***************************************************************************)
(* What git's lines begin with.                                            *)
(***************************************************************************)
LEMMA LinesAre ==
  /\ \A old, new : GitLine(old, new).head = "diff --git" /\ GitLine(old, new).byte = "d"
  /\ \A f : /\ OldLine(f).head = "--- " /\ OldLine(f).byte = "-"
            /\ OldLine(f).text = (IF f.status = "added" THEN "/dev/null" ELSE f.old)
  /\ \A f : /\ NewLine(f).head = "+++ " /\ NewLine(f).byte = "+"
            /\ NewLine(f).text = (IF f.status = "deleted" THEN "/dev/null" ELSE f.new)
  /\ \A claim : HunkLine(claim).head = "@@" /\ HunkLine(claim).byte = "@"
  /\ NoNewlineMarker.head = "\\" /\ NoNewlineMarker.byte = "\\"
<1>1. \A old, new : GitLine(old, new).head = "diff --git" /\ GitLine(old, new).byte = "d"
  BY DEF GitLine, Header, L
<1>2. \A f : OldLine(f).head = "--- " /\ OldLine(f).byte = "-" /\ OldLine(f).text = (IF f.status = "added" THEN "/dev/null" ELSE f.old)
  BY DEF OldLine, L
<1>3. \A f : NewLine(f).head = "+++ " /\ NewLine(f).byte = "+" /\ NewLine(f).text = (IF f.status = "deleted" THEN "/dev/null" ELSE f.new)
  BY DEF NewLine, L
<1>4. \A claim : HunkLine(claim).head = "@@" /\ HunkLine(claim).byte = "@"
  BY DEF HunkLine, L
<1>5. NoNewlineMarker.head = "\\" /\ NoNewlineMarker.byte = "\\"
  BY DEF NoNewlineMarker, L
<1>6. QED
  BY <1>1, <1>2, <1>3, <1>4, <1>5

(***************************************************************************)
(* An item of a sequence has the type of its items.                        *)
(***************************************************************************)
LEMMA ItemIs ==
  ASSUME NEW T, NEW s \in Seq(T), NEW k \in Nat, k < Len(s)
  PROVE  s[k + 1] \in T
<1>1. Len(s) \in Nat
  BY LenProperties
<1>2. k + 1 \in 1..Len(s)
  BY <1>1
<1>3. QED
  BY <1>2

(***************************************************************************)
(* Only a combined diff begins with one of these.                          *)
(***************************************************************************)
LEMMA LeadHeads ==
  ASSUME NEW c \in Seq(FileChange), NEW strip \in BOOLEAN, NEW a, InPlace(c, a), NEW l, NEW b, Leads(c, strip, a, l, b),
         l.head \in {"diff --cc", "@@@"}
  PROVE  IsCombined(c, a, l, b)
<1>1. ~IsGit(c, a, l, b)
  BY DEF IsGit, GitLine, Header, L
<1>2. ~IsHead(c, a, l, b)
  <2> SUFFICES ASSUME NEW n \in Heads, Needs(c[a.f], n), l = HeadLine(c[a.f], n) PROVE FALSE
    BY DEF IsHead
  <2>1. n \notin {"diff --cc", "@@@"}
    BY DEF Needs
  <2>2. n # "body" => l.head = n
    BY HeadLineIs
  <2>3. n = "body" => l.head = "body"
    BY DEF HeadLine, L
  <2>4. QED
    BY <2>1, <2>2, <2>3
<1>3. ~IsOld(c, a, l, b)
  BY LinesAre DEF IsOld
<1>4. ~IsNew(c, a, l, b)
  BY LinesAre DEF IsNew
<1>5. ~IsHunk(c, a, l, b)
  BY DEF IsHunk, HunkLine, L
<1>6. ~IsText(c, strip, a, l, b)
  <2> SUFFICES ASSUME IsText(c, strip, a, l, b) PROVE FALSE
    OBVIOUS
  <2> DEFINE body == c[a.f].hunks[a.h].body
             x == body[a.k + 1]
  <2>1. Opened(a) /\ l = Written(x, strip) /\ a.k < Len(body)
    BY DEF IsText, Opened
  <2>2. body \in Seq(BodyLine) /\ a.k \in Nat /\ Len(body) \in Nat
    BY <2>1, OpenedIs
  <2>3. x \in BodyLine
    BY <2>1, <2>2, ItemIs
  <2> HIDE DEF x
  <2>4. l.head \in {"body", "", "--- ", "+++ "}
    BY <2>1, <2>3, WrittenFields
  <2>5. QED
    BY <2>4
<1>7. ~IsMarker(c, a, l, b)
  BY LinesAre DEF IsMarker
<1>8. QED
  BY <1>1, <1>2, <1>3, <1>4, <1>5, <1>6, <1>7 DEF Leads

(***************************************************************************)
(* What is left of a line whose end was cut off begins no combined diff.   *)
(***************************************************************************)
LEMMA ClippedHead == \A l : Clipped(l).head \notin {"diff --cc", "@@@"}
<1> SUFFICES ASSUME NEW l PROVE Clipped(l).head \notin {"diff --cc", "@@@"}
  OBVIOUS
<1> DEFINE x == [l EXCEPT !.head = IF l.byte = "" THEN "" ELSE "body", !.text = "cut"]
           y == [Header("other", "") EXCEPT !.byte = l.byte]
           c == Clipped(l)
<1>1. c = CASE l.head \in {"@@", "@@ junk"} -> Junk [] IsBody(l) -> x [] l.head = "\\" -> l [] OTHER -> y
  BY DEF Clipped
<1>2. Junk.head = "@@ junk" /\ y.head = "other"
  BY DEF Junk, Header, L
<1>9. x.head \in {"", "body", l.head}
  OBVIOUS
<1> HIDE DEF x, y, c
<1>3. CASE l.head \in {"@@", "@@ junk"}
  <2>1. ~IsBody(l) /\ l.head # "\\"
    BY <1>3 DEF IsBody
  <2>2. c = Junk
    BY <1>1, <1>3, <2>1
  <2>3. QED
    BY <1>2, <2>2 DEF c
<1>4. CASE IsBody(l)
  <2>1. l.head \notin {"@@", "@@ junk"} /\ l.head # "\\"
    BY <1>4 DEF IsBody
  <2>2. c = x
    BY <1>1, <1>4, <2>1
  <2>4. l.head \in {"body", "", "--- ", "+++ "}
    BY <1>4 DEF IsBody
  <2>5. c.head \in {"", "body", "--- ", "+++ "}
    BY <1>9, <2>2, <2>4
  <2>6. QED
    BY <2>5 DEF c
<1>5. CASE l.head = "\\"
  <2>1. ~IsBody(l) /\ l.head \notin {"@@", "@@ junk"}
    BY <1>5 DEF IsBody
  <2>2. c = l
    BY <1>1, <1>5, <2>1
  <2>3. QED
    BY <1>5, <2>2 DEF c
<1>6. CASE ~(l.head \in {"@@", "@@ junk"} \/ IsBody(l) \/ l.head = "\\")
  <2>1. c = y
    BY <1>1, <1>6
  <2>2. QED
    BY <1>2, <2>1 DEF c
<1>7. QED
  BY <1>3, <1>4, <1>5, <1>6

(***************************************************************************)
(* The trailer of a copy begins no combined diff.                          *)
(***************************************************************************)
LEMMA TrailerHeads == \A i \in 1..Len(Trailer) : Trailer[i].head \notin {"diff --cc", "@@@"}
<1> DEFINE a == L("", "", "")
           b == L("other", "[", "")
<1>1. a.head \notin {"diff --cc", "@@@"} /\ b.head \notin {"diff --cc", "@@@"}
  BY DEF L
<1>2. Trailer = <<a, b, b>>
  BY DEF Trailer
<1> HIDE DEF a, b
<1>3. Len(Trailer) = 3 /\ Trailer[1] = a /\ Trailer[2] = b /\ Trailer[3] = b
  BY <1>2
<1>4. 1..3 = {1, 2, 3}
  OBVIOUS
<1>5. QED
  BY <1>1, <1>3, <1>4

(***************************************************************************)
(* What a cut leaves of the patch: all that has been read, the rest of a   *)
(* line if it falls inside one, and the trailer of a copy.                 *)
(***************************************************************************)
LEMMA CutIs ==
  ASSUME DInv, NEW inside \in BOOLEAN, Cut(inside)
  PROVE  /\ ~p.closed /\ ~p.err /\ p.at \in 1..Len(lines) /\ Line \in PatchLine
         /\ ~truncated /\ truncated' = TRUE /\ change' = change /\ persisted' = persisted /\ p' = p
         /\ lines' \in Seq(PatchLine)
         /\ Len(lines') >= p.at - (IF inside THEN 0 ELSE 1)
         /\ ~persisted => Len(lines') = p.at - (IF inside THEN 0 ELSE 1)
         /\ \A i \in 1..(p.at - 1) : lines'[i] = lines[i]
         /\ inside => lines'[p.at] = Clipped(Line)
         /\ \A i \in p.at..Len(lines') : lines'[i].head \notin {"diff --cc", "@@@"}
<1>1. lines \in Seq(PatchLine) /\ p \in Parsers /\ Sound(p) /\ p.at # 0 /\ Painted
  BY DEF DInv
<1>2. More /\ (p.at > 1 \/ inside) /\ p' = p /\ ~truncated /\ truncated' = TRUE /\ change' = change /\ persisted' = persisted
  BY DEF Cut
<1>3. p.at \in 1..Len(lines) /\ ~p.closed /\ ~p.err /\ Line \in PatchLine /\ Len(lines) \in Nat
  BY <1>1, <1>2, LineIs, LenProperties DEF More
<1> DEFINE m == p.at
           n == IF inside THEN m ELSE m - 1
           t == IF persisted THEN Trailer ELSE <<>>
           T == PatchLine
           head == SubSeq(lines, 1, n)
           s == Captured(n, inside)
           u == s \o t
           x == Clipped(Line)
           odd == {"diff --cc", "@@@"}
<1>4. n \in 1..Len(lines) /\ m \in Nat /\ n \in Nat
  BY <1>2, <1>3
<1>5. lines' = u
  BY DEF Cut
<1>6. t \in Seq(T) /\ Len(t) \in Nat /\ (~persisted => Len(t) = 0) /\ \A i \in 1..Len(t) : t[i].head \notin odd
  <2>1. t \in Seq(T) /\ Len(t) \in Nat
    BY TrailerIs, NoLines, LenProperties
  <2>2. CASE persisted
    <3>1. t = Trailer
      BY <2>2
    <3>2. QED
      BY <2>1, <2>2, <3>1, TrailerHeads
  <2>3. CASE ~persisted
    <3>1. t = <<>>
      BY <2>3
    <3> HIDE DEF t
    <3>2. Len(t) = 0
      BY <3>1, EmptySeq
    <3>3. 1..0 = {}
      OBVIOUS
    <3>4. QED
      BY <2>1, <2>3, <3>2, <3>3
  <2>4. QED
    BY <2>2, <2>3
<1>7. s \in Seq(T)
  BY <1>1, <1>4, CapturedIs
<1>8. head \in Seq(T) /\ Len(head) = n /\ \A i \in 1..n : head[i] = lines[i]
  <2> HIDE DEF n
  <2>1. 1 \in 1..Len(lines) /\ n - 1 + 1 = n
    BY <1>3, <1>4
  <2>2. QED
    BY <1>1, <1>3, <1>4, <2>1, SubSeqProperties
<1>9. s = IF inside THEN [head EXCEPT ![n] = Clipped(head[n])] ELSE head
  BY DEF Captured
<1>10. Len(s) = n /\ (\A i \in 1..(m - 1) : s[i] = lines[i]) /\ (inside => s[m] = x)
  <2>1. CASE inside
    <3> DEFINE y == Clipped(head[n])
    <3>1. n = m /\ s = [head EXCEPT ![n] = y]
      BY <1>9, <2>1
    <3>2. y = x
      <4>1. head[n] = Line
        BY <1>4, <1>8, <2>1 DEF Line
      <4>2. QED
        BY <4>1
    <3> HIDE DEF s, y, head, n, x
    <3>3. s[n] = y /\ \A i \in 1..(m - 1) : s[i] = head[i]
      <4>1. head \in [1..n -> T]
        BY <1>8, LenProperties
      <4>2. n \in 1..n /\ \A i \in 1..(m - 1) : i \in 1..n /\ i # n
        BY <1>4, <3>1
      <4>3. QED
        BY <3>1, <4>1, <4>2
    <3>4. Len(s) = n
      BY <1>8, <3>1, ExceptSeq
    <3>5. \A i \in 1..(m - 1) : i \in 1..n
      BY <1>4, <3>1
    <3>6. QED
      BY <1>8, <2>1, <3>1, <3>2, <3>3, <3>4, <3>5
  <2>2. CASE ~inside
    <3>1. s = head /\ n = m - 1
      BY <1>9, <2>2
    <3> HIDE DEF s, head, n
    <3>2. QED
      BY <1>8, <2>2, <3>1
  <2>3. QED
    BY <2>1, <2>2
<1>20. Len(s) = n /\ Len(t) \in Nat /\ (~persisted => Len(t) = 0)
  BY <1>6, <1>10
<1> DEFINE none == IF inside THEN 0 ELSE 1
<1>17. n = m - none /\ none \in {0, 1} /\ m >= 1 /\ m \in Nat /\ n \in Nat /\ n <= m
  BY <1>3, <1>4
<1>18. (inside => n = m) /\ (~inside => n = m - 1)
  BY <1>4
<1> HIDE DEF s, t, T, n, m, none
<1>11. /\ u \in Seq(T) /\ Len(u) = Len(s) + Len(t)
       /\ \A i \in 1..Len(s) : u[i] = s[i]
       /\ \A i \in 1..Len(t) : u[Len(s) + i] = t[i]
  <2>1. s \in Seq(T) /\ t \in Seq(T)
    BY <1>6, <1>7
  <2>2. QED
    BY <2>1, CatIs
<1>21. Len(u) = Len(s) + Len(t)
  BY <1>11
<1> HIDE DEF u
<1>12. ASSUME NEW i \in m..Len(u) PROVE u[i].head \notin odd
  <2>1. CASE i \in 1..n
    <3>1. inside /\ i = m
      BY <1>17, <1>18, <2>1
    <3>2. u[i] = x
      BY <1>10, <1>11, <2>1, <3>1
    <3>3. QED
      BY <3>2, ClippedHead
  <2>2. CASE i \notin 1..n
    <3> DEFINE k == Len(t)
    <3>1. Len(u) = n + k /\ k \in Nat /\ m >= 1 /\ i \in Int
      BY <1>20, <1>21, <1>17
    <3> HIDE DEF k
    <3>2. i - n \in 1..k /\ n + (i - n) = i
      <4>1. i > n /\ i <= n + k
        BY <1>17, <2>2, <3>1
      <4>2. QED
        BY <1>17, <3>1, <4>1
    <3>3. u[i] = t[i - n]
      BY <1>10, <1>11, <3>2 DEF k
    <3>4. QED
      BY <1>6, <3>2, <3>3 DEF k
  <2>3. QED
    BY <2>1, <2>2
<1>13. \A i \in 1..(m - 1) : u[i] = lines[i]
  <2>1. \A i \in 1..(m - 1) : i \in 1..n
    BY <1>17
  <2>2. QED
    BY <1>10, <1>11, <2>1
<1>14. inside => u[m] = x
  <2>1. inside => m \in 1..n
    BY <1>17, <1>18
  <2>2. QED
    BY <1>10, <1>11, <2>1
<1>15. Len(u) >= n /\ (~persisted => Len(u) = n)
  BY <1>20, <1>21, <1>17
<1>16. QED
  BY <1>2, <1>3, <1>5, <1>11, <1>12, <1>13, <1>14, <1>15, <1>17 DEF T, m, none, x, odd

-----------------------------------------------------------------------------
(* Only a combined diff is refused. *)

\* The change is as git reports it, the next line to read is at most the one
\* behind the last, and only a combined diff is refused; until then the parser
\* is in order.
RInv ==
  /\ change \in Seq(FileChange) /\ AllReported(change)
  /\ Lies(change) => persisted
  /\ p.at <= Len(lines) + 1
  /\ \A i \in 1..Len(lines) : lines[i].head \in {"diff --cc", "@@@"} => Combined
  /\ IF p.err THEN Combined ELSE Fit(p)
  /\ p.closed => ~p.err

(***************************************************************************)
(* A change has a combined diff just if one of its files is one.           *)
(***************************************************************************)
LEMMA CombinedIs ==
  ASSUME change \in Seq(FileChange)
  PROVE  AnyCombined(change, Len(change)) <=> Combined
<1>1. DOMAIN change = 1..Len(change)
  BY LenProperties
<1>2. QED
  BY <1>1 DEF AnyCombined, Combined

(***************************************************************************)
(* The patch as it was written leads from before the change to its end.    *)
(***************************************************************************)
LEMMA InitWalks ==
  ASSUME Init
  PROVE  /\ change \in Seq(FileChange) /\ AllReported(change)
         /\ \E strip \in BOOLEAN : \E g : /\ Walks(change, strip, lines, g) /\ g[0] = Before
                                          /\ g[Len(lines)] = FileEnd(change, Len(change))
<1>1. change \in Changes
  BY DEF Init
<1>2. change \in Seq(FileChange)
  BY <1>1, ChangesAssumption
<1>3. AllReported(change)
  <2>1. DOMAIN change = 1..Len(change)
    BY <1>2, LenProperties
  <2>2. QED
    BY <1>1, <2>1, GitAssumption DEF AllReported
<1>4. PICK strip \in BOOLEAN : lines = Patch(change, strip)
  BY DEF Init
<1>5. Goes(change, strip, lines, Before, FileEnd(change, Len(change)))
  BY <1>2, <1>4, PatchGoes DEF Writes
<1>6. QED
  BY <1>2, <1>3, <1>5 DEF Goes

(***************************************************************************)
(* It holds of a patch as git wrote it, and before its first line.         *)
(***************************************************************************)
LEMMA InitRInv == Init => RInv
<1> SUFFICES ASSUME Init PROVE RInv
  OBVIOUS
<1>1. DInv
  BY InitDInv
<1>2. lines \in Seq(PatchLine) /\ Len(lines) \in Nat
  BY <1>1, LenProperties DEF DInv
<1>3. change \in Seq(FileChange) /\ AllReported(change)
  BY InitWalks
<1>4. PICK strip \in BOOLEAN : \E g : Walks(change, strip, lines, g) /\ g[0] = Before
  BY InitWalks
<1>5. PICK g : Walks(change, strip, lines, g) /\ g[0] = Before
  BY <1>4
<1>6. \A i \in 0..Len(lines) : InPlace(change, g[i])
  BY <1>2, <1>3, <1>5, WalkStays
<1>7. ASSUME NEW i \in 1..Len(lines), lines[i].head \in {"diff --cc", "@@@"} PROVE Combined
  <2> DEFINE j == i - 1
  <2>1. Leads(change, strip, g[j], lines[i], g[i])
    BY <1>5 DEF Walks
  <2>2. j \in 0..Len(lines) /\ i \in 0..Len(lines)
    BY <1>2
  <2> HIDE DEF j
  <2>3. InPlace(change, g[j]) /\ InPlace(change, g[i])
    BY <1>6, <2>2
  <2>4. IsCombined(change, g[j], lines[i], g[i])
    BY <1>3, <1>7, <2>1, <2>3, LeadHeads
  <2>5. g[i].at = "cc"
    BY <2>4, EdgeSpots DEF IsCombined
  <2>6. AnyCombined(change, Len(change))
    BY <2>3, <2>5 DEF InPlace
  <2>7. QED
    BY <1>3, <2>6, CombinedIs
<1>8. p = Start
  BY DEF Init
<1>9. p.at = 1 /\ p.err = FALSE /\ p.inFile = FALSE /\ p.cur = NoFile
  BY <1>8 DEF Start
<1>10. Fit(p)
  BY <1>1, <1>9 DEF Fit, DInv, Neat
<1>11. p.at <= Len(lines) + 1
  BY <1>2, <1>9
<1>12. QED
  BY <1>3, <1>7, <1>9, <1>10, <1>11 DEF RInv, Init

(***************************************************************************)
(* A line refuses the patch only if it is a combined diff's, and           *)
(* otherwise keeps the parser in order.                                    *)
(***************************************************************************)
LEMMA StepRInv == DInv /\ RInv /\ DInv' /\ StepLine => RInv'
<1> SUFFICES ASSUME DInv, RInv, DInv', StepLine PROVE RInv'
  OBVIOUS
<1> DEFINE r == Read(p, Line)
<1>1. /\ More /\ ~p.closed /\ ~p.err /\ Line \in PatchLine /\ p.at \in 1..Len(lines)
      /\ p' = Consumed(r) /\ r \in Parsers /\ Sound(r)
      /\ p'.at = p.at + 1 /\ p'.closed = FALSE
      /\ change' = change /\ lines' = lines /\ persisted' = persisted
  BY StepReads
<1>2. Len(lines) \in Nat
  BY LenProperties DEF DInv
<1>3. p'.at <= Len(lines) + 1
  BY <1>1, <1>2
<1>4. IF p'.err THEN Combined ELSE Fit(p')
  <2>1. CASE Line.head \in {"diff --cc", "@@@"}
    <3>1. Combined
      BY <1>1, <2>1 DEF RInv, Line
    <3>2. SameFiles(r, p') /\ p'.cur = r.cur
      BY <1>1, ConsumedIs
    <3>3. ~p'.err => Fit(p')
      <4> SUFFICES ASSUME ~p'.err PROVE Neat(p')
        BY DEF DInv, Fit
      <4>1. ~p'.inFile => p'.cur = NoFile
        <5>1. CASE p.state = "payload" /\ Line.head # "diff --cc"
          <6>1. r = p
            BY <2>1, <5>1 DEF Read
          <6>2. QED
            BY <1>1, <3>2, <6>1 DEF RInv, Fit, Neat, SameFiles
        <5>2. CASE p.state = "hunk" /\ Line.byte \in BodyBytes
          <6>1. r = InBody(p, Line) /\ p.inHunk
            BY <5>2 DEF Read, DInv, Sound
          <6> HIDE DEF r
          <6>2. Fit(p)
            BY <1>1 DEF RInv
          <6>3. Fit(r)
            BY <1>1, <6>1, <6>2, BodyTells
          <6>4. QED
            BY <3>2, <6>3 DEF Fit, Neat, SameFiles
        <5>3. CASE ~(p.state = "payload" /\ Line.head # "diff --cc") /\ ~(p.state = "hunk" /\ Line.byte \in BodyBytes)
          <6>1. \E q : r = [q EXCEPT !.err = TRUE] /\ q \in Parsers
            <7> DEFINE x == [p EXCEPT !.state = "header"]
                       w == Flag(p, "body is shorter")
                       y == [w EXCEPT !.state = "header"]
            <7>1. \A q : InHeader(q, Line) = [q EXCEPT !.err = TRUE]
              BY <2>1 DEF InHeader
            <7>2. p \in Parsers /\ Sound(p) /\ p.state \in {"header", "hunk", "payload"}
              BY DEF DInv, Parsers
            <7>3. x \in Parsers
              BY <7>2 DEF Parsers
            <7>4. y \in Parsers
              <8>1. "body is shorter" \in Warnings
                BY DEF Warnings
              <8>2. w \in Parsers
                BY <1>1, <7>2, <8>1, FlagKeeps DEF Keeps
              <8> HIDE DEF w
              <8>3. QED
                BY <8>2 DEF Parsers
            <7>5. r \in {InHeader(x, Line), InHeader(y, Line), InHeader(p, Line)}
              BY <2>1, <5>3, <7>2 DEF Read
            <7> HIDE DEF x, y, r
            <7>6. QED
              BY <7>1, <7>2, <7>3, <7>4, <7>5
          <6>2. PICK q : r = [q EXCEPT !.err = TRUE] /\ q \in Parsers
            BY <6>1
          <6> HIDE DEF r
          <6>3. r.err = TRUE
            BY <6>2 DEF Parsers
          <6>4. p'.err = r.err
            BY <1>1, ConsumedIs
          <6>5. QED
            BY <6>3, <6>4
        <5>4. QED
          BY <5>1, <5>2, <5>3
      <4>2. QED
        BY <4>1 DEF Neat
    <3>4. QED
      BY <3>1, <3>3
  <2>2. CASE Line.head \notin {"diff --cc", "@@@"}
    <3>1. Fit(r)
      BY <1>1, <2>2, ReadTells DEF RInv
    <3> HIDE DEF r
    <3>2. Fit(p')
      BY <1>1, <3>1, ConsumedFits
    <3>3. QED
      BY <3>2 DEF Fit, Neat
  <2>3. QED
    BY <2>1, <2>2
<1>5. Combined' <=> Combined
  BY <1>1 DEF Combined
<1>6. QED
  BY <1>1, <1>3, <1>4, <1>5 DEF RInv

(***************************************************************************)
(* A cut brings no combined diff into the patch.                           *)
(***************************************************************************)
LEMMA CutRInv == ASSUME NEW inside \in BOOLEAN PROVE DInv /\ RInv /\ Cut(inside) => RInv'
<1> SUFFICES ASSUME DInv, RInv, Cut(inside) PROVE RInv'
  OBVIOUS
<1>1. /\ ~p.closed /\ ~p.err /\ p.at \in 1..Len(lines)
      /\ change' = change /\ persisted' = persisted /\ p' = p /\ lines' \in Seq(PatchLine)
      /\ Len(lines') >= p.at - (IF inside THEN 0 ELSE 1)
      /\ \A i \in 1..(p.at - 1) : lines'[i] = lines[i]
      /\ \A i \in p.at..Len(lines') : lines'[i].head \notin {"diff --cc", "@@@"}
  BY CutIs
<1> DEFINE m == p.at
           k == Len(lines)
           n == Len(lines')
           none == IF inside THEN 0 ELSE 1
<1>2. m \in 1..k /\ k \in Nat /\ n \in Nat /\ none \in {0, 1} /\ n >= m - none
  BY <1>1, LenProperties DEF DInv
<1> HIDE DEF m, n, k, none
<1>3. m <= n + 1 /\ \A i \in 1..n : i \in 1..(m - 1) \/ i \in m..n
  BY <1>2
<1>4. \A i \in 1..(m - 1) : i \in 1..k
  BY <1>2
<1>5. \A i \in 1..n : lines'[i].head \in {"diff --cc", "@@@"} => Combined
  BY <1>1, <1>3, <1>4 DEF RInv, m, n, k
<1>6. Combined' <=> Combined
  BY <1>1 DEF Combined
<1>7. QED
  BY <1>1, <1>3, <1>5, <1>6 DEF RInv, m, n

(***************************************************************************)
(* What the end of the patch does: the last file is closed, and all        *)
(* lines are the files'.                                                   *)
(***************************************************************************)
LEMMA FinishIs ==
  ASSUME DInv, RInv, Finish
  PROVE  /\ p.at = Len(lines) + 1 /\ ~p.err /\ ~p.closed /\ Fit(p)
         /\ change' = change /\ lines' = lines /\ truncated' = truncated /\ persisted' = persisted
         /\ p' = [CloseFile(p) EXCEPT !.closed = TRUE]
         /\ p'.files = CloseFile(p).files /\ p'.closed = TRUE /\ p'.at = p.at /\ p'.err = FALSE
         /\ Fit(p') /\ All(p') = Shown(p'.files) /\ Count(p') = Len(p'.files) /\ All(p') = All(p) /\ Count(p') = Count(p)
<1>1. /\ p.at > Len(lines) /\ ~p.err /\ ~p.closed /\ p' = [CloseFile(p) EXCEPT !.closed = TRUE]
      /\ change' = change /\ lines' = lines /\ truncated' = truncated /\ persisted' = persisted
  BY DEF Finish
<1>2. p.at = Len(lines) + 1
  <2>1. Len(lines) \in Nat /\ p.at \in Nat
    BY LenProperties DEF DInv, Parsers
  <2>2. p.at <= Len(lines) + 1
    BY DEF RInv
  <2> DEFINE m == p.at
             n == Len(lines)
  <2>3. m \in Nat /\ n \in Nat /\ m > n /\ m <= n + 1
    BY <1>1, <2>1, <2>2
  <2> HIDE DEF m, n
  <2>4. m = n + 1
    BY <2>3
  <2>5. QED
    BY <2>4 DEF m, n
<1>3. Fit(p)
  BY <1>1 DEF RInv
<1> DEFINE r == CloseFile(p)
           yes == TRUE
           s == [r EXCEPT !.closed = yes]
<1>4. p.state # "hunk" \/ p.inFile
  BY <1>3 DEF Fit, Sound
<1>5. /\ Fit(r) /\ All(r) = All(p) /\ Count(r) = Count(p) /\ ~r.inFile
      /\ All(r) = Shown(r.files) /\ Count(r) = Len(r.files)
  BY <1>1, <1>3, <1>4, CloseQuiet
<1>6. r.at = p.at
  BY <1>1, <1>3, <1>4, CloseFileKeeps DEF Fit, Keeps
<1> HIDE DEF r
<1>7. r \in Parsers /\ Sound(r) /\ Neat(r) /\ yes \in BOOLEAN
  BY <1>5 DEF Fit
<1> HIDE DEF yes
<1>8. s \in Parsers
  BY <1>7 DEF Parsers
<1>9. /\ s.files = r.files /\ s.cur = r.cur /\ s.hunk = r.hunk /\ s.inHunk = r.inHunk /\ s.inFile = r.inFile
      /\ s.state = r.state /\ s.at = r.at /\ s.err = r.err /\ s.closed = yes
  BY <1>7 DEF Parsers
<1>10. p' = s
  BY <1>1 DEF r, yes
<1> HIDE DEF s
<1>11. Sound(s) /\ Neat(s)
  BY <1>7, <1>9 DEF Sound, Neat
<1>12. All(s) = All(r) /\ Count(s) = Count(r)
  BY <1>9 DEF All, Count
<1>13. s.err = FALSE
  BY <1>8, <1>11 DEF Neat, Parsers
<1>14. Fit(s) /\ All(s) = Shown(s.files) /\ Count(s) = Len(s.files) /\ All(s) = All(p) /\ Count(s) = Count(p)
  BY <1>5, <1>8, <1>9, <1>11, <1>12 DEF Fit
<1>15. p'.files = r.files /\ p'.closed = TRUE /\ p'.at = p.at /\ p'.err = FALSE
  BY <1>6, <1>9, <1>10, <1>13 DEF yes
<1>16. QED
  BY <1>1, <1>2, <1>3, <1>10, <1>14, <1>15 DEF r

(***************************************************************************)
(* In every behaviour a patch is refused only for a combined diff          *)
(* (ErrUnsupportedDiff), and until then the parser is in order: a change   *)
(* that git reports is never turned down for what its headers claim.       *)
(***************************************************************************)
THEOREM Refusals == Spec => []RInv
<1>1. DInv /\ RInv /\ DInv' /\ [Next]_vars => RInv'
  <2> SUFFICES ASSUME DInv, RInv, DInv', [Next]_vars PROVE RInv'
    OBVIOUS
  <2>1. CASE StepLine
    BY <2>1, StepRInv
  <2>2. CASE Finish
    <3>1. /\ p'.closed = TRUE /\ p'.at = p.at /\ p'.err = FALSE /\ Fit(p')
          /\ change' = change /\ lines' = lines /\ persisted' = persisted
      BY <2>2, FinishIs
    <3>2. Combined' <=> Combined
      BY <3>1 DEF Combined
    <3>3. QED
      BY <3>1, <3>2 DEF RInv
  <2>3. CASE \E inside \in BOOLEAN : Cut(inside)
    BY <2>3, CutRInv
  <2>4. CASE \E focus \in 0..Len(p.files) : Paint(focus)
    <3>1. change' = change /\ lines' = lines /\ persisted' = persisted /\ p' = p
      BY <2>4 DEF Paint
    <3>2. QED
      BY <3>1 DEF RInv, Combined
  <2>5. CASE UNCHANGED vars
    BY <2>5 DEF RInv, Combined, vars
  <2>6. QED
    BY <2>1, <2>2, <2>3, <2>4, <2>5 DEF Next, StepLine
<1>2. QED
  BY InitRInv, Pages, <1>1, PTL DEF Spec

-----------------------------------------------------------------------------
(* The parser stands where the next line comes from. *)

\* As long as the patch is whole, the parser stands where its next line is.
WInv ==
  ~truncated /\ Plain(change) =>
    \E strip \in BOOLEAN : \E g :
      /\ Walks(change, strip, lines, g) /\ g[0] = Before /\ g[Len(lines)] = FileEnd(change, Len(change))
      /\ ~p.closed /\ ~p.err => Tied(change, p, g[p.at - 1])
      /\ p.closed => ~Combined /\ DoneWith(change, p.files, Len(change))

(***************************************************************************)
(* The place in the change does not depend on the one in the patch.        *)
(***************************************************************************)
LEMMA ConsumedTied ==
  ASSUME NEW c, NEW r \in Parsers, NEW a
  PROVE  Tied(c, r, a) => Tied(c, Consumed(r), a)
<1> SUFFICES ASSUME Tied(c, r, a) PROVE Tied(c, Consumed(r), a)
  OBVIOUS
<1> DEFINE s == Consumed(r)
<1>1. /\ SameHeaders(r, s) /\ SameHunk(r, s) /\ SameFiles(r, s) /\ s.cur = r.cur /\ s.state = r.state
      /\ s.err = r.err
  BY ConsumedIs
<1> HIDE DEF s
<1>2. StandsAt(c, r, a) /\ StateAt(r, a)
  BY DEF Tied
<1>3. SameNames(r.cur, s.cur) /\ s.cur.hunks = r.cur.hunks /\ s.cur.flags = r.cur.flags
  BY <1>1 DEF SameNames
<1>4. StandsAt(c, s, a)
  BY <1>1, <1>2, <1>3, StandsSame
<1>5. Owes(s) <=> Owes(r)
  BY <1>1 DEF Owes, SameHunk
<1>6. StateAt(s, a)
  BY <1>1, <1>2, <1>5 DEF StateAt
<1>7. QED
  BY <1>4, <1>6 DEF Tied, s

(***************************************************************************)
(* Before the first line the parser stands before the change.              *)
(***************************************************************************)
LEMMA StartTied ==
  ASSUME NEW c, InPlace(c, Before)
  PROVE  Tied(c, Start, Before)
<1>1. /\ Start.state = "header" /\ Start.files = <<>> /\ Start.inFile = FALSE /\ Start.inHunk = FALSE /\ Start.err = FALSE
  BY DEF Start
<1>2. Before.at = "start"
  BY EdgeSpots
<1>3. DoneWith(c, <<>>, 0)
  <2>1. Len(<<>>) = 0 /\ 1..0 = {}
    BY EmptySeq
  <2>2. QED
    BY <2>1 DEF DoneWith
<1>4. StandsAt(c, Start, Before)
  BY <1>1, <1>2, <1>3 DEF StandsAt, Opened, Behind
<1>5. StateAt(Start, Before)
  BY <1>1, <1>2 DEF StateAt, Opened
<1>6. QED
  BY <1>4, <1>5 DEF Tied

(***************************************************************************)
(* It holds before the first line, of the walk that git writes.            *)
(***************************************************************************)
LEMMA InitWInv == Init => WInv
<1> SUFFICES ASSUME Init PROVE WInv
  OBVIOUS
<1>1. change \in Seq(FileChange) /\ lines \in Seq(PatchLine)
  BY InitWalks, InitDInv DEF DInv
<1>2. PICK strip \in BOOLEAN : \E g : /\ Walks(change, strip, lines, g) /\ g[0] = Before
                                      /\ g[Len(lines)] = FileEnd(change, Len(change))
  BY InitWalks
<1>3. PICK g : Walks(change, strip, lines, g) /\ g[0] = Before /\ g[Len(lines)] = FileEnd(change, Len(change))
  BY <1>2
<1>4. InPlace(change, g[0])
  <2>1. 0 \in 0..Len(lines)
    BY <1>1, LenProperties
  <2>2. QED
    BY <1>1, <1>3, <2>1, WalkStays
<1>5. p = Start
  BY DEF Init
<1>6. p.at - 1 = 0 /\ p.closed = FALSE
  <2>1. p.at = 1 /\ p.closed = FALSE
    BY <1>5 DEF Start
  <2>2. QED
    BY <2>1
<1>7. Tied(change, p, g[0])
  BY <1>3, <1>4, <1>5, StartTied
<1>8. QED
  BY <1>3, <1>6, <1>7 DEF WInv

(***************************************************************************)
(* A line that leads into a combined diff is one of it.                    *)
(***************************************************************************)
LEMMA LeadCombined ==
  ASSUME NEW c \in Seq(FileChange), NEW strip \in BOOLEAN, NEW a, InPlace(c, a), NEW l, NEW b, Leads(c, strip, a, l, b), b.at = "cc"
  PROVE  IsCombined(c, a, l, b)
<1>1. ~IsGit(c, a, l, b)
  BY GitStays
<1>2. ~IsHead(c, a, l, b)
  BY HeadStays
<1>3. ~IsOld(c, a, l, b)
  BY OldStays
<1>4. ~IsNew(c, a, l, b)
  BY NewStays
<1>5. ~IsHunk(c, a, l, b)
  BY HunkStays
<1>6. ~IsText(c, strip, a, l, b)
  BY TextStays
<1>7. ~IsMarker(c, a, l, b)
  BY MarkerStays
<1>8. QED
  BY <1>1, <1>2, <1>3, <1>4, <1>5, <1>6, <1>7 DEF Leads

(***************************************************************************)
(* A line of the walk takes the parser to the next place of it.            *)
(***************************************************************************)
LEMMA StepWInv == DInv /\ RInv /\ WInv /\ StepLine => WInv'
<1> SUFFICES ASSUME DInv, RInv, WInv, StepLine, ~truncated', Plain(change)' PROVE WInv'
  BY DEF WInv
<1> DEFINE r == Read(p, Line)
<1>1. /\ More /\ ~p.closed /\ ~p.err /\ Line \in PatchLine /\ p.at \in 1..Len(lines)
      /\ p' = Consumed(r) /\ r \in Parsers /\ Sound(p) /\ p \in Parsers
      /\ p'.at = p.at + 1 /\ p'.closed = FALSE
      /\ change' = change /\ lines' = lines /\ truncated' = truncated /\ persisted' = persisted
  BY StepReads
<1>2. ~truncated /\ Plain(change)
  BY <1>1 DEF Plain
<1>3. PICK strip \in BOOLEAN : \E g :
        /\ Walks(change, strip, lines, g) /\ g[0] = Before /\ g[Len(lines)] = FileEnd(change, Len(change))
        /\ ~p.closed /\ ~p.err => Tied(change, p, g[p.at - 1])
  BY <1>2 DEF WInv
<1>4. PICK g : /\ Walks(change, strip, lines, g) /\ g[0] = Before /\ g[Len(lines)] = FileEnd(change, Len(change))
               /\ ~p.closed /\ ~p.err => Tied(change, p, g[p.at - 1])
  BY <1>3
<1> DEFINE a == g[p.at - 1]
           b == g[p.at]
<1>5. Leads(change, strip, a, Line, b)
  BY <1>1, <1>4 DEF Walks, Line
<1>6. Tied(change, p, a)
  BY <1>1, <1>4
<1>7. Ready(p) /\ change \in Seq(FileChange) /\ AllReported(change)
  BY <1>1 DEF Ready, RInv
<1>8. p'.at - 1 = p.at
  BY <1>1
<1>9. p'.err \/ Tied(change, p', b)
  <2> HIDE DEF a, b
  <2>1. CASE b.at = "cc"
    <3>1. InPlace(change, a)
      BY <1>6 DEF Tied, StandsAt
    <3>2. IsCombined(change, a, Line, b)
      BY <1>5, <1>7, <2>1, <3>1, LeadCombined
    <3>3. r.err
      BY <1>6, <1>7, <3>2, Refuses
    <3> HIDE DEF r
    <3>4. QED
      BY <1>1, <3>3, ConsumedIs
  <2>2. CASE b.at # "cc"
    <3>1. Tied(change, r, b)
      BY <1>1, <1>2, <1>5, <1>6, <1>7, <2>2, Follows
    <3> HIDE DEF r
    <3>2. QED
      BY <1>1, <3>1, ConsumedTied
  <2>3. QED
    BY <2>1, <2>2
<1> DEFINE q == p'
           k == q.at - 1
<1>10. (~q.err => Tied(change, q, g[k])) /\ q.closed = FALSE
  BY <1>1, <1>8, <1>9
<1> HIDE DEF q
<1>11. /\ Walks(change, strip, lines, g) /\ g[0] = Before /\ g[Len(lines)] = FileEnd(change, Len(change))
       /\ ~q.closed /\ ~q.err => Tied(change, q, g[k])
       /\ q.closed => ~Combined /\ DoneWith(change, q.files, Len(change))
  BY <1>4, <1>10
<1>12. QED
  BY <1>1, <1>11 DEF WInv, q, k

(***************************************************************************)
(* At the end of the walk all files have been read.                        *)
(***************************************************************************)
LEMMA FinishWInv == DInv /\ RInv /\ WInv /\ Finish => WInv'
<1> SUFFICES ASSUME DInv, RInv, WInv, Finish, ~truncated', Plain(change)' PROVE WInv'
  BY DEF WInv
<1> DEFINE r == CloseFile(p)
<1>1. /\ p.at = Len(lines) + 1 /\ ~p.err /\ ~p.closed /\ Fit(p)
      /\ change' = change /\ lines' = lines /\ truncated' = truncated /\ persisted' = persisted
      /\ p'.files = r.files /\ p'.closed = TRUE
  BY FinishIs
<1>2. ~truncated /\ Plain(change)
  BY <1>1 DEF Plain
<1>3. PICK strip \in BOOLEAN : \E g :
        /\ Walks(change, strip, lines, g) /\ g[0] = Before /\ g[Len(lines)] = FileEnd(change, Len(change))
        /\ ~p.closed /\ ~p.err => Tied(change, p, g[p.at - 1])
  BY <1>2 DEF WInv
<1>4. PICK g : /\ Walks(change, strip, lines, g) /\ g[0] = Before /\ g[Len(lines)] = FileEnd(change, Len(change))
               /\ ~p.closed /\ ~p.err => Tied(change, p, g[p.at - 1])
  BY <1>3
<1> DEFINE n == Len(change)
           a == FileEnd(change, n)
<1>5. p.at - 1 = Len(lines)
  <2>1. Len(lines) \in Nat
    BY LenProperties DEF DInv
  <2>2. QED
    BY <1>1, <2>1
<1>6. Tied(change, p, a)
  BY <1>1, <1>4, <1>5
<1>7. Ready(p) /\ change \in Seq(FileChange) /\ AllReported(change)
  BY <1>1 DEF Ready, RInv, Fit
<1>8. StandsAt(change, p, a) /\ a.at # "cc"
  BY <1>6 DEF Tied, StandsAt
<1>9. n \in Nat /\ n \in 0..n
  BY <1>7, LenProperties
<1> HIDE DEF n
<1>10. ~AnyCombined(change, n)
  BY <1>7, <1>8, <1>9, FileEnds, EdgeSpots DEF n
<1>11. Complete(change, a) /\ a.f = n
  BY <1>7, <1>9, <1>10, FileEnds DEF n
<1> HIDE DEF a
<1>12. DoneWith(change, r.files, a.f)
  BY <1>7, <1>8, <1>11, CloseFileStands
<1>13. ~Combined
  BY <1>7, <1>10, CombinedIs DEF n
<1> DEFINE q == p'
<1>14. q.closed = TRUE /\ ~Combined /\ DoneWith(change, q.files, Len(change))
  BY <1>1, <1>11, <1>12, <1>13 DEF n
<1>15. Combined' <=> Combined
  BY <1>1 DEF Combined
<1> HIDE DEF q
<1>16. /\ Walks(change, strip, lines, g) /\ g[0] = Before /\ g[Len(lines)] = FileEnd(change, Len(change))
       /\ ~q.closed /\ ~q.err => Tied(change, q, g[q.at - 1])
       /\ q.closed => ~Combined /\ DoneWith(change, q.files, Len(change))
  BY <1>4, <1>14, <1>15
<1>17. QED
  BY <1>1, <1>15, <1>16 DEF WInv, q

(***************************************************************************)
(* In every behaviour, as long as the patch is whole and none of its       *)
(* lines can be mistaken, ParseUnified stands, before each line, at the    *)
(* place of the change that the line comes from: the files before it       *)
(* read, the headers so far heard, the lines so far in the open hunk;      *)
(* and closed, it has read every file.                                     *)
(***************************************************************************)
THEOREM Standing == Spec => []WInv
<1>1. DInv /\ RInv /\ WInv /\ [Next]_vars => WInv'
  <2> SUFFICES ASSUME DInv, RInv, WInv, [Next]_vars PROVE WInv'
    OBVIOUS
  <2>1. CASE StepLine
    BY <2>1, StepWInv
  <2>2. CASE Finish
    BY <2>2, FinishWInv
  <2>3. CASE \E inside \in BOOLEAN : Cut(inside)
    <3>1. truncated' = TRUE
      BY <2>3 DEF Cut
    <3>2. QED
      BY <3>1 DEF WInv
  <2>4. CASE \E focus \in 0..Len(p.files) : Paint(focus)
    <3>1. change' = change /\ lines' = lines /\ truncated' = truncated /\ p' = p
      BY <2>4 DEF Paint
    <3>2. QED
      BY <3>1 DEF WInv, Combined
  <2>5. CASE UNCHANGED vars
    <3>1. change' = change /\ lines' = lines /\ truncated' = truncated /\ p' = p
      BY <2>5 DEF vars
    <3>2. QED
      BY <3>1 DEF WInv, Combined
  <2>6. QED
    BY <2>1, <2>2, <2>3, <2>4, <2>5 DEF Next, StepLine
<1>2. QED
  BY InitWInv, Pages, Refusals, <1>1, PTL DEF Spec

-----------------------------------------------------------------------------
(* A whole and honest patch is read back as the change. *)

(***************************************************************************)
(* The types of the hunks of a change.                                     *)
(***************************************************************************)
LEMMA HunkTypes ==
  ASSUME NEW c \in Seq(FileChange), NEW i \in DOMAIN c, NEW j \in DOMAIN c[i].hunks
  PROVE  c[i].hunks[j] \in HunkChange /\ c[i] \in FileChange /\ c[i].hunks \in Seq(HunkChange) /\ i \in 1..Len(c) /\ j \in 1..Len(c[i].hunks)
<1>1. c[i] \in FileChange /\ i \in 1..Len(c)
  BY LenProperties
<1>2. c[i].hunks \in Seq(HunkChange)
  BY <1>1 DEF FileChange
<1>3. QED
  BY <1>1, <1>2, LenProperties

(***************************************************************************)
(* Where all headers are honest no line can be mistaken.                   *)
(***************************************************************************)
LEMMA HonestPlain ==
  ASSUME NEW c \in Seq(FileChange), ~Lies(c)
  PROVE  Plain(c) /\ \A i \in DOMAIN c : \A j \in DOMAIN c[i].hunks : Honest(c[i].hunks[j])
<1>1. \A i \in DOMAIN c : \A j \in DOMAIN c[i].hunks : Honest(c[i].hunks[j])
  BY DEF Lies
<1>2. ASSUME NEW i \in DOMAIN c, NEW j \in DOMAIN c[i].hunks PROVE ~Mistakable(c[i].hunks[j])
  <2>1. c[i].hunks[j] \in HunkChange /\ Honest(c[i].hunks[j])
    BY <1>1, HunkTypes
  <2>2. \A k \in 0..(Len(c[i].hunks[j].body) - 1) : ~UsedUp(c[i].hunks[j], k)
    BY <2>1, HonestIs
  <2>3. QED
    BY <2>2 DEF Mistakable
<1>3. \A h \in AllHunks(c) : \E i \in DOMAIN c : \E j \in DOMAIN c[i].hunks : h = c[i].hunks[j]
  BY DEF AllHunks
<1>4. QED
  BY <1>1, <1>2, <1>3 DEF Plain

(***************************************************************************)
(* The lines of an honest hunk are read as its lines with their places.    *)
(***************************************************************************)
LEMMA ReadPlaces ==
  ASSUME NEW h \in HunkChange, Honest(h)
  PROVE  ReadHunk(h) = [claim |-> h.claim, lines |-> Places(h)]
<1> DEFINE n == Len(h.body)
           g == h.claim
<1>1. Given(h.claim) = g /\ n \in Nat /\ DOMAIN h.body = 1..n
  BY HonestIs, LenProperties DEF HunkChange
<1>2. ASSUME NEW i \in 1..n
      PROVE  LineAt(h, i, h.body[i].noNL /\ (i = n => TRUE)) =
               [kind |-> h.body[i].kind, text |-> h.body[i].text, noNL |-> h.body[i].noNL,
                oldNo |-> IF h.body[i].kind = "add" THEN 0 ELSE h.claim[1] + Olds(SubSeq(h.body, 1, i - 1)),
                newNo |-> IF h.body[i].kind = "del" THEN 0 ELSE h.claim[3] + News(SubSeq(h.body, 1, i - 1))]
  <2> DEFINE kind == h.body[i].kind
             text == h.body[i].text
             m == h.body[i].noNL
             x == Olds(SubSeq(h.body, 1, i - 1))
             y == News(SubSeq(h.body, 1, i - 1))
             u == IF kind = "add" THEN 0 ELSE h.claim[1] + x
             w == IF kind = "del" THEN 0 ELSE h.claim[3] + y
  <2>1. x = Olds(Fore(h, i - 1)) /\ y = News(Fore(h, i - 1))
    BY DEF Fore
  <2>2. (m /\ (i = n => TRUE)) = m
    <3>1. h.body \in Seq(BodyLine)
      BY DEF HunkChange
    <3>2. h.body[i] \in BodyLine
      BY <3>1
    <3>3. m \in BOOLEAN
      BY <3>2 DEF BodyLine
    <3>4. QED
      BY <3>3
  <2>3. /\ u = (IF kind = "add" THEN 0 ELSE Given(h.claim)[1] + Olds(Fore(h, i - 1)))
        /\ w = (IF kind = "del" THEN 0 ELSE Given(h.claim)[3] + News(Fore(h, i - 1)))
    BY <1>1, <2>1
  <2> HIDE DEF u, w
  <2>4. LineAt(h, i, m) = [kind |-> kind, text |-> text, noNL |-> m, oldNo |-> u, newNo |-> w]
    BY <2>3, LineAtIs
  <2>5. QED
    BY <2>2, <2>4 DEF u, w
<1>3. ReadLines(h, n, TRUE) = Places(h)
  BY <1>1, <1>2 DEF ReadLines, Places
<1>4. QED
  BY <1>1, <1>3 DEF ReadHunk

(***************************************************************************)
(* A file all of whose headers are honest is told as it was changed.       *)
(***************************************************************************)
LEMMA FileTold ==
  ASSUME NEW d \in FileChange, NEW x \in ParsedFile, ReadFile(d, x), \A j \in DOMAIN d.hunks : Honest(d.hunks[j]),
         x.adds = CountOf(x.hunks, "add"), x.dels = CountOf(x.hunks, "del")
  PROVE  Tells(x, d)
<1> DEFINE n == Len(d.hunks)
           told == [j \in DOMAIN d.hunks |-> [claim |-> d.hunks[j].claim, lines |-> Places(d.hunks[j])]]
<1>1. d.hunks \in Seq(HunkChange) /\ n \in Nat /\ DOMAIN d.hunks = 1..n
  BY LenProperties DEF FileChange
<1>2. Names(x, d) /\ Hunks(d, x, n) /\ Fair(d, x, n)
  BY DEF ReadFile
<1>3. x.hunks = told
  <2>1. x.hunks \in Seq(ParsedHunk) /\ Len(x.hunks) = n /\ \A j \in 1..n : x.hunks[j] = ReadHunk(d.hunks[j])
    BY <1>2 DEF ParsedFile, Hunks
  <2>2. \A j \in 1..n : x.hunks[j] = told[j]
    <3> TAKE j \in 1..n
    <3>1. d.hunks[j] \in HunkChange /\ Honest(d.hunks[j])
      BY <1>1
    <3>2. ReadHunk(d.hunks[j]) = [claim |-> d.hunks[j].claim, lines |-> Places(d.hunks[j])]
      BY <3>1, ReadPlaces
    <3>3. told[j] = [claim |-> d.hunks[j].claim, lines |-> Places(d.hunks[j])]
      BY <1>1
    <3>4. QED
      BY <2>1, <3>2, <3>3
  <2>3. x.hunks \in [1..n -> ParsedHunk]
    BY <2>1, LenProperties
  <2>4. told = [j \in 1..n |-> told[j]]
    BY <1>1
  <2> HIDE DEF told, n
  <2>5. x.hunks = [j \in 1..n |-> x.hunks[j]]
    BY <2>3
  <2>6. QED
    BY <2>2, <2>4, <2>5
<1>4. x.flags = {}
  BY <1>1, <1>2 DEF Fair
<1>5. told = <<>> <=> d.hunks = <<>>
  <2>1. told = <<>> => d.hunks = <<>>
    <3> SUFFICES ASSUME told = <<>> PROVE d.hunks = <<>>
      OBVIOUS
    <3>1. DOMAIN d.hunks = {}
      <4>1. DOMAIN told = DOMAIN d.hunks
        OBVIOUS
      <4>2. DOMAIN <<>> = {}
        OBVIOUS
      <4> HIDE DEF told
      <4>3. QED
        BY <4>1, <4>2
    <3>2. n = 0
      <4>1. n \notin 1..n
        BY <1>1, <3>1
      <4> HIDE DEF n
      <4>2. QED
        BY <1>1, <4>1
    <3>3. QED
      BY <1>1, <3>2, EmptySeq
  <2>2. d.hunks = <<>> => told = <<>>
    <3> SUFFICES ASSUME d.hunks = <<>> PROVE told = <<>>
      OBVIOUS
    <3>1. x.hunks \in Seq(ParsedHunk) /\ Len(x.hunks) = n
      BY <1>2 DEF ParsedFile, Hunks
    <3>2. n = 0
      BY EmptySeq
    <3> HIDE DEF told, n
    <3>3. x.hunks = <<>>
      BY <3>1, <3>2, EmptySeq
    <3>4. QED
      BY <1>3, <3>3
  <2>3. QED
    BY <2>1, <2>2
<1>6. x.binary \in BOOLEAN
  BY DEF ParsedFile
<1> HIDE DEF told
<1>7. /\ Path(x) = d.new
      /\ d.status \in {"renamed", "copied"} => x.old = d.old
      /\ d.status = "added" /\ told # <<>> => x.old = ""
      /\ x.status = IF d.status = "modified" /\ told = <<>> /\ d.binary = "no" THEN "mode" ELSE d.status
      /\ x.binary = (d.binary # "no")
      /\ d.oldMode # d.newMode => x.oldMode = d.oldMode /\ x.newMode = d.newMode
  BY <1>2, <1>5, <1>6 DEF Names
<1>8. x.adds = CountOf(told, "add") /\ x.dels = CountOf(told, "del")
  BY <1>3
<1>9. QED
  BY <1>3, <1>4, <1>7, <1>8, Zenon DEF Tells, told

(***************************************************************************)
(* What has been read of honest headers is what was changed.               *)
(***************************************************************************)
LEMMA Told == DInv /\ RInv /\ WInv => RoundTrip
<1> SUFFICES ASSUME DInv, RInv, WInv PROVE RoundTrip
  OBVIOUS
<1>1. p.err => Combined
  BY DEF RInv
<1>2. ASSUME p.closed, ~truncated, ~Lies(change)
      PROVE  ~Combined /\ Len(p.files) = Len(change) /\ \A i \in DOMAIN change : Tells(p.files[i], change[i])
  <2>1. change \in Seq(FileChange)
    BY DEF RInv
  <2>2. Plain(change) /\ \A i \in DOMAIN change : \A j \in DOMAIN change[i].hunks : Honest(change[i].hunks[j])
    BY <1>2, <2>1, HonestPlain
  <2>3. ~Combined /\ DoneWith(change, p.files, Len(change))
    BY <1>2, <2>2 DEF WInv
  <2>4. Len(p.files) = Len(change) /\ \A i \in 1..Len(change) : ReadFile(change[i], p.files[i])
    BY <2>3 DEF DoneWith
  <2>5. p.files \in Seq(ParsedFile) /\ Counted(p.files)
    BY DEF DInv, Parsers, Sound
  <2>6. DOMAIN change = 1..Len(change)
    BY <2>1, LenProperties
  <2>7. ASSUME NEW i \in DOMAIN change PROVE Tells(p.files[i], change[i])
    <3>1. i \in 1..Len(change) /\ i \in 1..Len(p.files) /\ ReadFile(change[i], p.files[i])
      BY <2>4, <2>6
    <3>2. change[i] \in FileChange /\ p.files[i] \in ParsedFile
      BY <2>1, <2>5, <3>1
    <3>3. p.files[i].adds = CountOf(p.files[i].hunks, "add") /\ p.files[i].dels = CountOf(p.files[i].hunks, "del")
      BY <2>5, <3>1 DEF Counted
    <3>4. QED
      BY <2>2, <3>1, <3>2, <3>3, FileTold
  <2>8. QED
    BY <2>3, <2>4, <2>7
<1>3. QED
  BY <1>1, <1>2 DEF RoundTrip

(***************************************************************************)
(* For every change that git reports with honest headers, of any number    *)
(* of files, hunks and lines, written with or without the trailing         *)
(* spaces: ParseUnified, when it has read the patch whole, gives back      *)
(* the change, file by file and line by line; and it refuses a patch       *)
(* only for a combined diff.                                               *)
(***************************************************************************)
THEOREM TripsRound == Spec => []RoundTrip
  BY Pages, Refusals, Standing, Told, PTL

-----------------------------------------------------------------------------
(* What a cut leaves. *)

\* The line l leads on from a, and is neither of a hunk nor its header.
Between(c, a, l) ==
  /\ ~IsBody(l) /\ l.head \notin {"@@", "@@ junk", "\\"}
  /\ a.at = "hunk" => l.byte = "d" /\ HunkDone(c, a)
  /\ l.head = "body" => l.byte = "z"
  /\ l.head = "diff --git" => l.byte = "d"

(***************************************************************************)
(* A line of a patch is one of a hunk or comes between.                    *)
(***************************************************************************)
LEMMA LeadIs ==
  ASSUME NEW c \in Seq(FileChange), NEW strip \in BOOLEAN, NEW a, InPlace(c, a), a.at # "cc", NEW l, NEW b, Leads(c, strip, a, l, b)
  PROVE  IsText(c, strip, a, l, b) \/ IsMarker(c, a, l, b) \/ IsHunk(c, a, l, b) \/ Between(c, a, l)
<1>1. CASE IsCombined(c, a, l, b)
  <2>1. a # Combine
    BY EdgeSpots
  <2>2. l.head = "diff --cc" /\ l.byte = "d" /\ Complete(c, a)
    BY <1>1, <2>1 DEF IsCombined
  <2>3. a.at = "hunk" => HunkDone(c, a)
    BY <2>2 DEF Complete
  <2>4. QED
    BY <2>2, <2>3 DEF Between, IsBody
<1>2. CASE IsGit(c, a, l, b)
  <2>1. l.head = "diff --git" /\ l.byte = "d"
    BY <1>2, LinesAre DEF IsGit
  <2>2. a.at = "hunk" => HunkDone(c, a)
    BY <1>2 DEF IsGit, Complete
  <2>3. QED
    BY <2>1, <2>2 DEF Between, IsBody
<1>3. CASE IsHead(c, a, l, b)
  <2>1. PICK n \in Heads : a.at = "head" /\ Needs(c[a.f], n) /\ l = HeadLine(c[a.f], n)
    BY <1>3 DEF IsHead
  <2>2. CASE n = "body"
    <3>1. l.head = "body" /\ l.byte = "z"
      BY <2>1, <2>2 DEF HeadLine, L
    <3>2. QED
      BY <2>1, <3>1 DEF Between, IsBody
  <2>3. CASE n # "body"
    <3>1. l.head = n /\ l.byte = "d"
      BY <2>1, <2>3, HeadLineIs
    <3>2. n \notin {"@@", "@@ junk", "\\"}
      BY <2>1 DEF Needs
    <3>3. QED
      BY <2>1, <2>3, <3>1, <3>2 DEF Between, IsBody
  <2>4. QED
    BY <2>2, <2>3
<1>4. CASE IsOld(c, a, l, b)
  <2>1. a.at = "head" /\ l = OldLine(c[a.f])
    BY <1>4 DEF IsOld
  <2>2. c[a.f] \in FileChange
    BY <2>1, FilesAre DEF InPlace
  <2>3. c[a.f].old \in FileNames
    BY <2>2 DEF FileChange
  <2>4. l.head = "--- " /\ l.byte = "-" /\ l.text \in {"a", "b", "/dev/null"}
    BY <2>1, <2>3, LinesAre DEF FileNames
  <2>5. QED
    BY <2>1, <2>4 DEF Between, IsBody, Texts
<1>5. CASE IsNew(c, a, l, b)
  <2>1. a.at = "old" /\ l = NewLine(c[a.f])
    BY <1>5 DEF IsNew
  <2>2. c[a.f] \in FileChange
    BY <2>1, FilesAre DEF InPlace
  <2>3. c[a.f].new \in FileNames
    BY <2>2 DEF FileChange
  <2>4. l.head = "+++ " /\ l.byte = "+" /\ l.text \in {"a", "b", "/dev/null"}
    BY <2>1, <2>3, LinesAre DEF FileNames
  <2>5. QED
    BY <2>1, <2>4 DEF Between, IsBody, Texts
<1>6. QED
  BY <1>1, <1>2, <1>3, <1>4, <1>5 DEF Leads

(***************************************************************************)
(* A line between hunks whose end is cut off is one that no state reads    *)
(* as a hunk's.                                                            *)
(***************************************************************************)
LEMMA ClippedOther ==
  ASSUME NEW l, ~IsBody(l), l.head \notin {"@@", "@@ junk", "\\"}
  PROVE  Clipped(l).head = "other" /\ Clipped(l).byte = l.byte
<1> DEFINE y == [Header("other", "") EXCEPT !.byte = l.byte]
<1>1. Clipped(l) = y
  BY DEF Clipped
<1>2. y.head = "other" /\ y.byte = l.byte
  BY DEF Header, L
<1>3. QED
  BY <1>1, <1>2

(***************************************************************************)
(* A line of a body whose end is cut off is one of the same kind.          *)
(***************************************************************************)
LEMMA ClippedBody ==
  ASSUME NEW l \in PatchLine, IsBody(l)
  PROVE  LET x == Clipped(l) IN
         x.byte = l.byte /\ x.text = "cut" /\ x.head = (IF l.byte = "" THEN "" ELSE "body") /\ IsBody(x)
<1> DEFINE h == IF l.byte = "" THEN "" ELSE "body"
           x == [l EXCEPT !.head = h, !.text = "cut"]
<1>1. l.head \notin {"@@", "@@ junk", "\\"} /\ l.byte \in {" ", "+", "-", ""}
  BY DEF IsBody
<1>2. Clipped(l) = x
  BY <1>1 DEF Clipped
<1>3. x.byte = l.byte /\ x.text = "cut" /\ x.head = h
  BY DEF PatchLine
<1>4. h \in {"body", ""}
  OBVIOUS
<1> HIDE DEF x
<1>5. IsBody(x)
  <2> HIDE DEF h
  <2>1. QED
    BY <1>1, <1>3, <1>4 DEF IsBody, Texts
<1>6. QED
  BY <1>2, <1>3, <1>5

(***************************************************************************)
(* A hunk's header whose end is cut off is junk.                           *)
(***************************************************************************)
LEMMA ClippedHunk == \A claim : Clipped(HunkLine(claim)) = Junk /\ Junk.head = "@@ junk" /\ Junk.byte = "@"
<1> SUFFICES ASSUME NEW claim PROVE Clipped(HunkLine(claim)) = Junk /\ Junk.head = "@@ junk" /\ Junk.byte = "@"
  OBVIOUS
<1> DEFINE l == HunkLine(claim)
<1>1. l.head = "@@"
  BY LinesAre
<1> HIDE DEF l
<1>2. ~IsBody(l)
  BY <1>1 DEF IsBody
<1>3. Clipped(l) = Junk
  BY <1>1, <1>2 DEF Clipped
<1>4. Junk.head = "@@ junk" /\ Junk.byte = "@"
  BY DEF Junk, L
<1>5. QED
  BY <1>3, <1>4 DEF l

\* Closed files whose hunks are short carry a warning, and so will the current one.
Warned(c, fs) ==
  \A i \in 1..Len(fs) : \A j \in 1..Len(fs[i].hunks) :
    Len(fs[i].hunks[j].lines) < Len(c[i].hunks[j].body) => fs[i].flags # {}
Fine(c, q) ==
  LET f == c[Len(q.files) + 1] IN
  /\ Warned(c, q.files)
  /\ \A j \in 1..Len(q.cur.hunks) : Len(q.cur.hunks[j].lines) < Len(f.hunks[j].body) => q.cur.flags # {}
  /\ q.inHunk /\ Len(q.hunk.lines) < Len(f.hunks[Len(q.cur.hunks) + 1].body) => Owes(q) \/ q.cur.flags # {}

(***************************************************************************)
(* More warnings keep every short hunk flagged.                            *)
(***************************************************************************)
LEMMA FineSame ==
  ASSUME NEW c, NEW q, Fine(c, q), NEW r, r.files = q.files, r.cur.hunks = q.cur.hunks, q.cur.flags \subseteq r.cur.flags,
         r.inHunk = q.inHunk, Len(r.hunk.lines) = Len(q.hunk.lines), r.oldRem = q.oldRem, r.newRem = q.newRem
  PROVE  Fine(c, r)
  BY DEF Fine, Owes

(***************************************************************************)
(* Naming a file takes no warning away.                                    *)
(***************************************************************************)
LEMMA SealedFlags ==
  ASSUME NEW q \in Parsers
  PROVE  q.cur.flags \subseteq Sealed(Named(q), q).flags
<1> DEFINE f == q.cur
           g == Named(q)
           x == IF f.old = "" /\ ~q.sawOldNull THEN q.hdrOld ELSE f.old
           y == IF f.new = "" /\ ~q.sawNewNull THEN q.hdrNew ELSE f.new
           more == f.flags \cup {"names no path"}
           name == "(unknown path)"
<1>1. f \in ParsedFile
  BY DEF Parsers
<1>2. g = [f EXCEPT !.new = name, !.flags = more] \/ g = [f EXCEPT !.old = x, !.new = y]
  BY DEF Named
<1> HIDE DEF f, x, y, name
<1>3. f.flags \subseteq more
  OBVIOUS
<1> HIDE DEF more, g
<1>4. f.flags \subseteq g.flags
  BY <1>1, <1>2, <1>3 DEF ParsedFile
<1> DEFINE s == IF q.sawModeLine /\ g.hunks = <<>> /\ ~g.binary THEN "mode" ELSE "modified"
<1>5. Sealed(g, q) = g \/ Sealed(g, q) = [g EXCEPT !.status = s]
  BY DEF Sealed
<1> HIDE DEF s
<1>6. \E z : g = [f EXCEPT !.new = z, !.flags = more] \/ \E w : g = [f EXCEPT !.old = w, !.new = z]
  BY <1>2
<1>7. DOMAIN g = DOMAIN f
  BY <1>6
<1>8. Sealed(g, q).flags = g.flags
  BY <1>1, <1>5, <1>7 DEF ParsedFile
<1>9. QED
  BY <1>4, <1>8 DEF f, g

(***************************************************************************)
(* The lines that are read of a whole hunk.                                *)
(***************************************************************************)
LEMMA ReadLength ==
  ASSUME NEW h \in HunkChange
  PROVE  Len(ReadHunk(h).lines) = Len(h.body) /\ Len(h.body) \in Nat
<1>1. Len(h.body) \in Nat
  BY FrontEdges
<1> DEFINE n == Len(h.body)
<1>2. n \in 0..n /\ TRUE \in BOOLEAN
  BY <1>1
<1>3. Len(ReadLines(h, n, TRUE)) = n
  BY <1>2, ReadLinesType
<1>4. QED
  BY <1>1, <1>3 DEF ReadHunk

(***************************************************************************)
(* When the current file is closed its short hunks carry a warning.        *)
(***************************************************************************)
LEMMA FineCloses ==
  ASSUME NEW c, NEW q, Ready(q), Fine(c, q)
  PROVE  Warned(c, CloseFile(q).files)
<1>1. q \in Parsers /\ Sound(q) /\ ~q.closed
  BY DEF Ready
<1>2. CASE ~q.inFile
  BY <1>2 DEF CloseFile, Fine
<1>3. CASE q.inFile
  <2> DEFINE r == CloseHunk(q)
             x == Sealed(Named(r), r)
             m == Len(q.files)
             d == c[m + 1]
  <2>1. r \in Parsers /\ CloseFile(q).files = Append(q.files, x)
    BY <1>1, <1>3, CloseFileIs
  <2>2. x.hunks = r.cur.hunks /\ r.cur.flags \subseteq x.flags
    BY <2>1, SealedHunks, SealedFlags
  <2>3. q.cur.hunks \in Seq(ParsedHunk) /\ q.files \in Seq(ParsedFile) /\ q.hunk \in ParsedHunk
    BY <1>1, FieldTypes DEF Parsers
  <2>4. \A j \in 1..Len(r.cur.hunks) : Len(r.cur.hunks[j].lines) < Len(d.hunks[j].body) => r.cur.flags # {}
    <3>1. CASE ~q.inHunk
      <4>1. r = q
        BY <3>1 DEF CloseHunk
      <4>2. QED
        BY <4>1 DEF Fine
    <3>2. CASE q.inHunk
      <4> DEFINE n == Len(q.cur.hunks)
                 hs == r.cur.hunks
      <4>1. /\ r.cur.flags = q.cur.flags \cup (IF Owes(q) THEN {"hunk is short"} ELSE {})
            /\ hs = Append(q.cur.hunks, q.hunk)
        BY <1>1, <3>2, CloseHunkIs
      <4>2. /\ Len(hs) = n + 1 /\ n \in Nat /\ hs[n + 1] = q.hunk
            /\ \A j \in 1..n : hs[j] = q.cur.hunks[j]
        <5> DEFINE s == q.cur.hunks
                   e == q.hunk
        <5>1. s \in Seq(ParsedHunk) /\ e \in ParsedHunk
          BY <2>3
        <5> HIDE DEF s, e
        <5>2. Len(Append(s, e)) = Len(s) + 1 /\ Append(s, e)[Len(s) + 1] = e /\ \A j \in 1..Len(s) : Append(s, e)[j] = s[j]
          BY <5>1, AppendProperties
        <5>3. Len(s) \in Nat
          BY <5>1, LenProperties
        <5>4. QED
          BY <4>1, <5>2, <5>3 DEF s, e
      <4>3. /\ \A j \in 1..n : Len(q.cur.hunks[j].lines) < Len(d.hunks[j].body) => q.cur.flags # {}
            /\ Len(q.hunk.lines) < Len(d.hunks[n + 1].body) => Owes(q) \/ q.cur.flags # {}
        BY <3>2 DEF Fine
      <4>4. Owes(q) \/ q.cur.flags # {} => r.cur.flags # {}
        BY <4>1
      <4> HIDE DEF n, hs, d, r
      <4>5. \A j \in 1..(n + 1) : j \in 1..n \/ j = n + 1
        BY <4>2
      <4>6. \A j \in 1..(n + 1) : Len(hs[j].lines) < Len(d.hunks[j].body) => r.cur.flags # {}
        BY <4>2, <4>3, <4>4, <4>5
      <4>7. QED
        BY <4>2, <4>6 DEF hs
    <3>3. QED
      BY <3>1, <3>2
  <2>5. \A j \in 1..Len(x.hunks) : Len(x.hunks[j].lines) < Len(d.hunks[j].body) => x.flags # {}
    BY <2>2, <2>4
  <2>6. Warned(c, q.files)
    BY DEF Fine
  <2> DEFINE fs == Append(q.files, x)
  <2>7. x \in ParsedFile
    BY <1>1, <2>1, CloseHunkKeeps, SealedNamed
  <2>8. Len(fs) = m + 1 /\ m \in Nat /\ fs[m + 1] = x /\ \A i \in 1..m : fs[i] = q.files[i]
    BY <2>3, <2>7, AppendProperties
  <2> HIDE DEF fs, x, m
  <2>9. \A i \in 1..(m + 1) : i \in 1..m \/ i = m + 1
    BY <2>8
  <2>10. Warned(c, fs)
    <3> SUFFICES ASSUME NEW i \in 1..Len(fs), NEW j \in 1..Len(fs[i].hunks),
                        Len(fs[i].hunks[j].lines) < Len(c[i].hunks[j].body)
                 PROVE  fs[i].flags # {}
      BY DEF Warned
    <3>1. CASE i \in 1..m
      BY <2>6, <2>8, <3>1 DEF Warned, m
    <3>2. CASE i = m + 1
      BY <2>5, <2>8, <3>2
    <3>3. QED
      BY <2>8, <2>9, <3>1, <3>2
  <2>11. QED
    BY <2>1, <2>10 DEF fs, x
<1>4. QED
  BY <1>2, <1>3

(***************************************************************************)
(* An honest patch leaves no short hunk without a warning, or without      *)
(* lines that are still owed, wherever the parser stands in it.            *)
(***************************************************************************)
LEMMA StandsFine ==
  ASSUME NEW c \in Seq(FileChange), ~Lies(c), NEW q, Fit(q), NEW a, StandsAt(c, q, a)
  PROVE  Fine(c, q)
<1>1. q \in Parsers /\ (~q.inFile => q.cur = NoFile)
  BY DEF Fit, Neat
<1>2. InPlace(c, a) /\ a.at # "cc" /\ a \in Spots /\ a.f \in Nat
  BY SpotFields DEF StandsAt, InPlace
<1> DEFINE n == Behind(a)
           d == c[a.f]
<1>3. DoneWith(c, q.files, n)
  BY DEF StandsAt
<1>4. \A i \in 1..n : ReadFile(c[i], q.files[i]) /\ Len(q.files) = n
  BY <1>3 DEF DoneWith
<1>5. a.at # "start" => File(c, a.f)
  BY <1>2, SpotFields DEF InPlace
<1>6. \A i \in 1..n : i \in DOMAIN c
  <2>1. CASE a.at = "start"
    BY <2>1 DEF Behind
  <2>2. CASE a.at # "start"
    <3>1. n = a.f - 1 /\ a.f \in 1..Len(c)
      BY <1>5, <2>2 DEF Behind, File
    <3> HIDE DEF n
    <3>2. \A i \in 1..n : i \in 1..Len(c)
      BY <1>2, <3>1, LenProperties
    <3>3. QED
      BY <3>2, LenProperties
  <2>3. QED
    BY <2>1, <2>2
<1>7. Warned(c, q.files)
  <2> SUFFICES ASSUME NEW i \in 1..n, NEW j \in 1..Len(q.files[i].hunks)
               PROVE  ~(Len(q.files[i].hunks[j].lines) < Len(c[i].hunks[j].body))
    BY <1>3 DEF Warned, DoneWith
  <2>1. Hunks(c[i], q.files[i], Len(c[i].hunks))
    BY <1>4 DEF ReadFile
  <2>2. j \in 1..Len(c[i].hunks) /\ q.files[i].hunks[j] = ReadHunk(c[i].hunks[j])
    BY <2>1 DEF Hunks
  <2>3. c[i] \in FileChange
    BY <1>6
  <2>4. c[i].hunks \in Seq(HunkChange)
    BY <2>3 DEF FileChange
  <2>5. c[i].hunks[j] \in HunkChange
    BY <2>2, <2>4, LenProperties
  <2> DEFINE u == Len(q.files[i].hunks[j].lines)
             w == Len(c[i].hunks[j].body)
  <2>6. u = w /\ w \in Nat
    BY <2>2, <2>5, ReadLength
  <2> HIDE DEF u, w
  <2>7. ~(u < w)
    BY <2>6
  <2>8. QED
    BY <2>7 DEF u, w
<1>8. CASE a.at = "start"
  <2>1. ~q.inFile /\ ~q.inHunk
    BY <1>8 DEF StandsAt, Opened
  <2>2. Len(q.cur.hunks) = 0
    <3>1. q.cur.hunks = <<>>
      <4>1. NoFile.hunks = <<>>
        BY DEF NoFile
      <4>2. QED
        BY <1>1, <2>1, <4>1
    <3>2. QED
      BY <3>1, EmptySeq
  <2>3. QED
    BY <1>7, <2>1, <2>2 DEF Fine
<1>9. CASE a.at # "start"
  <2>1. Amid(d, q, a) /\ (q.inHunk <=> Opened(a)) /\ File(c, a.f)
    BY <1>5, <1>9 DEF StandsAt
  <2>2. Hunks(d, q.cur, Whole(a)) /\ (Opened(a) => Reading(d.hunks[a.h], q, a.k, a.done))
    BY <2>1 DEF Amid
  <2>3. Len(q.files) + 1 = a.f
    <3>1. Len(q.files) = a.f - 1
      BY <1>3, <1>9 DEF DoneWith, Behind
    <3> DEFINE u == Len(q.files)
               w == a.f
    <3>2. u = w - 1 /\ w \in Nat
      BY <1>2, <3>1
    <3> HIDE DEF u, w
    <3>3. u + 1 = w
      BY <3>2
    <3>4. QED
      BY <3>3 DEF u, w
  <2>4. d \in FileChange /\ d.hunks \in Seq(HunkChange)
    BY <2>1, FilesAre
  <2>5. Whole(a) <= Len(d.hunks) /\ Whole(a) \in Nat
    <3>1. CASE ~Opened(a)
      BY <2>4, <3>1, LenProperties DEF Whole
    <3>2. CASE Opened(a)
      <4>1. a.h \in 1..Len(d.hunks) /\ Len(d.hunks) \in Nat /\ Whole(a) = a.h - 1
        BY <1>2, <2>4, <3>2, OpenedIs, LenProperties DEF Whole
      <4>2. QED
        BY <4>1
    <3>3. QED
      BY <3>1, <3>2
  <2>6. \A j \in 1..Len(q.cur.hunks) : ~(Len(q.cur.hunks[j].lines) < Len(d.hunks[j].body))
    <3> TAKE j \in 1..Len(q.cur.hunks)
    <3>1. j \in 1..Whole(a) /\ q.cur.hunks[j] = ReadHunk(d.hunks[j])
      BY <2>2 DEF Hunks
    <3>2. j \in 1..Len(d.hunks)
      BY <2>4, <2>5, <3>1, LenProperties
    <3>3. d.hunks[j] \in HunkChange
      BY <2>4, <3>2, LenProperties
    <3> DEFINE u == Len(q.cur.hunks[j].lines)
               w == Len(d.hunks[j].body)
    <3>4. u = w /\ w \in Nat
      BY <3>1, <3>3, ReadLength
    <3> HIDE DEF u, w
    <3>5. ~(u < w)
      BY <3>4
    <3>6. QED
      BY <3>5 DEF u, w
  <2>7. ASSUME q.inHunk, Len(q.hunk.lines) < Len(d.hunks[Len(q.cur.hunks) + 1].body)
        PROVE  Owes(q)
    <3> DEFINE h == d.hunks[a.h]
               k == a.k
    <3>1. Opened(a) /\ Reading(h, q, k, a.done)
      BY <2>1, <2>2, <2>7
    <3>2. a.h \in 1..Len(d.hunks) /\ a.h \in Nat /\ k \in 0..Len(h.body) /\ a.done \in BOOLEAN /\ Len(h.body) \in Nat
      BY <1>2, <3>1, OpenedIs
    <3>3. Len(q.cur.hunks) = a.h - 1
      BY <2>2, <3>1 DEF Hunks, Whole
    <3>4. Len(q.cur.hunks) + 1 = a.h
      BY <3>2, <3>3
    <3>5. h \in HunkChange
      BY <2>4, <3>2, LenProperties
    <3>6. Len(q.hunk.lines) = k
      <4>1. q.hunk.lines = ReadLines(h, k, a.done)
        BY <3>1 DEF Reading
      <4>2. QED
        BY SMTT(20), <3>2, <3>5, <4>1, ReadLinesType
    <3>7. k < Len(h.body)
      BY <2>7, <3>4, <3>6
    <3>8. k \in 0..(Len(h.body) - 1)
      <4> DEFINE m == Len(h.body)
      <4>1. m \in Nat /\ k \in 0..m /\ k < m
        BY <3>2, <3>7
      <4> HIDE DEF m, k
      <4>2. k \in 0..(m - 1)
        BY <4>1
      <4>3. QED
        BY <4>2 DEF m
    <3>9. Honest(h)
      <4>1. a.f \in DOMAIN c /\ a.h \in DOMAIN d.hunks
        BY <2>1, <2>4, <3>2, LenProperties DEF File
      <4>2. QED
        BY <4>1 DEF Lies
    <3>10. ~UsedUp(h, k)
      BY <3>5, <3>8, <3>9, HonestIs
    <3>11. QED
      BY <3>1, <3>2, <3>5, <3>10, OwesIs
  <2>8. QED
    BY <1>7, <2>3, <2>6, <2>7 DEF Fine
<1>10. QED
  BY <1>8, <1>9

(***************************************************************************)
(* An honest hunk that is whole owes nothing.                              *)
(***************************************************************************)
LEMMA WholeState ==
  ASSUME NEW c \in Seq(FileChange), ~Lies(c), NEW q, NEW a, Tied(c, q, a), a.at = "hunk" => HunkDone(c, a)
  PROVE  q.state # "hunk" /\ (a.at = "hunk" => q.state = "header")
<1>1. StandsAt(c, q, a) /\ StateAt(q, a) /\ InPlace(c, a)
  BY DEF Tied, StandsAt
<1>2. q.state # "hunk"
  <2>1. CASE ~Opened(a)
    BY <1>1, <2>1 DEF StateAt
  <2>2. CASE Opened(a)
    <3> DEFINE d == c[a.f]
               h == d.hunks[a.h]
    <3>1. HunkDone(c, a)
      BY <2>2 DEF Opened
    <3>2. a.done = TRUE /\ a.k = Len(h.body)
      BY <1>1, <2>2, <3>1, HunkDoneIs
    <3>3. a.at # "start"
      BY <2>2 DEF Opened
    <3>4. Reading(h, q, a.k, a.done)
      BY <1>1, <2>2, <3>3 DEF StandsAt, Amid
    <3>5. File(c, a.f) /\ a.h \in 1..Len(d.hunks)
      BY <1>1, <2>2, OpenedIs
    <3>6. h \in HunkChange /\ d.hunks \in Seq(HunkChange)
      BY <3>5, FilesAre
    <3>7. a.f \in DOMAIN c /\ a.h \in DOMAIN d.hunks
      BY <3>5, <3>6, LenProperties DEF File
    <3>8. Honest(h)
      BY <3>7 DEF Lies
    <3>9. Due(h.claim[2]) = Olds(h.body) /\ Due(h.claim[4]) = News(h.body)
      BY <3>6, <3>8, HonestIs
    <3>10. Olds(h.body) \in Nat /\ News(h.body) \in Nat
      BY <3>6, FrontEdges
    <3>11. ~(Due(h.claim[2]) > Olds(h.body)) /\ ~(Due(h.claim[4]) > News(h.body))
      <4> DEFINE u == Olds(h.body)
                 w == News(h.body)
      <4>1. u \in Nat /\ w \in Nat
        BY <3>10
      <4> HIDE DEF u, w
      <4>2. ~(u > u) /\ ~(w > w)
        BY <4>1
      <4>3. QED
        BY <3>9, <4>2 DEF u, w
    <3>12. Reading(h, q, Len(h.body), TRUE)
      BY <3>2, <3>4
    <3>13. ~Owes(q)
      BY <3>6, <3>11, <3>12, OwesBad
    <3>14. QED
      BY <1>1, <3>13 DEF StateAt
  <2>3. QED
    BY <2>1, <2>2
<1>3. QED
  BY <1>1, <1>2 DEF StateAt

(***************************************************************************)
(* The rest of a line says nothing of its file.                            *)
(***************************************************************************)
LEMMA OtherReads ==
  ASSUME NEW c \in Seq(FileChange), ~Lies(c), NEW q, Fit(q), ~q.closed, NEW a, Tied(c, q, a),
         a.at = "hunk" => HunkDone(c, a), NEW x, x.head = "other"
  PROVE  Read(q, x) = q
<1>2. q.state # "hunk"
  BY WholeState
<1>3. InHeader(q, x) = q
  <2>1. Extended(q, x) = q
    BY DEF Extended
  <2>2. QED
    BY <2>1 DEF InHeader
<1>4. QED
  BY <1>2, <1>3 DEF Read

(***************************************************************************)
(* What is left of a body line is a line of a patch.                       *)
(***************************************************************************)
LEMMA ClippedMade ==
  ASSUME NEW l \in PatchLine, IsBody(l)
  PROVE  Clipped(l) \in PatchLine
<1> DEFINE x == [l EXCEPT !.head = IF l.byte = "" THEN "" ELSE "body", !.text = "cut"]
<1>1. "body" \in Heads /\ "" \in Heads /\ "cut" \in Words
  BY DEF Heads, Words, Texts
<1>2. x \in PatchLine
  BY <1>1 DEF PatchLine
<1>3. l.head \notin {"@@", "@@ junk", "\\"}
  BY DEF IsBody
<1> HIDE DEF x
<1>4. Clipped(l) = x
  BY <1>3 DEF Clipped, x
<1>5. QED
  BY <1>2, <1>4

(***************************************************************************)
(* A line's text changes nothing but the line.                             *)
(***************************************************************************)
LEMMA AddSame ==
  ASSUME NEW q \in Parsers, NEW kind \in Kinds, NEW v, NEW w
  PROVE  LET t == AddLine(q, kind, v)
             u == AddLine(q, kind, w) IN
         /\ t.files = u.files /\ t.cur.hunks = u.cur.hunks /\ t.cur.flags = u.cur.flags /\ t.inHunk = u.inHunk
         /\ t.oldRem = u.oldRem /\ t.newRem = u.newRem /\ Len(t.hunk.lines) = Len(u.hunk.lines)
<1> DEFINE t == AddLine(q, kind, v)
           u == AddLine(q, kind, w)
           Line1(x) == [kind |-> kind, text |-> x, noNL |-> FALSE,
                    oldNo |-> IF kind # "add" THEN q.oldNo ELSE 0, newNo |-> IF kind # "del" THEN q.newNo ELSE 0]
<1>1. /\ t.hunk.lines = Append(q.hunk.lines, Line1(v))
      /\ t.oldRem = q.oldRem - (IF kind # "add" THEN 1 ELSE 0) /\ t.newRem = q.newRem - (IF kind # "del" THEN 1 ELSE 0)
      /\ t.cur.flags = q.cur.flags /\ t.cur.hunks = q.cur.hunks /\ t.files = q.files /\ t.inHunk = q.inHunk
  BY AddLineIs DEF SameFiles
<1>2. /\ u.hunk.lines = Append(q.hunk.lines, Line1(w))
      /\ u.oldRem = q.oldRem - (IF kind # "add" THEN 1 ELSE 0) /\ u.newRem = q.newRem - (IF kind # "del" THEN 1 ELSE 0)
      /\ u.cur.flags = q.cur.flags /\ u.cur.hunks = q.cur.hunks /\ u.files = q.files /\ u.inHunk = q.inHunk
  BY AddLineIs DEF SameFiles
<1>3. q.hunk.lines \in Seq(ParsedLine)
  BY FieldTypes DEF Parsers
<1> HIDE DEF t, u, Line1
<1>4. \A z : Len(Append(q.hunk.lines, z)) = Len(q.hunk.lines) + 1
  BY <1>3
<1>5. QED
  BY <1>1, <1>2, <1>4 DEF t, u

(***************************************************************************)
(* A line of an honest hunk's body is owed.                                *)
(***************************************************************************)
LEMMA TextOwed ==
  ASSUME NEW c \in Seq(FileChange), ~Lies(c), NEW strip \in BOOLEAN, NEW q, Fit(q), NEW a, Tied(c, q, a),
         NEW l \in PatchLine, NEW b, IsText(c, strip, a, l, b)
  PROVE  /\ q.state = "hunk" /\ IsBody(l) /\ l.byte \in {" ", "+", "-", ""} /\ q.inFile /\ q.inHunk
         /\ ~UsedUp(c[a.f].hunks[a.h], a.k) /\ q \in Parsers /\ Sound(q) /\ StandsAt(c, q, a)
<1> DEFINE h == c[a.f].hunks[a.h]
<1>1. q \in Parsers /\ Sound(q) /\ StandsAt(c, q, a) /\ StateAt(q, a) /\ InPlace(c, a)
  BY DEF Fit, Tied, StandsAt
<1>2. Opened(a) /\ a.done /\ a.k < Len(h.body) /\ a.at # "start"
  BY DEF IsText, Opened
<1>3. q.inHunk /\ q.inFile
  BY <1>1, <1>2 DEF StandsAt
<1>4. HunkOf(c, a.f, a.h) /\ a.k \in Nat /\ a.h \in 1..Len(c[a.f].hunks) /\ File(c, a.f)
  BY <1>1, <1>2, OpenedIs
<1>5. h \in HunkChange /\ c[a.f].hunks \in Seq(HunkChange) /\ Len(h.body) \in Nat
  BY <1>4, FilesAre
<1>6. a.k \in 0..(Len(h.body) - 1) /\ a.k \in 0..Len(h.body)
  <2> DEFINE n == Len(h.body)
             k == a.k
  <2>1. n \in Nat /\ k \in Nat /\ k < n
    BY <1>2, <1>4, <1>5
  <2> HIDE DEF n, k
  <2>2. k \in 0..(n - 1) /\ k \in 0..n
    BY <2>1
  <2>3. QED
    BY <2>2 DEF n, k
<1>7. Honest(h)
  <2>1. a.f \in DOMAIN c /\ a.h \in DOMAIN c[a.f].hunks
    BY <1>4, <1>5, LenProperties DEF File
  <2>2. QED
    BY <2>1 DEF Lies
<1>8. ~UsedUp(h, a.k)
  BY <1>5, <1>6, <1>7, HonestIs
<1>9. q.state = "hunk"
  <2>1. Reading(h, q, a.k, a.done)
    BY <1>1, <1>2 DEF StandsAt, Amid
  <2>2. Owes(q)
    BY <1>5, <1>6, <1>8, <2>1, OwesIs
  <2>3. QED
    BY <1>1, <1>2, <2>2 DEF StateAt
<1>10. IsBody(l) /\ l.byte \in {" ", "+", "-", ""}
  <2>1. l = Written(h.body[a.k + 1], strip)
    BY DEF IsText
  <2>2. h.body[a.k + 1] \in BodyLine
    BY <1>2, <1>4, <1>5, ItemIs DEF HunkChange
  <2>3. QED
    BY <2>1, <2>2, WrittenFields
<1>11. QED
  BY <1>1, <1>3, <1>8, <1>9, <1>10

(***************************************************************************)
(* A line of a body whose end was cut off counts as a line.                *)
(***************************************************************************)
LEMMA TextFine ==
  ASSUME NEW c \in Seq(FileChange), ~Lies(c), NEW strip \in BOOLEAN, NEW q, Fit(q), ~q.closed, NEW a, Tied(c, q, a),
         NEW l \in PatchLine, NEW b, IsText(c, strip, a, l, b)
  PROVE  Fine(c, Read(q, Clipped(l)))
<1> DEFINE h == c[a.f].hunks[a.h]
           x == Clipped(l)
           kind == BodyKind(l.byte)
           t == AddLine(q, kind, l.text)
           u == AddLine(q, kind, "cut")
<1>10. /\ q.state = "hunk" /\ IsBody(l) /\ l.byte \in {" ", "+", "-", ""} /\ q.inFile /\ q.inHunk
       /\ ~UsedUp(h, a.k) /\ q \in Parsers /\ Sound(q) /\ StandsAt(c, q, a)
  BY TextOwed
<1>11. x.byte = l.byte /\ x.text = "cut" /\ x \in PatchLine
  BY <1>10, ClippedBody, ClippedMade
<1>12. Read(q, x) = InBody(q, x)
  BY <1>10, <1>11 DEF Read, BodyBytes
<1>13. StandsAt(c, t, b)
  BY <1>10, BodyStands
<1>14. kind \in Kinds /\ l.text \in Words
  BY BodyKinds, LineFields
<1> HIDE DEF kind
<1>15. Fit(t)
  BY <1>10, <1>14, AddQuiet
<1>16. Fine(c, t)
  BY <1>13, <1>15, StandsFine
<1>17. Fine(c, u)
  <2>1. /\ t.files = u.files /\ t.cur.hunks = u.cur.hunks /\ t.cur.flags = u.cur.flags /\ t.inHunk = u.inHunk
        /\ t.oldRem = u.oldRem /\ t.newRem = u.newRem /\ Len(t.hunk.lines) = Len(u.hunk.lines)
    <3> DEFINE v == l.text
               w == "cut"
               y == AddLine(q, kind, v)
               z == AddLine(q, kind, w)
    <3>1. q \in Parsers /\ kind \in Kinds
      BY <1>10, <1>14
    <3> HIDE DEF v, w
    <3>2. /\ y.files = z.files /\ y.cur.hunks = z.cur.hunks /\ y.cur.flags = z.cur.flags /\ y.inHunk = z.inHunk
          /\ y.oldRem = z.oldRem /\ y.newRem = z.newRem /\ Len(y.hunk.lines) = Len(z.hunk.lines)
      BY ONLY <3>1, AddSame
    <3>3. QED
      BY <3>2 DEF v, w
  <2> HIDE DEF t, u
  <2>3. QED
    BY <1>16, <2>1, FineSame
<1>18. Classified(q, x) = u
  BY <1>10, <1>11 DEF Classified, kind
<1>19. Fine(c, InBody(q, x))
  <2> DEFINE r == InBody(q, x)
  <2>1. SameHunk(u, r) /\ SameFiles(u, r) /\ r.cur = u.cur
    BY <1>10, <1>11, <1>18, InBodyIs
  <2> HIDE DEF r, u
  <2>2. QED
    BY <1>17, <2>1, FineSame DEF SameHunk, SameFiles, r
<1>20. QED
  BY <1>12, <1>19

(***************************************************************************)
(* A cut inside the line that leads on leaves no short hunk without a      *)
(* warning.                                                                *)
(***************************************************************************)
LEMMA ClipFine ==
  ASSUME NEW c \in Seq(FileChange), ~Lies(c), NEW strip \in BOOLEAN, NEW q, Fit(q), ~q.closed, NEW a, Tied(c, q, a),
         NEW l \in PatchLine, NEW b, Leads(c, strip, a, l, b)
  PROVE  Fine(c, Read(q, Clipped(l)))
<1>1. q \in Parsers /\ Ready(q) /\ StandsAt(c, q, a) /\ InPlace(c, a) /\ a.at # "cc"
  BY DEF Fit, Tied, StandsAt, Ready
<1>2. Fine(c, q)
  BY <1>1, StandsFine
<1>3. CASE IsText(c, strip, a, l, b)
  BY <1>3, TextFine
<1>4. CASE IsMarker(c, a, l, b)
  <2>1. l.head = "\\"
    BY <1>4, LinesAre DEF IsMarker
  <2>2. Clipped(l) = l
    BY <2>1 DEF Clipped, IsBody
  <2>3. Tied(c, Read(q, l), b)
    BY <1>1, <1>4, MarkerStands
  <2>4. l.head \notin {"@@@", "diff --cc"}
    BY <2>1
  <2>5. Fit(Read(q, l))
    BY <2>4, ReadTells
  <2>6. QED
    BY <2>2, <2>3, <2>5, StandsFine DEF Tied
<1>5. CASE IsHunk(c, a, l, b)
  <2>1. Clipped(l) = Junk /\ Junk.head = "@@ junk" /\ Junk.byte = "@"
    BY <1>5, ClippedHunk DEF IsHunk
  <2>2. a.at = "hunk" /\ HunkDone(c, a)
    BY <1>5 DEF IsHunk, HunkDone
  <2>3. q.inFile
    BY <1>1, <2>2 DEF StandsAt
  <2> DEFINE m == "unparsable hunk header"
             r == Flag(q, m)
  <2>4. q.state = "header"
    BY <2>2, WholeState
  <2>6. Read(q, Junk) = r
    BY <2>1, <2>4 DEF Read, InHeader
  <2> HIDE DEF m
  <2>7. r.cur.flags = q.cur.flags \cup {m} /\ r.cur.hunks = q.cur.hunks /\ SameHunk(q, r) /\ SameFiles(q, r)
    BY <1>1, <2>3, FlagIs
  <2> HIDE DEF r
  <2>8. Fine(c, r)
    BY <1>2, <2>7, FineSame DEF SameHunk, SameFiles
  <2>9. QED
    BY <2>1, <2>6, <2>8
<1>6. CASE Between(c, a, l)
  <2>1. a.at = "hunk" => HunkDone(c, a)
    BY <1>6 DEF Between
  <2>2. Clipped(l).head = "other"
    BY <1>6, ClippedOther DEF Between
  <2>3. Read(q, Clipped(l)) = q
    BY <2>1, <2>2, OtherReads
  <2>4. QED
    BY <1>2, <2>3
<1>7. QED
  BY <1>1, <1>3, <1>4, <1>5, <1>6, LeadIs

-----------------------------------------------------------------------------
(* Cut short, and flagged. *)

\* Of a patch whose end was cut off all that is left has been read, or all but
\* the rest of the line that leads on; no short hunk goes without a warning.
CInv ==
  truncated /\ ~persisted =>
    IF p.closed THEN Warned(change, p.files)
    ELSE ~p.err =>
      \/ p.at = Len(lines) + 1 /\ Fine(change, p)
      \/ /\ p.at = Len(lines)
         /\ \E strip \in BOOLEAN : \E a, l, b :
              Tied(change, p, a) /\ l \in PatchLine /\ Leads(change, strip, a, l, b) /\ lines[p.at] = Clipped(l)

(***************************************************************************)
(* Where the parser stands at the cut: all that is left has been read,     *)
(* or all but the rest of one line.                                        *)
(***************************************************************************)
LEMMA CutCInv == ASSUME NEW inside \in BOOLEAN PROVE DInv /\ RInv /\ WInv /\ Cut(inside) => CInv'
<1> SUFFICES ASSUME DInv, RInv, WInv, Cut(inside), ~persisted' PROVE CInv'
  BY DEF CInv
<1>1. /\ ~p.closed /\ ~p.err /\ p.at \in 1..Len(lines) /\ Line \in PatchLine
      /\ ~truncated /\ change' = change /\ persisted' = persisted /\ p' = p
      /\ ~persisted => Len(lines') = p.at - (IF inside THEN 0 ELSE 1)
      /\ inside => lines'[p.at] = Clipped(Line)
  BY CutIs
<1>2. change \in Seq(FileChange) /\ ~Lies(change) /\ Fit(p)
  BY <1>1 DEF RInv
<1>3. Plain(change)
  BY <1>2, HonestPlain
<1>4. PICK strip \in BOOLEAN : \E g :
        /\ Walks(change, strip, lines, g) /\ g[0] = Before /\ g[Len(lines)] = FileEnd(change, Len(change))
        /\ ~p.closed /\ ~p.err => Tied(change, p, g[p.at - 1])
  BY <1>1, <1>3 DEF WInv
<1>5. PICK g : Walks(change, strip, lines, g) /\ (~p.closed /\ ~p.err => Tied(change, p, g[p.at - 1]))
  BY <1>4
<1> DEFINE a == g[p.at - 1]
           b == g[p.at]
<1>6. Leads(change, strip, a, Line, b) /\ Tied(change, p, a)
  BY <1>1, <1>5 DEF Walks, Line
<1> HIDE DEF a, b
<1>7. p.at \in Nat
  <2>1. Len(lines) \in Nat
    BY LenProperties DEF DInv
  <2>2. QED
    BY <1>1, <2>1
<1>8. CASE inside
  <2>1. p.at = Len(lines')
    <3> DEFINE m == Len(lines')
               n == p.at
    <3>1. m = n - 0 /\ n \in Nat
      BY <1>1, <1>7, <1>8
    <3> HIDE DEF m, n
    <3>2. m = n
      BY <3>1
    <3>3. QED
      BY <3>2 DEF m, n
  <2>2. lines'[p.at] = Clipped(Line)
    BY <1>1, <1>8
  <2> DEFINE l == Line
  <2>3. Tied(change, p, a) /\ l \in PatchLine /\ Leads(change, strip, a, l, b) /\ lines'[p.at] = Clipped(l)
    BY <1>1, <1>6, <2>2
  <2> HIDE DEF l
  <2>4. \E s \in BOOLEAN : \E x, y, z :
          Tied(change, p, x) /\ y \in PatchLine /\ Leads(change, s, x, y, z) /\ lines'[p.at] = Clipped(y)
    BY <2>3
  <2>5. QED
    BY <1>1, <2>1, <2>4 DEF CInv
<1>9. CASE ~inside
  <2>1. p.at = Len(lines') + 1
    <3> DEFINE m == Len(lines')
               n == p.at
    <3>1. m = n - 1 /\ n \in Nat
      BY <1>1, <1>7, <1>9
    <3> HIDE DEF m, n
    <3>2. n = m + 1
      BY <3>1
    <3>3. QED
      BY <3>2 DEF m, n
  <2>2. Fine(change, p)
    BY <1>2, <1>6, StandsFine DEF Tied
  <2>3. QED
    BY <1>1, <2>1, <2>2 DEF CInv
<1>10. QED
  BY <1>8, <1>9

(***************************************************************************)
(* After a cut there is at most that line to read.                         *)
(***************************************************************************)
LEMMA StepCInv == DInv /\ RInv /\ CInv /\ StepLine => CInv'
<1> SUFFICES ASSUME DInv, RInv, CInv, StepLine, truncated', ~persisted' PROVE CInv'
  BY DEF CInv
<1> DEFINE r == Read(p, Line)
<1>1. /\ More /\ ~p.closed /\ ~p.err /\ Line \in PatchLine /\ p.at \in 1..Len(lines)
      /\ p' = Consumed(r) /\ r \in Parsers
      /\ p'.at = p.at + 1 /\ p'.closed = FALSE
      /\ change' = change /\ lines' = lines /\ truncated' = truncated /\ persisted' = persisted
  BY StepReads
<1>2. Len(lines) \in Nat
  BY LenProperties DEF DInv
<1>3. p.at # Len(lines) + 1
  BY <1>1, <1>2
<1>4. change \in Seq(FileChange) /\ ~Lies(change) /\ Fit(p)
  BY <1>1 DEF RInv
<1>5. p.at = Len(lines) /\ \E strip \in BOOLEAN : \E a, l, b :
        Tied(change, p, a) /\ l \in PatchLine /\ Leads(change, strip, a, l, b) /\ lines[p.at] = Clipped(l)
  BY <1>1, <1>3 DEF CInv
<1>a. PICK strip \in BOOLEAN : \E a, l, b :
        Tied(change, p, a) /\ l \in PatchLine /\ Leads(change, strip, a, l, b) /\ lines[p.at] = Clipped(l)
  BY <1>5
<1>6. PICK a, l, b :
        Tied(change, p, a) /\ l \in PatchLine /\ Leads(change, strip, a, l, b) /\ Line = Clipped(l)
  BY <1>a DEF Line
<1>7. Fine(change, r)
  BY <1>1, <1>4, <1>6, ClipFine
<1> HIDE DEF r
<1>8. SameHunk(r, p') /\ SameFiles(r, p') /\ p'.cur = r.cur
  BY <1>1, ConsumedIs
<1> DEFINE q == p'
<1>9. SameHunk(r, q) /\ SameFiles(r, q) /\ q.cur = r.cur /\ q.at = p.at + 1 /\ q.closed = FALSE
  BY <1>1, <1>8
<1> HIDE DEF q
<1>10. Fine(change, q)
  BY <1>7, <1>9, FineSame DEF SameHunk, SameFiles
<1>11. q.at = Len(lines) + 1
  BY <1>5, <1>9
<1>12. QED
  BY <1>1, <1>9, <1>10, <1>11 DEF CInv, q

(***************************************************************************)
(* Then the last file is closed, with its warnings.                        *)
(***************************************************************************)
LEMMA FinishCInv == DInv /\ RInv /\ CInv /\ Finish => CInv'
<1> SUFFICES ASSUME DInv, RInv, CInv, Finish, truncated', ~persisted' PROVE CInv'
  BY DEF CInv
<1>1. /\ p.at = Len(lines) + 1 /\ ~p.err /\ ~p.closed /\ Fit(p)
      /\ change' = change /\ lines' = lines /\ truncated' = truncated /\ persisted' = persisted
      /\ p'.files = CloseFile(p).files /\ p'.closed = TRUE
  BY FinishIs
<1>2. Len(lines) \in Nat
  BY LenProperties DEF DInv
<1>3. p.at # Len(lines)
  <2> DEFINE n == Len(lines)
  <2>1. n \in Nat /\ p.at = n + 1
    BY <1>1, <1>2
  <2> HIDE DEF n
  <2>2. n + 1 # n
    BY <2>1
  <2>3. QED
    BY <2>1, <2>2 DEF n
<1>4. Fine(change, p)
  BY <1>1, <1>3 DEF CInv
<1>5. Warned(change, CloseFile(p).files)
  BY <1>1, <1>4, FineCloses DEF Fit, Ready
<1>6. QED
  BY <1>1, <1>5 DEF CInv

(***************************************************************************)
(* In every behaviour in which the capture of an honest patch is cut       *)
(* short, the files that ParseUnified gives back carry a warning           *)
(* wherever a hunk lacks lines.                                            *)
(***************************************************************************)
THEOREM CutsWarned == Spec => []CInv
<1>1. Init => CInv
  BY DEF Init, CInv
<1>2. DInv /\ RInv /\ WInv /\ DInv' /\ CInv /\ [Next]_vars => CInv'
  <2> SUFFICES ASSUME DInv, RInv, WInv, CInv, [Next]_vars PROVE CInv'
    OBVIOUS
  <2>1. CASE StepLine
    BY <2>1, StepCInv
  <2>2. CASE Finish
    BY <2>2, FinishCInv
  <2>3. CASE \E inside \in BOOLEAN : Cut(inside)
    BY <2>3, CutCInv
  <2>4. CASE \E focus \in 0..Len(p.files) : Paint(focus)
    <3>1. change' = change /\ lines' = lines /\ truncated' = truncated /\ persisted' = persisted /\ p' = p
      BY <2>4 DEF Paint
    <3>2. QED
      BY <3>1 DEF CInv
  <2>5. CASE UNCHANGED vars
    BY <2>5 DEF CInv, vars
  <2>6. QED
    BY <2>1, <2>2, <2>3, <2>4, <2>5 DEF Next, StepLine
<1>3. QED
  BY Pages, Refusals, Standing, <1>1, <1>2, PTL DEF Spec

(***************************************************************************)
(* A bad hunk has left a warning in a patch that is read whole, and a      *)
(* cut one in a patch that is not: what DamageIsFlagged asks for.          *)
(***************************************************************************)
LEMMA Flagged == RInv /\ WInv /\ CInv => DamageIsFlagged
<1> SUFFICES ASSUME RInv, WInv, CInv, p.closed PROVE DamageIsFlagged
  BY DEF DamageIsFlagged
<1>1. ASSUME ~truncated, Plain(change), NEW i \in DOMAIN change, NEW j \in DOMAIN change[i].hunks,
             Short(change[i].hunks[j]) \/ Over(change[i].hunks[j])
      PROVE  p.files[i].flags # {}
  <2>1. change \in Seq(FileChange)
    BY DEF RInv
  <2>2. change[i].hunks[j] \in HunkChange /\ i \in 1..Len(change) /\ j \in 1..Len(change[i].hunks)
    BY <2>1, HunkTypes
  <2>3. DoneWith(change, p.files, Len(change))
    BY <1>1 DEF WInv
  <2>4. Hunks(change[i], p.files[i], Len(change[i].hunks))
    BY <2>2, <2>3 DEF DoneWith, ReadFile
  <2>5. BadHunk(change[i].hunks[j])
    BY <1>1, <2>2, BadIs
  <2>6. QED
    BY <2>2, <2>4, <2>5 DEF Hunks
<1>2. ASSUME truncated, ~persisted, NEW i \in DOMAIN p.files, NEW j \in DOMAIN p.files[i].hunks,
             Len(p.files[i].hunks[j].lines) < Len(change[i].hunks[j].body)
      PROVE  p.files[i].flags # {}
  <2>1. Warned(change, p.files)
    BY <1>2 DEF CInv
  <2>2. p.files \in Seq(ParsedFile)
    BY DEF RInv, Fit, Parsers
  <2>3. i \in 1..Len(p.files)
    BY <1>2, <2>2, LenProperties
  <2>4. p.files[i] \in ParsedFile
    BY <2>2, <2>3, LenProperties
  <2>5. p.files[i].hunks \in Seq(ParsedHunk)
    BY <2>4, FieldTypes
  <2>6. j \in 1..Len(p.files[i].hunks)
    BY <1>2, <2>5, LenProperties
  <2>7. QED
    BY <1>2, <2>1, <2>3, <2>6 DEF Warned
<1>3. QED
  BY <1>1, <1>2 DEF DamageIsFlagged, Plain

(***************************************************************************)
(* For every change none of whose lines can be mistaken, read whole: a     *)
(* hunk that is shorter or longer than its header says is in a file with   *)
(* a warning (flag, closeHunk). And for every honest change whose          *)
(* capture is cut short, inside a line or between two: so is every hunk    *)
(* that lacks lines.                                                       *)
(***************************************************************************)
THEOREM FlagsDamage == Spec => []DamageIsFlagged
  BY Refusals, Standing, CutsWarned, Flagged, PTL

-----------------------------------------------------------------------------
(* The body lines of a patch, and how many files git began. *)

\* The body lines, by the map that keeps them.
KeepBody == [l \in PatchLine |-> IF IsBody(l) THEN <<l>> ELSE <<>>]

(***************************************************************************)
(* Keeping the body lines maps each line to itself or to nothing.          *)
(***************************************************************************)
LEMMA BodiesAre ==
  ASSUME NEW s \in Seq(PatchLine)
  PROVE  KeepBody \in Maps(PatchLine, Seq(PatchLine)) /\ BodiesOf(s) = FlatMap(KeepBody, s)
<1>1. KeepBody \in Maps(PatchLine, Seq(PatchLine))
  BY DEF KeepBody, Maps
<1>2. DOMAIN s = 1..Len(s) /\ \A i \in DOMAIN s : s[i] \in PatchLine
  BY LenProperties
<1>3. \A i \in DOMAIN s : KeepBody[s[i]] = IF IsBody(s[i]) THEN <<s[i]>> ELSE <<>>
  BY <1>2 DEF KeepBody
<1>4. Image(KeepBody, s) = [i \in DOMAIN s |-> IF IsBody(s[i]) THEN <<s[i]>> ELSE <<>>]
  BY <1>3 DEF Image
<1>5. QED
  BY <1>1, <1>4 DEF BodiesOf, FlatMap

(***************************************************************************)
(* Nothing has none.                                                       *)
(***************************************************************************)
LEMMA BodiesEmpty == BodiesOf(<<>>) = <<>>
<1>1. <<>> \in Seq(PatchLine)
  BY EmptySeq
<1>2. BodiesOf(<<>>) = FlatMap(KeepBody, <<>>)
  BY <1>1, BodiesAre
<1>3. QED
  BY <1>2, FlatMapEmpty

(***************************************************************************)
(* One more line is one more body line if it is one.                       *)
(***************************************************************************)
LEMMA BodiesAppend ==
  ASSUME NEW s \in Seq(PatchLine), NEW l \in PatchLine
  PROVE  /\ BodiesOf(s) \in Seq(PatchLine)
         /\ BodiesOf(Append(s, l)) = IF IsBody(l) THEN Append(BodiesOf(s), l) ELSE BodiesOf(s)
<1>1. Append(s, l) \in Seq(PatchLine)
  BY AppendProperties
<1>2. KeepBody \in Maps(PatchLine, Seq(PatchLine)) /\ BodiesOf(s) = FlatMap(KeepBody, s)
      /\ BodiesOf(Append(s, l)) = FlatMap(KeepBody, Append(s, l))
  BY <1>1, BodiesAre
<1>3. BodiesOf(Append(s, l)) = BodiesOf(s) \o KeepBody[l]
  BY <1>2, FlatMapAppend
<1>4. KeepBody[l] = IF IsBody(l) THEN <<l>> ELSE <<>>
  BY DEF KeepBody
<1>5. BodiesOf(s) \in Seq(PatchLine)
  BY <1>2, FlatMapType
<1>6. BodiesOf(s) \o <<>> = BodiesOf(s) /\ BodiesOf(s) \o <<l>> = Append(BodiesOf(s), l)
  BY <1>5, ConcatEmptySeq, AppendIsConcat
<1>7. QED
  BY <1>3, <1>4, <1>5, <1>6

\* How many lines begin a file.
GitCount(s) == Cardinality(GitLines(s))

(***************************************************************************)
(* Nothing begins no file.                                                 *)
(***************************************************************************)
LEMMA GitEmpty == GitCount(<<>>) = 0
<1>1. GitLines(<<>>) = {}
  BY DEF GitLines
<1>2. QED
  BY <1>1, FS_EmptySet DEF GitCount

(***************************************************************************)
(* One more line begins one more file if it is git's line for one.         *)
(***************************************************************************)
LEMMA GitAppend ==
  ASSUME NEW s \in Seq(PatchLine), NEW l \in PatchLine
  PROVE  GitCount(s) \in Nat /\ GitCount(Append(s, l)) = GitCount(s) + (IF l.head = "diff --git" THEN 1 ELSE 0)
<1> DEFINE n == Len(s)
           t == Append(s, l)
           git == "diff --git"
           G == GitLines(s)
<1>1. /\ n \in Nat /\ DOMAIN s = 1..n /\ DOMAIN t = 1..(n + 1)
      /\ t[n + 1] = l /\ \A i \in 1..n : t[i] = s[i]
  <2>1. n \in Nat /\ DOMAIN s = 1..n
    BY LenProperties
  <2>2. t \in Seq(PatchLine) /\ Len(t) = n + 1 /\ t[n + 1] = l /\ \A i \in 1..n : t[i] = s[i]
    BY AppendProperties
  <2>3. DOMAIN t = 1..Len(t)
    BY <2>2, LenProperties
  <2>4. QED
    BY <2>1, <2>2, <2>3
<1>2. G = {i \in 1..n : s[i].head = git} /\ GitLines(t) = {i \in 1..(n + 1) : t[i].head = git}
  BY <1>1 DEF GitLines
<1>3. IsFiniteSet(G) /\ Cardinality(G) \in Nat
  <2>1. IsFiniteSet(1..n)
    BY <1>1, FS_Interval
  <2>2. G \in SUBSET (1..n)
    BY <1>2
  <2>3. IsFiniteSet(G)
    BY <2>1, <2>2, FS_Subset
  <2>4. QED
    BY <2>3, FS_CardinalityType
<1> HIDE DEF n, t, git, G
<1>4. (n + 1) \notin 1..n /\ \A i \in 1..(n + 1) : i \in 1..n \/ i = n + 1
  BY <1>1
<1>5. 1..n \subseteq 1..(n + 1) /\ n + 1 \in 1..(n + 1)
  BY <1>1
<1>6. CASE l.head = git
  <2>1. GitLines(t) = G \cup {n + 1}
    BY <1>1, <1>2, <1>4, <1>5, <1>6
  <2>2. n + 1 \notin G
    BY <1>2, <1>4
  <2>3. Cardinality(G \cup {n + 1}) = Cardinality(G) + 1
    BY <1>3, <2>2, FS_AddElement
  <2>4. QED
    BY <1>3, <1>6, <2>1, <2>3 DEF GitCount, t, git, G
<1>7. CASE l.head # git
  <2>1. GitLines(t) = G
    BY <1>1, <1>2, <1>4, <1>5, <1>7
  <2>2. QED
    <3> DEFINE m == Cardinality(G)
    <3>1. m \in Nat /\ Cardinality(GitLines(t)) = m
      BY <1>3, <2>1
    <3>2. (IF l.head = git THEN 1 ELSE 0) = 0
      BY <1>7
    <3> DEFINE z == IF l.head = git THEN 1 ELSE 0
    <3> HIDE DEF m, z
    <3>3. m + z = m
      BY <3>1, <3>2 DEF z
    <3>4. QED
      BY <3>1, <3>3 DEF GitCount, t, git, G, m, z
<1>8. QED
  BY <1>6, <1>7

\* The parsed lines are these body lines, kind by kind and text by text.
Echo(shown, bodies) ==
  /\ Len(shown) = Len(bodies)
  /\ \A i \in 1..Len(bodies) : shown[i].kind = BodyKind(bodies[i].byte) /\ shown[i].text = bodies[i].text

(***************************************************************************)
(* Lines of the same kinds and texts echo the same.                        *)
(***************************************************************************)
LEMMA EchoSame ==
  ASSUME NEW s, NEW t, NEW bs, Echo(s, bs), SameText(s, t)
  PROVE  Echo(t, bs)
  BY DEF Echo, SameText

(***************************************************************************)
(* One more on both sides.                                                 *)
(***************************************************************************)
LEMMA EchoAdds ==
  ASSUME NEW q \in Parsers, NEW r, NEW bs \in Seq(PatchLine), Echo(All(q), bs), NEW l \in PatchLine,
         Adds(q, r, BodyKind(l.byte), l.text)
  PROVE  Echo(All(r), Append(bs, l))
<1> DEFINE s == All(q)
           k == BodyKind(l.byte)
           w == l.text
           n == Len(bs)
           b == Append(bs, l)
<1>1. PICK x \in ParsedLine : x.kind = k /\ x.text = w /\ All(r) = Append(s, x)
  BY DEF Adds
<1> DEFINE t == Append(s, x)
<1>2. s \in Seq(ParsedLine)
  BY AllParts
<1>3. n \in Nat /\ Len(s) = n /\ \A i \in 1..n : s[i].kind = BodyKind(bs[i].byte) /\ s[i].text = bs[i].text
  BY LenProperties DEF Echo
<1>4. Len(t) = n + 1 /\ t[n + 1] = x /\ \A i \in 1..n : t[i] = s[i]
  BY <1>2, <1>3, AppendProperties
<1>5. Len(b) = n + 1 /\ b[n + 1] = l /\ \A i \in 1..n : b[i] = bs[i]
  BY AppendProperties
<1>6. \A i \in 1..(n + 1) : i \in 1..n \/ i = n + 1
  BY <1>3
<1> HIDE DEF s, t, n, b
<1>7. \A i \in 1..(n + 1) : t[i].kind = BodyKind(b[i].byte) /\ t[i].text = b[i].text
  <2> TAKE i \in 1..(n + 1)
  <2>1. CASE i \in 1..n
    BY <1>3, <1>4, <1>5, <2>1
  <2>2. CASE i = n + 1
    BY <1>1, <1>4, <1>5, <2>2
  <2>3. QED
    BY <1>6, <2>1, <2>2
<1>8. Echo(t, b)
  BY <1>4, <1>5, <1>7 DEF Echo
<1>9. QED
  BY <1>1, <1>8 DEF t, b

-----------------------------------------------------------------------------
(* What the parser takes is what is there. *)

\* The line is a body line just if the parser takes it, and begins a file just
\* if it is git's line for one.
Right(q, l) ==
  /\ l.head \notin {"@@@", "diff --cc"}
  /\ IsBody(l) <=> Taken(q, l)
  /\ l.head = "diff --git" => Count(Read(q, l)) = Count(q) + 1
  /\ l.head # "diff --git" => Count(Read(q, l)) = Count(q)

(***************************************************************************)
(* Outside the body of a hunk.                                             *)
(***************************************************************************)
LEMMA OtherRight ==
  ASSUME NEW q, Fit(q), ~q.closed, q.inFile, NEW l \in PatchLine, l.head \notin {"@@@", "diff --cc", "diff --git"},
         ~IsBody(l), ~Taken(q, l), l.head = "--- " => q.state = "header" /\ ~q.sawOldHeader /\ ~q.inHunk
  PROVE  Right(q, l)
<1>1. l.head \notin {"@@@", "diff --cc"}
  OBVIOUS
<1>2. q.inFile /\ l.head # "diff --git"
      /\ (l.head = "--- " => Taken(q, l) \/ (q.state = "header" /\ ~q.sawOldHeader /\ ~q.inHunk)) => Count(Read(q, l)) = Count(q)
  BY <1>1, ReadTells
<1>3. QED
  BY <1>2 DEF Right

(***************************************************************************)
(* A line of a body that is taken.                                         *)
(***************************************************************************)
LEMMA TextRight ==
  ASSUME NEW q, Fit(q), ~q.closed, q.inFile, NEW l \in PatchLine, IsBody(l), Taken(q, l)
  PROVE  Right(q, l)
<1>1. l.head \in {"body", "", "--- ", "+++ "}
  BY DEF IsBody
<1>2. l.head \notin {"@@@", "diff --cc"} /\ l.head # "diff --git"
  BY <1>1
<1>3. q.inFile /\ l.head # "diff --git"
      /\ (l.head = "--- " => Taken(q, l) \/ (q.state = "header" /\ ~q.sawOldHeader /\ ~q.inHunk)) => Count(Read(q, l)) = Count(q)
  BY <1>2, ReadTells
<1>4. QED
  BY <1>2, <1>3 DEF Right

(***************************************************************************)
(* The marker.                                                             *)
(***************************************************************************)
LEMMA MarkerRight ==
  ASSUME NEW c \in Seq(FileChange), NEW q, Fit(q), ~q.closed, NEW a, Tied(c, q, a),
         NEW l \in PatchLine, NEW b, IsMarker(c, a, l, b)
  PROVE  Right(q, l)
<1>1. l.head = "\\" /\ l.byte = "\\" /\ a.at = "hunk"
  BY LinesAre DEF IsMarker
<1>2. q.inFile
  BY <1>1 DEF Tied, StandsAt
<1>3. ~IsBody(l) /\ ~Taken(q, l)
  BY <1>1 DEF IsBody, Taken, Overlong
<1>4. QED
  BY <1>1, <1>2, <1>3, OtherRight

(***************************************************************************)
(* git's line for a file.                                                  *)
(***************************************************************************)
LEMMA GitRight ==
  ASSUME NEW c \in Seq(FileChange), NEW q, Fit(q), ~q.closed, NEW a, Tied(c, q, a),
         NEW l \in PatchLine, NEW b, IsGit(c, a, l, b)
  PROVE  Right(q, l)
<1>1. l.head = "diff --git" /\ l.byte = "d"
  BY LinesAre DEF IsGit
<1>2. l.head \notin {"@@@", "diff --cc"}
  BY <1>1
<1>3. /\ l.head = "diff --git" /\ l.byte \notin BodyBytes /\ q.inFile => Count(Read(q, l)) = Count(q) + 1
      /\ l.head = "diff --git" /\ q.state = "header" => Count(Read(q, l)) = Count(q) + 1
  BY <1>2, ReadTells
<1>4. l.byte \notin BodyBytes
  BY <1>1 DEF BodyBytes
<1>5. q.inFile \/ q.state = "header"
  <2>1. CASE a.at = "start"
    BY <2>1 DEF Tied, StateAt, Opened
  <2>2. CASE a.at # "start"
    BY <2>2 DEF Tied, StandsAt
  <2>3. QED
    BY <2>1, <2>2
<1>6. ~IsBody(l) /\ ~Taken(q, l)
  BY <1>1 DEF IsBody, Taken, Overlong
<1>7. QED
  BY <1>1, <1>3, <1>4, <1>5, <1>6 DEF Right

(***************************************************************************)
(* A header of it.                                                         *)
(***************************************************************************)
LEMMA HeadRight ==
  ASSUME NEW c \in Seq(FileChange), NEW q, Fit(q), ~q.closed, NEW a, Tied(c, q, a),
         NEW l \in PatchLine, NEW b, IsHead(c, a, l, b)
  PROVE  Right(q, l)
<1>1. PICK n \in Heads : a.at = "head" /\ Needs(c[a.f], n) /\ l = HeadLine(c[a.f], n)
  BY DEF IsHead
<1>2. q.inFile
  BY <1>1 DEF Tied, StandsAt
<1>3. n \notin {"diff --git", "diff --cc", "@@@", "--- ", "+++ ", ""}
  BY <1>1 DEF Needs
<1>4. CASE n = "body"
  <2>1. l.head = "body" /\ l.byte = "z"
    <3>1. HeadLine(c[a.f], n) = L("body", "z", "")
      BY <1>4 DEF HeadLine
    <3>2. L("body", "z", "").head = "body" /\ L("body", "z", "").byte = "z"
      BY DEF L
    <3>3. QED
      BY <1>1, <3>1, <3>2
  <2>2. ~IsBody(l) /\ ~Taken(q, l)
    BY <2>1 DEF IsBody, Taken, Overlong
  <2>3. QED
    BY <1>2, <2>1, <2>2, OtherRight
<1>5. CASE n # "body"
  <2>1. l.head = n /\ l.byte = "d"
    BY <1>1, <1>5, HeadLineIs
  <2>2. ~IsBody(l) /\ ~Taken(q, l)
    BY <2>1 DEF IsBody, Taken, Overlong
  <2>3. QED
    BY <1>2, <1>3, <2>1, <2>2, OtherRight
<1>6. QED
  BY <1>4, <1>5

(***************************************************************************)
(* Its names.                                                              *)
(***************************************************************************)
LEMMA NamesRight ==
  ASSUME NEW c \in Seq(FileChange), AllReported(c), NEW q, Fit(q), ~q.closed, NEW a, Tied(c, q, a),
         NEW l \in PatchLine, NEW b, IsOld(c, a, l, b) \/ IsNew(c, a, l, b)
  PROVE  Right(q, l)
<1>1. Ready(q) /\ InPlace(c, a) /\ StandsAt(c, q, a)
  BY DEF Fit, Ready, Tied, StandsAt
<1>2. q.state = "header"
  BY <1>1, NamesRead
<1> DEFINE d == c[a.f]
<1>3. a.at \in {"head", "old"} /\ q.inFile /\ File(c, a.f)
  BY <1>1 DEF IsOld, IsNew, StandsAt, InPlace
<1>4. ~q.inHunk
  BY <1>1, <1>3 DEF StandsAt, Opened
<1>5. a.at = "head" => ~q.sawOldHeader
  BY <1>1 DEF StandsAt, Amid, Heard
<1>6. d.old \in FileNames /\ d.new \in FileNames
  <2>1. d \in FileChange
    BY <1>3, FilesAre
  <2>2. QED
    BY <2>1 DEF FileChange
<1>7. CASE IsOld(c, a, l, b)
  <2>1. l.head = "--- " /\ l.text = (IF d.status = "added" THEN "/dev/null" ELSE d.old) /\ a.at = "head"
    BY <1>7, LinesAre DEF IsOld
  <2>2. ~IsBody(l)
    BY <1>6, <2>1 DEF IsBody, Texts, FileNames
  <2>3. ~Taken(q, l)
    BY <1>2, <2>1 DEF Taken, Overlong
  <2>4. QED
    BY <1>2, <1>3, <1>4, <1>5, <2>1, <2>2, <2>3, OtherRight
<1>8. CASE IsNew(c, a, l, b)
  <2>1. l.head = "+++ " /\ l.text = (IF d.status = "deleted" THEN "/dev/null" ELSE d.new)
    BY <1>8, LinesAre DEF IsNew
  <2>2. ~IsBody(l)
    BY <1>6, <2>1 DEF IsBody, Texts, FileNames
  <2>3. ~Taken(q, l)
    BY <1>2, <2>1 DEF Taken, Overlong
  <2>4. QED
    BY <1>3, <2>1, <2>2, <2>3, OtherRight
<1>9. QED
  BY <1>7, <1>8

(***************************************************************************)
(* A hunk's header, and what is left of one.                               *)
(***************************************************************************)
LEMMA HunkRight ==
  ASSUME NEW c \in Seq(FileChange), NEW q, Fit(q), ~q.closed, NEW a, Tied(c, q, a), a.at = "hunk",
         NEW l \in PatchLine, l.head \in {"@@", "@@ junk"}, l.byte = "@"
  PROVE  Right(q, l)
<1>1. q.inFile
  BY DEF Tied, StandsAt
<1>2. ~IsBody(l) /\ ~Taken(q, l)
  BY DEF IsBody, Taken, Overlong
<1>3. QED
  BY <1>1, <1>2, OtherRight

(***************************************************************************)
(* Of a patch that is whole every line is taken for what it is.            *)
(***************************************************************************)
LEMMA LeadRight ==
  ASSUME NEW c \in Seq(FileChange), AllReported(c), Plain(c), NEW strip \in BOOLEAN, NEW q, Fit(q), ~q.closed,
         NEW a, Tied(c, q, a), NEW l \in PatchLine, NEW b, Leads(c, strip, a, l, b), b.at # "cc"
  PROVE  Right(q, l)
<1>1. Ready(q) /\ InPlace(c, a) /\ StandsAt(c, q, a)
  BY DEF Fit, Ready, Tied, StandsAt
<1>2. CASE IsCombined(c, a, l, b)
  BY <1>2, EdgeSpots DEF IsCombined
<1>3. CASE IsGit(c, a, l, b)
  BY <1>3, GitRight
<1>4. CASE IsHead(c, a, l, b)
  BY <1>4, HeadRight
<1>5. CASE IsOld(c, a, l, b) \/ IsNew(c, a, l, b)
  BY <1>5, NamesRight
<1>6. CASE IsHunk(c, a, l, b)
  <2>1. l.head = "@@" /\ l.byte = "@" /\ a.at = "hunk"
    BY <1>6, LinesAre DEF IsHunk, HunkDone
  <2>2. QED
    BY <2>1, HunkRight
<1>7. CASE IsMarker(c, a, l, b)
  BY <1>7, MarkerRight
<1>8. CASE IsText(c, strip, a, l, b)
  <2>1. Opened(a) /\ a.at # "start"
    BY <1>8 DEF IsText, Opened
  <2>2. ~Mistakable(c[a.f].hunks[a.h])
    BY <1>1, <2>1, PlainIs DEF Plain
  <2>3. PICK s : /\ l.byte \in {" ", "+", "-", ""} /\ IsBody(l)
                 /\ q.state \in {"hunk", "header"} /\ (q.state = "header" => l.head = "body" /\ l.byte \in {" ", "+", "-"})
    BY <1>1, <1>8, <2>2, TextReads
  <2>4. q.inHunk /\ q.inFile
    BY <1>1, <2>1 DEF StandsAt
  <2>5. Taken(q, l)
    BY <2>3, <2>4 DEF Taken, Overlong
  <2>6. QED
    BY <2>3, <2>4, <2>5, TextRight
<1>9. QED
  BY <1>2, <1>3, <1>4, <1>5, <1>6, <1>7, <1>8 DEF Leads

(***************************************************************************)
(* So is the rest of a line, where the headers are honest.                 *)
(***************************************************************************)
LEMMA ClipRight ==
  ASSUME NEW c \in Seq(FileChange), ~Lies(c), NEW strip \in BOOLEAN, NEW q, Fit(q), ~q.closed, NEW a, Tied(c, q, a),
         NEW l \in PatchLine, NEW b, Leads(c, strip, a, l, b), Clipped(l) \in PatchLine
  PROVE  Right(q, Clipped(l))
<1> DEFINE x == Clipped(l)
<1>1. q \in Parsers /\ Ready(q) /\ StandsAt(c, q, a) /\ InPlace(c, a) /\ a.at # "cc"
  BY DEF Fit, Tied, StandsAt, Ready
<1>2. CASE IsText(c, strip, a, l, b)
  <2>1. q.state = "hunk" /\ IsBody(l) /\ l.byte \in {" ", "+", "-", ""} /\ q.inFile
    BY <1>2, TextOwed
  <2>2. IsBody(x) /\ x.byte = l.byte
    BY <2>1, ClippedBody
  <2>3. Taken(q, x)
    BY <2>1, <2>2 DEF Taken
  <2>4. QED
    BY <2>1, <2>2, <2>3, TextRight
<1>3. CASE IsMarker(c, a, l, b)
  <2>1. l.head = "\\"
    BY <1>3, LinesAre DEF IsMarker
  <2>2. x = l
    BY <2>1 DEF Clipped, IsBody
  <2>3. QED
    BY <1>3, <2>2, MarkerRight
<1>4. CASE IsHunk(c, a, l, b)
  <2>1. x = Junk /\ Junk.head = "@@ junk" /\ Junk.byte = "@"
    BY <1>4, ClippedHunk DEF IsHunk
  <2>2. a.at = "hunk"
    BY <1>4 DEF IsHunk, HunkDone
  <2>3. QED
    BY <2>1, <2>2, HunkRight
<1>5. CASE Between(c, a, l)
  <2>1. a.at = "hunk" => HunkDone(c, a)
    BY <1>5 DEF Between
  <2>2. x.head = "other"
    BY <1>5, ClippedOther DEF Between
  <2> HIDE DEF x
  <2>3. Read(q, x) = q
    BY <2>1, <2>2, OtherReads
  <2>4. ~IsBody(x) /\ q.state # "hunk"
    BY <2>1, <2>2, WholeState DEF IsBody
  <2>5. ~Taken(q, x)
    BY <2>2, <2>4 DEF Taken, Overlong
  <2>6. QED
    BY <2>2, <2>3, <2>4, <2>5 DEF Right, x
<1>6. QED
  BY <1>1, <1>2, <1>3, <1>4, <1>5, LeadIs

-----------------------------------------------------------------------------
(* Nothing is lost. *)

\* What the parser holds, or has closed, echoes the body lines of what it has
\* read, and it has as many files as git's lines began.
Tallies(shown, n, s) == Echo(shown, BodiesOf(s)) /\ n = GitCount(s)
TInv ==
  ~(persisted /\ truncated) /\ Plain(change) /\ ~p.err =>
    IF p.closed THEN Tallies(Shown(p.files), Len(p.files), lines)
    ELSE Tallies(All(p), Count(p), SubSeq(lines, 1, p.at - 1))

(***************************************************************************)
(* Nothing read, nothing held.                                             *)
(***************************************************************************)
LEMMA EmptyTallies == Tallies(All(Start), Count(Start), <<>>)
<1>1. Start.files = <<>> /\ Start.cur.hunks = <<>> /\ Start.hunk.lines = <<>> /\ Start.inFile = FALSE
  BY DEF Start, NoFile, NoHunk
<1>2. Count(Start) = 0
  BY <1>1, EmptySeq DEF Count
<1>3. Shown(<<>>) = <<>> /\ BodyOf(<<>>) = <<>>
  BY BodyEmpty, ShownEmpty
<1>4. All(Start) = <<>>
  BY <1>1, <1>3, ConcatEmptySeq, EmptySeq DEF All
<1>5. Echo(<<>>, <<>>)
  BY EmptySeq DEF Echo
<1>6. QED
  BY <1>2, <1>4, <1>5, BodiesEmpty, GitEmpty DEF Tallies

(***************************************************************************)
(* A line that is taken for what it is.                                    *)
(***************************************************************************)
LEMMA RightTallies ==
  ASSUME NEW q, Fit(q), ~q.closed, NEW s \in Seq(PatchLine), NEW l \in PatchLine, Right(q, l), Tallies(All(q), Count(q), s)
  PROVE  LET r == Read(q, l) IN Tallies(All(r), Count(r), Append(s, l))
<1> DEFINE r == Read(q, l)
           t == Append(s, l)
           bs == BodiesOf(s)
<1>1. q \in Parsers /\ l.head \notin {"@@@", "diff --cc"}
  BY DEF Fit, Right
<1>2. IF Taken(q, l) THEN Adds(q, r, BodyKind(l.byte), l.text) ELSE SameText(All(q), All(r))
  BY <1>1, ReadTells
<1>3. bs \in Seq(PatchLine) /\ BodiesOf(t) = IF IsBody(l) THEN Append(bs, l) ELSE bs
  BY BodiesAppend
<1>4. GitCount(s) \in Nat /\ GitCount(t) = GitCount(s) + (IF l.head = "diff --git" THEN 1 ELSE 0)
  BY GitAppend
<1>5. Echo(All(q), bs) /\ Count(q) = GitCount(s)
  BY DEF Tallies
<1> HIDE DEF r, t, bs
<1>6. Echo(All(r), BodiesOf(t))
  <2>1. CASE IsBody(l)
    <3>1. Adds(q, r, BodyKind(l.byte), l.text)
      BY <1>2, <2>1 DEF Right
    <3>2. Echo(All(r), Append(bs, l))
      BY <1>1, <1>3, <1>5, <3>1, EchoAdds
    <3>3. QED
      BY <1>3, <2>1, <3>2
  <2>2. CASE ~IsBody(l)
    <3>1. SameText(All(q), All(r))
      BY <1>2, <2>2 DEF Right
    <3>2. Echo(All(r), bs)
      BY <1>5, <3>1, EchoSame
    <3>3. QED
      BY <1>3, <2>2, <3>2
  <2>3. QED
    BY <2>1, <2>2
<1>7. Count(r) = GitCount(t)
  <2> DEFINE m == Count(q)
             n == GitCount(s)
             k == GitCount(t)
             j == Count(r)
  <2>1. n \in Nat /\ m = n
    BY <1>4, <1>5
  <2>2. CASE l.head = "diff --git"
    <3>1. j = m + 1 /\ k = n + 1
      BY <1>4, <2>2 DEF Right, r
    <3>2. QED
      BY <2>1, <3>1
  <2>3. CASE l.head # "diff --git"
    <3>1. j = m /\ k = n + 0
      BY <1>4, <2>3 DEF Right, r
    <3> HIDE DEF m, n, k, j
    <3>2. j = k
      BY <2>1, <3>1
    <3>3. QED
      BY <3>2 DEF j, k
  <2>4. QED
    BY <2>2, <2>3
<1>8. QED
  BY <1>6, <1>7 DEF Tallies, r, t

(***************************************************************************)
(* The lines up to the parser's place and the next one.                    *)
(***************************************************************************)
LEMMA ReadSoFar ==
  ASSUME lines \in Seq(PatchLine), p.at \in 1..Len(lines)
  PROVE  /\ SubSeq(lines, 1, p.at - 1) \in Seq(PatchLine)
         /\ SubSeq(lines, 1, p.at) = Append(SubSeq(lines, 1, p.at - 1), Line)
<1> DEFINE n == p.at - 1
<1>1. n \in Nat /\ n + 1 <= Len(lines) /\ n + 1 = p.at
  BY LenProperties
<1> HIDE DEF n
<1>2. SubSeq(lines, 1, n) \in Seq(PatchLine) /\ SubSeq(lines, 1, n + 1) = Append(SubSeq(lines, 1, n), lines[n + 1])
  BY <1>1, FrontGrows
<1>3. QED
  BY <1>1, <1>2 DEF n, Line

(***************************************************************************)
(* They hold before the first line.                                        *)
(***************************************************************************)
LEMMA InitTInv == Init => TInv
<1> SUFFICES ASSUME Init PROVE TInv
  OBVIOUS
<1>1. p = Start /\ p.at = 1 /\ p.closed = FALSE
  BY DEF Init, Start
<1>2. SubSeq(lines, 1, 0) = <<>>
  BY SubSeqEmpty
<1>3. 1 - 1 = 0
  OBVIOUS
<1>4. SubSeq(lines, 1, p.at - 1) = <<>>
  BY <1>1, <1>2, <1>3
<1>5. QED
  BY <1>1, <1>4, EmptyTallies DEF TInv

(***************************************************************************)
(* Every line that is read keeps them.                                     *)
(***************************************************************************)
LEMMA StepTInv == DInv /\ RInv /\ WInv /\ CInv /\ TInv /\ StepLine => TInv'
<1> SUFFICES ASSUME DInv, RInv, WInv, CInv, TInv, StepLine,
                    ~(persisted /\ truncated)', Plain(change)', ~p'.err
             PROVE  TInv'
  BY DEF TInv
<1> DEFINE l == Line
           r == Read(p, l)
           s == SubSeq(lines, 1, p.at - 1)
<1>1. /\ ~p.closed /\ ~p.err /\ l \in PatchLine /\ p.at \in 1..Len(lines)
      /\ p' = Consumed(r) /\ r \in Parsers /\ Sound(r)
      /\ p'.at = p.at + 1 /\ p'.closed = FALSE
      /\ change' = change /\ lines' = lines /\ truncated' = truncated /\ persisted' = persisted
  BY StepReads
<1>2. ~(persisted /\ truncated) /\ Plain(change)
  BY <1>1 DEF Plain
<1>3. change \in Seq(FileChange) /\ AllReported(change) /\ (~persisted => ~Lies(change)) /\ Fit(p)
  BY <1>1 DEF RInv
<1>4. lines \in Seq(PatchLine) /\ Len(lines) \in Nat
  BY LenProperties DEF DInv
<1>5. ~r.err
  <2> HIDE DEF r
  <2>1. p'.err = r.err
    BY <1>1, ConsumedIs
  <2>2. QED
    BY <2>1
<1>6. Right(p, l)
  <2>1. CASE ~truncated
    <3>1. PICK strip \in BOOLEAN : \E g :
            /\ Walks(change, strip, lines, g) /\ g[0] = Before /\ g[Len(lines)] = FileEnd(change, Len(change))
            /\ ~p.closed /\ ~p.err => Tied(change, p, g[p.at - 1])
      BY <1>2, <2>1 DEF WInv
    <3>2. PICK g : Walks(change, strip, lines, g) /\ (~p.closed /\ ~p.err => Tied(change, p, g[p.at - 1]))
      BY <3>1
    <3> DEFINE a == g[p.at - 1]
               b == g[p.at]
    <3>3. Leads(change, strip, a, l, b) /\ Tied(change, p, a)
      BY <1>1, <3>2 DEF Walks, Line
    <3> HIDE DEF a, b
    <3>4. InPlace(change, a) /\ Ready(p)
      BY <1>1, <1>3, <3>3 DEF Tied, StandsAt, Fit, Ready
    <3>5. b.at # "cc"
      <4> SUFFICES ASSUME b.at = "cc" PROVE FALSE
        OBVIOUS
      <4>1. IsCombined(change, a, l, b)
        BY <1>3, <3>3, <3>4, LeadCombined
      <4>2. r.err
        BY <1>3, <3>3, <3>4, <4>1, Refuses
      <4>3. QED
        BY <1>5, <4>2
    <3>6. QED
      BY <1>1, <1>2, <1>3, <3>3, <3>5, LeadRight
  <2>2. CASE truncated
    <3>1. ~persisted /\ ~Lies(change)
      BY <1>2, <1>3, <2>2
    <3>2. p.at # Len(lines) + 1
      BY <1>1, <1>4
    <3>a. PICK strip \in BOOLEAN : \E a, x, b :
            Tied(change, p, a) /\ x \in PatchLine /\ Leads(change, strip, a, x, b) /\ lines[p.at] = Clipped(x)
      BY <1>1, <2>2, <3>1, <3>2 DEF CInv
    <3>3. PICK a, x, b :
            Tied(change, p, a) /\ x \in PatchLine /\ Leads(change, strip, a, x, b) /\ l = Clipped(x)
      BY <3>a DEF Line
    <3> HIDE DEF l
    <3>4. QED
      BY <1>1, <1>3, <3>1, <3>3, ClipRight
  <2>3. QED
    BY <2>1, <2>2
<1>7. Tallies(All(p), Count(p), s)
  BY <1>1, <1>2 DEF TInv
<1>8. s \in Seq(PatchLine) /\ SubSeq(lines, 1, p.at) = Append(s, l)
  BY <1>1, <1>4, ReadSoFar
<1>9. Tallies(All(r), Count(r), Append(s, l))
  <2> HIDE DEF l, s
  <2>1. QED
    BY <1>1, <1>3, <1>6, <1>7, <1>8, RightTallies
<1> HIDE DEF r, s, l
<1>10. All(p') = All(r) /\ Count(p') = Count(r)
  BY <1>1, ConsumedFits
<1> DEFINE q == p'
<1>11. All(q) = All(r) /\ Count(q) = Count(r) /\ q.at = p.at + 1 /\ q.closed = FALSE
  BY <1>1, <1>10
<1>12. q.at - 1 = p.at
  <2> DEFINE k == q.at
             n == p.at
  <2>1. n \in Nat /\ k = n + 1
    BY <1>1, <1>4, <1>11
  <2> HIDE DEF k, n
  <2>2. k - 1 = n
    BY <2>1
  <2>3. QED
    BY <2>2 DEF k, n
<1> HIDE DEF q
<1>13. Tallies(All(q), Count(q), SubSeq(lines, 1, q.at - 1))
  BY <1>8, <1>9, <1>11, <1>12
<1>14. QED
  BY <1>1, <1>11, <1>13 DEF TInv, q

(***************************************************************************)
(* A cut leaves what has been read.                                        *)
(***************************************************************************)
LEMMA CutTInv == ASSUME NEW inside \in BOOLEAN PROVE DInv /\ TInv /\ Cut(inside) => TInv'
<1> SUFFICES ASSUME DInv, TInv, Cut(inside), ~(persisted /\ truncated)', Plain(change)' PROVE TInv'
  BY DEF TInv
<1>1. /\ ~p.closed /\ ~p.err /\ p.at \in 1..Len(lines)
      /\ ~truncated /\ truncated' = TRUE /\ change' = change /\ persisted' = persisted /\ p' = p
      /\ lines' \in Seq(PatchLine) /\ Len(lines') >= p.at - (IF inside THEN 0 ELSE 1)
      /\ \A i \in 1..(p.at - 1) : lines'[i] = lines[i]
  BY CutIs
<1>2. lines \in Seq(PatchLine) /\ Len(lines) \in Nat /\ Len(lines') \in Nat
  BY <1>1, LenProperties DEF DInv
<1> DEFINE n == p.at - 1
           s == lines
           t == lines'
<1>3. n \in 0..Len(s) /\ n <= Len(t) /\ \A i \in 1..n : t[i] = s[i]
  <2> DEFINE m == p.at
             k == Len(s)
             u == Len(t)
             z == IF inside THEN 0 ELSE 1
  <2>1. m \in 1..k /\ k \in Nat /\ u \in Nat /\ u >= m - z /\ z \in {0, 1}
    BY <1>1, <1>2
  <2> HIDE DEF m, k, u, z
  <2>2. m - 1 \in 0..k /\ m - 1 <= u
    BY <2>1
  <2>3. QED
    BY <1>1, <2>2 DEF m, k, u
<1>4. Tallies(All(p), Count(p), SubSeq(s, 1, n))
  BY <1>1 DEF TInv, Plain
<1>5. SubSeq(t, 1, n) = SubSeq(s, 1, n)
  <2> HIDE DEF n, s, t
  <2>1. SubSeq(s, 1, n) = [i \in 1..n |-> s[i]] /\ SubSeq(t, 1, n) = [i \in 1..n |-> t[i]]
    BY <1>2, <1>3 DEF s, t
  <2>2. QED
    BY <1>3, <2>1
<1>6. QED
  BY <1>1, <1>4, <1>5 DEF TInv

(***************************************************************************)
(* At the end all lines are the files'.                                    *)
(***************************************************************************)
LEMMA FinishTInv == DInv /\ RInv /\ TInv /\ Finish => TInv'
<1> SUFFICES ASSUME DInv, RInv, TInv, Finish, ~(persisted /\ truncated)', Plain(change)' PROVE TInv'
  BY DEF TInv
<1>1. /\ p.at = Len(lines) + 1 /\ ~p.err /\ ~p.closed
      /\ change' = change /\ lines' = lines /\ truncated' = truncated /\ persisted' = persisted
      /\ p'.closed = TRUE /\ All(p') = Shown(p'.files) /\ Count(p') = Len(p'.files)
      /\ All(p') = All(p) /\ Count(p') = Count(p)
  BY FinishIs
<1>2. lines \in Seq(PatchLine) /\ Len(lines) \in Nat
  BY LenProperties DEF DInv
<1>3. Tallies(All(p), Count(p), SubSeq(lines, 1, p.at - 1))
  BY <1>1 DEF TInv, Plain
<1>4. SubSeq(lines, 1, p.at - 1) = lines
  <2> DEFINE n == Len(lines)
  <2>1. p.at - 1 = n
    BY <1>1, <1>2
  <2>2. SubSeq(lines, 1, n) = lines
    BY <1>2
  <2>3. QED
    BY <2>1, <2>2
<1> DEFINE q == p'
<1>5. q.closed = TRUE /\ Shown(q.files) = All(p) /\ Len(q.files) = Count(p)
  BY <1>1
<1> HIDE DEF q
<1>6. Tallies(Shown(q.files), Len(q.files), lines)
  BY <1>3, <1>4, <1>5
<1>7. QED
  BY <1>1, <1>5, <1>6 DEF TInv, q

(***************************************************************************)
(* In every behaviour but those of a stored copy that is cut, and where    *)
(* no line can be mistaken, what ParseUnified holds is what it has read:   *)
(* each body line once, in order, with its kind and its text, and one      *)
(* file for each of git's first lines.                                     *)
(***************************************************************************)
THEOREM Tallied == Spec => []TInv
<1>1. DInv /\ RInv /\ WInv /\ CInv /\ TInv /\ [Next]_vars => TInv'
  <2> SUFFICES ASSUME DInv, RInv, WInv, CInv, TInv, [Next]_vars PROVE TInv'
    OBVIOUS
  <2>1. CASE StepLine
    BY <2>1, StepTInv
  <2>2. CASE Finish
    BY <2>2, FinishTInv
  <2>3. CASE \E inside \in BOOLEAN : Cut(inside)
    BY <2>3, CutTInv
  <2>4. CASE \E focus \in 0..Len(p.files) : Paint(focus)
    <3>1. change' = change /\ lines' = lines /\ truncated' = truncated /\ persisted' = persisted /\ p' = p
      BY <2>4 DEF Paint
    <3>2. QED
      BY <3>1 DEF TInv, Plain
  <2>5. CASE UNCHANGED vars
    BY <2>5 DEF TInv, Plain, vars
  <2>6. QED
    BY <2>1, <2>2, <2>3, <2>4, <2>5 DEF Next, StepLine
<1>2. QED
  BY Pages, Refusals, Standing, CutsWarned, InitTInv, <1>1, PTL DEF Spec

(***************************************************************************)
(* The tallies of a patch that has been read are NothingLost.              *)
(***************************************************************************)
LEMMA Accounted == DInv /\ RInv /\ TInv => NothingLost
<1> SUFFICES ASSUME DInv, RInv, TInv, p.closed, ~(persisted /\ truncated), Plain(change) PROVE NothingLost
  BY DEF NothingLost, Plain
<1>1. Tallies(Shown(p.files), Len(p.files), lines)
  BY DEF RInv, TInv
<1> DEFINE bs == BodiesOf(lines)
<1>2. DOMAIN bs = 1..Len(bs)
  <2>1. lines \in Seq(PatchLine)
    BY DEF DInv
  <2>2. bs \in Seq(PatchLine)
    BY <2>1, BodiesAre, FlatMapType
  <2>3. QED
    BY <2>2, LenProperties
<1>3. QED
  BY <1>1, <1>2 DEF Tallies, Echo, GitCount, NothingLost

(***************************************************************************)
(* For every change none of whose lines can be mistaken, whatever its      *)
(* headers claim, whole or cut short in its capture: ParseUnified drops    *)
(* no body line, invents none, reorders none and changes none, and gives   *)
(* back as many files as git began.                                        *)
(***************************************************************************)
THEOREM LosesNothing == Spec => []NothingLost
  BY Pages, Refusals, Tallied, Accounted, PTL
=============================================================================
