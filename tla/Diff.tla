-------------------------------- MODULE Diff --------------------------------
(***************************************************************************)
(* From `git diff' to the page a merge is decided on: the capture that may *)
(* cut the patch short (gitx.DiffPatchSince), the copy of it kept beside   *)
(* the gate document (review.Write), the parser of internal/diff as the    *)
(* state machine it is, the side-by-side rows, and the page with its       *)
(* budget.                                                                 *)
(***************************************************************************)
EXTENDS Patches

vars == <<change, lines, truncated, persisted, p, page>>

-----------------------------------------------------------------------------
(* The capture. *)

\* The capture stops after n lines, or inside the n-th: of a header line too
\* little is left to read it, a body line keeps its first byte.
Clipped(l) ==
  CASE l.head \in {"@@", "@@ junk"} -> Junk
    [] IsBody(l) -> [l EXCEPT !.head = IF l.byte = "" THEN "" ELSE "body", !.text = "cut"]
    [] l.head = "\\" -> l
    [] OTHER -> [Header("other", "") EXCEPT !.byte = l.byte]

Captured(n, inside) ==
  LET head == SubSeq(lines, 1, n) IN IF inside THEN [head EXCEPT ![n] = Clipped(@)] ELSE head

\* diffTruncationTrailer, which begins with an empty line.
Trailer == <<L("", "", ""), L("other", "[", ""), L("other", "[", "")>>

-----------------------------------------------------------------------------
(* The parser's state: File, Hunk, Line, parser. *)

NoHunk == [claim |-> NoClaim, lines |-> <<>>]
NoFile ==
  [old |-> "", new |-> "", status |-> "", oldMode |-> "", newMode |-> "", binary |-> FALSE,
   hunks |-> <<>>, adds |-> 0, dels |-> 0, flags |-> {}]

\* inFile and inHunk: cur and hunk are not nil.
Start ==
  [state |-> "header", files |-> <<>>, inFile |-> FALSE, cur |-> NoFile, inHunk |-> FALSE,
   hunk |-> NoHunk, hdrOld |-> "", hdrNew |-> "", sawOldHeader |-> FALSE, sawOldNull |-> FALSE,
   sawNewNull |-> FALSE, sawModeLine |-> FALSE, oldRem |-> 0, newRem |-> 0, oldNo |-> 0, newNo |-> 0,
   at |-> 1, err |-> FALSE, closed |-> FALSE]

NoPage == [painted |-> FALSE, files |-> <<>>, focus |-> 0, adds |-> 0, dels |-> 0, stubs |-> 0]

\* git's own output is honest and its blanks are whole; the copy on disk may
\* have been through an editor.
Init ==
  /\ change \in Changes
  /\ persisted \in BOOLEAN
  /\ Lies(change) => persisted
  /\ \E strip \in (IF persisted THEN BOOLEAN ELSE {FALSE}) :
       /\ strip => Patch(change, TRUE) # Patch(change, FALSE)
       /\ lines = Patch(change, strip)
  /\ persisted => change # <<>>
  /\ truncated = FALSE
  /\ p = Start /\ page = NoPage

StartFile(q) ==
  [Start EXCEPT !.state = q.state, !.files = q.files, !.at = q.at, !.inFile = TRUE,
                !.oldNo = q.oldNo, !.newNo = q.newNo]

InFile(q) == IF q.inFile THEN q ELSE StartFile(q)

Flag(q, msg) == [InFile(q) EXCEPT !.cur.flags = @ \cup {msg}]

Owes(q) == q.oldRem > 0 \/ q.newRem > 0

\* Mutant of CloseHunk: what a hunk still owes is forgotten.
CloseHunkQuietly(q) ==
  IF ~q.inHunk THEN q
  ELSE [q EXCEPT !.cur.hunks = Append(@, q.hunk), !.inHunk = FALSE, !.hunk = NoHunk, !.oldRem = 0, !.newRem = 0]

CloseHunk(q) ==
  IF ~q.inHunk THEN q
  ELSE [(IF Owes(q) THEN Flag(q, "hunk is short") ELSE q) EXCEPT
          !.cur.hunks = Append(@, q.hunk), !.inHunk = FALSE, !.hunk = NoHunk, !.oldRem = 0, !.newRem = 0]

Named(q) ==
  LET f   == q.cur
      old == IF f.old = "" /\ ~q.sawOldNull THEN q.hdrOld ELSE f.old
      new == IF f.new = "" /\ ~q.sawNewNull THEN q.hdrNew ELSE f.new IN
  IF old = "" /\ new = ""
  THEN [f EXCEPT !.new = "(unknown path)", !.flags = @ \cup {"names no path"}]
  ELSE [f EXCEPT !.old = old, !.new = new]

Sealed(f, q) ==
  IF f.status # "" THEN f
  ELSE [f EXCEPT !.status = IF q.sawModeLine /\ f.hunks = <<>> /\ ~f.binary THEN "mode" ELSE "modified"]

CloseFile(q) ==
  IF ~q.inFile THEN q
  ELSE LET c == CloseHunk(q) IN
       [c EXCEPT !.files = Append(@, Sealed(Named(c), c)), !.inFile = FALSE, !.cur = NoFile,
                 !.inHunk = FALSE, !.hunk = NoHunk, !.state = "header"]

-----------------------------------------------------------------------------
(* The lines of a hunk. *)

\* Mutant of AddLine: lines past the header's counts are discarded.
AddLineOwed(q, kind, text) ==
  IF ~Owes(q) THEN q
  ELSE [q EXCEPT
     !.hunk.lines = Append(@, [kind |-> kind, text |-> text, noNL |-> FALSE,
                               oldNo |-> IF kind # "add" THEN q.oldNo ELSE 0,
                               newNo |-> IF kind # "del" THEN q.newNo ELSE 0]),
     !.oldNo  = IF kind # "add" THEN @ + 1 ELSE @, !.oldRem = IF kind # "add" THEN @ - 1 ELSE @,
     !.newNo  = IF kind # "del" THEN @ + 1 ELSE @, !.newRem = IF kind # "del" THEN @ - 1 ELSE @,
     !.cur.adds = IF kind = "add" THEN @ + 1 ELSE @,
     !.cur.dels = IF kind = "del" THEN @ + 1 ELSE @]

AddLine(q, kind, text) ==
  LET old == kind # "add"
      new == kind # "del" IN
  [q EXCEPT
     !.hunk.lines = Append(@, [kind |-> kind, text |-> text, noNL |-> FALSE,
                               oldNo |-> IF old THEN q.oldNo ELSE 0,
                               newNo |-> IF new THEN q.newNo ELSE 0]),
     !.oldNo  = IF old THEN @ + 1 ELSE @, !.oldRem = IF old THEN @ - 1 ELSE @,
     !.newNo  = IF new THEN @ + 1 ELSE @, !.newRem = IF new THEN @ - 1 ELSE @,
     !.cur.adds = IF kind = "add" THEN @ + 1 ELSE @,
     !.cur.dels = IF kind = "del" THEN @ + 1 ELSE @]

\* Mutant of MarkNoNewline: a marker after a hunk's last line is lost.
MarkInBodyOnly(q) ==
  IF q.state # "hunk" \/ q.hunk.lines = <<>> THEN q
  ELSE [q EXCEPT !.hunk.lines[Len(q.hunk.lines)].noNL = TRUE]

MarkNoNewline(q) ==
  IF ~q.inHunk \/ q.hunk.lines = <<>> THEN q
  ELSE [q EXCEPT !.hunk.lines[Len(q.hunk.lines)].noNL = TRUE]

\* By the first byte and nothing else; a blank line is context.
Classified(q, l) ==
  IF l.byte = "\\" THEN MarkNoNewline(q) ELSE AddLine(q, BodyKind(l.byte), l.text)

\* Mutant of InBody: the body is left only by a line that is none.
InBodySticky(q, l) == [Classified(q, l) EXCEPT !.state = "hunk"]

InBody(q, l) ==
  LET c == Classified(q, l) IN
  [c EXCEPT !.state = IF Owes(c) THEN "hunk" ELSE "header"]

-----------------------------------------------------------------------------
(* The lines outside a hunk. *)

\* A number that is no int is flagged and replaced by the default.
OpenHunk(q, claim) ==
  LET open == CloseHunk(InFile(q))
      n    == [i \in 1..4 |-> IF claim[i] # Huge THEN claim[i] ELSE IF i \in {2, 4} THEN 1 ELSE 0]
      ok   == IF \E i \in 1..4 : claim[i] = Huge THEN Flag(open, "not a usable number") ELSE open
      due  == [ok EXCEPT !.inHunk = TRUE, !.hunk = [claim |-> n, lines |-> <<>>],
                         !.oldNo = n[1], !.oldRem = n[2], !.newNo = n[3], !.newRem = n[4]] IN
  [due EXCEPT !.state = IF Owes(due) THEN "hunk" ELSE "header"]

OldHeader(q, path) ==
  LET c == IF ~q.inFile \/ q.sawOldHeader \/ q.inHunk THEN StartFile(CloseFile(q)) ELSE q IN
  IF path = "/dev/null" THEN [c EXCEPT !.sawOldHeader = TRUE, !.sawOldNull = TRUE]
  ELSE [c EXCEPT !.sawOldHeader = TRUE, !.cur.old = path]

NewHeader(q, path) ==
  IF path = "/dev/null" THEN [InFile(q) EXCEPT !.sawNewNull = TRUE]
  ELSE [InFile(q) EXCEPT !.cur.new = path]

\* These say something of a file and nothing where there is none.
Extended(q, l) ==
  IF ~q.inFile THEN q
  ELSE CASE l.head = "new file mode"     -> [q EXCEPT !.cur.status = "added", !.cur.newMode = l.text]
         [] l.head = "deleted file mode" -> [q EXCEPT !.cur.status = "deleted", !.cur.oldMode = l.text]
         [] l.head = "old mode"          -> [q EXCEPT !.cur.oldMode = l.text, !.sawModeLine = TRUE]
         [] l.head = "new mode"          -> [q EXCEPT !.cur.newMode = l.text, !.sawModeLine = TRUE]
         [] l.head = "renamed from"      -> [q EXCEPT !.cur.status = "renamed", !.cur.old = l.text]
         [] l.head = "renamed to"        -> [q EXCEPT !.cur.status = "renamed", !.cur.new = l.text]
         [] l.head = "copied from"       -> [q EXCEPT !.cur.status = "copied", !.cur.old = l.text]
         [] l.head = "copied to"         -> [q EXCEPT !.cur.status = "copied", !.cur.new = l.text]
         [] l.head = "index" /\ l.text # "" /\ q.cur.oldMode = "" /\ q.cur.newMode = "" ->
              [q EXCEPT !.cur.oldMode = l.text, !.cur.newMode = l.text]
         [] l.head \in {"binary differ", "git binary"} -> [q EXCEPT !.cur.binary = TRUE]
         [] OTHER -> q

InHeader(q, l) ==
  CASE l.head \in {"@@@", "diff --cc"} -> [q EXCEPT !.err = TRUE]
    [] l.head = "diff --git" ->
         [StartFile(CloseFile(q)) EXCEPT !.hdrOld = l.text, !.hdrNew = l.also]
    [] l.head = "@@"      -> OpenHunk(q, l.claim)
    [] l.head = "@@ junk" -> Flag(q, "unparsable hunk header")
    [] l.head = "\\"      -> MarkNoNewline(q)
    [] l.head = "--- "    -> OldHeader(q, l.text)
    [] l.head = "+++ "    -> NewHeader(q, l.text)
    [] l.head = "git binary" -> [Extended(q, l) EXCEPT !.state = "payload"]
    [] l.head = "body" /\ l.byte \in {" ", "+", "-"} /\ q.inHunk -> InBody(Flag(q, "body is longer"), l)
    [] OTHER -> Extended(q, l)

-----------------------------------------------------------------------------
(* Parse: a line, offered to at most two states. *)

Line == lines[p.at]
More == p.at <= Len(lines) /\ ~p.err /\ ~p.closed
Consumed(q) == [q EXCEPT !.at = @ + 1]

\* The capture had stopped before this line, or inside it: chosen here, where
\* nothing beyond has been looked at.
Cut(inside) ==
  /\ More /\ ~truncated
  /\ p.at > 1 \/ inside
  /\ truncated' = TRUE
  /\ lines' = Captured(IF inside THEN p.at ELSE p.at - 1, inside) \o (IF persisted THEN Trailer ELSE <<>>)
  /\ UNCHANGED <<change, persisted, p, page>>

StepHunk ==
  /\ More /\ p.state = "hunk"
  /\ p' = Consumed(IF Line.byte \in {"", " ", "+", "-", "\\"} THEN InBody(p, Line)
                ELSE InHeader([Flag(p, "body is shorter") EXCEPT !.state = "header"], Line))
  /\ UNCHANGED <<change, lines, truncated, persisted, page>>

StepPayload ==
  /\ More /\ p.state = "payload"
  /\ p' = Consumed(IF Line.head \in {"diff --git", "diff --cc"}
                THEN InHeader([p EXCEPT !.state = "header"], Line) ELSE p)
  /\ UNCHANGED <<change, lines, truncated, persisted, page>>

StepHeader ==
  /\ More /\ p.state = "header"
  /\ p' = Consumed(InHeader(p, Line))
  /\ UNCHANGED <<change, lines, truncated, persisted, page>>

Finish ==
  /\ p.at > Len(lines) /\ ~p.err /\ ~p.closed
  /\ p' = [CloseFile(p) EXCEPT !.closed = TRUE]
  /\ UNCHANGED <<change, lines, truncated, persisted, page>>

-----------------------------------------------------------------------------
(* The page. *)

\* Rows: what a file costs of the budget.
Rows(f) == Len(BodyOf(f.hunks))

\* Split: a change block is a run of deletions and the run of additions after
\* it, and the i-th of each stand side by side.
Run(ls, i, kind) ==
  CHOOSE n \in 0..(Len(ls) - i + 1) :
    /\ \A k \in i..(i + n - 1) : ls[k].kind = kind
    /\ i + n <= Len(ls) => ls[i + n].kind # kind

Side(ls, i, n, k) == IF k <= n THEN <<ls[i + k - 1]>> ELSE <<>>

Block(ls, i) ==
  LET dels == Run(ls, i, "del")
      adds == Run(ls, i + dels, "add")
      n    == IF dels > adds THEN dels ELSE adds IN
  IF ls[i].kind = "ctx" THEN [rows |-> <<[left |-> <<ls[i]>>, right |-> <<ls[i]>>]>>, length |-> 1]
  ELSE [rows |-> [k \in 1..n |-> [left |-> Side(ls, i, dels, k), right |-> Side(ls, i + dels, adds, k)]],
        length |-> dels + adds]

Split(ls) ==
  LET from[i \in 1..(Len(ls) + 1)] ==
        IF i > Len(ls) THEN <<>> ELSE Block(ls, i).rows \o from[i + Block(ls, i).length]
  IN from[1]

\* Mutant of View: the totals leave the stubs out.
ViewOfRendered(acc, f, i, focus) ==
  LET render == i = focus \/ (~acc.stubbing /\ acc.spent + Rows(f) <= Budget) IN
  [spent    |-> IF render THEN acc.spent + Rows(f) ELSE acc.spent,
   stubbing |-> acc.stubbing \/ ~render,
   adds     |-> IF render THEN acc.adds + f.adds ELSE acc.adds,
   dels     |-> IF render THEN acc.dels + f.dels ELSE acc.dels,
   stubs    |-> IF render THEN acc.stubs ELSE acc.stubs + 1,
   files    |-> Append(acc.files,
     [stub |-> ~render, flags |-> f.flags,
      hunks |-> IF render /\ ~f.binary THEN f.hunks ELSE <<>>,
      split |-> IF render /\ ~f.binary THEN [h \in DOMAIN f.hunks |-> Split(f.hunks[h].lines)] ELSE <<>>])]

\* fillFiles: the files in order, until one does not fit in the budget.
View(acc, f, i, focus) ==
  LET focused == i = focus
      render  == focused \/ (~acc.stubbing /\ acc.spent + Rows(f) <= Budget) IN
  [spent    |-> IF render THEN acc.spent + Rows(f) ELSE acc.spent,
   stubbing |-> acc.stubbing \/ ~render,
   adds     |-> acc.adds + f.adds, dels |-> acc.dels + f.dels,
   stubs    |-> IF render THEN acc.stubs ELSE acc.stubs + 1,
   files    |-> Append(acc.files,
     [stub |-> ~render, flags |-> f.flags,
      hunks |-> IF render /\ ~f.binary THEN f.hunks ELSE <<>>,
      split |-> IF render /\ ~f.binary THEN [h \in DOMAIN f.hunks |-> Split(f.hunks[h].lines)] ELSE <<>>])]

NothingYet == [spent |-> 0, stubbing |-> FALSE, adds |-> 0, dels |-> 0, stubs |-> 0, files |-> <<>>]

Filled(fs, focus) ==
  LET upTo[n \in 0..Len(fs)] == IF n = 0 THEN NothingYet ELSE View(upTo[n - 1], fs[n], n, focus)
  IN upTo[Len(fs)]

\* handleDiff, with ?file=, for a patch that could be parsed.
Paint(focus) ==
  /\ p.closed /\ ~page.painted
  /\ LET v == Filled(p.files, focus) IN
     page' = [painted |-> TRUE, files |-> v.files, focus |-> focus, adds |-> v.adds, dels |-> v.dels, stubs |-> v.stubs]
  /\ UNCHANGED <<change, lines, truncated, persisted, p>>

Next ==
  \/ StepHunk \/ StepPayload \/ StepHeader \/ Finish
  \/ \E inside \in BOOLEAN : Cut(inside)
  \/ \E focus \in 0..Len(p.files) : Paint(focus)

Spec == Init /\ [][Next]_vars

-----------------------------------------------------------------------------
HunkType == [claim : Seq(Nat), lines : Seq([kind : Kinds, text : Texts, noNL : BOOLEAN, oldNo : Nat, newNo : Nat])]
Paths    == FileNames \cup Texts \cup {"/dev/null", "(unknown path)"}
FileType ==
  [old : Paths, new : Paths, status : {"", "added", "deleted", "modified", "renamed", "copied", "mode"},
   oldMode : {"", "644", "755"}, newMode : {"", "644", "755"}, binary : BOOLEAN, hunks : Seq(HunkType),
   adds : Nat, dels : Nat,
   flags : SUBSET {"hunk is short", "body is shorter", "body is longer", "not a usable number",
                   "unparsable hunk header", "names no path"}]

\* Types; a hunk is open only in a file, the body state has an open hunk that
\* still owes lines, and a file that was closed has a status and a path.
TypeOK ==
  /\ change \in Seq(FileChange)
  /\ truncated \in BOOLEAN /\ persisted \in BOOLEAN
  /\ p.state \in {"header", "hunk", "payload"} /\ p.at \in 1..(Len(lines) + 1)
  /\ p.cur \in FileType /\ p.hunk \in HunkType
  /\ \A i \in DOMAIN p.files : p.files[i] \in FileType
  /\ p.inHunk => p.inFile
  /\ p.state = "hunk" => p.inHunk /\ Owes(p)
  /\ p.oldRem \in Int /\ p.newRem \in Int
  /\ \A i \in DOMAIN p.files : p.files[i].status # "" /\ (p.files[i].old # "" \/ p.files[i].new # "")
=============================================================================
