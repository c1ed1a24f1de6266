------------------------------- MODULE Patches -------------------------------
(***************************************************************************)
(* A change, the patch that git writes for it, what the diff viewer makes  *)
(* of the patch, and what it promises of that.  Diff says how the patch is *)
(* captured, parsed, laid out and painted.                                 *)
(*                                                                         *)
(* A change is a sequence of files; Patch(change) is what git writes for   *)
(* it.  A line of a patch keeps what the parser asks of it: what it means  *)
(* outside a hunk, its first byte, and what it carries.  The quoting and   *)
(* splitting of paths, a CR before the LF, the wording of warnings, the    *)
(* marks inside a line and the HTML are left out.                          *)
(***************************************************************************)
EXTENDS Integers, Sequences, FiniteSets, SequencesExt

CONSTANTS
  Changes,   \* bound: the changes of a job's branch, sequences of FileChange
  Budget,    \* diffRowBudget
  Huge       \* a number in a hunk header that is beyond an int

VARIABLES
  change,    \* what has changed (history)
  lines,     \* the patch as the page has it
  truncated, \* DiffPatchSince's flag: the capture stopped short
  persisted, \* the page reads the gate's copy, the worktree is gone
  p,         \* the parser
  page       \* what the page shows

-----------------------------------------------------------------------------
(* What git writes. *)

Kinds == {"ctx", "add", "del"}
Texts == {"x", "", "-- x", "++ x", "cut"}
FileNames == {"a", "b"}

\* kind and text of a line, and whether its side of the file ends there with
\* no newline.  claim is the header's: old start and count, new start and
\* count; an edited patch may lie in it.
BodyLine   == [kind : Kinds, text : Texts, noNL : BOOLEAN]
HunkChange == [claim : [1..4 -> Nat \cup {Huge}], body : Seq(BodyLine)]
FileChange ==
  [old : FileNames, new : FileNames, oldMode : {"644", "755"}, newMode : {"644", "755"},
   status : {"added", "deleted", "modified", "renamed", "copied", "combined"},
   binary : {"no", "differ", "payload"}, hunks : Seq(HunkChange)]

\* What git reports of a file: a binary one has no hunks; one that is added or
\* deleted has one name and one mode; one that is only modified has lines, or
\* bytes, or a mode that differ.
Reported(f) ==
  /\ f.binary # "no" => f.hunks = <<>>
  /\ f.status \in {"added", "deleted"} => f.old = f.new /\ f.oldMode = f.newMode
  /\ f.status = "modified" /\ f.hunks = <<>> /\ f.binary = "no" => f.oldMode # f.newMode

ASSUME ChangesAssumption == Changes \subseteq Seq(FileChange)
ASSUME GitAssumption == \A c \in Changes : \A i \in DOMAIN c : Reported(c[i])
ASSUME BudgetAssumption == Budget \in Nat
ASSUME HugeAssumption == Huge \notin Nat

NoClaim == <<0, 0, 0, 0>>
L(head, byte, text)  == [head |-> head, byte |-> byte, text |-> text, also |-> "", claim |-> NoClaim]
Header(head, text)   == L(head, "d", text)
NoNewlineMarker      == L("\\", "\\", "")
GitLine(old, new)    == [Header("diff --git", old) EXCEPT !.also = new]
HunkLine(claim)      == [L("@@", "@", "") EXCEPT !.claim = claim]
Junk                 == L("@@ junk", "@", "")

\* A deleted line "-- x" is written "--- x", an added "++ x" as "+++ x": only
\* these two read as something else outside a hunk.  `strip': the space of a
\* blank context line is gone, as after an editor.
Written(l, strip) ==
  LET byte == CASE l.kind = "ctx" -> " " [] l.kind = "add" -> "+" [] OTHER -> "-" IN
  IF l.kind = "ctx" /\ l.text = "" /\ strip THEN L("", "", "")
  ELSE L(CASE l.kind = "del" /\ l.text = "-- x" -> "--- "
           [] l.kind = "add" /\ l.text = "++ x" -> "+++ "
           [] OTHER -> "body", byte, l.text)

WrittenHunk(h, strip) ==
  <<HunkLine(h.claim)>> \o
  FlattenSeq([i \in DOMAIN h.body |->
     <<Written(h.body[i], strip)>> \o IF h.body[i].noNL THEN <<NoNewlineMarker>> ELSE <<>>])

Moved == [renamed |-> [from |-> "renamed from", to |-> "renamed to"],
          copied  |-> [from |-> "copied from", to |-> "copied to"]]

\* /dev/null stands on the side that does not exist.
WrittenFile(f, strip) ==
  LET moded == f.oldMode # f.newMode /\ f.status \notin {"added", "deleted"}
      edited == f.hunks # <<>> \/ f.binary # "no" IN
  IF f.status = "combined" THEN <<Header("diff --cc", f.new), Header("@@@", "")>>
  ELSE
  <<GitLine(f.old, f.new)>> \o
  (IF f.status = "added" THEN <<Header("new file mode", f.newMode)>> ELSE <<>>) \o
  (IF f.status = "deleted" THEN <<Header("deleted file mode", f.oldMode)>> ELSE <<>>) \o
  (IF moded THEN <<Header("old mode", f.oldMode), Header("new mode", f.newMode)>> ELSE <<>>) \o
  (IF f.status \in {"renamed", "copied"}
     THEN <<Header("similarity", ""), Header(Moved[f.status].from, f.old), Header(Moved[f.status].to, f.new)>>
     ELSE <<>>) \o
  (IF f.status \in {"added", "deleted"} \/ (edited /\ moded) THEN <<Header("index", "")>>
   ELSE IF edited THEN <<Header("index", f.newMode)>> ELSE <<>>) \o
  (CASE f.binary = "differ"  -> <<Header("binary differ", "")>>
     [] f.binary = "payload" -> <<Header("git binary", ""), L("body", "z", "")>>
     [] OTHER -> <<>>) \o
  (IF f.hunks = <<>> THEN <<>>
   ELSE <<L("--- ", "-", IF f.status = "added" THEN "/dev/null" ELSE f.old),
          L("+++ ", "+", IF f.status = "deleted" THEN "/dev/null" ELSE f.new)>> \o
        FlattenSeq([i \in DOMAIN f.hunks |-> WrittenHunk(f.hunks[i], strip)]))

Patch(c, strip) == FlattenSeq([i \in DOMAIN c |-> WrittenFile(c[i], strip)])

\* A line of a hunk's body; the headers "--- " and "+++ " carry a path.
IsBody(l) == l.head \in {"body", "", "--- ", "+++ "} /\ l.byte \in {" ", "+", "-", ""} /\ l.text \in Texts

-----------------------------------------------------------------------------
(* Lines, hunks and rows, of a change, a parsed file or a page. *)

BodyKind(byte) == CASE byte = "+" -> "add" [] byte = "-" -> "del" [] OTHER -> "ctx"

\* The lines of these kinds.
Only(ls, kinds) == FlattenSeq([i \in DOMAIN ls |-> IF ls[i].kind \in kinds THEN <<ls[i]>> ELSE <<>>])

\* Counts of a body's lines per side.
Olds(body) == Len(Only(body, {"ctx", "del"}))
News(body) == Len(Only(body, {"ctx", "add"}))

Honest(h) == h.claim[2] = Olds(h.body) /\ h.claim[4] = News(h.body) /\ Huge \notin {h.claim[1], h.claim[3]}
Lies(c)   == \E i \in DOMAIN c : \E j \in DOMAIN c[i].hunks : ~Honest(c[i].hunks[j])

\* All lines of some hunks, of some files; the lines in one column of rows.
BodyOf(hunks) == FlattenSeq([j \in DOMAIN hunks |-> hunks[j].lines])
Shown(fs)     == FlattenSeq([i \in DOMAIN fs |-> BodyOf(fs[i].hunks)])

Column(rows, side) == FlattenSeq([i \in DOMAIN rows |-> IF side = "left" THEN rows[i].left ELSE rows[i].right])

-----------------------------------------------------------------------------
(* Properties. *)

Path(f) == IF f.new # "" THEN f.new ELSE f.old

\* Where the i-th line of a body stands on the two sides.
Places(h) ==
  [i \in DOMAIN h.body |->
    LET before == SubSeq(h.body, 1, i - 1) IN
    [kind |-> h.body[i].kind, text |-> h.body[i].text, noNL |-> h.body[i].noNL,
     oldNo |-> IF h.body[i].kind = "add" THEN 0 ELSE h.claim[1] + Olds(before),
     newNo |-> IF h.body[i].kind = "del" THEN 0 ELSE h.claim[3] + News(before)]]

CountOf(hunks, kind) == Len(Only(BodyOf(hunks), {kind}))

\* The parsed file f tells of the changed file c: its name, what happened to
\* it, its modes, every line with its place on both sides, and no warning.
Tells(f, c) ==
  LET hunks == [j \in DOMAIN c.hunks |-> [claim |-> c.hunks[j].claim, lines |-> Places(c.hunks[j])]]
      moded == c.oldMode # c.newMode IN
  /\ Path(f) = c.new
  /\ c.status \in {"renamed", "copied"} => f.old = c.old
  /\ c.status = "added" /\ hunks # <<>> => f.old = ""
  /\ f.status = IF c.status = "modified" /\ hunks = <<>> /\ c.binary = "no" THEN "mode" ELSE c.status
  /\ f.binary = (c.binary # "no")
  /\ moded => f.oldMode = c.oldMode /\ f.newMode = c.newMode
  /\ f.hunks = hunks
  /\ f.adds = CountOf(hunks, "add") /\ f.dels = CountOf(hunks, "del")
  /\ f.flags = {}

Combined == \E i \in DOMAIN change : change[i].status = "combined"

\* A patch that is whole and honest is read as the change it was written
\* from, file by file and line by line, header-like text, blank lines and
\* missing newlines included; one with a combined diff is refused (Parse).
RoundTrip ==
  /\ p.err => Combined
  /\ p.closed /\ ~truncated /\ ~Lies(change) =>
       /\ ~Combined
       /\ Len(p.files) = Len(change)
       /\ \A i \in DOMAIN change : Tells(p.files[i], change[i])

\* The header's counts are used up by the first k lines of the body.
UsedUp(h, k) ==
  LET front == SubSeq(h.body, 1, k)
      due(n) == IF n = Huge THEN 1 ELSE n IN
  Olds(front) >= due(h.claim[2]) /\ News(front) >= due(h.claim[4])

\* Past its counts a hunk's line may read as a file's header, and is taken for
\* one, or be an empty line, and is dropped.
Mistakable(h) ==
  \E k \in 0..(Len(h.body) - 1) :
    UsedUp(h, k) /\ Written(h.body[k + 1], TRUE).head \in {"--- ", "+++ ", ""}

AllHunks(c) == UNION {{c[i].hunks[j] : j \in DOMAIN c[i].hunks} : i \in DOMAIN c}

BodiesOf(ls) == FlattenSeq([i \in DOMAIN ls |-> IF IsBody(ls[i]) THEN <<ls[i]>> ELSE <<>>])
GitLines(ls) == {i \in DOMAIN ls : ls[i].head = "diff --git"}

\* No line is dropped, invented or reordered and no file disappears (closeFile,
\* step, stepHeader), wherever the patch is cut and whatever its headers claim:
\* the lines of all hunks are the patch's body lines.  Excepted are a patch with
\* a line past its hunk's counts that reads like a header or is empty
\* (Mistakable), and the copy kept beside a gate document of a patch that is cut.
NothingLost ==
  p.closed /\ ~(persisted /\ truncated) /\ (\A h \in AllHunks(change) : ~Mistakable(h)) =>
    LET shown == Shown(p.files)
        bodies == BodiesOf(lines) IN
    /\ Len(shown) = Len(bodies)
    /\ \A i \in DOMAIN bodies : shown[i].kind = BodyKind(bodies[i].byte) /\ shown[i].text = bodies[i].text
    /\ Len(p.files) = Cardinality(GitLines(lines))

\* A side that falls short of its count, and a body that goes on when both
\* counts are used up.
Short(h) == h.claim[2] > Olds(h.body) \/ h.claim[4] > News(h.body)
Over(h)  == \E k \in 0..(Len(h.body) - 1) : UsedUp(h, k)

\* A hunk that the patch's end cuts off or that disagrees with its header in
\* one of these ways leaves a warning on its file (flag, closeHunk).
DamageIsFlagged ==
  p.closed =>
    /\ ~truncated => \A i \in DOMAIN change : \A j \in DOMAIN change[i].hunks :
         LET h == change[i].hunks[j] IN
         (\A g \in AllHunks(change) : ~Mistakable(g)) /\ (Short(h) \/ Over(h)) => p.files[i].flags # {}
    /\ truncated /\ ~persisted =>
         \A i \in DOMAIN p.files : \A j \in DOMAIN p.files[i].hunks :
           LET h == p.files[i].hunks[j] IN
           Len(h.lines) < Len(change[i].hunks[j].body) => p.files[i].flags # {}

\* The two views are one change: the left column is the hunk without its
\* additions, the right one without its deletions, in order; a row is never
\* empty, and two different lines share one only as a deletion and an addition.
ViewsAgree ==
  page.painted =>
    \A i \in DOMAIN page.files : \A j \in DOMAIN page.files[i].hunks :
      LET ls   == page.files[i].hunks[j].lines
          rows == page.files[i].split[j] IN
      /\ Column(rows, "left") = Only(ls, {"ctx", "del"})
      /\ Column(rows, "right") = Only(ls, {"ctx", "add"})
      /\ \A r \in DOMAIN rows :
           /\ rows[r].left # <<>> \/ rows[r].right # <<>>
           /\ rows[r].left # <<>> /\ rows[r].right # <<>> /\ rows[r].left # rows[r].right =>
                rows[r].left[1].kind = "del" /\ rows[r].right[1].kind = "add"

\* The rows that these files take.
RowsOf(is) == Len(FlattenSeq([i \in DOMAIN p.files |-> IF i \in is THEN BodyOf(p.files[i].hunks) ELSE <<>>]))

\* The page's totals are the whole patch's, stubs included; a file is either
\* rendered or a counted stub; a warning survives on a stub; the file asked
\* for is rendered, the others within the budget and up to the first that
\* does not fit (fillFiles).
PageAccounts ==
  page.painted =>
    LET shown == {i \in DOMAIN page.files : ~page.files[i].stub}
        all   == Shown(p.files) IN
    /\ Len(page.files) = Len(p.files)
    /\ page.adds = Len(Only(all, {"add"}))
    /\ page.dels = Len(Only(all, {"del"}))
    /\ page.stubs = Len(p.files) - Cardinality(shown)
    /\ page.focus # 0 => page.focus \in shown
    /\ RowsOf(shown \ {page.focus}) <= Budget
    /\ \A i \in DOMAIN page.files :
         /\ page.files[i].flags = p.files[i].flags
         /\ i \in shown /\ ~p.files[i].binary => page.files[i].hunks = p.files[i].hunks
         /\ i \notin shown => \A k \in shown : k < i \/ k = page.focus

=============================================================================
