------------------------------ MODULE MCSmallParts ------------------------------
(***************************************************************************)
(* Model-checking instance of three specifications that share no variable  *)
(* and promise only safety: Scheduler, three jobs and two slots;           *)
(* ReviewArtifacts, one job with a vote of three, four reviews and one     *)
(* setback; and Diff, read in every way a patch of up to three lines can   *)
(* be mistaken.  They are explored side by side and not interleaved:       *)
(* `part' says whose steps a behaviour takes, and the others stay in an    *)
(* initial state, in which none of their properties is at stake.           *)
(***************************************************************************)
EXTENDS Scheduler, ReviewFiles, Patches

VARIABLE part

Reviews == INSTANCE ReviewArtifacts
Diffs   == INSTANCE Diff

reviewVars == <<state, prev, rounds, last, source, files, run, handed, judged, refuted, spent>>
diffVars   == <<change, lines, truncated, persisted, p, page>>

-----------------------------------------------------------------------------
(* Reviews: one finding below the threshold, without an id; or two that    *)
(* gate, with the same id.                                                 *)

Found(id, severity) == [id |-> id, severity |-> severity, verification |-> "none"]

MCReports ==
  {<<Found(0, 1)>>, <<Found(1, 2), Found(1, 2)>>}

-----------------------------------------------------------------------------
(* Patches: every hunk of up to three lines over the texts that can be     *)
(* mistaken, honest and lying; every kind of file; pairs of files, so that *)
(* what is carried over from one to the next shows.                        *)

MCHuge == -7

B(kind, text, noNL) == [kind |-> kind, text |-> text, noNL |-> noNL]
MCLines ==
  {B("ctx", "x", FALSE), B("ctx", "", FALSE), B("del", "-- x", FALSE), B("add", "++ x", FALSE),
   B("del", "x", TRUE), B("add", "x", TRUE)}
Bodies == {<<>>} \cup UNION {[1..n -> MCLines] : n \in 1..3}

Hunk(body, old, new) == [claim |-> <<IF Olds(body) = 0 THEN 0 ELSE 4, old, IF News(body) = 0 THEN 0 ELSE 6, new>>, body |-> body]
True(body) == Hunk(body, Olds(body), News(body))

F(old, new, status, hunks) ==
  [old |-> old, new |-> new, oldMode |-> "644", newMode |-> "644", status |-> status, binary |-> "no", hunks |-> hunks]

Edit == <<B("del", "-- x", FALSE), B("add", "++ x", TRUE)>>
Late == [claim |-> <<9, 1, 11, 2>>, body |-> <<B("ctx", "x", FALSE), B("add", "x", TRUE)>>]

OneHunk == {<<F("a", "a", "modified", <<True(b)>>)>> : b \in Bodies \ {<<>>}}

LyingHunks ==
  LET some == UNION {[1..n -> MCLines \ {B("del", "x", TRUE)}] : n \in 1..2} IN
  {Hunk(b, Olds(b) + d, News(b) + e) : b \in {c \in some : Olds(c) > 0 /\ News(c) > 0}, d \in {-1, 0, 1}, e \in {-1, 0, 1}}
  \cup {[True(Edit) EXCEPT !.claim[i] = MCHuge] : i \in 1..4}
Lying == {<<F("a", "a", "modified", <<h>>), F("b", "b", "modified", <<Late>>)>> : h \in LyingHunks}
         \cup {<<F("a", "a", "modified", <<h, Late>>)>> : h \in LyingHunks}

Kept == <<True(Edit)>>
Sorts ==
  {F("a", "a", "modified", Kept), F("a", "a", "modified", <<True(Edit), Late>>),
   F("a", "a", "added", <<Hunk(<<B("add", "++ x", FALSE)>>, 0, 1)>>), F("a", "a", "added", <<>>),
   F("a", "a", "deleted", <<Hunk(<<B("del", "-- x", FALSE)>>, 1, 0)>>), F("a", "a", "deleted", <<>>),
   F("a", "b", "renamed", <<>>), F("a", "b", "renamed", Kept), F("a", "b", "copied", <<>>),
   [F("a", "b", "renamed", <<>>) EXCEPT !.newMode = "755"],
   [F("a", "a", "modified", <<>>) EXCEPT !.newMode = "755"],
   [F("a", "a", "modified", Kept) EXCEPT !.newMode = "755"],
   [F("a", "a", "modified", <<>>) EXCEPT !.binary = "differ"],
   [F("a", "a", "modified", <<>>) EXCEPT !.binary = "payload"],
   [F("a", "a", "added", <<>>) EXCEPT !.binary = "differ"],
   F("a", "a", "combined", <<>>)}
Pairs == {<<f, g>> : f \in Sorts, g \in Sorts}

MCChanges == {<<>>} \cup OneHunk \cup Lying \cup Pairs

-----------------------------------------------------------------------------
NoChange == <<>>

MCInit ==
  /\ part \in {"loop", "reviews", "diff"}
  /\ Init /\ Reviews!Init /\ Diffs!Init
  /\ part # "loop" => \A j \in Jobs : row[j].state = "work"
  /\ part # "diff" => change = NoChange /\ ~persisted

MCNext ==
  \/ part = "loop" /\ Next /\ UNCHANGED <<part, reviewVars, diffVars>>
  \/ part = "reviews" /\ Reviews!Next /\ UNCHANGED <<part, vars, diffVars>>
  \/ part = "diff" /\ Diffs!Next /\ UNCHANGED <<part, vars, reviewVars>>
  \/ part = "diff" /\ UNCHANGED <<part, vars, reviewVars, diffVars>>  \* a reading ends

MCSpec == MCInit /\ [][MCNext]_<<part, vars, reviewVars, diffVars>>
=============================================================================
