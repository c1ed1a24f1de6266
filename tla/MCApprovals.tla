----------------------------- MODULE MCApprovals -----------------------------
(***************************************************************************)
(* Instances of Approvals for TLC: a person at the terminal, one at the    *)
(* prompt of `sdlc review' and one with a browser.                         *)
(***************************************************************************)
EXTENDS Approvals

CONSTANTS terminal, reviewer, browser

MCSurface ==
  [p \in People |-> CASE p = terminal -> "cli"
                      [] p = reviewer -> "prompt"
                      [] p = browser -> "web"]
=============================================================================
