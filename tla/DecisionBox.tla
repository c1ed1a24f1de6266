----------------------------- MODULE DecisionBox -----------------------------
(***************************************************************************)
(* What people may rely on when they decide, without a word of rows, ids,  *)
(* ticks and processes: a box holds at most one decision per gate and per  *)
(* control; a job leaves a gate only on the decision for that gate, by a   *)
(* cancel, or by its age; and what was taken out of the box is answered    *)
(* where the job stands, or lost, but never answered later.  Approvals     *)
(* implements it.                                                          *)
(***************************************************************************)
CONSTANT Gates   \* approval gates the job comes to

Controls  == {"cancel", "resume"}
Decisions == {"approve", "reject", "cancelling"} \cup Controls
Over      == {"COMPLETED", "CANCELLED"}
States    == Gates \cup {"working", "suspended", "held"} \cup Over

VARIABLES
  box,   \* the decisions that wait: <<gate or control, decision>>
  hand,  \* the one that the engine has taken out, or <<>>
  state  \* where the job is

Init ==
  /\ box = {}
  /\ hand = <<>>
  /\ state = "working"

\* What an answer comes to.
Answer(g, d) ==
  CASE g = "release" /\ d # "approve"                  -> {"COMPLETED"}
    [] g # "release" /\ d \in {"cancel", "cancelling"} -> {"CANCELLED"}
    [] g = "scope" /\ d = "reject"                     -> {"working", "held"}
    [] OTHER                                           -> {"working"}

\* Somebody decides what nobody has decided yet.
Record(g, d) ==
  /\ \A e \in box : e[1] # g
  /\ box' = box \cup {<<g, d>>}
  /\ UNCHANGED <<hand, state>>

\* The job's own gate, a cancel at any time, or a resume of a job that rests.
Due(g) ==
  \/ g = state /\ g \in Gates
  \/ g = "cancel" /\ state \notin Over
  \/ g = "resume" /\ state \in {"held", "suspended"}

Take(e) ==
  /\ hand = <<>> /\ Due(e[1])
  /\ hand' = e
  /\ box' = box \ {e}
  /\ UNCHANGED state

\* A resume that comes at the wrong time, or names the wrong state.
Dismiss(e) ==
  /\ hand = <<>> /\ e[1] = "resume"
  /\ box' = box \ {e}
  /\ UNCHANGED <<hand, state>>

Carry ==
  /\ hand # <<>> /\ Due(hand[1])
  /\ state' \in Answer(hand[1], hand[2])
  /\ hand' = <<>>
  /\ UNCHANGED box

\* The engine dies.
Lose ==
  /\ hand # <<>> /\ hand' = <<>>
  /\ UNCHANGED <<box, state>>

\* The job goes on by itself, but neither from a gate or a hold nor into a
\* cancellation.
Work ==
  /\ hand = <<>> /\ state \in {"working", "suspended"}
  /\ state' \in States \ {"CANCELLED"}
  /\ UNCHANGED <<box, hand>>

\* The age limit.
Expire ==
  /\ hand = <<>> /\ state \notin Over
  /\ state' = "held"
  /\ UNCHANGED <<box, hand>>

Next ==
  \/ \E e \in box : Take(e) \/ Dismiss(e)
  \/ Carry \/ Lose \/ Work \/ Expire
  \/ \E g \in Gates \cup Controls, d \in Decisions : Record(g, d)

Spec == Init /\ [][Next]_<<box, hand, state>>
=============================================================================
