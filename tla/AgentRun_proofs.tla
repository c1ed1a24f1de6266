--------------------------- MODULE AgentRun_proofs ---------------------------
(***************************************************************************)
(* What holds of a run of a child process for any limits, any child and    *)
(* any number of attempts: types, that an attempt leaves nothing running   *)
(* behind, that a capture says whether it is whole, that the committer     *)
(* looks once more when the agent is gone, and that only the CLI's own     *)
(* lines suspend a job.                                                    *)
(***************************************************************************)
EXTENDS AgentRun, SequenceTheorems, TLAPS

Both == {"out", "err"}

\* A stream st within its limits, and what the child has said to it.
Fits(st, s, heard) ==
  /\ st \in Pumped /\ heard \in Seq(Lines)
  /\ Len(st.pipe) <= PipeDepth /\ Len(st.kept) <= Cap(s)

\* Until something is dropped nothing is lost between child and capture.
Conserves(st, s, heard) ==
  /\ st.over => Len(st.kept) = Cap(s) /\ Len(heard) > Len(st.kept) + Len(st.pipe)
  /\ ~st.over => heard = st.kept \o st.pipe

Conserved == \A s \in Both : Conserves(stream[s], s, said[s])

\* Where nothing of an attempt is left running.
AtRest ==
  /\ run.pc # "running" => ~Writing /\ Drained
  /\ run.pc \in {"ready", "judging", "over"} \/ sep => ~beat /\ committer.pc = "off" /\ ~mu
  /\ mu => committer.pc \in {"looping", "last"}
  /\ run.pc \in {"ready", "stopping", "judging"} => ~sep

RunInv == TypeOK /\ AtRest /\ Conserved

-----------------------------------------------------------------------------
(***************************************************************************)
(* The constants' types.                                                   *)
(***************************************************************************)
LEMMA Caps ==
  /\ PipeDepth \in Nat /\ MaxRetries \in Nat /\ MaxSteps \in Nat
  /\ \A s \in Both : Cap(s) \in Nat
BY BoundsAssumption DEF Cap, Both

(***************************************************************************)
(* A record of Pumped is what its fields say.                              *)
(***************************************************************************)
LEMMA PumpedFields ==
  ASSUME NEW st \in Pumped
  PROVE  /\ st.pipe \in Seq(Lines) /\ st.kept \in Seq(Lines)
         /\ st.over \in BOOLEAN /\ st.telling \in BOOLEAN
         /\ Len(st.pipe) \in Nat /\ Len(st.kept) \in Nat
BY DEF Pumped

(***************************************************************************)
(* Arithmetic of what has been written, kept and is on its way.            *)
(***************************************************************************)
LEMMA Counting ==
  ASSUME NEW a \in Nat, NEW b \in Nat, NEW c \in Nat
  PROVE  /\ a > b + c => a >= b + c /\ a + 1 > b + (c + 1)
         /\ a >= b + c => a > b + (c - 1)
OBVIOUS

(***************************************************************************)
(* A line appended to the second of two sequences.                         *)
(***************************************************************************)
LEMMA AppendToSecond ==
  ASSUME NEW k \in Seq(Lines), NEW q \in Seq(Lines), NEW l \in Lines
  PROVE  Append(k \o q, l) = k \o Append(q, l)
<1>1. k \o q \in Seq(Lines) /\ <<l>> \in Seq(Lines)
  BY ConcatProperties
<1>2. Append(k \o q, l) = (k \o q) \o <<l>> /\ Append(q, l) = q \o <<l>>
  BY <1>1, AppendIsConcat
<1>3. QED
  BY <1>1, <1>2, ConcatAssociative

(***************************************************************************)
(* The head of the second of two sequences, moved to the first's end.      *)
(***************************************************************************)
LEMMA MoveHead ==
  ASSUME NEW k \in Seq(Lines), NEW q \in Seq(Lines), q # <<>>
  PROVE  Append(k, Head(q)) \o Tail(q) = k \o q
<1> DEFINE h == <<Head(q)>>
<1>1. /\ Head(q) \in Lines /\ Tail(q) \in Seq(Lines) /\ h \in Seq(Lines)
      /\ Len(h) = 1 /\ Len(Tail(q)) = Len(q) - 1 /\ Len(q) \in Nat /\ Len(q) > 0
      /\ \A i \in 1..Len(Tail(q)) : Tail(q)[i] = q[i + 1]
  BY HeadTailProperties
<1>2. /\ h \o Tail(q) \in Seq(Lines) /\ Len(h \o Tail(q)) = Len(q)
      /\ \A i \in 1..Len(q) : (h \o Tail(q))[i] = IF i <= 1 THEN h[i] ELSE Tail(q)[i - 1]
  <2> HIDE DEF h
  <2>0. h \in Seq(Lines) /\ Tail(q) \in Seq(Lines)
    BY <1>1
  <2>1. /\ h \o Tail(q) \in Seq(Lines) /\ Len(h \o Tail(q)) = Len(h) + Len(Tail(q))
        /\ \A i \in 1..Len(h) + Len(Tail(q)) : (h \o Tail(q))[i] = IF i <= Len(h) THEN h[i] ELSE Tail(q)[i - Len(h)]
    BY <2>0, ConcatProperties, Zenon
  <2>2. QED
    BY <1>1, <2>1
<1>3. \A i \in 1..Len(q) : (h \o Tail(q))[i] = q[i]
  <2>1. h[1] = q[1]
    BY <1>1
  <2> HIDE DEF h
  <2>2. QED
    BY <1>1, <1>2, <2>1
<1>4. h \o Tail(q) = q
  <2> HIDE DEF h
  <2>1. QED
    BY <1>2, <1>3, SeqEqual
<1>5. Append(k, Head(q)) = k \o h
  BY <1>1, AppendIsConcat
<1>6. (k \o h) \o Tail(q) = k \o (h \o Tail(q))
  BY <1>1, ConcatAssociative
<1>7. QED
  BY <1>4, <1>5, <1>6

(***************************************************************************)
(* A stream that nothing has been written to.                              *)
(***************************************************************************)
LEMMA FreshFits ==
  ASSUME NEW s \in Both
  PROVE  Fits(Fresh, s, <<>>) /\ Conserves(Fresh, s, <<>>) /\ Fresh.pipe = <<>> /\ ~Fresh.telling
<1>1. Fresh \in Pumped /\ Fresh.pipe = <<>> /\ Fresh.kept = <<>> /\ ~Fresh.over /\ ~Fresh.telling
  BY DEF Fresh, Pumped
<1>2. Len(<<>>) = 0 /\ <<>> \in Seq(Lines) /\ <<>> \o <<>> = <<>>
  OBVIOUS
<1>3. QED
  BY <1>1, <1>2, Caps DEF Fits, Conserves

(***************************************************************************)
(* The child writes a line.                                                *)
(***************************************************************************)
LEMMA SaidFits ==
  ASSUME NEW s \in Both, NEW st, NEW heard, NEW l \in Lines,
         Fits(st, s, heard), Conserves(st, s, heard), Len(st.pipe) < PipeDepth,
         NEW d, d = [st EXCEPT !.pipe = Append(@, l)]
  PROVE  Fits(d, s, Append(heard, l)) /\ Conserves(d, s, Append(heard, l))
<1>1. st \in Pumped /\ heard \in Seq(Lines) /\ Len(heard) \in Nat /\ Cap(s) \in Nat /\ PipeDepth \in Nat
  BY Caps DEF Fits
<1>2. st.pipe \in Seq(Lines) /\ st.kept \in Seq(Lines) /\ Len(st.pipe) \in Nat /\ Len(st.kept) \in Nat
  BY <1>1, PumpedFields
<1>n. Len(heard) \in Nat /\ Cap(s) \in Nat /\ PipeDepth \in Nat /\ Len(st.pipe) \in Nat /\ Len(st.kept) \in Nat
  BY <1>1, <1>2
<1>3. /\ Append(st.pipe, l) \in Seq(Lines) /\ Len(Append(st.pipe, l)) = Len(st.pipe) + 1
      /\ Append(heard, l) \in Seq(Lines) /\ Len(Append(heard, l)) = Len(heard) + 1
  BY <1>1, <1>2
<1>4. d \in Pumped /\ d.pipe = Append(st.pipe, l) /\ d.kept = st.kept
  BY <1>1, <1>3 DEF Pumped
<1>o. d.over = st.over
  BY <1>1 DEF Pumped
<1>5. Fits(d, s, Append(heard, l))
  BY <1>1, <1>2, <1>3, <1>4 DEF Fits
<1>6. CASE st.over
  <2>1. Len(st.kept) = Cap(s) /\ Len(heard) > Len(st.kept) + Len(st.pipe)
    BY <1>6, Zenon DEF Conserves
  <2>2. Len(d.kept) = Cap(s) /\ Len(Append(heard, l)) > Len(d.kept) + Len(d.pipe)
    <3>1. Len(heard) + 1 > Len(st.kept) + (Len(st.pipe) + 1)
      BY <1>n, <2>1, Counting, Zenon
    <3>2. Len(d.kept) = Len(st.kept) /\ Len(d.pipe) = Len(st.pipe) + 1
      BY <1>3, <1>4
    <3>3. QED
      BY <1>3, <2>1, <3>1, <3>2, Zenon
  <2>3. QED
    BY <1>o, <1>5, <1>6, <2>2, Zenon DEF Conserves
<1>7. CASE ~st.over
  <2>1. heard = st.kept \o st.pipe
    BY <1>7, Zenon DEF Conserves
  <2>2. Append(st.kept \o st.pipe, l) = st.kept \o Append(st.pipe, l)
    BY <1>2, AppendToSecond
  <2>3. QED
    BY <1>4, <1>o, <1>5, <1>7, <2>1, <2>2, Zenon DEF Conserves
<1>8. QED
  BY <1>6, <1>7

(***************************************************************************)
(* limitedWriter keeps a line while there is room, and remembers that it   *)
(* has dropped one.                                                        *)
(***************************************************************************)
LEMMA PumpedFits ==
  ASSUME NEW s \in Both, NEW st, NEW heard, NEW t \in BOOLEAN,
         Fits(st, s, heard), Conserves(st, s, heard), st.pipe # <<>>,
         NEW d, d = [Limited(st, s, Head(st.pipe)) EXCEPT !.pipe = Tail(@), !.telling = t]
  PROVE  Fits(d, s, heard) /\ Conserves(d, s, heard)
<1>1. st \in Pumped /\ heard \in Seq(Lines) /\ Len(heard) \in Nat /\ Cap(s) \in Nat /\ PipeDepth \in Nat
  BY Caps DEF Fits
<1>2. st.pipe \in Seq(Lines) /\ st.kept \in Seq(Lines) /\ Len(st.pipe) \in Nat /\ Len(st.kept) \in Nat
  BY <1>1, PumpedFields
<1>n. Len(heard) \in Nat /\ Cap(s) \in Nat /\ PipeDepth \in Nat /\ Len(st.pipe) \in Nat /\ Len(st.kept) \in Nat
  BY <1>1, <1>2
<1>3. /\ Head(st.pipe) \in Lines /\ Tail(st.pipe) \in Seq(Lines) /\ Len(Tail(st.pipe)) = Len(st.pipe) - 1
      /\ Len(st.pipe) > 0
  BY <1>2, HeadTailProperties
<1>4. Len(st.kept) <= Cap(s) /\ Len(st.pipe) <= PipeDepth
  BY DEF Fits
<1>5. CASE Len(st.kept) < Cap(s)
  <2>0. /\ st.over => Len(st.kept) = Cap(s)
        /\ ~st.over => heard = st.kept \o st.pipe
    BY Zenon DEF Conserves
  <2>1. ~st.over /\ heard = st.kept \o st.pipe
    <3>1. Len(st.kept) # Cap(s)
      BY <1>1, <1>2, <1>5
    <3>2. QED
      BY <2>0, <3>1, Zenon
  <2>2. Append(st.kept, Head(st.pipe)) \in Seq(Lines) /\ Len(Append(st.kept, Head(st.pipe))) = Len(st.kept) + 1
    BY <1>2, <1>3
  <2>3. d \in Pumped /\ d.pipe = Tail(st.pipe) /\ d.kept = Append(st.kept, Head(st.pipe))
    BY <1>1, <1>3, <1>5, <2>2 DEF Limited, Pumped
  <2>o. d.over = st.over
    BY <1>1, <1>5 DEF Limited, Pumped
  <2>4. Append(st.kept, Head(st.pipe)) \o Tail(st.pipe) = st.kept \o st.pipe
    BY <1>2, MoveHead
  <2>5. Fits(d, s, heard)
    <3>1. Len(d.pipe) <= PipeDepth
      <4>1. Len(d.pipe) = Len(st.pipe) - 1
        BY <1>3, <2>3
      <4>2. QED
        BY <1>n, <1>4, <4>1
    <3>2. Len(d.kept) <= Cap(s)
      <4>1. Len(d.kept) = Len(st.kept) + 1
        BY <2>2, <2>3
      <4>2. QED
        BY <1>n, <1>5, <4>1
    <3>3. QED
      BY <1>1, <2>3, <3>1, <3>2 DEF Fits
  <2>6. QED
    BY <2>1, <2>3, <2>o, <2>4, <2>5, Zenon DEF Conserves
<1>6. CASE ~(Len(st.kept) < Cap(s))
  <2>1. d \in Pumped /\ d.pipe = Tail(st.pipe) /\ d.kept = st.kept
    BY <1>1, <1>3, <1>6 DEF Limited, Pumped
  <2>o. d.over = TRUE
    BY <1>1, <1>6 DEF Limited, Pumped
  <2>2. Len(heard) >= Len(st.kept) + Len(st.pipe)
    <3>1. CASE st.over
      <4>1. Len(heard) > Len(st.kept) + Len(st.pipe)
        BY <3>1, Zenon DEF Conserves
      <4>2. QED
        BY <1>n, <4>1, Counting, Zenon
    <3>2. CASE ~st.over
      <4>1. heard = st.kept \o st.pipe
        BY <3>2, Zenon DEF Conserves
      <4>2. QED
        BY <1>1, <1>2, <4>1, ConcatProperties
    <3>3. QED
      BY <3>1, <3>2
  <2>3. Len(st.kept) = Cap(s)
    BY <1>1, <1>2, <1>4, <1>6
  <2>4. Fits(d, s, heard)
    <3>1. Len(d.pipe) <= PipeDepth
      <4>1. Len(d.pipe) = Len(st.pipe) - 1
        BY <1>3, <2>1
      <4>2. QED
        BY <1>n, <1>4, <4>1
    <3>2. QED
      BY <1>1, <1>4, <2>1, <3>1 DEF Fits
  <2>5. Len(d.kept) = Cap(s) /\ Len(heard) > Len(d.kept) + Len(d.pipe)
    <3>1. Len(d.kept) = Len(st.kept) /\ Len(d.pipe) = Len(st.pipe) - 1
      BY <1>3, <2>1
    <3>2. Len(heard) > Len(st.kept) + (Len(st.pipe) - 1)
      BY <1>n, <2>2, Counting, Zenon
    <3>3. QED
      BY <2>3, <3>1, <3>2, Zenon
  <2>6. QED
    BY <2>o, <2>4, <2>5, Zenon DEF Conserves
<1>7. QED
  BY <1>5, <1>6

(***************************************************************************)
(* An event has been stored: what is kept is what was kept.                *)
(***************************************************************************)
LEMMA ToldFits ==
  ASSUME NEW s \in Both, NEW st, NEW heard, Fits(st, s, heard), Conserves(st, s, heard),
         NEW d, d = [st EXCEPT !.telling = FALSE]
  PROVE  Fits(d, s, heard) /\ Conserves(d, s, heard)
<1>1. st \in Pumped
  BY DEF Fits
<1>2. d \in Pumped /\ d.pipe = st.pipe /\ d.kept = st.kept /\ d.over = st.over
  BY <1>1 DEF Pumped
<1>3. QED
  BY <1>2 DEF Fits, Conserves

(***************************************************************************)
(* The streams' part of the invariant.                                     *)
(***************************************************************************)
LEMMA StreamsFit ==
  ASSUME TypeOK, Conserved, NEW s \in Both
  PROVE  Fits(stream[s], s, said[s]) /\ Conserves(stream[s], s, said[s])
BY DEF TypeOK, Conserved, Fits, Cap, Both

\* Both streams, after a step.
Streaming ==
  /\ stream \in [Both -> Pumped] /\ said \in [Both -> Seq(Lines)]
  /\ \A s \in Both : Fits(stream[s], s, said[s]) /\ Conserves(stream[s], s, said[s])

(***************************************************************************)
(* No step loses a line unsaid.                                            *)
(***************************************************************************)
LEMMA StreamStep ==
  ASSUME TypeOK, Conserved, [Next]_vars
  PROVE  Streaming'
<1>1. /\ stream \in [Both -> Pumped] /\ said \in [Both -> Seq(Lines)]
      /\ \A s \in Both : Fits(stream[s], s, said[s]) /\ Conserves(stream[s], s, said[s])
  BY StreamsFit DEF TypeOK, Both
<1>2. CASE UNCHANGED <<stream, said>>
  BY <1>1, <1>2 DEF Streaming, Fits, Conserves, Cap
<1>3. ASSUME NEW s \in Both, NEW l \in Lines, Say(s, l) PROVE Streaming'
  <2>1. /\ stream' = [stream EXCEPT ![s].pipe = Append(@, l)]
        /\ said' = [said EXCEPT ![s] = Append(@, l)]
        /\ Len(stream[s].pipe) < PipeDepth
    BY <1>3 DEF Say
  <2>2. stream'[s] = [stream[s] EXCEPT !.pipe = Append(@, l)] /\ said'[s] = Append(said[s], l)
    BY <1>1, <2>1
  <2>3. Fits(stream'[s], s, said'[s]) /\ Conserves(stream'[s], s, said'[s])
    BY <1>1, <2>1, <2>2, SaidFits
  <2>4. \A r \in Both \ {s} : stream'[r] = stream[r] /\ said'[r] = said[r]
    BY <1>1, <2>1
  <2>5. \A r \in Both : Fits(stream'[r], r, said'[r]) /\ Conserves(stream'[r], r, said'[r])
    BY <1>1, <2>3, <2>4
  <2>6. stream' \in [Both -> Pumped] /\ said' \in [Both -> Seq(Lines)]
    <3>1. stream'[s] \in Pumped /\ said'[s] \in Seq(Lines)
      BY <2>3 DEF Fits
    <3>2. stream' = [stream EXCEPT ![s] = stream'[s]] /\ said' = [said EXCEPT ![s] = said'[s]]
      BY <1>1, <2>1
    <3>3. QED
      BY <1>1, <3>1, <3>2
  <2>7. QED
    BY <2>5, <2>6 DEF Streaming, Fits, Conserves, Cap
<1>4. ASSUME NEW s \in Streams, Pump(s) PROVE Streaming'
  <2>0. s \in Both
    BY DEF Streams, Both
  <2>1. PICK t \in {FALSE, ~sep} : stream' = [stream EXCEPT ![s] = Copied(stream[s], s, t)]
    BY <1>4 DEF Pump
  <2>2. said' = said /\ stream[s].pipe # <<>> /\ t \in BOOLEAN
    BY <1>4, <2>1 DEF Pump, TypeOK
  <2>3. stream'[s] = Copied(stream[s], s, t)
    BY <1>1, <2>0, <2>1
  <2>4. Fits(stream'[s], s, said'[s]) /\ Conserves(stream'[s], s, said'[s])
    BY <1>1, <2>0, <2>2, <2>3, PumpedFits DEF Copied
  <2>5. \A r \in Both \ {s} : stream'[r] = stream[r]
    BY <1>1, <2>1
  <2>6. \A r \in Both : Fits(stream'[r], r, said'[r]) /\ Conserves(stream'[r], r, said'[r])
    BY <1>1, <2>2, <2>4, <2>5
  <2>7. stream' \in [Both -> Pumped]
    <3>1. stream'[s] \in Pumped
      BY <2>4 DEF Fits
    <3>2. stream' = [stream EXCEPT ![s] = stream'[s]]
      BY <1>1, <2>0, <2>1
    <3>3. QED
      BY <1>1, <3>1, <3>2
  <2>8. QED
    BY <1>1, <2>2, <2>6, <2>7 DEF Streaming, Fits, Conserves, Cap
<1>5. ASSUME NEW s \in Streams, Tell(s) PROVE Streaming'
  <2>0. s \in Both
    BY DEF Streams, Both
  <2>1. stream' = [stream EXCEPT ![s].telling = FALSE] /\ said' = said
    BY <1>5 DEF Tell
  <2>2. stream'[s] = [stream[s] EXCEPT !.telling = FALSE]
    BY <1>1, <2>0, <2>1
  <2>3. Fits(stream'[s], s, said'[s]) /\ Conserves(stream'[s], s, said'[s])
    BY <1>1, <2>0, <2>1, <2>2, ToldFits
  <2>4. \A r \in Both \ {s} : stream'[r] = stream[r]
    BY <1>1, <2>1
  <2>5. \A r \in Both : Fits(stream'[r], r, said'[r]) /\ Conserves(stream'[r], r, said'[r])
    BY <1>1, <2>1, <2>3, <2>4
  <2>6. stream' \in [Both -> Pumped]
    <3>1. stream'[s] \in Pumped
      BY <2>3 DEF Fits
    <3>2. stream' = [stream EXCEPT ![s] = stream'[s]]
      BY <1>1, <2>0, <2>1
    <3>3. QED
      BY <1>1, <3>1, <3>2
  <2>7. QED
    BY <1>1, <2>1, <2>5, <2>6 DEF Streaming, Fits, Conserves, Cap
<1>6. ASSUME Retry PROVE Streaming'
  <2>1. CASE UNCHANGED <<stream, said>>
    BY <1>2, <2>1
  <2>2. CASE /\ stream' = [s \in Both |-> Fresh] /\ said' = [s \in Both |-> <<>>]
    <3>1. \A s \in Both : stream'[s] = Fresh /\ said'[s] = <<>>
      BY <2>2
    <3>2. \A s \in Both : Fits(stream'[s], s, said'[s]) /\ Conserves(stream'[s], s, said'[s])
      BY <3>1, FreshFits
    <3>3. Fresh \in Pumped /\ <<>> \in Seq(Lines)
      BY DEF Fresh, Pumped
    <3>4. stream' \in [Both -> Pumped] /\ said' \in [Both -> Seq(Lines)]
      BY <2>2, <3>3
    <3>5. QED
      BY <3>2, <3>4 DEF Streaming, Fits, Conserves, Cap
  <2>3. QED
    BY <1>6, <2>1, <2>2 DEF Retry, Over, Output, Both
<1>7. ASSUME ReportStep \/ LetGo \/ (\E c \in {0, 1} : Exit(c)) \/ Call \/ Committer \/ Suspend \/ Succeed \/ Parsed
             \/ Deadline \/ Interrupt \/ Killed \/ BeatEnds \/ UNCHANGED vars
      PROVE  UNCHANGED <<stream, said>>
  BY <1>7 DEF ReportStep, LetGo, Exit, Call, Spawn, SpawnFails, Return, ReturnError, CloseStop, Joined, Watch,
     Committer, Look, Checkpoint, Committed, LastPass, CommitterEnds, Suspend, Succeed, Parsed, Over,
     Deadline, Interrupt, Killed, BeatEnds, vars, Output
<1>8. Streams \subseteq Both
  BY DEF Streams, Both
<1>9. QED
  BY <1>2, <1>3, <1>4, <1>5, <1>6, <1>7, <1>8 DEF Next, Child, Judge

\* Types of all but the streams.
Runs == [pc : {"ready", "spawning", "running", "returned", "stopping", "judging", "over"},
         attempt : 0..MaxRetries,
         outcome : {"", "parsed", "done", "quota", "network", "escalated"}]
Children   == [alive : BOOLEAN, code : Codes, held : BOOLEAN]
Committers == [pc : {"off", "starting", "looping", "last"}, seen : 0..MaxSteps]

CallTypes ==
  /\ sep \in BOOLEAN /\ interrupted \in BOOLEAN /\ mu \in BOOLEAN /\ beat \in BOOLEAN
  /\ run \in Runs /\ child \in Children /\ committer \in Committers
  /\ ctx \in {"live", "deadline", "cancelled"}
  /\ result \in Returned
  /\ steps \in 0..MaxSteps

(***************************************************************************)
(* Types come in two halves.                                               *)
(***************************************************************************)
LEMMA TypesAreHalves ==
  ASSUME CallTypes, Streaming
  PROVE  TypeOK
<1>1. \A s \in Both : Len(stream[s].pipe) <= PipeDepth /\ Len(stream[s].kept) <= Cap(s)
  BY DEF Streaming, Fits
<1>2. Cap("out") = OutCap /\ Cap("err") = ErrCap
  BY DEF Cap
<1>3. QED
  BY <1>1, <1>2 DEF TypeOK, CallTypes, Runs, Children, Committers, Streaming, Both

(***************************************************************************)
(* What RunCapture returns is a result.                                    *)
(***************************************************************************)
LEMMA ReturnIsTyped ==
  ASSUME TypeOK, Return \/ ReturnError
  PROVE  result' \in Returned
<1>1. /\ Kept["out"] \in Seq(Lines) /\ Kept["err"] \in Seq(Lines)
      /\ \A s \in Both : stream[s].over \in BOOLEAN
  BY PumpedFields DEF TypeOK, Kept, Both
<1>2. WithErr(Kept) \in Seq(Lines)
  BY <1>1 DEF WithErr
<1>3. (IF Failed THEN WithErr(Kept) ELSE Kept["out"]) \in Seq(Lines)
  BY <1>1, <1>2
<1>4. (stream["out"].over \/ (Failed /\ sep /\ stream["err"].over)) \in BOOLEAN
  OBVIOUS
<1>5. (IF ctx = "deadline" THEN -1 ELSE child.code) \in Codes
  BY DEF TypeOK, Codes
<1>6. (stream["out"].over \/ (sep /\ stream["err"].over)) \in BOOLEAN /\ 0 \in Codes
  BY DEF Codes
<1>7. QED
  <2>1. CASE Return
    BY <1>3, <1>4, <1>5, <2>1 DEF Return, Returned
  <2>2. CASE ReturnError
    BY <1>2, <1>6, <2>2 DEF ReturnError, Returned
  <2>3. QED
    BY <2>1, <2>2

(***************************************************************************)
(* A call that could not be made, and one not yet made, return a result.   *)
(***************************************************************************)
LEMMA NothingIsTyped ==
  Nothing \in Returned /\ [Nothing EXCEPT !.code = -1, !.err = TRUE] \in Returned
<1>1. -1 \in Codes /\ 0 \in Codes /\ <<>> \in Seq(Lines)
  BY DEF Codes
<1>2. Nothing \in Returned
  BY <1>1 DEF Nothing, Returned
<1>3. \A of \in Returned, c \in Codes : [of EXCEPT !.code = c, !.err = TRUE] \in Returned
  BY DEF Returned
<1>4. QED
  BY <1>1, <1>2, <1>3

(***************************************************************************)
(* Every step keeps the types.                                             *)
(***************************************************************************)
LEMMA CallTypesStep ==
  ASSUME TypeOK, [Next]_vars
  PROVE  CallTypes'
<1>t. CallTypes
  BY DEF TypeOK, CallTypes, Runs, Children, Committers
<1>b. MaxRetries \in Nat /\ MaxSteps \in Nat
  BY Caps
<1> USE <1>t
<1>1. ASSUME \/ \E s \in Streams, l \in Lines : Say(s, l)
             \/ \E s \in Streams : Pump(s) \/ Tell(s)
             \/ UNCHANGED vars
      PROVE  CallTypes'
  BY <1>1 DEF Say, Pump, Tell, Watcher, CallTypes, Runs, Children, Committers, vars
<1>2. CASE ReportStep
  <2>1. steps + 1 \in 0..MaxSteps
    <3>1. steps \in 0..MaxSteps /\ steps < MaxSteps
      BY <1>2 DEF ReportStep, CallTypes, Runs, Children, Committers
    <3>2. QED
      BY <1>b, <3>1
  <2>2. QED
    <3>1. steps' \in 0..MaxSteps
      BY <1>2, <2>1 DEF ReportStep
    <3>2. /\ sep' = sep /\ run' = run /\ child' = child /\ ctx' = ctx /\ interrupted' = interrupted
          /\ result' = result /\ mu' = mu /\ beat' = beat /\ committer' = committer
      BY <1>2 DEF ReportStep, Watcher
    <3>3. QED
      BY <3>1, <3>2, Zenon DEF CallTypes
<1>3. ASSUME NEW c \in {0, 1}, Exit(c) PROVE CallTypes'
  <2>1. c \in Codes
    BY DEF Codes
  <2>2. child' \in Children
    BY <1>3, <2>1 DEF Exit, Gone, Children
  <2>3. /\ sep' = sep /\ run' = run /\ ctx' = ctx /\ interrupted' = interrupted /\ result' = result
        /\ mu' = mu /\ beat' = beat /\ committer' = committer /\ steps' = steps
    BY <1>3 DEF Exit, Output, Watcher
  <2>4. QED
    BY <2>2, <2>3, Zenon DEF CallTypes
<1>4. CASE Spawn
  <2>1. child' \in Children /\ run' \in Runs
    BY <1>4 DEF Spawn, NoChild, Codes, CallTypes, Runs, Children
  <2>2. QED
    BY <1>4, <2>1, Zenon DEF Spawn, CallTypes, Output, Watcher
<1>5. CASE SpawnFails
  BY <1>5, NothingIsTyped DEF SpawnFails, CallTypes, Runs, Children, Committers, Output, Watcher
<1>6. CASE Return \/ ReturnError
  <2>1. result' \in Returned
    BY <1>6, ReturnIsTyped
  <2>2. QED
    BY <1>6, <2>1 DEF Return, ReturnError, CallTypes, Runs, Children, Committers, Output, Watcher
<1>l. CASE LetGo
  <2>1. child' \in Children
    BY <1>l DEF LetGo, CallTypes, Children
  <2>2. QED
    BY <1>l, <2>1, Zenon DEF LetGo, CallTypes, Output, Watcher
<1>7. CASE CloseStop \/ Joined
  BY <1>7 DEF CloseStop, Joined, CallTypes, Runs, Children, Committers, Output, Watcher
<1>8. CASE Watch
  BY <1>8 DEF Watch, CallTypes, Runs, Children, Committers, Output
<1>9. CASE Look \/ Committed \/ LastPass \/ CommitterEnds
  <2>1. CASE Look
    <3>1. committer' \in Committers
      BY <2>1 DEF Look, CallTypes, Runs, Children, Committers
    <3>2. /\ sep' = sep /\ run' = run /\ child' = child /\ ctx' = ctx /\ interrupted' = interrupted
          /\ result' = result /\ mu' = mu /\ beat' = beat /\ steps' = steps
      BY <2>1 DEF Look, Output
    <3>3. QED
      BY <3>1, <3>2, Zenon DEF CallTypes
  <2>2. CASE Committed
    <3>1. /\ mu' = FALSE /\ sep' = sep /\ run' = run /\ child' = child /\ ctx' = ctx
          /\ interrupted' = interrupted /\ result' = result /\ beat' = beat /\ committer' = committer /\ steps' = steps
      BY <2>2 DEF Committed, Output
    <3>2. QED
      BY <3>1, Zenon DEF CallTypes
  <2>3. CASE LastPass \/ CommitterEnds
    BY <2>3 DEF LastPass, CommitterEnds, CallTypes, Runs, Children, Committers, Output
  <2>4. QED
    BY <1>9, <2>1, <2>2, <2>3
<1>10. CASE Checkpoint
  <2>1. committer.seen \in 0..MaxSteps /\ committer.seen < steps /\ steps \in 0..MaxSteps
    BY <1>10 DEF Checkpoint, CallTypes, Runs, Children, Committers
  <2>2. committer.seen + 1 \in 0..MaxSteps
    BY <1>b, <2>1
  <2>3. committer' \in Committers
    BY <1>10, <2>2 DEF Checkpoint, CallTypes, Committers
  <2>4. QED
    BY <1>10, <2>3, Zenon DEF Checkpoint, CallTypes, Output
<1>11. CASE Suspend \/ Succeed \/ Parsed
  BY <1>11 DEF Suspend, Succeed, Parsed, Over, CallTypes, Runs, Children, Committers, Output, Watcher
<1>12. CASE Retry
  <2>1. CASE run.attempt < MaxRetries
    <3>1. /\ run' = [run EXCEPT !.pc = "ready", !.attempt = @ + 1]
          /\ child' = NoChild /\ ctx' = "live" /\ result' = Nothing
          /\ UNCHANGED <<sep, interrupted, steps, Watcher>>
      BY <1>12, <2>1 DEF Retry
    <3>2. run.attempt + 1 \in 0..MaxRetries
      <4>1. run.attempt \in 0..MaxRetries
        BY DEF CallTypes, Runs, Children, Committers
      <4>2. QED
        BY <1>b, <2>1, <4>1
    <3>3. QED
      BY <3>1, <3>2, NothingIsTyped DEF CallTypes, Runs, Children, Committers, Watcher, NoChild, Codes
  <2>2. CASE ~(run.attempt < MaxRetries)
    BY <1>12, <2>2 DEF Retry, Over, CallTypes, Runs, Children, Committers, Output, Watcher
  <2>3. QED
    BY <2>1, <2>2
<1>13. CASE Deadline \/ Interrupt
  BY <1>13 DEF Deadline, Interrupt, CallTypes, Runs, Children, Committers, Output, Watcher
<1>14. CASE Killed \/ BeatEnds
  <2>1. -1 \in Codes
    BY DEF Codes
  <2>2. CASE Killed
    <3>1. child' \in Children
      BY <2>1, <2>2 DEF Killed, Gone, Children
    <3>2. /\ sep' = sep /\ run' = run /\ ctx' = ctx /\ interrupted' = interrupted /\ result' = result
          /\ mu' = mu /\ beat' = beat /\ committer' = committer /\ steps' = steps
      BY <2>2 DEF Killed, Output, Watcher
    <3>3. QED
      BY <3>1, <3>2, Zenon DEF CallTypes
  <2>3. CASE BeatEnds
    <3>1. /\ beat' = FALSE /\ sep' = sep /\ run' = run /\ child' = child /\ ctx' = ctx
          /\ interrupted' = interrupted /\ result' = result /\ mu' = mu /\ committer' = committer /\ steps' = steps
      BY <2>3 DEF BeatEnds, Output
    <3>2. QED
      BY <3>1, Zenon DEF CallTypes
  <2>4. QED
    BY <1>14, <2>2, <2>3
<1>15. QED
  BY <1>1, <1>2, <1>3, <1>4, <1>5, <1>6, <1>l, <1>7, <1>8, <1>9, <1>10, <1>11, <1>12, <1>13, <1>14
     DEF Next, Child, Call, Committer, Judge

(***************************************************************************)
(* Every step leaves at rest what an earlier attempt left at rest.         *)
(***************************************************************************)
LEMMA AtRestStep ==
  ASSUME TypeOK, AtRest, [Next]_vars
  PROVE  AtRest'
<1>t. /\ sep \in BOOLEAN /\ interrupted \in BOOLEAN /\ mu \in BOOLEAN /\ beat \in BOOLEAN
      /\ run \in [pc : {"ready", "spawning", "running", "returned", "stopping", "judging", "over"},
                  attempt : 0..MaxRetries,
                  outcome : {"", "parsed", "done", "quota", "network", "escalated"}]
      /\ child \in [alive : BOOLEAN, code : Codes, held : BOOLEAN]
      /\ committer \in [pc : {"off", "starting", "looping", "last"}, seen : 0..MaxSteps]
      /\ stream \in [Both -> Pumped]
  BY DEF TypeOK, Both
<1> USE <1>t
<1>1. CASE UNCHANGED vars
  BY <1>1 DEF AtRest, Drained, Writing, vars
<1>2. ASSUME NEW s \in Streams, NEW l \in Lines, Say(s, l) PROVE AtRest'
  BY <1>2 DEF Say, AtRest, Drained, Writing, Watcher
<1>3. ASSUME NEW s \in Streams, Pump(s) \/ Tell(s) PROVE AtRest'
  <2>1. s \in Both /\ (stream[s].pipe # <<>> \/ stream[s].telling)
    BY <1>3 DEF Pump, Tell, Streams, Both
  <2>2. ~Drained
    BY <2>1 DEF Drained, Both
  <2>3. UNCHANGED <<sep, run, child, Watcher>>
    BY <1>3 DEF Pump, Tell
  <2>4. QED
    BY <2>2, <2>3 DEF AtRest, Writing, Watcher
<1>4. ASSUME ReportStep \/ LetGo \/ (\E c \in {0, 1} : Exit(c)) \/ Deadline \/ Interrupt \/ Killed
      PROVE  AtRest'
  <2>1. run' = run /\ sep' = sep /\ stream' = stream /\ UNCHANGED Watcher
    BY <1>4 DEF ReportStep, LetGo, Exit, Deadline, Interrupt, Killed, Output
  <2>2. ~Writing => ~Writing'
    BY <1>4 DEF ReportStep, LetGo, Exit, Deadline, Interrupt, Killed, Writing
  <2>3. Drained' = Drained
    BY <2>1 DEF Drained
  <2>4. QED
    BY <2>1, <2>2, <2>3 DEF AtRest, Watcher
<1>5. CASE Spawn
  BY <1>5 DEF Spawn, AtRest, Drained, Output, Watcher
<1>6. CASE SpawnFails \/ Return \/ ReturnError
  <2>1. run'.pc = "returned" /\ UNCHANGED <<sep, child, stream>> /\ UNCHANGED Watcher
    BY <1>6 DEF SpawnFails, Return, ReturnError, Output
  <2>2. ~Writing /\ Drained
    BY <1>6 DEF SpawnFails, Return, ReturnError, Waited, AtRest
  <2>3. Drained' = Drained /\ Writing' = Writing
    BY <2>1 DEF Drained, Writing
  <2>4. QED
    BY <2>1, <2>2, <2>3 DEF AtRest, Watcher
<1>7. CASE CloseStop \/ Joined \/ Watch
  <2>1. UNCHANGED <<sep, child, stream>> /\ Drained' = Drained /\ Writing' = Writing
    BY <1>7 DEF CloseStop, Joined, Watch, Output, Drained, Writing
  <2>2. ~Writing /\ Drained
    BY <1>7 DEF CloseStop, Joined, Watch, AtRest
  <2>3. CASE CloseStop
    <3>1. run'.pc = "stopping" /\ ~sep /\ UNCHANGED Watcher
      BY <2>3 DEF CloseStop
    <3>2. mu => committer.pc \in {"looping", "last"}
      BY DEF AtRest
    <3>3. QED
      BY <2>1, <2>2, <3>1, <3>2 DEF AtRest, Watcher
  <2>4. CASE Joined
    <3>1. run.pc = "stopping" /\ run'.pc = "judging" /\ UNCHANGED Watcher /\ ~beat /\ committer.pc = "off"
      BY <2>4 DEF Joined
    <3>2. ~sep /\ ~mu
      BY <3>1 DEF AtRest
    <3>3. QED
      BY <2>1, <2>2, <3>1, <3>2 DEF AtRest, Watcher
  <2>5. CASE Watch
    <3>1. run.pc = "ready" /\ run'.pc = "spawning" /\ committer'.pc = "starting" /\ mu' = mu
      BY <2>5 DEF Watch
    <3>2. ~sep /\ ~mu
      BY <3>1 DEF AtRest
    <3>3. QED
      BY <2>1, <2>2, <3>1, <3>2 DEF AtRest
  <2>6. QED
    BY <1>7, <2>3, <2>4, <2>5
<1>8. CASE Committer
  <2>1. UNCHANGED <<sep, run, child, stream, beat>> /\ Drained' = Drained /\ Writing' = Writing
    BY <1>8 DEF Committer, Look, Checkpoint, Committed, LastPass, CommitterEnds, Output, Drained, Writing
  <2>2. committer.pc # "off" \/ mu
    BY <1>8 DEF Committer, Look, Checkpoint, Committed, LastPass, CommitterEnds
  <2>3. ~(run.pc \in {"ready", "judging", "over"} \/ sep)
    BY <2>2 DEF AtRest
  <2>4. mu' => committer'.pc \in {"looping", "last"}
    BY <1>8 DEF Committer, Look, Checkpoint, Committed, LastPass, CommitterEnds, AtRest
  <2>5. QED
    BY <2>1, <2>3, <2>4 DEF AtRest
<1>9. CASE BeatEnds
  BY <1>9 DEF BeatEnds, AtRest, Drained, Writing, Output
<1>10. CASE Suspend \/ Succeed \/ Parsed
  <2>1. run'.pc = "over" /\ UNCHANGED <<sep, child, stream>> /\ UNCHANGED Watcher
    BY <1>10 DEF Suspend, Succeed, Parsed, Over, Output
  <2>2. ~Writing /\ Drained /\ ~beat /\ committer.pc = "off" /\ ~mu
    BY <1>10 DEF Suspend, Succeed, Parsed, AtRest
  <2>3. Drained' = Drained /\ Writing' = Writing
    BY <2>1 DEF Drained, Writing
  <2>4. QED
    BY <2>1, <2>2, <2>3 DEF AtRest, Watcher
<1>11. CASE Retry
  <2>1. run.pc = "judging" /\ ~sep /\ ~beat /\ committer.pc = "off" /\ ~mu /\ ~Writing /\ Drained
    BY <1>11 DEF Retry, AtRest
  <2>2. UNCHANGED <<sep, Watcher>> /\ run'.pc \in {"ready", "over"}
    BY <1>11 DEF Retry, Over
  <2>3. ~Writing' /\ Drained'
    <3>1. CASE UNCHANGED <<child, stream>>
      BY <2>1, <3>1 DEF Drained, Writing
    <3>2. CASE child' = NoChild /\ stream' = [s \in Both |-> Fresh]
      BY <3>2 DEF NoChild, Writing, Drained, Fresh, Both
    <3>3. QED
      BY <1>11, <3>1, <3>2 DEF Retry, Over, Output, Both
  <2>4. QED
    BY <2>1, <2>2, <2>3 DEF AtRest, Watcher
<1>12. QED
  BY <1>1, <1>2, <1>3, <1>4, <1>5, <1>6, <1>7, <1>8, <1>9, <1>10, <1>11 DEF Next, Child, Call, Judge

(***************************************************************************)
(* The invariant holds of a call that has not begun.                       *)
(***************************************************************************)
LEMMA RunInvInit ==
  ASSUME Init
  PROVE  RunInv
<1>1. \A s \in Both : /\ Fits(stream[s], s, said[s]) /\ Conserves(stream[s], s, said[s])
                      /\ stream[s].pipe = <<>> /\ ~stream[s].telling
  BY FreshFits DEF Init, Both
<1>2. stream \in [Both -> Pumped] /\ said \in [Both -> Seq(Lines)]
  <2>1. Fresh \in Pumped /\ <<>> \in Seq(Lines)
    BY DEF Fresh, Pumped
  <2>2. QED
    BY <2>1 DEF Init, Both
<1>3. Streaming /\ Conserved
  BY <1>1, <1>2 DEF Streaming, Conserved
<1>4. CallTypes
  <2>1. 0 \in 0..MaxRetries /\ 0 \in 0..MaxSteps /\ 0 \in Codes
    BY Caps DEF Codes
  <2>2. run \in Runs
    BY <2>1 DEF Init, Runs
  <2>3. QED
    BY <2>1, <2>2, NothingIsTyped DEF Init, CallTypes, Runs, Children, Committers, NoChild
<1>5. AtRest
  <2>1. Drained
    BY <1>1 DEF Drained, Both
  <2>2. QED
    BY <2>1 DEF Init, AtRest, Writing, NoChild
<1>6. QED
  BY <1>3, <1>4, <1>5, TypesAreHalves DEF RunInv

(***************************************************************************)
(* Every step keeps the invariant.                                         *)
(***************************************************************************)
LEMMA RunInvStep ==
  ASSUME RunInv, [Next]_vars
  PROVE  RunInv'
<1>1. TypeOK /\ AtRest /\ Conserved
  BY DEF RunInv
<1>2. Streaming' /\ CallTypes' /\ AtRest'
  BY <1>1, StreamStep, CallTypesStep, AtRestStep
<1>3. TypeOK'
  <2>1. \A s \in Both : Len(stream'[s].pipe) <= PipeDepth /\ Len(stream'[s].kept) <= Cap(s)
    BY <1>2 DEF Streaming, Fits, Cap
  <2>2. Cap("out") = OutCap /\ Cap("err") = ErrCap
    BY DEF Cap
  <2>3. QED
    BY <1>2, <2>1, <2>2 DEF TypeOK, CallTypes, Runs, Children, Committers, Streaming, Both
<1>4. Conserved'
  BY <1>2 DEF Streaming, Conserved
<1>5. QED
  BY <1>2, <1>3, <1>4 DEF RunInv

(***************************************************************************)
(* The invariant holds throughout every call.                              *)
(***************************************************************************)
LEMMA RunInvHolds == Spec => []RunInv
<1>1. RunInv /\ UNCHANGED vars => RunInv'
  BY RunInvStep
<1>2. QED
  BY RunInvInit, RunInvStep, PTL DEF Spec

(***************************************************************************)
(* TypeCorrect: types, the pipe and both captures within their limits, for *)
(* every run of RunCapture.                                                *)
(***************************************************************************)
THEOREM TypeCorrect == Spec => []TypeOK
<1>1. RunInv => TypeOK
  BY DEF RunInv
<1>2. QED
  BY <1>1, RunInvHolds, PTL

(***************************************************************************)
(* AttemptLeavesNothing: runAgent goes on only when the child, whatever    *)
(* holds its output, its pumps, the heartbeat and the checkpoints of the   *)
(* attempt are done.                                                       *)
(***************************************************************************)
THEOREM AttemptLeavesNothing == Spec => []Quiescent
<1>1. RunInv => Quiescent
  BY DEF RunInv, AtRest, Quiescent
<1>2. QED
  BY <1>1, RunInvHolds, PTL

(***************************************************************************)
(* With the pipe empty, a stream's capture is what was said, or shorter.   *)
(***************************************************************************)
LEMMA DrainedCapture ==
  ASSUME TypeOK, Conserved, Drained, NEW s \in Both
  PROVE  /\ said[s] \in Seq(Lines) /\ Kept[s] \in Seq(Lines)
         /\ Len(said[s]) \in Nat /\ Len(Kept[s]) \in Nat
         /\ ~stream[s].over => said[s] = Kept[s]
         /\ stream[s].over => Len(said[s]) > Len(Kept[s])
         /\ Len(said[s]) >= Len(Kept[s])
<1>1. /\ stream[s] \in Pumped /\ said[s] \in Seq(Lines) /\ stream[s].pipe = <<>>
      /\ Conserves(stream[s], s, said[s])
  BY StreamsFit DEF Fits, Drained, Both
<1>2. stream[s].kept \in Seq(Lines) /\ Kept[s] = stream[s].kept /\ stream[s].over \in BOOLEAN
  BY <1>1, PumpedFields DEF Kept, Both
<1>3. Len(said[s]) \in Nat /\ Len(Kept[s]) \in Nat
  BY <1>1, <1>2
<1>4. ASSUME ~stream[s].over PROVE said[s] = Kept[s]
  <2>1. said[s] = stream[s].kept \o stream[s].pipe
    BY <1>1, <1>4, Zenon DEF Conserves
  <2>2. stream[s].kept \o <<>> = stream[s].kept
    BY <1>2, ConcatEmptySeq
  <2>3. QED
    BY <1>1, <1>2, <2>1, <2>2
<1>5. ASSUME stream[s].over PROVE Len(said[s]) > Len(Kept[s])
  <2>1. Len(said[s]) > Len(stream[s].kept) + Len(stream[s].pipe)
    BY <1>1, <1>5, Zenon DEF Conserves
  <2>2. Len(stream[s].pipe) = 0
    BY <1>1
  <2>3. QED
    BY <1>2, <1>3, <2>1, <2>2
<1>6. Len(said[s]) >= Len(Kept[s])
  BY <1>2, <1>3, <1>4, <1>5
<1>7. QED
  BY <1>1, <1>2, <1>3, <1>4, <1>5, <1>6

(***************************************************************************)
(* Truncated, as it is set where a text with (f) or without the stderr is  *)
(* returned, says whether the text is all that the child wrote to it.      *)
(***************************************************************************)
LEMMA TextIsHonest ==
  ASSUME TypeOK, Conserved, Drained, NEW f \in BOOLEAN
  PROVE  (stream["out"].over \/ (f /\ sep /\ stream["err"].over))
           <=> (IF f THEN WithErr(Kept) ELSE Kept["out"]) # (IF f THEN WithErr(said) ELSE said["out"])
<1> DEFINE o == stream["out"].over
           e == stream["err"].over
           so == said["out"]
           se == said["err"]
           ko == Kept["out"]
           ke == Kept["err"]
           text == IF f THEN WithErr(Kept) ELSE Kept["out"]
           all  == IF f THEN WithErr(said) ELSE said["out"]
<1>1. /\ so \in Seq(Lines) /\ ko \in Seq(Lines) /\ Len(so) \in Nat /\ Len(ko) \in Nat
      /\ ~o => so = ko
      /\ o => Len(so) > Len(ko)
      /\ Len(so) >= Len(ko)
  BY DrainedCapture DEF Both
<1>2. /\ se \in Seq(Lines) /\ ke \in Seq(Lines) /\ Len(se) \in Nat /\ Len(ke) \in Nat
      /\ ~e => se = ke
      /\ e => Len(se) > Len(ke)
      /\ Len(se) >= Len(ke)
  BY DrainedCapture DEF Both
<1>3. /\ all = IF f /\ sep THEN so \o se ELSE so
      /\ text = IF f /\ sep THEN ko \o ke ELSE ko
  BY DEF WithErr
<1>x. SUFFICES (o \/ ((f /\ sep) /\ e)) <=> text # all
  OBVIOUS
<1> HIDE DEF o, e, so, se, ko, ke, text, all
<1>4. o => so # ko
  <2>1. so = ko => Len(so) = Len(ko)
    OBVIOUS
  <2>2. ~(Len(so) > Len(ko) /\ Len(so) = Len(ko))
    BY <1>1
  <2>3. QED
    BY <1>1, <2>1, <2>2, Zenon
<1>5. (o \/ e) => so \o se # ko \o ke
  <2>1. Len(so \o se) = Len(so) + Len(se) /\ Len(ko \o ke) = Len(ko) + Len(ke)
    BY <1>1, <1>2, ConcatProperties
  <2>2. SUFFICES ASSUME o \/ e PROVE Len(so) + Len(se) # Len(ko) + Len(ke)
    BY <2>1
  <2>3. Len(so) > Len(ko) \/ Len(se) > Len(ke)
    BY <1>1, <1>2, <2>2, Zenon
  <2>4. QED
    BY <1>1, <1>2, <2>3
<1>6. ~o /\ ~e => so \o se = ko \o ke
  BY <1>1, <1>2, Zenon
<1>7. (o \/ ((f /\ sep) /\ e)) <=> (IF f /\ sep THEN ko \o ke ELSE ko) # (IF f /\ sep THEN so \o se ELSE so)
  <2>1. CASE f /\ sep
    BY <1>5, <1>6, <2>1, Zenon
  <2>2. CASE ~(f /\ sep)
    BY <1>1, <1>4, <2>2, Zenon
  <2>3. QED
    BY <2>1, <2>2
<1>8. QED
  BY <1>3, <1>7, Zenon

\* The deadline does not come in this step.
OnTime == ctx' = ctx \/ (ctx = "live" /\ ctx' = "cancelled")

\* Nothing is said before the child is there.
Unsaid == run.pc \in {"ready", "spawning"} => \A s \in Both : said[s] = <<>>

(***************************************************************************)
(* Nobody writes to a call's streams before it has started a child.        *)
(***************************************************************************)
LEMMA UnsaidStep ==
  ASSUME RunInv, Unsaid, [Next]_vars
  PROVE  Unsaid'
<1>1. /\ run \in [pc : {"ready", "spawning", "running", "returned", "stopping", "judging", "over"},
                  attempt : 0..MaxRetries,
                  outcome : {"", "parsed", "done", "quota", "network", "escalated"}]
      /\ AtRest
  BY DEF RunInv, TypeOK
<1>2. CASE UNCHANGED <<run, said>>
  BY <1>2 DEF Unsaid
<1>3. CASE run'.pc \notin {"ready", "spawning"}
  BY <1>3 DEF Unsaid
<1>4. ASSUME NEW s \in Streams, NEW l \in Lines, Say(s, l) PROVE Unsaid'
  <2>1. run.pc = "running" /\ run' = run
    BY <1>1, <1>4 DEF Say, AtRest
  <2>2. QED
    BY <2>1 DEF Unsaid
<1>5. CASE Watch
  BY <1>5 DEF Watch, Unsaid, Output
<1>6. CASE Retry
  <2>1. run'.pc = "over" \/ said' = [s \in Both |-> <<>>]
    BY <1>1, <1>6 DEF Retry, Over, Both
  <2>2. QED
    BY <2>1 DEF Unsaid
<1>7. QED
  <2>1. ASSUME Spawn \/ SpawnFails \/ Return \/ ReturnError \/ CloseStop \/ Joined \/ Suspend \/ Succeed \/ Parsed
        PROVE  run'.pc \notin {"ready", "spawning"}
    BY <1>1, <2>1 DEF Spawn, SpawnFails, Return, ReturnError, CloseStop, Joined, Suspend, Succeed, Parsed, Over
  <2>2. ASSUME \/ ReportStep \/ LetGo \/ (\E c \in {0, 1} : Exit(c)) \/ Deadline \/ Interrupt \/ Killed
               \/ Committer \/ BeatEnds \/ UNCHANGED vars
        PROVE  UNCHANGED <<run, said>>
    BY <2>2 DEF ReportStep, LetGo, Exit, Deadline, Interrupt, Killed, Committer, Look, Checkpoint, Committed,
       LastPass, CommitterEnds, BeatEnds, Output, vars
  <2>3. ASSUME NEW s \in Streams, Pump(s) \/ Tell(s) PROVE UNCHANGED <<run, said>>
    BY <2>3 DEF Pump, Tell
  <2>4. QED
    BY <1>2, <1>3, <1>4, <1>5, <1>6, <2>1, <2>2, <2>3 DEF Next, Child, Call, Judge

(***************************************************************************)
(* A result stays what it was when it was returned.                        *)
(***************************************************************************)
LEMMA HonestStep ==
  ASSUME RunInv, Unsaid, CaptureIsHonest, [Next]_vars
  PROVE  CaptureIsHonest'
<1>1. TypeOK /\ AtRest /\ Conserved
  BY DEF RunInv
<1>2. ASSUME Return \/ ReturnError PROVE CaptureIsHonest'
  <2>1. Drained /\ UNCHANGED <<sep, child, ctx, stream, said>>
    BY <1>2 DEF Return, ReturnError, Waited, Output
  <2>2. Failed' = Failed /\ WithErr(said)' = WithErr(said) /\ Failed \in BOOLEAN
    BY <2>1 DEF Failed, WithErr
  <2>3. CASE Return
    <3>1. /\ result'.text = (IF Failed THEN WithErr(Kept) ELSE Kept["out"])
          /\ result'.truncated = (stream["out"].over \/ (Failed /\ sep /\ stream["err"].over))
          /\ result'.err = FALSE
      BY <2>3 DEF Return
    <3>2. Whole' = IF Failed THEN WithErr(said) ELSE said["out"]
      BY <2>1, <2>2, <3>1 DEF Whole
    <3>3. QED
      BY <1>1, <2>1, <2>2, <3>1, <3>2, TextIsHonest, Zenon DEF CaptureIsHonest
  <2>4. CASE ReturnError
    <3>1. /\ result'.text = WithErr(Kept)
          /\ result'.truncated = (stream["out"].over \/ (sep /\ stream["err"].over))
          /\ result'.err = TRUE
      BY <2>4 DEF ReturnError
    <3>2. Whole' = WithErr(said)
      BY <2>2, <3>1 DEF Whole
    <3>3. (stream["out"].over \/ (sep /\ stream["err"].over)) <=> WithErr(Kept) # WithErr(said)
      BY <1>1, <2>1, TextIsHonest, Zenon
    <3>4. QED
      BY <3>1, <3>2, <3>3, Zenon DEF CaptureIsHonest
  <2>5. QED
    BY <1>2, <2>3, <2>4
<1>3. CASE SpawnFails
  <2>1. said["out"] = <<>> /\ said["err"] = <<>> /\ UNCHANGED <<sep, said>>
    BY <1>3 DEF SpawnFails, Unsaid, Both, Output
  <2>2. result'.text = <<>> /\ result'.truncated = FALSE /\ result'.err = TRUE
    BY <1>3 DEF SpawnFails, Nothing
  <2>3. Whole' = <<>>
    BY <2>1, <2>2 DEF Whole, WithErr
  <2>4. QED
    BY <2>2, <2>3 DEF CaptureIsHonest
<1>4. CASE UNCHANGED <<sep, run, child, said, result>> /\ OnTime
  <2>1. Whole' = Whole
    BY <1>4 DEF Whole, Failed, WithErr, OnTime
  <2>2. QED
    BY <1>4, <2>1 DEF CaptureIsHonest
<1>5. CASE run'.pc # "returned"
  BY <1>5 DEF CaptureIsHonest
<1>6. ASSUME run.pc = "returned" PROVE ~Writing /\ Drained
  BY <1>1, <1>6 DEF AtRest
<1>7. QED
  <2>1. ASSUME NEW s \in Streams, NEW l \in Lines, Say(s, l) PROVE run'.pc # "returned"
    BY <1>6, <2>1 DEF Say
  <2>2. ASSUME LetGo \/ (\E c \in {0, 1} : Exit(c)) \/ Deadline \/ Killed PROVE run'.pc # "returned"
    BY <1>6, <2>2 DEF LetGo, Exit, Deadline, Killed, Writing
  <2>3. ASSUME Spawn \/ CloseStop \/ Joined \/ Watch \/ Judge PROVE run'.pc # "returned"
    BY <1>1, <2>3 DEF Spawn, CloseStop, Joined, Watch, Judge, Suspend, Succeed, Retry, Parsed, Over, TypeOK
  <2>4. ASSUME ReportStep \/ Committer \/ BeatEnds \/ Interrupt \/ UNCHANGED vars
        PROVE  UNCHANGED <<sep, run, child, said, result>> /\ OnTime
    BY <2>4 DEF ReportStep, Committer, Look, Checkpoint, Committed, LastPass, CommitterEnds, BeatEnds, Interrupt,
       Output, vars, OnTime
  <2>5. ASSUME NEW s \in Streams, Pump(s) \/ Tell(s)
        PROVE  UNCHANGED <<sep, run, child, said, result>> /\ OnTime
    BY <2>5 DEF Pump, Tell, OnTime
  <2>6. QED
    BY <1>2, <1>3, <1>4, <1>5, <2>1, <2>2, <2>3, <2>4, <2>5 DEF Next, Child, Call

(***************************************************************************)
(* CaptureHonest: Truncated is right about every string RunCapture         *)
(* returns, with an error or without, of one stream or of two, for every   *)
(* limit, every pipe and every order in which child, pumps and deadline    *)
(* finish.                                                                 *)
(***************************************************************************)
THEOREM CaptureHonest == Spec => []CaptureIsHonest
<1>1. Init => Unsaid /\ CaptureIsHonest
  <2>1. ASSUME Init PROVE run.pc # "returned" /\ said = [s \in Both |-> <<>>]
    BY <2>1 DEF Init, Both
  <2>2. QED
    BY <2>1 DEF Unsaid, CaptureIsHonest
<1>2. RunInv /\ Unsaid /\ CaptureIsHonest /\ [Next]_vars => Unsaid' /\ CaptureIsHonest'
  BY UnsaidStep, HonestStep
<1>3. QED
  BY <1>1, <1>2, RunInvHolds, PTL DEF Spec

-----------------------------------------------------------------------------
(* The steps an agent reports are taken up. *)

\* The committer ends early only when the engine is interrupted; else it makes
\* its last pass while runAgent waits, when nothing more can be reported.
LastPassInv ==
  /\ run.pc = "judging" => ~sep
  /\ committer.pc = "last" => run.pc = "stopping"
  /\ (run.pc \in {"spawning", "running", "returned", "stopping"} /\ ~sep
      /\ ~interrupted /\ committer.pc = "off")
       => run.pc = "stopping" /\ committer.seen = steps
  /\ StepsTakenUp

(***************************************************************************)
(* A call that has not begun has a committer only if it is an agent's, and *)
(* then a fresh one.                                                       *)
(***************************************************************************)
LEMMA LastPassInit ==
  ASSUME Init
  PROVE  LastPassInv
<1>1. run.pc = (IF sep THEN "spawning" ELSE "ready") /\ committer.pc = "off"
  BY DEF Init
<1>2. QED
  BY <1>1 DEF LastPassInv, StepsTakenUp

(***************************************************************************)
(* No step is reported, and no pass skipped, between the last pass and the *)
(* judgement.                                                              *)
(***************************************************************************)
LEMMA LastPassStep ==
  ASSUME RunInv, LastPassInv, [Next]_vars
  PROVE  LastPassInv'
<1>1. AtRest
  BY DEF RunInv
<1>2. /\ run \in [pc : {"ready", "spawning", "running", "returned", "stopping", "judging", "over"},
                  attempt : 0..MaxRetries,
                  outcome : {"", "parsed", "done", "quota", "network", "escalated"}]
      /\ committer \in [pc : {"off", "starting", "looping", "last"}, seen : 0..MaxSteps]
  BY DEF RunInv, TypeOK
<1>3. run.pc # "running" => ~Writing
  BY <1>1 DEF AtRest
<1> USE <1>2 DEF LastPassInv, StepsTakenUp, Watcher, Output
<1>4. ASSUME UNCHANGED <<sep, run, committer, steps>>, (interrupted' = interrupted) \/ interrupted'
      PROVE  LastPassInv'
  BY <1>4
<1>5. CASE ReportStep
  <2>1. run.pc = "running" /\ UNCHANGED <<sep, run, committer, interrupted>>
    BY <1>3, <1>5 DEF ReportStep
  <2>2. QED
    BY <2>1
<1>6. CASE Spawn \/ SpawnFails \/ Return \/ ReturnError
  BY <1>6 DEF Spawn, SpawnFails, Return, ReturnError, Waited
<1>7. CASE CloseStop
  BY <1>7 DEF CloseStop
<1>8. CASE Joined
  <2>1. ~sep
    BY <1>1, <1>8 DEF Joined, AtRest
  <2>2. QED
    BY <1>8, <2>1 DEF Joined
<1>9. CASE Watch
  BY <1>9 DEF Watch
<1>10. CASE Look
  BY <1>10, <1>1 DEF Look, AtRest
<1>11. CASE Checkpoint
  <2>1. run.pc \notin {"judging", "ready", "over"}
    BY <1>1, <1>11 DEF Checkpoint, AtRest
  <2>2. committer'.pc = committer.pc /\ committer.pc # "off" /\ UNCHANGED <<sep, run, interrupted, steps>>
    BY <1>11 DEF Checkpoint
  <2>3. QED
    BY <2>1, <2>2
<1>12. CASE LastPass
  BY <1>12 DEF LastPass
<1>13. CASE CommitterEnds
  <2>1. run.pc \notin {"judging", "ready", "over"}
    BY <1>1, <1>13 DEF CommitterEnds, AtRest
  <2>2. QED
    BY <1>13, <2>1 DEF CommitterEnds
<1>14. CASE Suspend \/ Succeed \/ Parsed
  BY <1>14 DEF Suspend, Succeed, Parsed, Over
<1>15. CASE Retry
  <2>1. run'.pc \in {"ready", "over"} /\ committer' = committer
    BY <1>15 DEF Retry, Over
  <2>2. committer.pc = "off"
    BY <1>1, <1>15 DEF Retry, AtRest
  <2>3. QED
    BY <2>1, <2>2
<1>16. QED
  <2>1. ASSUME NEW s \in Streams, NEW l \in Lines, Say(s, l) PROVE LastPassInv'
    BY <1>4, <2>1 DEF Say
  <2>2. ASSUME NEW c \in {0, 1}, Exit(c) PROVE LastPassInv'
    BY <1>4, <2>2 DEF Exit
  <2>3. ASSUME LetGo \/ Deadline \/ Interrupt \/ Killed \/ BeatEnds \/ Committed \/ UNCHANGED vars
        PROVE  LastPassInv'
    BY <1>4, <2>3 DEF LetGo, Deadline, Interrupt, Killed, BeatEnds, Committed, vars
  <2>4. ASSUME NEW s \in Streams, Pump(s) \/ Tell(s) PROVE LastPassInv'
    BY <1>4, <2>4 DEF Pump, Tell
  <2>5. QED
    BY <1>5, <1>6, <1>7, <1>8, <1>9, <1>10, <1>11, <1>12, <1>13, <1>14, <1>15,
       <2>1, <2>2, <2>3, <2>4 DEF Next, Child, Call, Committer, Judge

(***************************************************************************)
(* StepsAreTakenUp: an attempt that was not interrupted is judged with     *)
(* every reported step taken up, however many it reported and whenever.    *)
(***************************************************************************)
THEOREM StepsAreTakenUp == Spec => []StepsTakenUp
<1>1. LastPassInv => StepsTakenUp
  BY DEF LastPassInv
<1>2. QED
  BY <1>1, LastPassInit, LastPassStep, RunInvHolds, PTL DEF Spec

-----------------------------------------------------------------------------
(* Only what was said suspends a job. *)

Elements(q) == {q[i] : i \in DOMAIN q}

\* What is on its way, captured or returned was said; only a call that is over
\* has an outcome.
Heard ==
  /\ \A s \in Both : Elements(stream[s].pipe) \cup Elements(stream[s].kept) \subseteq Elements(said[s])
  /\ ~sep => Elements(result.text) \subseteq Elements(said["out"])
  /\ run.outcome = "network" => run.pc = "over"

(***************************************************************************)
(* The lines of a sequence that is added to.                               *)
(***************************************************************************)
LEMMA ElementsAdded ==
  ASSUME NEW S, NEW q \in Seq(S), NEW l \in S
  PROVE  Elements(Append(q, l)) = Elements(q) \cup {l}
<1>1. /\ Append(q, l) \in Seq(S) /\ Len(Append(q, l)) = Len(q) + 1 /\ Len(q) \in Nat
      /\ \A i \in 1..Len(q) : Append(q, l)[i] = q[i]
      /\ Append(q, l)[Len(q) + 1] = l
  OBVIOUS
<1>2. DOMAIN q = 1..Len(q) /\ DOMAIN Append(q, l) = 1..(Len(q) + 1)
  BY <1>1
<1>3. \A i : i \in 1..(Len(q) + 1) <=> i \in 1..Len(q) \/ i = Len(q) + 1
  BY <1>1
<1>4. QED
  BY <1>1, <1>2, <1>3 DEF Elements

(***************************************************************************)
(* The lines of a sequence that is taken from.                             *)
(***************************************************************************)
LEMMA ElementsTaken ==
  ASSUME NEW S, NEW q \in Seq(S), q # <<>>
  PROVE  /\ Head(q) \in Elements(q) /\ Elements(Tail(q)) \subseteq Elements(q)
         /\ Head(q) \in S /\ Tail(q) \in Seq(S)
<1>1. /\ Len(q) \in Nat /\ Len(q) > 0 /\ Head(q) = q[1] /\ Head(q) \in S
      /\ Tail(q) \in Seq(S) /\ Len(Tail(q)) = Len(q) - 1
  OBVIOUS
<1>2. \A i \in 1..(Len(q) - 1) : Tail(q)[i] = q[i + 1]
  OBVIOUS
<1>3. DOMAIN q = 1..Len(q) /\ DOMAIN Tail(q) = 1..(Len(q) - 1)
  BY <1>1
<1>4. 1 \in 1..Len(q) /\ \A i \in 1..(Len(q) - 1) : i + 1 \in 1..Len(q)
  BY <1>1
<1>5. QED
  BY <1>1, <1>2, <1>3, <1>4 DEF Elements

(***************************************************************************)
(* Nothing has been said.                                                  *)
(***************************************************************************)
LEMMA NoElements == Elements(<<>>) = {}
BY DEF Elements

(***************************************************************************)
(* A call that has not begun has heard nothing.                            *)
(***************************************************************************)
LEMMA HeardInit ==
  ASSUME Init
  PROVE  Heard
<1>1. \A s \in Both : stream[s] = Fresh
  BY DEF Init, Both
<1>2. \A s \in Both : stream[s].pipe = <<>> /\ stream[s].kept = <<>>
  BY <1>1 DEF Fresh
<1>3. result.text = <<>>
  BY DEF Init, Nothing
<1>4. run.outcome # "network"
  BY DEF Init
<1>5. QED
  BY <1>2, <1>3, <1>4, NoElements DEF Heard

(***************************************************************************)
(* A step that leaves streams and result alone.                            *)
(***************************************************************************)
LEMMA HeardKept ==
  ASSUME Heard, UNCHANGED <<sep, stream, said, result>>,
         run'.outcome = "network" => run'.pc = "over"
  PROVE  Heard'
BY DEF Heard, Both

(***************************************************************************)
(* Every line that is captured was in the pipe, every line in the pipe was *)
(* said, and a returned text is a capture.                                 *)
(***************************************************************************)
LEMMA HeardStep ==
  ASSUME RunInv, Heard, [Next]_vars
  PROVE  Heard'
<1>1. /\ stream \in [Both -> Pumped] /\ said \in [Both -> Seq(Lines)]
      /\ run \in [pc : {"ready", "spawning", "running", "returned", "stopping", "judging", "over"},
                  attempt : 0..MaxRetries,
                  outcome : {"", "parsed", "done", "quota", "network", "escalated"}]
  BY DEF RunInv, TypeOK, Both
<1>2. \A s \in Both : /\ stream[s].pipe \in Seq(Lines) /\ stream[s].kept \in Seq(Lines)
                      /\ said[s] \in Seq(Lines)
  BY <1>1, PumpedFields
<1>3. Streams \subseteq Both
  BY DEF Streams, Both
<1>4. ASSUME NEW s \in Streams, NEW l \in Lines, Say(s, l) PROVE Heard'
  <2>1. s \in Both /\ UNCHANGED <<sep, run, result>>
    BY <1>3, <1>4 DEF Say
  <2>2. /\ stream'[s].pipe = Append(stream[s].pipe, l) /\ stream'[s].kept = stream[s].kept
        /\ said'[s] = Append(said[s], l)
        /\ \A r \in Both \ {s} : stream'[r] = stream[r] /\ said'[r] = said[r]
    BY <1>1, <1>4, <2>1 DEF Say, Pumped
  <2>3. /\ Elements(stream'[s].pipe) = Elements(stream[s].pipe) \cup {l}
        /\ Elements(said'[s]) = Elements(said[s]) \cup {l}
    BY <1>2, <2>1, <2>2, ElementsAdded
  <2>4. Elements(said["out"]) \subseteq Elements(said'["out"])
    BY <2>2, <2>3 DEF Both
  <2>5. QED
    BY <2>1, <2>2, <2>3, <2>4 DEF Heard
<1>5. ASSUME NEW s \in Streams, Pump(s) PROVE Heard'
  <2>1. s \in Both /\ UNCHANGED <<sep, run, said, result>> /\ stream[s].pipe # <<>>
    BY <1>3, <1>5 DEF Pump
  <2>2. PICK t \in {FALSE, ~sep} : stream' = [stream EXCEPT ![s] = Copied(@, s, t)]
    BY <1>5 DEF Pump
  <2>3. \A r \in Both \ {s} : stream'[r] = stream[r]
    BY <1>1, <2>2
  <2>4. stream'[s] = Copied(stream[s], s, t)
    BY <1>1, <2>1, <2>2
  <2>5. /\ stream'[s].pipe = Tail(stream[s].pipe)
        /\ stream'[s].kept \in {stream[s].kept, Append(stream[s].kept, Head(stream[s].pipe))}
    <3>1. stream[s] \in Pumped
      BY <1>1, <2>1
    <3>2. CASE Len(stream[s].kept) < Cap(s)
      BY <2>4, <3>1, <3>2 DEF Copied, Limited, Pumped
    <3>3. CASE ~(Len(stream[s].kept) < Cap(s))
      BY <2>4, <3>1, <3>3 DEF Copied, Limited, Pumped
    <3>4. QED
      BY <3>2, <3>3
  <2>6. /\ Head(stream[s].pipe) \in Lines /\ Head(stream[s].pipe) \in Elements(stream[s].pipe)
        /\ Elements(stream'[s].pipe) \subseteq Elements(stream[s].pipe)
    BY <1>2, <2>1, <2>5, ElementsTaken
  <2>7. Elements(stream'[s].kept) \subseteq Elements(stream[s].kept) \cup {Head(stream[s].pipe)}
    <3>1. CASE stream'[s].kept = stream[s].kept
      BY <3>1
    <3>2. CASE stream'[s].kept = Append(stream[s].kept, Head(stream[s].pipe))
      BY <1>2, <2>1, <2>6, <3>2, ElementsAdded
    <3>3. QED
      BY <2>5, <3>1, <3>2
  <2>8. QED
    BY <2>1, <2>3, <2>6, <2>7 DEF Heard
<1>6. ASSUME NEW s \in Streams, Tell(s) PROVE Heard'
  <2>1. s \in Both /\ UNCHANGED <<sep, run, said, result>>
    BY <1>3, <1>6 DEF Tell
  <2>2. \A r \in Both : stream'[r].pipe = stream[r].pipe /\ stream'[r].kept = stream[r].kept
    BY <1>1, <1>6, <2>1 DEF Tell, Pumped
  <2>3. QED
    BY <2>1, <2>2 DEF Heard
<1>7. CASE SpawnFails
  <2>1. result'.text = <<>> /\ UNCHANGED <<sep, stream, said>> /\ run'.outcome = run.outcome
        /\ run.pc # "over"
    BY <1>1, <1>7 DEF SpawnFails, Nothing, Output
  <2>2. QED
    BY <2>1, NoElements DEF Heard, Both
<1>8. CASE Return \/ ReturnError
  <2>1. UNCHANGED <<sep, stream, said>> /\ run'.outcome = run.outcome /\ run.pc # "over"
    BY <1>1, <1>8 DEF Return, ReturnError, Waited, Output
  <2>2. ~sep => result'.text = Kept["out"]
    BY <1>8 DEF Return, ReturnError, WithErr
  <2>3. Kept["out"] = stream["out"].kept
    BY DEF Kept
  <2>4. QED
    BY <2>1, <2>2, <2>3 DEF Heard, Both
<1>9. CASE Retry
  <2>1. CASE run' = [run EXCEPT !.pc = "over", !.outcome = "escalated"]
             /\ UNCHANGED <<sep, stream, said, result>>
    BY <1>1, <2>1, HeardKept
  <2>2. CASE run' = [run EXCEPT !.pc = "ready", !.attempt = @ + 1]
             /\ result' = Nothing /\ stream' = [s \in {"out", "err"} |-> Fresh]
    <3>1. run'.outcome # "network"
      BY <1>1, <1>9, <2>2 DEF Retry, Heard
    <3>2. \A s \in Both : stream'[s].pipe = <<>> /\ stream'[s].kept = <<>>
      BY <2>2 DEF Both, Fresh
    <3>3. result'.text = <<>>
      BY <2>2 DEF Nothing
    <3>4. QED
      BY <3>1, <3>2, <3>3, NoElements DEF Heard
  <2>3. QED
    BY <1>9, <2>1, <2>2 DEF Retry, Over, Output
<1>10. CASE Suspend \/ Succeed \/ Parsed
  <2>1. run'.pc = "over" /\ UNCHANGED <<sep, stream, said, result>>
    BY <1>1, <1>10 DEF Suspend, Succeed, Parsed, Over, Output
  <2>2. QED
    BY <2>1, HeardKept
<1>11. CASE Spawn \/ CloseStop \/ Joined \/ Watch
  <2>1. run.pc # "over" /\ run'.outcome = run.outcome /\ UNCHANGED <<sep, stream, said, result>>
    BY <1>1, <1>11 DEF Spawn, CloseStop, Joined, Watch, Output
  <2>2. QED
    BY <2>1, HeardKept DEF Heard
<1>12. CASE \/ ReportStep \/ LetGo \/ (\E c \in {0, 1} : Exit(c)) \/ Deadline \/ Interrupt \/ Killed
            \/ Committer \/ BeatEnds \/ UNCHANGED vars
  <2>1. UNCHANGED <<sep, run, stream, said, result>>
    BY <1>12 DEF ReportStep, LetGo, Exit, Deadline, Interrupt, Killed, Committer, Look, Checkpoint, Committed,
       LastPass, CommitterEnds, BeatEnds, Output, vars
  <2>2. QED
    BY <2>1, HeardKept DEF Heard
<1>13. QED
  BY <1>4, <1>5, <1>6, <1>7, <1>8, <1>9, <1>10, <1>11, <1>12 DEF Next, Child, Call, Judge

(***************************************************************************)
(* An event carries no terminal reason.                                    *)
(***************************************************************************)
LEMMA EventsBare == \A l \in Lines : l.json = "event" => l.reason = ""
<1>1. \A w, e, r : Line("result", w, e, r).json = "result"
  BY DEF Line
<1>2. \A l \in Results : \E w, e, r : l = Line("result", w, e, r)
  BY Zenon DEF Results
<1>3. \A l \in Results : l.json # "event"
  BY <1>1, <1>2
<1>4. \A l \in Lines \ Results : l.reason = ""
  BY Zenon DEF Lines
<1>5. QED
  BY <1>3, <1>4

(***************************************************************************)
(* What makes a call unreachable is a line that is no event of the         *)
(* agent's transcript.                                                     *)
(***************************************************************************)
LEMMA UnreachableSays ==
  ASSUME result.text \in Seq(Lines), Unreachable
  PROVE  \E l \in Elements(result.text) :
           l.json # "event" /\ (l.says = "net" \/ l.reason = "api_error")
<1>1. \A i \in DOMAIN result.text : result.text[i] \in Lines
  OBVIOUS
<1>2. \A l \in Lines : l.json = "event" => l.reason = ""
  BY EventsBare
<1>3. CASE \E e \in Envelopes :
             /\ Envelope(e)
             /\ IF result.text[e].reason # "" THEN result.text[e].reason = "api_error"
                                              ELSE OwnWords(e) = "net"
  <2>1. PICK e \in Envelopes :
             IF result.text[e].reason # "" THEN result.text[e].reason = "api_error"
                                           ELSE OwnWords(e) = "net"
    BY <1>3
  <2>2. e \in DOMAIN result.text
    BY DEF Envelopes
  <2>3. QED
    BY <1>1, <1>2, <2>1, <2>2, Zenon DEF OwnWords, Elements
<1>4. CASE Envelopes = {} /\ Says("net")
  <2>1. PICK i \in DOMAIN result.text : result.text[i].says = "net"
    BY <1>4 DEF Says
  <2>2. result.text[i].json = "none"
    BY <1>4, <2>1 DEF Envelopes
  <2>3. QED
    BY <2>1, <2>2 DEF Elements
<1>5. QED
  BY <1>3, <1>4 DEF Unreachable

(***************************************************************************)
(* The invariant, together with what it is for.                            *)
(***************************************************************************)
LEMMA TranscriptStep ==
  ASSUME RunInv, LastPassInv, Heard, TranscriptNeverSuspends, [Next]_vars
  PROVE  TranscriptNeverSuspends'
<1> DEFINE Blames(l) == l.json # "event" /\ (l.says = "net" \/ l.reason = "api_error")
           Blamed    == \E i \in DOMAIN said["out"] : Blames(said["out"][i])
<1>1. /\ run \in [pc : {"ready", "spawning", "running", "returned", "stopping", "judging", "over"},
                  attempt : 0..MaxRetries,
                  outcome : {"", "parsed", "done", "quota", "network", "escalated"}]
      /\ said \in [Both -> Seq(Lines)] /\ result.text \in Seq(Lines)
      /\ AtRest
  BY DEF RunInv, TypeOK, Both, Returned
<1>2. TranscriptNeverSuspends <=> (run.outcome = "network" => Blamed)
  BY Zenon DEF TranscriptNeverSuspends
<1>3. TranscriptNeverSuspends' <=> (run'.outcome = "network" => Blamed')
  BY Zenon DEF TranscriptNeverSuspends
<1>4. CASE run'.outcome # "network"
  BY <1>3, <1>4
<1>5. CASE run'.outcome = "network" /\ run.outcome = "network" /\ said' = said
  BY <1>2, <1>3, <1>5
<1>6. CASE Suspend /\ Unreachable
  <2>1. PICK l \in Elements(result.text) : Blames(l)
    BY <1>1, <1>6, UnreachableSays
  <2>2. ~sep
    BY <1>6 DEF Suspend, LastPassInv
  <2>3. l \in Elements(said["out"])
    BY <2>1, <2>2 DEF Heard
  <2>4. said' = said
    BY <1>6 DEF Suspend, Over, Output
  <2>5. QED
    BY <1>3, <2>1, <2>3, <2>4 DEF Elements
<1>7. QED
  <2>1. ASSUME NEW s \in Streams, NEW l \in Lines, Say(s, l) PROVE run'.outcome # "network"
    <3>1. run' = run /\ run.pc = "running"
      BY <1>1, <2>1 DEF Say, AtRest
    <3>2. QED
      BY <3>1 DEF Heard
  <2>2. ASSUME Retry PROVE run'.outcome # "network"
    BY <1>1, <2>2 DEF Retry, Over, Heard
  <2>3. ASSUME Suspend, ~Unreachable PROVE run'.outcome # "network"
    BY <1>1, <2>3 DEF Suspend, Over
  <2>4. ASSUME Succeed \/ Parsed PROVE run'.outcome # "network"
    BY <1>1, <2>4 DEF Succeed, Parsed, Over
  <2>5. ASSUME Spawn \/ SpawnFails \/ Return \/ ReturnError \/ CloseStop \/ Joined \/ Watch
        PROVE  run'.outcome = run.outcome /\ said' = said
    BY <1>1, <2>5 DEF Spawn, SpawnFails, Return, ReturnError, CloseStop, Joined, Watch, Output
  <2>6. ASSUME \/ ReportStep \/ LetGo \/ (\E c \in {0, 1} : Exit(c)) \/ Deadline \/ Interrupt \/ Killed
               \/ Committer \/ BeatEnds \/ UNCHANGED vars
        PROVE  run'.outcome = run.outcome /\ said' = said
    BY <2>6 DEF ReportStep, LetGo, Exit, Deadline, Interrupt, Killed, Committer, Look, Checkpoint, Committed,
       LastPass, CommitterEnds, BeatEnds, Output, vars
  <2>7. ASSUME NEW s \in Streams, Pump(s) \/ Tell(s) PROVE run'.outcome = run.outcome /\ said' = said
    BY <2>7 DEF Pump, Tell
  <2>8. QED
    BY <1>4, <1>5, <1>6, <2>1, <2>2, <2>3, <2>4, <2>5, <2>6, <2>7 DEF Next, Child, Call, Judge

(***************************************************************************)
(* OnlyBackendSuspends: a job is suspended for the network only when a     *)
(* line of the CLI itself, not of the agent's work, says so, whatever was  *)
(* cut off and whenever the agent was killed.                              *)
(***************************************************************************)
THEOREM OnlyBackendSuspends == Spec => []TranscriptNeverSuspends
<1>1. Init => Heard /\ LastPassInv /\ TranscriptNeverSuspends
  <2>1. ASSUME Init PROVE run.outcome # "network"
    BY <2>1 DEF Init
  <2>2. QED
    BY <2>1, HeardInit, LastPassInit, Zenon DEF TranscriptNeverSuspends
<1>2. RunInv /\ LastPassInv /\ Heard /\ TranscriptNeverSuspends /\ [Next]_vars
        => LastPassInv' /\ Heard' /\ TranscriptNeverSuspends'
  BY LastPassStep, HeardStep, TranscriptStep
<1>3. QED
  BY <1>1, <1>2, RunInvHolds, PTL DEF Spec
=============================================================================
