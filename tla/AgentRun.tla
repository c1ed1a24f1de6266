------------------------------ MODULE AgentRun ------------------------------
(***************************************************************************)
(* One run of a child process: execx.RunCapture with the goroutines that   *)
(* pump its output, runAgent's attempts around it with the watcher's two   *)
(* goroutines (progress.go), and what agent.go makes of the output.        *)
(*                                                                         *)
(* A call is an agent's (one stream, watched, judged and tried again) or   *)
(* git's (stderr apart, no watcher, its output parsed).  Output is a       *)
(* sequence of lines; of a line the model keeps what the classification    *)
(* asks of it.  Which line is cut by a limit, how lines are split and      *)
(* condensed for the console, and a log that cannot be written to, is left *)
(* out.                                                                    *)
(*                                                                         *)
(* The child may start processes of its own that inherit its output (under *)
(* `cmd /c' the CLI itself is one): they write to the pipe, outlive the    *)
(* child, and are not killed with it.                                      *)
(***************************************************************************)
EXTENDS Integers, Sequences

CONSTANTS
  MaxRetries,    \* limits.max_agent_retries
  OutCap,        \* lines kept of stdout: maxBytes
  ErrCap,        \* lines kept of a stderr that is apart
  PipeDepth,     \* lines the pipe between child and engine holds
  MaxSaid,       \* bound: lines written to a stream in an attempt
  MaxSteps,      \* bound: plan steps reported
  Spoken         \* bound: the lines an agent's process writes

VARIABLES
  sep,         \* StderrSeparate
  run,         \* the calling goroutine: where it is, its attempt, its outcome
  child,       \* the process: is it alive, its exit code, and, when it is gone,
               \* whether a process that it started holds its output open
  ctx,         \* the call's context
  interrupted, \* the engine's context has been cancelled
  stream,      \* per stream: the pipe, what is kept, whether lines were dropped
  said,        \* history: per stream, all that the child wrote
  result,      \* what RunCapture has returned
  mu,          \* a checkpoint holds jobCtx.mu
  beat,        \* the heartbeat goroutine runs
  committer,   \* the checkpoint goroutine
  steps        \* complete lines in progress.jsonl

vars == <<sep, run, child, ctx, interrupted, stream, said, result, mu, beat, committer, steps>>

Watcher == <<mu, beat, committer>>
Output  == <<stream, said, steps>>

\* json: prose, an event of a streaming backend, or the CLI's own envelope;
\* says: the patterns a line (of an envelope, its message) matches; err and
\* reason: the envelope's is_error and terminal_reason.
Line(json, says, err, reason) ==
  [json |-> json, says |-> says, err |-> err, reason |-> reason]

Words   == {"", "quota", "net"}
Reasons == {"", "api_error", "other"}

Results ==
  {Line("result", "", FALSE, "other"), Line("result", "", TRUE, "api_error"),
   Line("result", "net", TRUE, ""), Line("result", "net", TRUE, "other"),
   Line("result", "quota", TRUE, "")}

Lines ==
  [json : {"none", "event"}, says : Words, err : {FALSE}, reason : {""}] \cup Results

ASSUME BoundsAssumption ==
  /\ MaxRetries \in Nat /\ MaxSaid \in Nat /\ MaxSteps \in Nat
  /\ OutCap \in Nat /\ ErrCap \in Nat /\ PipeDepth \in Nat \ {0}
ASSUME SpokenAssumption == Spoken \subseteq Lines

\* What git writes is never classified.
Plain == Line("none", "", FALSE, "")

Streams == IF sep THEN {"out", "err"} ELSE {"out"}
Codes   == {-1, 0, 1}

NoChild == [alive |-> FALSE, code |-> 0, held |-> FALSE]
Nothing == [text |-> <<>>, truncated |-> FALSE, timedOut |-> FALSE, code |-> 0, err |-> FALSE]
Fresh   == [pipe |-> <<>>, kept |-> <<>>, over |-> FALSE, telling |-> FALSE]

Returned == [text : Seq(Lines), truncated : BOOLEAN, timedOut : BOOLEAN, code : Codes, err : BOOLEAN]
Pumped  == [pipe : Seq(Lines), kept : Seq(Lines), over : BOOLEAN, telling : BOOLEAN]

\* Types; a pipe, a capture and an exchange file within their limits.
TypeOK ==
  /\ sep \in BOOLEAN /\ interrupted \in BOOLEAN /\ mu \in BOOLEAN /\ beat \in BOOLEAN
  /\ run \in [pc : {"ready", "spawning", "running", "returned", "stopping", "judging", "over"},
              attempt : 0..MaxRetries,
              outcome : {"", "parsed", "done", "quota", "network", "escalated"}]
  /\ child \in [alive : BOOLEAN, code : Codes, held : BOOLEAN]
  /\ ctx \in {"live", "deadline", "cancelled"}
  /\ stream \in [{"out", "err"} -> Pumped]
  /\ said \in [{"out", "err"} -> Seq(Lines)]
  /\ result \in Returned
  /\ committer \in [pc : {"off", "starting", "looping", "last"}, seen : 0..MaxSteps]
  /\ steps \in 0..MaxSteps
  /\ \A s \in {"out", "err"} : Len(stream[s].pipe) <= PipeDepth
  /\ Len(stream["out"].kept) <= OutCap /\ Len(stream["err"].kept) <= ErrCap

Init ==
  /\ sep \in BOOLEAN
  /\ run = [pc |-> IF sep THEN "spawning" ELSE "ready", attempt |-> 0, outcome |-> ""]
  /\ child = NoChild
  /\ ctx = "live" /\ interrupted = FALSE
  /\ stream = [s \in {"out", "err"} |-> Fresh]
  /\ said = [s \in {"out", "err"} |-> <<>>]
  /\ result = Nothing
  /\ mu = FALSE /\ beat = FALSE
  /\ committer = [pc |-> "off", seen |-> 0]
  /\ steps = 0

-----------------------------------------------------------------------------
(* The child. *)

Writing == child.alive \/ child.held

\* It blocks when the pipe is full.
Say(s, l) ==
  /\ Writing
  /\ Len(stream[s].pipe) < PipeDepth /\ Len(said[s]) < MaxSaid
  /\ l \in (IF sep THEN {Plain} ELSE Spoken)
  /\ stream' = [stream EXCEPT ![s].pipe = Append(@, l)]
  /\ said' = [said EXCEPT ![s] = Append(@, l)]
  /\ UNCHANGED <<sep, run, child, ctx, interrupted, result, Watcher, steps>>

ReportStep ==
  /\ Writing /\ ~sep
  /\ steps < MaxSteps
  /\ steps' = steps + 1
  /\ UNCHANGED <<sep, run, child, ctx, interrupted, stream, said, result, Watcher>>

\* The child is gone; what it has started may have its output open.
Gone(code) ==
  \E h \in BOOLEAN : child' = [alive |-> FALSE, code |-> code, held |-> h]

Exit(code) ==
  /\ child.alive
  /\ Gone(code)
  /\ UNCHANGED <<sep, run, ctx, interrupted, Output, result, Watcher>>

LetGo ==
  /\ child.held
  /\ child' = [child EXCEPT !.held = FALSE]
  /\ UNCHANGED <<sep, run, ctx, interrupted, Output, result, Watcher>>

-----------------------------------------------------------------------------
(* RunCapture. *)

Spawn ==
  /\ run.pc = "spawning" /\ ~interrupted
  /\ run' = [run EXCEPT !.pc = "running"]
  /\ child' = [NoChild EXCEPT !.alive = TRUE]
  /\ UNCHANGED <<sep, ctx, interrupted, Output, result, Watcher>>

\* No binary, no log file, or a context that is over already.
SpawnFails ==
  /\ run.pc = "spawning"
  /\ run' = [run EXCEPT !.pc = "returned"]
  /\ result' = [Nothing EXCEPT !.code = -1, !.err = TRUE]
  /\ UNCHANGED <<sep, child, ctx, interrupted, Output, Watcher>>

\* The deadline does not ask whether the child has exited, only whether
\* cmd.Run has returned.
Deadline ==
  /\ run.pc = "running" /\ ctx = "live"
  /\ ctx' = "deadline"
  /\ UNCHANGED <<sep, run, child, interrupted, Output, result, Watcher>>

\* Ctrl-C.
Interrupt ==
  /\ ~interrupted
  /\ interrupted' = TRUE
  /\ ctx' = IF ctx = "live" THEN "cancelled" ELSE ctx
  /\ UNCHANGED <<sep, run, child, Output, result, Watcher>>

\* Mutant of Killed.
KilledOnInterrupt ==
  /\ child.alive /\ ctx = "cancelled"
  /\ Gone(-1)
  /\ UNCHANGED <<sep, run, ctx, interrupted, Output, result, Watcher>>

\* CommandContext kills the process it has started, and no other.
Killed ==
  /\ child.alive /\ ctx # "live"
  /\ Gone(-1)
  /\ UNCHANGED <<sep, run, ctx, interrupted, Output, result, Watcher>>

Cap(s) == IF s = "out" THEN OutCap ELSE ErrCap

\* limitedWriter: what does not fit is dropped, and only over says so.
Limited(st, s, l) ==
  IF Len(st.kept) < Cap(s) THEN [st EXCEPT !.kept = Append(@, l)]
                           ELSE [st EXCEPT !.over = TRUE]

Copied(st, s, t) == [Limited(st, s, Head(st.pipe)) EXCEPT !.pipe = Tail(@), !.telling = t]

\* A pump copies a line; onProgress stores an event of an agent's line now and
\* then, for which it needs the job's lock.
Pump(s) ==
  /\ stream[s].pipe # <<>> /\ ~stream[s].telling
  /\ \E t \in {FALSE, ~sep} : stream' = [stream EXCEPT ![s] = Copied(@, s, t)]
  /\ UNCHANGED <<sep, run, child, ctx, interrupted, said, result, Watcher, steps>>

Tell(s) ==
  /\ stream[s].telling /\ ~mu
  /\ stream' = [stream EXCEPT ![s].telling = FALSE]
  /\ UNCHANGED <<sep, run, child, ctx, interrupted, said, result, Watcher, steps>>

Drained == \A s \in {"out", "err"} : stream[s].pipe = <<>> /\ ~stream[s].telling

\* withErr: a call that failed gives its stderr to the caller as well.
WithErr(of) == IF sep THEN of["out"] \o of["err"] ELSE of["out"]

Failed   == ctx = "deadline" \/ child.code # 0
Kept     == [s \in {"out", "err"} |-> stream[s].kept]

\* cmd.Run is over when the child is and every pump is, and a pump is when no
\* process has the other end of its pipe: there is no WaitDelay.
Waited == run.pc = "running" /\ ~Writing /\ Drained

\* Mutant of Return.
ReturnWithEitherFlag ==
  /\ Waited
  /\ result' = [text |-> IF Failed THEN WithErr(Kept) ELSE Kept["out"],
                truncated |-> \E s \in Streams : stream[s].over,
                timedOut |-> ctx = "deadline",
                code |-> IF ctx = "deadline" THEN -1 ELSE child.code,
                err |-> FALSE]
  /\ run' = [run EXCEPT !.pc = "returned"]
  /\ UNCHANGED <<sep, child, ctx, interrupted, Output, Watcher>>

Return ==
  /\ Waited
  /\ result' = [text |-> IF Failed THEN WithErr(Kept) ELSE Kept["out"],
                truncated |-> stream["out"].over \/ (Failed /\ sep /\ stream["err"].over),
                timedOut |-> ctx = "deadline",
                code |-> IF ctx = "deadline" THEN -1 ELSE child.code,
                err |-> FALSE]
  /\ run' = [run EXCEPT !.pc = "returned"]
  /\ UNCHANGED <<sep, child, ctx, interrupted, Output, Watcher>>

\* cmd.Run fails although the child has exited with 0: it was cancelled as it
\* exited, or its input could not be written.
ReturnError ==
  /\ Waited /\ ~Failed
  /\ ctx = "cancelled" \/ ~sep
  /\ result' = [text |-> WithErr(Kept),
                truncated |-> stream["out"].over \/ (sep /\ stream["err"].over),
                timedOut |-> FALSE, code |-> 0, err |-> TRUE]
  /\ run' = [run EXCEPT !.pc = "returned"]
  /\ UNCHANGED <<sep, child, ctx, interrupted, Output, Watcher>>

-----------------------------------------------------------------------------
(* The watcher. *)

Watch ==
  /\ run.pc = "ready"
  /\ run' = [run EXCEPT !.pc = "spawning"]
  /\ beat' = TRUE
  /\ committer' = [committer EXCEPT !.pc = "starting"]
  /\ UNCHANGED <<sep, child, ctx, interrupted, Output, result, mu>>

\* heartbeat, in between its ticks.
BeatEnds ==
  /\ beat /\ (run.pc = "stopping" \/ interrupted)
  /\ beat' = FALSE
  /\ UNCHANGED <<sep, run, child, ctx, interrupted, Output, result, mu, committer>>

\* countCompleteLines: what an earlier attempt reported is not looked at again.
Look ==
  /\ committer.pc = "starting"
  /\ committer' = [pc |-> "looping", seen |-> steps]
  /\ UNCHANGED <<sep, run, child, ctx, interrupted, Output, result, mu, beat>>

\* drainSteps takes the next line, and checkpoint the job's lock for as long as
\* git works.
Checkpoint ==
  /\ committer.pc \in {"looping", "last"} /\ committer.seen < steps /\ ~mu
  /\ mu' = TRUE
  /\ committer' = [committer EXCEPT !.seen = @ + 1]
  /\ UNCHANGED <<sep, run, child, ctx, interrupted, Output, result, beat>>

Committed ==
  /\ mu
  /\ mu' = FALSE
  /\ UNCHANGED <<sep, run, child, ctx, interrupted, Output, result, beat, committer>>

\* Mutant of LastPass.
NoLastPass ==
  /\ committer.pc = "looping" /\ run.pc = "stopping" /\ ~mu
  /\ committer' = [committer EXCEPT !.pc = "off"]
  /\ UNCHANGED <<sep, run, child, ctx, interrupted, Output, result, mu, beat>>

LastPass ==
  /\ committer.pc = "looping" /\ run.pc = "stopping" /\ ~mu
  /\ committer' = [committer EXCEPT !.pc = "last"]
  /\ UNCHANGED <<sep, run, child, ctx, interrupted, Output, result, mu, beat>>

CommitterEnds ==
  /\ \/ committer.pc = "looping" /\ interrupted
     \/ committer.pc = "last" /\ committer.seen = steps
  /\ ~mu
  /\ committer' = [committer EXCEPT !.pc = "off"]
  /\ UNCHANGED <<sep, run, child, ctx, interrupted, Output, result, mu, beat>>

\* stopWait: close, and Wait.
CloseStop ==
  /\ run.pc = "returned" /\ ~sep
  /\ run' = [run EXCEPT !.pc = "stopping"]
  /\ UNCHANGED <<sep, child, ctx, interrupted, Output, result, Watcher>>

\* Mutant of Joined.
JoinedAtOnce ==
  /\ run.pc = "stopping"
  /\ run' = [run EXCEPT !.pc = "judging"]
  /\ UNCHANGED <<sep, child, ctx, interrupted, Output, result, Watcher>>

Joined ==
  /\ run.pc = "stopping" /\ ~beat /\ committer.pc = "off"
  /\ run' = [run EXCEPT !.pc = "judging"]
  /\ UNCHANGED <<sep, child, ctx, interrupted, Output, result, Watcher>>

-----------------------------------------------------------------------------
(* What agent.go and runAgent make of it. *)

Says(word) == \E i \in DOMAIN result.text : result.text[i].says = word

\* parseEnvelope: the last line that is JSON, whatever kind of line it is.
Envelopes == {i \in DOMAIN result.text : result.text[i].json # "none"}
Envelope(e) == e \in Envelopes /\ \A i \in Envelopes : i <= e

\* An event has no message of its own that the patterns are matched against.
OwnWords(e) ==
  IF result.text[e].json = "result" THEN result.text[e].says ELSE ""

\* Exit 0 with an envelope that says is_error is an exit 1.
BackendFailed ==
  \/ result.timedOut \/ result.code # 0
  \/ \E e \in Envelopes : Envelope(e) /\ result.text[e].err

\* Mutant of Unreachable.
UnreachableByTranscript == BackendFailed /\ ~Says("quota") /\ Says("net")

\* classifyTransport.
Unreachable ==
  /\ BackendFailed /\ ~Says("quota")
  /\ \/ \E e \in Envelopes :
          /\ Envelope(e)
          /\ IF result.text[e].reason # "" THEN result.text[e].reason = "api_error"
                                           ELSE OwnWords(e) = "net"
     \/ Envelopes = {} /\ Says("net")

Over(outcome) ==
  /\ run' = [run EXCEPT !.pc = "over", !.outcome = outcome]
  /\ UNCHANGED <<sep, child, ctx, interrupted, Output, result, Watcher>>

Suspend ==
  /\ run.pc = "judging" /\ ~result.err
  /\ \/ Unreachable /\ Over("network")
     \/ ~Unreachable /\ Says("quota") /\ Over("quota")

\* May the attempt be a success?  Then its post-condition, and the model it
\* ran, decide; every attempt has a call of its own.
Judged == ~result.err /\ ~Unreachable /\ ~Says("quota") /\ ~result.timedOut

Succeed == run.pc = "judging" /\ Judged /\ Over("done")

Retry ==
  /\ run.pc = "judging"
  /\ Judged \/ result.err \/ (result.timedOut /\ ~Unreachable /\ ~Says("quota"))
  /\ IF run.attempt < MaxRetries
       THEN /\ run' = [run EXCEPT !.pc = "ready", !.attempt = @ + 1]
            /\ child' = NoChild /\ ctx' = "live" /\ result' = Nothing
            /\ stream' = [s \in {"out", "err"} |-> Fresh]
            /\ said' = [s \in {"out", "err"} |-> <<>>]
            /\ UNCHANGED <<sep, interrupted, steps, Watcher>>
       ELSE Over("escalated")

\* git's output goes to its caller.
Parsed == run.pc = "returned" /\ sep /\ Over("parsed")

-----------------------------------------------------------------------------
Child == ReportStep \/ LetGo \/ (\E s \in Streams, l \in Lines : Say(s, l)) \/ \E c \in {0, 1} : Exit(c)

Call == Spawn \/ SpawnFails \/ Return \/ ReturnError \/ CloseStop \/ Joined \/ Watch

Committer == Look \/ Checkpoint \/ Committed \/ LastPass \/ CommitterEnds

Judge == Suspend \/ Succeed \/ Retry \/ Parsed

Next ==
  \/ Child \/ Call \/ Committer \/ Judge
  \/ Deadline \/ Interrupt \/ Killed \/ BeatEnds
  \/ \E s \in Streams : Pump(s) \/ Tell(s)

\* The goroutines run, git ends (it has a deadline of its own), deadlines come,
\* and a kill kills; the child, and what it has started, is not trusted with
\* anything.
Fairness ==
  /\ WF_vars(Call) /\ WF_vars(Judge) /\ WF_vars(Committer)
  /\ WF_vars(Deadline) /\ WF_vars(Killed) /\ WF_vars(BeatEnds)
  /\ \A s \in {"out", "err"} : WF_vars(Pump(s)) /\ SF_vars(Tell(s))

Spec == Init /\ [][Next]_vars /\ Fairness

-----------------------------------------------------------------------------
(* Properties. *)

Whole == IF Failed \/ result.err THEN WithErr(said) ELSE said["out"]

(***************************************************************************)
(* Truncated says of the string a call returned whether it is all that the *)
(* child wrote to the streams the string stands for (execx.go, Result): on *)
(* every path by which RunCapture returns, for every order in which two    *)
(* pumps, the deadline and a cancellation come to it.                      *)
(***************************************************************************)
CaptureIsHonest ==
  run.pc = "returned" => (result.truncated <=> result.text # Whole)

(***************************************************************************)
(* Before runAgent goes on, all that worked for the attempt is done: the   *)
(* child, every process that holds its output, the output, the heartbeat   *)
(* and the checkpoints.  The next attempt and the post-condition have the  *)
(* worktree and the row to themselves.  (Of a process that has redirected  *)
(* its output nothing is said: nobody waits for it.)                       *)
(***************************************************************************)
Quiescent ==
  run.pc \in {"ready", "judging", "over"} =>
    ~Writing /\ Drained /\ ~beat /\ committer.pc = "off" /\ ~mu

(***************************************************************************)
(* Every step the agent reported while its checkpoints were looked for is  *)
(* taken up before the attempt is judged, the one it reported as it exited *)
(* included (progress.go: "one last pass").                                *)
(***************************************************************************)
StepsTakenUp ==
  (run.pc = "judging" /\ ~interrupted) => committer.seen = steps

(***************************************************************************)
(* What a streaming agent says in the course of its work never suspends    *)
(* the job for the network, also not when the envelope was cut off or the  *)
(* agent was killed (agent.go, classifyTransport: "suspending a job        *)
(* because the agent used the word would be worse than the bug").          *)
(***************************************************************************)
TranscriptNeverSuspends ==
  run.outcome = "network" =>
    \E i \in DOMAIN said["out"] :
      LET l == said["out"][i]
      IN l.json # "event" /\ (l.says = "net" \/ l.reason = "api_error")

\* A process that the child started keeps its output open for good.
HeldForGood == <>[]child.held

(***************************************************************************)
(* Every call returns and every state's attempts come to an end, whatever  *)
(* the child does: it may hang, flood the pipe, or report steps while the  *)
(* pump and the checkpoints wait for one lock.  Only a process it has left *)
(* behind with its output open keeps a call: the deadline comes and the    *)
(* child is killed, but cmd.Run waits for the end of the pipe.             *)
(***************************************************************************)
Ends == <>(run.pc = "over") \/ HeldForGood
=============================================================================
