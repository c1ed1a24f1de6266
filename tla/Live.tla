-------------------------------- MODULE Live --------------------------------
(***************************************************************************)
(* Live page updates: the hub of internal/server/live.go, the stream       *)
(* handlers it feeds, the pages of app.js at the other end, and the        *)
(* shutdown of server.go and cli/serve.go around them.                     *)
(*                                                                         *)
(* The job table is the number of moves it has made, which is what a       *)
(* snapshot shows and what its digest tells apart; a page is a gate page   *)
(* of one job, drawn at one of these moves.  What the page compares is the *)
(* name of the state the job is in after a move (StateAt), and a job may   *)
(* come back to a state.  The hub, the handlers and the browsers are       *)
(* processes: a step is what each does between two operations on a lock, a *)
(* channel or the connection.                                              *)
(*                                                                         *)
(* A tab here is one connection slot: it opens a new stream when the       *)
(* handler of its old one has returned.  A handler that lingers after its  *)
(* page has gone on is the one of another tab that was cut off.            *)
(***************************************************************************)
EXTENDS Naturals, Sequences, FiniteSets

CONSTANTS
  Tabs,         \* the tabs that are watched
  MaxClients,   \* maxSSEClients
  Depth,        \* clientDepth
  MaxMoves,     \* bound: moves of the table
  StateAt       \* the name of the job's state after each move

ASSUME BoundsAssumption ==
  /\ MaxClients \in Nat /\ Depth \in Nat \ {0} /\ MaxMoves \in Nat \ {0}
ASSUME TabsAssumption == IsFiniteSet(Tabs)

VARIABLES
  table,     \* moves of the job table, 1 at first
  hub,       \* the run goroutine: where it is, its snapshot and its digest
  last,      \* h.last
  clients,   \* h.clients, of the tabs that are watched
  others,    \* how many clients there are besides
  quit,      \* the channel h.quit is closed
  closed,    \* h.closed
  server,    \* runServe and Shutdown
  conn,      \* per tab: the handler of its stream and the channel of its client
  page,      \* per tab: what it shows
  stalled    \* the tabs nothing comes through to

vars == <<table, hub, last, clients, others, quit, closed, server, conn, page, stalled>>

World == <<table, others, stalled>>
Stop  == <<quit, closed, server>>

Nil    == 0                   \* no snapshot: also what a ping carries
Snaps  == 1..MaxMoves
Frames == Snaps \cup {Nil}

ASSUME StateAssumption == DOMAIN StateAt = Snaps

\* pc: asked is a request before its add; none is a page between two streams,
\* failed one that has been refused.  out: the frame that is being written.
Conns ==
  [pc : {"none", "failed", "asked", "building", "writing", "loop", "ending"},
   out : Frames, ch : Seq(Frames), open : BOOLEAN]

\* form: the move the server drew the page at, whose state is in its
\* data-gate-state; seen: what the last snapshot showed; live: the pill; built
\* (history): a stream of this page was opened with a snapshot of its own.
Pages == [form : Snaps, seen : Frames, live : BOOLEAN, built : BOOLEAN]

\* Types; a closed hub has no clients, and no channel holds more than its depth.
TypeOK ==
  /\ table \in Snaps
  /\ hub \in [pc : {"new", "listing", "storing", "sending", "waiting", "gone"},
              snap : Frames, digest : Frames]
  /\ last \in Frames
  /\ clients \subseteq Tabs /\ others \in 0..MaxClients
  /\ quit \in BOOLEAN /\ closed \in BOOLEAN
  /\ server \in {"serving", "draining", "stopping", "stopped"}
  /\ conn \in [Tabs -> Conns] /\ page \in [Tabs -> Pages]
  /\ stalled \subseteq Tabs
  /\ \A t \in Tabs : Len(conn[t].ch) <= Depth
  /\ closed => clients = {}

\* The pages have been drawn, and no stream is open yet.
Init ==
  /\ table = 1
  /\ hub = [pc |-> "new", snap |-> Nil, digest |-> Nil]
  /\ last = Nil /\ clients = {} /\ others = 0
  /\ quit = FALSE /\ closed = FALSE /\ server = "serving"
  /\ conn = [t \in Tabs |-> [pc |-> "none", out |-> Nil, ch |-> <<>>, open |-> FALSE]]
  /\ page = [t \in Tabs |-> [form |-> 1, seen |-> Nil, live |-> TRUE, built |-> FALSE]]
  /\ stalled = {}

-----------------------------------------------------------------------------
(* The hub. *)

\* Whoever cannot take the frame is dropped; its channel is still read to the end.
Broadcast(f) ==
  LET slow == {t \in clients : Len(conn[t].ch) = Depth}
  IN /\ clients' = clients \ slow
     /\ conn' = [t \in Tabs |->
          CASE t \in slow    -> [conn[t] EXCEPT !.open = FALSE]
            [] t \in clients'-> [conn[t] EXCEPT !.ch = Append(@, f)]
            [] OTHER         -> conn[t]]

\* Serve has started it; if stop has been before, once has been done.
Start ==
  /\ hub.pc = "new"
  /\ hub' = [hub EXCEPT !.pc = "listing"]
  /\ UNCHANGED <<World, Stop, last, clients, conn, page>>

\* buildSnapshot; a store that fails leaves everything as it was.
List ==
  /\ hub.pc = "listing"
  /\ hub' = [hub EXCEPT !.pc = "storing", !.snap = table]
  /\ UNCHANGED <<World, Stop, last, clients, conn, page>>

ListFails ==
  /\ hub.pc = "listing"
  /\ hub' = [hub EXCEPT !.pc = "waiting"]
  /\ UNCHANGED <<World, Stop, last, clients, conn, page>>

Told == IF hub.snap # hub.digest THEN "sending" ELSE "waiting"

\* Mutant of Publish.
PublishThenStore ==
  \/ /\ hub.pc = "storing" /\ hub.snap # hub.digest
     /\ Broadcast(hub.snap)
     /\ hub' = [hub EXCEPT !.pc = "sending", !.digest = hub.snap]
     /\ UNCHANGED <<World, Stop, last, page>>
  \/ /\ hub.pc \in {"storing", "sending"}
     /\ hub.pc = "storing" => hub.snap = hub.digest
     /\ last' = hub.snap
     /\ hub' = [hub EXCEPT !.pc = "waiting", !.snap = Nil]
     /\ UNCHANGED <<World, Stop, clients, conn, page>>

\* The rest of read: under one hold of the lock the snapshot is stored, under
\* another it is sent, if the digest has changed.
Publish ==
  \/ /\ hub.pc = "storing"
     /\ last' = hub.snap
     /\ hub' = [pc |-> Told, digest |-> hub.snap,
                snap |-> IF Told = "sending" THEN hub.snap ELSE Nil]
     /\ UNCHANGED <<World, Stop, clients, conn, page>>
  \/ /\ hub.pc = "sending"
     /\ Broadcast(hub.snap)
     /\ hub' = [hub EXCEPT !.pc = "waiting", !.snap = Nil]
     /\ UNCHANGED <<World, Stop, last, page>>

\* The three cases of run's select.
Poll ==
  /\ hub.pc = "waiting"
  /\ hub' = [hub EXCEPT !.pc = "listing"]
  /\ UNCHANGED <<World, Stop, last, clients, conn, page>>

Ping ==
  /\ hub.pc = "waiting"
  /\ Broadcast(Nil)
  /\ UNCHANGED <<World, Stop, hub, last, page>>

Quit ==
  /\ hub.pc = "waiting" /\ quit
  /\ hub' = [hub EXCEPT !.pc = "gone"]
  /\ UNCHANGED <<World, Stop, last, clients, conn, page>>

-----------------------------------------------------------------------------
(* A handler and the page it streams to. *)

Goes(t, pc) == conn' = [conn EXCEPT ![t].pc = pc]

\* EventSource: on load, and again when a stream has ended (not when it was
\* refused: an answer other than 200 ends an EventSource for good).
Ask(t) ==
  /\ conn[t].pc = "none" /\ server = "serving" /\ t \notin stalled
  /\ Goes(t, "asked")
  /\ UNCHANGED <<World, Stop, hub, last, clients, page>>

Full == Cardinality(clients) + others >= MaxClients

\* Mutant of Add.
AddToClosed(t) ==
  /\ conn[t].pc = "asked" /\ ~Full
  /\ clients' = clients \cup {t}
  /\ conn' = [conn EXCEPT ![t] = [pc |-> IF last = Nil THEN "building" ELSE "writing",
                                  out |-> last,
                                  ch |-> <<>>, open |-> TRUE]]
  /\ UNCHANGED <<World, Stop, hub, last, page>>

\* add, with the snapshot to open with.
Add(t) ==
  /\ conn[t].pc = "asked" /\ ~closed /\ ~Full
  /\ clients' = clients \cup {t}
  /\ conn' = [conn EXCEPT ![t] = [pc |-> IF last = Nil THEN "building" ELSE "writing",
                                  out |-> last,
                                  ch |-> <<>>, open |-> TRUE]]
  /\ UNCHANGED <<World, Stop, hub, last, page>>

\* The 503.
Refuse(t) ==
  /\ conn[t].pc = "asked" /\ (closed \/ Full)
  /\ Goes(t, "failed")
  /\ page' = [page EXCEPT ![t].live = FALSE]
  /\ UNCHANGED <<World, Stop, hub, last, clients>>

\* The hub had no snapshot yet: the handler takes one (or the store fails).
Build(t) ==
  /\ conn[t].pc = "building"
  /\ conn' = [conn EXCEPT ![t].pc = "writing", ![t].out = table]
  /\ page' = [page EXCEPT ![t].built = TRUE]
  /\ UNCHANGED <<World, Stop, hub, last, clients>>

\* writeFrame, as far as the page: applySnapshot or the ping, and the pill.
Deliver(t) ==
  /\ conn[t].pc = "writing" /\ t \notin stalled
  /\ conn' = [conn EXCEPT ![t].pc = "loop", ![t].out = Nil]
  /\ page' = [page EXCEPT ![t].live = TRUE,
                          ![t].seen = IF conn[t].out = Nil THEN @ ELSE conn[t].out]
  /\ UNCHANGED <<World, Stop, hub, last, clients>>

Take(t) ==
  /\ conn[t].pc = "loop" /\ conn[t].ch # <<>>
  /\ conn' = [conn EXCEPT ![t].pc = "writing", ![t].out = Head(conn[t].ch),
                          ![t].ch = Tail(@)]
  /\ UNCHANGED <<World, Stop, hub, last, clients, page>>

\* The channel is closed and empty.
Dropped(t) ==
  /\ conn[t].pc = "loop" /\ conn[t].ch = <<>> /\ ~conn[t].open
  /\ Goes(t, "ending")
  /\ UNCHANGED <<World, Stop, hub, last, clients, page>>

\* The browser has gone, the connection has broken, or the store has failed.
Cut(t) ==
  /\ conn[t].pc \in {"building", "writing", "loop"}
  /\ conn' = [conn EXCEPT ![t].pc = "ending", ![t].out = Nil]
  /\ UNCHANGED <<World, Stop, hub, last, clients, page>>

\* Mutant of Remove.
RemoveClosing(t) ==
  /\ conn[t].pc = "ending"
  /\ conn' = [conn EXCEPT ![t].pc = "none", ![t].open = FALSE, ![t].ch = <<>>]
  /\ page' = [page EXCEPT ![t].live = @ /\ t \in stalled]
  /\ UNCHANGED <<World, Stop, hub, last, clients>>

\* The handler's deferred remove; then the response ends, and the page, if it
\* hears of it, has an error event.
Remove(t) ==
  /\ conn[t].pc = "ending"
  /\ clients' = clients \ {t}
  /\ conn' = [conn EXCEPT ![t].pc = "none", ![t].open = FALSE, ![t].ch = <<>>]
  /\ page' = [page EXCEPT ![t].live = @ /\ t \in stalled]
  /\ UNCHANGED <<World, Stop, hub, last>>

Streaming(t) == conn[t].pc \in {"building", "writing", "loop"}

\* LIVE_MS without an event: three pings have not come through.
Quiet(t) ==
  /\ page[t].live
  /\ t \in stalled \/ ~Streaming(t) \/ hub.pc = "gone"
  /\ page' = [page EXCEPT ![t].live = FALSE]
  /\ UNCHANGED <<World, Stop, hub, last, clients, conn>>

\* The page is loaded (again), by the server that renders it.
Load(t) ==
  /\ conn[t].pc \in {"none", "failed"} /\ server = "serving" /\ t \notin stalled
  /\ page' = [page EXCEPT ![t] = [form |-> table, seen |-> Nil, live |-> TRUE, built |-> FALSE]]
  /\ Goes(t, "none")
  /\ UNCHANGED <<World, Stop, hub, last, clients>>

\* Mutant of Enabled.
EnabledWhileLive(t) == page[t].live

\* paintDecisionForms: the buttons of the page's form.  Names of states are
\* compared, and nothing if no snapshot has come.
Enabled(t) ==
  /\ page[t].live
  /\ page[t].seen = Nil \/ StateAt[page[t].seen] = StateAt[page[t].form]

-----------------------------------------------------------------------------
(* Shutdown. *)

CtrlC ==
  /\ server = "serving"
  /\ server' = "draining"
  /\ UNCHANGED <<World, hub, last, clients, quit, closed, conn, page>>

\* The requests in flight have ended, or their grace has.  A hub that was never
\* started will not be.
StopHub ==
  /\ server = "draining"
  /\ server' = "stopping"
  /\ quit' = TRUE
  /\ hub' = IF hub.pc = "new" THEN [hub EXCEPT !.pc = "gone"] ELSE hub
  /\ UNCHANGED <<World, last, clients, closed, conn, page>>

CloseAll ==
  /\ server = "stopping" /\ hub.pc = "gone"
  /\ server' = "stopped"
  /\ closed' = TRUE
  /\ clients' = {}
  /\ conn' = [t \in Tabs |-> IF t \in clients THEN [conn[t] EXCEPT !.open = FALSE] ELSE conn[t]]
  /\ UNCHANGED <<World, hub, last, quit, page>>

-----------------------------------------------------------------------------
(* The engine, the other tabs and the network. *)

Moves ==
  /\ table < MaxMoves
  /\ table' = table + 1
  /\ UNCHANGED <<Stop, hub, last, clients, others, conn, page, stalled>>

Others ==
  /\ \/ ~closed /\ ~Full /\ others' = others + 1
     \/ others > 0 /\ others' = others - 1
  /\ UNCHANGED <<Stop, table, hub, last, clients, conn, page, stalled>>

Network(t) ==
  /\ stalled' = IF t \in stalled THEN stalled \ {t} ELSE stalled \cup {t}
  /\ UNCHANGED <<Stop, table, hub, last, clients, others, conn, page>>

-----------------------------------------------------------------------------
HubStep == Start \/ List \/ ListFails \/ Publish \/ Poll \/ Ping \/ Quit

Handler(t) == Add(t) \/ Refuse(t) \/ Build(t) \/ Deliver(t) \/ Take(t) \/ Dropped(t) \/ Remove(t)

Browser(t) == Ask(t) \/ Cut(t) \/ Quiet(t) \/ Load(t) \/ Network(t)

Shutdown == CtrlC \/ StopHub \/ CloseAll

Next ==
  \/ HubStep \/ Shutdown \/ Moves \/ Others
  \/ \E t \in Tabs : Handler(t) \/ Browser(t)

\* The goroutines run and the tickers tick; a select that is offered two cases
\* again and again takes both; a store that is read again and again is read in
\* the end.  Time passes for a page, and a browser reconnects.
Fairness ==
  /\ WF_vars(Start) /\ SF_vars(List) /\ WF_vars(List \/ ListFails)
  /\ WF_vars(Publish) /\ SF_vars(Poll) /\ SF_vars(Quit)
  /\ WF_vars(StopHub) /\ WF_vars(CloseAll)
  /\ \A t \in Tabs : WF_vars(Handler(t)) /\ WF_vars(Ask(t)) /\ SF_vars(Quiet(t))

Spec == Init /\ [][Next]_vars /\ Fairness

-----------------------------------------------------------------------------
(* Properties. *)

(***************************************************************************)
(* A channel is open exactly while its client is in the map: the hub never *)
(* sends on a closed channel and nobody closes one twice (live.go, remove: *)
(* "one rule for the whole file").                                         *)
(***************************************************************************)
Ownership == \A t \in Tabs : t \in clients <=> conn[t].open

\* The move a page shows: the server's, until a snapshot has repainted it.
Shows(t) == IF page[t].seen = Nil THEN page[t].form ELSE page[t].seen

(***************************************************************************)
(* A page that a snapshot has painted is never taken back to an older      *)
(* table, over drops, reconnections and reloads: read stores the snapshot  *)
(* before it sends it.  Two frames are excused, and do take a page back:   *)
(* the first one after a load, which is the hub's last snapshot and as old *)
(* as the hub's last look at the store (live.go:223), while the server     *)
(* drew the page from the store itself; and those of a stream that was     *)
(* opened before the hub had a snapshot, whose handler read one of its own.*)
(***************************************************************************)
ShownNeverGoesBack ==
  [][\A t \in Tabs :
       Shows(t)' < Shows(t) => page[t].seen = Nil \/ page[t].built]_vars

(***************************************************************************)
(* Once the table is at rest, every page with a stream that stays up and a *)
(* connection that works comes to show it, whoever else is slow, dropped   *)
(* or refused, and whenever it opened its stream between the hub's store   *)
(* and its send.                                                           *)
(***************************************************************************)
Converges ==
  \A t \in Tabs :
    <>[](Streaming(t) /\ t \notin stalled /\ ~quit) => <>[](page[t].seen = table)

(***************************************************************************)
(* A page does not go on offering the decision of a state that the job is  *)
(* not in, whether its stream works, was dropped or refused, has stalled,  *)
(* or ended with the server (server-spec.md 9.3).                          *)
(***************************************************************************)
StaleFormDisabled ==
  \A t \in Tabs : <>[](Enabled(t) => StateAt[page[t].form] = StateAt[table])

(***************************************************************************)
(* Shutdown leaves no stream behind, also not one that was asked for while *)
(* it went on; only a handler in the middle of a write to a stalled tab is *)
(* stuck with it.                                                          *)
(***************************************************************************)
StreamsEnd ==
  \A t \in Tabs : closed ~> (t \in stalled \/ conn[t].pc \in {"none", "failed"})
=============================================================================
