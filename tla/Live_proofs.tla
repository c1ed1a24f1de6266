----------------------------- MODULE Live_proofs -----------------------------
(***************************************************************************)
(* What holds of the hub and its streams for any tabs, any limits and any  *)
(* number of moves: types, the ownership of the channels, and what may     *)
(* take a page back to an older table.                                     *)
(***************************************************************************)
EXTENDS Live, FiniteSetTheorems, TLAPS

Idle == {"none", "failed", "asked"}

Busy == {"building", "writing", "loop", "ending"}

Registered == \A t \in clients : conn[t].pc \in Busy

\* A stream c under its page p, if the hub's last snapshot is l: what comes is
\* never older than what has come, and l is the newest.
Orderly(c, p, l) ==
  /\ c.pc \in Idle => c.ch = <<>>
  /\ c.pc # "writing" => c.out = Nil
  /\ ~p.built =>
       /\ p.seen <= l /\ c.out <= l
       /\ c.out # Nil => p.seen <= c.out
       /\ \A i \in 1..Len(c.ch) :
            /\ c.ch[i] <= l
            /\ c.ch[i] # Nil => p.seen <= c.ch[i] /\ c.out <= c.ch[i]
            /\ \A j \in 1..Len(c.ch) : i < j /\ c.ch[j] # Nil => c.ch[i] <= c.ch[j]

\* What the hub has read, stored and is about to send.
HubOrder ==
  /\ last <= table
  /\ hub.pc = "storing" => last <= hub.snap /\ hub.snap <= table
  /\ hub.pc = "sending" => hub.snap = last

Ordered == HubOrder /\ \A t \in Tabs : Orderly(conn[t], page[t], last)

LiveInv == TypeOK /\ Ownership /\ Registered /\ Ordered

-----------------------------------------------------------------------------
(***************************************************************************)
(* The fields of a record of Conns, Pages or the hub.                      *)
(***************************************************************************)
LEMMA ConnFields ==
  ASSUME NEW c \in Conns
  PROVE  /\ c.pc \in Idle \cup Busy /\ c.out \in Frames
         /\ c.ch \in Seq(Frames) /\ c.open \in BOOLEAN
BY DEF Conns, Idle, Busy

(***************************************************************************)
(* A record of Conns is what its fields say.                               *)
(***************************************************************************)
LEMMA ConnMade ==
  ASSUME NEW pc \in Idle \cup Busy, NEW out \in Frames, NEW ch \in Seq(Frames), NEW open \in BOOLEAN
  PROVE  [pc |-> pc, out |-> out, ch |-> ch, open |-> open] \in Conns
BY DEF Conns, Idle, Busy

(***************************************************************************)
(* What Broadcast does to one stream: it is left alone, closed, or sent    *)
(* the frame, and then it was registered and had room.                     *)
(***************************************************************************)
LEMMA BroadcastFacts ==
  ASSUME NEW f \in Frames, TypeOK, Broadcast(f)
  PROVE  /\ clients' \subseteq clients
         /\ conn' \in [Tabs -> Conns]
         /\ \A t \in Tabs : Len(conn'[t].ch) <= Depth
         /\ \A t \in Tabs :
              \/ conn'[t] = conn[t] /\ t \notin clients
              \/ /\ t \in clients \ clients'
                 /\ conn'[t] = [conn[t] EXCEPT !.open = FALSE]
              \/ /\ t \in clients'
                 /\ conn'[t] = [conn[t] EXCEPT !.ch = Append(@, f)]
<1> DEFINE slow == {t \in clients : Len(conn[t].ch) = Depth}
<1>1. /\ clients' = clients \ slow
      /\ conn' = [t \in Tabs |->
           CASE t \in slow     -> [conn[t] EXCEPT !.open = FALSE]
             [] t \in clients' -> [conn[t] EXCEPT !.ch = Append(@, f)]
             [] OTHER          -> conn[t]]
  BY DEF Broadcast
<1>2. ASSUME NEW t \in Tabs
      PROVE  /\ conn'[t] \in Conns /\ Len(conn'[t].ch) <= Depth
             /\ \/ conn'[t] = conn[t] /\ t \notin clients
                \/ /\ t \in clients \ clients'
                   /\ conn'[t] = [conn[t] EXCEPT !.open = FALSE]
                \/ /\ t \in clients'
                   /\ conn'[t] = [conn[t] EXCEPT !.ch = Append(@, f)]
  <2>1. /\ conn[t] \in Conns /\ Len(conn[t].ch) <= Depth
        /\ conn[t].ch \in Seq(Frames) /\ Len(conn[t].ch) \in Nat /\ Depth \in Nat
    BY ConnFields, BoundsAssumption DEF TypeOK
  <2>2. CASE t \in slow
    <3>1. conn'[t] = [conn[t] EXCEPT !.open = FALSE] /\ t \notin clients'
      BY <1>1, <2>2
    <3>2. conn'[t] \in Conns /\ conn'[t].ch = conn[t].ch
      BY <2>1, <3>1 DEF Conns
    <3>3. QED
      BY <2>1, <2>2, <3>1, <3>2
  <2>3. CASE t \in clients'
    <3>1. conn'[t] = [conn[t] EXCEPT !.ch = Append(@, f)] /\ Len(conn[t].ch) # Depth
      BY <1>1, <2>3
    <3>2. /\ Append(conn[t].ch, f) \in Seq(Frames)
          /\ Len(Append(conn[t].ch, f)) = Len(conn[t].ch) + 1
      BY <2>1
    <3>3. conn'[t] \in Conns /\ conn'[t].ch = Append(conn[t].ch, f)
      BY <2>1, <3>1, <3>2 DEF Conns
    <3>4. QED
      BY <2>1, <2>3, <3>1, <3>2, <3>3
  <2>4. CASE t \notin slow /\ t \notin clients'
    BY <1>1, <2>1, <2>4
  <2>5. QED
    BY <2>2, <2>3, <2>4
<1>3. conn' = [t \in Tabs |-> conn'[t]]
  BY <1>1
<1>4. QED
  BY <1>1, <1>2, <1>3

(***************************************************************************)
(* A frame of the hub keeps a stream in order: it is a ping, or the last   *)
(* snapshot there is.                                                      *)
(***************************************************************************)
LEMMA OrderlySent ==
  ASSUME NEW c \in Conns, NEW p \in Pages, NEW l \in Frames, NEW f \in {Nil, l},
         NEW d \in Conns, d = [c EXCEPT !.ch = Append(@, f)],
         c.pc \in Busy, Orderly(c, p, l)
  PROVE  Orderly(d, p, l)
<1>1. /\ c.ch \in Seq(Frames) /\ c.out \in Frames /\ p.seen \in Frames /\ p.built \in BOOLEAN
      /\ Frames \subseteq Nat /\ f \in Frames /\ Len(c.ch) \in Nat
  BY ConnFields, BoundsAssumption DEF Pages, Frames, Snaps, Nil
<1>2. d.pc = c.pc /\ d.out = c.out /\ d.ch = Append(c.ch, f)
  BY DEF Conns
<1>3. /\ Len(d.ch) = Len(c.ch) + 1
      /\ \A i \in 1..Len(c.ch) : d.ch[i] = c.ch[i] /\ d.ch[i] \in Frames
      /\ d.ch[Len(c.ch) + 1] = f
  BY <1>1, <1>2
<1>4. d.pc \notin Idle
  BY <1>2 DEF Busy, Idle
<1>5. ASSUME ~p.built, NEW i \in 1..Len(d.ch)
      PROVE  /\ d.ch[i] <= l
             /\ d.ch[i] # Nil => p.seen <= d.ch[i] /\ d.out <= d.ch[i]
             /\ \A j \in 1..Len(d.ch) : i < j /\ d.ch[j] # Nil => d.ch[i] <= d.ch[j]
  <2>1. /\ p.seen <= l /\ c.out <= l
        /\ \A k \in 1..Len(c.ch) :
             /\ c.ch[k] <= l
             /\ c.ch[k] # Nil => p.seen <= c.ch[k] /\ c.out <= c.ch[k]
             /\ \A j \in 1..Len(c.ch) : k < j /\ c.ch[j] # Nil => c.ch[k] <= c.ch[j]
    BY <1>5 DEF Orderly
  <2>2. i \in 1..Len(c.ch) \/ i = Len(c.ch) + 1
    BY <1>1, <1>3, <1>5
  <2>3. d.ch[i] <= l
    BY <1>1, <1>3, <2>1, <2>2 DEF Nil
  <2>4. d.ch[i] # Nil => p.seen <= d.ch[i] /\ d.out <= d.ch[i]
    BY <1>1, <1>2, <1>3, <2>1, <2>2 DEF Nil
  <2>5. ASSUME NEW j \in 1..Len(d.ch), i < j, d.ch[j] # Nil
        PROVE  d.ch[i] <= d.ch[j]
    <3>0. j \in 1..(Len(c.ch) + 1)
      BY <1>3, <2>5
    <3>1. j \in 1..Len(c.ch) \/ j = Len(c.ch) + 1
      BY <1>1, <3>0
    <3>2. i \in 1..Len(c.ch)
      BY <1>1, <1>3, <2>2, <2>5
    <3>3. QED
      BY <1>1, <1>3, <2>1, <2>5, <3>1, <3>2
  <2>6. QED
    BY <2>3, <2>4, <2>5
<1>6. QED
  BY <1>2, <1>4, <1>5 DEF Orderly

(***************************************************************************)
(* Closing a channel, and a newer snapshot at the hub, change no order.    *)
(***************************************************************************)
LEMMA OrderlyKept ==
  ASSUME NEW c \in Conns, NEW p \in Pages, NEW l \in Frames, NEW m \in Frames,
         l <= m, NEW d \in Conns,
         d = c \/ d = [c EXCEPT !.open = FALSE],
         Orderly(c, p, l)
  PROVE  Orderly(d, p, m)
<1>1. /\ c.ch \in Seq(Frames) /\ c.out \in Frames /\ p.seen \in Frames
      /\ Frames \subseteq Nat
  BY ConnFields, BoundsAssumption DEF Pages, Frames, Snaps, Nil
<1>2. d.pc = c.pc /\ d.out = c.out /\ d.ch = c.ch
  BY DEF Conns
<1>3. \A i \in 1..Len(c.ch) : c.ch[i] \in Frames
  BY <1>1
<1>4. QED
  BY <1>1, <1>2, <1>3 DEF Orderly

-----------------------------------------------------------------------------
(* The hub. *)

(***************************************************************************)
(* A broadcast of a ping or of the last snapshot keeps channels owned and  *)
(* streams in order.                                                       *)
(***************************************************************************)
LEMMA BroadcastKeeps ==
  ASSUME NEW f \in {Nil, last}, LiveInv, Broadcast(f),
         UNCHANGED <<last, page, closed>>
  PROVE  /\ Ownership' /\ Registered'
         /\ \A t \in Tabs : Orderly(conn'[t], page'[t], last')
         /\ clients' \subseteq Tabs /\ (closed' => clients' = {})
         /\ conn' \in [Tabs -> Conns]
         /\ \A t \in Tabs : Len(conn'[t].ch) <= Depth
<1>1. TypeOK /\ f \in Frames /\ last \in Frames
  BY DEF LiveInv, TypeOK, Frames
<1>2. /\ clients' \subseteq clients
      /\ conn' \in [Tabs -> Conns]
      /\ \A t \in Tabs : Len(conn'[t].ch) <= Depth
      /\ \A t \in Tabs :
           \/ conn'[t] = conn[t] /\ t \notin clients
           \/ /\ t \in clients \ clients'
              /\ conn'[t] = [conn[t] EXCEPT !.open = FALSE]
           \/ /\ t \in clients'
              /\ conn'[t] = [conn[t] EXCEPT !.ch = Append(@, f)]
  BY <1>1, BroadcastFacts
<1>3. ASSUME NEW t \in Tabs
      PROVE  /\ t \in clients' <=> conn'[t].open
             /\ t \in clients' => conn'[t].pc \in Busy
             /\ Orderly(conn'[t], page[t], last)
  <2>1. /\ conn[t] \in Conns /\ conn'[t] \in Conns /\ page[t] \in Pages
        /\ t \in clients <=> conn[t].open
        /\ t \in clients => conn[t].pc \in Busy
        /\ Orderly(conn[t], page[t], last)
    BY <1>1, <1>2 DEF LiveInv, TypeOK, Ownership, Registered, Ordered
  <2>2. last <= last
    BY <1>1, BoundsAssumption DEF Frames, Snaps, Nil
  <2>3. CASE conn'[t] = conn[t] /\ t \notin clients
    BY <1>2, <2>1, <2>3
  <2>4. CASE t \in clients \ clients' /\ conn'[t] = [conn[t] EXCEPT !.open = FALSE]
    <3>1. ~conn'[t].open
      BY <2>1, <2>4 DEF Conns
    <3>2. Orderly(conn'[t], page[t], last)
      BY <1>1, <2>1, <2>2, <2>4, OrderlyKept
    <3>3. QED
      BY <2>4, <3>1, <3>2
  <2>5. CASE t \in clients' /\ conn'[t] = [conn[t] EXCEPT !.ch = Append(@, f)]
    <3>1. t \in clients
      BY <1>2, <2>5
    <3>2. conn'[t].open = conn[t].open /\ conn'[t].pc = conn[t].pc
      BY <2>1, <2>5 DEF Conns
    <3>3. Orderly(conn'[t], page[t], last)
      BY <1>1, <2>1, <2>5, <3>1, OrderlySent
    <3>4. QED
      BY <2>1, <2>5, <3>1, <3>2, <3>3
  <2>6. QED
    BY <1>2, <2>3, <2>4, <2>5
<1>4. clients' \subseteq Tabs /\ (closed' => clients' = {})
  BY <1>1, <1>2 DEF TypeOK
<1>5. Ownership' /\ Registered'
  BY <1>3, <1>4 DEF Ownership, Registered
<1>6. \A t \in Tabs : Orderly(conn'[t], page'[t], last')
  BY <1>3
<1>7. QED
  BY <1>2, <1>4, <1>5, <1>6

(***************************************************************************)
(* Steps that leave the streams, the pages and the clients alone.          *)
(***************************************************************************)
LEMMA QuietKeeps ==
  ASSUME LiveInv, UNCHANGED <<last, clients, conn, page, closed>>,
         \/ Start \/ List \/ ListFails \/ Poll \/ Quit
         \/ CtrlC \/ StopHub \/ Moves \/ Others
         \/ \E t \in Tabs : Network(t)
  PROVE  LiveInv'
<1>1. /\ TypeOK /\ HubOrder
      /\ \A t \in Tabs : Orderly(conn[t], page[t], last)
  BY DEF LiveInv, Ordered
<1>2. hub = [pc |-> hub.pc, snap |-> hub.snap, digest |-> hub.digest]
  BY <1>1 DEF TypeOK
<1>3. /\ table' \in Snaps /\ table <= table'
      /\ quit' \in BOOLEAN /\ closed' \in BOOLEAN /\ others' \in 0..MaxClients
      /\ server' \in {"serving", "draining", "stopping", "stopped"}
      /\ stalled' \subseteq Tabs
  <2>1. table' \in Snaps /\ table <= table'
    BY <1>1, BoundsAssumption
       DEF TypeOK, Start, List, ListFails, Poll, Quit, CtrlC, StopHub, Moves, Others,
           Network, World, Stop, Snaps
  <2>2. others' \in 0..MaxClients
    <3>1. CASE Others
      <4>1. others \in 0..MaxClients /\ MaxClients \in Nat /\ Cardinality(clients) \in Nat
        <5>1. clients \subseteq Tabs /\ others \in 0..MaxClients
          BY <1>1 DEF TypeOK
        <5>2. QED
          BY <5>1, TabsAssumption, BoundsAssumption, FS_Subset, FS_CardinalityType
      <4>2. QED
        BY <3>1, <4>1 DEF Others, Full
    <3>2. CASE ~Others
      BY <1>1, <3>2
         DEF TypeOK, Start, List, ListFails, Poll, Quit, CtrlC, StopHub, Moves, Network,
             World, Stop
    <3>3. QED
      BY <3>1, <3>2
  <2>3. quit' \in BOOLEAN /\ closed' \in BOOLEAN /\ stalled' \subseteq Tabs
    BY <1>1
       DEF TypeOK, Start, List, ListFails, Poll, Quit, CtrlC, StopHub, Moves, Others,
           Network, World, Stop
  <2>4. server' \in {"serving", "draining", "stopping", "stopped"}
    BY <1>1
       DEF TypeOK, Start, List, ListFails, Poll, Quit, CtrlC, StopHub, Moves, Others,
           Network, World, Stop
  <2>5. QED
    BY <2>1, <2>2, <2>3, <2>4
<1>4. /\ hub' \in [pc : {"new", "listing", "storing", "sending", "waiting", "gone"},
                   snap : Frames, digest : Frames]
      /\ \/ hub'.pc = "storing" /\ hub'.snap = table' /\ table' = table
         \/ hub'.pc \notin {"storing", "sending"}
         \/ hub' = hub
  BY <1>1, <1>2
     DEF TypeOK, Start, List, ListFails, Poll, Quit, CtrlC, StopHub, Moves, Others,
         Network, World, Stop, Frames
<1>5. HubOrder'
  <2>1. /\ table \in Nat /\ table' \in Nat /\ last \in Nat /\ hub.snap \in Nat
        /\ last' = last
    BY <1>1, <1>3, BoundsAssumption DEF TypeOK, Frames, Snaps, Nil
  <2>2. QED
    BY <1>1, <1>3, <1>4, <2>1 DEF HubOrder
<1>6. TypeOK'
  BY <1>1, <1>3, <1>4 DEF TypeOK
<1>7. QED
  BY <1>1, <1>5, <1>6 DEF LiveInv, Ordered, Ownership, Registered

(***************************************************************************)
(* The store of a snapshot, and the sending of it.                         *)
(***************************************************************************)
LEMMA PublishKeeps ==
  ASSUME LiveInv, Publish
  PROVE  LiveInv'
<1>1. /\ TypeOK /\ HubOrder /\ Ownership /\ Registered
      /\ \A t \in Tabs : Orderly(conn[t], page[t], last)
      /\ hub.snap \in Frames /\ last \in Frames /\ Frames \subseteq Nat /\ Nil \in Frames
  BY BoundsAssumption DEF LiveInv, Ordered, TypeOK, Frames, Snaps, Nil
<1>2. CASE hub.pc = "storing"
  <2>1. /\ last' = hub.snap /\ last <= hub.snap /\ hub.snap <= table
        /\ hub' = [pc |-> Told, digest |-> hub.snap,
                   snap |-> IF Told = "sending" THEN hub.snap ELSE Nil]
        /\ UNCHANGED <<World, Stop, clients, conn, page>>
    BY <1>1, <1>2 DEF Publish, HubOrder
  <2>2. \A t \in Tabs : Orderly(conn[t], page[t], hub.snap)
    BY <1>1, <2>1, OrderlyKept DEF TypeOK
  <2>3. HubOrder'
    BY <1>1, <2>1 DEF HubOrder, World, Told
  <2>4. hub' \in [pc : {"new", "listing", "storing", "sending", "waiting", "gone"},
                  snap : Frames, digest : Frames]
    BY <1>1, <2>1 DEF Told
  <2>5. TypeOK'
    BY <1>1, <2>1, <2>4 DEF TypeOK, World, Stop
  <2>6. QED
    BY <1>1, <2>1, <2>2, <2>3, <2>5 DEF LiveInv, Ordered, Ownership, Registered
<1>3. CASE hub.pc = "sending"
  <2>1. /\ hub.snap = last /\ Broadcast(hub.snap)
        /\ hub' = [hub EXCEPT !.pc = "waiting", !.snap = Nil]
        /\ UNCHANGED <<World, Stop, last, page>>
    BY <1>1, <1>3 DEF Publish, HubOrder
  <2>2. UNCHANGED <<last, page, closed>>
    BY <2>1 DEF Stop
  <2>3. /\ Ownership' /\ Registered'
        /\ \A t \in Tabs : Orderly(conn'[t], page'[t], last')
        /\ clients' \subseteq Tabs /\ (closed' => clients' = {})
        /\ conn' \in [Tabs -> Conns]
        /\ \A t \in Tabs : Len(conn'[t].ch) <= Depth
    BY <2>1, <2>2, BroadcastKeeps
  <2>4. /\ hub' \in [pc : {"new", "listing", "storing", "sending", "waiting", "gone"},
                     snap : Frames, digest : Frames]
        /\ hub'.pc = "waiting"
    BY <1>1, <2>1 DEF TypeOK
  <2>5. HubOrder'
    BY <1>1, <2>1, <2>4 DEF HubOrder, World
  <2>6. TypeOK'
    BY <1>1, <2>1, <2>3, <2>4 DEF TypeOK, World, Stop
  <2>7. QED
    BY <2>3, <2>5, <2>6 DEF LiveInv, Ordered
<1>4. QED
  BY <1>2, <1>3 DEF Publish

(***************************************************************************)
(* The heartbeat.                                                          *)
(***************************************************************************)
LEMMA PingKeeps ==
  ASSUME LiveInv, Ping
  PROVE  LiveInv'
<1>1. /\ Broadcast(Nil) /\ UNCHANGED <<World, Stop, hub, last, page>>
      /\ UNCHANGED <<last, page, closed>>
  BY DEF Ping, Stop
<1>2. /\ Ownership' /\ Registered'
      /\ \A t \in Tabs : Orderly(conn'[t], page'[t], last')
      /\ clients' \subseteq Tabs /\ (closed' => clients' = {})
      /\ conn' \in [Tabs -> Conns]
      /\ \A t \in Tabs : Len(conn'[t].ch) <= Depth
  BY <1>1, BroadcastKeeps
<1>3. HubOrder'
  BY <1>1 DEF LiveInv, Ordered, HubOrder, World
<1>4. TypeOK'
  BY <1>1, <1>2 DEF LiveInv, TypeOK, World, Stop
<1>5. QED
  BY <1>2, <1>3, <1>4 DEF LiveInv, Ordered

-----------------------------------------------------------------------------
(* The handlers and the pages. *)

(***************************************************************************)
(* A step of one tab: what it leaves at that tab is all there is to check. *)
(***************************************************************************)
LEMMA TabKeeps ==
  ASSUME LiveInv, NEW t \in Tabs, NEW c \in Conns, NEW p \in Pages,
         conn' = [conn EXCEPT ![t] = c], page' = [page EXCEPT ![t] = p],
         clients' \in {clients, clients \cup {t}, clients \ {t}},
         t \in clients' <=> c.open, t \in clients' => c.pc \in Busy,
         Len(c.ch) <= Depth, Orderly(c, p, last), closed => clients' \subseteq clients,
         UNCHANGED <<World, Stop, hub, last>>
  PROVE  LiveInv'
<1>1. /\ TypeOK /\ HubOrder /\ Ownership /\ Registered
      /\ \A u \in Tabs : Orderly(conn[u], page[u], last)
  BY DEF LiveInv, Ordered
<1>2. ASSUME NEW u \in Tabs
      PROVE  /\ conn'[u] \in Conns /\ page'[u] \in Pages /\ Len(conn'[u].ch) <= Depth
             /\ u \in clients' <=> conn'[u].open
             /\ u \in clients' => conn'[u].pc \in Busy
             /\ Orderly(conn'[u], page'[u], last)
  <2>1. CASE u = t
    <3>1. conn'[u] = c /\ page'[u] = p
      BY <1>1, <2>1 DEF TypeOK
    <3>2. QED
      BY <2>1, <3>1
  <2>2. CASE u # t
    <3>1. conn'[u] = conn[u] /\ page'[u] = page[u] /\ (u \in clients' <=> u \in clients)
      BY <1>1, <2>2 DEF TypeOK
    <3>2. QED
      BY <1>1, <3>1 DEF TypeOK, Ownership, Registered
  <2>3. QED
    BY <2>1, <2>2
<1>3. clients' \subseteq Tabs /\ (closed => clients' = {})
  BY <1>1 DEF TypeOK
<1>4. conn' \in [Tabs -> Conns] /\ page' \in [Tabs -> Pages]
  BY <1>1, <1>2 DEF TypeOK
<1>5. TypeOK'
  BY <1>1, <1>2, <1>3, <1>4 DEF TypeOK, World, Stop
<1>6. Ownership' /\ Registered'
  BY <1>2, <1>3 DEF Ownership, Registered
<1>7. Ordered'
  BY <1>1, <1>2 DEF Ordered, HubOrder, World
<1>8. QED
  BY <1>5, <1>6, <1>7 DEF LiveInv

(***************************************************************************)
(* What LiveInv says of one tab.                                           *)
(***************************************************************************)
LEMMA AtTab ==
  ASSUME LiveInv, NEW t \in Tabs
  PROVE  /\ conn[t] \in Conns /\ page[t] \in Pages
         /\ conn[t].pc \in Idle \cup Busy /\ conn[t].out \in Frames
         /\ conn[t].ch \in Seq(Frames) /\ conn[t].open \in BOOLEAN
         /\ Len(conn[t].ch) <= Depth
         /\ page[t].form \in Snaps /\ page[t].seen \in Frames
         /\ page[t].live \in BOOLEAN /\ page[t].built \in BOOLEAN
         /\ t \in clients <=> conn[t].open
         /\ t \in clients => conn[t].pc \in Busy
         /\ Orderly(conn[t], page[t], last)
         /\ last \in Frames /\ Frames \subseteq Nat /\ Nil \in Frames /\ Snaps \subseteq Frames
         /\ table \in Snaps /\ Depth \in Nat
<1>1. conn[t] \in Conns /\ page[t] \in Pages
  BY DEF LiveInv, TypeOK
<1>2. /\ page[t].form \in Snaps /\ page[t].seen \in Frames
      /\ page[t].live \in BOOLEAN /\ page[t].built \in BOOLEAN
  BY <1>1 DEF Pages
<1>3. QED
  BY <1>1, <1>2, ConnFields, BoundsAssumption
     DEF LiveInv, TypeOK, Ownership, Registered, Ordered, Frames, Snaps, Nil

(***************************************************************************)
(* The steps that change only where a handler is, or its page's pill.      *)
(***************************************************************************)
LEMMA PcKeeps ==
  ASSUME LiveInv, NEW t \in Tabs, NEW pc \in Idle \cup Busy, NEW live \in BOOLEAN,
         conn' = [conn EXCEPT ![t] = [conn[t] EXCEPT !.pc = pc, !.out = Nil]],
         page' = [page EXCEPT ![t] = [page[t] EXCEPT !.live = live]],
         pc \in Idle <=> conn[t].pc \in Idle,
         UNCHANGED <<World, Stop, hub, last, clients>>
  PROVE  LiveInv'
<1> DEFINE c == [conn[t] EXCEPT !.pc = pc, !.out = Nil]
           p == [page[t] EXCEPT !.live = live]
<1>1. /\ c \in Conns /\ p \in Pages
      /\ c.pc = pc /\ c.out = Nil /\ c.ch = conn[t].ch /\ c.open = conn[t].open
      /\ p.seen = page[t].seen /\ p.built = page[t].built
  BY AtTab DEF Conns, Pages, Idle, Busy
<1>2. /\ t \in clients <=> c.open
      /\ t \in clients => c.pc \in Busy
      /\ Len(c.ch) <= Depth
  BY <1>1, AtTab DEF Idle, Busy
<1>3. Orderly(c, p, last)
  <2>1. Orderly(conn[t], page[t], last) /\ Nil <= last
    BY AtTab DEF Nil
  <2>2. \A i \in 1..Len(conn[t].ch) : conn[t].ch[i] \in Nat
    BY AtTab
  <2>3. \A i \in 1..Len(conn[t].ch) : Nil <= conn[t].ch[i]
    BY <2>2 DEF Nil
  <2>4. QED
    BY <1>1, <2>1, <2>3 DEF Orderly
<1>4. QED
  BY <1>1, <1>2, <1>3, TabKeeps

(***************************************************************************)
(* Sequences of frames, an element at a time.                              *)
(***************************************************************************)
LEMMA FramesAt ==
  ASSUME NEW ch \in Seq(Frames)
  PROVE  /\ Len(ch) \in Nat
         /\ \A i \in 1..Len(ch) : ch[i] \in Frames
         /\ ch # <<>> => /\ Head(ch) = ch[1] /\ Len(ch) >= 1
                        /\ Tail(ch) \in Seq(Frames)
                        /\ Len(Tail(ch)) = Len(ch) - 1
                        /\ \A i \in 1..Len(Tail(ch)) : Tail(ch)[i] = ch[i + 1]
OBVIOUS

(***************************************************************************)
(* A handler that is not writing has no frame in hand.                     *)
(***************************************************************************)
LEMMA NothingInHand ==
  ASSUME NEW c \in Conns, c.out = Nil, NEW pc
  PROVE  [c EXCEPT !.pc = pc] = [c EXCEPT !.pc = pc, !.out = Nil]
BY DEF Conns

(***************************************************************************)
(* Every step of a handler or a page.                                      *)
(***************************************************************************)
LEMMA TabStepKeeps ==
  ASSUME LiveInv, NEW t \in Tabs, Handler(t) \/ Ask(t) \/ Cut(t) \/ Quiet(t) \/ Load(t)
  PROVE  LiveInv'
<1> DEFINE k == conn[t]
           g == page[t]
<1>1. /\ k \in Conns /\ g \in Pages
      /\ k.pc \in Idle \cup Busy /\ k.out \in Frames
      /\ k.ch \in Seq(Frames) /\ k.open \in BOOLEAN
      /\ Len(k.ch) <= Depth
      /\ g.form \in Snaps /\ g.seen \in Frames
      /\ g.live \in BOOLEAN /\ g.built \in BOOLEAN
      /\ t \in clients <=> k.open
      /\ t \in clients => k.pc \in Busy
      /\ Orderly(k, g, last)
      /\ last \in Frames /\ Frames \subseteq Nat /\ Nil \in Frames /\ Snaps \subseteq Frames
      /\ table \in Snaps /\ Depth \in Nat
  BY AtTab
<1>2. /\ conn = [conn EXCEPT ![t] = k] /\ page = [page EXCEPT ![t] = g]
      /\ k.pc # "writing" => k = [k EXCEPT !.out = Nil]
      /\ g = [g EXCEPT !.live = @]
      /\ clients \in {clients, clients \cup {t}, clients \ {t}}
      /\ k.pc # "writing" => k.out = Nil
      /\ page = [page EXCEPT ![t] = [g EXCEPT !.live = g.live]]
  BY <1>1 DEF LiveInv, TypeOK, Orderly, Conns, Pages
<1>3. CASE Ask(t)
  <2>1. /\ k.pc = "none"
        /\ conn' = [conn EXCEPT ![t] = [k EXCEPT !.pc = "asked", !.out = Nil]]
        /\ page' = [page EXCEPT ![t] = [g EXCEPT !.live = g.live]]
        /\ UNCHANGED <<World, Stop, hub, last, clients>>
    BY <1>1, <1>2, <1>3, NothingInHand DEF Ask, Goes
  <2>2. QED
    BY <1>1, <2>1, PcKeeps DEF Idle
<1>4. CASE Refuse(t)
  <2>1. /\ k.pc = "asked"
        /\ conn' = [conn EXCEPT ![t] = [k EXCEPT !.pc = "failed", !.out = Nil]]
        /\ page' = [page EXCEPT ![t] = [g EXCEPT !.live = FALSE]]
        /\ UNCHANGED <<World, Stop, hub, last, clients>>
    BY <1>1, <1>2, <1>4, NothingInHand DEF Refuse, Goes
  <2>2. QED
    BY <1>1, <2>1, PcKeeps DEF Idle
<1>5. CASE Dropped(t)
  <2>1. /\ k.pc = "loop"
        /\ conn' = [conn EXCEPT ![t] = [k EXCEPT !.pc = "ending", !.out = Nil]]
        /\ page' = [page EXCEPT ![t] = [g EXCEPT !.live = g.live]]
        /\ UNCHANGED <<World, Stop, hub, last, clients>>
    BY <1>1, <1>2, <1>5, NothingInHand DEF Dropped, Goes
  <2>2. QED
    BY <1>1, <2>1, PcKeeps DEF Idle, Busy
<1>6. CASE Cut(t)
  <2>1. /\ k.pc \in Busy
        /\ conn' = [conn EXCEPT ![t] = [k EXCEPT !.pc = "ending", !.out = Nil]]
        /\ page' = [page EXCEPT ![t] = [g EXCEPT !.live = g.live]]
        /\ UNCHANGED <<World, Stop, hub, last, clients>>
    BY <1>1, <1>2, <1>6 DEF Cut, Busy
  <2>2. QED
    BY <1>1, <2>1, PcKeeps DEF Idle, Busy
<1>7. CASE Quiet(t)
  <2>1. /\ conn' = [conn EXCEPT ![t] = k]
        /\ page' = [page EXCEPT ![t] = [g EXCEPT !.live = FALSE]]
        /\ clients' = clients
        /\ UNCHANGED <<World, Stop, hub, last>>
    BY <1>1, <1>2, <1>7 DEF Quiet, Conns, Pages, LiveInv, TypeOK
  <2>2. /\ [g EXCEPT !.live = FALSE] \in Pages
        /\ Orderly(k, [g EXCEPT !.live = FALSE], last)
    BY <1>1 DEF Pages, Orderly
  <2>3. QED
    BY <1>1, <1>2, <2>1, <2>2, TabKeeps
<1>8. CASE Load(t)
  <2> DEFINE c == [k EXCEPT !.pc = "none"]
             p == [form |-> table, seen |-> Nil, live |-> TRUE, built |-> FALSE]
  <2>1. /\ k.pc \in Idle /\ k.pc # "writing"
        /\ conn' = [conn EXCEPT ![t] = c] /\ page' = [page EXCEPT ![t] = p]
        /\ clients' = clients
        /\ UNCHANGED <<World, Stop, hub, last>>
    BY <1>1, <1>8 DEF Load, Goes, LiveInv, TypeOK, Idle
  <2>2. /\ c \in Conns /\ p \in Pages
        /\ c.pc = "none" /\ c.out = k.out /\ c.ch = k.ch /\ c.open = k.open
    BY <1>1 DEF Conns, Pages
  <2>3. k.ch = <<>> /\ k.out = Nil
    BY <1>1, <2>1 DEF Orderly
  <2>4. Len(c.ch) = 0 /\ p.seen = Nil
    BY <2>2, <2>3
  <2>5. Orderly(c, p, last)
    BY <1>1, <2>2, <2>3, <2>4 DEF Orderly, Nil
  <2>6. t \notin clients
    BY <1>1, <2>1 DEF Idle, Busy
  <2>7. QED
    BY <1>1, <1>2, <2>1, <2>2, <2>5, <2>6, TabKeeps
<1>9. CASE Add(t)
  <2> DEFINE pc == IF last = Nil THEN "building" ELSE "writing"
             c == [pc |-> pc, out |-> last, ch |-> <<>>, open |-> TRUE]
  <2>1. /\ k.pc \in Idle /\ ~closed
        /\ conn' = [conn EXCEPT ![t] = c] /\ page' = [page EXCEPT ![t] = g]
        /\ clients' = clients \cup {t}
        /\ UNCHANGED <<World, Stop, hub, last>>
    BY <1>1, <1>2, <1>9 DEF Add, Idle
  <2>2. /\ c \in Conns /\ c.pc \in Busy /\ c.open /\ Len(c.ch) = 0
        /\ c.pc \notin Idle /\ c.out = last /\ (c.pc # "writing" => last = Nil)
    BY <1>1 DEF Conns, Busy, Idle
  <2> HIDE DEF c
  <2>3. Orderly(c, g, last)
    BY <1>1, <2>2 DEF Orderly
  <2>4. /\ clients' \in {clients, clients \cup {t}, clients \ {t}}
        /\ t \in clients' <=> c.open
        /\ closed => clients' \subseteq clients
    BY <2>1, <2>2
  <2>5. Len(c.ch) <= Depth /\ (t \in clients' => c.pc \in Busy)
    BY <1>1, <2>2
  <2>6. c \in Conns /\ g \in Pages
    BY <1>1, <2>2
  <2>7. QED
    BY <2>1, <2>3, <2>4, <2>5, <2>6, TabKeeps
<1>10. CASE Build(t)
  <2> DEFINE c == [k EXCEPT !.pc = "writing", !.out = table]
             p == [g EXCEPT !.built = TRUE]
  <2>1. /\ k.pc = "building"
        /\ conn' = [conn EXCEPT ![t] = c] /\ page' = [page EXCEPT ![t] = p]
        /\ clients' = clients
        /\ UNCHANGED <<World, Stop, hub, last>>
    BY <1>1, <1>10 DEF Build, LiveInv, TypeOK
  <2>2. /\ c \in Conns /\ p \in Pages /\ c.pc = "writing" /\ p.built
        /\ c.ch = k.ch /\ c.open = k.open
    BY <1>1 DEF Conns, Pages
  <2>3. Orderly(c, p, last)
    BY <2>2 DEF Orderly, Idle
  <2>4. QED
    BY <1>1, <1>2, <2>1, <2>2, <2>3, TabKeeps DEF Busy
<1>11. CASE Deliver(t)
  <2> DEFINE c == [k EXCEPT !.pc = "loop", !.out = Nil]
             p == [g EXCEPT !.live = TRUE, !.seen = IF k.out = Nil THEN @ ELSE k.out]
  <2>1. /\ k.pc = "writing"
        /\ conn' = [conn EXCEPT ![t] = c] /\ page' = [page EXCEPT ![t] = p]
        /\ clients' = clients
        /\ UNCHANGED <<World, Stop, hub, last>>
    BY <1>1, <1>11 DEF Deliver, LiveInv, TypeOK
  <2>2. /\ c \in Conns /\ p \in Pages /\ c.pc = "loop" /\ c.out = Nil
        /\ c.ch = k.ch /\ c.open = k.open
        /\ p.built = g.built /\ p.seen = IF k.out = Nil THEN g.seen ELSE k.out
    BY <1>1 DEF Conns, Pages
  <2>3. \A i \in 1..Len(k.ch) : k.ch[i] \in Nat
    BY <1>1, FramesAt
  <2>4. Orderly(c, p, last)
    BY <1>1, <2>2, <2>3 DEF Orderly, Idle, Nil
  <2>5. QED
    BY <1>1, <1>2, <2>1, <2>2, <2>4, TabKeeps DEF Busy
<1>12. CASE Take(t)
  <2> DEFINE c == [k EXCEPT !.pc = "writing", !.out = Head(k.ch), !.ch = Tail(@)]
  <2>1. /\ k.pc = "loop" /\ k.ch # <<>>
        /\ conn' = [conn EXCEPT ![t] = c] /\ page' = [page EXCEPT ![t] = g]
        /\ clients' = clients
        /\ UNCHANGED <<World, Stop, hub, last>>
    BY <1>1, <1>2, <1>12 DEF Take, LiveInv, TypeOK
  <2>2. /\ Head(k.ch) = k.ch[1] /\ Head(k.ch) \in Frames
        /\ Tail(k.ch) \in Seq(Frames) /\ Len(k.ch) \in Nat /\ Len(k.ch) >= 1
        /\ Len(Tail(k.ch)) = Len(k.ch) - 1
        /\ \A i \in 1..Len(Tail(k.ch)) : Tail(k.ch)[i] = k.ch[i + 1]
    BY <1>1, <2>1, FramesAt
  <2>3. /\ c \in Conns /\ c.pc = "writing" /\ c.out = k.ch[1] /\ c.ch = Tail(k.ch)
        /\ c.open = k.open
    BY <1>1, <2>2 DEF Conns
  <2>4. Orderly(c, g, last)
    <3>1. ASSUME ~g.built
          PROVE  /\ g.seen <= last /\ c.out <= last
                 /\ c.out # Nil => g.seen <= c.out
                 /\ \A i \in 1..Len(c.ch) :
                      /\ c.ch[i] <= last
                      /\ c.ch[i] # Nil => g.seen <= c.ch[i] /\ c.out <= c.ch[i]
                      /\ \A j \in 1..Len(c.ch) : i < j /\ c.ch[j] # Nil => c.ch[i] <= c.ch[j]
      <4>1. /\ g.seen <= last
            /\ \A i \in 1..Len(k.ch) :
                 /\ k.ch[i] <= last
                 /\ k.ch[i] # Nil => g.seen <= k.ch[i]
                 /\ \A j \in 1..Len(k.ch) : i < j /\ k.ch[j] # Nil => k.ch[i] <= k.ch[j]
        BY <1>1, <3>1 DEF Orderly
      <4>2. 1 \in 1..Len(k.ch)
        BY <2>2
      <4>3. ASSUME NEW i \in 1..Len(c.ch)
            PROVE  /\ c.ch[i] = k.ch[i + 1] /\ i + 1 \in 1..Len(k.ch) /\ 1 < i + 1
        BY <2>2, <2>3, <4>3
      <4>4. \A i \in 1..Len(c.ch) : c.ch[i] <= last
        BY <4>1, <4>3
      <4>5. \A i \in 1..Len(c.ch) : c.ch[i] # Nil => g.seen <= c.ch[i] /\ c.out <= c.ch[i]
        BY <2>3, <4>1, <4>2, <4>3
      <4>6. ASSUME NEW i \in 1..Len(c.ch), NEW j \in 1..Len(c.ch), i < j, c.ch[j] # Nil
            PROVE  c.ch[i] <= c.ch[j]
        <5>1. i + 1 < j + 1
          BY <2>2, <2>3, <4>6
        <5>2. QED
          BY <4>1, <4>3, <4>6, <5>1
      <4>7. QED
        BY <2>3, <4>1, <4>2, <4>4, <4>5, <4>6
    <3>2. QED
      BY <2>3, <3>1 DEF Orderly, Idle
  <2>5. Len(c.ch) <= Depth
    BY <1>1, <2>2, <2>3
  <2>6. QED
    BY <1>1, <1>2, <2>1, <2>3, <2>4, <2>5, TabKeeps DEF Busy
<1>13. CASE Remove(t)
  <2> DEFINE c == [k EXCEPT !.pc = "none", !.open = FALSE, !.ch = <<>>]
             p == [g EXCEPT !.live = @ /\ t \in stalled]
  <2>1. /\ k.pc = "ending"
        /\ conn' = [conn EXCEPT ![t] = c] /\ page' = [page EXCEPT ![t] = p]
        /\ clients' = clients \ {t}
        /\ UNCHANGED <<World, Stop, hub, last>>
    BY <1>1, <1>13 DEF Remove, LiveInv, TypeOK
  <2>2. c \in Conns /\ c.pc = "none" /\ ~c.open /\ c.ch = <<>> /\ c.out = k.out
    <3>1. <<>> \in Seq(Frames)
      OBVIOUS
    <3>2. QED
      BY <1>1, <3>1 DEF Conns
  <2>3. p \in Pages /\ p.seen = g.seen /\ p.built = g.built
    BY <1>1 DEF Pages
  <2>4. k.out = Nil /\ Len(c.ch) = 0
    BY <1>2, <2>1, <2>2
  <2> HIDE DEF c, p
  <2>5. Orderly(c, p, last)
    BY <1>1, <2>2, <2>3, <2>4 DEF Orderly, Nil
  <2>6. /\ clients' \in {clients, clients \cup {t}, clients \ {t}}
        /\ t \in clients' <=> c.open
        /\ closed => clients' \subseteq clients
    BY <2>1, <2>2
  <2>7. Len(c.ch) <= Depth /\ (t \in clients' => c.pc \in Busy)
    BY <1>1, <2>1, <2>4
  <2>8. c \in Conns /\ p \in Pages
    BY <2>2, <2>3
  <2>9. QED
    BY <2>1, <2>5, <2>6, <2>7, <2>8, TabKeeps
<1>14. QED
  BY <1>3, <1>4, <1>5, <1>6, <1>7, <1>8, <1>9, <1>10, <1>11, <1>12, <1>13 DEF Handler

-----------------------------------------------------------------------------
(* The whole. *)

(***************************************************************************)
(* The end of Shutdown.                                                    *)
(***************************************************************************)
LEMMA CloseAllKeeps ==
  ASSUME LiveInv, CloseAll
  PROVE  LiveInv'
<1>1. /\ clients' = {} /\ closed' = TRUE /\ server' = "stopped"
      /\ conn' = [t \in Tabs |-> IF t \in clients THEN [conn[t] EXCEPT !.open = FALSE] ELSE conn[t]]
      /\ UNCHANGED <<World, hub, last, quit, page>>
  BY DEF CloseAll
<1>2. ASSUME NEW t \in Tabs
      PROVE  /\ conn'[t] \in Conns /\ Len(conn'[t].ch) <= Depth
             /\ ~conn'[t].open
             /\ Orderly(conn'[t], page[t], last)
  <2>1. /\ conn[t] \in Conns /\ page[t] \in Pages /\ Len(conn[t].ch) <= Depth
        /\ t \in clients <=> conn[t].open
        /\ Orderly(conn[t], page[t], last)
        /\ last \in Frames /\ last <= last
    BY AtTab
  <2>2. /\ [conn[t] EXCEPT !.open = FALSE] \in Conns
        /\ ~[conn[t] EXCEPT !.open = FALSE].open
        /\ [conn[t] EXCEPT !.open = FALSE].ch = conn[t].ch
    BY <2>1 DEF Conns
  <2>3. CASE t \in clients
    <3>1. conn'[t] = [conn[t] EXCEPT !.open = FALSE]
      BY <1>1, <2>3
    <3>2. Orderly(conn'[t], page[t], last)
      BY <2>1, <2>2, <3>1, OrderlyKept
    <3>3. QED
      BY <2>1, <2>2, <3>1, <3>2
  <2>4. CASE t \notin clients
    BY <1>1, <2>1, <2>4
  <2>5. QED
    BY <2>3, <2>4
<1>3. conn' \in [Tabs -> Conns]
  BY <1>1, <1>2
<1>4. TypeOK'
  BY <1>1, <1>2, <1>3 DEF LiveInv, TypeOK, World
<1>5. Ownership' /\ Registered'
  BY <1>1, <1>2 DEF Ownership, Registered
<1>6. Ordered'
  BY <1>1, <1>2 DEF LiveInv, Ordered, HubOrder, World
<1>7. QED
  BY <1>4, <1>5, <1>6 DEF LiveInv

(***************************************************************************)
(* At first there are no streams.                                          *)
(***************************************************************************)
LEMMA InitLive == Init => LiveInv
<1> SUFFICES ASSUME Init PROVE LiveInv
  OBVIOUS
<1>1. 1 \in Snaps /\ Nil \in Frames /\ <<>> \in Seq(Frames) /\ Len(<<>>) = 0 /\ 0 \in 0..MaxClients
      /\ 0 <= Depth
  BY BoundsAssumption DEF Snaps, Frames, Nil
<1>2. /\ table = 1 /\ last = Nil /\ clients = {} /\ others = 0
      /\ hub = [pc |-> "new", snap |-> Nil, digest |-> Nil]
      /\ quit = FALSE /\ closed = FALSE /\ server = "serving" /\ stalled = {}
      /\ conn = [t \in Tabs |-> [pc |-> "none", out |-> Nil, ch |-> <<>>, open |-> FALSE]]
      /\ page = [t \in Tabs |-> [form |-> 1, seen |-> Nil, live |-> TRUE, built |-> FALSE]]
  BY DEF Init
<1>3. conn \in [Tabs -> Conns] /\ page \in [Tabs -> Pages]
  BY <1>1, <1>2 DEF Conns, Pages
<1>4. TypeOK
  BY <1>1, <1>2, <1>3 DEF TypeOK
<1>5. Ownership /\ Registered
  BY <1>2 DEF Ownership, Registered
<1>6. Ordered
  BY <1>1, <1>2 DEF Ordered, HubOrder, Orderly, Nil
<1>7. QED
  BY <1>4, <1>5, <1>6 DEF LiveInv

(***************************************************************************)
(* Every step keeps LiveInv.                                               *)
(***************************************************************************)
LEMMA StepLive == LiveInv /\ [Next]_vars => LiveInv'
<1> SUFFICES ASSUME LiveInv, [Next]_vars PROVE LiveInv'
  OBVIOUS
<1>1. CASE Start \/ List \/ ListFails \/ Poll \/ Quit
  <2>1. UNCHANGED <<last, clients, conn, page, closed>>
    BY <1>1 DEF Start, List, ListFails, Poll, Quit, Stop
  <2>2. QED
    BY <1>1, <2>1, QuietKeeps
<1>2. CASE CtrlC \/ StopHub
  <2>1. UNCHANGED <<last, clients, conn, page, closed>>
    BY <1>2 DEF CtrlC, StopHub
  <2>2. QED
    BY <1>2, <2>1, QuietKeeps
<1>3. CASE Moves \/ Others \/ \E t \in Tabs : Network(t)
  <2>1. UNCHANGED <<last, clients, conn, page, closed>>
    BY <1>3 DEF Moves, Others, Network, Stop
  <2>2. QED
    BY <1>3, <2>1, QuietKeeps
<1>4. CASE Publish
  BY <1>4, PublishKeeps
<1>5. CASE Ping
  BY <1>5, PingKeeps
<1>6. CASE CloseAll
  BY <1>6, CloseAllKeeps
<1>7. CASE \E t \in Tabs : Handler(t) \/ Ask(t) \/ Cut(t) \/ Quiet(t) \/ Load(t)
  BY <1>7, TabStepKeeps
<1>8. CASE UNCHANGED vars
  BY <1>8
     DEF vars, LiveInv, TypeOK, Ownership, Registered, Ordered, HubOrder
<1>9. QED
  BY <1>1, <1>2, <1>3, <1>4, <1>5, <1>6, <1>7, <1>8
     DEF Next, HubStep, Shutdown, Browser

(***************************************************************************)
(* The invariant of the hub and its streams, from which the rest follows.  *)
(***************************************************************************)
LEMMA Invariance == Spec => []LiveInv
  BY InitLive, StepLive, PTL DEF Spec

(***************************************************************************)
(* The types hold, a closed hub has no clients and no channel overflows.   *)
(***************************************************************************)
THEOREM TypeCorrect == Spec => []TypeOK
<1>1. LiveInv => TypeOK
  BY DEF LiveInv
<1>2. QED
  BY <1>1, Invariance, PTL

(***************************************************************************)
(* The hub never sends on a closed channel, and no channel is closed       *)
(* twice, for any number of tabs.                                          *)
(***************************************************************************)
THEOREM OwnershipHolds == Spec => []Ownership
<1>1. LiveInv => Ownership
  BY DEF LiveInv
<1>2. QED
  BY <1>1, Invariance, PTL

-----------------------------------------------------------------------------
(* Ages. *)

\* Nothing a stream c carries, or its page p shows, is newer than move m.
RecentAt(c, p, m) ==
  /\ p.form <= m /\ p.seen <= m /\ c.out <= m
  /\ \A i \in 1..Len(c.ch) : c.ch[i] <= m

Recent == \A t \in Tabs : RecentAt(conn[t], page[t], table)

(***************************************************************************)
(* A move of the table, and a channel that is closed, change no age.       *)
(***************************************************************************)
LEMMA RecentKept ==
  ASSUME NEW c \in Conns, NEW p \in Pages, NEW m \in Snaps, NEW n \in Snaps, m <= n,
         NEW d \in Conns, d = c \/ d = [c EXCEPT !.open = FALSE],
         RecentAt(c, p, m)
  PROVE  RecentAt(d, p, n)
<1>1. /\ c.ch \in Seq(Frames) /\ c.out \in Nat /\ p.seen \in Nat /\ p.form \in Nat
      /\ m \in Nat /\ n \in Nat /\ Frames \subseteq Nat
  BY ConnFields, BoundsAssumption DEF Pages, Frames, Snaps, Nil
<1>2. d.out = c.out /\ d.ch = c.ch
  BY DEF Conns
<1>3. \A i \in 1..Len(c.ch) : c.ch[i] \in Nat
  BY <1>1
<1>4. QED
  BY <1>1, <1>2, <1>3 DEF RecentAt

(***************************************************************************)
(* A broadcast of a ping or of the last snapshot brings nothing newer than *)
(* the table.                                                              *)
(***************************************************************************)
LEMMA RecentBroadcast ==
  ASSUME LiveInv, Recent, NEW f \in {Nil, last}, Broadcast(f), NEW t \in Tabs
  PROVE  RecentAt(conn'[t], page[t], table)
<1>1. /\ TypeOK /\ f \in Frames /\ f <= table /\ RecentAt(conn[t], page[t], table)
      /\ conn[t] \in Conns /\ page[t] \in Pages /\ table \in Snaps /\ table <= table
  BY BoundsAssumption DEF LiveInv, TypeOK, Ordered, HubOrder, Recent, Frames, Snaps, Nil
<1>2. /\ conn'[t] \in Conns
      /\ \/ conn'[t] = conn[t]
         \/ conn'[t] = [conn[t] EXCEPT !.open = FALSE]
         \/ conn'[t] = [conn[t] EXCEPT !.ch = Append(@, f)]
  BY <1>1, BroadcastFacts
<1>3. CASE conn'[t] = conn[t] \/ conn'[t] = [conn[t] EXCEPT !.open = FALSE]
  BY <1>1, <1>2, <1>3, RecentKept
<1>4. CASE conn'[t] = [conn[t] EXCEPT !.ch = Append(@, f)]
  <2>1. /\ conn[t].ch \in Seq(Frames) /\ conn'[t].ch = Append(conn[t].ch, f)
        /\ conn'[t].out = conn[t].out
    BY <1>1, <1>4 DEF Conns
  <2>2. \A i \in 1..Len(conn'[t].ch) : conn'[t].ch[i] <= table
    <3>1. ASSUME NEW i \in 1..Len(conn'[t].ch) PROVE conn'[t].ch[i] <= table
      <4>1. Len(conn'[t].ch) = Len(conn[t].ch) + 1 /\ Len(conn[t].ch) \in Nat
        BY <1>1, <2>1
      <4>2. i \in 1..Len(conn[t].ch) \/ i = Len(conn[t].ch) + 1
        BY <3>1, <4>1
      <4>3. CASE i \in 1..Len(conn[t].ch)
        BY <1>1, <2>1, <4>3 DEF RecentAt
      <4>4. CASE i = Len(conn[t].ch) + 1
        BY <1>1, <2>1, <4>4
      <4>5. QED
        BY <4>2, <4>3, <4>4
    <3>2. QED
      BY <3>1
  <2>3. QED
    BY <1>1, <2>1, <2>2 DEF RecentAt
<1>5. QED
  BY <1>2, <1>3, <1>4

(***************************************************************************)
(* A step of a tab brings to it, at most, what its stream carries, what    *)
(* the hub has stored or the table itself.                                 *)
(***************************************************************************)
LEMMA RecentTab ==
  ASSUME LiveInv, Recent, NEW t \in Tabs, Handler(t) \/ Ask(t) \/ Cut(t) \/ Quiet(t) \/ Load(t),
         NEW u \in Tabs
  PROVE  RecentAt(conn'[u], page'[u], table)
<1> DEFINE k == conn[t]
           g == page[t]
<1>1. /\ k \in Conns /\ g \in Pages /\ k.out \in Nat /\ k.ch \in Seq(Frames)
      /\ g.form \in Nat /\ g.seen \in Nat /\ last \in Nat /\ table \in Nat
      /\ Frames \subseteq Nat /\ Nil = 0 /\ last <= table
      /\ conn \in [Tabs -> Conns] /\ page \in [Tabs -> Pages]
      /\ RecentAt(k, g, table) /\ RecentAt(conn[u], page[u], table)
  BY AtTab DEF LiveInv, TypeOK, Ordered, HubOrder, Recent, Snaps, Nil
<1>2. CASE u # t
  <2>1. conn'[u] = conn[u] /\ page'[u] = page[u]
    BY <1>1, <1>2
       DEF Handler, Add, Refuse, Build, Deliver, Take, Dropped, Remove, Ask, Cut, Quiet, Load, Goes
  <2>2. QED
    BY <1>1, <2>1
<1>3. ASSUME u = t,
             conn'[t].out \in {k.out, Nil, table}, conn'[t].ch = k.ch,
             page'[t].form \in {g.form, table}, page'[t].seen \in {g.seen, Nil, k.out}
      PROVE  RecentAt(conn'[u], page'[u], table)
  BY <1>1, <1>3 DEF RecentAt
<1>4. CASE u = t /\ (Ask(t) \/ Refuse(t) \/ Dropped(t) \/ Quiet(t))
  <2>1. /\ conn'[t].out = k.out /\ conn'[t].ch = k.ch
        /\ page'[t].form = g.form /\ page'[t].seen = g.seen
    BY <1>1, <1>4 DEF Ask, Refuse, Dropped, Quiet, Goes, Conns, Pages
  <2>2. QED
    BY <1>3, <1>4, <2>1
<1>5. CASE u = t /\ (Build(t) \/ Cut(t))
  <2>1. /\ conn'[t].out \in {Nil, table} /\ conn'[t].ch = k.ch
        /\ page'[t].form = g.form /\ page'[t].seen = g.seen
    BY <1>1, <1>5 DEF Build, Cut, Conns, Pages
  <2>2. QED
    BY <1>3, <1>5, <2>1
<1>6. CASE u = t /\ Deliver(t)
  <2>1. /\ conn'[t].out = Nil /\ conn'[t].ch = k.ch
        /\ page'[t].form = g.form /\ page'[t].seen \in {g.seen, k.out}
    BY <1>1, <1>6 DEF Deliver, Conns, Pages
  <2>2. QED
    BY <1>3, <1>6, <2>1
<1>7. CASE u = t /\ Load(t)
  <2>1. /\ conn'[t].out = k.out /\ conn'[t].ch = k.ch
        /\ page'[t].form = table /\ page'[t].seen = Nil
    BY <1>1, <1>7 DEF Load, Goes, Conns, Pages
  <2>2. QED
    BY <1>3, <1>7, <2>1
<1>8. CASE u = t /\ (Add(t) \/ Remove(t))
  <2>1. /\ conn'[t].out \in {k.out, last} /\ conn'[t].ch = <<>>
        /\ page'[t].form = g.form /\ page'[t].seen = g.seen
    BY <1>1, <1>8 DEF Add, Remove, Conns, Pages
  <2>2. QED
    BY <1>1, <1>8, <2>1 DEF RecentAt
<1>9. CASE u = t /\ Take(t)
  <2>1. /\ k.ch # <<>>
        /\ conn'[t].out = Head(k.ch) /\ conn'[t].ch = Tail(k.ch)
        /\ page'[t].form = g.form /\ page'[t].seen = g.seen
    BY <1>1, <1>9 DEF Take, Conns, Pages
  <2>2. /\ Head(k.ch) = k.ch[1] /\ Len(k.ch) \in Nat /\ Len(k.ch) >= 1
        /\ Len(Tail(k.ch)) = Len(k.ch) - 1
        /\ \A i \in 1..Len(Tail(k.ch)) : Tail(k.ch)[i] = k.ch[i + 1]
    BY <1>1, <2>1, FramesAt
  <2>3. /\ \A i \in 1..Len(k.ch) : k.ch[i] <= table
        /\ g.form <= table /\ g.seen <= table
    BY <1>1 DEF RecentAt
  <2>4. Head(k.ch) <= table
    <3>1. 1 \in 1..Len(k.ch)
      BY <2>2
    <3>2. QED
      BY <2>2, <2>3, <3>1
  <2>5. ASSUME NEW i \in 1..Len(Tail(k.ch)) PROVE Tail(k.ch)[i] <= table
    <3>1. i + 1 \in 1..Len(k.ch)
      BY <2>2, <2>5
    <3>2. QED
      BY <2>2, <2>3, <2>5, <3>1
  <2>6. QED
    BY <1>9, <2>1, <2>3, <2>4, <2>5 DEF RecentAt
<1>10. QED
  BY <1>2, <1>4, <1>5, <1>6, <1>7, <1>8, <1>9 DEF Handler

(***************************************************************************)
(* No step brings anything newer than the table.                           *)
(***************************************************************************)
LEMMA StepRecent == LiveInv /\ Recent /\ [Next]_vars => Recent'
<1> SUFFICES ASSUME LiveInv, Recent, [Next]_vars, NEW t \in Tabs
             PROVE  RecentAt(conn'[t], page'[t], table')
  BY DEF Recent
<1>1. /\ LiveInv' /\ table \in Snaps /\ table' \in Snaps /\ table \in Nat
      /\ conn[t] \in Conns /\ conn'[t] \in Conns /\ page[t] \in Pages
      /\ RecentAt(conn[t], page[t], table)
  BY StepLive, BoundsAssumption DEF LiveInv, TypeOK, Recent, Snaps
<1>2. CASE \/ Start \/ List \/ ListFails \/ Poll \/ Quit \/ CtrlC \/ StopHub \/ Moves \/ Others
           \/ (\E u \in Tabs : Network(u)) \/ UNCHANGED vars \/ (Publish /\ hub.pc = "storing")
  <2>1. conn'[t] = conn[t] /\ page'[t] = page[t] /\ table <= table'
    BY <1>1, <1>2
       DEF Start, List, ListFails, Poll, Quit, CtrlC, StopHub, Moves, Others, Network, Publish,
           World, vars
  <2>2. QED
    BY <1>1, <2>1, RecentKept
<1>3. CASE Ping \/ (Publish /\ hub.pc = "sending")
  <2>1. (Broadcast(Nil) \/ Broadcast(last)) /\ page' = page /\ table' = table
    BY <1>3 DEF Ping, Publish, World, LiveInv, Ordered, HubOrder
  <2>2. QED
    BY <2>1, RecentBroadcast
<1>4. CASE CloseAll
  <2>1. /\ conn'[t] = conn[t] \/ conn'[t] = [conn[t] EXCEPT !.open = FALSE]
        /\ page' = page /\ table' = table /\ table <= table
    BY <1>1, <1>4 DEF CloseAll, World
  <2>2. QED
    BY <1>1, <2>1, RecentKept
<1>5. CASE \E u \in Tabs : Handler(u) \/ Ask(u) \/ Cut(u) \/ Quiet(u) \/ Load(u)
  <2>1. table' = table
    BY <1>5
       DEF Handler, Add, Refuse, Build, Deliver, Take, Dropped, Remove, Ask, Cut, Quiet, Load, World
  <2>2. QED
    BY <1>5, <2>1, RecentTab
<1>6. QED
  BY <1>2, <1>3, <1>4, <1>5 DEF Next, HubStep, Shutdown, Browser, Publish

(***************************************************************************)
(* No stream carries, and no page shows, a move that has not been made.    *)
(***************************************************************************)
LEMMA RecentHolds == Spec => []Recent
<1>1. Init => Recent
  BY BoundsAssumption DEF Init, Recent, RecentAt, Nil
<1>2. QED
  BY <1>1, StepRecent, Invariance, PTL DEF Spec

(***************************************************************************)
(* Only two frames take a page back to an older table: the first one after *)
(* a load, and that of a stream that was opened with a snapshot of its     *)
(* handler's own.  A reload never does.                                    *)
(***************************************************************************)
THEOREM NeverBackHolds == Spec => ShownNeverGoesBack
<1>1. ASSUME LiveInv, Recent, [Next]_vars, NEW t \in Tabs, Shows(t)' < Shows(t),
             page[t].seen # Nil, ~page[t].built
      PROVE  FALSE
  <2>1. /\ page \in [Tabs -> Pages] /\ page[t] \in Pages
        /\ page[t].seen \in Nat /\ page[t].form \in Nat /\ table \in Nat /\ Nil = 0
        /\ Orderly(conn[t], page[t], last) /\ conn[t].out \in Nat
        /\ page[t].seen <= table
    BY <1>1, AtTab DEF LiveInv, TypeOK, Recent, RecentAt, Snaps, Nil
  <2>2. Shows(t) = page[t].seen
    BY <1>1 DEF Shows
  <2>3. Shows(t)' = IF page'[t].seen = Nil THEN page'[t].form ELSE page'[t].seen
    BY DEF Shows
  <2>4. ASSUME NEW u \in Tabs, Deliver(u) PROVE FALSE
    <3>1. page' = [page EXCEPT ![u].live = TRUE,
                               ![u].seen = IF conn[u].out = Nil THEN @ ELSE conn[u].out]
      BY <2>4 DEF Deliver
    <3>2. CASE u # t
      BY <1>1, <2>1, <2>2, <2>3, <3>1, <3>2
    <3>3. CASE u = t
      <4>1. page'[t].seen = IF conn[t].out = Nil THEN page[t].seen ELSE conn[t].out
        BY <2>1, <3>1, <3>3 DEF Pages
      <4>2. page[t].seen <= page'[t].seen /\ page'[t].seen # Nil /\ page'[t].seen \in Nat
        BY <1>1, <2>1, <4>1 DEF Orderly
      <4>3. QED
        BY <1>1, <2>1, <2>2, <2>3, <4>2
    <3>4. QED
      BY <3>2, <3>3
  <2>5. ASSUME NEW u \in Tabs, Load(u) PROVE FALSE
    <3>1. page' = [page EXCEPT ![u] = [form |-> table, seen |-> Nil, live |-> TRUE, built |-> FALSE]]
      BY <2>5 DEF Load
    <3>2. CASE u # t
      BY <1>1, <2>1, <2>2, <2>3, <3>1, <3>2
    <3>3. CASE u = t
      <4>1. page'[t].seen = Nil /\ page'[t].form = table
        BY <2>1, <3>1, <3>3
      <4>2. QED
        BY <1>1, <2>1, <2>2, <2>3, <4>1
    <3>4. QED
      BY <3>2, <3>3
  <2>6. ASSUME NEW u \in Tabs, Refuse(u) \/ Build(u) \/ Remove(u) \/ Quiet(u) PROVE FALSE
    <3>1. \/ page' = [page EXCEPT ![u].live = FALSE]
          \/ page' = [page EXCEPT ![u].built = TRUE]
          \/ page' = [page EXCEPT ![u].live = @ /\ u \in stalled]
      BY <2>6 DEF Refuse, Build, Remove, Quiet
    <3>2. page'[t].seen = page[t].seen
      BY <2>1, <3>1 DEF Pages
    <3>3. QED
      BY <1>1, <2>1, <2>2, <2>3, <3>2
  <2>7. CASE page' = page
    BY <1>1, <2>1, <2>2, <2>3, <2>7
  <2>8. \/ page' = page
        \/ \E u \in Tabs : Deliver(u) \/ Load(u) \/ Refuse(u) \/ Build(u) \/ Remove(u) \/ Quiet(u)
    BY <1>1
       DEF Next, HubStep, Start, List, ListFails, Publish, Poll, Ping, Quit, Shutdown, CtrlC,
           StopHub, CloseAll, Moves, Others, Handler, Browser, Add, Take, Dropped, Ask, Cut,
           Network, vars
  <2>9. QED
    BY <2>4, <2>5, <2>6, <2>7, <2>8
<1>2. LiveInv /\ Recent /\ [Next]_vars =>
        [\A t \in Tabs : Shows(t)' < Shows(t) => page[t].seen = Nil \/ page[t].built]_vars
  BY <1>1
<1>3. QED
  BY <1>2, Invariance, RecentHolds, PTL DEF Spec, ShownNeverGoesBack
=============================================================================
