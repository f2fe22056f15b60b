---------------------------- MODULE DaemonState -----------------------------
(***************************************************************************)
(* The state one daemon keeps behind its mutex (State in daemon.rs, with   *)
(* the suppress flag that is always written under the same lock) and every *)
(* critical section that changes it, as operators on a record:             *)
(*                                                                         *)
(*   sessions, by_peer, active   the SessionManager (SessionOps)           *)
(*   links       peer -> [session, role, edge, commands]; commands is the  *)
(*               queue of the unbounded channel to the peer's task         *)
(*   layout      [machines, neighbors]: the virtual desktop, neighbors     *)
(*               maps <<machine, edge>> to the machine past that edge      *)
(*   cursor      the machine the one shared cursor is tracked on           *)
(*   suppress    whether the capture thread is to withhold local input     *)
(*   placements  configured edge per peer (the peer stands for its host)   *)
(*                                                                         *)
(* Positions on a screen are left to the topology; a movement is reduced   *)
(* to the edge it leaves the screen by, or "inside".  Input events and     *)
(* clipboard payloads do not change this state and are left out of the     *)
(* command queue.  `l' is the daemon's own machine.                        *)
(***************************************************************************)
EXTENDS SessionOps, Sequences

Edge == {"Left", "Right", "Top", "Bottom"}

Opposite(e) == CASE e = "Left"  -> "Right"
                 [] e = "Right" -> "Left"
                 [] e = "Top"   -> "Bottom"
                 [] e = "Bottom" -> "Top"

Command == {"Warp", "CursorReturned", "Disconnect"}

Link == [session : Session, role : Role, edge : Edge, commands : Seq(Command)]

\* d is a daemon's state: exactly these fields, and what they hold.
IsDaemon(d) ==
  /\ d \in [sessions : {d.sessions}, by_peer : {d.by_peer}, active : Machine,
            links : {d.links}, layout : {d.layout}, cursor : Machine,
            suppress : BOOLEAN, placements : {d.placements}]
  /\ d.layout \in [machines : SUBSET Machine, neighbors : {d.layout.neighbors}]
  /\ IsMap(d.sessions, Session, SessionRec)
  /\ IsMap(d.by_peer, Machine, Session)
  /\ IsMap(d.links, Machine, Link)
  /\ IsMap(d.layout.neighbors, Machine \X Edge, Machine)
  /\ IsMap(d.placements, Machine, Edge)

-----------------------------------------------------------------------------
(* The virtual desktop                                                     *)

\* Two peers may have been placed past the same edge.  Both lead back to the
\* local machine, but only the one linked last is reached by that edge, and the
\* links are visited in hash order: any of them may be it.
Fronts(links) ==
  {front \in [{links[p].edge : p \in DOMAIN links} -> DOMAIN links] :
     \A e \in DOMAIN front : links[front[e]].edge = e}

\* Mutant: a peer's facing edge does not lead home.
NeighborsOneWay(l, links, front) ==
  [k \in {<<l, e>> : e \in DOMAIN front} |-> front[k[2]]]

NeighborsOf(l, links, front) ==
  [k \in {<<l, e>> : e \in DOMAIN front}
           \cup {<<p, Opposite(links[p].edge)>> : p \in DOMAIN links} |->
     IF k[1] = l THEN front[k[2]] ELSE l]

SyncSuppression(d, l) == [d EXCEPT !.suppress = d.active # l]

\* Mutant: a cursor on a machine that vanished is left there.
RebuildLayoutKeepingCursor(d, l, front) ==
  [d EXCEPT !.layout = [machines  |-> {l} \cup DOMAIN d.links,
                        neighbors |-> NeighborsOf(l, d.links, front)]]

RebuildLayout(d, l, front) ==
  [d EXCEPT !.layout = [machines  |-> {l} \cup DOMAIN d.links,
                        neighbors |-> NeighborsOf(l, d.links, front)],
            !.cursor = IF @ \in {l} \cup DOMAIN d.links THEN @ ELSE l]

\* Mutant: a daemon starts without a target for its input.
NewDaemonUntargeted(l, placements) ==
  [sessions   |-> EmptyMap,
   by_peer    |-> EmptyMap,
   active     |-> "none",
   links      |-> EmptyMap,
   layout     |-> [machines |-> {l}, neighbors |-> EmptyMap],
   cursor     |-> l,
   suppress   |-> FALSE,
   placements |-> placements]

\* run_with_paths: a fresh State, then rebuild_layout.
NewDaemon(l, placements) ==
  RebuildLayout([sessions   |-> EmptyMap,
                 by_peer    |-> EmptyMap,
                 active     |-> l,
                 links      |-> EmptyMap,
                 layout     |-> [machines |-> {}, neighbors |-> EmptyMap],
                 cursor     |-> l,
                 suppress   |-> FALSE,
                 placements |-> placements], l, EmptyMap)

-----------------------------------------------------------------------------
(* Sessions come and go                                                    *)

\* The dialer sits past the target's left edge, the target past the dialer's
\* right one, unless `omni layout' placed the peer elsewhere.
EdgeFor(d, peer, role) ==
  IF peer \in DOMAIN d.placements THEN d.placements[peer]
  ELSE IF role = "Target" THEN "Left" ELSE "Right"

LinkUp(d, id, peer, role) ==
  [Establish(d, id, peer, role) EXCEPT
     !.links = Insert(@, peer, [session  |-> id,
                                role     |-> role,
                                edge     |-> EdgeFor(d, peer, role),
                                commands |-> <<>>])]

LinkDown(d, l, peer) ==
  IF peer \in DOMAIN d.links
  THEN [Close(d, l, d.links[peer].session) EXCEPT !.links = Remove(@, peer)]
  ELSE d

\* Mutant: the session outlives its link.
CleanupKeepingSession(d, l, peer, front) ==
  SyncSuppression(RebuildLayout([d EXCEPT !.links = Remove(@, peer)], l, front), l)

CleanupPeer(d, l, peer, front) ==
  SyncSuppression(RebuildLayout(LinkDown(d, l, peer), l, front), l)

\* set_layout; without links the desktop is left as it is.
Placed(d, peer, edge) ==
  [d EXCEPT !.placements = Insert(d.placements, peer, edge),
            !.links = [p \in DOMAIN d.links |->
                         IF p = peer THEN [d.links[p] EXCEPT !.edge = edge] ELSE d.links[p]]]

SetLayout(d, l, peer, edge, front) ==
  IF DOMAIN d.links = {} THEN Placed(d, peer, edge)
  ELSE SyncSuppression(RebuildLayout(Placed(d, peer, edge), l, front), l)

-----------------------------------------------------------------------------
(* Commands to the peer tasks                                              *)

Queued(link, command) == [link EXCEPT !.commands = Append(link.commands, command)]

Dequeued(link) == [link EXCEPT !.commands = Tail(link.commands)]

Send(d, peers, command) ==
  [d EXCEPT !.links = [p \in DOMAIN d.links |->
     IF p \in peers THEN Queued(d.links[p], command) ELSE d.links[p]]]

DropCommand(d, peer) ==
  [d EXCEPT !.links = [p \in DOMAIN d.links |->
     IF p = peer THEN Dequeued(d.links[p]) ELSE d.links[p]]]

-----------------------------------------------------------------------------
(* Captured movement                                                       *)

\* While input is local the OS owns the cursor; where it can tell its position
\* the tracked one follows.
SyncCursorToOs(d, l, known) == IF known THEN [d EXCEPT !.cursor = l] ELSE d

\* Home again: every peer hears of it.  Out: the machine entered hears of it.
PlaceCursorAfterCrossing(d, l, to) ==
  IF to = l THEN Send(d, DOMAIN d.links, "CursorReturned")
  ELSE Send(d, {to}, "Warp")

AdvanceCursor(d, l, dir) ==
  IF d.cursor \notin d.layout.machines THEN [d EXCEPT !.cursor = l]   \* tracking lost
  ELSE IF <<d.cursor, dir>> \notin DOMAIN d.layout.neighbors THEN d   \* clamped
  ELSE LET to == d.layout.neighbors[<<d.cursor, dir>>] IN
       IF ~ CanCross(d, l, to) THEN d                                 \* stay put
       ELSE PlaceCursorAfterCrossing([HandleCrossing(d, to) EXCEPT !.cursor = to], l, to)

RouteMotion(d, l, dir, known) ==
  SyncSuppression(
    AdvanceCursor(IF d.active = l THEN SyncCursorToOs(d, l, known) ELSE d, l, dir), l)

-----------------------------------------------------------------------------
(* Hand-overs a peer announces                                             *)

\* Mutant: a machine that is taken over goes on driving.
NeverYield(d, l) == d

YieldControlToPeer(d, l) ==
  IF d.active = l THEN d
  ELSE SyncSuppression([YieldControl(d, l) EXCEPT !.cursor = l], l)

FollowPeerCursor(d, l, peer) ==
  IF peer \in d.layout.machines /\ CanFollow(d, peer)
  THEN SyncSuppression([FollowPeer(d, peer) EXCEPT !.cursor = peer], l)
  ELSE d

-----------------------------------------------------------------------------
(* What holds whenever the lock is free                                    *)

\* The links and the SessionManager tell the same story: one session per link,
\* under the same id and role, and none besides.
LinksMatchSessions(d) ==
  /\ DOMAIN d.by_peer = DOMAIN d.links
  /\ \A p \in DOMAIN d.links :
       /\ d.by_peer[p] = d.links[p].session
       /\ d.links[p].session \in DOMAIN d.sessions
       /\ d.sessions[d.links[p].session].peer = p
       /\ d.sessions[d.links[p].session].role = d.links[p].role
  /\ \A id \in DOMAIN d.sessions :
       /\ d.sessions[id].peer \in DOMAIN d.links
       /\ d.links[d.sessions[id].peer].session = id

\* The cursor is tracked on the machine input goes to, that machine is on the
\* desktop, and local input is withheld exactly while it goes elsewhere.
CursorFollowsInput(d, l) ==
  /\ d.cursor = d.active
  /\ d.active \in {l} \cup DOMAIN d.links
  /\ d.suppress <=> d.active # l

\* The desktop holds the local machine and the linked peers, nothing stale; an
\* edge of the local screen leads to a peer placed there, and every peer's
\* facing edge leads home, so a cursor on a peer can always come back.
DesktopMatchesLinks(d, l) ==
  /\ d.layout.machines = {l} \cup DOMAIN d.links
  /\ \A k \in DOMAIN d.layout.neighbors :
       IF k[1] = l
       THEN /\ d.layout.neighbors[k] \in DOMAIN d.links
            /\ d.links[d.layout.neighbors[k]].edge = k[2]
       ELSE k[1] \in DOMAIN d.links /\ d.layout.neighbors[k] = l
  /\ \A p \in DOMAIN d.links :
       /\ <<p, Opposite(d.links[p].edge)>> \in DOMAIN d.layout.neighbors
       /\ <<l, d.links[p].edge>> \in DOMAIN d.layout.neighbors
=============================================================================
