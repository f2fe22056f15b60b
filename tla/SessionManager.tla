--------------------------- MODULE SessionManager ---------------------------
(***************************************************************************)
(* omni-session's SessionManager as a component: any caller may invoke any *)
(* of its methods in any order, and a listener on the SessionEvents port   *)
(* learns what changed from the events alone, some time later.             *)
(***************************************************************************)
EXTENDS SessionOps, Sequences, Naturals

CONSTANTS Self,       \* the manager's own machine
          MaxEvents   \* bound: events a slow listener may have waiting

ASSUME SelfAssumption == Self \in Machine
ASSUME MaxEventsAssumption == MaxEvents \in Nat

VARIABLES
  mgr,     \* the manager: sessions, by_peer, active
  events,  \* emitted and not yet seen by the listener, oldest first
  view     \* what the listener makes of the events: sessions and active

vars == <<mgr, events, view>>

Peer == Machine \ {Self}

Init ==
  /\ mgr = NewSessions(Self)
  /\ events = <<>>
  /\ view = [sessions |-> EmptyMap, active |-> Self]

-----------------------------------------------------------------------------
(* Events                                                                  *)

\* Mutant: every assignment of the target is silent.
NoActiveEvent(before, after) == <<>>

\* set_active emits only when the target really changes.
ActiveEvent(before, after) ==
  IF before.active # after.active
  THEN <<[type |-> "ActiveTargetChanged", target |-> after.active]>>
  ELSE <<>>

Emit(es) ==
  /\ Len(events) + Len(es) <= MaxEvents
  /\ events' = events \o es
  /\ UNCHANGED view

-----------------------------------------------------------------------------
(* One action per method                                                   *)

DoEstablish(id, peer, role) ==
  /\ CanEstablish(mgr, id, peer)
  /\ mgr' = Establish(mgr, id, peer, role)
  /\ Emit(<<[type |-> "Established", id |-> id, peer |-> peer, role |-> role]>>)

\* Mutant: the session is announced as closed before the target moves away.
DoCloseFirst(id) ==
  /\ id \in DOMAIN mgr.sessions
  /\ mgr' = Close(mgr, Self, id)
  /\ Emit(<<[type |-> "Closed", id |-> id]>> \o ActiveEvent(mgr, mgr'))

DoClose(id) ==
  /\ id \in DOMAIN mgr.sessions
  /\ mgr' = Close(mgr, Self, id)
  /\ Emit(ActiveEvent(mgr, mgr') \o <<[type |-> "Closed", id |-> id]>>)

DoReverseRole(id) ==
  /\ id \in DOMAIN mgr.sessions
  /\ mgr' = ReverseRole(mgr, id)
  /\ Emit(<<[type |-> "RoleChanged", id |-> id,
             role |-> Reversed(mgr.sessions[id].role)]>>)

DoYieldControl ==
  /\ mgr' = YieldControl(mgr, Self)
  /\ Emit(ActiveEvent(mgr, mgr'))

DoFollowPeer(peer) ==
  /\ CanFollow(mgr, peer)
  /\ mgr' = FollowPeer(mgr, peer)
  /\ Emit(ActiveEvent(mgr, mgr'))

DoHandleCrossing(m) ==
  /\ CanCross(mgr, Self, m)
  /\ mgr' = HandleCrossing(mgr, m)
  /\ Emit(ActiveEvent(mgr, mgr'))

-----------------------------------------------------------------------------
(* The listener                                                            *)

Apply(v, e) ==
  CASE e.type = "Established" ->
         [v EXCEPT !.sessions = Insert(@, e.id, [peer |-> e.peer, role |-> e.role])]
    [] e.type = "Closed"      -> [v EXCEPT !.sessions = Remove(@, e.id)]
    [] e.type = "RoleChanged" -> [v EXCEPT !.sessions[e.id].role = e.role]
    [] e.type = "ActiveTargetChanged" -> [v EXCEPT !.active = e.target]

Listen ==
  /\ events # <<>>
  /\ view' = Apply(view, Head(events))
  /\ events' = Tail(events)
  /\ UNCHANGED mgr

Next ==
  \/ \E id \in Session, peer \in Peer, role \in Role : DoEstablish(id, peer, role)
  \/ \E id \in Session : DoClose(id) \/ DoReverseRole(id)
  \/ DoYieldControl
  \/ \E peer \in Peer : DoFollowPeer(peer)
  \/ \E m \in Machine : DoHandleCrossing(m)
  \/ Listen

Spec == Init /\ [][Next]_vars

-----------------------------------------------------------------------------
(* Properties                                                              *)

\* by_peer indexes sessions exactly: every peer it lists has that session, and
\* every session is listed under its peer, so no session is unreachable and no
\* peer holds two.
IndexMatchesSessions ==
  /\ \A p \in DOMAIN mgr.by_peer :
       /\ mgr.by_peer[p] \in DOMAIN mgr.sessions
       /\ mgr.sessions[mgr.by_peer[p]].peer = p
  /\ \A id \in DOMAIN mgr.sessions :
       /\ mgr.sessions[id].peer \in DOMAIN mgr.by_peer
       /\ mgr.by_peer[mgr.sessions[id].peer] = id

\* Input never goes to a machine there is no session with, whatever order the
\* session was lost, taken over or crossed in.
ActiveHasSession == mgr.active # Self => mgr.active \in DOMAIN mgr.by_peer

\* The three tables of the manager agree, after every call of it:
\* establish, close, yield_control and handle_crossing each change several.
TablesAgree == IndexMatchesSessions /\ ActiveHasSession

\* A listener that has seen every event knows the sessions, the roles and the
\* active target: no method changes one of them without saying so.
EventsTellAll ==
  events = <<>> => view.sessions = mgr.sessions /\ view.active = mgr.active

\* Nor does a listener that lags ever believe input goes to a peer whose session
\* it knows to be closed: close() moves the target home before it says Closed.
ViewNeverDangles ==
  view.active # Self => \E id \in DOMAIN view.sessions : view.sessions[id].peer = view.active
=============================================================================
