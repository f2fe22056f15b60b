----------------------------- MODULE SessionOps -----------------------------
(***************************************************************************)
(* The operations of omni-session's SessionManager, on any record that has *)
(* its three fields:                                                       *)
(*                                                                         *)
(*   sessions   session id -> [peer, role]                                 *)
(*   by_peer    peer machine -> session id                                 *)
(*   active     the machine local input goes to; the local machine itself  *)
(*              stands for ActiveTarget::Local, any other for Remote       *)
(*                                                                         *)
(* `l' is always the manager's own machine.  An operation that returns an  *)
(* error leaves the record alone; the Can... operators are its success     *)
(* conditions.                                                             *)
(***************************************************************************)
EXTENDS Maps

CONSTANTS Machine,   \* machines, identified by their certificate
          Session    \* session ids

Role == {"Controller", "Target"}

Reversed(role) == IF role = "Controller" THEN "Target" ELSE "Controller"

SessionRec == [peer : Machine, role : Role]

\* SessionManager::new
NewSessions(l) == [sessions |-> EmptyMap, by_peer |-> EmptyMap, active |-> l]

-----------------------------------------------------------------------------
\* Mutant: the check that the peer has no session yet is missing.
CanEstablishTwice(s, id, peer) == id \notin DOMAIN s.sessions

CanEstablish(s, id, peer) ==
  /\ id \notin DOMAIN s.sessions     \* else DuplicateSession
  /\ peer \notin DOMAIN s.by_peer    \* else PeerAlreadyConnected

Establish(s, id, peer, role) ==
  [s EXCEPT !.sessions = Insert(@, id, [peer |-> peer, role |-> role]),
            !.by_peer  = Insert(@, peer, id)]

\* Mutant: the peer index is not cleaned up.
CloseKeepingPeer(s, l, id) ==
  IF id \in DOMAIN s.sessions
  THEN [s EXCEPT !.sessions = Remove(@, id),
                 !.active   = IF @ = s.sessions[id].peer THEN l ELSE @]
  ELSE s

Close(s, l, id) ==
  IF id \in DOMAIN s.sessions        \* else UnknownSession
  THEN [s EXCEPT !.sessions = Remove(@, id),
                 !.by_peer  = Remove(@, s.sessions[id].peer),
                 !.active   = IF @ = s.sessions[id].peer THEN l ELSE @]
  ELSE s

ReverseRole(s, id) ==
  [s EXCEPT !.sessions[id].role = Reversed(@)]

-----------------------------------------------------------------------------
YieldControl(s, l) == [s EXCEPT !.active = l]

CanFollow(s, peer) == peer \in DOMAIN s.by_peer    \* else NoSessionForPeer

FollowPeer(s, peer) == [s EXCEPT !.active = peer]

\* Only the way back to the local machine needs no session.
CanCross(s, l, m) == m = l \/ m \in DOMAIN s.by_peer

HandleCrossing(s, m) == [s EXCEPT !.active = m]
=============================================================================
