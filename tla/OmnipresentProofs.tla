------------------------- MODULE OmnipresentProofs --------------------------
(***************************************************************************)
(* What holds of the daemons in every behaviour of any number of machines  *)
(* and sessions, in seven parts: each critical section keeps a daemon      *)
(* consistent; so every daemon is consistent whenever its lock is free;    *)
(* the daemons implement InputOwner; every link belongs to one live task;  *)
(* listed requests and waiting tasks match; every variable has its type;   *)
(* and between two machines input that leaves one stays on the other.      *)
(***************************************************************************)
EXTENDS Omnipresent, ListProofs

-----------------------------------------------------------------------------
(***************************************************************************)
(* Every critical section of a daemon keeps the daemon consistent, for any *)
(* set of machines and sessions.  The consistency of the links, of the     *)
(* cursor and of the desktop is inductive only together: a lost session    *)
(* brings input home because the session table agrees with the links, and  *)
(* a movement never loses the cursor because the desktop does.             *)
(***************************************************************************)

Consistent(d, l) ==
  /\ IsDaemon(d)
  /\ l \notin DOMAIN d.links
  /\ LinksMatchSessions(d)
  /\ CursorFollowsInput(d, l)
  /\ DesktopMatchesLinks(d, l)

\* Consistent but for the suppression flag, as in the middle of route_captured.
Tracked(d, l) ==
  /\ IsDaemon(d)
  /\ l \notin DOMAIN d.links
  /\ LinksMatchSessions(d)
  /\ DesktopMatchesLinks(d, l)
  /\ d.cursor = d.active
  /\ d.active \in {l} \cup DOMAIN d.links

\* The flag is all that is missing.
LEMMA TrackedAndFlag ==
  ASSUME NEW l, NEW d
  PROVE  Consistent(d, l) <=> Tracked(d, l) /\ (d.suppress <=> d.active # l)
  BY Zenon DEF Consistent, Tracked, CursorFollowsInput

\* Whether the tables agree depends on the three tables only.
LEMMA SameTables ==
  ASSUME NEW d, NEW r, LinksMatchSessions(d),
         r.sessions = d.sessions, r.by_peer = d.by_peer, r.links = d.links
  PROVE  LinksMatchSessions(r)
  BY Zenon DEF LinksMatchSessions

-----------------------------------------------------------------------------
(* The desktop                                                             *)

\* The opposite of an edge is an edge.
LEMMA OppositeEdge == \A e \in Edge : Opposite(e) \in Edge
  BY DEF Edge, Opposite

\* For every choice of the peer an edge leads to, the neighbors of a desktop
\* lead from the local machine to a peer placed there and from a peer home.
LEMMA NeighborsLemma ==
  ASSUME NEW l \in Machine, NEW links, IsMap(links, Machine, Link), l \notin DOMAIN links,
         NEW front \in Fronts(links)
  PROVE  LET n == NeighborsOf(l, links, front) IN
         /\ IsMap(n, Machine \X Edge, Machine)
         /\ \A k \in DOMAIN n :
              IF k[1] = l
              THEN n[k] \in DOMAIN links /\ links[n[k]].edge = k[2]
              ELSE k[1] \in DOMAIN links /\ n[k] = l
         /\ \A p \in DOMAIN links :
              /\ <<p, Opposite(links[p].edge)>> \in DOMAIN n
              /\ <<l, links[p].edge>> \in DOMAIN n
<1> DEFINE n == NeighborsOf(l, links, front)
           out == {<<l, e>> : e \in DOMAIN front}
           back == {<<p, Opposite(links[p].edge)>> : p \in DOMAIN links}
<1>1. /\ DOMAIN front = {links[p].edge : p \in DOMAIN links}
      /\ \A e \in DOMAIN front : front[e] \in DOMAIN links /\ links[front[e]].edge = e
  BY DEF Fronts
<1>2. DOMAIN links \subseteq Machine /\ \A p \in DOMAIN links : links[p] \in Link
  BY DEF IsMap
<1>3. DOMAIN front \subseteq Edge
  BY <1>1, <1>2 DEF Link
<1>4. /\ DOMAIN n = out \cup back
      /\ \A k \in out \cup back : n[k] = IF k[1] = l THEN front[k[2]] ELSE l
  BY DEF NeighborsOf
<1>5. \A k \in out : k[1] = l /\ k[2] \in DOMAIN front /\ k \in Machine \X Edge
  BY <1>3
<1>6. \A k \in back : k[1] \in DOMAIN links /\ k[1] # l /\ k \in Machine \X Edge
  BY <1>2, OppositeEdge DEF Link
<1>7. \A k \in out : n[k] = front[k[2]]
  BY <1>4, <1>5
<1>8. \A k \in back : n[k] = l
  BY <1>4, <1>6
<1>9. IsMap(n, Machine \X Edge, Machine)
  <2>1. n = [k \in DOMAIN n |-> n[k]]
    BY DEF NeighborsOf
  <2>2. \A k \in DOMAIN n : n[k] \in Machine
    BY <1>1, <1>2, <1>4, <1>5, <1>7, <1>8
  <2>3. DOMAIN n \subseteq Machine \X Edge
    BY <1>4, <1>5, <1>6
  <2> QED
    BY <2>1, <2>2, <2>3 DEF IsMap
<1>10. \A k \in DOMAIN n :
         IF k[1] = l
         THEN n[k] \in DOMAIN links /\ links[n[k]].edge = k[2]
         ELSE k[1] \in DOMAIN links /\ n[k] = l
  BY <1>1, <1>4, <1>5, <1>6, <1>7, <1>8
<1>11. \A p \in DOMAIN links :
         <<p, Opposite(links[p].edge)>> \in DOMAIN n /\ <<l, links[p].edge>> \in DOMAIN n
  BY <1>1, <1>4
<1> QED
  BY <1>9, <1>10, <1>11

\* rebuild_layout makes the desktop match the links and keeps the cursor on it,
\* whatever the desktop was before; it touches nothing else.
LEMMA RebuildLemma ==
  ASSUME NEW l \in Machine, NEW d, IsDaemon(d), l \notin DOMAIN d.links,
         NEW front \in Fronts(d.links)
  PROVE  LET r == RebuildLayout(d, l, front) IN
         /\ IsDaemon(r)
         /\ DesktopMatchesLinks(r, l)
         /\ r.sessions = d.sessions /\ r.by_peer = d.by_peer /\ r.active = d.active
         /\ r.links = d.links /\ r.suppress = d.suppress
         /\ r.cursor = IF d.cursor \in {l} \cup DOMAIN d.links THEN d.cursor ELSE l
<1> DEFINE r == RebuildLayout(d, l, front)
           n == NeighborsOf(l, d.links, front)
<1>2. /\ r.sessions = d.sessions /\ r.by_peer = d.by_peer /\ r.active = d.active
      /\ r.links = d.links /\ r.suppress = d.suppress /\ r.placements = d.placements
      /\ r.layout = [machines |-> {l} \cup DOMAIN d.links, neighbors |-> n]
      /\ r.cursor = IF d.cursor \in {l} \cup DOMAIN d.links THEN d.cursor ELSE l
  BY DEF RebuildLayout, IsDaemon
<1> HIDE DEF r, n
<1>3. /\ r.layout.machines = {l} \cup DOMAIN d.links
      /\ r.layout.neighbors = n
  BY <1>2
<1>4. IsMap(d.links, Machine, Link)
  BY DEF IsDaemon
<1>5. /\ IsMap(n, Machine \X Edge, Machine)
      /\ \A k \in DOMAIN n :
           IF k[1] = l
           THEN n[k] \in DOMAIN d.links /\ d.links[n[k]].edge = k[2]
           ELSE k[1] \in DOMAIN d.links /\ n[k] = l
      /\ \A p \in DOMAIN d.links :
           /\ <<p, Opposite(d.links[p].edge)>> \in DOMAIN n
           /\ <<l, d.links[p].edge>> \in DOMAIN n
  BY <1>4, NeighborsLemma DEF n
<1>6. DesktopMatchesLinks(r, l)
  BY <1>2, <1>3, <1>5 DEF DesktopMatchesLinks
<1>7. IsDaemon(r)
  <2>1. r.cursor \in Machine /\ r.layout.machines \subseteq Machine
    BY <1>2, <1>3, <1>4 DEF IsDaemon, IsMap
  <2>2. /\ r \in [sessions : {r.sessions}, by_peer : {r.by_peer}, active : Machine,
                  links : {r.links}, layout : {r.layout}, cursor : Machine,
                  suppress : BOOLEAN, placements : {r.placements}]
    BY <1>2, <2>1 DEF RebuildLayout, IsDaemon, r
  <2>3. r.layout \in [machines : SUBSET Machine, neighbors : {r.layout.neighbors}]
    BY <1>2, <2>1
  <2> QED
    BY <1>2, <1>3, <1>5, <2>2, <2>3 DEF IsDaemon
<1> QED
  BY <1>2, <1>6, <1>7 DEF r

\* sync_suppression brings the flag in line with the active target and changes
\* nothing else.
LEMMA SyncLemma ==
  ASSUME NEW l \in Machine, NEW d, IsDaemon(d)
  PROVE  LET r == SyncSuppression(d, l) IN
         /\ IsDaemon(r)
         /\ r.suppress = (d.active # l)
         /\ r.sessions = d.sessions /\ r.by_peer = d.by_peer /\ r.active = d.active
         /\ r.links = d.links /\ r.layout = d.layout /\ r.cursor = d.cursor
  BY DEF SyncSuppression, IsDaemon

-----------------------------------------------------------------------------
(* Sessions come and go                                                    *)

\* A daemon starts consistent.
LEMMA NewConsistent ==
  ASSUME NEW l \in Machine, NEW pl, IsMap(pl, Machine, Edge)
  PROVE  Consistent(NewDaemon(l, pl), l)
<1> DEFINE d == [sessions |-> EmptyMap, by_peer |-> EmptyMap, active |-> l,
                 links |-> EmptyMap, layout |-> [machines |-> {}, neighbors |-> EmptyMap],
                 cursor |-> l, suppress |-> FALSE, placements |-> pl]
           r == RebuildLayout(d, l, EmptyMap)
<1>1. \A K, V : IsMap(EmptyMap, K, V)
  BY DEF IsMap, EmptyMap
<1>2. DOMAIN EmptyMap = {}
  BY DEF EmptyMap
<1>3. IsDaemon(d)
  BY <1>1 DEF IsDaemon
<1>4. EmptyMap \in Fronts(d.links)
  BY DEF Fronts, EmptyMap
<1>5. /\ d.sessions = EmptyMap /\ d.by_peer = EmptyMap /\ d.active = l
      /\ d.links = EmptyMap /\ d.cursor = l /\ d.suppress = FALSE
  OBVIOUS
<1> HIDE DEF d
<1>6. /\ IsDaemon(r) /\ DesktopMatchesLinks(r, l)
      /\ r.sessions = EmptyMap /\ r.by_peer = EmptyMap /\ r.active = l
      /\ r.links = EmptyMap /\ r.suppress = FALSE /\ r.cursor = l
  BY <1>2, <1>3, <1>4, <1>5, RebuildLemma
<1> HIDE DEF r
<1>7. Consistent(r, l)
  BY <1>2, <1>6 DEF Consistent, LinksMatchSessions, CursorFollowsInput
<1> QED
  BY <1>7 DEF NewDaemon, r, d

\* establish and the insertion of the link add the same session to all three
\* tables; the desktop is rebuilt around the new link.
LEMMA LinkUpConsistent ==
  ASSUME NEW l \in Machine, NEW d, Consistent(d, l),
         NEW id \in Session, NEW p \in Machine, p # l, NEW role \in Role,
         CanEstablish(d, id, p),
         NEW front \in Fronts(LinkUp(d, id, p, role).links)
  PROVE  Consistent(RebuildLayout(LinkUp(d, id, p, role), l, front), l)
<1> DEFINE u == LinkUp(d, id, p, role)
           link == [session |-> id, role |-> role, edge |-> EdgeFor(d, p, role), commands |-> <<>>]
           rec == [peer |-> p, role |-> role]
           r == RebuildLayout(u, l, front)
<1>1. IsDaemon(d) /\ l \notin DOMAIN d.links
  BY DEF Consistent
<1> /\ IsMap(d.sessions, Session, SessionRec)
    /\ IsMap(d.by_peer, Machine, Session)
    /\ IsMap(d.links, Machine, Link)
  BY <1>1 DEF IsDaemon
<1>2. link \in Link /\ rec \in SessionRec
  <2>1. EdgeFor(d, p, role) \in Edge
    BY <1>1 DEF EdgeFor, IsDaemon, IsMap, Edge
  <2>2. <<>> \in Seq(Command)
    OBVIOUS
  <2> QED
    BY <2>1, <2>2 DEF Link, SessionRec
<1>3. /\ u.sessions = Insert(d.sessions, id, rec) /\ u.by_peer = Insert(d.by_peer, p, id)
      /\ u.links = Insert(d.links, p, link)
      /\ u.active = d.active /\ u.cursor = d.cursor /\ u.suppress = d.suppress
      /\ u.layout = d.layout /\ u.placements = d.placements
  BY <1>1 DEF LinkUp, Establish, IsDaemon
<1>4. u \in [sessions : {u.sessions}, by_peer : {u.by_peer}, active : Machine,
             links : {u.links}, layout : {u.layout}, cursor : Machine,
             suppress : BOOLEAN, placements : {u.placements}]
  BY <1>1 DEF LinkUp, Establish, IsDaemon
<1> HIDE DEF u, link, rec
<1>5. /\ IsMap(u.sessions, Session, SessionRec)
      /\ DOMAIN u.sessions = DOMAIN d.sessions \cup {id}
      /\ u.sessions[id] = rec
      /\ \A x \in DOMAIN d.sessions \ {id} : u.sessions[x] = d.sessions[x]
  BY <1>2, <1>3 DEF Insert, IsMap
<1>6. /\ IsMap(u.by_peer, Machine, Session)
      /\ DOMAIN u.by_peer = DOMAIN d.by_peer \cup {p}
      /\ u.by_peer[p] = id
      /\ \A x \in DOMAIN d.by_peer \ {p} : u.by_peer[x] = d.by_peer[x]
  BY <1>3 DEF Insert, IsMap
<1>7. /\ IsMap(u.links, Machine, Link)
      /\ DOMAIN u.links = DOMAIN d.links \cup {p}
      /\ u.links[p] = link
      /\ \A x \in DOMAIN d.links \ {p} : u.links[x] = d.links[x]
  BY <1>2, <1>3 DEF Insert, IsMap
<1>8. IsDaemon(u)
  BY <1>1, <1>3, <1>4, <1>5, <1>6, <1>7 DEF IsDaemon
<1>9. /\ IsDaemon(r) /\ DesktopMatchesLinks(r, l)
      /\ r.sessions = u.sessions /\ r.by_peer = u.by_peer /\ r.active = u.active
      /\ r.links = u.links /\ r.suppress = u.suppress
      /\ r.cursor = IF u.cursor \in {l} \cup DOMAIN u.links THEN u.cursor ELSE l
  BY <1>1, <1>7, <1>8, RebuildLemma DEF u
<1> HIDE DEF r
<1>10. link.session = id /\ link.role = role /\ rec.peer = p /\ rec.role = role
  BY DEF link, rec
<1>11. LinksMatchSessions(r)
  <2>1. /\ LinksMatchSessions(d) /\ id \notin DOMAIN d.sessions /\ p \notin DOMAIN d.links
    BY DEF Consistent, CanEstablish, LinksMatchSessions
  <2>2. DOMAIN r.by_peer = DOMAIN r.links
    BY <1>6, <1>7, <1>9, <2>1 DEF LinksMatchSessions
  <2>3. \A q \in DOMAIN r.links :
          /\ r.by_peer[q] = r.links[q].session
          /\ r.links[q].session \in DOMAIN r.sessions
          /\ r.sessions[r.links[q].session].peer = q
          /\ r.sessions[r.links[q].session].role = r.links[q].role
    <3> SUFFICES ASSUME NEW q \in DOMAIN r.links
                 PROVE  /\ r.by_peer[q] = r.links[q].session
                        /\ r.links[q].session \in DOMAIN r.sessions
                        /\ r.sessions[r.links[q].session].peer = q
                        /\ r.sessions[r.links[q].session].role = r.links[q].role
      OBVIOUS
    <3>1. CASE q = p
      BY <3>1, <1>5, <1>6, <1>7, <1>9, <1>10 DEF rec
    <3>2. CASE q # p
      BY <3>2, <1>5, <1>6, <1>7, <1>9, <2>1, SMTT(30) DEF LinksMatchSessions
    <3> QED
      BY <3>1, <3>2
  <2>4. \A x \in DOMAIN r.sessions :
          r.sessions[x].peer \in DOMAIN r.links /\ r.links[r.sessions[x].peer].session = x
    <3> SUFFICES ASSUME NEW x \in DOMAIN r.sessions
                 PROVE  r.sessions[x].peer \in DOMAIN r.links /\ r.links[r.sessions[x].peer].session = x
      OBVIOUS
    <3>1. CASE x = id
      BY <3>1, <1>5, <1>7, <1>9, <1>10
    <3>2. CASE x # id
      BY <3>2, <1>5, <1>7, <1>9, <2>1 DEF LinksMatchSessions
    <3> QED
      BY <3>1, <3>2
  <2> QED
    BY <2>2, <2>3, <2>4 DEF LinksMatchSessions
<1>12. CursorFollowsInput(r, l)
  BY <1>3, <1>7, <1>9 DEF Consistent, CursorFollowsInput
<1>13. l \notin DOMAIN r.links
  BY <1>1, <1>7, <1>9
<1> QED
  BY <1>9, <1>11, <1>12, <1>13 DEF Consistent, r, u

\* Taking a link down closes its session, and input that went to that peer comes
\* home; the cursor and the flag are dealt with by the callers.
LEMMA LinkDownLemma ==
  ASSUME NEW l \in Machine, NEW d, Consistent(d, l), NEW p \in Machine
  PROVE  LET u == LinkDown(d, l, p) IN
         /\ IsDaemon(u)
         /\ DOMAIN u.links = DOMAIN d.links \ {p}
         /\ LinksMatchSessions(u)
         /\ u.active = IF d.active = p THEN l ELSE d.active
         /\ u.cursor = d.cursor
<1> DEFINE u == LinkDown(d, l, p)
           id == d.links[p].session
<1>1. /\ IsDaemon(d) /\ l \notin DOMAIN d.links /\ LinksMatchSessions(d)
      /\ d.active \in {l} \cup DOMAIN d.links
  BY DEF Consistent, CursorFollowsInput
<1>2. CASE p \notin DOMAIN d.links
  <2>1. u = d
    BY <1>2 DEF LinkDown
  <2> QED
    BY <1>1, <1>2, <2>1
<1>3. CASE p \in DOMAIN d.links
  <2>1. id \in DOMAIN d.sessions /\ d.sessions[id].peer = p
    BY <1>1, <1>3 DEF LinksMatchSessions
  <2>2. u = [[d EXCEPT !.sessions = Remove(d.sessions, id), !.by_peer = Remove(d.by_peer, p),
                       !.active = IF d.active = p THEN l ELSE d.active]
               EXCEPT !.links = Remove(@, p)]
    BY <1>3, <2>1 DEF LinkDown, Close
  <2>3. /\ u.sessions = Remove(d.sessions, id) /\ u.by_peer = Remove(d.by_peer, p)
        /\ u.links = Remove(d.links, p)
        /\ u.active = IF d.active = p THEN l ELSE d.active
        /\ u.cursor = d.cursor /\ u.suppress = d.suppress
        /\ u.layout = d.layout /\ u.placements = d.placements
        /\ u \in [sessions : {u.sessions}, by_peer : {u.by_peer}, active : Machine,
                  links : {u.links}, layout : {u.layout}, cursor : Machine,
                  suppress : BOOLEAN, placements : {u.placements}]
    BY <1>1, <2>2 DEF IsDaemon
  <2> HIDE DEF u, id
  <2>4. /\ IsMap(u.sessions, Session, SessionRec)
        /\ DOMAIN u.sessions = DOMAIN d.sessions \ {id}
        /\ \A x \in DOMAIN d.sessions \ {id} : u.sessions[x] = d.sessions[x]
    <3>1. IsMap(d.sessions, Session, SessionRec)
      BY <1>1 DEF IsDaemon
    <3> QED
      BY <2>3, <3>1 DEF Remove, IsMap
  <2>5. /\ IsMap(u.by_peer, Machine, Session)
        /\ DOMAIN u.by_peer = DOMAIN d.by_peer \ {p}
        /\ \A x \in DOMAIN d.by_peer \ {p} : u.by_peer[x] = d.by_peer[x]
    <3>1. IsMap(d.by_peer, Machine, Session)
      BY <1>1 DEF IsDaemon
    <3> QED
      BY <2>3, <3>1 DEF Remove, IsMap
  <2>6. /\ IsMap(u.links, Machine, Link)
        /\ DOMAIN u.links = DOMAIN d.links \ {p}
        /\ \A x \in DOMAIN d.links \ {p} : u.links[x] = d.links[x]
    <3>1. IsMap(d.links, Machine, Link)
      BY <1>1 DEF IsDaemon
    <3> QED
      BY <2>3, <3>1 DEF Remove, IsMap
  <2>7. IsDaemon(u)
    BY <1>1, <2>3, <2>4, <2>5, <2>6 DEF IsDaemon
  <2>8. \A q \in DOMAIN d.links \ {p} : d.links[q].session # id
    BY <1>1, <1>3 DEF LinksMatchSessions, id
  <2>9. \A x \in DOMAIN d.sessions \ {id} : d.sessions[x].peer # p
    BY <1>1, <1>3 DEF LinksMatchSessions, id
  <2>10. LinksMatchSessions(u)
    BY <1>1, <2>4, <2>5, <2>6, <2>8, <2>9 DEF LinksMatchSessions
  <2> QED
    BY <2>3, <2>6, <2>7, <2>10 DEF u
<1> QED
  BY <1>2, <1>3

\* cleanup_peer leaves a consistent daemon whichever peer it is called for: if
\* input went to that peer, it, the cursor and the flag all come home.
LEMMA CleanupConsistent ==
  ASSUME NEW l \in Machine, NEW d, Consistent(d, l), NEW p \in Machine,
         NEW front \in Fronts(LinkDown(d, l, p).links)
  PROVE  Consistent(CleanupPeer(d, l, p, front), l)
<1> DEFINE u == LinkDown(d, l, p)
           b == RebuildLayout(u, l, front)
           r == SyncSuppression(b, l)
<1>1. /\ l \notin DOMAIN d.links /\ d.cursor = d.active
      /\ d.active \in {l} \cup DOMAIN d.links
  BY DEF Consistent, CursorFollowsInput
<1>2. /\ IsDaemon(u) /\ DOMAIN u.links = DOMAIN d.links \ {p} /\ LinksMatchSessions(u)
      /\ u.active = IF d.active = p THEN l ELSE d.active
      /\ u.cursor = d.cursor
  BY LinkDownLemma
<1> HIDE DEF u
<1>3. /\ IsDaemon(b) /\ DesktopMatchesLinks(b, l)
      /\ b.sessions = u.sessions /\ b.by_peer = u.by_peer /\ b.active = u.active
      /\ b.links = u.links
      /\ b.cursor = IF u.cursor \in {l} \cup DOMAIN u.links THEN u.cursor ELSE l
  BY <1>1, <1>2, RebuildLemma DEF u
<1> HIDE DEF b
<1>4. /\ IsDaemon(r) /\ r.suppress = (b.active # l)
      /\ r.sessions = b.sessions /\ r.by_peer = b.by_peer /\ r.active = b.active
      /\ r.links = b.links /\ r.layout = b.layout /\ r.cursor = b.cursor
  BY <1>3, SyncLemma
<1> HIDE DEF r
<1>5. LinksMatchSessions(r)
  <2>1. r.sessions = u.sessions /\ r.by_peer = u.by_peer /\ r.links = u.links
    BY <1>3, <1>4
  <2> QED
    BY <1>2, <2>1, SameTables
<1>6. DesktopMatchesLinks(r, l)
  BY <1>3, <1>4 DEF DesktopMatchesLinks
<1>7. r.cursor = r.active /\ r.active \in {l} \cup DOMAIN r.links
  BY <1>1, <1>2, <1>3, <1>4
<1>8. r.suppress <=> r.active # l
  BY <1>4, Zenon
<1> QED
  BY <1>1, <1>2, <1>3, <1>4, <1>5, <1>6, <1>7, <1>8
     DEF Consistent, CursorFollowsInput, CleanupPeer, u, b, r

\* Whatever changes neither the tables nor the desktop keeps a daemon on track
\* if it leaves the cursor with the active target.
LEMMA Redirected ==
  ASSUME NEW l \in Machine, NEW d, Tracked(d, l), NEW r, IsDaemon(r),
         r.sessions = d.sessions, r.by_peer = d.by_peer, r.links = d.links,
         r.layout = d.layout, r.cursor = r.active, r.active \in {l} \cup DOMAIN r.links
  PROVE  Tracked(r, l)
<1>1. LinksMatchSessions(r)
  BY SameTables DEF Tracked
<1>2. DesktopMatchesLinks(r, l)
  BY Zenon DEF Tracked, DesktopMatchesLinks
<1> QED
  BY <1>1, <1>2 DEF Tracked

\* So does a change of the links that keeps their keys, sessions, roles and
\* edges: that is all the tables and the desktop depend on.
LEMMA SameShape ==
  ASSUME NEW l \in Machine, NEW d, Tracked(d, l), NEW r, IsDaemon(r),
         r.sessions = d.sessions, r.by_peer = d.by_peer, r.layout = d.layout,
         r.active = d.active, r.cursor = d.cursor,
         DOMAIN r.links = DOMAIN d.links,
         \A p \in DOMAIN d.links : /\ r.links[p].session = d.links[p].session
                                   /\ r.links[p].role = d.links[p].role
                                   /\ r.links[p].edge = d.links[p].edge
  PROVE  Tracked(r, l)
<1>1. LinksMatchSessions(r)
  BY DEF Tracked, LinksMatchSessions
<1>2. DesktopMatchesLinks(r, l)
  BY DEF Tracked, DesktopMatchesLinks
<1> QED
  BY <1>1, <1>2 DEF Tracked

-----------------------------------------------------------------------------
(* Commands                                                                *)

\* Queueing a command leaves the rest of the link alone.
LEMMA QueuedLink ==
  ASSUME NEW k \in Link, NEW command \in Command
  PROVE  /\ Queued(k, command) \in Link
         /\ Queued(k, command).session = k.session
         /\ Queued(k, command).role = k.role
         /\ Queued(k, command).edge = k.edge
  BY DEF Queued, Link

\* Taking a command off its queue leaves the rest of the link alone as well.
LEMMA DequeuedLink ==
  ASSUME NEW k \in Link, k.commands # <<>>
  PROVE  /\ Dequeued(k) \in Link
         /\ Dequeued(k).session = k.session
         /\ Dequeued(k).role = k.role
         /\ Dequeued(k).edge = k.edge
  BY DEF Dequeued, Link

\* Queueing a command for any set of peers, also in the middle of route_captured.
LEMMA SendTracked ==
  ASSUME NEW l \in Machine, NEW d, Tracked(d, l), NEW ps, NEW command \in Command
  PROVE  /\ Tracked(Send(d, ps, command), l)
         /\ Send(d, ps, command).suppress = d.suppress
         /\ Send(d, ps, command).active = d.active
<1> DEFINE r == Send(d, ps, command)
<1>1. IsDaemon(d) /\ IsMap(d.links, Machine, Link)
  BY DEF Tracked, IsDaemon
<1>2. /\ r.sessions = d.sessions /\ r.by_peer = d.by_peer /\ r.active = d.active
      /\ r.cursor = d.cursor /\ r.suppress = d.suppress /\ r.layout = d.layout
      /\ r.placements = d.placements
      /\ r.links = [p \in DOMAIN d.links |->
                     IF p \in ps THEN Queued(d.links[p], command)
                     ELSE d.links[p]]
      /\ r \in [sessions : {r.sessions}, by_peer : {r.by_peer}, active : Machine,
                links : {r.links}, layout : {r.layout}, cursor : Machine,
                suppress : BOOLEAN, placements : {r.placements}]
  BY <1>1 DEF Send, IsDaemon
<1> HIDE DEF r
<1>3. \A p \in DOMAIN d.links :
        /\ r.links[p] \in Link
        /\ r.links[p].session = d.links[p].session
        /\ r.links[p].role = d.links[p].role
        /\ r.links[p].edge = d.links[p].edge
  BY <1>1, <1>2, QueuedLink DEF IsMap
<1>4. IsMap(r.links, Machine, Link)
  BY <1>1, <1>2, <1>3 DEF IsMap
<1>5. IsDaemon(r)
  BY <1>1, <1>2, <1>4 DEF IsDaemon
<1> QED
  BY <1>2, <1>3, <1>5, SameShape, ZenonT(40) DEF r

\* Queueing a command, as the IPC requests do.
LEMMA SendConsistent ==
  ASSUME NEW l \in Machine, NEW d, Consistent(d, l), NEW ps, NEW command \in Command
  PROVE  Consistent(Send(d, ps, command), l)
<1>1. Tracked(d, l) /\ (d.suppress <=> d.active # l)
  BY TrackedAndFlag
<1> DEFINE r == Send(d, ps, command)
<1>2. Tracked(r, l) /\ r.suppress = d.suppress /\ r.active = d.active
  BY <1>1, SendTracked
<1> HIDE DEF r
<1>3. r.suppress <=> r.active # l
  BY <1>1, <1>2, Zenon
<1> QED
  BY <1>2, <1>3, TrackedAndFlag DEF r

\* Taking the oldest command off a peer's queue, as its task does.
LEMMA DropConsistent ==
  ASSUME NEW l \in Machine, NEW d, Consistent(d, l), NEW p,
         p \in DOMAIN d.links => d.links[p].commands # <<>>
  PROVE  Consistent(DropCommand(d, p), l)
<1> DEFINE r == DropCommand(d, p)
<1>1. IsDaemon(d) /\ IsMap(d.links, Machine, Link)
  BY DEF Consistent, IsDaemon
<1>2. /\ r.sessions = d.sessions /\ r.by_peer = d.by_peer /\ r.active = d.active
      /\ r.cursor = d.cursor /\ r.suppress = d.suppress /\ r.layout = d.layout
      /\ r.placements = d.placements
      /\ r.links = [q \in DOMAIN d.links |->
                     IF q = p THEN Dequeued(d.links[q]) ELSE d.links[q]]
      /\ r \in [sessions : {r.sessions}, by_peer : {r.by_peer}, active : Machine,
                links : {r.links}, layout : {r.layout}, cursor : Machine,
                suppress : BOOLEAN, placements : {r.placements}]
  BY <1>1 DEF DropCommand, IsDaemon
<1> HIDE DEF r
<1>3. \A q \in DOMAIN d.links :
        /\ r.links[q] \in Link
        /\ r.links[q].session = d.links[q].session
        /\ r.links[q].role = d.links[q].role
        /\ r.links[q].edge = d.links[q].edge
  BY <1>1, <1>2, DequeuedLink DEF IsMap
<1>4. DOMAIN r.links = DOMAIN d.links /\ IsMap(r.links, Machine, Link)
  BY <1>1, <1>2, <1>3 DEF IsMap
<1>5. IsDaemon(r)
  BY <1>1, <1>2, <1>4 DEF IsDaemon
<1>6. Tracked(d, l) /\ (d.suppress <=> d.active # l)
  BY TrackedAndFlag
<1>7. Tracked(r, l)
  BY <1>2, <1>3, <1>4, <1>5, <1>6, SameShape
<1>8. r.suppress <=> r.active # l
  BY <1>2, <1>6, Zenon
<1> QED
  BY <1>7, <1>8, TrackedAndFlag DEF r

\* set_layout moves a peer to another edge, live or for later; the cursor stays
\* where it is and still has a way home.
LEMMA SetLayoutConsistent ==
  ASSUME NEW l \in Machine, NEW d, Consistent(d, l), NEW p \in Machine, NEW e \in Edge,
         NEW front \in Fronts(Placed(d, p, e).links)
  PROVE  Consistent(SetLayout(d, l, p, e, front), l)
<1> DEFINE u == Placed(d, p, e)
           b == RebuildLayout(u, l, front)
           r == SyncSuppression(b, l)
<1>1. /\ IsDaemon(d) /\ IsMap(d.links, Machine, Link) /\ IsMap(d.placements, Machine, Edge)
      /\ l \notin DOMAIN d.links /\ LinksMatchSessions(d)
      /\ d.cursor = d.active /\ d.active \in {l} \cup DOMAIN d.links
      /\ d.suppress <=> d.active # l
  BY DEF Consistent, IsDaemon, CursorFollowsInput
<1>2. /\ u.sessions = d.sessions /\ u.by_peer = d.by_peer /\ u.active = d.active
      /\ u.cursor = d.cursor /\ u.suppress = d.suppress /\ u.layout = d.layout
      /\ u.placements = Insert(d.placements, p, e)
      /\ u.links = [q \in DOMAIN d.links |->
                     IF q = p THEN [d.links[q] EXCEPT !.edge = e] ELSE d.links[q]]
      /\ u \in [sessions : {u.sessions}, by_peer : {u.by_peer}, active : Machine,
                links : {u.links}, layout : {u.layout}, cursor : Machine,
                suppress : BOOLEAN, placements : {u.placements}]
  BY <1>1 DEF Placed, IsDaemon
<1> HIDE DEF u
<1>3. \A k \in Link : /\ [k EXCEPT !.edge = e] \in Link
                      /\ [k EXCEPT !.edge = e].session = k.session
                      /\ [k EXCEPT !.edge = e].role = k.role
  BY DEF Link
<1>4. /\ DOMAIN u.links = DOMAIN d.links
      /\ \A q \in DOMAIN d.links : /\ u.links[q] \in Link
                                    /\ u.links[q].session = d.links[q].session
                                    /\ u.links[q].role = d.links[q].role
  BY <1>1, <1>2, <1>3 DEF IsMap
<1>5. IsMap(u.links, Machine, Link)
  BY <1>1, <1>2, <1>4, SMTT(30) DEF IsMap
<1>6. IsMap(u.placements, Machine, Edge)
  BY <1>1, <1>2 DEF IsMap, Insert
<1>7. IsDaemon(u)
  BY <1>1, <1>2, <1>5, <1>6 DEF IsDaemon
<1>8. LinksMatchSessions(u)
  BY <1>1, <1>2, <1>4, SMTT(30) DEF LinksMatchSessions
<1>9. CASE DOMAIN d.links = {}
  <2>1. SetLayout(d, l, p, e, front) = u
    BY <1>9 DEF SetLayout, u
  <2>2. DesktopMatchesLinks(u, l)
    BY <1>2, <1>4, <1>9 DEF Consistent, DesktopMatchesLinks
  <2>3. u.suppress <=> u.active # l
    BY <1>1, <1>2, Zenon
  <2>4. CursorFollowsInput(u, l)
    BY <1>1, <1>2, <1>4, <2>3 DEF CursorFollowsInput
  <2> QED
    BY <1>1, <1>4, <1>7, <1>8, <2>1, <2>2, <2>4 DEF Consistent
<1>10. CASE DOMAIN d.links # {}
  <2>1. SetLayout(d, l, p, e, front) = r
    BY <1>10 DEF SetLayout, u
  <2>2. /\ IsDaemon(b) /\ DesktopMatchesLinks(b, l)
        /\ b.sessions = u.sessions /\ b.by_peer = u.by_peer /\ b.active = u.active
        /\ b.links = u.links
        /\ b.cursor = IF u.cursor \in {l} \cup DOMAIN u.links THEN u.cursor ELSE l
    BY <1>1, <1>4, <1>7, RebuildLemma DEF u
  <2> HIDE DEF b
  <2>3. /\ IsDaemon(r) /\ r.suppress = (b.active # l)
        /\ r.sessions = b.sessions /\ r.by_peer = b.by_peer /\ r.active = b.active
        /\ r.links = b.links /\ r.layout = b.layout /\ r.cursor = b.cursor
    BY <2>2, SyncLemma
  <2> HIDE DEF r
  <2>4. LinksMatchSessions(r)
    <3>1. r.sessions = u.sessions /\ r.by_peer = u.by_peer /\ r.links = u.links
      BY <2>2, <2>3
    <3> QED
      BY <1>8, <3>1, SameTables
  <2>5. DesktopMatchesLinks(r, l)
    BY <2>2, <2>3 DEF DesktopMatchesLinks
  <2>6. r.cursor = r.active /\ r.active \in {l} \cup DOMAIN r.links
    BY <1>1, <1>2, <1>4, <2>2, <2>3
  <2>7. r.suppress <=> r.active # l
    BY <2>3, Zenon
  <2> QED
    BY <1>1, <1>4, <2>1, <2>2, <2>3, <2>4, <2>5, <2>6, <2>7 DEF Consistent, CursorFollowsInput
<1> QED
  BY <1>9, <1>10

-----------------------------------------------------------------------------
(* Where input goes                                                        *)

\* Sending input to a machine of the desktop, with the cursor on it.
LEMMA TargetTracked ==
  ASSUME NEW l \in Machine, NEW d, Tracked(d, l), NEW to \in {l} \cup DOMAIN d.links
  PROVE  Tracked([[d EXCEPT !.active = to] EXCEPT !.cursor = to], l)
<1> DEFINE u == [[d EXCEPT !.active = to] EXCEPT !.cursor = to]
<1>1. IsDaemon(d) /\ to \in Machine
  BY DEF Tracked, IsDaemon, IsMap
<1>2. /\ u.sessions = d.sessions /\ u.by_peer = d.by_peer /\ u.active = to
      /\ u.cursor = to /\ u.links = d.links /\ u.layout = d.layout
      /\ u.placements = d.placements
      /\ u \in [sessions : {u.sessions}, by_peer : {u.by_peer}, active : Machine,
                links : {u.links}, layout : {u.layout}, cursor : Machine,
                suppress : BOOLEAN, placements : {u.placements}]
  BY <1>1 DEF IsDaemon
<1> HIDE DEF u
<1>3. IsDaemon(u)
  BY <1>1, <1>2 DEF IsDaemon
<1>4. Tracked(u, l)
  BY <1>2, <1>3, Redirected
<1> QED
  BY <1>4 DEF u

\* sync_suppression makes up for the flag.
LEMMA SyncConsistent ==
  ASSUME NEW l \in Machine, NEW d, Tracked(d, l)
  PROVE  Consistent(SyncSuppression(d, l), l)
<1> DEFINE r == SyncSuppression(d, l)
<1>1. IsDaemon(d) /\ d.cursor = d.active /\ d.active \in {l} \cup DOMAIN d.links
  BY DEF Tracked
<1>2. /\ IsDaemon(r) /\ r.suppress = (d.active # l)
      /\ r.sessions = d.sessions /\ r.by_peer = d.by_peer /\ r.active = d.active
      /\ r.links = d.links /\ r.layout = d.layout /\ r.cursor = d.cursor
  BY <1>1, SyncLemma
<1> HIDE DEF r
<1>3. r.suppress <=> r.active # l
  BY <1>2, Zenon
<1>4. Tracked(r, l)
  BY <1>1, <1>2, Redirected
<1> QED
  BY <1>3, <1>4, TrackedAndFlag DEF r

\* A peer takes over: whatever this machine was driving, it stops.
LEMMA YieldConsistent ==
  ASSUME NEW l \in Machine, NEW d, Consistent(d, l)
  PROVE  Consistent(YieldControlToPeer(d, l), l)
  BY TrackedAndFlag, TargetTracked, SyncConsistent DEF YieldControlToPeer, YieldControl

\* The cursor went back to a peer: input follows it, if the peer is known.
LEMMA FollowConsistent ==
  ASSUME NEW l \in Machine, NEW d, Consistent(d, l), NEW p \in Machine
  PROVE  Consistent(FollowPeerCursor(d, l, p), l)
<1>1. CanFollow(d, p) => p \in {l} \cup DOMAIN d.links
  BY DEF CanFollow, Consistent, LinksMatchSessions
<1> QED
  BY <1>1, TrackedAndFlag, TargetTracked, SyncConsistent DEF FollowPeerCursor, FollowPeer

\* While input is local the tracked cursor may be set to where the system has it,
\* which is on this machine.
LEMMA SyncedTracked ==
  ASSUME NEW l \in Machine, NEW d, Consistent(d, l), NEW known
  PROVE  Tracked(IF d.active = l THEN SyncCursorToOs(d, l, known) ELSE d, l)
<1> DEFINE s == IF d.active = l THEN SyncCursorToOs(d, l, known) ELSE d
<1>1. Tracked(d, l)
  BY TrackedAndFlag
<1>2. CASE d.active = l /\ known
  <2> DEFINE u == [d EXCEPT !.cursor = l]
  <2>1. s = u
    BY <1>2 DEF SyncCursorToOs
  <2>2. IsDaemon(d) /\ d.cursor = l
    BY <1>1, <1>2 DEF Tracked
  <2>3. /\ u.sessions = d.sessions /\ u.by_peer = d.by_peer /\ u.active = d.active
        /\ u.cursor = l /\ u.links = d.links /\ u.layout = d.layout
        /\ u.placements = d.placements
        /\ u \in [sessions : {u.sessions}, by_peer : {u.by_peer}, active : Machine,
                  links : {u.links}, layout : {u.layout}, cursor : Machine,
                  suppress : BOOLEAN, placements : {u.placements}]
    BY <2>2 DEF IsDaemon
  <2> HIDE DEF u
  <2>4. IsDaemon(u)
    BY <2>2, <2>3 DEF IsDaemon
  <2>5. Tracked(u, l)
    BY <1>1, <1>2, <2>3, <2>4, Redirected
  <2> QED
    BY <2>1, <2>5
<1>3. CASE ~(d.active = l /\ known)
  BY <1>1, <1>3 DEF SyncCursorToOs
<1> QED
  BY <1>2, <1>3

\* A movement: it stays on its screen, is clamped, or crosses to a machine there
\* is a session with.  The branch of advance_cursor that has lost the cursor and
\* the one that meets a machine without a session are never taken.
LEMMA MotionConsistent ==
  ASSUME NEW l \in Machine, NEW d, Consistent(d, l), NEW dir, NEW known
  PROVE  Consistent(RouteMotion(d, l, dir, known), l)
<1> DEFINE s == IF d.active = l THEN SyncCursorToOs(d, l, known) ELSE d
           to == s.layout.neighbors[<<s.cursor, dir>>]
           x == [HandleCrossing(s, to) EXCEPT !.cursor = to]
<1>1. Tracked(s, l)
  BY SyncedTracked
<1> HIDE DEF s
<1>2. CASE <<s.cursor, dir>> \notin DOMAIN s.layout.neighbors
  <2>1. s.cursor \in s.layout.machines
    BY <1>1 DEF Tracked, DesktopMatchesLinks
  <2>2. AdvanceCursor(s, l, dir) = s
    BY <1>2, <2>1 DEF AdvanceCursor
  <2> QED
    BY <1>1, <2>2, SyncConsistent DEF RouteMotion, s
<1>3. CASE <<s.cursor, dir>> \in DOMAIN s.layout.neighbors
  <2>1. s.cursor \in s.layout.machines
    BY <1>1 DEF Tracked, DesktopMatchesLinks
  <2>2. to \in {l} \cup DOMAIN s.links
    BY <1>1, <1>3 DEF Tracked, DesktopMatchesLinks
  <2>3. CanCross(s, l, to)
    BY <1>1, <2>2 DEF Tracked, LinksMatchSessions, CanCross
  <2>4. AdvanceCursor(s, l, dir) = PlaceCursorAfterCrossing(x, l, to)
    BY <1>3, <2>1, <2>3 DEF AdvanceCursor
  <2>5. Tracked(x, l)
    BY <1>1, <2>2, TargetTracked DEF HandleCrossing
  <2> HIDE DEF x, to
  <2>6. Tracked(PlaceCursorAfterCrossing(x, l, to), l)
    BY <2>5, SendTracked DEF PlaceCursorAfterCrossing, Command
  <2> QED
    BY <2>4, <2>6, SyncConsistent DEF RouteMotion, s
<1> QED
  BY <1>2, <1>3

-----------------------------------------------------------------------------
(***************************************************************************)
(* In every behaviour of any number of machines, every daemon is           *)
(* consistent whenever its lock is free.                                   *)
(***************************************************************************)

\* The inductive invariant: every daemon is consistent, and a connection joins
\* two different machines, so that no daemon ever links to itself.
Inv ==
  /\ daemon \in [Machine -> {daemon[m] : m \in Machine}]
  /\ \A m \in Machine : Consistent(daemon[m], m)
  /\ IsMap(dialed, Session, [from : Machine, to : Machine])
  /\ \A c \in DOMAIN dialed : dialed[c].from # dialed[c].to

-----------------------------------------------------------------------------
\* The other end of a connection is another machine.
LEMMA OtherMachine ==
  ASSUME Inv, NEW m \in Machine, NEW c \in DOMAIN dialed
  PROVE  Other(c, m) \in Machine /\ Other(c, m) # m /\ c \in Session
<1>1. dialed[c] \in [from : Machine, to : Machine] /\ dialed[c].from # dialed[c].to /\ c \in Session
  BY DEF Inv, IsMap
<1> QED
  BY <1>1 DEF Other

\* A step that replaces one daemon by a consistent one and leaves the set of
\* connections alone keeps the invariant.
LEMMA OneDaemon ==
  ASSUME Inv, NEW m \in Machine, NEW d, Consistent(d, m),
         daemon' = [daemon EXCEPT ![m] = d], dialed' = dialed
  PROVE  Inv'
<1>1. \A x \in Machine : daemon'[x] = IF x = m THEN d ELSE daemon[x]
  BY DEF Inv
<1>2. \A x \in Machine : Consistent(daemon'[x], x)
  BY <1>1 DEF Inv
<1>3. daemon' \in [Machine -> {daemon'[x] : x \in Machine}]
  BY <1>1 DEF Inv
<1> QED
  BY <1>2, <1>3 DEF Inv

\* All machines start with a consistent daemon and no connections.
LEMMA InitInv == Init => Inv
<1> SUFFICES ASSUME Init PROVE Inv
  OBVIOUS
<1>1. IsMap(EmptyMap, Machine, Edge) /\ IsMap(EmptyMap, Session, [from : Machine, to : Machine])
  BY DEF IsMap, EmptyMap
<1>2. \A m \in Machine : daemon[m] = NewDaemon(m, EmptyMap)
  BY DEF Init
<1>3. \A m \in Machine : Consistent(daemon[m], m)
  BY <1>1, <1>2, NewConsistent
<1>4. daemon \in [Machine -> {daemon[m] : m \in Machine}]
  BY DEF Init
<1>5. DOMAIN dialed = {}
  BY DEF Init, EmptyMap
<1> QED
  BY <1>1, <1>3, <1>4, <1>5 DEF Inv, Init

-----------------------------------------------------------------------------
\* What a task does by itself keeps every daemon consistent.
LEMMA TaskStepInv ==
  ASSUME Inv, NEW m \in Machine, NEW c \in Session, TaskStep(m, c)
  PROVE  Inv'
<1> USE DEF At
<1>1. CASE DialAccepted(m, c)
  <2> DEFINE p == Other(c, m)
  <2>1. p \in Machine /\ p # m
    BY <1>1, OtherMachine DEF DialAccepted
  <2> HIDE DEF p
  <2>2. CASE /\ CanEstablish(daemon[m], c, p)
             /\ \E front \in Fronts(LinkUp(daemon[m], c, p, "Controller").links) :
                  daemon' = [daemon EXCEPT ![m] =
                               RebuildLayout(LinkUp(daemon[m], c, p, "Controller"), m, front)]
    <3>1. PICK front \in Fronts(LinkUp(daemon[m], c, p, "Controller").links) :
            daemon' = [daemon EXCEPT ![m] =
                         RebuildLayout(LinkUp(daemon[m], c, p, "Controller"), m, front)]
      BY <2>2
    <3>2. Consistent(RebuildLayout(LinkUp(daemon[m], c, p, "Controller"), m, front), m)
      BY <2>1, <2>2, LinkUpConsistent DEF Inv, Role
    <3> QED
      BY <1>1, <3>1, <3>2, OneDaemon DEF DialAccepted
  <2>3. CASE daemon' = daemon
    BY <1>1, <2>3 DEF DialAccepted, Inv
  <2> QED
    BY <1>1, <2>2, <2>3 DEF DialAccepted, p
<1>2. CASE EstablishTarget(m, c)
  <2> DEFINE p == Other(c, m)
  <2>1. p \in Machine /\ p # m
    BY <1>2, OtherMachine DEF EstablishTarget
  <2> HIDE DEF p
  <2>2. CASE /\ CanEstablish(daemon[m], c, p)
             /\ \E front \in Fronts(LinkUp(daemon[m], c, p, "Target").links) :
                  daemon' = [daemon EXCEPT ![m] =
                               RebuildLayout(LinkUp(daemon[m], c, p, "Target"), m, front)]
    <3>1. PICK front \in Fronts(LinkUp(daemon[m], c, p, "Target").links) :
            daemon' = [daemon EXCEPT ![m] =
                         RebuildLayout(LinkUp(daemon[m], c, p, "Target"), m, front)]
      BY <2>2
    <3>2. Consistent(RebuildLayout(LinkUp(daemon[m], c, p, "Target"), m, front), m)
      BY <2>1, <2>2, LinkUpConsistent DEF Inv, Role
    <3> QED
      BY <1>2, <3>1, <3>2, OneDaemon DEF EstablishTarget
  <2>3. CASE daemon' = daemon
    BY <1>2, <2>3 DEF EstablishTarget, Inv
  <2> QED
    BY <1>2, <2>2, <2>3 DEF EstablishTarget, p
<1>3. CASE AcceptFails(m, c) \/ Cleanup(m, c)
  <2> DEFINE p == Other(c, m)
  <2>1. p \in Machine
    BY <1>3, OtherMachine DEF AcceptFails, Cleanup
  <2>2. PICK front \in Fronts(LinkDown(daemon[m], m, p).links) :
          daemon' = [daemon EXCEPT ![m] = CleanupPeer(daemon[m], m, p, front)]
    BY <1>3 DEF AcceptFails, Cleanup
  <2> HIDE DEF p
  <2>3. Consistent(CleanupPeer(daemon[m], m, p, front), m)
    BY <2>1, CleanupConsistent DEF Inv
  <2> QED
    BY <1>3, <2>2, <2>3, OneDaemon DEF AcceptFails, Cleanup
<1>4. CASE SendCommand(m, c)
  <2> DEFINE p == Other(c, m)
  <2>1. /\ daemon[m].links[p].commands # <<>>
        /\ daemon' = [daemon EXCEPT ![m] = DropCommand(daemon[m], p)]
        /\ dialed' = dialed
    BY <1>4 DEF SendCommand
  <2> HIDE DEF p
  <2>2. Consistent(DropCommand(daemon[m], p), m)
    BY <2>1, DropConsistent DEF Inv
  <2> QED
    BY <2>1, <2>2, OneDaemon
<1>5. CASE RecvWarp(m, c)
  <2>1. Consistent(YieldControlToPeer(daemon[m], m), m)
    BY YieldConsistent DEF Inv
  <2>2. daemon' = [daemon EXCEPT ![m] = YieldControlToPeer(daemon[m], m)] /\ dialed' = dialed
    BY <1>5 DEF RecvWarp
  <2> QED
    BY <2>1, <2>2, OneDaemon
<1>6. CASE RecvReturned(m, c)
  <2> DEFINE p == Other(c, m)
  <2>1. p \in Machine
    BY <1>6, OtherMachine DEF RecvReturned
  <2>2. daemon' = [daemon EXCEPT ![m] = FollowPeerCursor(daemon[m], m, p)] /\ dialed' = dialed
    BY <1>6 DEF RecvReturned
  <2> HIDE DEF p
  <2>3. Consistent(FollowPeerCursor(daemon[m], m, p), m)
    BY <2>1, FollowConsistent DEF Inv
  <2> QED
    BY <2>2, <2>3, OneDaemon
<1>7. CASE \/ RequestArrives(m, c) \/ WakeApproved(m, c) \/ WakeRefused(m, c)
           \/ SendAccept(m, c) \/ RecvDisconnect(m, c)
  BY <1>7 DEF RequestArrives, WakeApproved, WakeRefused, SendAccept, RecvDisconnect, Inv
<1> QED
  BY <1>1, <1>2, <1>3, <1>4, <1>5, <1>6, <1>7 DEF TaskStep

\* Timeouts and lost connections only change the phase of a task.
LEMMA GiveUpInv ==
  ASSUME Inv, NEW m \in Machine, NEW c \in Session, GiveUp(m, c) \/ GoDeaf(m, c)
  PROVE  Inv'
  BY DEF GiveUp, DialRefused, RequestMissing, DecisionTimeout, SeePeerGone,
         HeartbeatTimeout, GoDeaf, Inv

\* What people do keeps every daemon consistent.
LEMMA UserStepInv ==
  ASSUME Inv, NEW m \in Machine, UserStep(m)
  PROVE  Inv'
<1>1. CASE \E dir \in Edge \cup {"inside"}, known \in BOOLEAN : Motion(m, dir, known)
  <2>1. PICK dir \in Edge \cup {"inside"}, known \in BOOLEAN : Motion(m, dir, known)
    BY <1>1
  <2>2. Consistent(RouteMotion(daemon[m], m, dir, known), m)
    BY MotionConsistent DEF Inv
  <2>3. daemon' = [daemon EXCEPT ![m] = RouteMotion(daemon[m], m, dir, known)] /\ dialed' = dialed
    BY <2>1 DEF Motion
  <2> QED
    BY <2>2, <2>3, OneDaemon
<1>2. ASSUME NEW p \in Machine, NEW c \in Session, Dial(m, p, c)
      PROVE  Inv'
  <2>1. /\ m # p /\ daemon' = daemon
        /\ dialed' = Insert(dialed, c, [from |-> m, to |-> p])
    BY <1>2 DEF Dial
  <2>2. IsMap(dialed', Session, [from : Machine, to : Machine])
    BY <2>1 DEF Inv, IsMap, Insert
  <2>3. \A x \in DOMAIN dialed' : dialed'[x].from # dialed'[x].to
    BY <2>1 DEF Inv, Insert
  <2> QED
    BY <2>1, <2>2, <2>3 DEF Inv
<1>3. ASSUME NEW p \in Machine, NEW decision \in {"yes", "no"}, DecidePending(m, p, decision)
      PROVE  Inv'
  BY <1>3 DEF DecidePending, Inv
<1>4. ASSUME NEW p \in Machine, Disconnect(m, p) \/ RemovePeer(m, p)
      PROVE  Inv'
  <2>1. daemon' = [daemon EXCEPT ![m] = Send(daemon[m], {p}, "Disconnect")] /\ dialed' = dialed
    BY <1>4 DEF Disconnect, RemovePeer
  <2>2. Consistent(Send(daemon[m], {p}, "Disconnect"), m)
    BY SendConsistent DEF Inv, Command
  <2> QED
    BY <2>1, <2>2, OneDaemon
<1>5. ASSUME NEW p \in Machine, NEW edge \in Placeable, PlacePeer(m, p, edge)
      PROVE  Inv'
  <2>1. PICK front \in Fronts(Placed(daemon[m], p, edge).links) :
          daemon' = [daemon EXCEPT ![m] = SetLayout(daemon[m], m, p, edge, front)]
    BY <1>5 DEF PlacePeer
  <2>2. Consistent(SetLayout(daemon[m], m, p, edge, front), m)
    BY PlaceableAssumption, SetLayoutConsistent DEF Inv
  <2> QED
    BY <1>5, <2>1, <2>2, OneDaemon DEF PlacePeer
<1>6. ASSUME NEW p \in Machine, ForgetPeer(m, p)
      PROVE  Inv'
  BY <1>6 DEF ForgetPeer, Inv
<1> QED
  BY <1>1, <1>2, <1>3, <1>4, <1>5, <1>6 DEF UserStep

\* A daemon that comes back after a crash or a stop starts over, with its placements.
LEMMA RestartInv ==
  ASSUME Inv, NEW m \in Machine, Crash(m) \/ Stop(m)
  PROVE  Inv'
<1>1. IsMap(daemon[m].placements, Machine, Edge)
  BY DEF Inv, Consistent, IsDaemon
<1>2. Consistent(NewDaemon(m, daemon[m].placements), m)
  BY <1>1, NewConsistent
<1>3. daemon' = [daemon EXCEPT ![m] = NewDaemon(m, daemon[m].placements)] /\ dialed' = dialed
  BY DEF Crash, Stop, Restart
<1> QED
  BY <1>2, <1>3, OneDaemon

-----------------------------------------------------------------------------
\* The invariant is inductive.
LEMMA NextInv == Inv /\ [Next]_vars => Inv'
<1> SUFFICES ASSUME Inv, [Next]_vars PROVE Inv'
  OBVIOUS
<1>1. CASE Next
  BY <1>1, TaskStepInv, GiveUpInv, UserStepInv, RestartInv DEF Next
<1>2. CASE UNCHANGED vars
  BY <1>2 DEF vars, Inv
<1> QED
  BY <1>1, <1>2

\* In every daemon the links, the session table and its index agree, whatever
\* the order in which sessions are dialed, accepted, refused, lost, ended and
\* dialed again (establish, cleanup_peer).
THEOREM SessionsAlwaysAgree == Spec => []SessionsAgree
<1>1. Inv => SessionsAgree
  BY DEF Inv, Consistent, SessionsAgree
<1> QED
  BY <1>1, InitInv, NextInv, PTL DEF Spec

\* No daemon withholds local input while it sends it nowhere: the cursor, the
\* active target, its session and the suppression flag always agree.
THEOREM InputIsNeverStranded == Spec => []InputNeverStranded
<1>1. Inv => InputNeverStranded
  BY DEF Inv, Consistent, InputNeverStranded
<1> QED
  BY <1>1, InitInv, NextInv, PTL DEF Spec

\* The desktop every daemon tracks the cursor on matches its links, and from
\* every machine on it there is a way home.
THEOREM DesktopAlwaysAgrees == Spec => []DesktopAgrees
<1>1. Inv => DesktopAgrees
  BY DEF Inv, Consistent, DesktopAgrees
<1> QED
  BY <1>1, InitInv, NextInv, PTL DEF Spec

-----------------------------------------------------------------------------
(***************************************************************************)
(* The daemons implement InputOwner, for any number of machines and        *)
(* sessions.  A critical section of a daemon that leaves it consistent has *)
(* withheld what it should; what is left to show of each is which links    *)
(* it adds or removes, and that only those that redirect input on purpose  *)
(* move it.                                                                *)
(***************************************************************************)

\* The same machines are linked.
SameLinked(r, d) == DOMAIN r.links = DOMAIN d.links

\* A daemon has its fields.
LEMMA Fields ==
  ASSUME NEW d, IsDaemon(d)
  PROVE  DOMAIN d = {"sessions", "by_peer", "active", "links", "layout", "cursor",
                     "suppress", "placements"}
BY DEF IsDaemon

\* A command to some peers, or one taken from a queue, leaves the links alone.
LEMMA QueueLinks ==
  ASSUME NEW d, "links" \in DOMAIN d, NEW ps, NEW command, NEW p
  PROVE  /\ SameLinked(Send(d, ps, command), d)
         /\ SameLinked(DropCommand(d, p), d)
         /\ "links" \in DOMAIN Send(d, ps, command)
BY DEF SameLinked, Send, DropCommand

\* So does what only redirects input.
LEMMA RedirectLinks ==
  ASSUME NEW d, "links" \in DOMAIN d, NEW l, NEW p, NEW known
  PROVE  /\ SyncSuppression(d, l).links = d.links
         /\ SameLinked(YieldControlToPeer(d, l), d)
         /\ SameLinked(FollowPeerCursor(d, l, p), d)
         /\ SyncCursorToOs(d, l, known).links = d.links
         /\ "links" \in DOMAIN SyncCursorToOs(d, l, known)
<1>1. SyncSuppression(d, l).links = d.links
  BY DEF SyncSuppression
<1>2. SameLinked(YieldControlToPeer(d, l), d)
  BY DEF SameLinked, YieldControlToPeer, SyncSuppression, YieldControl
<1>3. SameLinked(FollowPeerCursor(d, l, p), d)
  BY DEF SameLinked, FollowPeerCursor, SyncSuppression, FollowPeer
<1>4. SyncCursorToOs(d, l, known).links = d.links /\ "links" \in DOMAIN SyncCursorToOs(d, l, known)
  BY DEF SyncCursorToOs
<1> QED
  BY <1>1, <1>2, <1>3, <1>4

\* And a movement, whatever becomes of it.
LEMMA MotionLinks ==
  ASSUME NEW d, "links" \in DOMAIN d, NEW l, NEW dir, NEW known
  PROVE  SameLinked(RouteMotion(d, l, dir, known), d)
<1> DEFINE s == IF d.active = l THEN SyncCursorToOs(d, l, known) ELSE d
           to == s.layout.neighbors[<<s.cursor, dir>>]
           x == [HandleCrossing(s, to) EXCEPT !.cursor = to]
           a == AdvanceCursor(s, l, dir)
<1>1. s.links = d.links /\ "links" \in DOMAIN s
  BY RedirectLinks
<1> HIDE DEF s
<1>2. x.links = s.links /\ "links" \in DOMAIN x
  BY <1>1 DEF HandleCrossing
<1>3. a \in {s, [s EXCEPT !.cursor = l], PlaceCursorAfterCrossing(x, l, to)}
  BY Zenon DEF AdvanceCursor
<1> HIDE DEF x, to
<1>4. SameLinked(PlaceCursorAfterCrossing(x, l, to), s) /\ "links" \in DOMAIN PlaceCursorAfterCrossing(x, l, to)
  BY <1>2, QueueLinks DEF PlaceCursorAfterCrossing, SameLinked
<1>5. SameLinked([s EXCEPT !.cursor = l], s) /\ "links" \in DOMAIN [s EXCEPT !.cursor = l]
  BY <1>1 DEF SameLinked
<1>6. SameLinked(a, s) /\ "links" \in DOMAIN a
  BY <1>1, <1>3, <1>4, <1>5 DEF SameLinked
<1> HIDE DEF a
<1>7. SyncSuppression(a, l).links = a.links
  BY <1>6, RedirectLinks
<1> QED
  BY <1>1, <1>6, <1>7 DEF RouteMotion, SameLinked, s, a

\* Placing a peer leaves the links alone.
LEMMA SetLayoutLinks ==
  ASSUME NEW d, "links" \in DOMAIN d, NEW l, NEW p, NEW e, NEW front
  PROVE  SameLinked(SetLayout(d, l, p, e, front), d)
<1> DEFINE u == Placed(d, p, e)
<1>1. SameLinked(u, d) /\ "links" \in DOMAIN u
  BY DEF Placed, SameLinked
<1> HIDE DEF u
<1>2. RebuildLayout(u, l, front).links = u.links /\ "links" \in DOMAIN RebuildLayout(u, l, front)
  BY <1>1 DEF RebuildLayout
<1>3. SyncSuppression(RebuildLayout(u, l, front), l).links = u.links
  BY <1>2, RedirectLinks
<1> QED
  BY <1>1, <1>3 DEF SetLayout, SameLinked, u

\* A new link does not move the input.
LEMMA LinkUpLinks ==
  ASSUME NEW d, IsDaemon(d), NEW l, NEW id, NEW p, NEW role, NEW front
  PROVE  LET r == RebuildLayout(LinkUp(d, id, p, role), l, front) IN
         DOMAIN r.links = DOMAIN d.links \cup {p} /\ r.active = d.active
<1> DEFINE u == LinkUp(d, id, p, role)
<1>1. /\ DOMAIN u.links = DOMAIN d.links \cup {p} /\ u.active = d.active
      /\ {"links", "active"} \subseteq DOMAIN u
  BY Fields DEF LinkUp, Establish, Insert
<1> HIDE DEF u
<1>2. RebuildLayout(u, l, front).links = u.links /\ RebuildLayout(u, l, front).active = u.active
  BY <1>1 DEF RebuildLayout
<1> QED
  BY <1>1, <1>2 DEF u

\* A lost link brings the input home if it went there.
LEMMA CleanupLinks ==
  ASSUME NEW l \in Machine, NEW d, Consistent(d, l), NEW p \in Machine, NEW front
  PROVE  LET r == CleanupPeer(d, l, p, front) IN
         /\ DOMAIN r.links = DOMAIN d.links \ {p}
         /\ r.active = IF d.active = p THEN l ELSE d.active
<1> DEFINE u == LinkDown(d, l, p)
           b == RebuildLayout(u, l, front)
<1>1. /\ IsDaemon(u) /\ DOMAIN u.links = DOMAIN d.links \ {p}
      /\ u.active = IF d.active = p THEN l ELSE d.active
  BY LinkDownLemma
<1> HIDE DEF u
<1>2. DOMAIN u = {"sessions", "by_peer", "active", "links", "layout", "cursor",
                  "suppress", "placements"}
  BY <1>1, Fields
<1>3. b.links = u.links /\ b.active = u.active /\ DOMAIN b = DOMAIN u
  BY <1>2 DEF RebuildLayout
<1> HIDE DEF b
<1>4. SyncSuppression(b, l).links = b.links /\ SyncSuppression(b, l).active = b.active
  BY <1>2, <1>3 DEF SyncSuppression
<1> QED
  BY <1>1, <1>3, <1>4 DEF CleanupPeer, u, b

-----------------------------------------------------------------------------
(* Steps                                                                   *)

\* What the daemons stand for in InputOwner.
Target == [x \in Machine |-> daemon[x].active]
Linked == [x \in Machine |-> DOMAIN daemon[x].links]
Withheld == [x \in Machine |-> daemon[x].suppress]

\* What a step that replaces one daemon by a consistent one does to where input
\* goes, which machines are linked and what is withheld (Becomes of InputOwner).
LEMMA OneBecomes ==
  ASSUME Inv, NEW m \in Machine, NEW d, Consistent(d, m),
         daemon' = [daemon EXCEPT ![m] = d]
  PROVE  /\ Target' = [Target EXCEPT ![m] = d.active]
         /\ Linked' = [Linked EXCEPT ![m] = DOMAIN d.links]
         /\ Withheld' = [Withheld EXCEPT ![m] = (d.active # m)]
<1>1. \A x \in Machine : daemon'[x] = IF x = m THEN d ELSE daemon[x]
  BY DEF Inv
<1>2. d.suppress \in BOOLEAN /\ (d.suppress <=> d.active # m)
  BY DEF Consistent, CursorFollowsInput, IsDaemon
<1>3. d.suppress = (d.active # m)
  BY <1>2, Zenon
<1>4. /\ [x \in Machine |-> daemon[x].active] \in [Machine -> {daemon[x].active : x \in Machine}]
      /\ \A x \in Machine : daemon'[x].active = IF x = m THEN d.active ELSE daemon[x].active
  BY <1>1
<1>5. [x \in Machine |-> daemon'[x].active]
        = [[x \in Machine |-> daemon[x].active] EXCEPT ![m] = d.active]
  BY <1>4, Zenon
<1>6. \A x \in Machine : DOMAIN daemon'[x].links = IF x = m THEN DOMAIN d.links ELSE DOMAIN daemon[x].links
  BY <1>1
<1>7. [x \in Machine |-> DOMAIN daemon'[x].links]
        = [[x \in Machine |-> DOMAIN daemon[x].links] EXCEPT ![m] = DOMAIN d.links]
  BY <1>6
<1>8. \A x \in Machine : daemon'[x].suppress = IF x = m THEN d.active # m ELSE daemon[x].suppress
  <2> SUFFICES ASSUME NEW x \in Machine
               PROVE  daemon'[x].suppress = IF x = m THEN d.active # m ELSE daemon[x].suppress
    OBVIOUS
  <2>1. CASE x = m
    <3>1. daemon'[x] = d
      BY <1>1, <2>1
    <3> QED
      BY <1>3, <2>1, <3>1, Zenon
  <2>2. CASE x # m
    <3>1. daemon'[x] = daemon[x]
      BY <1>1, <2>2
    <3> QED
      BY <2>2, <3>1
  <2> QED
    BY <2>1, <2>2
<1>9. [x \in Machine |-> daemon'[x].suppress]
        = [[x \in Machine |-> daemon[x].suppress] EXCEPT ![m] = (d.active # m)]
  BY <1>8, Zenon
<1> QED
  BY <1>5, <1>7, <1>9 DEF Target, Linked, Withheld

\* One that leaves the links of the daemon alone may redirect its input.
LEMMA SameLinkedStep ==
  ASSUME Inv, NEW m \in Machine, NEW d, Consistent(d, m), SameLinked(d, daemon[m]),
         daemon' = [daemon EXCEPT ![m] = d]
  PROVE  Owner!Next
<1>1. d.active \in DOMAIN daemon[m].links \cup {m} /\ d.active \in Machine
  BY DEF Consistent, CursorFollowsInput, SameLinked, IsDaemon
<1>2. /\ Target' = [Target EXCEPT ![m] = d.active]
      /\ Linked' = [Linked EXCEPT ![m] = DOMAIN d.links]
      /\ Withheld' = [Withheld EXCEPT ![m] = (d.active # m)]
  BY OneBecomes
<1>3. Linked[m] = DOMAIN d.links /\ d.active \in Linked[m] \cup {m}
  BY <1>1 DEF Linked, SameLinked
<1>4. Owner!Redirect(m, d.active)
  BY <1>2, <1>3, Zenon DEF Owner!Redirect, Owner!Becomes, Target, Linked, Withheld
<1> QED
  BY <1>1, <1>4 DEF Owner!Next

LEMMA LinkUpStep ==
  ASSUME Inv, NEW m \in Machine, NEW c \in Session, NEW p \in Machine, p # m, NEW role \in Role,
         CanEstablish(daemon[m], c, p),
         NEW front \in Fronts(LinkUp(daemon[m], c, p, role).links),
         daemon' = [daemon EXCEPT ![m] = RebuildLayout(LinkUp(daemon[m], c, p, role), m, front)]
  PROVE  Owner!Next
<1> DEFINE d == RebuildLayout(LinkUp(daemon[m], c, p, role), m, front)
<1>1. Consistent(daemon[m], m) /\ IsDaemon(daemon[m])
  BY DEF Inv, Consistent
<1>2. Consistent(d, m)
  BY <1>1, LinkUpConsistent
<1>3. DOMAIN d.links = DOMAIN daemon[m].links \cup {p} /\ d.active = daemon[m].active
  BY <1>1, LinkUpLinks
<1>4. daemon' = [daemon EXCEPT ![m] = d]
  OBVIOUS
<1> HIDE DEF d
<1>6. p \notin DOMAIN daemon[m].links
  BY <1>1 DEF CanEstablish, Consistent, LinksMatchSessions
<1>7. /\ Target' = [Target EXCEPT ![m] = d.active]
      /\ Linked' = [Linked EXCEPT ![m] = DOMAIN d.links]
      /\ Withheld' = [Withheld EXCEPT ![m] = (d.active # m)]
  BY <1>2, <1>4, OneBecomes
<1>8. Target[m] = d.active /\ DOMAIN d.links = Linked[m] \cup {p} /\ p \notin Linked[m] \cup {m}
  BY <1>3, <1>6 DEF Target, Linked
<1>9. Owner!LinkUp(m, p)
  BY <1>7, <1>8, Zenon DEF Owner!LinkUp, Owner!Becomes, Target, Linked, Withheld
<1> QED
  BY <1>9 DEF Owner!Next

LEMMA CleanupStep ==
  ASSUME Inv, NEW m \in Machine, NEW p \in Machine,
         NEW front \in Fronts(LinkDown(daemon[m], m, p).links),
         daemon' = [daemon EXCEPT ![m] = CleanupPeer(daemon[m], m, p, front)]
  PROVE  Owner!Next
<1> DEFINE d == CleanupPeer(daemon[m], m, p, front)
<1>1. Consistent(daemon[m], m)
  BY DEF Inv
<1>2. Consistent(d, m)
  BY <1>1, CleanupConsistent
<1>3. /\ DOMAIN d.links = DOMAIN daemon[m].links \ {p}
      /\ d.active = IF daemon[m].active = p THEN m ELSE daemon[m].active
  BY <1>1, CleanupLinks
<1>4. daemon' = [daemon EXCEPT ![m] = d]
  OBVIOUS
<1> HIDE DEF d
<1>5. CASE p \in DOMAIN daemon[m].links
  <2>1. /\ Target' = [Target EXCEPT ![m] = d.active]
        /\ Linked' = [Linked EXCEPT ![m] = DOMAIN d.links]
        /\ Withheld' = [Withheld EXCEPT ![m] = (d.active # m)]
    BY <1>2, <1>4, OneBecomes
  <2>2. /\ d.active = IF Target[m] = p THEN m ELSE Target[m]
        /\ DOMAIN d.links = Linked[m] \ {p} /\ p \in Linked[m]
    BY <1>3, <1>5 DEF Target, Linked
  <2>3. Owner!LinkDown(m, p)
    BY <2>1, <2>2, Zenon DEF Owner!LinkDown, Owner!Becomes, Target, Linked, Withheld
  <2> QED
    BY <2>3 DEF Owner!Next
<1>6. CASE p \notin DOMAIN daemon[m].links
  <2>1. SameLinked(d, daemon[m])
    BY <1>3, <1>6 DEF SameLinked
  <2> QED
    BY <1>2, <1>4, <2>1, SameLinkedStep
<1> QED
  BY <1>5, <1>6

\* A new daemon has no links and its own input.
LEMMA NewIsFree ==
  ASSUME NEW l, NEW placements
  PROVE  LET d == NewDaemon(l, placements) IN
         d.active = l /\ DOMAIN d.links = {} /\ d.suppress = FALSE
BY DEF NewDaemon, RebuildLayout, EmptyMap

\* A machine that starts over is linked to nobody and has its own input.
LEMMA RestartStep ==
  ASSUME Inv, NEW m \in Machine, Crash(m) \/ Stop(m)
  PROVE  Owner!Next
<1> DEFINE d == NewDaemon(m, daemon[m].placements)
<1>1. IsMap(daemon[m].placements, Machine, Edge)
  BY DEF Inv, Consistent, IsDaemon
<1>2. Consistent(d, m)
  BY <1>1, NewConsistent
<1>3. d.active = m /\ DOMAIN d.links = {}
  BY NewIsFree
<1>4. daemon' = [daemon EXCEPT ![m] = d]
  BY DEF Crash, Stop, Restart
<1> HIDE DEF d
<1>5. /\ Target' = [Target EXCEPT ![m] = d.active]
      /\ Linked' = [Linked EXCEPT ![m] = DOMAIN d.links]
      /\ Withheld' = [Withheld EXCEPT ![m] = (d.active # m)]
  BY <1>2, <1>4, OneBecomes
<1>6. Owner!Restart(m)
  BY <1>3, <1>5, Zenon DEF Owner!Restart, Owner!Becomes, Target, Linked, Withheld
<1> QED
  BY <1>6 DEF Owner!Next

-----------------------------------------------------------------------------
(* The refinement                                                          *)

\* What a task does by itself.
LEMMA TaskStepOwner ==
  ASSUME Inv, NEW m \in Machine, NEW c \in Session, TaskStep(m, c)
  PROVE  Owner!Next \/ daemon' = daemon
<1> USE DEF At
<1>1. CASE DialAccepted(m, c)
  <2> DEFINE p == Other(c, m)
  <2>1. p \in Machine /\ p # m
    BY <1>1, OtherMachine DEF DialAccepted
  <2> HIDE DEF p
  <2>2. CASE /\ CanEstablish(daemon[m], c, p)
             /\ \E front \in Fronts(LinkUp(daemon[m], c, p, "Controller").links) :
                  daemon' = [daemon EXCEPT ![m] =
                               RebuildLayout(LinkUp(daemon[m], c, p, "Controller"), m, front)]
    BY <2>1, <2>2, LinkUpStep DEF Role
  <2> QED
    BY <1>1, <2>2 DEF DialAccepted, p
<1>2. CASE EstablishTarget(m, c)
  <2> DEFINE p == Other(c, m)
  <2>1. p \in Machine /\ p # m
    BY <1>2, OtherMachine DEF EstablishTarget
  <2> HIDE DEF p
  <2>2. CASE /\ CanEstablish(daemon[m], c, p)
             /\ \E front \in Fronts(LinkUp(daemon[m], c, p, "Target").links) :
                  daemon' = [daemon EXCEPT ![m] =
                               RebuildLayout(LinkUp(daemon[m], c, p, "Target"), m, front)]
    BY <2>1, <2>2, LinkUpStep DEF Role
  <2> QED
    BY <1>2, <2>2 DEF EstablishTarget, p
<1>3. CASE AcceptFails(m, c) \/ Cleanup(m, c)
  <2> DEFINE p == Other(c, m)
  <2>1. p \in Machine
    BY <1>3, OtherMachine DEF AcceptFails, Cleanup
  <2>2. PICK front \in Fronts(LinkDown(daemon[m], m, p).links) :
          daemon' = [daemon EXCEPT ![m] = CleanupPeer(daemon[m], m, p, front)]
    BY <1>3 DEF AcceptFails, Cleanup
  <2> HIDE DEF p
  <2> QED
    BY <2>1, <2>2, CleanupStep
<1>4. CASE SendCommand(m, c)
  <2> DEFINE p == Other(c, m)
  <2>1. /\ daemon[m].links[p].commands # <<>>
        /\ daemon' = [daemon EXCEPT ![m] = DropCommand(daemon[m], p)]
    BY <1>4 DEF SendCommand
  <2> HIDE DEF p
  <2>2. Consistent(DropCommand(daemon[m], p), m) /\ SameLinked(DropCommand(daemon[m], p), daemon[m])
    BY <2>1, DropConsistent, Fields, QueueLinks DEF Inv, Consistent
  <2> QED
    BY <2>1, <2>2, SameLinkedStep
<1>5. CASE RecvWarp(m, c)
  <2>1. /\ Consistent(YieldControlToPeer(daemon[m], m), m)
        /\ SameLinked(YieldControlToPeer(daemon[m], m), daemon[m])
    BY YieldConsistent, Fields, RedirectLinks DEF Inv, Consistent
  <2>2. daemon' = [daemon EXCEPT ![m] = YieldControlToPeer(daemon[m], m)]
    BY <1>5 DEF RecvWarp
  <2> QED
    BY <2>1, <2>2, SameLinkedStep
<1>6. CASE RecvReturned(m, c)
  <2> DEFINE p == Other(c, m)
  <2>1. p \in Machine
    BY <1>6, OtherMachine DEF RecvReturned
  <2>2. daemon' = [daemon EXCEPT ![m] = FollowPeerCursor(daemon[m], m, p)]
    BY <1>6 DEF RecvReturned
  <2> HIDE DEF p
  <2>3. /\ Consistent(FollowPeerCursor(daemon[m], m, p), m)
        /\ SameLinked(FollowPeerCursor(daemon[m], m, p), daemon[m])
    BY <2>1, FollowConsistent, Fields, RedirectLinks DEF Inv, Consistent
  <2> QED
    BY <2>2, <2>3, SameLinkedStep
<1>7. CASE \/ RequestArrives(m, c) \/ WakeApproved(m, c) \/ WakeRefused(m, c)
           \/ SendAccept(m, c) \/ RecvDisconnect(m, c)
  BY <1>7 DEF RequestArrives, WakeApproved, WakeRefused, SendAccept, RecvDisconnect
<1> QED
  BY <1>1, <1>2, <1>3, <1>4, <1>5, <1>6, <1>7 DEF TaskStep

\* Timeouts and lost connections redirect nothing until the task cleans up.
LEMMA GiveUpOwner ==
  ASSUME NEW m \in Machine, NEW c \in Session, GiveUp(m, c) \/ GoDeaf(m, c)
  PROVE  daemon' = daemon
  BY DEF GiveUp, DialRefused, RequestMissing, DecisionTimeout, SeePeerGone,
         HeartbeatTimeout, GoDeaf

\* What people do.
LEMMA UserStepOwner ==
  ASSUME Inv, NEW m \in Machine, UserStep(m)
  PROVE  Owner!Next \/ daemon' = daemon
<1>0. "links" \in DOMAIN daemon[m]
  BY Fields DEF Inv, Consistent
<1>1. ASSUME NEW dir \in Edge \cup {"inside"}, NEW known \in BOOLEAN, Motion(m, dir, known)
      PROVE  Owner!Next
  <2>1. /\ Consistent(RouteMotion(daemon[m], m, dir, known), m)
        /\ SameLinked(RouteMotion(daemon[m], m, dir, known), daemon[m])
    BY <1>0, MotionConsistent, MotionLinks DEF Inv
  <2>2. daemon' = [daemon EXCEPT ![m] = RouteMotion(daemon[m], m, dir, known)]
    BY <1>1 DEF Motion
  <2> QED
    BY <2>1, <2>2, SameLinkedStep
<1>2. ASSUME NEW p \in Machine, Disconnect(m, p) \/ RemovePeer(m, p)
      PROVE  Owner!Next
  <2>1. daemon' = [daemon EXCEPT ![m] = Send(daemon[m], {p}, "Disconnect")]
    BY <1>2 DEF Disconnect, RemovePeer
  <2>2. /\ Consistent(Send(daemon[m], {p}, "Disconnect"), m)
        /\ SameLinked(Send(daemon[m], {p}, "Disconnect"), daemon[m])
    BY <1>0, SendConsistent, QueueLinks DEF Inv, Command
  <2> QED
    BY <2>1, <2>2, SameLinkedStep
<1>3. ASSUME NEW p \in Machine, NEW edge \in Placeable, PlacePeer(m, p, edge)
      PROVE  Owner!Next
  <2>1. PICK front \in Fronts(Placed(daemon[m], p, edge).links) :
          daemon' = [daemon EXCEPT ![m] = SetLayout(daemon[m], m, p, edge, front)]
    BY <1>3 DEF PlacePeer
  <2>2. /\ Consistent(SetLayout(daemon[m], m, p, edge, front), m)
        /\ SameLinked(SetLayout(daemon[m], m, p, edge, front), daemon[m])
    BY <1>0, <1>3, PlaceableAssumption, SetLayoutConsistent, SetLayoutLinks DEF Inv, PlacePeer
  <2> QED
    BY <2>1, <2>2, SameLinkedStep
<1>4. ASSUME NEW p \in Machine,
             \/ \E c \in Session : Dial(m, p, c)
             \/ \E decision \in {"yes", "no"} : DecidePending(m, p, decision)
             \/ ForgetPeer(m, p)
      PROVE  daemon' = daemon
  BY <1>4 DEF Dial, DecidePending, ForgetPeer
<1> QED
  BY <1>1, <1>2, <1>3, <1>4 DEF UserStep

\* At first nothing is linked and every machine has its own input.
LEMMA InitOwner == Init => Owner!Init
<1> SUFFICES ASSUME Init PROVE Owner!Init
  OBVIOUS
<1>1. \A m \in Machine : /\ daemon[m].active = m
                         /\ DOMAIN daemon[m].links = {}
                         /\ daemon[m].suppress = FALSE
  <2> SUFFICES ASSUME NEW m \in Machine
               PROVE  /\ daemon[m].active = m
                      /\ DOMAIN daemon[m].links = {}
                      /\ daemon[m].suppress = FALSE
    OBVIOUS
  <2>1. daemon[m] = NewDaemon(m, EmptyMap)
    BY DEF Init
  <2>2. /\ NewDaemon(m, EmptyMap).active = m
        /\ DOMAIN NewDaemon(m, EmptyMap).links = {}
        /\ NewDaemon(m, EmptyMap).suppress = FALSE
    BY NewIsFree
  <2> QED
    BY <2>1, <2>2, Zenon
<1> QED
  BY <1>1, Zenon DEF Owner!Init

\* Every step is one of InputOwner's or redirects nothing.
LEMMA NextOwner == Inv /\ [Next]_vars => [Owner!Next]_(Owner!vars)
<1> SUFFICES ASSUME Inv, [Next]_vars PROVE Owner!Next \/ daemon' = daemon
  BY DEF Owner!vars
<1>1. CASE Next
  BY <1>1, TaskStepOwner, GiveUpOwner, UserStepOwner, RestartStep DEF Next
<1>2. CASE UNCHANGED vars
  BY <1>2 DEF vars
<1> QED
  BY <1>1, <1>2

\* The daemons implement InputOwner: whatever links come and go, machines restart
\* or hand-overs cross, input moves only because a cursor crossed, a peer reported
\* where it went, or the machine it went to is gone, and in the same critical
\* section in which what is withheld changes.
THEOREM OwnerImplemented == Spec => ImplementsInputOwner
BY InitInv, NextInv, InitOwner, NextOwner, PTL DEF Spec, Owner!Spec, ImplementsInputOwner

-----------------------------------------------------------------------------
(***************************************************************************)
(* Every link of a daemon belongs to one live task, and every task past    *)
(* establish has its own link.  Consistency makes a daemon's index by peer *)
(* tell which session each link has, so it is enough to follow the index:  *)
(* only establish adds to it, only cleanup_peer and a restart take away.   *)
(***************************************************************************)

Held == {"accepting", "running", "closing"}

\* The sessions in m's index are those its tasks hold.
Indexed(m) ==
  /\ \A c \in Session : Holds(m, c) =>
       Other(c, m) \in DOMAIN daemon[m].by_peer /\ daemon[m].by_peer[Other(c, m)] = c
  /\ \A p \in DOMAIN daemon[m].by_peer :
       Holds(m, daemon[m].by_peer[p]) /\ Other(daemon[m].by_peer[p], m) = p

\* Only connections that were made have tasks.
TaskShape ==
  /\ task \in [Session -> [Machine -> Phase]]
  /\ \A c \in Session \ DOMAIN dialed : \A m \in Machine : task[c][m] = "idle"

TaskInv == Inv /\ TaskShape /\ \A m \in Machine : Indexed(m)

-----------------------------------------------------------------------------
(* What critical sections do to the index                                  *)

\* Commands, hand-overs and placements leave it alone.
LEMMA SmallIndex ==
  ASSUME NEW d, "by_peer" \in DOMAIN d, NEW l, NEW p, NEW ps, NEW command, NEW e, NEW front
  PROVE  /\ Send(d, ps, command).by_peer = d.by_peer
         /\ DropCommand(d, p).by_peer = d.by_peer
         /\ SyncSuppression(d, l).by_peer = d.by_peer
         /\ RebuildLayout(d, l, front).by_peer = d.by_peer
         /\ Placed(d, p, e).by_peer = d.by_peer
         /\ YieldControlToPeer(d, l).by_peer = d.by_peer
         /\ FollowPeerCursor(d, l, p).by_peer = d.by_peer
<1>1. Send(d, ps, command).by_peer = d.by_peer /\ DropCommand(d, p).by_peer = d.by_peer
  BY DEF Send, DropCommand
<1>2. SyncSuppression(d, l).by_peer = d.by_peer /\ RebuildLayout(d, l, front).by_peer = d.by_peer
  BY DEF SyncSuppression, RebuildLayout
<1>3. Placed(d, p, e).by_peer = d.by_peer
  BY DEF Placed
<1>4. YieldControlToPeer(d, l).by_peer = d.by_peer
  BY DEF YieldControlToPeer, SyncSuppression, YieldControl
<1>5. FollowPeerCursor(d, l, p).by_peer = d.by_peer
  BY DEF FollowPeerCursor, SyncSuppression, FollowPeer
<1> QED
  BY <1>1, <1>2, <1>3, <1>4, <1>5

LEMMA MotionIndex ==
  ASSUME NEW d, "by_peer" \in DOMAIN d, NEW l, NEW dir, NEW known
  PROVE  RouteMotion(d, l, dir, known).by_peer = d.by_peer
<1> DEFINE s == IF d.active = l THEN SyncCursorToOs(d, l, known) ELSE d
           to == s.layout.neighbors[<<s.cursor, dir>>]
           x == [HandleCrossing(s, to) EXCEPT !.cursor = to]
           a == AdvanceCursor(s, l, dir)
<1>1. s.by_peer = d.by_peer /\ "by_peer" \in DOMAIN s
  BY DEF SyncCursorToOs
<1> HIDE DEF s
<1>2. x.by_peer = s.by_peer /\ "by_peer" \in DOMAIN x
  BY <1>1 DEF HandleCrossing
<1>3. a \in {s, [s EXCEPT !.cursor = l], PlaceCursorAfterCrossing(x, l, to)}
  BY Zenon DEF AdvanceCursor
<1> HIDE DEF x, to
<1>4. PlaceCursorAfterCrossing(x, l, to).by_peer = x.by_peer
      /\ "by_peer" \in DOMAIN PlaceCursorAfterCrossing(x, l, to)
  BY <1>2 DEF PlaceCursorAfterCrossing, Send
<1>5. [s EXCEPT !.cursor = l].by_peer = s.by_peer /\ "by_peer" \in DOMAIN [s EXCEPT !.cursor = l]
  BY <1>1
<1>6. a.by_peer = s.by_peer /\ "by_peer" \in DOMAIN a
  BY <1>1, <1>2, <1>3, <1>4, <1>5
<1> HIDE DEF a
<1>7. SyncSuppression(a, l).by_peer = a.by_peer
  BY <1>6, SmallIndex
<1> QED
  BY <1>1, <1>6, <1>7 DEF RouteMotion, s, a

LEMMA SetLayoutIndex ==
  ASSUME NEW d, "by_peer" \in DOMAIN d, NEW l, NEW p, NEW e, NEW front
  PROVE  SetLayout(d, l, p, e, front).by_peer = d.by_peer
<1> DEFINE u == Placed(d, p, e)
           b == RebuildLayout(u, l, front)
<1>1. u.by_peer = d.by_peer /\ "by_peer" \in DOMAIN u
  BY DEF Placed
<1> HIDE DEF u
<1>2. b.by_peer = u.by_peer /\ "by_peer" \in DOMAIN b
  BY <1>1 DEF RebuildLayout
<1> HIDE DEF b
<1>3. SyncSuppression(b, l).by_peer = b.by_peer
  BY <1>2, SmallIndex
<1> QED
  BY <1>1, <1>2, <1>3 DEF SetLayout, u, b

\* establish adds the peer,
LEMMA LinkUpIndex ==
  ASSUME NEW d, IsDaemon(d), NEW l, NEW id, NEW p, NEW role, NEW front
  PROVE  RebuildLayout(LinkUp(d, id, p, role), l, front).by_peer = Insert(d.by_peer, p, id)
<1> DEFINE u == LinkUp(d, id, p, role)
<1>1. u.by_peer = Insert(d.by_peer, p, id) /\ "by_peer" \in DOMAIN u
  BY Fields DEF LinkUp, Establish
<1> HIDE DEF u
<1>2. RebuildLayout(u, l, front).by_peer = u.by_peer
  BY <1>1 DEF RebuildLayout
<1> QED
  BY <1>1, <1>2 DEF u

\* cleanup_peer takes it away: the session of its link is in the index under it.
LEMMA CleanupIndex ==
  ASSUME NEW l \in Machine, NEW d, Consistent(d, l), NEW p \in DOMAIN d.links, NEW front
  PROVE  CleanupPeer(d, l, p, front).by_peer = Remove(d.by_peer, p)
<1> DEFINE u == LinkDown(d, l, p)
           b == RebuildLayout(u, l, front)
           id == d.links[p].session
<1>1. id \in DOMAIN d.sessions /\ d.sessions[id].peer = p
  BY DEF Consistent, LinksMatchSessions
<1>2. {"by_peer", "sessions", "active", "links"} \subseteq DOMAIN d
  BY Fields DEF Consistent
<1>3. u.by_peer = Remove(d.by_peer, p) /\ "by_peer" \in DOMAIN u
  <2> DEFINE k == Close(d, l, id)
  <2>1. k = [d EXCEPT !.sessions = Remove(d.sessions, id),
                      !.by_peer  = Remove(d.by_peer, p),
                      !.active   = IF d.active = p THEN l ELSE d.active]
    BY <1>1 DEF Close
  <2>2. u = [k EXCEPT !.links = Remove(k.links, p)]
    BY DEF LinkDown
  <2> HIDE DEF id, k, u
  <2>3. k.by_peer = Remove(d.by_peer, p) /\ {"by_peer", "links"} \subseteq DOMAIN k
    BY <1>2, <2>1
  <2> QED
    BY <2>2, <2>3
<1> HIDE DEF u
<1>4. b.by_peer = u.by_peer /\ "by_peer" \in DOMAIN b
  BY <1>3 DEF RebuildLayout
<1> HIDE DEF b
<1>5. SyncSuppression(b, l).by_peer = b.by_peer
  BY <1>4, SmallIndex
<1> QED
  BY <1>3, <1>4, <1>5 DEF CleanupPeer, u, b

-----------------------------------------------------------------------------
(* What steps do to tasks                                                  *)

\* A daemon whose index stays, and whose tasks hold what they held.
LEMMA KeepsIndex ==
  ASSUME TaskInv, NEW n \in Machine, dialed' = dialed,
         daemon'[n].by_peer = daemon[n].by_peer,
         \A x \in DOMAIN dialed : task'[x][n] \in Held <=> task[x][n] \in Held
  PROVE  Indexed(n)'
<1>1. \A x : Holds(n, x)' <=> Holds(n, x)
  BY DEF Holds, Held
<1>2. \A x : Other(x, n)' = Other(x, n)
  BY DEF Other
<1>3. Indexed(n)
  BY DEF TaskInv
<1> QED
  BY <1>1, <1>2, <1>3 DEF Indexed

\* One task goes on to another phase.
LEMMA GotoShape ==
  ASSUME TaskShape, NEW m \in Machine, NEW c \in DOMAIN dialed, c \in Session,
         NEW phase \in Phase, task' = [task EXCEPT ![c][m] = phase], dialed' = dialed
  PROVE  /\ TaskShape'
         /\ \A x \in Session, n \in Machine :
              task'[x][n] = IF x = c /\ n = m THEN phase ELSE task[x][n]
<1>1. \A x \in Session, n \in Machine :
        task'[x][n] = IF x = c /\ n = m THEN phase ELSE task[x][n]
  BY DEF TaskShape
<1>2. task' \in [Session -> [Machine -> Phase]]
  BY DEF TaskShape
<1> QED
  BY <1>1, <1>2 DEF TaskShape

\* Tasks go on without gaining or losing a session, and no index changes.
LEMMA TasksGoOn ==
  ASSUME TaskInv, dialed' = dialed, TaskShape',
         \A n \in Machine : daemon'[n].by_peer = daemon[n].by_peer,
         \A x \in Session, n \in Machine : task'[x][n] \in Held <=> task[x][n] \in Held
  PROVE  TaskShape' /\ \A n \in Machine : Indexed(n)'
<1>1. DOMAIN dialed \subseteq Session
  BY DEF TaskInv, Inv, IsMap
<1> QED
  BY <1>1, KeepsIndex

\* A task whose step changes no index.
LEMMA PhaseStep ==
  ASSUME TaskInv, NEW m \in Machine, NEW c \in DOMAIN dialed, c \in Session,
         NEW phase \in Phase, task' = [task EXCEPT ![c][m] = phase], dialed' = dialed,
         task[c][m] \in Held <=> phase \in Held,
         \A n \in Machine : daemon'[n].by_peer = daemon[n].by_peer
  PROVE  TaskShape' /\ \A n \in Machine : Indexed(n)'
<1>1. /\ TaskShape'
      /\ \A x \in Session, n \in Machine :
           task'[x][n] = IF x = c /\ n = m THEN phase ELSE task[x][n]
  BY GotoShape, ZenonT(40) DEF TaskInv
<1>2. \A x \in Session, n \in Machine : task'[x][n] \in Held <=> task[x][n] \in Held
  BY <1>1
<1> QED
  BY <1>1, <1>2, TasksGoOn

\* No task moves and no index changes.
LEMMA QuietStep ==
  ASSUME TaskInv, task' = task, dialed' = dialed,
         \A n \in Machine : daemon'[n].by_peer = daemon[n].by_peer
  PROVE  TaskShape' /\ \A n \in Machine : Indexed(n)'
<1>1. TaskShape'
  BY DEF TaskInv, TaskShape
<1> QED
  BY <1>1, TasksGoOn

\* One daemon changes, and its index does not.
LEMMA SameIndex ==
  ASSUME Inv, NEW m \in Machine, NEW d, d.by_peer = daemon[m].by_peer,
         daemon' = [daemon EXCEPT ![m] = d]
  PROVE  \A n \in Machine : daemon'[n].by_peer = daemon[n].by_peer
BY DEF Inv

\* establish succeeds: the task gets a session and the index its peer.
LEMMA TaskGains ==
  ASSUME TaskInv, NEW m \in Machine, NEW c \in DOMAIN dialed, c \in Session,
         NEW p, p = Other(c, m), p \notin DOMAIN daemon[m].by_peer,
         task[c][m] \notin Held, NEW phase \in Phase, phase \in Held,
         task' = [task EXCEPT ![c][m] = phase], dialed' = dialed,
         NEW d, d.by_peer = Insert(daemon[m].by_peer, p, c),
         daemon' = [daemon EXCEPT ![m] = d]
  PROVE  TaskShape' /\ \A n \in Machine : Indexed(n)'
<1>1. /\ TaskShape'
      /\ \A x \in Session, n \in Machine :
           task'[x][n] = IF x = c /\ n = m THEN phase ELSE task[x][n]
  <2>1. \A x \in Session, n \in Machine :
          task'[x][n] = IF x = c /\ n = m THEN phase ELSE task[x][n]
    BY DEF TaskInv, TaskShape
  <2>2. task' \in [Session -> [Machine -> Phase]]
    BY DEF TaskInv, TaskShape
  <2> QED
    BY <2>1, <2>2 DEF TaskInv, TaskShape
<1>2. DOMAIN dialed \subseteq Session
  BY DEF TaskInv, Inv, IsMap
<1>3. \A n \in Machine : daemon'[n] = IF n = m THEN d ELSE daemon[n]
  BY DEF TaskInv, Inv
<1>4. ASSUME NEW n \in Machine, n # m PROVE Indexed(n)'
  BY <1>1, <1>2, <1>3, <1>4, KeepsIndex
<1>5. Indexed(m)'
  <2> DEFINE b == daemon[m].by_peer
  <2>1. \A x \in Session : Holds(m, x)' <=> Holds(m, x) \/ x = c
    BY <1>1 DEF Holds, Held
  <2>2. \A x : Other(x, m)' = Other(x, m)
    BY DEF Other
  <2>3. /\ DOMAIN daemon'[m].by_peer = DOMAIN b \cup {p}
        /\ daemon'[m].by_peer[p] = c
        /\ \A q \in DOMAIN b : daemon'[m].by_peer[q] = b[q]
    BY <1>3 DEF Insert
  <2>4. /\ \A x \in Session : Holds(m, x) => Other(x, m) \in DOMAIN b /\ b[Other(x, m)] = x
        /\ \A q \in DOMAIN b : Holds(m, b[q]) /\ Other(b[q], m) = q
    BY DEF TaskInv, Indexed
  <2>5. \A q \in DOMAIN b : b[q] \in Session
    BY <1>2, <2>4 DEF Holds
  <2> HIDE DEF b
  <2>6. ASSUME NEW x \in Session, Holds(m, x)'
        PROVE  Other(x, m)' \in DOMAIN daemon'[m].by_peer
               /\ daemon'[m].by_peer[Other(x, m)'] = x
    BY <2>1, <2>2, <2>3, <2>4, <2>6
  <2>7. ASSUME NEW q \in DOMAIN daemon'[m].by_peer
        PROVE  (Holds(m, daemon[m].by_peer[q]) /\ Other(daemon[m].by_peer[q], m) = q)'
    <3>1. CASE q = p
      BY <2>1, <2>2, <2>3, <3>1
    <3>2. CASE q \in DOMAIN b
      BY <2>1, <2>2, <2>3, <2>4, <2>5, <3>2
    <3> QED
      BY <2>3, <2>7, <3>1, <3>2
  <2> QED
    BY <2>6, <2>7 DEF Indexed
<1> QED
  BY <1>1, <1>4, <1>5

\* cleanup_peer: the task's session goes, and the index loses its peer.
LEMMA TaskLoses ==
  ASSUME TaskInv, NEW m \in Machine, NEW c \in DOMAIN dialed, c \in Session,
         NEW p, p = Other(c, m), task[c][m] \in Held,
         task' = [task EXCEPT ![c][m] = "done"], dialed' = dialed,
         NEW d, d.by_peer = Remove(daemon[m].by_peer, p),
         daemon' = [daemon EXCEPT ![m] = d]
  PROVE  TaskShape' /\ \A n \in Machine : Indexed(n)'
<1>1. /\ TaskShape'
      /\ \A x \in Session, n \in Machine :
           task'[x][n] = IF x = c /\ n = m THEN "done" ELSE task[x][n]
  <2>1. "done" \in Phase /\ TaskShape
    BY DEF TaskInv, Phase
  <2> QED
    BY <2>1, GotoShape, ZenonT(40)
<1>2. DOMAIN dialed \subseteq Session
  BY DEF TaskInv, Inv, IsMap
<1>3. \A n \in Machine : daemon'[n] = IF n = m THEN d ELSE daemon[n]
  BY DEF TaskInv, Inv
<1>4. ASSUME NEW n \in Machine, n # m PROVE Indexed(n)'
  BY <1>1, <1>2, <1>3, <1>4, KeepsIndex
<1>5. Indexed(m)'
  <2> DEFINE b == daemon[m].by_peer
  <2>1. \A x \in Session : Holds(m, x)' <=> Holds(m, x) /\ x # c
    BY <1>1 DEF Holds
  <2>2. \A x : Other(x, m)' = Other(x, m)
    BY DEF Other
  <2>3. /\ DOMAIN daemon'[m].by_peer = DOMAIN b \ {p}
        /\ \A q \in DOMAIN b \ {p} : daemon'[m].by_peer[q] = b[q]
    BY <1>3 DEF Remove
  <2>4. /\ \A x \in Session : Holds(m, x) => Other(x, m) \in DOMAIN b /\ b[Other(x, m)] = x
        /\ \A q \in DOMAIN b : Holds(m, b[q]) /\ Other(b[q], m) = q
    BY DEF TaskInv, Indexed
  <2>5. \A q \in DOMAIN b : b[q] \in Session
    BY <1>2, <2>4 DEF Holds
  <2>6. Holds(m, c) /\ b[p] = c /\ p \in DOMAIN b
    BY <2>4 DEF Holds, Held
  <2> HIDE DEF b
  <2>7. ASSUME NEW x \in Session, Holds(m, x)'
        PROVE  Other(x, m)' \in DOMAIN daemon'[m].by_peer
               /\ daemon'[m].by_peer[Other(x, m)'] = x
    <3>1. Holds(m, x) /\ x # c
      BY <2>1, <2>7
    <3>2. Other(x, m) \in DOMAIN b /\ b[Other(x, m)] = x
      BY <2>4, <3>1
    <3>3. Other(x, m) # p
      BY <2>6, <3>1, <3>2
    <3> QED
      BY <2>2, <2>3, <3>2, <3>3
  <2>8. ASSUME NEW q \in DOMAIN daemon'[m].by_peer
        PROVE  (Holds(m, daemon[m].by_peer[q]) /\ Other(daemon[m].by_peer[q], m) = q)'
    <3>1. q \in DOMAIN b /\ q # p /\ daemon'[m].by_peer[q] = b[q]
      BY <2>3, <2>8
    <3>2. Holds(m, b[q]) /\ Other(b[q], m) = q /\ b[q] \in Session
      BY <2>4, <2>5, <3>1
    <3>3. b[q] # c
      BY <3>1, <3>2
    <3> QED
      BY <2>1, <2>2, <3>1, <3>2, <3>3
  <2> QED
    BY <2>7, <2>8 DEF Indexed
<1> QED
  BY <1>1, <1>4, <1>5

-----------------------------------------------------------------------------
(* Steps                                                                   *)

LEMMA InitTasks == Init => TaskInv
<1> SUFFICES ASSUME Init PROVE TaskShape /\ \A m \in Machine : Indexed(m)
  BY InitInv DEF TaskInv
<1>1. DOMAIN dialed = {} /\ \A c \in Session, m \in Machine : task[c][m] = "idle"
  BY DEF Init, EmptyMap
<1>2. TaskShape
  BY <1>1 DEF TaskShape, Init, Phase
<1>3. \A m \in Machine : daemon[m] = NewDaemon(m, EmptyMap)
  BY DEF Init
<1>4. \A m \in Machine : DOMAIN NewDaemon(m, EmptyMap).by_peer = {}
  BY DEF NewDaemon, RebuildLayout, EmptyMap
<1> QED
  BY <1>1, <1>2, <1>3, <1>4 DEF Indexed, Holds

\* What a task does by itself.
LEMMA TaskStepTasks ==
  ASSUME TaskInv, NEW m \in Machine, NEW c \in Session, TaskStep(m, c)
  PROVE  TaskShape' /\ \A n \in Machine : Indexed(n)'
<1> USE DEF At
<1> DEFINE p == Other(c, m)
<1>1. c \in DOMAIN dialed /\ dialed' = dialed
  BY DEF TaskStep, DialAccepted, RequestArrives, WakeApproved, WakeRefused, EstablishTarget,
         SendAccept, AcceptFails, SendCommand, RecvWarp, RecvReturned, RecvDisconnect, Cleanup
<1>2. /\ Inv /\ Consistent(daemon[m], m) /\ IsDaemon(daemon[m]) /\ "by_peer" \in DOMAIN daemon[m]
      /\ p \in Machine
  BY <1>1, OtherMachine, Fields DEF TaskInv, Inv, Consistent
<1>3. daemon' = daemon => \A n \in Machine : daemon'[n].by_peer = daemon[n].by_peer
  OBVIOUS
<1>4. ASSUME NEW role, NEW front, CanEstablish(daemon[m], c, p),
             daemon' = [daemon EXCEPT ![m] =
                          RebuildLayout(LinkUp(daemon[m], c, p, role), m, front)],
             NEW phase \in Phase, phase \in Held, task[c][m] \notin Held, Goto(m, c, phase)
      PROVE  TaskShape' /\ \A n \in Machine : Indexed(n)'
  <2> DEFINE d == RebuildLayout(LinkUp(daemon[m], c, p, role), m, front)
  <2>1. d.by_peer = Insert(daemon[m].by_peer, p, c)
    BY <1>2, LinkUpIndex
  <2>2. p \notin DOMAIN daemon[m].by_peer
    BY <1>4 DEF CanEstablish
  <2>3. daemon' = [daemon EXCEPT ![m] = d] /\ task' = [task EXCEPT ![c][m] = phase]
    BY <1>4 DEF Goto
  <2> HIDE DEF d
  <2> QED
    BY <1>1, <1>4, <2>1, <2>2, <2>3, TaskGains
<1>5. CASE DialAccepted(m, c)
  <2>1. task[c][m] = "waiting"
    BY <1>5 DEF DialAccepted
  <2>2. CASE Goto(m, c, "running") /\ CanEstablish(daemon[m], c, p)
             /\ \E front \in Fronts(LinkUp(daemon[m], c, p, "Controller").links) :
                  daemon' = [daemon EXCEPT ![m] =
                               RebuildLayout(LinkUp(daemon[m], c, p, "Controller"), m, front)]
    BY <1>4, <2>1, <2>2 DEF Held, Phase
  <2>3. CASE Goto(m, c, "done") /\ daemon' = daemon
    BY <1>1, <1>3, <2>1, <2>3, PhaseStep DEF Goto, Held, Phase
  <2> QED
    BY <1>5, <2>2, <2>3 DEF DialAccepted
<1>6. CASE EstablishTarget(m, c)
  <2>1. task[c][m] = "approved"
    BY <1>6 DEF EstablishTarget
  <2>2. CASE Goto(m, c, "accepting") /\ CanEstablish(daemon[m], c, p)
             /\ \E front \in Fronts(LinkUp(daemon[m], c, p, "Target").links) :
                  daemon' = [daemon EXCEPT ![m] =
                               RebuildLayout(LinkUp(daemon[m], c, p, "Target"), m, front)]
    BY <1>4, <2>1, <2>2 DEF Held, Phase
  <2>3. CASE Goto(m, c, "done") /\ daemon' = daemon
    BY <1>1, <1>3, <2>1, <2>3, PhaseStep DEF Goto, Held, Phase
  <2> QED
    BY <1>6, <2>2, <2>3 DEF EstablishTarget
<1>7. CASE AcceptFails(m, c) \/ Cleanup(m, c)
  <2>1. task[c][m] \in Held /\ task' = [task EXCEPT ![c][m] = "done"]
    BY <1>7 DEF AcceptFails, Cleanup, Held, Goto
  <2>2. PICK front : daemon' = [daemon EXCEPT ![m] = CleanupPeer(daemon[m], m, p, front)]
    BY <1>7 DEF AcceptFails, Cleanup
  <2> DEFINE d == CleanupPeer(daemon[m], m, p, front)
  <2>3. p \in DOMAIN daemon[m].by_peer
    BY <1>1, <2>1 DEF TaskInv, Indexed, Holds, Held
  <2>4. p \in DOMAIN daemon[m].links
    BY <1>2, <2>3 DEF Consistent, LinksMatchSessions
  <2>5. d.by_peer = Remove(daemon[m].by_peer, p)
    BY <1>2, <2>4, CleanupIndex
  <2> HIDE DEF d
  <2> QED
    BY <1>1, <2>1, <2>2, <2>5, TaskLoses DEF d
<1>8. CASE SendCommand(m, c)
  <2> DEFINE d == DropCommand(daemon[m], p)
  <2>1. task[c][m] = "running" /\ daemon' = [daemon EXCEPT ![m] = d]
    BY <1>8 DEF SendCommand
  <2>2. task' = [task EXCEPT ![c][m] = "closing"] \/ task' = task
    BY <1>8 DEF SendCommand
  <2>3. d.by_peer = daemon[m].by_peer
    BY <1>2, SmallIndex
  <2> HIDE DEF d
  <2>4. \A n \in Machine : daemon'[n].by_peer = daemon[n].by_peer
    BY <1>2, <2>1, <2>3, SameIndex
  <2> QED
    BY <1>1, <2>1, <2>2, <2>4, PhaseStep, QuietStep DEF Held, Phase
<1>9. CASE RecvWarp(m, c) \/ RecvReturned(m, c)
  <2>1. PICK d : d.by_peer = daemon[m].by_peer /\ daemon' = [daemon EXCEPT ![m] = d]
    BY <1>2, <1>9, SmallIndex DEF RecvWarp, RecvReturned
  <2>2. \A n \in Machine : daemon'[n].by_peer = daemon[n].by_peer
    BY <1>2, <2>1, SameIndex
  <2> QED
    BY <1>1, <1>9, <2>2, QuietStep DEF RecvWarp, RecvReturned
<1>10. CASE RequestArrives(m, c) \/ SendAccept(m, c) \/ RecvDisconnect(m, c)
  <2>1. PICK phase \in Phase : /\ task' = [task EXCEPT ![c][m] = phase]
                               /\ task[c][m] \in Held <=> phase \in Held
    BY <1>10 DEF RequestArrives, SendAccept, RecvDisconnect, Goto, Held, Phase
  <2>2. \A n \in Machine : daemon'[n].by_peer = daemon[n].by_peer
    BY <1>10 DEF RequestArrives, SendAccept, RecvDisconnect
  <2> QED
    BY <1>1, <2>1, <2>2, PhaseStep
<1>11. CASE WakeApproved(m, c) \/ WakeRefused(m, c)
  <2>1. PICK phase \in {"approved", "done"} : task' = Unlisted(m, c, phase)
    BY <1>11 DEF WakeApproved, WakeRefused
  <2>2. task[c][m] \notin Held /\ daemon' = daemon
    BY <1>11 DEF WakeApproved, WakeRefused, Held
  <2>3. task \in [Session -> [Machine -> Phase]]
    BY DEF TaskInv, TaskShape
  <2>4. ASSUME NEW x \in Session
        PROVE  /\ task'[x] \in [Machine -> Phase]
               /\ \A n \in Machine : task'[x][n] \in Held <=> task[x][n] \in Held
               /\ x \notin DOMAIN dialed => task'[x] = task[x]
    <3>1. \/ x = c /\ task'[x] = [task[x] EXCEPT ![m] = phase]
          \/ x \in DOMAIN dialed /\ task[x][m] = "pending"
             /\ task'[x] = [task[x] EXCEPT ![m] = "lapsed"]
          \/ task'[x] = task[x]
      BY <2>1 DEF Unlisted
    <3> QED
      BY <1>1, <2>2, <2>3, <3>1 DEF Held, Phase
  <2>5. TaskShape'
    <3>1. task' \in [Session -> [Machine -> Phase]]
      BY <2>1, <2>4 DEF Unlisted
    <3> QED
      BY <1>1, <2>4, <3>1 DEF TaskInv, TaskShape
  <2> QED
    BY <1>1, <1>3, <2>2, <2>4, <2>5, TasksGoOn
<1> QED
  BY <1>5, <1>6, <1>7, <1>8, <1>9, <1>10, <1>11 DEF TaskStep

\* Timers and lost connections.
LEMMA GiveUpTasks ==
  ASSUME TaskInv, NEW m \in Machine, NEW c \in Session, GiveUp(m, c) \/ GoDeaf(m, c)
  PROVE  TaskShape' /\ \A n \in Machine : Indexed(n)'
<1> USE DEF At
<1>1. /\ dialed' = dialed
      /\ \A n \in Machine : daemon'[n].by_peer = daemon[n].by_peer
  BY DEF GiveUp, GoDeaf, DialRefused, RequestMissing, DecisionTimeout, SeePeerGone,
         HeartbeatTimeout
<1>2. CASE GiveUp(m, c)
  <2>1. PICK phase \in Phase : /\ c \in DOMAIN dialed
                               /\ task' = [task EXCEPT ![c][m] = phase]
                               /\ task[c][m] \in Held <=> phase \in Held
    BY <1>2 DEF GiveUp, DialRefused, RequestMissing, DecisionTimeout, SeePeerGone,
                HeartbeatTimeout, Goto, Held, Phase
  <2> QED
    BY <1>1, <2>1, PhaseStep
<1>3. CASE GoDeaf(m, c)
  BY <1>1, <1>3, QuietStep DEF GoDeaf
<1> QED
  BY <1>2, <1>3
\* What people do.  A dial makes two tasks, neither of which has a session yet.
LEMMA UserStepTasks ==
  ASSUME TaskInv, NEW m \in Machine, UserStep(m)
  PROVE  TaskShape' /\ \A n \in Machine : Indexed(n)'
<1>1. Inv /\ "by_peer" \in DOMAIN daemon[m]
  BY Fields DEF TaskInv, Inv, Consistent
<1>2. ASSUME NEW d, d.by_peer = daemon[m].by_peer, daemon' = [daemon EXCEPT ![m] = d],
             task' = task, dialed' = dialed
      PROVE  TaskShape' /\ \A n \in Machine : Indexed(n)'
  <2>1. \A n \in Machine : daemon'[n].by_peer = daemon[n].by_peer
    BY <1>1, <1>2, SameIndex
  <2> QED
    BY <1>2, <2>1, QuietStep
<1>3. ASSUME NEW dir \in Edge \cup {"inside"}, NEW known \in BOOLEAN, Motion(m, dir, known)
      PROVE  TaskShape' /\ \A n \in Machine : Indexed(n)'
  <2> DEFINE d == RouteMotion(daemon[m], m, dir, known)
  <2>1. d.by_peer = daemon[m].by_peer
    BY <1>1, MotionIndex
  <2>2. daemon' = [daemon EXCEPT ![m] = d] /\ task' = task /\ dialed' = dialed
    BY <1>3 DEF Motion
  <2> HIDE DEF d
  <2> QED
    BY <1>2, <2>1, <2>2
<1>4. ASSUME NEW p \in Machine, Disconnect(m, p) \/ RemovePeer(m, p)
      PROVE  TaskShape' /\ \A n \in Machine : Indexed(n)'
  <2> DEFINE d == Send(daemon[m], {p}, "Disconnect")
  <2>1. d.by_peer = daemon[m].by_peer
    BY <1>1, SmallIndex, SMTT(30)
  <2>2. daemon' = [daemon EXCEPT ![m] = d] /\ task' = task /\ dialed' = dialed
    BY <1>4 DEF Disconnect, RemovePeer
  <2> HIDE DEF d
  <2> QED
    BY <1>2, <2>1, <2>2
<1>5. ASSUME NEW p \in Machine, NEW edge \in Placeable, PlacePeer(m, p, edge)
      PROVE  TaskShape' /\ \A n \in Machine : Indexed(n)'
  <2>1. PICK front : daemon' = [daemon EXCEPT ![m] = SetLayout(daemon[m], m, p, edge, front)]
    BY <1>5 DEF PlacePeer
  <2> DEFINE d == SetLayout(daemon[m], m, p, edge, front)
  <2>2. d.by_peer = daemon[m].by_peer
    BY <1>1, SetLayoutIndex
  <2>3. daemon' = [daemon EXCEPT ![m] = d] /\ task' = task /\ dialed' = dialed
    BY <1>5, <2>1 DEF PlacePeer
  <2> HIDE DEF d
  <2> QED
    BY <1>2, <2>2, <2>3
<1>6. ASSUME NEW p \in Machine, ForgetPeer(m, p)
      PROVE  TaskShape' /\ \A n \in Machine : Indexed(n)'
  BY <1>6, QuietStep DEF ForgetPeer
<1>7. ASSUME NEW p \in Machine, NEW decision \in {"yes", "no"}, DecidePending(m, p, decision)
      PROVE  TaskShape' /\ \A n \in Machine : Indexed(n)'
  <2>1. PICK c : task' = IF task[c][m] = "pending" THEN [task EXCEPT ![c][m] = decision] ELSE task
    BY <1>7 DEF DecidePending
  <2>2. dialed' = dialed /\ \A n \in Machine : daemon'[n].by_peer = daemon[n].by_peer
    BY <1>7 DEF DecidePending
  <2>3. TaskShape
    BY DEF TaskInv
  <2>4. CASE task' = task
    BY <2>2, <2>4, QuietStep
  <2>5. CASE c \notin Session /\ task' = [task EXCEPT ![c][m] = decision]
    <3>1. task' = task
      BY <2>3, <2>5 DEF TaskShape
    <3> QED
      BY <2>4, <3>1
  <2>6. CASE c \in Session /\ task[c][m] = "pending" /\ task' = [task EXCEPT ![c][m] = decision]
    <3>1. c \in DOMAIN dialed
      BY <2>3, <2>6 DEF TaskShape
    <3>2. decision \in Phase /\ task[c][m] \notin Held /\ decision \notin Held
      BY <2>6 DEF Held, Phase
    <3> QED
      BY <2>2, <2>6, <3>1, <3>2, PhaseStep
  <2> QED
    BY <2>1, <2>4, <2>5, <2>6
<1>8. ASSUME NEW p \in Machine, NEW c \in Session, Dial(m, p, c)
      PROVE  TaskShape' /\ \A n \in Machine : Indexed(n)'
  <2>1. /\ c \notin DOMAIN dialed /\ m # p /\ daemon' = daemon
        /\ dialed' = Insert(dialed, c, [from |-> m, to |-> p])
        /\ task' = [task EXCEPT ![c][m] = "waiting", ![c][p] = "request"]
    BY <1>8 DEF Dial
  <2>2. /\ DOMAIN dialed' = DOMAIN dialed \cup {c}
        /\ \A x \in DOMAIN dialed : dialed'[x] = dialed[x]
    BY <2>1 DEF Insert
  <2>3. /\ task' \in [Session -> [Machine -> Phase]]
        /\ \A x \in Session \ {c} : task'[x] = task[x]
        /\ \A n \in Machine : task'[c][n] \notin Held
    BY <2>1 DEF TaskInv, TaskShape, Phase, Held
  <2>4. TaskShape'
    BY <2>2, <2>3 DEF TaskInv, TaskShape
  <2>5. ASSUME NEW n \in Machine PROVE Indexed(n)'
    <3>1. \A x \in Session : Holds(n, x)' <=> Holds(n, x)
      BY <2>1, <2>2, <2>3 DEF Holds, Held
    <3>2. \A x \in DOMAIN dialed : Other(x, n)' = Other(x, n)
      BY <2>2 DEF Other
    <3>3. Indexed(n) /\ DOMAIN dialed \subseteq Session
      BY DEF TaskInv, Inv, IsMap
    <3>4. \A x : Holds(n, x) => x \in DOMAIN dialed
      BY DEF Holds
    <3> QED
      BY <2>1, <3>1, <3>2, <3>3, <3>4 DEF Indexed
  <2> QED
    BY <2>4, <2>5
<1> QED
  BY <1>3, <1>4, <1>5, <1>6, <1>7, <1>8 DEF UserStep

\* A process that ends takes its tasks along with its links.
LEMMA RestartTasks ==
  ASSUME TaskInv, NEW m \in Machine, Crash(m) \/ Stop(m)
  PROVE  TaskShape' /\ \A n \in Machine : Indexed(n)'
<1> DEFINE d == NewDaemon(m, daemon[m].placements)
           mine == {c \in DOMAIN dialed : task[c][m] \notin {"idle", "done"}}
<1>1. /\ daemon' = [daemon EXCEPT ![m] = d] /\ dialed' = dialed
      /\ task' = [c \in Session |-> IF c \in mine THEN [task[c] EXCEPT ![m] = "done"] ELSE task[c]]
  BY DEF Crash, Stop, Restart
<1>2. DOMAIN d.by_peer = {}
  BY DEF NewDaemon, RebuildLayout, EmptyMap
<1>3. task \in [Session -> [Machine -> Phase]] /\ DOMAIN dialed \subseteq Session
  BY DEF TaskInv, TaskShape, Inv, IsMap
<1>4. /\ task' \in [Session -> [Machine -> Phase]]
      /\ \A x \in Session \ DOMAIN dialed : task'[x] = task[x]
      /\ \A x \in Session, n \in Machine \ {m} : task'[x][n] = task[x][n]
      /\ \A x \in DOMAIN dialed : task'[x][m] \in {"idle", "done"}
  BY <1>1, <1>3 DEF Phase
<1>5. \A n \in Machine : daemon'[n] = IF n = m THEN d ELSE daemon[n]
  BY <1>1 DEF TaskInv, Inv
<1> HIDE DEF d, mine
<1>6. TaskShape'
  BY <1>1, <1>4 DEF TaskInv, TaskShape
<1>7. ASSUME NEW n \in Machine, n # m PROVE Indexed(n)'
  BY <1>1, <1>3, <1>4, <1>5, <1>7, KeepsIndex
<1>8. Indexed(m)'
  <2>1. \A x : ~ Holds(m, x)'
    BY <1>1, <1>4 DEF Holds
  <2> QED
    BY <1>2, <1>5, <2>1 DEF Indexed
<1> QED
  BY <1>6, <1>7, <1>8

LEMMA NextTasks == TaskInv /\ [Next]_vars => TaskInv'
<1> SUFFICES ASSUME TaskInv, [Next]_vars PROVE TaskInv'
  OBVIOUS
<1>1. Inv'
  BY NextInv DEF TaskInv
<1>2. CASE Next
  <2>1. TaskShape' /\ \A n \in Machine : Indexed(n)'
    BY <1>2, TaskStepTasks, GiveUpTasks, UserStepTasks, RestartTasks DEF Next
  <2> QED
    BY <1>1, <2>1 DEF TaskInv
<1>3. CASE UNCHANGED vars
  <2>1. TaskShape' /\ \A n \in Machine : Indexed(n)'
    BY <1>3, QuietStep DEF vars
  <2> QED
    BY <1>1, <2>1 DEF TaskInv
<1> QED
  BY <1>2, <1>3

\* Each link belongs to one live task and each task past establish still has its
\* own: cleanup_peer, which goes by machine and not by session, never takes away
\* the link of a newer session, however dials, answers, timeouts, disconnects and
\* restarts of any number of machines interleave.
THEOREM TasksAlwaysOwnLinks == Spec => []TasksOwnLinks
<1>1. TaskInv => TasksOwnLinks
  <2> SUFFICES ASSUME TaskInv, NEW m \in Machine
               PROVE  /\ \A c \in Session : Holds(m, c) =>
                           /\ Other(c, m) \in DOMAIN daemon[m].links
                           /\ daemon[m].links[Other(c, m)].session = c
                      /\ \A p \in DOMAIN daemon[m].links :
                           LET c == daemon[m].links[p].session
                           IN  Holds(m, c) /\ Other(c, m) = p
    BY DEF TasksOwnLinks
  <2>1. /\ DOMAIN daemon[m].by_peer = DOMAIN daemon[m].links
        /\ \A p \in DOMAIN daemon[m].links : daemon[m].by_peer[p] = daemon[m].links[p].session
    BY DEF TaskInv, Inv, Consistent, LinksMatchSessions
  <2>2. Indexed(m)
    BY DEF TaskInv
  <2> QED
    BY <2>1, <2>2 DEF Indexed
<1> QED
  BY <1>1, InitTasks, NextTasks, PTL DEF Spec

-----------------------------------------------------------------------------
(***************************************************************************)
(* The requests listed for `omni accept' and the tasks that wait for the   *)
(* answer.  What makes it inductive is that only connections that were     *)
(* made are listed, so that a new one never meets an old entry.            *)
(***************************************************************************)

Open == {"pending", "lapsed"}

\* What m lists and what its tasks wait for.
Listed(m) ==
  /\ \A i \in DOMAIN pending[m] :
       pending[m][i] \in DOMAIN dialed /\ task[pending[m][i]][m] \in Open
  /\ \A i, j \in DOMAIN pending[m] : pending[m][i] = pending[m][j] => i = j
  /\ \A c \in Session : task[c][m] = "pending" =>
       \E i \in DOMAIN pending[m] : pending[m][i] = c

ListShape == pending \in [Machine -> Seq(Session)]

ListInv == TaskInv /\ ListShape /\ \A m \in Machine : Listed(m)

\* A list that stays as it is, while no task starts to wait and no task listed
\* goes on to anything but the end of its wait.
LEMMA ListStays ==
  ASSUME NEW n \in Machine, Listed(n), ListShape,
         pending'[n] = pending[n], DOMAIN dialed \subseteq DOMAIN dialed',
         \A x \in Session : task'[x][n] = "pending" => task[x][n] = "pending",
         \A x \in Session : task[x][n] \in Open => task'[x][n] \in Open
  PROVE  Listed(n)'
<1>1. pending[n] \in Seq(Session)
  BY DEF ListShape
<1>2. \A i \in DOMAIN pending[n] : pending[n][i] \in Session
  BY <1>1
<1> QED
  BY <1>2 DEF Listed

\* A list from which entries are struck, each with a task that goes on, while the
\* tasks of the others wait as they did.
LEMMA ListShrinks ==
  ASSUME NEW n \in Machine, Listed(n), ListShape, dialed' = dialed,
         NEW keep \in SUBSET DOMAIN pending[n], pending'[n] = Retain(pending[n], keep),
         \A i \in keep : task'[pending[n][i]][n] \in Open,
         \A x \in Session : task'[x][n] = "pending" => \E i \in keep : pending[n][i] = x
  PROVE  Listed(n)' /\ pending'[n] \in Seq(Session)
<1> DEFINE s == pending[n]
           r == Retain(s, keep)
<1>1. s \in Seq(Session) /\ keep \in SUBSET DOMAIN s
  BY DEF ListShape
<1>2. /\ Retain(s, keep) \in Seq(Session)
      /\ \A k \in DOMAIN Retain(s, keep) : \E i \in keep : Retain(s, keep)[k] = s[i]
      /\ \A i \in keep : \E k \in DOMAIN Retain(s, keep) : Retain(s, keep)[k] = s[i]
      /\ (\A i, j \in DOMAIN s : s[i] = s[j] => i = j) =>
           \A i, j \in DOMAIN Retain(s, keep) :
             Retain(s, keep)[i] = Retain(s, keep)[j] => i = j
  BY <1>1, RetainElements
<1>3. /\ r \in Seq(Session)
      /\ \A k \in DOMAIN r : \E i \in keep : r[k] = s[i]
      /\ \A i \in keep : \E k \in DOMAIN r : r[k] = s[i]
      /\ (\A i, j \in DOMAIN s : s[i] = s[j] => i = j) =>
           \A i, j \in DOMAIN r : r[i] = r[j] => i = j
  BY <1>2
<1>4. \A j, k \in DOMAIN s : s[j] = s[k] => j = k
  BY DEF Listed
<1>5. pending'[n] = r
  OBVIOUS
<1>6. \A i \in keep : s[i] \in DOMAIN dialed' /\ task'[s[i]][n] \in Open
  BY DEF Listed
<1>7. \A x \in Session : task'[x][n] = "pending" => \E i \in keep : s[i] = x
  OBVIOUS
<1> HIDE DEF r, s
<1>8. \A k \in DOMAIN r : r[k] \in DOMAIN dialed' /\ task'[r[k]][n] \in Open
  BY <1>3, <1>6
<1>9. \A j, k \in DOMAIN r : r[j] = r[k] => j = k
  BY <1>3, <1>4
<1>10. \A x \in Session : task'[x][n] = "pending" => \E k \in DOMAIN r : r[k] = x
  BY <1>3, <1>7
<1> QED
  BY <1>3, <1>5, <1>8, <1>9, <1>10 DEF Listed

\* A list with a new entry, whose task starts to wait.
LEMMA ListGrows ==
  ASSUME NEW n \in Machine, Listed(n), ListShape, dialed' = dialed,
         NEW c \in Session, c \in DOMAIN dialed, task[c][n] \notin Open,
         pending'[n] = Append(pending[n], c), task'[c][n] = "pending",
         \A x \in Session \ {c} : task'[x][n] = task[x][n]
  PROVE  Listed(n)' /\ pending'[n] \in Seq(Session)
<1> DEFINE s == pending[n]
           r == Append(s, c)
<1>1. s \in Seq(Session) /\ Len(s) \in Nat /\ DOMAIN s = 1..Len(s)
  BY DEF ListShape
<1>2. /\ r \in Seq(Session) /\ DOMAIN r = 1..(Len(s) + 1)
      /\ \A k \in DOMAIN r : IF k = Len(s) + 1 THEN r[k] = c ELSE k \in DOMAIN s /\ r[k] = s[k]
      /\ Len(s) + 1 \in DOMAIN r
      /\ \A k \in DOMAIN s : k \in DOMAIN r /\ r[k] = s[k]
  BY <1>1
<1>3. pending'[n] = r
  OBVIOUS
<1>4. \A k \in DOMAIN s : s[k] \in Session \ {c} /\ s[k] \in DOMAIN dialed /\ task[s[k]][n] \in Open
  BY <1>1 DEF Listed
<1>5. \A j, k \in DOMAIN s : s[j] = s[k] => j = k
  BY DEF Listed
<1>6. \A x \in Session : task[x][n] = "pending" => \E i \in DOMAIN s : s[i] = x
  BY DEF Listed
<1> HIDE DEF r, s
<1>7. \A k \in DOMAIN r : r[k] \in DOMAIN dialed' /\ task'[r[k]][n] \in Open
  BY <1>2, <1>4 DEF Open
<1>8. \A j, k \in DOMAIN r : r[j] = r[k] => j = k
  BY <1>2, <1>4, <1>5
<1>9. \A x \in Session : task'[x][n] = "pending" => \E k \in DOMAIN r : r[k] = x
  BY <1>2, <1>6
<1> QED
  BY <1>2, <1>3, <1>7, <1>8, <1>9 DEF Listed

-----------------------------------------------------------------------------
(* Steps                                                                   *)

LEMMA InitLists == Init => ListInv
<1> SUFFICES ASSUME Init PROVE ListShape /\ \A m \in Machine : Listed(m)
  BY InitTasks DEF ListInv
<1>1. \A m \in Machine : pending[m] = <<>>
  BY DEF Init
<1>2. \A c \in Session, m \in Machine : task[c][m] = "idle"
  BY DEF Init
<1> QED
  BY <1>1, <1>2 DEF ListShape, Listed, Init

\* A step that strikes nothing and moves at most one task, which neither listed
\* before nor does afterwards, is all the lists ask for; so is the end of a wait.
LEMMA MoveLists ==
  ASSUME ListInv, pending' = pending, DOMAIN dialed \subseteq DOMAIN dialed',
         NEW m \in Machine, NEW c \in Session, NEW phase,
         task' = task \/ task' = [task EXCEPT ![c][m] = phase],
         \/ task[c][m] \notin Open /\ phase # "pending"
         \/ phase = "lapsed"
  PROVE  ListShape' /\ \A n \in Machine : Listed(n)'
<1>1. ListShape'
  BY DEF ListInv, ListShape
<1>2. ASSUME NEW n \in Machine PROVE Listed(n)'
  <2>1. /\ \A x \in Session : task'[x][n] = "pending" => task[x][n] = "pending"
        /\ \A x \in Session : task[x][n] \in Open => task'[x][n] \in Open
    BY DEF ListInv, TaskInv, TaskShape, Open
  <2> QED
    BY <2>1, ListStays DEF ListInv
<1> QED
  BY <1>1, <1>2

\* A step that concerns the lists of one machine only.
LEMMA OneList ==
  ASSUME ListInv, NEW m \in Machine, NEW s,
         pending' = [pending EXCEPT ![m] = s], dialed' = dialed,
         \A x \in Session, n \in Machine \ {m} : task'[x][n] = task[x][n],
         Listed(m)', pending'[m] \in Seq(Session)
  PROVE  ListShape' /\ \A n \in Machine : Listed(n)'
<1>1. pending \in [Machine -> Seq(Session)] /\ pending'[m] = s
  BY DEF ListInv, ListShape
<1>2. ListShape'
  BY <1>1 DEF ListShape
<1>3. ASSUME NEW n \in Machine, n # m PROVE Listed(n)'
  BY <1>1, <1>3, ListStays DEF ListInv
<1> QED
  BY <1>2, <1>3

\* A task that wakes strikes every request of the same peer, and the tasks of
\* those it strikes find their wait over.
LEMMA WakeLists ==
  ASSUME ListInv, NEW m \in Machine, NEW c \in Session, c \in DOMAIN dialed,
         NEW phase \in Phase \ {"pending"}, dialed' = dialed,
         pending' = SamePeerRemoved(m, c), task' = Unlisted(m, c, phase)
  PROVE  ListShape' /\ \A n \in Machine : Listed(n)'
<1> DEFINE keep == {i \in DOMAIN pending[m] : dialed[pending[m][i]].from # dialed[c].from}
<1>1. /\ pending' = [pending EXCEPT ![m] = Retain(pending[m], keep)]
      /\ pending'[m] = Retain(pending[m], keep)
  BY DEF SamePeerRemoved, ListInv, ListShape
<1>2. keep \in SUBSET DOMAIN pending[m] /\ Listed(m) /\ ListShape
  BY DEF ListInv
<1>3. task \in [Session -> [Machine -> Phase]]
  BY DEF ListInv, TaskInv, TaskShape
<1>4. \A x \in Session, n \in Machine \ {m} : task'[x][n] = task[x][n]
  BY <1>3 DEF Unlisted
<1>5. task'[c][m] = phase
  BY <1>3 DEF Unlisted
<1>6. \A x \in Session \ {c} : x \in DOMAIN dialed /\ dialed[x].from = dialed[c].from =>
         task'[x][m] # "pending"
  BY <1>3 DEF Unlisted
<1>7. \A x \in Session \ {c} : x \notin DOMAIN dialed \/ dialed[x].from # dialed[c].from =>
         task'[x][m] = task[x][m]
  BY <1>3 DEF Unlisted
<1>8. \A i \in DOMAIN pending[m] :
        /\ pending[m][i] \in Session /\ pending[m][i] \in DOMAIN dialed
        /\ task[pending[m][i]][m] \in Open
  BY <1>2 DEF Listed, ListShape
<1>9. \A i \in keep : task'[pending[m][i]][m] \in Open
  BY <1>7, <1>8
<1>10. \A x \in Session : task'[x][m] = "pending" => \E i \in keep : pending[m][i] = x
  <2> SUFFICES ASSUME NEW x \in Session, task'[x][m] = "pending"
               PROVE  \E i \in keep : pending[m][i] = x
    OBVIOUS
  <2>1. x # c
    BY <1>5
  <2>2. ~ (x \in DOMAIN dialed /\ dialed[x].from = dialed[c].from)
    BY <1>6, <2>1
  <2>3. task[x][m] = "pending"
    BY <1>7, <2>1, <2>2
  <2>4. PICK i \in DOMAIN pending[m] : pending[m][i] = x
    BY <1>2, <2>3 DEF Listed
  <2>5. i \in keep
    BY <1>8, <2>2, <2>4
  <2> QED
    BY <2>4, <2>5
<1> HIDE DEF keep
<1>11. Listed(m)' /\ pending'[m] \in Seq(Session)
  BY <1>1, <1>2, <1>9, <1>10, ListShrinks
<1> QED
  BY <1>1, <1>4, <1>11, OneList

LEMMA TaskStepLists ==
  ASSUME ListInv, NEW m \in Machine, NEW c \in Session, TaskStep(m, c)
  PROVE  ListShape' /\ \A n \in Machine : Listed(n)'
<1> USE DEF At
<1>1. CASE RequestArrives(m, c)
  <2>1. task[c][m] = "request" /\ c \in DOMAIN dialed /\ dialed' = dialed
    BY <1>1 DEF RequestArrives
  <2>2. CASE Goto(m, c, "approved") /\ UNCHANGED pending
    BY <2>1, <2>2, MoveLists DEF Goto, Open
  <2>3. CASE Goto(m, c, "pending") /\ pending' = [pending EXCEPT ![m] = Append(pending[m], c)]
    <3>1. /\ pending'[m] = Append(pending[m], c) /\ task'[c][m] = "pending"
          /\ \A x \in Session \ {c} : task'[x][m] = task[x][m]
          /\ \A x \in Session, n \in Machine \ {m} : task'[x][n] = task[x][n]
      BY <2>3 DEF Goto, ListInv, ListShape, TaskInv, TaskShape
    <3>2. task[c][m] \notin Open
      BY <2>1 DEF Open
    <3>3. Listed(m)' /\ pending'[m] \in Seq(Session)
      BY <2>1, <3>1, <3>2, ListGrows DEF ListInv
    <3> QED
      BY <2>1, <2>3, <3>1, <3>3, OneList
  <2> QED
    BY <1>1, <2>2, <2>3 DEF RequestArrives
<1>2. CASE WakeApproved(m, c)
  BY <1>2, WakeLists DEF WakeApproved, Phase
<1>3. CASE WakeRefused(m, c)
  BY <1>3, WakeLists DEF WakeRefused, Phase
<1>4. CASE \/ DialAccepted(m, c) \/ EstablishTarget(m, c) \/ SendAccept(m, c) \/ AcceptFails(m, c)
           \/ RecvDisconnect(m, c) \/ Cleanup(m, c)
  <2>1. /\ pending' = pending /\ dialed' = dialed
        /\ task[c][m] \in {"waiting", "approved", "accepting", "running", "closing"}
        /\ \E phase \in {"running", "accepting", "closing", "done"} :
             task' = [task EXCEPT ![c][m] = phase]
    BY <1>4 DEF DialAccepted, EstablishTarget, SendAccept, AcceptFails, RecvDisconnect, Cleanup, Goto
  <2> QED
    BY <2>1, MoveLists DEF Open
<1>5. CASE SendCommand(m, c) \/ RecvWarp(m, c) \/ RecvReturned(m, c)
  <2>1. /\ pending' = pending /\ dialed' = dialed /\ task[c][m] = "running"
        /\ task' = task \/ task' = [task EXCEPT ![c][m] = "closing"]
    BY <1>5 DEF SendCommand, RecvWarp, RecvReturned
  <2> QED
    BY <2>1, MoveLists DEF Open
<1> QED
  BY <1>1, <1>2, <1>3, <1>4, <1>5 DEF TaskStep

LEMMA GiveUpLists ==
  ASSUME ListInv, NEW m \in Machine, NEW c \in Session, GiveUp(m, c)
  PROVE  ListShape' /\ \A n \in Machine : Listed(n)'
<1> USE DEF At, Goto
<1>1. pending' = pending /\ dialed' = dialed
  BY DEF GiveUp, DialRefused, RequestMissing, DecisionTimeout, SeePeerGone, HeartbeatTimeout
<1>2. CASE DecisionTimeout(m, c)
  BY <1>1, <1>2, MoveLists DEF DecisionTimeout
<1>3. CASE ~ DecisionTimeout(m, c)
  <2>1. /\ task[c][m] \in {"waiting", "request", "running"}
        /\ \E phase \in {"done", "closing"} : task' = [task EXCEPT ![c][m] = phase]
    BY <1>3 DEF GiveUp, DialRefused, RequestMissing, SeePeerGone, HeartbeatTimeout
  <2> QED
    BY <1>1, <2>1, MoveLists DEF Open
<1> QED
  BY <1>2, <1>3

LEMMA UserStepLists ==
  ASSUME ListInv, NEW m \in Machine, UserStep(m)
  PROVE  ListShape' /\ \A n \in Machine : Listed(n)'
<1>1. CASE UNCHANGED <<pending, dialed, task>>
  <2>1. ListShape' /\ \A n \in Machine : Listed(n)'
    BY <1>1, ListStays DEF ListInv, ListShape
  <2> QED
    BY <2>1
<1>2. ASSUME NEW p \in Machine, NEW c \in Session, Dial(m, p, c)
      PROVE  ListShape' /\ \A n \in Machine : Listed(n)'
  <2>1. /\ c \notin DOMAIN dialed /\ m # p /\ pending' = pending
        /\ DOMAIN dialed \subseteq DOMAIN dialed'
        /\ task' = [task EXCEPT ![c][m] = "waiting", ![c][p] = "request"]
    BY <1>2 DEF Dial, Insert
  <2>2. ASSUME NEW n \in Machine PROVE Listed(n)'
    <3>1. task[c][n] = "idle" /\ task'[c][n] \in {"idle", "waiting", "request"}
      BY <2>1 DEF ListInv, TaskInv, TaskShape
    <3>2. \A x \in Session \ {c} : task'[x][n] = task[x][n]
      BY <2>1 DEF ListInv, TaskInv, TaskShape
    <3>3. /\ \A x \in Session : task'[x][n] = "pending" => task[x][n] = "pending"
          /\ \A x \in Session : task[x][n] \in Open => task'[x][n] \in Open
      BY <3>1, <3>2 DEF Open
    <3>4. pending'[n] = pending[n] /\ Listed(n) /\ ListShape
      BY <2>1 DEF ListInv
    <3> QED
      BY <2>1, <3>3, <3>4, ListStays
  <2> QED
    BY <2>1, <2>2 DEF ListInv, ListShape
<1>3. ASSUME NEW p \in Machine, NEW decision \in {"yes", "no"}, DecidePending(m, p, decision)
      PROVE  ListShape' /\ \A n \in Machine : Listed(n)'
  <2> DEFINE s == pending[m]
  <2>1. PICK first \in DOMAIN s :
          /\ pending' = [pending EXCEPT ![m] = Retain(s, DOMAIN s \ {first})]
          /\ task' = IF task[s[first]][m] = "pending"
                     THEN [task EXCEPT ![s[first]][m] = decision] ELSE task
    BY <1>3 DEF DecidePending
  <2>2. dialed' = dialed
    BY <1>3 DEF DecidePending
  <2>3. /\ s \in Seq(Session) /\ pending \in [Machine -> Seq(Session)]
        /\ task \in [Session -> [Machine -> Phase]] /\ Listed(m) /\ ListShape
    BY DEF ListInv, ListShape, TaskInv, TaskShape
  <2>4. \A i \in DOMAIN s : s[i] \in Session /\ task[s[i]][m] \in Open
    BY <2>3 DEF Listed
  <2>5. \A i, j \in DOMAIN s : s[i] = s[j] => i = j
    BY <2>3 DEF Listed
  <2>6. \A x \in Session : task[x][m] = "pending" => \E i \in DOMAIN s : s[i] = x
    BY <2>3 DEF Listed
  <2>7. pending'[m] = Retain(s, DOMAIN s \ {first})
    BY <2>1, <2>3
  <2> DEFINE x0 == s[first]
  <2>8. /\ \A x \in Session, n \in Machine : x # x0 \/ n # m => task'[x][n] = task[x][n]
        /\ task'[x0][m] # "pending"
    BY <2>1, <2>3, <2>4
  <2>9. \A i \in DOMAIN s \ {first} : task'[s[i]][m] \in Open
    BY <2>4, <2>5, <2>8
  <2>10. \A x \in Session : task'[x][m] = "pending" => \E i \in DOMAIN s \ {first} : s[i] = x
    BY <2>6, <2>8
  <2>11. Listed(m)' /\ pending'[m] \in Seq(Session)
    BY <2>2, <2>3, <2>7, <2>9, <2>10, ListShrinks
  <2>12. \A x \in Session, n \in Machine \ {m} : task'[x][n] = task[x][n]
    BY <2>8
  <2> QED
    BY <2>1, <2>2, <2>11, <2>12, OneList
<1>4. ASSUME NEW p \in Machine, RemovePeer(m, p) \/ ForgetPeer(m, p) \/ Disconnect(m, p)
      PROVE  ListShape' /\ \A n \in Machine : Listed(n)'
  BY <1>1, <1>4 DEF RemovePeer, ForgetPeer, Disconnect
<1>5. ASSUME NEW p \in Machine, NEW edge \in Placeable, PlacePeer(m, p, edge)
      PROVE  ListShape' /\ \A n \in Machine : Listed(n)'
  BY <1>1, <1>5 DEF PlacePeer
<1>6. ASSUME NEW dir, NEW known, Motion(m, dir, known)
      PROVE  ListShape' /\ \A n \in Machine : Listed(n)'
  BY <1>1, <1>6 DEF Motion
<1> QED
  BY <1>2, <1>3, <1>4, <1>5, <1>6 DEF UserStep

\* With the process goes its list, and with it every wait.
LEMMA RestartLists ==
  ASSUME ListInv, NEW m \in Machine, Crash(m) \/ Stop(m)
  PROVE  ListShape' /\ \A n \in Machine : Listed(n)'
<1> DEFINE mine == {c \in DOMAIN dialed : task[c][m] \notin {"idle", "done"}}
<1>1. /\ pending' = [pending EXCEPT ![m] = <<>>] /\ dialed' = dialed
      /\ task' = [c \in Session |-> IF c \in mine THEN [task[c] EXCEPT ![m] = "done"] ELSE task[c]]
  BY DEF Crash, Stop, Restart
<1>2. /\ task \in [Session -> [Machine -> Phase]] /\ pending \in [Machine -> Seq(Session)]
      /\ \A x \in Session \ DOMAIN dialed : task[x][m] = "idle"
  BY DEF ListInv, ListShape, TaskInv, TaskShape
<1>3. /\ \A x \in Session, n \in Machine \ {m} : task'[x][n] = task[x][n]
      /\ \A x \in Session : task'[x][m] # "pending"
  BY <1>1, <1>2
<1>4. pending'[m] = <<>>
  BY <1>1, <1>2
<1>5. Listed(m)' /\ pending'[m] \in Seq(Session)
  BY <1>3, <1>4 DEF Listed
<1> QED
  BY <1>1, <1>3, <1>5, OneList

LEMMA NextLists == ListInv /\ [Next]_vars => ListInv'
<1> SUFFICES ASSUME ListInv, [Next]_vars PROVE ListInv'
  OBVIOUS
<1>1. TaskInv'
  BY NextTasks DEF ListInv
<1>2. ASSUME UNCHANGED <<pending, dialed, task>>
      PROVE  ListShape' /\ \A n \in Machine : Listed(n)'
  BY <1>2, ListStays DEF ListInv, ListShape
<1>3. CASE Next
  <2>1. ASSUME NEW m \in Machine, NEW c \in Session, GoDeaf(m, c)
        PROVE  ListShape' /\ \A n \in Machine : Listed(n)'
    BY <1>2, <2>1 DEF GoDeaf
  <2>2. ListShape' /\ \A n \in Machine : Listed(n)'
    BY <1>3, <2>1, TaskStepLists, GiveUpLists, UserStepLists, RestartLists DEF Next
  <2> QED
    BY <1>1, <2>2 DEF ListInv
<1>4. CASE UNCHANGED vars
  <2>1. ListShape' /\ \A n \in Machine : Listed(n)'
    BY <1>2, <1>4 DEF vars
  <2> QED
    BY <1>1, <2>1 DEF ListInv
<1> QED
  BY <1>3, <1>4

\* Every request `omni accept' shows has a task that waits for the answer, or one
\* whose wait has just ended, and no task waits unlisted, where a person could
\* never answer it: with any number of requests of the same peer, answers,
\* timeouts and restarts (handle_incoming, decide_pending).
THEOREM PendingAlwaysHasWaiter == Spec => []PendingHasWaiter
<1>1. ListInv => PendingHasWaiter
  BY DEF ListInv, Listed, Open, PendingHasWaiter
<1> QED
  BY <1>1, InitLists, NextLists, PTL DEF Spec

-----------------------------------------------------------------------------
(***************************************************************************)
(* The types.  A command can only be taken from a queue its daemon has:    *)
(* a running task owns its link, so the types rest on all of the above.    *)
(***************************************************************************)

\* The trust stores, the streams and the environment.
Types ==
  /\ trusted \in [Machine -> SUBSET Machine]
  /\ saved \in [Machine -> SUBSET Machine]
  /\ stream \in [Session -> [Machine -> Seq(Message)]]
  /\ deaf \in [Session -> SUBSET Machine]
  /\ crashes \in 0..MaxCrash
  /\ forgetting \in [Machine -> SUBSET Machine]

\* One queue of a stream becomes another.
LEMMA OneStream ==
  ASSUME Types, NEW c \in Session, NEW m \in Machine, NEW s \in Seq(Message),
         stream' = [stream EXCEPT ![c][m] = s]
  PROVE  stream' \in [Session -> [Machine -> Seq(Message)]]
BY DEF Types

\* What an end of a connection writes, reads or leaves unread.
LEMMA StreamTypes ==
  ASSUME Types, Inv, NEW m \in Machine, NEW c \in DOMAIN dialed
  PROVE  /\ \A message \in Message : Write(m, c, message) =>
              stream' \in [Session -> [Machine -> Seq(Message)]]
         /\ Unread(m, c) => stream' \in [Session -> [Machine -> Seq(Message)]]
         /\ \A message : Incoming(m, c, message) /\ Consume(m, c) =>
              stream' \in [Session -> [Machine -> Seq(Message)]]
<1>1. Other(c, m) \in Machine /\ c \in Session
  BY OtherMachine
<1>2. stream[c][m] \in Seq(Message) /\ stream[c][Other(c, m)] \in Seq(Message)
  BY <1>1 DEF Types
<1>3. ASSUME NEW message \in Message, Write(m, c, message)
      PROVE  stream' \in [Session -> [Machine -> Seq(Message)]]
  <2> DEFINE s == Append(stream[c][Other(c, m)], message)
  <2>1. s \in Seq(Message)
    BY <1>2
  <2>2. CASE stream' = stream
    BY <2>2 DEF Types
  <2>3. CASE stream' = [stream EXCEPT ![c][Other(c, m)] = s]
    BY <1>1, <2>1, <2>3, OneStream
  <2> QED
    BY <1>3, <2>2, <2>3 DEF Write
<1>4. ASSUME Unread(m, c)
      PROVE  stream' \in [Session -> [Machine -> Seq(Message)]]
  <2>1. <<>> \in Seq(Message) /\ stream' = [stream EXCEPT ![c][m] = <<>>]
    BY <1>4 DEF Unread
  <2> QED
    BY <1>1, <2>1, OneStream
<1>5. ASSUME NEW message, Incoming(m, c, message), Consume(m, c)
      PROVE  stream' \in [Session -> [Machine -> Seq(Message)]]
  <2>1. Tail(stream[c][m]) \in Seq(Message)
    BY <1>2, <1>5 DEF Incoming
  <2> QED
    BY <1>1, <1>5, <2>1, OneStream DEF Consume
<1> QED
  BY <1>3, <1>4, <1>5

\* A trust store that gains or loses a pin, kept on disk or not.
LEMMA PinTypes ==
  ASSUME Types, NEW m \in Machine, NEW pins \in SUBSET Machine,
         trusted' = [trusted EXCEPT ![m] = pins],
         saved' = [saved EXCEPT ![m] = trusted'[m]] \/ saved' = saved
  PROVE  trusted' \in [Machine -> SUBSET Machine] /\ saved' \in [Machine -> SUBSET Machine]
<1>1. trusted' \in [Machine -> SUBSET Machine] /\ trusted'[m] \in SUBSET Machine
  BY DEF Types
<1> QED
  BY <1>1 DEF Types

LEMMA TaskStepTypes ==
  ASSUME TaskInv, Types, NEW m \in Machine, NEW c \in Session, TaskStep(m, c)
  PROVE  Types'
<1> USE DEF At
<1>1. c \in DOMAIN dialed /\ UNCHANGED <<deaf, crashes, forgetting>>
  BY DEF TaskStep, DialAccepted, RequestArrives, WakeApproved, WakeRefused, EstablishTarget,
         SendAccept, AcceptFails, SendCommand, RecvWarp, RecvReturned, RecvDisconnect, Cleanup
<1>2. Inv /\ Other(c, m) \in Machine
  BY <1>1, OtherMachine DEF TaskInv
<1>3. {"Accept", "Declined", "Busy", "CursorWarp", "CursorReturned", "Disconnect"} \subseteq Message
  BY DEF Message
<1>4. CASE WakeApproved(m, c) \/ DialAccepted(m, c)
  <2>1. trusted' = [trusted EXCEPT ![m] = trusted[m] \cup {Other(c, m)}]
    BY <1>4 DEF WakeApproved, DialAccepted
  <2>2. saved' = [saved EXCEPT ![m] = trusted'[m]] \/ saved' = saved
    BY <1>4 DEF WakeApproved, DialAccepted
  <2>3. trusted[m] \cup {Other(c, m)} \in SUBSET Machine
    BY <1>2 DEF Types
  <2>4. trusted' \in [Machine -> SUBSET Machine] /\ saved' \in [Machine -> SUBSET Machine]
    BY <2>1, <2>2, <2>3, PinTypes
  <2>5. stream' \in [Session -> [Machine -> Seq(Message)]]
    <3>1. CASE UNCHANGED stream
      BY <3>1 DEF Types
    <3>2. CASE ~ UNCHANGED stream
      BY <1>1, <1>2, <1>4, <3>2, StreamTypes DEF WakeApproved, DialAccepted
    <3> QED
      BY <3>1, <3>2
  <2> QED
    BY <1>1, <2>4, <2>5 DEF Types
<1>5. CASE ~ (WakeApproved(m, c) \/ DialAccepted(m, c))
  <2>1. trusted' = trusted /\ saved' = saved
    BY <1>5 DEF TaskStep, RequestArrives, WakeRefused, EstablishTarget, SendAccept, AcceptFails,
                SendCommand, RecvWarp, RecvReturned, RecvDisconnect, Cleanup
  <2>2. CASE UNCHANGED stream
    BY <1>1, <2>1, <2>2 DEF Types
  <2>3. CASE WakeRefused(m, c) \/ (EstablishTarget(m, c) /\ ~ UNCHANGED stream) \/ SendAccept(m, c)
    <3>1. \E message \in Message : Write(m, c, message)
      BY <1>3, <2>3 DEF WakeRefused, EstablishTarget, SendAccept
    <3> QED
      BY <1>1, <1>2, <2>1, <3>1, StreamTypes DEF Types
  <2>4. CASE SendCommand(m, c)
    <3> DEFINE p     == Other(c, m)
               queue == daemon[m].links[p].commands
    <3>1. p \in DOMAIN daemon[m].links
      <4>1. Holds(m, c)
        BY <2>4 DEF SendCommand, Holds
      <4>2. p \in DOMAIN daemon[m].by_peer /\ DOMAIN daemon[m].by_peer = DOMAIN daemon[m].links
        BY <4>1 DEF TaskInv, Indexed, Inv, Consistent, LinksMatchSessions
      <4> QED
        BY <4>2
    <3>2. queue \in Seq(Command)
      <4>1. IsMap(daemon[m].links, Machine, Link)
        BY DEF TaskInv, Inv, Consistent, IsDaemon
      <4>2. daemon[m].links[p] \in Link
        BY <3>1, <4>1 DEF IsMap
      <4> QED
        BY <4>2 DEF Link
    <3>3. queue # <<>> /\ Write(m, c, IF Head(queue) = "Warp" THEN "CursorWarp" ELSE Head(queue))
      BY <2>4 DEF SendCommand
    <3>4. Head(queue) \in Command
      BY <3>2, <3>3
    <3>5. (IF Head(queue) = "Warp" THEN "CursorWarp" ELSE Head(queue)) \in Message
      BY <1>3, <3>4 DEF Command
    <3> QED
      BY <1>1, <1>2, <2>1, <3>3, <3>5, StreamTypes DEF Types
  <2>5. CASE RequestArrives(m, c) \/ RecvWarp(m, c) \/ RecvReturned(m, c) \/ RecvDisconnect(m, c)
    <3>1. \E message : Incoming(m, c, message) /\ Consume(m, c)
      BY <2>5 DEF RequestArrives, RecvWarp, RecvReturned, RecvDisconnect
    <3> QED
      BY <1>1, <1>2, <2>1, <3>1, StreamTypes DEF Types
  <2>6. CASE AcceptFails(m, c) \/ Cleanup(m, c)
    <3>1. Unread(m, c)
      BY <2>6 DEF AcceptFails, Cleanup
    <3> QED
      BY <1>1, <1>2, <2>1, <3>1, StreamTypes DEF Types
  <2> QED
    BY <1>5, <2>2, <2>3, <2>4, <2>5, <2>6 DEF TaskStep
<1> QED
  BY <1>4, <1>5

LEMMA GiveUpTypes ==
  ASSUME TaskInv, Types, NEW m \in Machine, NEW c \in Session, GiveUp(m, c)
  PROVE  Types'
<1>1. UNCHANGED <<trusted, saved, deaf, crashes, forgetting>>
  BY DEF GiveUp, DialRefused, RequestMissing, DecisionTimeout, SeePeerGone, HeartbeatTimeout
<1>2. stream' = stream \/ (c \in DOMAIN dialed /\ Unread(m, c))
  BY DEF GiveUp, DialRefused, RequestMissing, DecisionTimeout, SeePeerGone, HeartbeatTimeout, At
<1>3. stream' \in [Session -> [Machine -> Seq(Message)]]
  BY <1>2, StreamTypes DEF Types, TaskInv
<1> QED
  BY <1>1, <1>3 DEF Types

LEMMA UserStepTypes ==
  ASSUME Types, NEW m \in Machine, UserStep(m)
  PROVE  Types'
<1>1. ASSUME NEW p \in Machine, NEW c \in Session, Dial(m, p, c)
      PROVE  Types'
  <2>1. stream' = [stream EXCEPT ![c][p] = <<"ConnectRequest">>]
    BY <1>1 DEF Dial
  <2>2. <<"ConnectRequest">> \in Seq(Message)
    BY DEF Message
  <2>3. stream' \in [Session -> [Machine -> Seq(Message)]]
    BY <2>1, <2>2, OneStream
  <2> QED
    BY <1>1, <2>3 DEF Dial, Types
<1>2. ASSUME NEW p \in Machine, ForgetPeer(m, p)
      PROVE  Types'
  <2>1. /\ trusted' = [trusted EXCEPT ![m] = trusted[m] \ {p}]
        /\ saved' = [saved EXCEPT ![m] = trusted'[m]] \/ saved' = saved
        /\ forgetting' = [forgetting EXCEPT ![m] = forgetting[m] \ {p}]
        /\ UNCHANGED <<stream, deaf, crashes>>
    BY <1>2 DEF ForgetPeer
  <2>2. trusted[m] \ {p} \in SUBSET Machine
    BY DEF Types
  <2>3. trusted' \in [Machine -> SUBSET Machine] /\ saved' \in [Machine -> SUBSET Machine]
    BY <2>1, <2>2, PinTypes
  <2>4. forgetting' \in [Machine -> SUBSET Machine]
    BY <2>1 DEF Types
  <2> QED
    BY <2>1, <2>3, <2>4 DEF Types
<1>3. ASSUME NEW p \in Machine, RemovePeer(m, p)
      PROVE  Types'
  <2>1. forgetting' \in [Machine -> SUBSET Machine]
    BY <1>3 DEF RemovePeer, Types
  <2> QED
    BY <1>3, <2>1 DEF RemovePeer, Types
<1>4. CASE UNCHANGED <<trusted, saved, stream, deaf, crashes, forgetting>>
  BY <1>4 DEF Types
<1>5. ASSUME NEW p \in Machine, NEW decision \in {"yes", "no"},
             DecidePending(m, p, decision) \/ Disconnect(m, p)
      PROVE  Types'
  BY <1>4, <1>5 DEF DecidePending, Disconnect
<1>6. ASSUME NEW p \in Machine, NEW edge \in Placeable, PlacePeer(m, p, edge)
      PROVE  Types'
  BY <1>4, <1>6 DEF PlacePeer
<1>7. ASSUME NEW dir, NEW known, Motion(m, dir, known)
      PROVE  Types'
  BY <1>4, <1>7 DEF Motion
<1> QED
  BY <1>1, <1>2, <1>3, <1>5, <1>6, <1>7 DEF UserStep

LEMMA RestartTypes ==
  ASSUME Inv, Types, NEW m \in Machine, Crash(m) \/ Stop(m)
  PROVE  Types'
<1> DEFINE mine == {c \in DOMAIN dialed : task[c][m] \notin {"idle", "done"}}
<1>1. Restart(m)
  BY DEF Crash, Stop
<1>2. crashes' \in 0..MaxCrash
  BY <1>1, MaxCrashAssumption DEF Restart, Types
<1>3. stream' = [c \in Session |-> IF c \in mine THEN [stream[c] EXCEPT ![m] = <<>>] ELSE stream[c]]
  BY <1>1 DEF Restart
<1>4. <<>> \in Seq(Message)
  OBVIOUS
<1>5. stream' \in [Session -> [Machine -> Seq(Message)]]
  <2> HIDE DEF mine
  <2> QED
    BY <1>3, <1>4 DEF Types
<1>6. /\ forgetting' \in [Machine -> SUBSET Machine] /\ saved' = saved
      /\ trusted' \in [Machine -> SUBSET Machine]
  BY <1>1 DEF Restart, Types
<1>7. deaf' \in [Session -> SUBSET Machine]
  <2>1. CASE Stop(m)
    BY <2>1 DEF Stop, Types
  <2>2. CASE Crash(m)
    <3>1. \A c \in DOMAIN dialed : Other(c, m) \in Machine
      BY OtherMachine
    <3>2. deaf' = [c \in Session |-> IF c \in DOMAIN dialed /\ task[c][m] \notin {"idle", "done"}
                                   THEN deaf[c] \cup {Other(c, m)} ELSE deaf[c]]
      BY <2>2 DEF Crash
    <3>3. \A c \in Session : deaf'[c] \in SUBSET Machine
      BY <3>1, <3>2 DEF Types
    <3> QED
      BY <3>2, <3>3
  <2> QED
    BY <2>1, <2>2
<1> QED
  BY <1>2, <1>5, <1>6, <1>7 DEF Types

TypeInv == ListInv /\ Types

LEMMA InitTypes == Init => TypeInv
<1> SUFFICES ASSUME Init PROVE Types
  BY InitLists DEF TypeInv
<1>1. \A c \in Session : stream[c] = [m \in Machine |-> <<>>]
  BY DEF Init
<1>2. stream \in [Session -> [Machine -> Seq(Message)]]
  BY <1>1 DEF Init
<1> QED
  BY <1>2, MaxCrashAssumption DEF Init, Types

LEMMA NextTypes == TypeInv /\ [Next]_vars => TypeInv'
<1> SUFFICES ASSUME TypeInv, [Next]_vars PROVE TypeInv'
  OBVIOUS
<1>1. ListInv'
  BY NextLists DEF TypeInv
<1>2. TaskInv /\ Inv /\ Types
  BY DEF TypeInv, ListInv, TaskInv
<1>3. ASSUME NEW m \in Machine, NEW c \in Session, GoDeaf(m, c)
      PROVE  Types'
  BY <1>2, <1>3 DEF GoDeaf, Types
<1>4. CASE Next
  <2>1. Types'
    BY <1>2, <1>3, <1>4, TaskStepTypes, GiveUpTypes, UserStepTypes, RestartTypes DEF Next
  <2> QED
    BY <1>1, <2>1 DEF TypeInv
<1>5. CASE UNCHANGED vars
  <2>1. Types'
    BY <1>2, <1>5 DEF vars, Types
  <2> QED
    BY <1>1, <2>1 DEF TypeInv
<1> QED
  BY <1>4, <1>5

\* Every variable keeps its type: in particular a task that takes a command finds
\* a link to take it from, and no read runs past the end of a stream.
THEOREM TypesAlwaysCorrect == Spec => []TypeOK
<1>1. TypeInv => TypeOK
  <2> SUFFICES ASSUME TypeInv PROVE TypeOK
    OBVIOUS
  <2>1. Inv /\ TaskShape /\ ListShape /\ Types
    BY DEF TypeInv, ListInv, TaskInv
  <2>2. daemon = [m \in Machine |-> daemon[m]]
    BY <2>1 DEF Inv
  <2>3. \A m \in Machine : IsDaemon(daemon[m])
    BY <2>1 DEF Inv, Consistent
  <2> QED
    BY <2>1, <2>2, <2>3 DEF TypeOK, Inv, TaskShape, ListShape, Types
<1> QED
  BY <1>1, InitTypes, NextTypes, PTL DEF Spec

-----------------------------------------------------------------------------
(***************************************************************************)
(* Two machines and one user: once every hand-over has arrived, input that *)
(* leaves a machine goes to one whose own input stays at home.  While both *)
(* ends of a connection run, two machines that send their input to each    *)
(* other have a hand-over on its way that will end it, and a machine that  *)
(* has taken its input back and not been heard yet is still at home.       *)
(***************************************************************************)

TwoMachines == \A x, y, z \in Machine : x = y \/ y = z \/ x = z

Late == {"running", "closing", "done"}

Ends(c) == {dialed[c].from, dialed[c].to}

BothRun(c) == \A x \in Ends(c) : task[c][x] = "running"

\* e is in the queue s.
Has(s, e) == \E i \in DOMAIN s : s[i] = e

\* The commands m's task on c has not taken yet.
Waiting(m, c, command) == Holds(m, c) /\ Has(daemon[m].links[Other(c, m)].commands, command)

\* A hand-over, either way, that m has decided and its peer has not seen.
WarpOut(m, c) == Waiting(m, c, "Warp") \/ Has(stream[c][Other(c, m)], "CursorWarp")
HomeOut(m, c) ==
  Waiting(m, c, "CursorReturned") \/ Has(stream[c][Other(c, m)], "CursorReturned")

\* Who dialed and who was dialed; the dialer goes on only after the Accept.
Roles(c) ==
  /\ task[c][dialed[c].from] \in {"waiting"} \cup Late
  /\ task[c][dialed[c].to] # "waiting"
  /\ task[c][dialed[c].from] = "running" \/ Has(stream[c][dialed[c].from], "Accept")
       => task[c][dialed[c].to] \in Late

\* Before that nothing is handed over.
Asked(c) ==
  task[c][dialed[c].from] = "waiting" =>
    \A x \in Ends(c) : /\ ~ WarpOut(x, c) /\ ~ HomeOut(x, c)
                       /\ Holds(x, c) => daemon[x].active = x

\* And while both ends run, this is.
Crossing(c) ==
  BothRun(c) =>
    /\ (\A x \in Ends(c) : daemon[x].active # x) => \E x \in Ends(c) : WarpOut(x, c)
    /\ \A x \in Ends(c) : HomeOut(x, c) =>
         daemon[x].active = x /\ \A y \in Ends(c) \ {x} : ~ HomeOut(y, c)

Hand(c) == Roles(c) /\ Asked(c) /\ Crossing(c)

Unwritten == \A c \in Session \ DOMAIN dialed : \A m \in Machine : stream[c][m] = <<>>

HandInv == TypeInv /\ Unwritten /\ \A c \in DOMAIN dialed : Hand(c)

-----------------------------------------------------------------------------
LEMMA AppendHas ==
  ASSUME NEW S, NEW s \in Seq(S), NEW e \in S, NEW w
  PROVE  Has(Append(s, e), w) <=> Has(s, w) \/ w = e
<1>1. /\ DOMAIN Append(s, e) = 1..(Len(s) + 1) /\ DOMAIN s = 1..Len(s) /\ Len(s) \in Nat
      /\ Append(s, e)[Len(s) + 1] = e
      /\ \A i \in 1..Len(s) : Append(s, e)[i] = s[i]
  OBVIOUS
<1> QED
  BY <1>1 DEF Has

LEMMA TailHas ==
  ASSUME NEW S, NEW s \in Seq(S), s # <<>>, NEW w
  PROVE  /\ Has(Tail(s), w) => Has(s, w)
         /\ Has(s, w) => Has(Tail(s), w) \/ w = Head(s)
         /\ Has(s, Head(s))
<1>1. /\ DOMAIN Tail(s) = 1..(Len(s) - 1) /\ DOMAIN s = 1..Len(s) /\ Len(s) \in Nat \ {0}
      /\ \A i \in 1..(Len(s) - 1) : Tail(s)[i] = s[i + 1]
      /\ Head(s) = s[1]
  OBVIOUS
<1>2. Has(Tail(s), w) => Has(s, w)
  <2> SUFFICES ASSUME NEW i \in DOMAIN Tail(s), Tail(s)[i] = w PROVE Has(s, w)
    BY DEF Has
  <2>1. i + 1 \in DOMAIN s /\ s[i + 1] = w
    BY <1>1
  <2> QED
    BY <2>1 DEF Has
<1>3. Has(s, w) => Has(Tail(s), w) \/ w = Head(s)
  <2> SUFFICES ASSUME NEW i \in DOMAIN s, s[i] = w, i # 1 PROVE Has(Tail(s), w)
    BY <1>1 DEF Has
  <2>1. i - 1 \in DOMAIN Tail(s) /\ Tail(s)[i - 1] = w
    BY <1>1
  <2> QED
    BY <2>1 DEF Has
<1>4. Has(s, Head(s))
  BY <1>1 DEF Has
<1> QED
  BY <1>2, <1>3, <1>4

LEMMA EmptyHas == \A w : ~ Has(<<>>, w)
BY DEF Has

\* What the other end of c finds besides after m has written.
LEMMA WriteHas ==
  ASSUME Inv, Types, NEW m \in Machine, NEW c \in DOMAIN dialed,
         NEW message \in Message, Write(m, c, message)
  PROVE  /\ \A x \in Session, y \in Machine : \A w :
              /\ Has(stream[x][y], w) => Has(stream'[x][y], w)
              /\ Has(stream'[x][y], w) =>
                   Has(stream[x][y], w) \/ (x = c /\ y = Other(c, m) /\ w = message)
         /\ task[c][Other(c, m)] # "done" => Has(stream'[c][Other(c, m)], message)
<1> DEFINE p == Other(c, m)
           s == Append(stream[c][p], message)
<1>1. c \in Session /\ p \in Machine
  BY OtherMachine
<1>2. stream \in [Session -> [Machine -> Seq(Message)]]
  BY DEF Types
<1>3. stream[c][p] \in Seq(Message)
  BY <1>1, <1>2
<1>4. \A w : Has(s, w) <=> Has(stream[c][p], w) \/ w = message
  BY <1>3, AppendHas
<1>5. stream' = IF task[c][p] = "done" THEN stream ELSE [stream EXCEPT ![c][p] = s]
  BY DEF Write
<1> HIDE DEF s, p
<1>6. \A x \in Session, y \in Machine :
        stream'[x][y] = IF x = c /\ y = p /\ task[c][p] # "done" THEN s ELSE stream[x][y]
  BY <1>1, <1>2, <1>5
<1>7. \A x \in Session, y \in Machine : \A w :
        /\ Has(stream[x][y], w) => Has(stream'[x][y], w)
        /\ Has(stream'[x][y], w) => Has(stream[x][y], w) \/ (x = c /\ y = p /\ w = message)
  <2> SUFFICES ASSUME NEW x \in Session, NEW y \in Machine
               PROVE  \A w : /\ Has(stream[x][y], w) => Has(stream'[x][y], w)
                             /\ Has(stream'[x][y], w) =>
                                  Has(stream[x][y], w) \/ (x = c /\ y = p /\ w = message)
    BY Zenon
  <2>1. CASE stream'[x][y] = stream[x][y]
    BY <2>1
  <2>2. CASE x = c /\ y = p /\ stream'[x][y] = s
    BY <2>2, <1>4
  <2> QED
    BY <1>6, <2>1, <2>2
<1>8. task[c][p] # "done" => Has(stream'[c][p], message)
  BY <1>1, <1>4, <1>6
<1> QED
  BY <1>7, <1>8 DEF p

\* What m no longer finds after it has read a message, or after it is done.
LEMMA ReadHas ==
  ASSUME Inv, Types, NEW m \in Machine, NEW c \in DOMAIN dialed
  PROVE  /\ Unread(m, c) => \A x \in Session, y \in Machine :
              stream'[x][y] = IF x = c /\ y = m THEN <<>> ELSE stream[x][y]
         /\ \A message : Incoming(m, c, message) /\ Consume(m, c) =>
              /\ Has(stream[c][m], message)
              /\ \A x \in Session, y \in Machine : x # c \/ y # m => stream'[x][y] = stream[x][y]
              /\ \A w : /\ Has(stream'[c][m], w) => Has(stream[c][m], w)
                        /\ Has(stream[c][m], w) => Has(stream'[c][m], w) \/ w = message
<1>1. c \in Session
  BY OtherMachine
<1>2. stream \in [Session -> [Machine -> Seq(Message)]]
  BY DEF Types
<1>3. ASSUME Unread(m, c)
      PROVE  \A x \in Session, y \in Machine :
               stream'[x][y] = IF x = c /\ y = m THEN <<>> ELSE stream[x][y]
  BY <1>1, <1>2, <1>3 DEF Unread
<1>4. ASSUME NEW message, Incoming(m, c, message), Consume(m, c)
      PROVE  /\ Has(stream[c][m], message)
             /\ \A x \in Session, y \in Machine : x # c \/ y # m => stream'[x][y] = stream[x][y]
             /\ \A w : /\ Has(stream'[c][m], w) => Has(stream[c][m], w)
                       /\ Has(stream[c][m], w) => Has(stream'[c][m], w) \/ w = message
  <2>1. stream[c][m] \in Seq(Message) /\ stream[c][m] # <<>> /\ Head(stream[c][m]) = message
    BY <1>1, <1>2, <1>4 DEF Incoming
  <2>2. \A x \in Session, y \in Machine :
          stream'[x][y] = IF x = c /\ y = m THEN Tail(stream[c][m]) ELSE stream[x][y]
    BY <1>1, <1>2, <1>4 DEF Consume
  <2>3. stream'[c][m] = Tail(stream[c][m])
    BY <1>1, <2>2
  <2>4. \A w : /\ Has(Tail(stream[c][m]), w) => Has(stream[c][m], w)
               /\ Has(stream[c][m], w) => Has(Tail(stream[c][m]), w) \/ w = message
    BY <2>1, TailHas
  <2>5. Has(stream[c][m], message)
    BY <2>1, TailHas
  <2>6. \A x \in Session, y \in Machine : x # c \/ y # m => stream'[x][y] = stream[x][y]
    BY <2>2
  <2> QED
    BY <2>3, <2>4, <2>5, <2>6
<1> QED
  BY <1>3, <1>4

-----------------------------------------------------------------------------
\* How a task may go on without a session coming into being.
MovesOn(from, to) ==
  \/ to = from
  \/ /\ to \notin {"waiting", "running"}
     /\ from \in {"waiting", "done"} \cup Held => to \in {"closing", "done"}

\* A step that brings no session and no hand-over into being, and takes a
\* hand-over from its way only where a machine takes its input back.
LEMMA HandStays ==
  ASSUME HandInv, dialed' = dialed, NEW c \in DOMAIN dialed,
         \A x \in Ends(c) :
           /\ MovesOn(task[c][x], task'[c][x])
           /\ daemon'[x].active \in {daemon[x].active, x}
           /\ Holds(x, c)' => Holds(x, c) \/ daemon'[x].active = x
           /\ Has(stream'[c][x], "Accept") => Has(stream[c][x], "Accept")
           /\ WarpOut(x, c)' => WarpOut(x, c)
           /\ HomeOut(x, c)' => HomeOut(x, c)
           /\ WarpOut(x, c) /\ BothRun(c)' =>
                WarpOut(x, c)' \/ \E y \in Ends(c) : daemon'[y].active = y
  PROVE  Hand(c)'
<1> DEFINE m == dialed[c].from
           p == dialed[c].to
<1>1. Roles(c) /\ Asked(c) /\ Crossing(c) /\ c \in Session
  BY OtherMachine DEF HandInv, Hand, TypeInv, ListInv, TaskInv, Inv, IsMap
<1>2. Ends(c) = {m, p} /\ Ends(c)' = {m, p} /\ dialed'[c].from = m /\ dialed'[c].to = p
  BY DEF Ends
<1>3. /\ MovesOn(task[c][m], task'[c][m]) /\ MovesOn(task[c][p], task'[c][p])
      /\ Has(stream'[c][m], "Accept") => Has(stream[c][m], "Accept")
  BY <1>2
<1>4. Roles(c)'
  BY <1>1, <1>2, <1>3 DEF Roles, MovesOn, Late, Held
<1>5. Asked(c)'
  <2> SUFFICES ASSUME task'[c][m] = "waiting", NEW x \in Ends(c)
               PROVE  /\ ~ WarpOut(x, c)' /\ ~ HomeOut(x, c)'
                      /\ Holds(x, c)' => daemon'[x].active = x
    BY <1>2, Zenon DEF Asked
  <2>1. task[c][m] = "waiting"
    BY <1>3 DEF MovesOn
  <2>2. /\ ~ WarpOut(x, c) /\ ~ HomeOut(x, c)
        /\ Holds(x, c) => daemon[x].active = x
    BY <1>1, <1>2, <2>1 DEF Asked
  <2>3. Holds(x, c)' => daemon'[x].active = x
    BY <2>2
  <2> QED
    BY <2>2, <2>3
<1>6. Crossing(c)'
  <2> SUFFICES ASSUME BothRun(c)' PROVE Crossing(c)'
    BY DEF Crossing
  <2>1. BothRun(c)
    BY <1>2, <1>3 DEF BothRun, MovesOn
  <2>2. \A x \in Ends(c) : HomeOut(x, c)' =>
          daemon'[x].active = x /\ \A y \in Ends(c) \ {x} : ~ HomeOut(y, c)'
    BY <1>1, <2>1 DEF Crossing
  <2>3. (\A x \in Ends(c) : daemon'[x].active # x) => \E x \in Ends(c) : WarpOut(x, c)'
    <3> SUFFICES ASSUME \A x \in Ends(c) : daemon'[x].active # x
                 PROVE  \E x \in Ends(c) : WarpOut(x, c)'
      OBVIOUS
    <3>1. \A x \in Ends(c) : daemon[x].active # x
      OBVIOUS
    <3>2. PICK x \in Ends(c) : WarpOut(x, c)
      BY <1>1, <2>1, <3>1 DEF Crossing
    <3> QED
      BY <3>2
  <2> QED
    BY <1>2, <2>2, <2>3 DEF Crossing
<1> QED
  BY <1>4, <1>5, <1>6 DEF Hand

\* The same in terms of what waits in the queues and is on the streams.
LEMMA FlowsShrink ==
  ASSUME dialed' = dialed, NEW c \in DOMAIN dialed, NEW x, NEW y, y = Other(c, x),
         \A w \in {"CursorWarp", "CursorReturned"} : Has(stream'[c][y], w) => Has(stream[c][y], w),
         \A w \in {"Warp", "CursorReturned"} : Waiting(x, c, w)' => Waiting(x, c, w)
  PROVE  /\ WarpOut(x, c)' => WarpOut(x, c)
         /\ HomeOut(x, c)' => HomeOut(x, c)
<1>1. Other(c, x)' = y
  BY DEF Other
<1> QED
  BY <1>1 DEF WarpOut, HomeOut

LEMMA WarpKept ==
  ASSUME dialed' = dialed, NEW c \in DOMAIN dialed, NEW x, NEW y, y = Other(c, x),
         Has(stream[c][y], "CursorWarp") => Has(stream'[c][y], "CursorWarp"),
         Waiting(x, c, "Warp") => Waiting(x, c, "Warp")' \/ Has(stream'[c][y], "CursorWarp")
  PROVE  WarpOut(x, c) => WarpOut(x, c)'
<1>1. Other(c, x)' = y
  BY DEF Other
<1> QED
  BY <1>1 DEF WarpOut

LEMMA EndsLemma ==
  ASSUME Inv, NEW c \in DOMAIN dialed, NEW x \in Ends(c)
  PROVE  /\ c \in Session /\ x \in Machine /\ Other(c, x) \in Machine
         /\ Other(c, x) \in Ends(c) /\ Other(c, x) # x
         /\ Ends(c) = {x, Other(c, x)}
<1>1. x \in Machine /\ Ends(c) \subseteq Machine
  BY DEF Ends, Inv, IsMap
<1>2. Other(c, x) \in Ends(c)
  BY DEF Other, Ends
<1>3. Ends(c) = {x, Other(c, x)}
  BY <1>2 DEF Other, Ends, Inv
<1> QED
  BY <1>1, <1>2, <1>3, OtherMachine

\* A step that leaves the daemons alone and writes nothing that matters here.
LEMMA IdleHands ==
  ASSUME HandInv, daemon' = daemon, dialed' = dialed,
         \A c \in DOMAIN dialed : \A x \in Ends(c) :
           /\ MovesOn(task[c][x], task'[c][x])
           /\ task'[c][x] \in Held => task[c][x] \in Held
           /\ \A w \in {"Accept", "CursorWarp", "CursorReturned"} :
                Has(stream'[c][x], w) => Has(stream[c][x], w)
           /\ Has(stream[c][x], "CursorWarp") =>
                Has(stream'[c][x], "CursorWarp") \/ task'[c][x] # "running"
  PROVE  \A c \in DOMAIN dialed' : Hand(c)'
<1> SUFFICES ASSUME NEW c \in DOMAIN dialed PROVE Hand(c)'
  OBVIOUS
<1>1. Inv
  BY DEF HandInv, TypeInv, ListInv, TaskInv
<1>2. ASSUME NEW x \in Ends(c)
      PROVE  /\ MovesOn(task[c][x], task'[c][x])
             /\ daemon'[x].active \in {daemon[x].active, x}
             /\ Holds(x, c)' => Holds(x, c) \/ daemon'[x].active = x
             /\ Has(stream'[c][x], "Accept") => Has(stream[c][x], "Accept")
             /\ WarpOut(x, c)' => WarpOut(x, c)
             /\ HomeOut(x, c)' => HomeOut(x, c)
             /\ WarpOut(x, c) /\ BothRun(c)' =>
                  WarpOut(x, c)' \/ \E y \in Ends(c) : daemon'[y].active = y
  <2> DEFINE y == Other(c, x)
  <2>1. y \in Ends(c) /\ Ends(c)' = Ends(c) /\ y = Other(c, x) /\ Other(c, x)' = y
    BY <1>1, EndsLemma DEF Ends, Other
  <2> HIDE DEF y
  <2>2. Holds(x, c)' => Holds(x, c)
    BY DEF Holds, Held
  <2>3. \A w : Waiting(x, c, w)' => Waiting(x, c, w)
    BY <2>1, <2>2 DEF Waiting
  <2>4. (WarpOut(x, c)' => WarpOut(x, c)) /\ (HomeOut(x, c)' => HomeOut(x, c))
    BY <2>1, <2>3, FlowsShrink
  <2>5. ASSUME WarpOut(x, c), BothRun(c)' PROVE WarpOut(x, c)'
    <3>1. task'[c][x] = "running" /\ task'[c][y] = "running"
      BY <2>1, <2>5 DEF BothRun
    <3>2. Has(stream[c][y], "CursorWarp") => Has(stream'[c][y], "CursorWarp")
      BY <2>1, <3>1
    <3>3. Waiting(x, c, "Warp") => Waiting(x, c, "Warp")'
      BY <2>1, <3>1 DEF Waiting, Holds
    <3> QED
      BY <2>1, <2>5, <3>2, <3>3, WarpKept
  <2>6. daemon'[x].active \in {daemon[x].active, x}
    OBVIOUS
  <2> QED
    BY <2>2, <2>4, <2>5, <2>6
<1> QED
  BY <1>2, HandStays

-----------------------------------------------------------------------------
\* With two machines a task that holds a session is its machine's only one.
LEMMA OneSession ==
  ASSUME HandInv, TwoMachines, NEW m \in Machine, NEW c \in Session, Holds(m, c)
  PROVE  /\ c \in DOMAIN dialed /\ Other(c, m) \in DOMAIN daemon[m].links
         /\ DOMAIN daemon[m].links = {Other(c, m)}
         /\ daemon[m].links[Other(c, m)] \in Link
         /\ \A x \in Session : Holds(m, x) => x = c
<1> DEFINE p == Other(c, m)
           d == daemon[m]
<1>1. Inv /\ TaskInv /\ Indexed(m) /\ c \in DOMAIN dialed
  BY DEF HandInv, TypeInv, ListInv, TaskInv, Holds
<1>2. p \in DOMAIN d.by_peer /\ d.by_peer[p] = c
  BY <1>1 DEF Indexed
<1>3. DOMAIN d.by_peer = DOMAIN d.links /\ DOMAIN d.links \subseteq Machine /\ m \notin DOMAIN d.links
  BY <1>1 DEF Inv, Consistent, LinksMatchSessions, IsDaemon, IsMap
<1>4. p \in Machine /\ p # m
  BY <1>1, OtherMachine
<1>5. \A x \in Machine : x = m \/ x = p
  BY <1>4 DEF TwoMachines
<1>6. DOMAIN d.links = {p}
  BY <1>2, <1>3, <1>5
<1>7. d.links[p] \in Link
  BY <1>1, <1>2, <1>3 DEF Inv, Consistent, IsDaemon, IsMap
<1>8. ASSUME NEW x \in Session, Holds(m, x) PROVE x = c
  <2>1. Other(x, m) \in Machine /\ Other(x, m) # m
    BY <1>1, <1>8, OtherMachine DEF Holds
  <2>2. Other(x, m) = p
    BY <1>5, <2>1
  <2>3. d.by_peer[p] = x
    BY <1>1, <1>8, <2>2 DEF Indexed
  <2> QED
    BY <1>2, <2>3
<1> QED
  BY <1>1, <1>2, <1>3, <1>6, <1>7, <1>8

-----------------------------------------------------------------------------
\* What an end reads or writes besides hand-overs and answers.
LEMMA StreamIdle ==
  ASSUME Inv, Types, NEW m \in Machine, NEW c \in DOMAIN dialed,
         \/ stream' = stream
         \/ Unread(m, c) /\ task'[c][m] # "running"
         \/ \E message \in Message \ {"Accept", "CursorWarp", "CursorReturned"} :
              Write(m, c, message) \/ (Incoming(m, c, message) /\ Consume(m, c))
  PROVE  \A x \in Session, y \in Machine :
           /\ \A w \in {"Accept", "CursorWarp", "CursorReturned"} :
                Has(stream'[x][y], w) => Has(stream[x][y], w)
           /\ Has(stream[x][y], "CursorWarp") =>
                Has(stream'[x][y], "CursorWarp") \/ task'[x][y] # "running"
<1> SUFFICES ASSUME NEW x \in Session, NEW y \in Machine
             PROVE  /\ \A w \in {"Accept", "CursorWarp", "CursorReturned"} :
                         Has(stream'[x][y], w) => Has(stream[x][y], w)
                    /\ Has(stream[x][y], "CursorWarp") =>
                         Has(stream'[x][y], "CursorWarp") \/ task'[x][y] # "running"
  OBVIOUS
<1>1. CASE stream' = stream
  BY <1>1
<1>2. CASE Unread(m, c) /\ task'[c][m] # "running"
  BY <1>2, ReadHas, EmptyHas
<1>3. ASSUME NEW message \in Message \ {"Accept", "CursorWarp", "CursorReturned"},
             Write(m, c, message)
      PROVE  \A w : /\ Has(stream[x][y], w) => Has(stream'[x][y], w)
                    /\ Has(stream'[x][y], w) => Has(stream[x][y], w) \/ w = message
  BY <1>3, WriteHas
<1>4. ASSUME NEW message \in Message \ {"Accept", "CursorWarp", "CursorReturned"},
             Incoming(m, c, message), Consume(m, c)
      PROVE  \A w : /\ Has(stream[x][y], w) => Has(stream'[x][y], w) \/ w = message
                    /\ Has(stream'[x][y], w) => Has(stream[x][y], w)
  <2>1. CASE x = c /\ y = m
    BY <1>4, <2>1, ReadHas
  <2>2. CASE x # c \/ y # m
    BY <1>4, <2>2, ReadHas
  <2> QED
    BY <2>1, <2>2
<1> QED
  BY <1>1, <1>2, <1>3, <1>4

\* One task goes on, by itself or with such a message.
LEMMA GotoHands ==
  ASSUME HandInv, NEW m \in Machine, NEW c \in DOMAIN dialed, NEW phase \in Phase,
         Goto(m, c, phase), daemon' = daemon, dialed' = dialed,
         MovesOn(task[c][m], phase), phase \in Held => task[c][m] \in Held,
         \/ stream' = stream
         \/ Unread(m, c) /\ phase # "running"
         \/ \E message \in Message \ {"Accept", "CursorWarp", "CursorReturned"} :
              Write(m, c, message) \/ (Incoming(m, c, message) /\ Consume(m, c))
  PROVE  \A x \in DOMAIN dialed' : Hand(x)'
<1>1. Inv /\ Types /\ TaskShape /\ c \in Session
  BY OtherMachine DEF HandInv, TypeInv, ListInv, TaskInv
<1>2. \A x \in Session, n \in Machine :
        task'[x][n] = IF x = c /\ n = m THEN phase ELSE task[x][n]
  BY <1>1 DEF Goto, TaskShape
<1>3. \A x \in DOMAIN dialed : x \in Session /\ Ends(x) \subseteq Machine
  BY <1>1 DEF Ends, Inv, IsMap
<1>4. \A x \in Session, n \in Machine :
        /\ MovesOn(task[x][n], task'[x][n])
        /\ task'[x][n] \in Held => task[x][n] \in Held
  BY <1>2 DEF MovesOn
<1>5. Unread(m, c) /\ phase # "running" => Unread(m, c) /\ task'[c][m] # "running"
  BY <1>1, <1>2
<1>6. \A x \in Session, y \in Machine :
        /\ \A w \in {"Accept", "CursorWarp", "CursorReturned"} :
             Has(stream'[x][y], w) => Has(stream[x][y], w)
        /\ Has(stream[x][y], "CursorWarp") =>
             Has(stream'[x][y], "CursorWarp") \/ task'[x][y] # "running"
  BY <1>1, <1>5, StreamIdle
<1> QED
  BY <1>3, <1>4, <1>6, IdleHands

\* A task wakes up and takes others of the same peer off the list.
LEMMA WakeHands ==
  ASSUME HandInv, NEW m \in Machine, NEW c \in Session, WakeApproved(m, c) \/ WakeRefused(m, c)
  PROVE  \A x \in DOMAIN dialed' : Hand(x)'
<1>1. Inv /\ Types /\ TaskShape /\ c \in DOMAIN dialed
  BY DEF HandInv, TypeInv, ListInv, TaskInv, WakeApproved, WakeRefused, At
<1>2. task[c][m] \in {"yes", "no", "lapsed"}
  BY DEF WakeApproved, WakeRefused, At
<1>3. PICK phase \in {"approved", "done"} : task' = Unlisted(m, c, phase)
  BY DEF WakeApproved, WakeRefused
<1>4. \A x \in Session, n \in Machine :
        \/ task'[x][n] = task[x][n]
        \/ task[x][n] \in {"pending", "yes", "no", "lapsed"} /\ task'[x][n] \in {"lapsed", "approved", "done"}
  <2> SUFFICES ASSUME NEW x \in Session, NEW n \in Machine
               PROVE  \/ task'[x][n] = task[x][n]
                      \/ /\ task[x][n] \in {"pending", "yes", "no", "lapsed"}
                         /\ task'[x][n] \in {"lapsed", "approved", "done"}
    OBVIOUS
  <2>1. task[x] \in [Machine -> Phase]
    BY <1>1 DEF TaskShape
  <2>2. \/ x = c /\ task'[x] = [task[x] EXCEPT ![m] = phase]
        \/ task[x][m] = "pending" /\ task'[x] = [task[x] EXCEPT ![m] = "lapsed"]
        \/ task'[x] = task[x]
    BY <1>3 DEF Unlisted
  <2> QED
    BY <1>2, <2>1, <2>2
<1>5. \A x \in Session, n \in Machine :
        /\ MovesOn(task[x][n], task'[x][n])
        /\ task'[x][n] \in Held => task[x][n] \in Held
  BY <1>4 DEF MovesOn, Held
<1>6. daemon' = daemon /\ dialed' = dialed /\ (stream' = stream \/ Write(m, c, "Declined"))
  BY DEF WakeApproved, WakeRefused
<1>7. \A x \in Session, y \in Machine :
        /\ \A w \in {"Accept", "CursorWarp", "CursorReturned"} :
             Has(stream'[x][y], w) => Has(stream[x][y], w)
        /\ Has(stream[x][y], "CursorWarp") =>
             Has(stream'[x][y], "CursorWarp") \/ task'[x][y] # "running"
  <2>1. "Declined" \in Message \ {"Accept", "CursorWarp", "CursorReturned"}
    BY DEF Message
  <2> QED
    BY <1>1, <1>6, <2>1, StreamIdle
<1>8. \A x \in DOMAIN dialed : x \in Session /\ Ends(x) \subseteq Machine
  BY <1>1 DEF Ends, Inv, IsMap
<1> QED
  BY <1>5, <1>6, <1>7, <1>8, IdleHands

\* Nothing of this changes.
LEMMA SameHands ==
  ASSUME HandInv, daemon' = daemon, dialed' = dialed, task' = task, stream' = stream
  PROVE  \A c \in DOMAIN dialed' : Hand(c)'
<1>1. \A c \in DOMAIN dialed : \A x \in Ends(c) : MovesOn(task[c][x], task'[c][x])
  BY DEF MovesOn
<1> QED
  BY <1>1, IdleHands

LEMMA GiveUpHands ==
  ASSUME HandInv, NEW m \in Machine, NEW c \in Session, GiveUp(m, c) \/ GoDeaf(m, c)
  PROVE  \A x \in DOMAIN dialed' : Hand(x)'
<1>1. CASE DialRefused(m, c) \/ RequestMissing(m, c)
  <2>1. /\ c \in DOMAIN dialed /\ Goto(m, c, "done") /\ Unread(m, c)
        /\ daemon' = daemon /\ dialed' = dialed
    BY <1>1 DEF DialRefused, RequestMissing, At
  <2>2. "done" \in Phase /\ MovesOn(task[c][m], "done") /\ "done" \notin Held
    BY DEF Phase, MovesOn, Held
  <2> QED
    BY <2>1, <2>2, GotoHands
<1>2. CASE DecisionTimeout(m, c)
  <2>1. /\ c \in DOMAIN dialed /\ Goto(m, c, "lapsed") /\ stream' = stream
        /\ daemon' = daemon /\ dialed' = dialed /\ task[c][m] = "pending"
    BY <1>2 DEF DecisionTimeout, At
  <2>2. "lapsed" \in Phase /\ MovesOn(task[c][m], "lapsed") /\ "lapsed" \notin Held
    BY <2>1 DEF Phase, MovesOn, Held
  <2> QED
    BY <2>1, <2>2, GotoHands
<1>3. CASE SeePeerGone(m, c) \/ HeartbeatTimeout(m, c)
  <2>1. /\ c \in DOMAIN dialed /\ Goto(m, c, "closing") /\ stream' = stream
        /\ daemon' = daemon /\ dialed' = dialed /\ task[c][m] = "running"
    BY <1>3 DEF SeePeerGone, HeartbeatTimeout, At
  <2>2. "closing" \in Phase /\ MovesOn(task[c][m], "closing") /\ task[c][m] \in Held
    BY <2>1 DEF Phase, MovesOn, Held
  <2> QED
    BY <2>1, <2>2, GotoHands
<1>4. CASE GoDeaf(m, c)
  BY <1>4, SameHands DEF GoDeaf
<1> QED
  BY <1>1, <1>2, <1>3, <1>4 DEF GiveUp

-----------------------------------------------------------------------------
\* A step of one daemon that hands nothing over and can only take input home.
LEMMA DaemonHands ==
  ASSUME HandInv, dialed' = dialed, NEW m \in Machine, NEW d,
         daemon' = [daemon EXCEPT ![m] = d], d.active \in {daemon[m].active, m},
         \A c \in DOMAIN dialed : \A x \in Ends(c) :
           /\ MovesOn(task[c][x], task'[c][x])
           /\ task'[c][x] \in Held => task[c][x] \in Held \/ (x = m /\ d.active = m)
           /\ \A w \in {"Accept", "CursorWarp", "CursorReturned"} :
                Has(stream'[c][x], w) => Has(stream[c][x], w)
           /\ Has(stream[c][x], "CursorWarp") =>
                \/ Has(stream'[c][x], "CursorWarp")
                \/ task'[c][x] # "running" \/ (x = m /\ d.active = m),
         \A c \in DOMAIN dialed : \A w \in {"Warp", "CursorReturned"} :
           Waiting(m, c, w)' => Waiting(m, c, w),
         \A c \in DOMAIN dialed :
           Waiting(m, c, "Warp") =>
             Waiting(m, c, "Warp")' \/ task'[c][m] # "running" \/ d.active = m
  PROVE  \A c \in DOMAIN dialed' : Hand(c)'
<1> SUFFICES ASSUME NEW c \in DOMAIN dialed PROVE Hand(c)'
  OBVIOUS
<1>1. Inv
  BY DEF HandInv, TypeInv, ListInv, TaskInv
<1>2. \A x \in Machine : daemon'[x] = IF x = m THEN d ELSE daemon[x]
  BY <1>1 DEF Inv
<1>3. ASSUME NEW x \in Ends(c)
      PROVE  /\ MovesOn(task[c][x], task'[c][x])
             /\ daemon'[x].active \in {daemon[x].active, x}
             /\ Holds(x, c)' => Holds(x, c) \/ daemon'[x].active = x
             /\ Has(stream'[c][x], "Accept") => Has(stream[c][x], "Accept")
             /\ WarpOut(x, c)' => WarpOut(x, c)
             /\ HomeOut(x, c)' => HomeOut(x, c)
             /\ WarpOut(x, c) /\ BothRun(c)' =>
                  WarpOut(x, c)' \/ \E y \in Ends(c) : daemon'[y].active = y
  <2> DEFINE y == Other(c, x)
  <2>1. /\ y \in Ends(c) /\ Ends(c)' = Ends(c) /\ y = Other(c, x) /\ Other(c, x)' = y
        /\ x \in Machine /\ y \in Machine
    BY <1>1, EndsLemma DEF Ends, Other
  <2> HIDE DEF y
  <2>2. Holds(x, c)' => Holds(x, c) \/ (x = m /\ d.active = m)
    BY DEF Holds, Held
  <2>3. daemon'[x].active \in {daemon[x].active, x}
    BY <1>2, <2>1
  <2>4. Holds(x, c)' => Holds(x, c) \/ daemon'[x].active = x
    BY <1>2, <2>1, <2>2
  <2>5. \A w \in {"Warp", "CursorReturned"} : Waiting(x, c, w)' => Waiting(x, c, w)
    <3>1. CASE x = m
      BY <3>1
    <3>2. CASE x # m
      BY <1>2, <2>1, <2>2, <3>2 DEF Waiting
    <3> QED
      BY <3>1, <3>2
  <2>6. (WarpOut(x, c)' => WarpOut(x, c)) /\ (HomeOut(x, c)' => HomeOut(x, c))
    BY <2>1, <2>5, FlowsShrink
  <2>7. ASSUME WarpOut(x, c), BothRun(c)', \A z \in Ends(c) : daemon'[z].active # z
        PROVE  WarpOut(x, c)'
    <3>1. task'[c][x] = "running" /\ task'[c][y] = "running"
      BY <2>1, <2>7 DEF BothRun
    <3>2. (x = m \/ y = m) => d.active # m
      BY <1>2, <2>1, <2>7
    <3>3. Has(stream[c][y], "CursorWarp") => Has(stream'[c][y], "CursorWarp")
      BY <2>1, <3>1, <3>2
    <3>4. Waiting(x, c, "Warp") => Waiting(x, c, "Warp")'
      <4>1. CASE x = m
        BY <3>1, <3>2, <4>1
      <4>2. CASE x # m
        BY <1>2, <2>1, <3>1, <4>2 DEF Waiting, Holds
      <4> QED
        BY <4>1, <4>2
    <3> QED
      BY <2>1, <2>7, <3>3, <3>4, WarpKept
  <2> QED
    BY <2>3, <2>4, <2>6, <2>7
<1> QED
  BY <1>3, HandStays

-----------------------------------------------------------------------------
\* Where input goes, and what waits in the queues, after each critical section.
LEMMA SendEffect ==
  ASSUME NEW d, IsDaemon(d), NEW ps, NEW command
  PROVE  LET r == Send(d, ps, command) IN
         /\ r.active = d.active /\ DOMAIN r.links = DOMAIN d.links
         /\ \A p \in DOMAIN d.links :
              r.links[p].commands = IF p \in ps THEN Append(d.links[p].commands, command)
                                    ELSE d.links[p].commands
<1> DEFINE links == [p \in DOMAIN d.links |->
                       IF p \in ps THEN Queued(d.links[p], command) ELSE d.links[p]]
<1>1. \A p \in DOMAIN d.links : d.links[p] \in Link
  BY DEF IsDaemon, IsMap
<1>2. \A p \in DOMAIN d.links :
        links[p].commands = IF p \in ps THEN Append(d.links[p].commands, command)
                            ELSE d.links[p].commands
  BY <1>1 DEF Queued, Link
<1>3. DOMAIN links = DOMAIN d.links /\ Send(d, ps, command) = [d EXCEPT !.links = links]
  BY DEF Send
<1> HIDE DEF links
<1>4. Send(d, ps, command).links = links /\ Send(d, ps, command).active = d.active
  BY <1>3, Fields
<1> QED
  BY <1>2, <1>3, <1>4

LEMMA DropEffect ==
  ASSUME NEW d, IsDaemon(d), NEW p \in DOMAIN d.links
  PROVE  LET r == DropCommand(d, p) IN
         /\ r.active = d.active
         /\ r.links[p].commands = Tail(d.links[p].commands)
<1> DEFINE links == [q \in DOMAIN d.links |->
                       IF q = p THEN Dequeued(d.links[q]) ELSE d.links[q]]
<1>1. d.links[p] \in Link
  BY DEF IsDaemon, IsMap
<1>2. links[p].commands = Tail(d.links[p].commands)
  BY <1>1 DEF Dequeued, Link
<1>3. DropCommand(d, p) = [d EXCEPT !.links = links]
  BY DEF DropCommand
<1> HIDE DEF links
<1>4. DropCommand(d, p).links = links /\ DropCommand(d, p).active = d.active
  BY <1>3, Fields
<1> QED
  BY <1>2, <1>4

LEMMA RedirectEffect ==
  ASSUME NEW d, IsDaemon(d), NEW l, NEW p
  PROVE  /\ LET r == YieldControlToPeer(d, l) IN r.links = d.links /\ r.active = l
         /\ LET r == FollowPeerCursor(d, l, p) IN
            r.links = d.links /\ r.active \in {d.active, p}
<1>1. {"links", "active", "cursor", "suppress"} \subseteq DOMAIN d
  BY Fields
<1>2. \A r : {"links", "active"} \subseteq DOMAIN r =>
        SyncSuppression(r, l).links = r.links /\ SyncSuppression(r, l).active = r.active
  BY DEF SyncSuppression
<1>3. \A to : LET r == [[d EXCEPT !.active = to] EXCEPT !.cursor = to] IN
        {"links", "active"} \subseteq DOMAIN r /\ r.links = d.links /\ r.active = to
  BY <1>1
<1>4. \A to : LET r == SyncSuppression([[d EXCEPT !.active = to] EXCEPT !.cursor = to], l) IN
        r.links = d.links /\ r.active = to
  BY <1>2, <1>3
<1> QED
  BY <1>4 DEF YieldControlToPeer, FollowPeerCursor, YieldControl, FollowPeer

LEMMA SetLayoutEffect ==
  ASSUME NEW d, IsDaemon(d), NEW l, NEW p, NEW e, NEW front
  PROVE  LET r == SetLayout(d, l, p, e, front) IN
         /\ r.active = d.active /\ DOMAIN r.links = DOMAIN d.links
         /\ \A q \in DOMAIN d.links : r.links[q].commands = d.links[q].commands
<1> DEFINE u == Placed(d, p, e)
           b == RebuildLayout(u, l, front)
           links == [q \in DOMAIN d.links |->
                       IF q = p THEN [d.links[q] EXCEPT !.edge = e] ELSE d.links[q]]
<1>1. \A q \in DOMAIN d.links : d.links[q] \in Link
  BY DEF IsDaemon, IsMap
<1>2. \A q \in DOMAIN d.links : links[q].commands = d.links[q].commands
  BY <1>1 DEF Link
<1>3. u = [d EXCEPT !.placements = Insert(d.placements, p, e), !.links = links]
  BY DEF Placed
<1>4. DOMAIN links = DOMAIN d.links
  OBVIOUS
<1> HIDE DEF links
<1>5. u.active = d.active /\ u.links = links /\ DOMAIN u = DOMAIN d
  BY <1>3, Fields
<1> HIDE DEF u
<1>6. b.active = u.active /\ b.links = u.links /\ DOMAIN b = DOMAIN d
  BY <1>5, Fields DEF RebuildLayout
<1> HIDE DEF b
<1>7. SyncSuppression(b, l).active = b.active /\ SyncSuppression(b, l).links = b.links
  BY <1>6, Fields DEF SyncSuppression
<1> QED
  BY <1>2, <1>4, <1>5, <1>6, <1>7 DEF SetLayout, u, b

LEMMA LinkUpEffect ==
  ASSUME NEW d, IsDaemon(d), NEW l, NEW id, NEW p, NEW role, NEW front
  PROVE  LET r == RebuildLayout(LinkUp(d, id, p, role), l, front) IN
         r.active = d.active /\ r.links[p].commands = <<>>
<1> DEFINE u == LinkUp(d, id, p, role)
<1>1. /\ u.active = d.active /\ u.links[p].commands = <<>>
      /\ {"links", "active"} \subseteq DOMAIN u
  BY Fields DEF LinkUp, Establish, Insert
<1> HIDE DEF u
<1>2. RebuildLayout(u, l, front).links = u.links /\ RebuildLayout(u, l, front).active = u.active
  BY <1>1 DEF RebuildLayout
<1> QED
  BY <1>1, <1>2 DEF u

\* A movement leaves all as it is, or takes the input home and tells every peer,
\* or takes it to a peer and tells that one.
Stays(r, d) ==
  r.active = d.active /\ \A p \in DOMAIN d.links : r.links[p].commands = d.links[p].commands
ComesHome(r, d, l) ==
  /\ r.active = l /\ d.active # l
  /\ \A p \in DOMAIN d.links :
       r.links[p].commands = Append(d.links[p].commands, "CursorReturned")
GoesOut(r, d, l) ==
  /\ d.active = l /\ r.active \in DOMAIN d.links
  /\ \A p \in DOMAIN d.links :
       r.links[p].commands = IF p = r.active THEN Append(d.links[p].commands, "Warp")
                             ELSE d.links[p].commands

LEMMA MotionEffect ==
  ASSUME NEW l \in Machine, NEW d, Consistent(d, l), NEW dir, NEW known
  PROVE  LET r == RouteMotion(d, l, dir, known) IN
         /\ DOMAIN r.links = DOMAIN d.links
         /\ Stays(r, d) \/ ComesHome(r, d, l) \/ GoesOut(r, d, l)
<1> DEFINE s == IF d.active = l THEN SyncCursorToOs(d, l, known) ELSE d
           to == s.layout.neighbors[<<s.cursor, dir>>]
           x == [HandleCrossing(s, to) EXCEPT !.cursor = to]
           a == AdvanceCursor(s, l, dir)
<1>1. Tracked(s, l)
  BY SyncedTracked
<1>2. s.active = d.active /\ s.links = d.links
  BY Fields DEF SyncCursorToOs, Consistent
<1> HIDE DEF s
<1>3. \A r : IsDaemon(r) => /\ SyncSuppression(r, l).active = r.active
                            /\ SyncSuppression(r, l).links = r.links
  BY Fields DEF SyncSuppression
<1>4. CASE <<s.cursor, dir>> \notin DOMAIN s.layout.neighbors
  <2>1. a = s
    BY <1>1, <1>4 DEF AdvanceCursor, Tracked, DesktopMatchesLinks
  <2> HIDE DEF a
  <2>2. a.active = d.active /\ a.links = d.links /\ IsDaemon(a)
    BY <1>1, <1>2, <2>1 DEF Tracked
  <2> QED
    BY <1>3, <2>2 DEF RouteMotion, s, a, Stays
<1>5. CASE <<s.cursor, dir>> \in DOMAIN s.layout.neighbors
  <2>1. s.cursor \in s.layout.machines
    BY <1>1 DEF Tracked, DesktopMatchesLinks
  <2>2. /\ to \in {l} \cup DOMAIN s.links
        /\ s.cursor # l => to = l
        /\ s.cursor = l => to \in DOMAIN s.links
    BY <1>1, <1>5 DEF Tracked, DesktopMatchesLinks
  <2>3. CanCross(s, l, to)
    BY <1>1, <2>2 DEF Tracked, LinksMatchSessions, CanCross
  <2>4. a = PlaceCursorAfterCrossing(x, l, to)
    BY <1>5, <2>1, <2>3 DEF AdvanceCursor
  <2>5. Tracked(x, l)
    BY <1>1, <2>2, TargetTracked DEF HandleCrossing
  <2>6. x.links = s.links /\ x.active = to
    BY <1>1, Fields DEF HandleCrossing, Tracked
  <2>7. IsDaemon(x) /\ l \notin DOMAIN x.links
    BY <2>5 DEF Tracked
  <2>8. s.cursor = d.active
    BY <1>1, <1>2 DEF Tracked
  <2> HIDE DEF x, to, a
  <2>9. CASE to = l
    <3>1. a = Send(x, DOMAIN x.links, "CursorReturned")
      BY <2>4, <2>9 DEF PlaceCursorAfterCrossing
    <3>2. IsDaemon(a)
      <4>1. Tracked(a, l)
        BY <2>5, <3>1, SendTracked DEF Command
      <4> QED
        BY <4>1 DEF Tracked
    <3>3. /\ a.active = l /\ DOMAIN a.links = DOMAIN d.links
          /\ \A p \in DOMAIN d.links :
               a.links[p].commands = Append(d.links[p].commands, "CursorReturned")
      <4>1. PICK ps : ps = DOMAIN x.links
        OBVIOUS
      <4>2. a = Send(x, ps, "CursorReturned") /\ IsDaemon(x)
        BY <2>7, <3>1, <4>1
      <4>3. /\ a.active = x.active /\ DOMAIN a.links = DOMAIN x.links
            /\ \A p \in DOMAIN x.links :
                 a.links[p].commands = IF p \in ps THEN Append(x.links[p].commands, "CursorReturned")
                                       ELSE x.links[p].commands
        BY <4>2, SendEffect
      <4>4. x.links = d.links /\ x.active = l
        BY <1>2, <2>6, <2>9
      <4> QED
        BY <4>1, <4>3, <4>4
    <3>4. d.active # l
      BY <1>1, <2>2, <2>8, <2>9 DEF Tracked
    <3> QED
      BY <1>3, <3>2, <3>3, <3>4 DEF RouteMotion, s, a, ComesHome
  <2>10. CASE to # l
    <3>1. a = Send(x, {to}, "Warp")
      BY <2>4, <2>10 DEF PlaceCursorAfterCrossing
    <3>2. IsDaemon(a)
      <4>1. Tracked(a, l)
        BY <2>5, <3>1, SendTracked DEF Command
      <4> QED
        BY <4>1 DEF Tracked
    <3>3. /\ a.active = to /\ DOMAIN a.links = DOMAIN d.links
          /\ \A p \in DOMAIN d.links :
               a.links[p].commands = IF p \in {to} THEN Append(d.links[p].commands, "Warp")
                                     ELSE d.links[p].commands
      BY <1>2, <2>6, <2>7, <3>1, SendEffect
    <3>4. to \in DOMAIN d.links /\ d.active = l
      BY <1>2, <2>2, <2>8, <2>10
    <3> QED
      BY <1>3, <3>2, <3>3, <3>4 DEF RouteMotion, s, a, GoesOut
  <2> QED
    BY <2>9, <2>10
<1> QED
  BY <1>4, <1>5

-----------------------------------------------------------------------------
\* A connection whose tasks and streams a step leaves alone, and with them what
\* the machines that hold its session send where.
LEMMA Untouched ==
  ASSUME HandInv, NEW c \in DOMAIN dialed, c \in DOMAIN dialed', dialed'[c] = dialed[c],
         \A x \in Ends(c) :
           /\ task'[c][x] = task[c][x] /\ stream'[c][x] = stream[c][x]
           /\ Holds(x, c) =>
                /\ daemon'[x].active = daemon[x].active
                /\ daemon'[x].links[Other(c, x)].commands = daemon[x].links[Other(c, x)].commands
  PROVE  Hand(c)'
<1>1. Inv /\ Hand(c)
  BY DEF HandInv, TypeInv, ListInv, TaskInv
<1>2. Ends(c)' = Ends(c) /\ dialed[c].from \in Ends(c) /\ dialed[c].to \in Ends(c)
  BY DEF Ends
<1>3. ASSUME NEW x \in Ends(c)
      PROVE  /\ Holds(x, c)' <=> Holds(x, c)
             /\ Holds(x, c) => daemon'[x].active = daemon[x].active
             /\ WarpOut(x, c)' <=> WarpOut(x, c)
             /\ HomeOut(x, c)' <=> HomeOut(x, c)
  <2>1. PICK y : y = Other(c, x)
    OBVIOUS
  <2>2. y \in Ends(c) /\ Other(c, x)' = y
    BY <1>1, <2>1, EndsLemma DEF Other
  <2>3. Holds(x, c)' <=> Holds(x, c)
    BY DEF Holds
  <2>4. Holds(x, c) => daemon'[x].links[y].commands = daemon[x].links[y].commands
    BY <2>1
  <2>5. \A w : Waiting(x, c, w)' <=> Waiting(x, c, w)
    BY <2>1, <2>2, <2>3, <2>4 DEF Waiting
  <2>6. stream'[c][y] = stream[c][y]
    BY <2>2
  <2> QED
    BY <2>1, <2>2, <2>3, <2>5, <2>6 DEF WarpOut, HomeOut
<1>4. Roles(c)'
  BY <1>1, <1>2 DEF Hand, Roles
<1>5. Asked(c)'
  BY <1>1, <1>2, <1>3 DEF Hand, Asked
<1>6. Crossing(c)'
  <2> SUFFICES ASSUME BothRun(c)' PROVE Crossing(c)'
    BY DEF Crossing
  <2>1. BothRun(c) /\ \A x \in Ends(c) : Holds(x, c)
    BY <1>2 DEF BothRun, Holds
  <2>2. \A x \in Ends(c) : daemon'[x].active = daemon[x].active
    BY <1>3, <2>1
  <2> QED
    BY <1>1, <1>2, <1>3, <2>1, <2>2 DEF Hand, Crossing
<1> QED
  BY <1>4, <1>5, <1>6 DEF Hand

\* In particular every other connection of a machine that holds a session, or of
\* one that holds none.
LEMMA OthersUntouched ==
  ASSUME HandInv, TwoMachines, dialed' = dialed, NEW m \in Machine, NEW c \in DOMAIN dialed,
         \A x \in Machine \ {m} : daemon'[x] = daemon[x],
         \A x \in Session \ {c} : task'[x] = task[x] /\ stream'[x] = stream[x],
         Holds(m, c) \/ \A x \in Session : ~ Holds(m, x)
  PROVE  \A x \in DOMAIN dialed \ {c} : Hand(x)'
<1>1. Inv
  BY DEF HandInv, TypeInv, ListInv, TaskInv
<1> SUFFICES ASSUME NEW x \in DOMAIN dialed, x # c PROVE Hand(x)'
  OBVIOUS
<1>2. c \in Session /\ x \in Session /\ Ends(x) \subseteq Machine
  BY <1>1, OtherMachine DEF Ends, Inv, IsMap
<1>3. ~ Holds(m, x)
  BY <1>2, OneSession
<1>4. task'[x] = task[x] /\ stream'[x] = stream[x]
  BY <1>2
<1>5. \A y \in Ends(x) : Holds(y, x) => daemon'[y] = daemon[y]
  BY <1>2, <1>3
<1> QED
  BY <1>4, <1>5, Untouched

\* With two machines one that can establish a session has none and its own input.
LEMMA NoSession ==
  ASSUME HandInv, TwoMachines, NEW m \in Machine, NEW c \in DOMAIN dialed,
         CanEstablish(daemon[m], c, Other(c, m))
  PROVE  daemon[m].active = m /\ \A x \in Session : ~ Holds(m, x)
<1>1. Inv /\ Indexed(m)
  BY DEF HandInv, TypeInv, ListInv, TaskInv
<1>2. Consistent(daemon[m], m)
  BY <1>1 DEF Inv
<1>3. /\ DOMAIN daemon[m].by_peer = DOMAIN daemon[m].links /\ DOMAIN daemon[m].links \subseteq Machine
      /\ m \notin DOMAIN daemon[m].links
      /\ daemon[m].active \in {m} \cup DOMAIN daemon[m].links
  BY <1>2 DEF Consistent, LinksMatchSessions, IsDaemon, IsMap, CursorFollowsInput
<1>4. Other(c, m) \in Machine /\ Other(c, m) # m /\ Other(c, m) \notin DOMAIN daemon[m].by_peer
  BY <1>1, OtherMachine DEF CanEstablish
<1>5. DOMAIN daemon[m].links = {}
  BY <1>3, <1>4 DEF TwoMachines
<1>6. \A x \in Session : ~ Holds(m, x)
  BY <1>1, <1>3, <1>5 DEF Indexed
<1> QED
  BY <1>3, <1>5, <1>6

\* A daemon's session and the input that went through it are gone, or the
\* daemon is a new one.
LEMMA CleanupHands ==
  ASSUME HandInv, TwoMachines, NEW m \in Machine, NEW c \in Session,
         Cleanup(m, c) \/ AcceptFails(m, c)
  PROVE  \A x \in DOMAIN dialed' : Hand(x)'
<1>1. Inv /\ Types /\ TaskShape /\ Consistent(daemon[m], m)
  BY DEF HandInv, TypeInv, ListInv, TaskInv, Inv
<1>2. /\ c \in DOMAIN dialed /\ task[c][m] \in {"closing", "accepting"}
      /\ Goto(m, c, "done") /\ Unread(m, c) /\ dialed' = dialed
      /\ \E front : daemon' = [daemon EXCEPT ![m] = CleanupPeer(@, m, Other(c, m), front)]
  BY DEF Cleanup, AcceptFails, At
<1>3. Holds(m, c)
  BY <1>2 DEF Holds
<1>4. PICK front : daemon' = [daemon EXCEPT ![m] = CleanupPeer(daemon[m], m, Other(c, m), front)]
  BY <1>2
<1>5. PICK d : d = CleanupPeer(daemon[m], m, Other(c, m), front)
  OBVIOUS
<1>6. daemon' = [daemon EXCEPT ![m] = d]
  BY <1>4, <1>5
<1>7. d.active \in {daemon[m].active, m}
  BY <1>1, <1>2, <1>5, CleanupLinks, OtherMachine
<1>8. \A x \in Session, n \in Machine :
        task'[x][n] = IF x = c /\ n = m THEN "done" ELSE task[x][n]
  BY <1>1, <1>2 DEF Goto, TaskShape
<1>9. \A x \in Session, n \in Machine :
        /\ MovesOn(task[x][n], task'[x][n])
        /\ task'[x][n] \in Held => task[x][n] \in Held
  BY <1>2, <1>8 DEF MovesOn, Held
<1>10. \A x \in Session, y \in Machine :
         /\ \A w \in {"Accept", "CursorWarp", "CursorReturned"} :
              Has(stream'[x][y], w) => Has(stream[x][y], w)
         /\ Has(stream[x][y], "CursorWarp") =>
              Has(stream'[x][y], "CursorWarp") \/ task'[x][y] # "running"
  <2>1. task'[c][m] # "running"
    BY <1>2, <1>8
  <2> QED
    BY <1>1, <1>2, <2>1, StreamIdle
<1>11. \A x \in DOMAIN dialed : x \in Session /\ Ends(x) \subseteq Machine
  BY <1>1 DEF Ends, Inv, IsMap
<1>12. ASSUME NEW x \in DOMAIN dialed PROVE \A w : ~ Waiting(m, x, w)'
  <2>1. CASE x = c
    BY <1>2, <1>8, <2>1 DEF Waiting, Holds
  <2>2. CASE x # c
    <3>1. x \in Session /\ ~ Holds(m, x)
      BY <1>3, <1>11, <2>2, OneSession
    <3> QED
      BY <1>2, <1>8, <2>2, <3>1 DEF Waiting, Holds
  <2> QED
    BY <2>1, <2>2
<1>13. ASSUME NEW x \in DOMAIN dialed, Waiting(m, x, "Warp") PROVE task'[x][m] # "running"
  <2>1. x = c
    BY <1>3, <1>11, <1>13, OneSession DEF Waiting
  <2> QED
    BY <1>2, <1>8, <2>1
<1>14. \A x \in DOMAIN dialed : \A y \in Ends(x) :
       /\ MovesOn(task[x][y], task'[x][y])
       /\ task'[x][y] \in Held => task[x][y] \in Held \/ (y = m /\ d.active = m)
       /\ \A w \in {"Accept", "CursorWarp", "CursorReturned"} :
            Has(stream'[x][y], w) => Has(stream[x][y], w)
       /\ Has(stream[x][y], "CursorWarp") =>
            \/ Has(stream'[x][y], "CursorWarp")
            \/ task'[x][y] # "running" \/ (y = m /\ d.active = m)
  BY <1>9, <1>10, <1>11
<1>15. /\ \A x \in DOMAIN dialed : \A w \in {"Warp", "CursorReturned"} :
            Waiting(m, x, w)' => Waiting(m, x, w)
       /\ \A x \in DOMAIN dialed :
            Waiting(m, x, "Warp") =>
              Waiting(m, x, "Warp")' \/ task'[x][m] # "running" \/ d.active = m
  BY <1>12, <1>13
<1>16. dialed' = dialed
  BY <1>2
<1> QED
  BY <1>6, <1>7, <1>14, <1>15, <1>16, DaemonHands

LEMMA EstablishHands ==
  ASSUME HandInv, TwoMachines, NEW m \in Machine, NEW c \in Session, EstablishTarget(m, c)
  PROVE  \A x \in DOMAIN dialed' : Hand(x)'
<1>1. Inv /\ Types /\ TaskShape /\ Consistent(daemon[m], m)
  BY DEF HandInv, TypeInv, ListInv, TaskInv, Inv
<1>2. c \in DOMAIN dialed /\ task[c][m] = "approved" /\ dialed' = dialed
  BY DEF EstablishTarget, At
<1>3. CASE Write(m, c, "Busy") /\ Goto(m, c, "done") /\ UNCHANGED daemon
  <2>1. /\ "done" \in Phase /\ MovesOn(task[c][m], "done") /\ "done" \notin Held
        /\ "Busy" \in Message \ {"Accept", "CursorWarp", "CursorReturned"}
    BY <1>2 DEF Phase, MovesOn, Held, Message
  <2> QED
    BY <1>2, <1>3, <2>1, GotoHands
<1>4. ASSUME CanEstablish(daemon[m], c, Other(c, m)),
             NEW front,
             daemon' = [daemon EXCEPT ![m] =
                          RebuildLayout(LinkUp(@, c, Other(c, m), "Target"), m, front)],
             Goto(m, c, "accepting"), stream' = stream
      PROVE  \A x \in DOMAIN dialed' : Hand(x)'
  <2>1. daemon[m].active = m /\ \A x \in Session : ~ Holds(m, x)
    BY <1>2, <1>4, NoSession
  <2>2. PICK d : d = RebuildLayout(LinkUp(daemon[m], c, Other(c, m), "Target"), m, front)
    OBVIOUS
  <2>3. daemon' = [daemon EXCEPT ![m] = d]
    BY <1>4, <2>2
  <2>4. IsDaemon(daemon[m])
    BY <1>1 DEF Consistent
  <2>5. d.active = m /\ d.links[Other(c, m)].commands = <<>>
    BY <2>1, <2>2, <2>4, LinkUpEffect
  <2>6. \A x \in Session, n \in Machine :
          task'[x][n] = IF x = c /\ n = m THEN "accepting" ELSE task[x][n]
    BY <1>1, <1>4 DEF Goto, TaskShape
  <2>7. \A x \in Session, n \in Machine :
          /\ MovesOn(task[x][n], task'[x][n])
          /\ task'[x][n] \in Held => task[x][n] \in Held \/ (n = m /\ d.active = m)
    BY <1>2, <2>5, <2>6 DEF MovesOn, Held
  <2>8. \A x \in DOMAIN dialed : x \in Session /\ Ends(x) \subseteq Machine
    BY <1>1 DEF Ends, Inv, IsMap
  <2>9. daemon'[m] = d
    BY <1>1, <2>3 DEF Inv
  <2>10. ASSUME NEW x \in DOMAIN dialed PROVE \A w : ~ Waiting(m, x, w)'
    <3>1. CASE x = c
      <4>1. Other(c, m)' = Other(c, m)
        BY <1>2 DEF Other
      <4>2. daemon'[m].links[Other(c, m)].commands = <<>>
        BY <2>5, <2>9
      <4> QED
        BY <3>1, <4>1, <4>2, EmptyHas DEF Waiting
    <3>2. CASE x # c
      BY <1>2, <2>1, <2>6, <2>8, <3>2 DEF Waiting, Holds
    <3> QED
      BY <3>1, <3>2
  <2>11. \A x \in DOMAIN dialed : \A w : ~ Waiting(m, x, w)
    BY <2>1, <2>8 DEF Waiting
  <2>12. \A x \in DOMAIN dialed : \A y \in Ends(x) :
         /\ MovesOn(task[x][y], task'[x][y])
         /\ task'[x][y] \in Held => task[x][y] \in Held \/ (y = m /\ d.active = m)
         /\ \A w \in {"Accept", "CursorWarp", "CursorReturned"} :
              Has(stream'[x][y], w) => Has(stream[x][y], w)
         /\ Has(stream[x][y], "CursorWarp") =>
              \/ Has(stream'[x][y], "CursorWarp")
              \/ task'[x][y] # "running" \/ (y = m /\ d.active = m)
    BY <1>4, <2>7, <2>8
  <2>13. /\ \A x \in DOMAIN dialed : \A w \in {"Warp", "CursorReturned"} :
              Waiting(m, x, w)' => Waiting(m, x, w)
         /\ \A x \in DOMAIN dialed :
              Waiting(m, x, "Warp") =>
                Waiting(m, x, "Warp")' \/ task'[x][m] # "running" \/ d.active = m
    BY <2>10, <2>11
  <2>14. dialed' = dialed /\ d.active \in {daemon[m].active, m}
    BY <1>2, <2>5
  <2> QED
    BY <2>3, <2>12, <2>13, <2>14, DaemonHands
<1> QED
  BY <1>3, <1>4 DEF EstablishTarget

-----------------------------------------------------------------------------
\* A daemon that goes on with its links and puts no hand-over into their queues.
LEMMA QueueHands ==
  ASSUME HandInv, dialed' = dialed, task' = task, stream' = stream, NEW m \in Machine, NEW d,
         daemon' = [daemon EXCEPT ![m] = d], d.active = daemon[m].active,
         \A p \in DOMAIN daemon[m].links : \A w \in {"Warp", "CursorReturned"} :
           Has(d.links[p].commands, w) <=> Has(daemon[m].links[p].commands, w)
  PROVE  \A c \in DOMAIN dialed' : Hand(c)'
<1>1. Inv /\ Indexed(m) /\ Consistent(daemon[m], m)
  BY DEF HandInv, TypeInv, ListInv, TaskInv, Inv
<1>2. daemon'[m] = d
  BY <1>1 DEF Inv
<1>3. ASSUME NEW c \in DOMAIN dialed, NEW w \in {"Warp", "CursorReturned"}
      PROVE  Waiting(m, c, w)' <=> Waiting(m, c, w)
  <2>1. Other(c, m)' = Other(c, m) /\ (Holds(m, c)' <=> Holds(m, c))
    BY DEF Other, Holds
  <2>2. Holds(m, c) => Other(c, m) \in DOMAIN daemon[m].links
    <3>1. c \in Session
      BY <1>1, OtherMachine
    <3>2. DOMAIN daemon[m].by_peer = DOMAIN daemon[m].links
      BY <1>1 DEF Consistent, LinksMatchSessions
    <3> QED
      BY <1>1, <3>1, <3>2 DEF Indexed
  <2> QED
    BY <1>2, <2>1, <2>2 DEF Waiting
<1>4. \A c \in DOMAIN dialed : \A x \in Ends(c) :
        /\ MovesOn(task[c][x], task'[c][x])
        /\ task'[c][x] \in Held => task[c][x] \in Held \/ (x = m /\ d.active = m)
        /\ \A w \in {"Accept", "CursorWarp", "CursorReturned"} :
             Has(stream'[c][x], w) => Has(stream[c][x], w)
        /\ Has(stream[c][x], "CursorWarp") =>
             \/ Has(stream'[c][x], "CursorWarp")
             \/ task'[c][x] # "running" \/ (x = m /\ d.active = m)
  BY DEF MovesOn
<1>5. /\ \A c \in DOMAIN dialed : \A w \in {"Warp", "CursorReturned"} :
           Waiting(m, c, w)' => Waiting(m, c, w)
      /\ \A c \in DOMAIN dialed :
           Waiting(m, c, "Warp") =>
             Waiting(m, c, "Warp")' \/ task'[c][m] # "running" \/ d.active = m
  BY <1>3
<1>6. d.active \in {daemon[m].active, m}
  OBVIOUS
<1> QED
  BY <1>4, <1>5, <1>6, DaemonHands

\* Disconnect commands and placements.
LEMMA CommandHands ==
  ASSUME HandInv, NEW m \in Machine, NEW p \in Machine,
         \/ Disconnect(m, p) \/ RemovePeer(m, p)
         \/ \E edge \in Placeable : PlacePeer(m, p, edge)
  PROVE  \A x \in DOMAIN dialed' : Hand(x)'
<1>1. IsDaemon(daemon[m])
  BY DEF HandInv, TypeInv, ListInv, TaskInv, Inv, Consistent
<1>2. dialed' = dialed /\ task' = task /\ stream' = stream
  BY DEF Disconnect, RemovePeer, PlacePeer
<1>3. CASE daemon' = [daemon EXCEPT ![m] = Send(daemon[m], {p}, "Disconnect")]
  <2>1. PICK ps : ps = {p}
    OBVIOUS
  <2>2. PICK d : d = Send(daemon[m], ps, "Disconnect")
    OBVIOUS
  <2>3. /\ d.active = daemon[m].active
        /\ \A q \in DOMAIN daemon[m].links :
             d.links[q].commands = IF q \in ps THEN Append(daemon[m].links[q].commands, "Disconnect")
                                   ELSE daemon[m].links[q].commands
    BY <1>1, <2>2, SendEffect
  <2>4. ASSUME NEW q \in DOMAIN daemon[m].links, NEW w \in {"Warp", "CursorReturned"}
        PROVE  Has(d.links[q].commands, w) <=> Has(daemon[m].links[q].commands, w)
    <3>1. daemon[m].links[q] \in Link
      BY <1>1 DEF IsDaemon, IsMap
    <3>2. daemon[m].links[q].commands \in Seq(Command) /\ "Disconnect" \in Command
      BY <3>1 DEF Link, Command
    <3>3. Has(Append(daemon[m].links[q].commands, "Disconnect"), w) <=>
            Has(daemon[m].links[q].commands, w)
      BY <3>2, AppendHas
    <3> QED
      BY <2>3, <3>3
  <2>5. daemon' = [daemon EXCEPT ![m] = d]
    BY <1>3, <2>1, <2>2
  <2> QED
    BY <1>2, <2>3, <2>4, <2>5, QueueHands
<1>4. ASSUME NEW edge \in Placeable, PlacePeer(m, p, edge) PROVE \A x \in DOMAIN dialed' : Hand(x)'
  <2>1. PICK front : daemon' = [daemon EXCEPT ![m] = SetLayout(daemon[m], m, p, edge, front)]
    BY <1>4 DEF PlacePeer
  <2>2. PICK d : d = SetLayout(daemon[m], m, p, edge, front)
    OBVIOUS
  <2>3. /\ d.active = daemon[m].active
        /\ \A q \in DOMAIN daemon[m].links : d.links[q].commands = daemon[m].links[q].commands
    BY <1>1, <2>2, SetLayoutEffect
  <2>4. daemon' = [daemon EXCEPT ![m] = d]
    BY <2>1, <2>2
  <2>5. \A q \in DOMAIN daemon[m].links : \A w \in {"Warp", "CursorReturned"} :
          Has(d.links[q].commands, w) <=> Has(daemon[m].links[q].commands, w)
    BY <2>3
  <2> QED
    BY <1>2, <2>3, <2>4, <2>5, QueueHands
<1> QED
  BY <1>3, <1>4 DEF Disconnect, RemovePeer

\* A hand-over arrives: the input comes home.
LEMMA WarpHands ==
  ASSUME HandInv, NEW m \in Machine, NEW c \in Session, RecvWarp(m, c)
  PROVE  \A x \in DOMAIN dialed' : Hand(x)'
<1>1. Inv /\ Types /\ IsDaemon(daemon[m])
  BY DEF HandInv, TypeInv, ListInv, TaskInv, Inv, Consistent
<1>2. /\ c \in DOMAIN dialed /\ dialed' = dialed /\ task' = task
      /\ Incoming(m, c, "CursorWarp") /\ Consume(m, c)
      /\ daemon' = [daemon EXCEPT ![m] = YieldControlToPeer(daemon[m], m)]
  BY DEF RecvWarp, At
<1>3. PICK d : d = YieldControlToPeer(daemon[m], m)
  OBVIOUS
<1>4. d.links = daemon[m].links /\ d.active = m
  BY <1>1, <1>3, RedirectEffect
<1>5. daemon' = [daemon EXCEPT ![m] = d]
  BY <1>2, <1>3
<1>6. daemon'[m].links = daemon[m].links
  BY <1>1, <1>4, <1>5 DEF Inv
<1>7. \A x \in Session, y \in Machine :
        /\ \A w : Has(stream'[x][y], w) => Has(stream[x][y], w)
        /\ x # c \/ y # m => stream'[x][y] = stream[x][y]
  BY <1>1, <1>2, ReadHas
<1>8. \A x \in DOMAIN dialed : x \in Session /\ Ends(x) \subseteq Machine
  BY <1>1 DEF Ends, Inv, IsMap
<1>9. \A x \in DOMAIN dialed : \A y \in Ends(x) :
        /\ MovesOn(task[x][y], task'[x][y])
        /\ task'[x][y] \in Held => task[x][y] \in Held \/ (y = m /\ d.active = m)
        /\ \A w \in {"Accept", "CursorWarp", "CursorReturned"} :
             Has(stream'[x][y], w) => Has(stream[x][y], w)
        /\ Has(stream[x][y], "CursorWarp") =>
             \/ Has(stream'[x][y], "CursorWarp")
             \/ task'[x][y] # "running" \/ (y = m /\ d.active = m)
  BY <1>2, <1>4, <1>7, <1>8 DEF MovesOn
<1>10. \A x \in DOMAIN dialed : \A w : Waiting(m, x, w)' <=> Waiting(m, x, w)
  BY <1>2, <1>6 DEF Waiting, Holds, Other
<1>11. /\ \A x \in DOMAIN dialed : \A w \in {"Warp", "CursorReturned"} :
            Waiting(m, x, w)' => Waiting(m, x, w)
       /\ \A x \in DOMAIN dialed :
            Waiting(m, x, "Warp") =>
              Waiting(m, x, "Warp")' \/ task'[x][m] # "running" \/ d.active = m
  BY <1>10
<1>12. d.active \in {daemon[m].active, m} /\ dialed' = dialed
  BY <1>2, <1>4
<1> QED
  BY <1>5, <1>9, <1>11, <1>12, DaemonHands

\* A daemon starts over: its tasks are gone, its input is its own.
LEMMA RestartHands ==
  ASSUME HandInv, NEW m \in Machine, Restart(m)
  PROVE  \A x \in DOMAIN dialed' : Hand(x)'
<1> DEFINE mine == {c \in DOMAIN dialed : task[c][m] \notin {"idle", "done"}}
<1>1. Inv /\ Types /\ TaskShape
  BY DEF HandInv, TypeInv, ListInv, TaskInv, Inv
<1>2. PICK d : d = NewDaemon(m, daemon[m].placements)
  OBVIOUS
<1>3. daemon' = [daemon EXCEPT ![m] = d] /\ dialed' = dialed
  BY <1>2 DEF Restart
<1>4. d.active = m
  BY <1>2, NewIsFree
<1>5. \A x \in DOMAIN dialed : x \in Session /\ Ends(x) \subseteq Machine
  BY <1>1 DEF Ends, Inv, IsMap
<1>6. \A x \in Session, n \in Machine :
        task'[x][n] = IF x \in mine /\ n = m THEN "done" ELSE task[x][n]
  BY <1>1 DEF Restart, TaskShape
<1>7. \A x \in Session, n \in Machine :
        stream'[x][n] = IF x \in mine /\ n = m THEN <<>> ELSE stream[x][n]
  BY <1>1 DEF Restart, Types
<1>8. \A x \in DOMAIN dialed : task'[x][m] \notin Held
  BY <1>5, <1>6 DEF Held
<1>9. \A x \in DOMAIN dialed : \A y \in Ends(x) :
        /\ MovesOn(task[x][y], task'[x][y])
        /\ task'[x][y] \in Held => task[x][y] \in Held \/ (y = m /\ d.active = m)
        /\ \A w \in {"Accept", "CursorWarp", "CursorReturned"} :
             Has(stream'[x][y], w) => Has(stream[x][y], w)
        /\ Has(stream[x][y], "CursorWarp") =>
             \/ Has(stream'[x][y], "CursorWarp")
             \/ task'[x][y] # "running" \/ (y = m /\ d.active = m)
  <2> SUFFICES ASSUME NEW x \in DOMAIN dialed, NEW y \in Ends(x)
               PROVE  /\ MovesOn(task[x][y], task'[x][y])
                      /\ task'[x][y] \in Held => task[x][y] \in Held
                      /\ \A w : Has(stream'[x][y], w) => Has(stream[x][y], w)
                      /\ y # m => stream'[x][y] = stream[x][y]
    BY <1>4
  <2>1. x \in Session /\ y \in Machine
    BY <1>5
  <2>2. MovesOn(task[x][y], task'[x][y]) /\ (task'[x][y] \in Held => task[x][y] \in Held)
    BY <1>6, <2>1 DEF MovesOn, Held
  <2>3. stream'[x][y] \in {<<>>, stream[x][y]} /\ (y # m => stream'[x][y] = stream[x][y])
    BY <1>7, <2>1
  <2> QED
    BY <2>2, <2>3, EmptyHas
<1>10. /\ \A x \in DOMAIN dialed : \A w \in {"Warp", "CursorReturned"} :
            Waiting(m, x, w)' => Waiting(m, x, w)
       /\ \A x \in DOMAIN dialed :
            Waiting(m, x, "Warp") =>
              Waiting(m, x, "Warp")' \/ task'[x][m] # "running" \/ d.active = m
  BY <1>4, <1>8 DEF Waiting, Holds, Held
<1>11. d.active \in {daemon[m].active, m}
  BY <1>4
<1> QED
  BY <1>3, <1>9, <1>10, <1>11, DaemonHands

-----------------------------------------------------------------------------
\* Steps of one connection: what of the others is at stake is their machine.
LEMMA OneConnection ==
  ASSUME HandInv, TwoMachines, dialed' = dialed, NEW m \in Machine, NEW c \in DOMAIN dialed,
         task' = task \/ \E phase \in Phase : Goto(m, c, phase),
         \/ stream' = stream
         \/ \E message \in Message : \/ Write(m, c, message)
                                     \/ Incoming(m, c, message) /\ Consume(m, c),
         \A x \in Machine \ {m} : daemon'[x] = daemon[x],
         Holds(m, c) \/ \A x \in Session : ~ Holds(m, x)
  PROVE  /\ \A x \in DOMAIN dialed \ {c} : Hand(x)'
         /\ \A x \in Session, n \in Machine : x # c \/ n # m => task'[x][n] = task[x][n]
<1>1. Inv /\ Types /\ TaskShape /\ c \in Session
  BY OtherMachine DEF HandInv, TypeInv, ListInv, TaskInv
<1>2. \A x \in Session \ {c} : task'[x] = task[x]
  BY <1>1 DEF Goto, TaskShape
<1>3. \A x \in Session \ {c} : stream'[x] = stream[x]
  BY <1>1 DEF Types, Write, Consume
<1>4. \A x \in Session, n \in Machine : x # c \/ n # m => task'[x][n] = task[x][n]
  BY <1>1 DEF Goto, TaskShape
<1>5. \A x \in DOMAIN dialed \ {c} : Hand(x)'
  BY <1>2, <1>3, OthersUntouched
<1> QED
  BY <1>4, <1>5

\* A command goes from the queue onto the stream.
LEMMA SendHands ==
  ASSUME HandInv, TwoMachines, NEW m \in Machine, NEW c \in Session, SendCommand(m, c)
  PROVE  \A x \in DOMAIN dialed' : Hand(x)'
<1> DEFINE queue == daemon[m].links[Other(c, m)].commands
           message == IF Head(queue) = "Warp" THEN "CursorWarp" ELSE Head(queue)
           phase == IF Head(queue) = "Disconnect" THEN "closing" ELSE "running"
<1>1. Inv /\ Types /\ TaskShape /\ IsDaemon(daemon[m])
  BY DEF HandInv, TypeInv, ListInv, TaskInv, Inv, Consistent
<1>2. /\ c \in DOMAIN dialed /\ task[c][m] = "running" /\ dialed' = dialed
      /\ queue # <<>> /\ Write(m, c, message)
      /\ daemon' = [daemon EXCEPT ![m] = DropCommand(daemon[m], Other(c, m))]
  BY DEF SendCommand, At
<1>3. Holds(m, c)
  BY <1>2 DEF Holds
<1>4. /\ Other(c, m) \in DOMAIN daemon[m].links
      /\ daemon[m].links[Other(c, m)] \in Link
  BY <1>3, OneSession
<1>5. queue \in Seq(Command)
  BY <1>4 DEF Link
<1>6. Head(queue) \in Command
  BY <1>2, <1>5
<1>7. message \in Message /\ phase \in Phase
  BY <1>6 DEF Command, Message, Phase
<1>8. task' = task \/ \E ph \in Phase : Goto(m, c, ph)
  <2>1. task' = task \/ Goto(m, c, "closing")
    BY DEF SendCommand, Goto
  <2> QED
    BY <2>1 DEF Phase
<1>9. \A x \in Session, n \in Machine :
        task'[x][n] = IF x = c /\ n = m THEN phase ELSE task[x][n]
  BY <1>1, <1>2 DEF SendCommand, TaskShape
<1>10. PICK p : p = Other(c, m)
  OBVIOUS
<1>11. p \in Machine /\ p # m /\ Other(c, p) = m /\ Ends(c) = {m, p}
  <2>1. p \in Machine /\ p # m
    BY <1>1, <1>2, <1>10, OtherMachine
  <2>2. m \in Ends(c)
    BY <1>1, <1>2, <2>1, OtherMachine DEF Ends, TwoMachines, Inv, IsMap
  <2>3. Ends(c) = {m, p}
    BY <1>1, <1>2, <1>10, <2>2, EndsLemma
  <2> QED
    BY <2>1, <2>3, <1>1, <1>2, <1>10 DEF Ends, Other
<1>12. PICK d : d = DropCommand(daemon[m], p)
  OBVIOUS
<1>13. d.active = daemon[m].active /\ d.links[p].commands = Tail(queue)
  BY <1>1, <1>4, <1>10, <1>12, DropEffect
<1>14. \A x \in Machine : daemon'[x] = IF x = m THEN d ELSE daemon[x]
  BY <1>1, <1>2, <1>10, <1>12 DEF Inv
<1>15. \A w : /\ Has(Tail(queue), w) => Has(queue, w)
              /\ Has(queue, w) => Has(Tail(queue), w) \/ w = Head(queue)
              /\ Has(queue, Head(queue))
  BY <1>2, <1>5, TailHas
<1> HIDE DEF message
<1>16. /\ \A x \in Session, y \in Machine : \A w :
            /\ Has(stream[x][y], w) => Has(stream'[x][y], w)
            /\ Has(stream'[x][y], w) =>
                 Has(stream[x][y], w) \/ (x = c /\ y = p /\ w = message)
       /\ task[c][p] # "done" => Has(stream'[c][p], message)
  <2>1. message \in Message /\ Write(m, c, message) /\ c \in DOMAIN dialed
    BY <1>2, <1>7
  <2>2. /\ \A x \in Session, y \in Machine : \A w :
             /\ Has(stream[x][y], w) => Has(stream'[x][y], w)
             /\ Has(stream'[x][y], w) =>
                  Has(stream[x][y], w) \/ (x = c /\ y = Other(c, m) /\ w = message)
        /\ task[c][Other(c, m)] # "done" => Has(stream'[c][Other(c, m)], message)
    BY <1>1, <2>1, WriteHas
  <2> QED
    BY <1>10, <2>2
<1> HIDE DEF phase
<1>17. \A w : /\ Waiting(m, c, w) <=> Has(queue, w)
              /\ Waiting(m, c, w)' => Has(Tail(queue), w)
              /\ phase = "running" /\ Has(Tail(queue), w) => Waiting(m, c, w)'
              /\ Waiting(p, c, w)' <=> Waiting(p, c, w)
  <2>1. Other(c, m)' = p /\ Other(c, p)' = m
    BY <1>2, <1>10, <1>11 DEF Other
  <2>2. daemon'[m].links[p].commands = Tail(queue)
    BY <1>13, <1>14
  <2>3. phase = "running" => Holds(m, c)'
    BY <1>2, <1>9 DEF Holds
  <2>4. daemon'[p] = daemon[p] /\ (Holds(p, c)' <=> Holds(p, c))
    BY <1>2, <1>9, <1>11, <1>14 DEF Holds
  <2> QED
    BY <1>3, <1>10, <1>11, <2>1, <2>2, <2>3, <2>4 DEF Waiting
<1>18. Head(queue) = "Disconnect" <=> phase = "closing"
  BY DEF phase
<1>19. phase \in {"closing", "running"}
  BY DEF phase
<1>20. /\ message = "CursorWarp" <=> Head(queue) = "Warp"
       /\ message = "CursorReturned" <=> Head(queue) = "CursorReturned"
       /\ message # "Accept"
  BY <1>6 DEF Command, message
<1> HIDE DEF queue
<1>21. Hand(c)'
  <2>1. ASSUME NEW x \in Ends(c)
        PROVE  /\ MovesOn(task[c][x], task'[c][x])
               /\ daemon'[x].active \in {daemon[x].active, x}
               /\ Holds(x, c)' => Holds(x, c) \/ daemon'[x].active = x
               /\ Has(stream'[c][x], "Accept") => Has(stream[c][x], "Accept")
    <3>1. MovesOn(task[c][x], task'[c][x])
      BY <1>2, <1>9, <1>11, <1>19 DEF MovesOn, Held
    <3>2. daemon'[x].active = daemon[x].active
      BY <1>11, <1>13, <1>14
    <3>3. Holds(x, c)' => Holds(x, c)
      BY <1>2, <1>3, <1>9, <1>11 DEF Holds
    <3>4. Has(stream'[c][x], "Accept") => Has(stream[c][x], "Accept")
      BY <1>11, <1>16, <1>20
    <3> QED
      BY <3>1, <3>2, <3>3, <3>4
  <2>2. Other(c, m) = p /\ Other(c, m)' = p /\ Other(c, p) = m /\ Other(c, p)' = m
    BY <1>2, <1>10, <1>11 DEF Other
  <2>3. (WarpOut(m, c)' => WarpOut(m, c)) /\ (HomeOut(m, c)' => HomeOut(m, c))
    BY <1>11, <1>15, <1>16, <1>17, <1>20, <2>2 DEF WarpOut, HomeOut
  <2>4. /\ WarpOut(p, c)' <=> WarpOut(p, c)
        /\ HomeOut(p, c)' <=> HomeOut(p, c)
    BY <1>11, <1>16, <1>17, <2>2 DEF WarpOut, HomeOut
  <2>5. WarpOut(m, c) /\ BothRun(c)' => WarpOut(m, c)'
    <3> SUFFICES ASSUME WarpOut(m, c), BothRun(c)' PROVE WarpOut(m, c)'
      OBVIOUS
    <3>1. Ends(c)' = {m, p}
      BY <1>2, <1>11 DEF Ends
    <3>2. phase = "running" /\ task[c][p] # "done"
      BY <1>9, <1>11, <3>1 DEF BothRun
    <3> QED
      BY <1>11, <1>15, <1>16, <1>17, <1>20, <2>2, <3>2 DEF WarpOut
  <2>6. \A x \in Ends(c) :
           /\ MovesOn(task[c][x], task'[c][x])
           /\ daemon'[x].active \in {daemon[x].active, x}
           /\ Holds(x, c)' => Holds(x, c) \/ daemon'[x].active = x
           /\ Has(stream'[c][x], "Accept") => Has(stream[c][x], "Accept")
           /\ WarpOut(x, c)' => WarpOut(x, c)
           /\ HomeOut(x, c)' => HomeOut(x, c)
           /\ WarpOut(x, c) /\ BothRun(c)' =>
                WarpOut(x, c)' \/ \E y \in Ends(c) : daemon'[y].active = y
    BY <1>11, <2>1, <2>3, <2>4, <2>5
  <2> QED
    BY <1>2, <2>6, HandStays
<1>22. \A x \in DOMAIN dialed \ {c} : Hand(x)'
  BY <1>2, <1>3, <1>7, <1>8, <1>14, OneConnection
<1> QED
  BY <1>2, <1>21, <1>22

-----------------------------------------------------------------------------
\* With two machines each is an end of every connection.
LEMMA BothEnds ==
  ASSUME Inv, TwoMachines, NEW m \in Machine, NEW c \in DOMAIN dialed, NEW p, p = Other(c, m)
  PROVE  /\ c \in Session /\ p \in Machine /\ p # m /\ Other(c, p) = m /\ Ends(c) = {m, p}
         /\ dialed' = dialed =>
              Other(c, m)' = p /\ Other(c, p)' = m /\ Ends(c)' = {m, p}
         /\ \A x \in Machine : x \in {m, p}
<1>1. p \in Machine /\ p # m /\ c \in Session
  BY OtherMachine
<1>2. m \in Ends(c)
  BY <1>1 DEF Ends, TwoMachines, Inv, IsMap
<1>3. Ends(c) = {m, p}
  BY <1>2, EndsLemma
<1>4. Other(c, p) = m
  BY <1>1, <1>3 DEF Ends, Other
<1>5. dialed' = dialed => Other(c, m)' = p /\ Other(c, p)' = m /\ Ends(c)' = {m, p}
  BY <1>3, <1>4 DEF Ends, Other
<1> QED
  BY <1>1, <1>3, <1>4, <1>5 DEF TwoMachines

\* The target answers: from now on its end runs.
LEMMA AcceptHands ==
  ASSUME HandInv, TwoMachines, NEW m \in Machine, NEW c \in Session, SendAccept(m, c)
  PROVE  \A x \in DOMAIN dialed' : Hand(x)'
<1>1. Inv /\ Types /\ TaskShape
  BY DEF HandInv, TypeInv, ListInv, TaskInv
<1>2. /\ c \in DOMAIN dialed /\ task[c][m] = "accepting" /\ dialed' = dialed
      /\ daemon' = daemon /\ Write(m, c, "Accept") /\ Goto(m, c, "running")
      /\ "Accept" \in Message /\ "running" \in Phase
  BY DEF SendAccept, At, Message, Phase
<1>3. Hand(c) /\ Holds(m, c)
  BY <1>2 DEF HandInv, Holds
<1>4. PICK p : p = Other(c, m)
  OBVIOUS
<1>5. /\ p \in Machine /\ p # m /\ Other(c, p) = m /\ Ends(c) = {m, p}
      /\ Other(c, m)' = p /\ Other(c, p)' = m /\ Ends(c)' = {m, p}
  BY <1>1, <1>2, <1>4, BothEnds
<1>6. /\ \A x \in DOMAIN dialed \ {c} : Hand(x)'
      /\ \A x \in Session, n \in Machine : x # c \/ n # m => task'[x][n] = task[x][n]
  <2>1. /\ \E phase \in Phase : Goto(m, c, phase)
        /\ \E message \in Message : Write(m, c, message)
    BY <1>2
  <2> QED
    BY <1>2, <1>3, <2>1, OneConnection
<1>7. task'[c][m] = "running" /\ task'[c][p] = task[c][p]
  BY <1>1, <1>2, <1>5, <1>6 DEF Goto, TaskShape
<1>8. \A x \in Session, y \in Machine : \A w :
        /\ Has(stream[x][y], w) => Has(stream'[x][y], w)
        /\ Has(stream'[x][y], w) => Has(stream[x][y], w) \/ w = "Accept"
  BY <1>1, <1>2, WriteHas
<1>9. m = dialed[c].to /\ p = dialed[c].from
  BY <1>2, <1>3, <1>5 DEF Hand, Roles, Late, Ends
<1>10. Roles(c)'
  <2>1. task'[c][p] \in {"waiting"} \cup Late /\ task'[c][m] \in Late /\ task'[c][m] # "waiting"
    BY <1>3, <1>7, <1>9 DEF Hand, Roles, Late
  <2> QED
    BY <1>2, <1>9, <2>1 DEF Roles
<1>11. ~ BothRun(c)'
  BY <1>2, <1>3, <1>5, <1>7, <1>9 DEF Hand, Roles, Late, BothRun
<1>12. Asked(c)'
  <2> SUFFICES ASSUME task'[c][p] = "waiting", NEW x \in Ends(c)
               PROVE  /\ ~ WarpOut(x, c)' /\ ~ HomeOut(x, c)'
                      /\ Holds(x, c)' => daemon'[x].active = x
    BY <1>2, <1>5, <1>9, Zenon DEF Asked
  <2>1. /\ ~ WarpOut(x, c) /\ ~ HomeOut(x, c)
        /\ Holds(x, c) => daemon[x].active = x
    BY <1>3, <1>7, <1>9 DEF Hand, Asked
  <2>2. Holds(x, c)' <=> Holds(x, c)
    BY <1>2, <1>3, <1>5, <1>7 DEF Holds
  <2>3. PICK y : y = Other(c, x)
    OBVIOUS
  <2>4. y \in Machine /\ Other(c, x)' = y
    BY <1>4, <1>5, <2>3
  <2>5. \A w : Waiting(x, c, w)' <=> Waiting(x, c, w)
    BY <1>2, <2>2, <2>3, <2>4 DEF Waiting
  <2>6. \A w \in {"CursorWarp", "CursorReturned"} : Has(stream'[c][y], w) <=> Has(stream[c][y], w)
    BY <1>8, <2>4
  <2> QED
    BY <1>2, <2>1, <2>2, <2>3, <2>4, <2>5, <2>6 DEF WarpOut, HomeOut
<1> QED
  BY <1>2, <1>6, <1>10, <1>11, <1>12 DEF Hand, Crossing

\* The dialer goes on to a session: nothing has been handed over yet, and its
\* peer is at home.
LEMMA DialedHands ==
  ASSUME HandInv, TwoMachines, NEW m \in Machine, NEW c \in Session, DialAccepted(m, c)
  PROVE  \A x \in DOMAIN dialed' : Hand(x)'
<1>1. Inv /\ Types /\ TaskShape /\ IsDaemon(daemon[m])
  BY DEF HandInv, TypeInv, ListInv, TaskInv, Inv, Consistent
<1>2. /\ c \in DOMAIN dialed /\ task[c][m] = "waiting" /\ dialed' = dialed
      /\ Incoming(m, c, "Accept")
  BY DEF DialAccepted, At
<1>3. CASE Goto(m, c, "done") /\ Unread(m, c) /\ UNCHANGED daemon
  <2>1. "done" \in Phase /\ MovesOn(task[c][m], "done") /\ "done" \notin Held
    BY DEF Phase, MovesOn, Held
  <2> QED
    BY <1>2, <1>3, <2>1, GotoHands
<1>4. ASSUME CanEstablish(daemon[m], c, Other(c, m)), NEW front,
             daemon' = [daemon EXCEPT ![m] =
                          RebuildLayout(LinkUp(@, c, Other(c, m), "Controller"), m, front)],
             Goto(m, c, "running"), Consume(m, c)
      PROVE  \A x \in DOMAIN dialed' : Hand(x)'
  <2>1. daemon[m].active = m /\ \A x \in Session : ~ Holds(m, x)
    BY <1>2, <1>4, NoSession
  <2>2. PICK p : p = Other(c, m)
    OBVIOUS
  <2>3. /\ p \in Machine /\ p # m /\ Other(c, p) = m /\ Ends(c) = {m, p}
        /\ Other(c, m)' = p /\ Other(c, p)' = m /\ Ends(c)' = {m, p}
    BY <1>1, <1>2, <2>2, BothEnds
  <2>4. PICK d : d = RebuildLayout(LinkUp(daemon[m], c, p, "Controller"), m, front)
    OBVIOUS
  <2>5. d.active = m /\ d.links[p].commands = <<>>
    BY <1>1, <2>1, <2>4, LinkUpEffect
  <2>6. \A x \in Machine : daemon'[x] = IF x = m THEN d ELSE daemon[x]
    BY <1>1, <1>4, <2>2, <2>4 DEF Inv
  <2>7. /\ \A x \in DOMAIN dialed \ {c} : Hand(x)'
        /\ \A x \in Session, n \in Machine : x # c \/ n # m => task'[x][n] = task[x][n]
    <3>1. /\ \E phase \in Phase : Goto(m, c, phase)
          /\ \E message \in Message : Incoming(m, c, message) /\ Consume(m, c)
      BY <1>2, <1>4 DEF Phase, Message
    <3> QED
      BY <1>2, <2>1, <2>6, <3>1, OneConnection
  <2>8. task'[c][m] = "running" /\ task'[c][p] = task[c][p]
    BY <1>1, <1>4, <2>3, <2>7 DEF Goto, TaskShape
  <2>9. /\ Has(stream[c][m], "Accept")
        /\ stream'[c][p] = stream[c][p]
        /\ \A w : Has(stream'[c][m], w) => Has(stream[c][m], w)
    BY <1>1, <1>2, <1>4, <2>3, ReadHas
  <2>10. Hand(c)
    BY <1>2 DEF HandInv
  <2>11. m = dialed[c].from /\ p = dialed[c].to
    BY <1>2, <2>3, <2>10 DEF Hand, Roles, Ends
  <2>12. task[c][p] \in Late
    BY <2>9, <2>10, <2>11 DEF Hand, Roles
  <2>13. \A x \in Ends(c) : /\ ~ WarpOut(x, c) /\ ~ HomeOut(x, c)
                            /\ Holds(x, c) => daemon[x].active = x
    BY <1>2, <2>10, <2>11 DEF Hand, Asked
  <2>14. Roles(c)'
    BY <1>2, <2>8, <2>11, <2>12 DEF Roles, Late
  <2>15. Asked(c)'
    BY <1>2, <2>8, <2>11 DEF Asked
  <2>16. ~ HomeOut(m, c)' /\ ~ HomeOut(p, c)'
    <3>1. daemon'[m].links[p].commands = <<>>
      BY <2>5, <2>6
    <3>2. ~ Waiting(m, c, "CursorReturned")'
      BY <2>3, <3>1, EmptyHas DEF Waiting
    <3>3. Waiting(p, c, "CursorReturned")' <=> Waiting(p, c, "CursorReturned")
      BY <1>2, <2>3, <2>6, <2>8 DEF Waiting, Holds
    <3>4. ~ HomeOut(m, c) /\ ~ HomeOut(p, c)
      BY <2>3, <2>13
    <3> QED
      BY <2>2, <2>3, <2>9, <3>2, <3>3, <3>4 DEF HomeOut
  <2>17. BothRun(c)' => daemon'[p].active = p
    BY <1>2, <2>3, <2>6, <2>8, <2>13 DEF BothRun, Holds
  <2>18. Crossing(c)'
    BY <2>3, <2>16, <2>17 DEF Crossing
  <2> QED
    BY <1>2, <2>7, <2>14, <2>15, <2>18 DEF Hand
<1> QED
  BY <1>3, <1>4 DEF DialAccepted

\* A return is announced: the peer is at home, and nothing else is on its way.
LEMMA ReturnedHands ==
  ASSUME HandInv, TwoMachines, NEW m \in Machine, NEW c \in Session, RecvReturned(m, c)
  PROVE  \A x \in DOMAIN dialed' : Hand(x)'
<1>1. Inv /\ Types /\ TaskShape /\ IsDaemon(daemon[m])
  BY DEF HandInv, TypeInv, ListInv, TaskInv, Inv, Consistent
<1>2. /\ c \in DOMAIN dialed /\ task[c][m] = "running" /\ dialed' = dialed /\ task' = task
      /\ Incoming(m, c, "CursorReturned") /\ Consume(m, c) /\ "CursorReturned" \in Message
      /\ daemon' = [daemon EXCEPT ![m] = FollowPeerCursor(daemon[m], m, Other(c, m))]
  BY DEF RecvReturned, At, Message
<1>3. Hand(c) /\ Holds(m, c)
  BY <1>2 DEF HandInv, Holds
<1>4. PICK p : p = Other(c, m)
  OBVIOUS
<1>5. /\ p \in Machine /\ p # m /\ Other(c, p) = m /\ Ends(c) = {m, p}
      /\ Other(c, m)' = p /\ Other(c, p)' = m /\ Ends(c)' = {m, p}
  BY <1>1, <1>2, <1>4, BothEnds
<1>6. PICK d : d = FollowPeerCursor(daemon[m], m, p)
  OBVIOUS
<1>7. d.links = daemon[m].links /\ d.active \in {daemon[m].active, p}
  BY <1>1, <1>6, RedirectEffect
<1>8. \A x \in Machine : daemon'[x] = IF x = m THEN d ELSE daemon[x]
  BY <1>1, <1>2, <1>4, <1>6 DEF Inv
<1>9. \A x \in DOMAIN dialed \ {c} : Hand(x)'
  <2>1. \E message \in Message : Incoming(m, c, message) /\ Consume(m, c)
    BY <1>2
  <2> QED
    BY <1>2, <1>3, <1>8, <2>1, OneConnection
<1>10. /\ Has(stream[c][m], "CursorReturned")
       /\ stream'[c][p] = stream[c][p]
       /\ \A w : Has(stream'[c][m], w) => Has(stream[c][m], w)
  BY <1>1, <1>2, <1>5, ReadHas
<1>11. HomeOut(p, c)
  BY <1>5, <1>10 DEF HomeOut
<1>12. task[c][dialed[c].from] # "waiting"
  <2>1. p \in Ends(c)
    BY <1>5
  <2> QED
    BY <1>3, <1>11, <2>1 DEF Hand, Asked
<1>13. Roles(c)'
  <2>1. dialed[c].from \in {m, p}
    BY <1>5 DEF Ends
  <2> QED
    BY <1>2, <1>3, <1>10, <2>1 DEF Hand, Roles
<1>14. Asked(c)'
  BY <1>2, <1>12 DEF Asked
<1>15. Crossing(c)'
  <2> SUFFICES ASSUME BothRun(c)' PROVE Crossing(c)'
    BY DEF Crossing
  <2>1. BothRun(c)
    BY <1>2, <1>5 DEF BothRun
  <2>2. daemon[p].active = p /\ ~ HomeOut(m, c)
    BY <1>3, <1>5, <1>11, <2>1 DEF Hand, Crossing
  <2>3. daemon'[p].active = p
    BY <1>5, <1>8, <2>2
  <2>4. Waiting(m, c, "CursorReturned")' <=> Waiting(m, c, "CursorReturned")
    BY <1>2, <1>4, <1>5, <1>7, <1>8 DEF Waiting, Holds
  <2>5. ~ HomeOut(m, c)'
    BY <1>4, <1>5, <1>10, <2>2, <2>4 DEF HomeOut
  <2> QED
    BY <1>5, <2>3, <2>5 DEF Crossing
<1> QED
  BY <1>2, <1>9, <1>13, <1>14, <1>15 DEF Hand

-----------------------------------------------------------------------------
\* On a settled pair of machines the queues and streams between them are empty
\* and at most one of them sends its input away.
LEMMA SettledHands ==
  ASSUME HandInv, TwoMachines, Settled, NEW m \in Machine, NEW c \in Session, Holds(m, c),
         NEW p, p = Other(c, m)
  PROVE  /\ BothRun(c)
         /\ \A x \in {m, p} : /\ stream[c][x] = <<>>
                              /\ daemon[x].links[Other(c, x)].commands = <<>>
                              /\ ~ WarpOut(x, c) /\ ~ HomeOut(x, c)
         /\ daemon[m].active = m \/ daemon[p].active = p
<1>1. Inv /\ c \in DOMAIN dialed
  BY DEF HandInv, TypeInv, ListInv, TaskInv, Holds
<1>2. p \in Machine /\ p # m /\ Other(c, p) = m /\ Ends(c) = {m, p}
  BY <1>1, BothEnds
<1>3. \A x \in {m, p} :
        /\ task[c][x] \notin {"accepting", "closing"}
        /\ task[c][x] = "running" =>
             /\ task[c][Other(c, x)] = "running"
             /\ stream[c][x] = <<>>
             /\ daemon[x].links[Other(c, x)].commands = <<>>
  BY <1>1, <1>2 DEF Settled, Ends
<1>4. task[c][m] = "running"
  BY <1>3 DEF Holds
<1>5. task[c][p] = "running"
  BY <1>3, <1>4
<1>6. BothRun(c)
  BY <1>2, <1>4, <1>5 DEF BothRun
<1>7. \A x \in {m, p} : stream[c][x] = <<>> /\ daemon[x].links[Other(c, x)].commands = <<>>
  BY <1>3, <1>4, <1>5
<1>8. \A x \in {m, p} : ~ WarpOut(x, c) /\ ~ HomeOut(x, c)
  BY <1>2, <1>7, EmptyHas DEF WarpOut, HomeOut, Waiting
<1>9. Crossing(c)
  BY <1>1 DEF HandInv, Hand
<1> QED
  BY <1>2, <1>6, <1>7, <1>8, <1>9 DEF Crossing

\* A movement.
LEMMA MotionHands ==
  ASSUME HandInv, TwoMachines, OneUser, NEW m \in Machine,
         NEW dir \in Edge \cup {"inside"}, NEW known \in BOOLEAN, Motion(m, dir, known)
  PROVE  \A x \in DOMAIN dialed' : Hand(x)'
<1>1. Inv /\ Types /\ TaskShape /\ Consistent(daemon[m], m)
  BY DEF HandInv, TypeInv, ListInv, TaskInv, Inv
<1>2. /\ dialed' = dialed /\ task' = task /\ stream' = stream /\ Settled
      /\ daemon' = [daemon EXCEPT ![m] = RouteMotion(daemon[m], m, dir, known)]
  BY DEF Motion
<1>3. PICK d : d = RouteMotion(daemon[m], m, dir, known)
  OBVIOUS
<1>4. PICK old : old = daemon[m]
  OBVIOUS
<1>5. /\ DOMAIN d.links = DOMAIN old.links
      /\ Stays(d, old) \/ ComesHome(d, old, m) \/ GoesOut(d, old, m)
  BY <1>1, <1>3, <1>4, MotionEffect
<1>6. \A x \in Machine : daemon'[x] = IF x = m THEN d ELSE daemon[x]
  BY <1>1, <1>2, <1>3 DEF Inv
<1> SUFFICES ASSUME NEW c \in DOMAIN dialed PROVE Hand(c)'
  BY <1>2
<1>7. PICK p : p = Other(c, m)
  OBVIOUS
<1>8. /\ p \in Machine /\ p # m /\ Other(c, p) = m /\ Ends(c) = {m, p} /\ c \in Session
      /\ Other(c, m)' = p /\ Other(c, p)' = m /\ Ends(c)' = {m, p}
  BY <1>1, <1>2, <1>7, BothEnds
<1>9. CASE ~ Holds(m, c)
  <2>1. \A x \in Ends(c) : Holds(x, c) => daemon'[x] = daemon[x]
    BY <1>6, <1>8, <1>9
  <2> QED
    BY <1>2, <2>1, Untouched
<1>10. CASE Holds(m, c)
  <2>1. /\ BothRun(c)
        /\ \A x \in {m, p} : /\ stream[c][x] = <<>>
                             /\ daemon[x].links[Other(c, x)].commands = <<>>
                             /\ ~ WarpOut(x, c) /\ ~ HomeOut(x, c)
        /\ daemon[m].active = m \/ daemon[p].active = p
    BY <1>2, <1>7, <1>8, <1>10, SettledHands
  <2>2. DOMAIN old.links = {p} /\ old.links[p].commands = <<>>
    BY <1>4, <1>7, <1>8, <1>10, <2>1, OneSession
  <2>3. Hand(c)
    BY DEF HandInv
  <2>4. Roles(c)'
    BY <1>2, <2>3 DEF Hand, Roles
  <2>5. Asked(c)'
    <3>1. task[c][dialed[c].from] = "running"
      BY <1>8, <2>1 DEF BothRun, Ends
    <3> QED
      BY <1>2, <3>1 DEF Asked
  <2>6. /\ WarpOut(p, c)' <=> WarpOut(p, c)
        /\ HomeOut(p, c)' <=> HomeOut(p, c)
    BY <1>2, <1>6, <1>8 DEF WarpOut, HomeOut, Waiting, Holds
  <2>7. /\ HomeOut(m, c)' => Has(d.links[p].commands, "CursorReturned")
        /\ Has(d.links[p].commands, "Warp") => WarpOut(m, c)'
    <3>1. Has(stream'[c][p], "CursorReturned") => FALSE
      BY <1>2, <2>1, EmptyHas
    <3>2. Holds(m, c)' /\ daemon'[m].links[p] = d.links[p]
      BY <1>2, <1>6, <1>10 DEF Holds
    <3> QED
      BY <1>8, <3>1, <3>2 DEF HomeOut, WarpOut, Waiting
  <2>8. \A w : \A e \in Command : Has(Append(<<>>, e), w) <=> w = e
    <3>1. PICK s : s = <<>>
      OBVIOUS
    <3>2. s \in Seq(Command) /\ \A w : ~ Has(s, w)
      BY <3>1, EmptyHas
    <3>3. \A w : \A e \in Command : Has(Append(s, e), w) <=> Has(s, w) \/ w = e
      BY <3>2, AppendHas
    <3> QED
      BY <3>1, <3>2, <3>3
  <2>9. ~ HomeOut(p, c)'
    BY <2>1, <2>6
  <2>10. CASE Stays(d, old)
    <3>1. d.active = daemon[m].active /\ d.links[p].commands = <<>>
      BY <1>4, <2>2, <2>10 DEF Stays
    <3>2. daemon'[m].active = m \/ daemon'[p].active = p
      BY <1>6, <1>8, <2>1, <3>1
    <3>3. ~ HomeOut(m, c)'
      BY <2>7, <3>1, EmptyHas
    <3> QED
      BY <1>8, <2>4, <2>5, <2>9, <3>2, <3>3 DEF Hand, Crossing
  <2>11. CASE ComesHome(d, old, m)
    <3>1. daemon'[m].active = m
      BY <1>6, <2>11 DEF ComesHome
    <3> QED
      BY <1>8, <2>4, <2>5, <2>9, <3>1 DEF Hand, Crossing
  <2>12. CASE GoesOut(d, old, m)
    <3>1. d.active = p /\ d.links[p].commands = Append(<<>>, "Warp")
      BY <2>2, <2>12 DEF GoesOut
    <3>2. Has(d.links[p].commands, "Warp") /\ ~ Has(d.links[p].commands, "CursorReturned")
      BY <2>8, <3>1 DEF Command
    <3>3. WarpOut(m, c)' /\ ~ HomeOut(m, c)'
      BY <2>7, <3>2
    <3> QED
      BY <1>8, <2>4, <2>5, <2>9, <3>3 DEF Hand, Crossing
  <2> QED
    BY <1>5, <2>10, <2>11, <2>12
<1> QED
  BY <1>9, <1>10

-----------------------------------------------------------------------------
\* A new connection starts without a hand-over.
LEMMA DialHands ==
  ASSUME HandInv, NEW m \in Machine, NEW p \in Machine, NEW c \in Session, Dial(m, p, c)
  PROVE  \A x \in DOMAIN dialed' : Hand(x)'
<1>1. Inv /\ Types /\ TaskShape
  BY DEF HandInv, TypeInv, ListInv, TaskInv
<1>2. /\ m # p /\ c \notin DOMAIN dialed /\ daemon' = daemon
      /\ dialed' = Insert(dialed, c, [from |-> m, to |-> p])
      /\ task' = [task EXCEPT ![c][m] = "waiting", ![c][p] = "request"]
      /\ stream' = [stream EXCEPT ![c][p] = <<"ConnectRequest">>]
  BY DEF Dial
<1>3. /\ DOMAIN dialed' = DOMAIN dialed \cup {c}
      /\ \A x \in DOMAIN dialed : dialed'[x] = dialed[x]
      /\ dialed'[c].from = m /\ dialed'[c].to = p
  BY <1>2 DEF Insert
<1>4. \A x \in Session \ {c} : task'[x] = task[x] /\ stream'[x] = stream[x]
  BY <1>1, <1>2 DEF TaskShape, Types
<1>5. ASSUME NEW x \in DOMAIN dialed PROVE Hand(x)'
  <2>1. x \in Session \ {c}
    BY <1>1, <1>2 DEF Inv, IsMap
  <2> QED
    BY <1>2, <1>3, <1>4, <2>1, Untouched
<1>6. task'[c][m] = "waiting" /\ task'[c][p] = "request"
  BY <1>1, <1>2 DEF TaskShape
<1>7. stream'[c][m] = <<>> /\ stream'[c][p] = <<"ConnectRequest">>
  <2>1. stream[c][m] = <<>>
    BY <1>2 DEF HandInv, Unwritten
  <2> QED
    BY <1>1, <1>2, <2>1 DEF Types
<1>8. \A x \in {m, p}, w \in {"Accept", "CursorWarp", "CursorReturned"} : ~ Has(stream'[c][x], w)
  BY <1>7 DEF Has
<1>9. Ends(c)' = {m, p} /\ Other(c, m)' = p /\ Other(c, p)' = m
  BY <1>2, <1>3 DEF Ends, Other
<1>10. \A x \in {m, p} : ~ Holds(x, c)'
  BY <1>6 DEF Holds
<1>11. \A x \in {m, p} : ~ WarpOut(x, c)' /\ ~ HomeOut(x, c)'
  BY <1>8, <1>9, <1>10 DEF WarpOut, HomeOut, Waiting
<1>12. Roles(c)'
  BY <1>3, <1>6, <1>8 DEF Roles, Late
<1>13. Asked(c)'
  BY <1>9, <1>10, <1>11 DEF Asked
<1>14. Crossing(c)'
  BY <1>6, <1>9 DEF Crossing, BothRun
<1>15. Hand(c)'
  BY <1>12, <1>13, <1>14 DEF Hand
<1> QED
  BY <1>3, <1>5, <1>15

LEMMA TaskStepHands ==
  ASSUME HandInv, TwoMachines, NEW m \in Machine, NEW c \in Session, TaskStep(m, c)
  PROVE  \A x \in DOMAIN dialed' : Hand(x)'
<1>1. CASE RequestArrives(m, c)
  <2>1. /\ c \in DOMAIN dialed /\ task[c][m] = "request"
        /\ daemon' = daemon /\ dialed' = dialed
        /\ Incoming(m, c, "ConnectRequest") /\ Consume(m, c)
        /\ Goto(m, c, "approved") \/ Goto(m, c, "pending")
    BY <1>1 DEF RequestArrives, At
  <2>2. \A phase \in {"approved", "pending"} :
          phase \in Phase /\ MovesOn("request", phase) /\ phase \notin Held
    BY DEF Phase, MovesOn, Held
  <2>3. "ConnectRequest" \in Message \ {"Accept", "CursorWarp", "CursorReturned"}
    BY DEF Message
  <2> QED
    BY <2>1, <2>2, <2>3, GotoHands
<1>2. CASE RecvDisconnect(m, c)
  <2>1. /\ c \in DOMAIN dialed /\ task[c][m] = "running"
        /\ daemon' = daemon /\ dialed' = dialed
        /\ Incoming(m, c, "Disconnect") /\ Consume(m, c) /\ Goto(m, c, "closing")
    BY <1>2 DEF RecvDisconnect, At
  <2>2. "closing" \in Phase /\ MovesOn("running", "closing") /\ "running" \in Held
    BY DEF Phase, MovesOn, Held
  <2>3. "Disconnect" \in Message \ {"Accept", "CursorWarp", "CursorReturned"}
    BY DEF Message
  <2> QED
    BY <2>1, <2>2, <2>3, GotoHands
<1> QED
  BY <1>1, <1>2, DialedHands, WakeHands, EstablishHands, AcceptHands, CleanupHands, SendHands,
     WarpHands, ReturnedHands DEF TaskStep

LEMMA UserStepHands ==
  ASSUME HandInv, TwoMachines, OneUser, NEW m \in Machine, UserStep(m)
  PROVE  \A x \in DOMAIN dialed' : Hand(x)'
<1>1. Inv /\ TaskShape
  BY DEF HandInv, TypeInv, ListInv, TaskInv
<1>2. ASSUME NEW p \in Machine, NEW decision \in {"yes", "no"}, DecidePending(m, p, decision)
      PROVE  \A x \in DOMAIN dialed' : Hand(x)'
  <2>1. daemon' = daemon /\ dialed' = dialed /\ stream' = stream
    BY <1>2 DEF DecidePending
  <2>2. CASE task' = task
    BY <2>1, <2>2, SameHands
  <2>3. ASSUME NEW c, task[c][m] = "pending", task' = [task EXCEPT ![c][m] = decision]
        PROVE  \A x \in DOMAIN dialed' : Hand(x)'
    <3>1. \A x \in Session, n \in Machine :
            task'[x][n] = task[x][n] \/ (task[x][n] = "pending" /\ task'[x][n] = decision)
      BY <1>1, <2>3 DEF TaskShape
    <3>2. \A x \in DOMAIN dialed : x \in Session /\ Ends(x) \subseteq Machine
      BY <1>1 DEF Ends, Inv, IsMap
    <3>3. \A x \in DOMAIN dialed : \A n \in Ends(x) :
            /\ MovesOn(task[x][n], task'[x][n])
            /\ task'[x][n] \in Held => task[x][n] \in Held
      BY <3>1, <3>2 DEF MovesOn, Held
    <3> QED
      BY <2>1, <3>3, IdleHands
  <2> QED
    BY <1>2, <2>2, <2>3 DEF DecidePending
<1>3. ASSUME NEW p \in Machine, ForgetPeer(m, p)
      PROVE  \A x \in DOMAIN dialed' : Hand(x)'
  BY <1>3, SameHands DEF ForgetPeer
<1> QED
  BY <1>2, <1>3, MotionHands, DialHands, CommandHands DEF UserStep

-----------------------------------------------------------------------------
\* Only connections that were made have anything on their streams.
LEMMA StaysUnwritten ==
  ASSUME HandInv, [Next]_vars
  PROVE  Unwritten'
<1>1. Inv /\ Types
  BY DEF HandInv, TypeInv, ListInv, TaskInv
<1>2. \A c \in Session \ DOMAIN dialed : \A m \in Machine : stream[c][m] = <<>>
  BY DEF HandInv, Unwritten
<1>3. ASSUME stream' = stream, DOMAIN dialed \subseteq DOMAIN dialed' PROVE Unwritten'
  BY <1>2, <1>3 DEF Unwritten
<1>4. ASSUME NEW c \in Session, NEW m, NEW s, stream' = [stream EXCEPT ![c][m] = s],
             c \in DOMAIN dialed', DOMAIN dialed \subseteq DOMAIN dialed'
      PROVE  Unwritten'
  <2>1. \A x \in Session \ {c} : stream'[x] = stream[x]
    BY <1>1, <1>4 DEF Types
  <2> QED
    BY <1>2, <1>4, <2>1 DEF Unwritten
<1>5. ASSUME NEW m \in Machine, NEW c \in Session, TaskStep(m, c) \/ GiveUp(m, c) \/ GoDeaf(m, c)
      PROVE  Unwritten'
  <2>1. c \in DOMAIN dialed /\ dialed' = dialed
    BY <1>5 DEF TaskStep, DialAccepted, RequestArrives, WakeApproved, WakeRefused, EstablishTarget,
       SendAccept, AcceptFails, SendCommand, RecvWarp, RecvReturned, RecvDisconnect, Cleanup,
       GiveUp, DialRefused, RequestMissing, DecisionTimeout, SeePeerGone, HeartbeatTimeout,
       GoDeaf, At
  <2>2. \/ stream' = stream \/ Unread(m, c) \/ Consume(m, c)
        \/ \E message : Write(m, c, message)
    BY <1>5 DEF TaskStep, DialAccepted, RequestArrives, WakeApproved, WakeRefused, EstablishTarget,
       SendAccept, AcceptFails, SendCommand, RecvWarp, RecvReturned, RecvDisconnect, Cleanup,
       GiveUp, DialRefused, RequestMissing, DecisionTimeout, SeePeerGone, HeartbeatTimeout,
       GoDeaf
  <2>3. stream' = stream \/ \E n, s : stream' = [stream EXCEPT ![c][n] = s]
    BY <2>2 DEF Unread, Consume, Write
  <2> QED
    BY <1>3, <1>4, <2>1, <2>3
<1>6. ASSUME NEW m \in Machine, UserStep(m) PROVE Unwritten'
  <2>1. ASSUME NEW p \in Machine, NEW c \in Session, Dial(m, p, c) PROVE Unwritten'
    <3>1. /\ stream' = [stream EXCEPT ![c][p] = <<"ConnectRequest">>]
          /\ DOMAIN dialed' = DOMAIN dialed \cup {c}
      BY <2>1 DEF Dial, Insert
    <3> QED
      BY <1>4, <3>1
  <2>2. CASE ~ \E p \in Machine : \E c \in Session : Dial(m, p, c)
    <3>1. stream' = stream /\ dialed' = dialed
      BY <1>6, <2>2 DEF UserStep, Motion, DecidePending, Disconnect, RemovePeer, ForgetPeer,
         PlacePeer
    <3> QED
      BY <1>3, <3>1
  <2> QED
    BY <2>1, <2>2
<1>7. ASSUME NEW m \in Machine, Crash(m) \/ Stop(m) PROVE Unwritten'
  <2>1. Restart(m)
    BY <1>7 DEF Crash, Stop
  <2>2. dialed' = dialed /\ \A c \in Session \ DOMAIN dialed : stream'[c] = stream[c]
    BY <2>1 DEF Restart
  <2> QED
    BY <1>2, <2>2 DEF Unwritten
<1>8. CASE UNCHANGED vars
  BY <1>3, <1>8 DEF vars
<1> QED
  BY <1>5, <1>6, <1>7, <1>8 DEF Next

LEMMA InitHands == Init => HandInv
<1> SUFFICES ASSUME Init PROVE Unwritten /\ \A c \in DOMAIN dialed : Hand(c)
  BY InitTypes DEF HandInv
<1>1. DOMAIN dialed = {}
  BY DEF Init, EmptyMap
<1> QED
  BY <1>1 DEF Init, Unwritten

LEMMA NextHands == TwoMachines /\ OneUser /\ HandInv /\ [Next]_vars => HandInv'
<1> SUFFICES ASSUME TwoMachines, OneUser, HandInv, [Next]_vars PROVE HandInv'
  OBVIOUS
<1>1. TypeInv'
  BY NextTypes DEF HandInv
<1>2. \A c \in DOMAIN dialed' : Hand(c)'
  <2>1. ASSUME NEW m \in Machine, Crash(m) \/ Stop(m) PROVE \A c \in DOMAIN dialed' : Hand(c)'
    BY <2>1, RestartHands DEF Crash, Stop
  <2>2. CASE UNCHANGED vars
    BY <2>2, SameHands DEF vars
  <2> QED
    BY <2>1, <2>2, TaskStepHands, GiveUpHands, UserStepHands DEF Next
<1>3. Unwritten'
  BY StaysUnwritten
<1> QED
  BY <1>1, <1>2, <1>3 DEF HandInv

\* Between two machines with one user who waits for a hand-over to arrive, input
\* that leaves a machine goes to one whose own input stays at home, whatever was
\* lost, refused, disconnected or restarted in between (handle_crossing,
\* CursorWarp, CursorReturned, cleanup_peer).
THEOREM InputAlwaysFollowsCursor ==
  ASSUME TwoMachines, OneUser
  PROVE  Spec => []InputFollowsCursor
<1>1. HandInv => InputFollowsCursor
  <2> SUFFICES ASSUME HandInv, Settled, NEW m \in Machine, daemon[m].active # m
               PROVE  daemon[daemon[m].active].active = daemon[m].active
    BY DEF InputFollowsCursor
  <2>1. Inv /\ Indexed(m) /\ Consistent(daemon[m], m)
    BY DEF HandInv, TypeInv, ListInv, TaskInv, Inv
  <2>2. daemon[m].active \in DOMAIN daemon[m].by_peer /\ IsDaemon(daemon[m])
    BY <2>1 DEF Consistent, LinksMatchSessions, CursorFollowsInput
  <2>3. PICK c : c = daemon[m].by_peer[daemon[m].active]
    OBVIOUS
  <2>4. Holds(m, c) /\ Other(c, m) = daemon[m].active /\ c \in Session
    BY <2>1, <2>2, <2>3 DEF Indexed, IsDaemon, IsMap
  <2> QED
    BY <2>4, SettledHands
<1> QED
  BY <1>1, InitHands, NextHands, PTL DEF Spec
=============================================================================
