---------------------------- MODULE SessionProofs ----------------------------
(***************************************************************************)
(* The session manager's tables agree, and a listener that gets its events *)
(* in order is told all and never sees input go to a session it knows to   *)
(* be closed.  The last two are not inductive: they follow from a history  *)
(* of what the listener will believe, event by event, up to what the       *)
(* manager holds now.                                                      *)
(***************************************************************************)
EXTENDS SessionManager, SequenceTheorems, TLAPS

Table == UNION {[D -> SessionRec] : D \in SUBSET Session}
Index == UNION {[D -> Session] : D \in SUBSET Machine}
View == [sessions : Table, active : Machine]
Event ==
  [type : {"Established"}, id : Session, peer : Machine, role : Role]
    \cup [type : {"Closed"}, id : Session]
    \cup [type : {"RoleChanged"}, id : Session, role : Role]
    \cup [type : {"ActiveTargetChanged"}, target : Machine]

\* Input goes to this machine or to one the view has a session with.
Sound(v) ==
  v.active # Self => \E id \in DOMAIN v.sessions : v.sessions[id].peer = v.active

\* h tells how the events es lead from the view v to the tables of s.
Story(h, es, v, s) ==
  /\ h[0] = v
  /\ h[Len(es)].sessions = s.sessions /\ h[Len(es)].active = s.active
  /\ \A i \in 0..Len(es) : h[i] \in View /\ Sound(h[i])
  /\ \A i \in 1..Len(es) : h[i] = Apply(h[i - 1], es[i])

MgrShape == mgr \in [sessions : Table, by_peer : Index, active : Machine]

SessInv == MgrShape /\ events \in Seq(Event) /\ TablesAgree /\ \E h : Story(h, events, view, mgr)

-----------------------------------------------------------------------------
(* Tables                                                                  *)

LEMMA Tables == /\ \A t : t \in Table <=> IsMap(t, Session, SessionRec)
                /\ \A t : t \in Index <=> IsMap(t, Machine, Session)
BY DEF Table, Index, IsMap

LEMMA TableRemove ==
  ASSUME NEW t \in Table, NEW k \in Session
  PROVE  /\ Remove(t, k) \in Table
         /\ DOMAIN Remove(t, k) = DOMAIN t \ {k}
         /\ \A x \in DOMAIN t \ {k} : Remove(t, k)[x] = t[x]
<1>1. IsMap(t, Session, SessionRec)
  BY Tables
<1>2. /\ IsMap(Remove(t, k), Session, SessionRec)
      /\ DOMAIN Remove(t, k) = DOMAIN t \ {k}
      /\ \A x \in DOMAIN t \ {k} : Remove(t, k)[x] = t[x]
  BY <1>1 DEF IsMap, Remove
<1> QED
  BY <1>2, Tables

LEMMA IndexRemove ==
  ASSUME NEW t \in Index, NEW k \in Machine
  PROVE  /\ Remove(t, k) \in Index
         /\ DOMAIN Remove(t, k) = DOMAIN t \ {k}
         /\ \A x \in DOMAIN t \ {k} : Remove(t, k)[x] = t[x]
<1>1. IsMap(t, Machine, Session)
  BY Tables
<1>2. /\ IsMap(Remove(t, k), Machine, Session)
      /\ DOMAIN Remove(t, k) = DOMAIN t \ {k}
      /\ \A x \in DOMAIN t \ {k} : Remove(t, k)[x] = t[x]
  BY <1>1 DEF IsMap, Remove
<1> QED
  BY <1>2, Tables

LEMMA TableRole ==
  ASSUME NEW t \in Table, NEW id \in DOMAIN t, NEW role \in Role
  PROVE  /\ [t EXCEPT ![id].role = role] \in Table
         /\ DOMAIN [t EXCEPT ![id].role = role] = DOMAIN t
         /\ \A k \in DOMAIN t : [t EXCEPT ![id].role = role][k].peer = t[k].peer
<1>1. t \in [DOMAIN t -> SessionRec] /\ DOMAIN t \in SUBSET Session
  BY DEF Table
<1>2. \A rec \in SessionRec : [rec EXCEPT !.role = role] \in SessionRec
                              /\ [rec EXCEPT !.role = role].peer = rec.peer
  BY DEF SessionRec
<1>3. [t EXCEPT ![id].role = role] \in [DOMAIN t -> SessionRec]
  BY <1>1, <1>2
<1> QED
  BY <1>1, <1>2, <1>3 DEF Table

-----------------------------------------------------------------------------
(* Stories                                                                 *)

\* One more event.
LEMMA StoryGrows ==
  ASSUME NEW es \in Seq(Event), NEW e \in Event, NEW h, NEW v, NEW s, NEW t,
         Story(h, es, v, s),
         Apply(h[Len(es)], e) \in View,
         Apply(h[Len(es)], e).sessions = t.sessions,
         Apply(h[Len(es)], e).active = t.active,
         Sound(t)
  PROVE  \E g : Story(g, es \o <<e>>, v, t)
<1> DEFINE n == Len(es)
           f == es \o <<e>>
           last == Apply(h[n], e)
           g == [i \in 0..(n + 1) |-> IF i = n + 1 THEN last ELSE h[i]]
<1>1. n \in Nat
  BY LenProperties
<1>2. <<e>> \in Seq(Event) /\ Len(<<e>>) = 1 /\ <<e>>[1] = e
  OBVIOUS
<1>3. /\ f \in Seq(Event) /\ Len(f) = n + 1
      /\ \A i \in 1..n : f[i] = es[i]
      /\ f[n + 1] = e
  <2>1. /\ f \in Seq(Event) /\ Len(f) = n + 1
        /\ \A i \in 1..(n + 1) : f[i] = IF i <= n THEN es[i] ELSE <<e>>[i - n]
    BY <1>2, ConcatProperties
  <2> QED
    BY <1>1, <1>2, <2>1
<1>4. Sound(last)
  BY DEF Sound
<1> HIDE DEF f, last, n
<1>5. /\ \A i \in 0..n : g[i] = h[i]
      /\ g[n + 1] = last
  BY <1>1
<1> HIDE DEF g
<1>6. g[0] = v
  BY <1>1, <1>5 DEF Story
<1>7. g[Len(f)].sessions = t.sessions /\ g[Len(f)].active = t.active
  BY <1>3, <1>5 DEF last, n
<1>8. ASSUME NEW i \in 0..Len(f) PROVE g[i] \in View /\ Sound(g[i])
  <2>1. CASE i \in 0..n
    BY <1>5, <2>1 DEF Story, n
  <2>2. CASE i = n + 1
    BY <1>4, <1>5, <2>2 DEF last, n
  <2> QED
    BY <1>1, <1>3, <2>1, <2>2
<1>9. ASSUME NEW i \in 1..Len(f) PROVE g[i] = Apply(g[i - 1], f[i])
  <2>1. CASE i \in 1..n
    <3>1. h[i] = Apply(h[i - 1], es[i])
      BY <2>1 DEF Story, n
    <3>2. g[i] = h[i] /\ g[i - 1] = h[i - 1] /\ f[i] = es[i]
      BY <1>1, <1>3, <1>5, <2>1
    <3> QED
      BY <3>1, <3>2
  <2>2. CASE i = n + 1
    <3>1. g[i] = last /\ g[i - 1] = h[n] /\ f[i] = e
      BY <1>1, <1>3, <1>5, <2>2
    <3> QED
      BY <3>1 DEF last
  <2> QED
    BY <1>1, <1>3, <2>1, <2>2
<1>10. Story(g, f, v, t)
  BY <1>6, <1>7, <1>8, <1>9 DEF Story
<1> QED
  BY <1>10 DEF f

\* The listener takes in the first event.
LEMMA StoryShrinks ==
  ASSUME NEW es \in Seq(Event), es # <<>>, NEW h, NEW v, NEW s, Story(h, es, v, s)
  PROVE  \E g : Story(g, Tail(es), Apply(v, Head(es)), s)
<1> DEFINE n == Len(es)
           g == [i \in 0..(n - 1) |-> h[i + 1]]
           f == Tail(es)
<1>1. n \in Nat \ {0} /\ Head(es) = es[1]
  BY LenProperties, EmptySeq
<1>2. Len(f) = n - 1 /\ \A i \in 1..(n - 1) : f[i] = es[i + 1]
  BY HeadTailProperties
<1>3. \A i \in 0..(n - 1) : g[i] = h[i + 1]
  OBVIOUS
<1> HIDE DEF g, f
<1>4. g[0] = Apply(v, Head(es))
  BY <1>1, <1>3 DEF Story
<1>5. g[Len(f)].sessions = s.sessions /\ g[Len(f)].active = s.active
  BY <1>1, <1>2, <1>3 DEF Story
<1>6. \A i \in 0..Len(f) : g[i] \in View /\ Sound(g[i])
  BY <1>1, <1>2, <1>3, SMTT(30) DEF Story
<1>7. ASSUME NEW i \in 1..Len(f) PROVE g[i] = Apply(g[i - 1], f[i])
  <2>1. i + 1 \in 1..n /\ h[i + 1] = Apply(h[(i + 1) - 1], es[i + 1])
    BY <1>1, <1>2 DEF Story
  <2>2. g[i] = h[i + 1] /\ g[i - 1] = h[i] /\ (i + 1) - 1 = i /\ f[i] = es[i + 1]
    BY <1>1, <1>2, <1>3
  <2> QED
    BY <2>1, <2>2
<1>8. Story(g, f, Apply(v, Head(es)), s)
  BY <1>4, <1>5, <1>6, <1>7 DEF Story
<1> QED
  BY <1>8 DEF f

\* The last view of a story.
LEMMA StoryEnd ==
  ASSUME NEW es \in Seq(Event), NEW h, NEW v, NEW s, Story(h, es, v, s)
  PROVE  h[Len(es)] \in [sessions : Table, active : Machine]
         /\ h[Len(es)].sessions = s.sessions /\ h[Len(es)].active = s.active /\ Sound(s)
<1>1. Len(es) \in 0..Len(es)
  BY LenProperties
<1> QED
  BY <1>1 DEF Story, View, Sound

\* set_active: an event if the target changes, none otherwise.
LEMMA StoryRetargets ==
  ASSUME NEW es \in Seq(Event), NEW h, NEW v, NEW s, Story(h, es, v, s),
         NEW t, t.active \in Machine, t.sessions = s.sessions, Sound(t)
  PROVE  ActiveEvent(s, t) \in Seq(Event) /\ \E g : Story(g, es \o ActiveEvent(s, t), v, t)
<1> DEFINE e == [type |-> "ActiveTargetChanged", target |-> t.active]
           last == h[Len(es)]
<1>1. CASE s.active = t.active
  <2>1. ActiveEvent(s, t) = <<>> /\ es \o <<>> = es
    BY <1>1, ConcatEmptySeq DEF ActiveEvent
  <2>2. Story(h, es, v, t)
    BY <1>1 DEF Story
  <2> QED
    BY <2>1, <2>2, EmptySeq
<1>2. CASE s.active # t.active
  <2>1. ActiveEvent(s, t) = <<e>> /\ e \in Event
    BY <1>2 DEF ActiveEvent, Event
  <2>2. last \in [sessions : Table, active : Machine] /\ last.sessions = s.sessions
    BY StoryEnd
  <2>3. Apply(last, e) = [last EXCEPT !.active = t.active]
    BY DEF Apply
  <2> HIDE DEF last, e
  <2>4. Apply(last, e) \in View /\ Apply(last, e).sessions = t.sessions
        /\ Apply(last, e).active = t.active
    BY <2>2, <2>3 DEF View
  <2>5. \E g : Story(g, es \o <<e>>, v, t)
    BY <2>1, <2>4, StoryGrows DEF last
  <2>6. <<e>> \in Seq(Event)
    BY <2>1
  <2> QED
    BY <2>1, <2>5, <2>6
<1> QED
  BY <1>1, <1>2

-----------------------------------------------------------------------------
(* The methods                                                             *)

LEMMA SessInit == Init => SessInv
<1> SUFFICES ASSUME Init PROVE SessInv
  OBVIOUS
<1>1. IsMap(EmptyMap, Session, SessionRec) /\ IsMap(EmptyMap, Machine, Session)
      /\ DOMAIN EmptyMap = {}
  BY DEF IsMap, EmptyMap
<1>2. EmptyMap \in Table /\ EmptyMap \in Index
  BY <1>1, Tables
<1>3. /\ mgr = [sessions |-> EmptyMap, by_peer |-> EmptyMap, active |-> Self]
      /\ events = <<>> /\ view = [sessions |-> EmptyMap, active |-> Self]
  BY DEF Init, NewSessions
<1>4. MgrShape /\ TablesAgree
  BY <1>1, <1>2, <1>3, SelfAssumption DEF MgrShape, TablesAgree, IndexMatchesSessions, ActiveHasSession
<1>5. Story([i \in 0..0 |-> view], events, view, mgr)
  BY <1>1, <1>2, <1>3, SelfAssumption DEF Story, View, Sound
<1> QED
  BY <1>3, <1>4, <1>5, EmptySeq DEF SessInv

LEMMA EstablishStep ==
  ASSUME SessInv, NEW id \in Session, NEW peer \in Peer, NEW role \in Role,
         DoEstablish(id, peer, role)
  PROVE  SessInv'
<1> DEFINE rec == [peer |-> peer, role |-> role]
           e == [type |-> "Established", id |-> id, peer |-> peer, role |-> role]
<1>1. PICK h : Story(h, events, view, mgr)
  BY DEF SessInv
<1>2. /\ mgr \in [sessions : Table, by_peer : Index, active : Machine]
      /\ events \in Seq(Event) /\ TablesAgree
  BY DEF SessInv, MgrShape
<1>3. /\ mgr' = [mgr EXCEPT !.sessions = Insert(mgr.sessions, id, rec),
                            !.by_peer = Insert(mgr.by_peer, peer, id)]
      /\ id \notin DOMAIN mgr.sessions /\ peer \notin DOMAIN mgr.by_peer
      /\ events' = events \o <<e>> /\ view' = view
  BY DEF DoEstablish, CanEstablish, Establish, Emit
<1>4. rec \in SessionRec /\ e \in Event /\ peer \in Machine /\ rec.peer = peer
  BY DEF SessionRec, Event, Peer
<1>5. /\ mgr'.sessions = Insert(mgr.sessions, id, rec)
      /\ mgr'.by_peer = Insert(mgr.by_peer, peer, id)
      /\ mgr'.active = mgr.active
  BY <1>2, <1>3
<1>6. Apply(h[Len(events)], e) =
        [h[Len(events)] EXCEPT !.sessions = Insert(h[Len(events)].sessions, id, rec)]
  BY DEF Apply
<1> HIDE DEF rec, e
<1>7. /\ mgr'.sessions \in Table
      /\ DOMAIN mgr'.sessions = DOMAIN mgr.sessions \cup {id}
      /\ mgr'.sessions[id] = rec
      /\ \A k \in DOMAIN mgr.sessions : mgr'.sessions[k] = mgr.sessions[k]
  <2> DEFINE t == mgr.sessions
             u == Insert(t, id, rec)
  <2>1. t \in Table /\ id \notin DOMAIN t
    BY <1>2, <1>3
  <2>2. u \in Table /\ DOMAIN u = DOMAIN t \cup {id} /\ u[id] = rec
        /\ \A k \in DOMAIN t \ {id} : u[k] = t[k]
    <3> HIDE DEF t, u
    <3>1. t \in Table /\ id \in Session /\ rec \in SessionRec
      BY <1>4, <2>1
    <3>2. IsMap(t, Session, SessionRec)
      BY <3>1, Tables
    <3>3. /\ IsMap(Insert(t, id, rec), Session, SessionRec)
          /\ DOMAIN Insert(t, id, rec) = DOMAIN t \cup {id}
          /\ Insert(t, id, rec)[id] = rec
          /\ \A x \in DOMAIN t \ {id} : Insert(t, id, rec)[x] = t[x]
      BY <3>1, <3>2 DEF IsMap, Insert
    <3> QED
      BY <3>3, Tables DEF u
  <2>3. mgr'.sessions = u
    BY <1>5
  <2> HIDE DEF u
  <2> QED
    BY <2>1, <2>2, <2>3
<1>8. /\ mgr'.by_peer \in Index
      /\ DOMAIN mgr'.by_peer = DOMAIN mgr.by_peer \cup {peer}
      /\ mgr'.by_peer[peer] = id
      /\ \A k \in DOMAIN mgr.by_peer : mgr'.by_peer[k] = mgr.by_peer[k]
  <2> DEFINE t == mgr.by_peer
             u == Insert(t, peer, id)
  <2>1. t \in Index /\ peer \notin DOMAIN t
    BY <1>2, <1>3
  <2>2. u \in Index /\ DOMAIN u = DOMAIN t \cup {peer} /\ u[peer] = id
        /\ \A k \in DOMAIN t \ {peer} : u[k] = t[k]
    <3> HIDE DEF t, u
    <3>1. t \in Index /\ peer \in Machine /\ id \in Session
      BY <1>4, <2>1
    <3>2. IsMap(t, Machine, Session)
      BY <3>1, Tables
    <3>3. /\ IsMap(Insert(t, peer, id), Machine, Session)
          /\ DOMAIN Insert(t, peer, id) = DOMAIN t \cup {peer}
          /\ Insert(t, peer, id)[peer] = id
          /\ \A x \in DOMAIN t \ {peer} : Insert(t, peer, id)[x] = t[x]
      BY <3>1, <3>2 DEF IsMap, Insert
    <3> QED
      BY <3>3, Tables DEF u
  <2>3. mgr'.by_peer = u
    BY <1>5
  <2> HIDE DEF u
  <2> QED
    BY <2>1, <2>2, <2>3
<1>9. MgrShape'
  <2> DEFINE S == Insert(mgr.sessions, id, rec)
             B == Insert(mgr.by_peer, peer, id)
  <2>1. S \in Table /\ B \in Index
    BY <1>5, <1>7, <1>8
  <2>2. mgr' = [mgr EXCEPT !.sessions = S, !.by_peer = B]
    BY <1>3
  <2> HIDE DEF S, B
  <2> QED
    BY <1>2, <2>1, <2>2 DEF MgrShape
<1>10. TablesAgree'
  <2>1. IndexMatchesSessions /\ ActiveHasSession
    BY <1>2 DEF TablesAgree
  <2>2. ASSUME NEW p \in DOMAIN mgr'.by_peer
        PROVE  mgr'.by_peer[p] \in DOMAIN mgr'.sessions /\ mgr'.sessions[mgr'.by_peer[p]].peer = p
    <3>1. CASE p = peer
      BY <1>4, <1>7, <1>8, <3>1
    <3>2. CASE p # peer
      <4>1. p \in DOMAIN mgr.by_peer /\ mgr'.by_peer[p] = mgr.by_peer[p]
        BY <1>8, <2>2, <3>2
      <4>2. mgr.by_peer[p] \in DOMAIN mgr.sessions /\ mgr.sessions[mgr.by_peer[p]].peer = p
        BY <2>1, <4>1 DEF IndexMatchesSessions
      <4> QED
        BY <1>7, <4>1, <4>2
    <3> QED
      BY <3>1, <3>2
  <2>3. ASSUME NEW k \in DOMAIN mgr'.sessions
        PROVE  mgr'.sessions[k].peer \in DOMAIN mgr'.by_peer
               /\ mgr'.by_peer[mgr'.sessions[k].peer] = k
    <3>1. CASE k = id
      BY <1>4, <1>7, <1>8, <3>1
    <3>2. CASE k # id
      <4>1. k \in DOMAIN mgr.sessions /\ mgr'.sessions[k] = mgr.sessions[k]
        BY <1>7, <2>3, <3>2
      <4>2. mgr.sessions[k].peer \in DOMAIN mgr.by_peer /\ mgr.by_peer[mgr.sessions[k].peer] = k
        BY <2>1, <4>1 DEF IndexMatchesSessions
      <4> QED
        BY <1>8, <4>1, <4>2
    <3> QED
      BY <3>1, <3>2
  <2>4. mgr'.active # Self => mgr'.active \in DOMAIN mgr'.by_peer
    BY <1>5, <1>8, <2>1 DEF ActiveHasSession
  <2> QED
    BY <2>2, <2>3, <2>4 DEF TablesAgree, IndexMatchesSessions, ActiveHasSession
<1>11. events' \in Seq(Event)
  BY <1>2, <1>3, <1>4, ConcatProperties
<1>12. Sound(mgr')
  BY <1>1, <1>2, <1>5, <1>7, StoryEnd DEF Sound
<1>13. \E g : Story(g, events', view', mgr')
  <2> DEFINE last == h[Len(events)]
  <2>1. last \in [sessions : Table, active : Machine] /\ last.sessions = mgr.sessions
        /\ last.active = mgr.active
    BY <1>1, <1>2, StoryEnd
  <2>2. Apply(last, e) = [last EXCEPT !.sessions = mgr'.sessions]
    BY <1>5, <1>6, <2>1
  <2> HIDE DEF last
  <2>3. Apply(last, e) \in View /\ Apply(last, e).sessions = mgr'.sessions
        /\ Apply(last, e).active = mgr'.active
    BY <1>5, <1>7, <2>1, <2>2 DEF View
  <2> QED
    BY <1>1, <1>2, <1>3, <1>4, <1>12, <2>3, StoryGrows DEF last
<1> QED
  BY <1>9, <1>10, <1>11, <1>13 DEF SessInv

\* yield_control, follow_peer and handle_crossing: only the target moves.
LEMMA RetargetStep ==
  ASSUME SessInv, NEW a \in Machine, a = Self \/ a \in DOMAIN mgr.by_peer,
         mgr' = [mgr EXCEPT !.active = a], Emit(ActiveEvent(mgr, mgr'))
  PROVE  SessInv'
<1>1. PICK h : Story(h, events, view, mgr)
  BY DEF SessInv
<1>2. /\ mgr \in [sessions : Table, by_peer : Index, active : Machine]
      /\ events \in Seq(Event) /\ TablesAgree
  BY DEF SessInv, MgrShape
<1>3. events' = events \o ActiveEvent(mgr, mgr') /\ view' = view
  BY DEF Emit
<1>4. MgrShape' /\ mgr'.sessions = mgr.sessions /\ mgr'.by_peer = mgr.by_peer /\ mgr'.active = a
  BY <1>2 DEF MgrShape
<1>5. TablesAgree'
  BY <1>2, <1>4 DEF TablesAgree, IndexMatchesSessions, ActiveHasSession
<1>6. Sound(mgr')
  BY <1>5 DEF Sound, TablesAgree, IndexMatchesSessions, ActiveHasSession
<1>7. /\ ActiveEvent(mgr, mgr') \in Seq(Event)
      /\ \E g : Story(g, events \o ActiveEvent(mgr, mgr'), view, mgr')
  BY <1>1, <1>2, <1>4, <1>6, StoryRetargets
<1>8. events' \in Seq(Event)
  BY <1>2, <1>3, <1>7, ConcatProperties
<1>9. \E g : Story(g, events', view', mgr')
  BY <1>3, <1>7
<1> QED
  BY <1>4, <1>5, <1>8, <1>9 DEF SessInv

LEMMA ReverseRoleStep ==
  ASSUME SessInv, NEW id \in Session, DoReverseRole(id)
  PROVE  SessInv'
<1> DEFINE r == Reversed(mgr.sessions[id].role)
           e == [type |-> "RoleChanged", id |-> id, role |-> r]
           S == [mgr.sessions EXCEPT ![id].role = r]
<1>1. PICK h : Story(h, events, view, mgr)
  BY DEF SessInv
<1>2. /\ mgr \in [sessions : Table, by_peer : Index, active : Machine]
      /\ events \in Seq(Event) /\ TablesAgree
  BY DEF SessInv, MgrShape
<1>3. /\ mgr' = [mgr EXCEPT !.sessions = S] /\ id \in DOMAIN mgr.sessions
      /\ events' = events \o <<e>> /\ view' = view
  BY <1>2 DEF DoReverseRole, ReverseRole, Emit
<1>4. r \in Role /\ e \in Event
  BY DEF Reversed, Role, Event
<1>5. Apply(h[Len(events)], e) =
        [h[Len(events)] EXCEPT !.sessions = [h[Len(events)].sessions EXCEPT ![id].role = r]]
  BY DEF Apply
<1> HIDE DEF r
<1>6. /\ S \in Table /\ DOMAIN S = DOMAIN mgr.sessions
      /\ \A k \in DOMAIN mgr.sessions : S[k].peer = mgr.sessions[k].peer
  <2> DEFINE t == mgr.sessions
  <2>1. t \in Table /\ id \in DOMAIN t
    BY <1>2, <1>3
  <2> HIDE DEF t
  <2>2. LET u == [t EXCEPT ![id].role = r]
        IN  u \in Table /\ DOMAIN u = DOMAIN t /\ \A k \in DOMAIN t : u[k].peer = t[k].peer
    BY <1>4, <2>1, TableRole
  <2> QED
    BY <2>2 DEF t
<1> HIDE DEF S, e
<1>7. MgrShape' /\ mgr'.sessions = S /\ mgr'.by_peer = mgr.by_peer /\ mgr'.active = mgr.active
  BY <1>2, <1>3, <1>6 DEF MgrShape
<1>8. TablesAgree'
  <2>1. IndexMatchesSessions'
    BY <1>2, <1>6, <1>7 DEF TablesAgree, IndexMatchesSessions
  <2>2. ActiveHasSession'
    BY <1>2, <1>7 DEF TablesAgree, ActiveHasSession
  <2> QED
    BY <2>1, <2>2 DEF TablesAgree
<1>9. Sound(mgr')
  BY <1>8 DEF Sound, TablesAgree, IndexMatchesSessions, ActiveHasSession
<1>10. events' \in Seq(Event)
  BY <1>2, <1>3, <1>4, ConcatProperties
<1>11. \E g : Story(g, events', view', mgr')
  <2> DEFINE last == h[Len(events)]
  <2>1. last \in [sessions : Table, active : Machine] /\ last.sessions = mgr.sessions
        /\ last.active = mgr.active
    BY <1>1, <1>2, StoryEnd
  <2>2. Apply(last, e) = [last EXCEPT !.sessions = S]
    BY <1>5, <2>1 DEF S
  <2> HIDE DEF last
  <2>3. Apply(last, e) \in View /\ Apply(last, e).sessions = mgr'.sessions
        /\ Apply(last, e).active = mgr'.active
    BY <1>6, <1>7, <2>1, <2>2 DEF View
  <2> QED
    BY <1>1, <1>2, <1>3, <1>4, <1>9, <2>3, StoryGrows DEF last
<1> QED
  BY <1>7, <1>8, <1>10, <1>11 DEF SessInv
\* close tells two things, and the target has moved home before the second.
LEMMA CloseStep ==
  ASSUME SessInv, NEW id \in Session, DoClose(id)
  PROVE  SessInv'
<1> DEFINE p == mgr.sessions[id].peer
           S == Remove(mgr.sessions, id)
           B == Remove(mgr.by_peer, p)
           a == IF mgr.active = p THEN Self ELSE mgr.active
           mid == [mgr EXCEPT !.active = a]
           moved == ActiveEvent(mgr, mid)
           e == [type |-> "Closed", id |-> id]
<1>1. PICK h : Story(h, events, view, mgr)
  BY DEF SessInv
<1>2. /\ mgr \in [sessions : Table, by_peer : Index, active : Machine]
      /\ events \in Seq(Event) /\ TablesAgree
  BY DEF SessInv, MgrShape
<1>3. /\ mgr' = [mgr EXCEPT !.sessions = S, !.by_peer = B, !.active = a]
      /\ id \in DOMAIN mgr.sessions /\ view' = view
      /\ events' = events \o (ActiveEvent(mgr, mgr') \o <<e>>)
  BY <1>2 DEF DoClose, Close, Emit
<1>4. /\ p \in Machine /\ p \in DOMAIN mgr.by_peer /\ mgr.by_peer[p] = id
      /\ e \in Event
  <2>1. p \in DOMAIN mgr.by_peer /\ mgr.by_peer[p] = id
    BY <1>2, <1>3 DEF TablesAgree, IndexMatchesSessions
  <2>2. IsMap(mgr.by_peer, Machine, Session)
    BY <1>2, Tables
  <2> QED
    BY <2>1, <2>2 DEF IsMap, Event
<1>5. a \in Machine
  BY <1>2, SelfAssumption
<1>6. a # Self => a = mgr.active /\ a # p
  OBVIOUS
<1>7. /\ S \in Table /\ DOMAIN S = DOMAIN mgr.sessions \ {id}
      /\ \A k \in DOMAIN mgr.sessions \ {id} : S[k] = mgr.sessions[k]
  <2> DEFINE t == mgr.sessions
  <2>1. t \in Table
    BY <1>2
  <2> HIDE DEF t
  <2>2. /\ Remove(t, id) \in Table /\ DOMAIN Remove(t, id) = DOMAIN t \ {id}
        /\ \A k \in DOMAIN t \ {id} : Remove(t, id)[k] = t[k]
    BY <2>1, TableRemove, ZenonT(30)
  <2> QED
    BY <2>2 DEF t
<1>8. /\ B \in Index /\ DOMAIN B = DOMAIN mgr.by_peer \ {p}
      /\ \A k \in DOMAIN mgr.by_peer \ {p} : B[k] = mgr.by_peer[k]
  <2> DEFINE t == mgr.by_peer
  <2>1. t \in Index /\ p \in Machine
    BY <1>2, <1>4
  <2> HIDE DEF t, p
  <2>2. /\ Remove(t, p) \in Index /\ DOMAIN Remove(t, p) = DOMAIN t \ {p}
        /\ \A k \in DOMAIN t \ {p} : Remove(t, p)[k] = t[k]
    BY <2>1, IndexRemove, ZenonT(30)
  <2> QED
    BY <2>2 DEF t
<1> HIDE DEF S, B, a
<1>9. /\ MgrShape'
      /\ mgr'.sessions = S /\ mgr'.by_peer = B /\ mgr'.active = a
      /\ mid.sessions = mgr.sessions /\ mid.active = a
  BY <1>2, <1>3, <1>5, <1>7, <1>8 DEF MgrShape
<1>10. TablesAgree'
  <2>1. IndexMatchesSessions /\ ActiveHasSession
    BY <1>2 DEF TablesAgree
  <2>2. ASSUME NEW q \in DOMAIN B PROVE B[q] \in DOMAIN S /\ S[B[q]].peer = q
    <3>1. q \in DOMAIN mgr.by_peer /\ q # p /\ B[q] = mgr.by_peer[q]
      BY <1>8, <2>2
    <3>2. mgr.by_peer[q] \in DOMAIN mgr.sessions /\ mgr.sessions[mgr.by_peer[q]].peer = q
      BY <2>1, <3>1 DEF IndexMatchesSessions
    <3> QED
      BY <1>7, <3>1, <3>2
  <2>3. ASSUME NEW k \in DOMAIN S PROVE S[k].peer \in DOMAIN B /\ B[S[k].peer] = k
    <3>1. k \in DOMAIN mgr.sessions /\ k # id /\ S[k] = mgr.sessions[k]
      BY <1>7, <2>3
    <3>2. mgr.sessions[k].peer \in DOMAIN mgr.by_peer /\ mgr.by_peer[mgr.sessions[k].peer] = k
      BY <2>1, <3>1 DEF IndexMatchesSessions
    <3> QED
      BY <1>4, <1>8, <3>1, <3>2
  <2>4. a # Self => a \in DOMAIN B
    BY <1>6, <1>8, <2>1 DEF ActiveHasSession
  <2> QED
    BY <1>9, <2>2, <2>3, <2>4 DEF TablesAgree, IndexMatchesSessions, ActiveHasSession
<1>11. Sound(mgr') /\ Sound(mid)
  <2>1. Sound(mgr')
    BY <1>10 DEF Sound, TablesAgree, IndexMatchesSessions, ActiveHasSession
  <2>2. Sound(mgr)
    BY <1>2 DEF Sound, TablesAgree, IndexMatchesSessions, ActiveHasSession
  <2> QED
    BY <1>6, <1>9, <2>1, <2>2 DEF Sound
<1>12. ActiveEvent(mgr, mgr') = moved
  BY <1>9 DEF ActiveEvent
<1> HIDE DEF mid
<1>13. mid.active \in Machine
  BY <1>5, <1>9
<1>14. moved \in Seq(Event) /\ \E g : Story(g, events \o moved, view, mid)
  BY <1>1, <1>2, <1>9, <1>11, <1>13, StoryRetargets
<1> HIDE DEF moved, e
<1>15. <<e>> \in Seq(Event)
  BY <1>4
<1>16. events' = (events \o moved) \o <<e>> /\ events \o moved \in Seq(Event)
  BY <1>2, <1>3, <1>12, <1>14, <1>15, ConcatAssociative, ConcatProperties
<1>17. events' \in Seq(Event)
  BY <1>15, <1>16, ConcatProperties
<1>18. \E g : Story(g, events', view', mgr')
  <2> DEFINE es == events \o moved
  <2>1. PICK g : Story(g, es, view, mid)
    BY <1>14
  <2> DEFINE last == g[Len(es)]
  <2>2. es \in Seq(Event)
    BY <1>16
  <2> HIDE DEF es
  <2>3. last \in [sessions : Table, active : Machine] /\ last.sessions = mgr.sessions
        /\ last.active = a
    BY <1>9, <2>1, <2>2, StoryEnd
  <2>4. Apply(last, e) = [last EXCEPT !.sessions = S]
    BY <2>3 DEF Apply, S, e
  <2> HIDE DEF last
  <2>5. Apply(last, e) \in View /\ Apply(last, e).sessions = mgr'.sessions
        /\ Apply(last, e).active = mgr'.active
    BY <1>7, <1>9, <2>3, <2>4 DEF View
  <2>6. \E f : Story(f, es \o <<e>>, view, mgr')
    BY <1>4, <1>11, <2>1, <2>2, <2>5, StoryGrows DEF last
  <2> QED
    BY <1>3, <1>16, <2>6 DEF es
<1> QED
  BY <1>9, <1>10, <1>17, <1>18 DEF SessInv

LEMMA ListenStep ==
  ASSUME SessInv, Listen
  PROVE  SessInv'
<1>1. PICK h : Story(h, events, view, mgr)
  BY DEF SessInv
<1>2. events \in Seq(Event) /\ events # <<>>
  BY DEF SessInv, Listen
<1>3. view' = Apply(view, Head(events)) /\ events' = Tail(events) /\ mgr' = mgr
  BY DEF Listen
<1>4. \E g : Story(g, events', view', mgr')
  <2>1. \E g : Story(g, Tail(events), Apply(view, Head(events)), mgr)
    BY <1>1, <1>2, StoryShrinks
  <2> QED
    BY <1>3, <2>1
<1>5. events' \in Seq(Event)
  BY <1>2, <1>3, HeadTailProperties
<1>6. MgrShape' /\ TablesAgree'
  BY <1>3 DEF SessInv, MgrShape, TablesAgree, IndexMatchesSessions, ActiveHasSession
<1> QED
  BY <1>4, <1>5, <1>6 DEF SessInv

LEMMA SessStep == SessInv /\ [Next]_vars => SessInv'
<1> SUFFICES ASSUME SessInv, [Next]_vars PROVE SessInv'
  OBVIOUS
<1>1. CASE \E id \in Session, peer \in Peer, role \in Role : DoEstablish(id, peer, role)
  BY <1>1, EstablishStep
<1>2. CASE \E id \in Session : DoClose(id) \/ DoReverseRole(id)
  BY <1>2, CloseStep, ReverseRoleStep
<1>3. CASE DoYieldControl
  BY <1>3, SelfAssumption, RetargetStep DEF DoYieldControl, YieldControl
<1>4. CASE \E peer \in Peer : DoFollowPeer(peer)
  BY <1>4, RetargetStep DEF DoFollowPeer, CanFollow, FollowPeer, Peer
<1>5. CASE \E m \in Machine : DoHandleCrossing(m)
  BY <1>5, RetargetStep DEF DoHandleCrossing, CanCross, HandleCrossing
<1>6. CASE Listen
  BY <1>6, ListenStep
<1>7. CASE UNCHANGED vars
  BY <1>7 DEF vars, SessInv, MgrShape, TablesAgree, IndexMatchesSessions, ActiveHasSession
<1> QED
  BY <1>1, <1>2, <1>3, <1>4, <1>5, <1>6, <1>7 DEF Next

LEMMA SessAlways == Spec => []SessInv
BY SessInit, SessStep, PTL DEF Spec

-----------------------------------------------------------------------------
(* The properties                                                          *)

\* sessions, by_peer and active of SessionManager agree after any sequence of
\* establish, close, reverse_role, yield_control, follow_peer and
\* handle_crossing: no peer twice, and input only to a machine with a session.
THEOREM TablesAlwaysAgree == Spec => []TablesAgree
<1>1. SessInv => TablesAgree
  BY DEF SessInv
<1> QED
  BY <1>1, SessAlways, PTL

\* A listener on the SessionEvents port that has taken in every event holds
\* the manager's sessions, roles and target: no method is silent.
THEOREM EventsAlwaysTellAll == Spec => []EventsTellAll
<1>1. SessInv => EventsTellAll
  <2> SUFFICES ASSUME SessInv, events = <<>>
               PROVE  view.sessions = mgr.sessions /\ view.active = mgr.active
    BY DEF EventsTellAll
  <2>1. PICK h : Story(h, events, view, mgr)
    BY DEF SessInv
  <2>2. Len(events) = 0
    BY EmptySeq
  <2> QED
    BY <2>1, <2>2 DEF Story
<1> QED
  BY <1>1, SessAlways, PTL

\* A listener that lags behind never believes that input goes to a peer whose
\* session it knows to be closed: close emits the target before Closed.
THEOREM ViewsNeverDangle == Spec => []ViewNeverDangles
<1>1. SessInv => ViewNeverDangles
  <2> SUFFICES ASSUME SessInv PROVE Sound(view)
    BY DEF ViewNeverDangles, Sound
  <2>1. PICK h : Story(h, events, view, mgr)
    BY DEF SessInv
  <2>2. 0 \in 0..Len(events)
    BY LenProperties DEF SessInv
  <2> QED
    BY <2>1, <2>2 DEF Story
<1> QED
  BY <1>1, SessAlways, PTL
=============================================================================
