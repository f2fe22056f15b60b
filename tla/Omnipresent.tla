---------------------------- MODULE Omnipresent -----------------------------
(***************************************************************************)
(* Several daemons and the connections between them: dialing, the target's *)
(* accept/reject decision, the per-connection task (run_peer) with its     *)
(* ordered control stream, hand-overs of the cursor, disconnects, silent   *)
(* networks, crashes.                                                      *)
(*                                                                         *)
(* A connection is identified with the id of the one session the target    *)
(* draws for it, a fresh random u128.  Each end of a connection is one     *)
(* task; task[c][m] is how far m's task on connection c has come:          *)
(*                                                                         *)
(*   target  request -> pending -> yes | no | lapsed -> approved ->        *)
(*             accepting -> running -> closing -> done                     *)
(*   dialer  waiting -> running -> closing -> done                         *)
(*                                                                         *)
(* Every step is what a task does between two awaits, or a whole critical  *)
(* section of an IPC request or of the capture thread.                     *)
(***************************************************************************)
EXTENDS DaemonState, Lists

CONSTANTS
  MaxQueue,   \* bound: commands waiting for a task, messages on a stream
  MaxCrash,   \* bound: how often machines crash or are stopped, all together
  Movers,     \* the machines with somebody at the mouse
  Dialers,    \* the machines on which `omni connect' is used
  Fresh,      \* the machines that start with an empty trust store; the others
              \* start with every machine pinned
  Hangups,    \* the machines on which `omni disconnect' and `omni stop' are used
  Forgetters, \* the machines on which `omni peers remove' is used
  Lossy,      \* the machines whose network may fall silent
  Placeable,  \* the edges `omni layout' is used with
  OneUser     \* TRUE: one pair of hands, that does not cross an edge again
              \* before the machines have settled on the previous crossing

ASSUME MaxQueueAssumption == MaxQueue \in Nat \ {0}
ASSUME MaxCrashAssumption == MaxCrash \in Nat
ASSUME MoversAssumption == Movers \subseteq Machine
ASSUME DialersAssumption == Dialers \subseteq Machine
ASSUME FreshAssumption == Fresh \subseteq Machine
ASSUME HangupsAssumption == Hangups \subseteq Machine
ASSUME ForgettersAssumption == Forgetters \subseteq Machine
ASSUME LossyAssumption == Lossy \subseteq Machine
ASSUME PlaceableAssumption == Placeable \subseteq Edge
ASSUME OneUserAssumption == OneUser \in BOOLEAN

VARIABLES
  daemon,   \* each machine's State
  trusted,  \* each machine's pinned peers
  saved,    \* those in its trust file
  pending,  \* each machine's Vec<PendingRequest>, as connections
  dialed,   \* connection -> [from, to], for the connections made so far
  task,     \* the phase of each end's task
  stream,   \* stream[c][m]: control messages on their way to m, oldest first
  deaf,     \* the ends of a connection that nothing reaches any more
  crashes,  \* how many crashes and stops there were
  forgetting \* each machine's peers whose removal is half done

vars == <<daemon, trusted, saved, pending, dialed, task, stream, deaf, crashes, forgetting>>

Phase == {"idle", "waiting", "request", "pending", "yes", "no", "lapsed",
          "approved", "accepting", "running", "closing", "done"}

Message == {"ConnectRequest", "Accept", "Declined", "Busy",
            "CursorWarp", "CursorReturned", "Disconnect"}

Init ==
  /\ daemon = [m \in Machine |-> NewDaemon(m, EmptyMap)]
  /\ trusted = [m \in Machine |-> IF m \in Fresh THEN {} ELSE Machine \ {m}]
  /\ saved = trusted
  /\ pending = [m \in Machine |-> <<>>]
  /\ dialed = EmptyMap
  /\ task = [c \in Session |-> [m \in Machine |-> "idle"]]
  /\ stream = [c \in Session |-> [m \in Machine |-> <<>>]]
  /\ deaf = [c \in Session |-> {}]
  /\ crashes = 0
  /\ forgetting = [m \in Machine |-> {}]

-----------------------------------------------------------------------------
(* Connections                                                             *)

Other(c, m) == IF dialed[c].from = m THEN dialed[c].to ELSE dialed[c].from

\* m's task on c is in the given phase.
At(m, c, phase) == c \in DOMAIN dialed /\ task[c][m] = phase

\* The peer's end has been closed or dropped.
PeerLeft(m, c) == task[c][Other(c, m)] \in {"closing", "done"}

Goto(m, c, phase) == task' = [task EXCEPT ![c][m] = phase]

\* m writes a message for the other end of c; nobody reads what is written to
\* an end that is done.
Write(m, c, message) ==
  LET p == Other(c, m) IN
  /\ Len(stream[c][p]) < MaxQueue
  /\ stream' = IF task[c][p] = "done" THEN stream
               ELSE [stream EXCEPT ![c][p] = Append(@, message)]

\* m's end of c is over, and with it what was on the way to it.
Unread(m, c) == stream' = [stream EXCEPT ![c][m] = <<>>]

\* The message m reads next on c.
Incoming(m, c, message) ==
  /\ m \notin deaf[c]
  /\ stream[c][m] # <<>>
  /\ Head(stream[c][m]) = message

Consume(m, c) == stream' = [stream EXCEPT ![c][m] = Tail(@)]

-----------------------------------------------------------------------------
(* do_connect                                                              *)

\* Connect, open the control stream, ask.
Dial(m, p, c) ==
  /\ m \in Dialers /\ m # p
  /\ c \in Session \ DOMAIN dialed
  /\ dialed' = Insert(dialed, c, [from |-> m, to |-> p])
  /\ task' = [task EXCEPT ![c][m] = "waiting", ![c][p] = "request"]
  /\ stream' = [stream EXCEPT ![c][p] = <<"ConnectRequest">>]
  /\ UNCHANGED <<daemon, trusted, saved, pending, deaf, crashes, forgetting>>

\* The reply is Accept: pin the peer, then establish.  A trust store that cannot
\* be written ends the attempt, with the pin already in memory; so does a
\* session with that peer that came into being meanwhile.
DialAccepted(m, c) ==
  /\ At(m, c, "waiting") /\ Incoming(m, c, "Accept")
  /\ LET p == Other(c, m) IN
     /\ trusted' = [trusted EXCEPT ![m] = @ \cup {p}]
     /\ \/ /\ saved' = [saved EXCEPT ![m] = trusted'[m]]
           /\ CanEstablish(daemon[m], c, p)
           /\ \E front \in Fronts(LinkUp(daemon[m], c, p, "Controller").links) :
                daemon' = [daemon EXCEPT ![m] =
                             RebuildLayout(LinkUp(@, c, p, "Controller"), m, front)]
           /\ Goto(m, c, "running")
           /\ Consume(m, c)
        \/ /\ \/ saved' = [saved EXCEPT ![m] = trusted'[m]] /\ ~ CanEstablish(daemon[m], c, p)
              \/ UNCHANGED saved
           /\ Goto(m, c, "done")
           /\ Unread(m, c)
           /\ UNCHANGED daemon
  /\ UNCHANGED <<pending, dialed, deaf, crashes, forgetting>>

\* A Reject, the peer gone without an answer, or ACCEPT_TIMEOUT.
DialRefused(m, c) ==
  /\ At(m, c, "waiting")
  /\ Goto(m, c, "done")
  /\ Unread(m, c)
  /\ UNCHANGED <<daemon, trusted, saved, pending, dialed, deaf, crashes, forgetting>>

-----------------------------------------------------------------------------
(* handle_incoming                                                         *)

RequestArrives(m, c) ==
  /\ At(m, c, "request") /\ Incoming(m, c, "ConnectRequest")
  /\ Consume(m, c)
  /\ \/ /\ Other(c, m) \in trusted[m]
        /\ Goto(m, c, "approved")
        /\ UNCHANGED pending
     \/ /\ Other(c, m) \notin trusted[m]
        /\ Goto(m, c, "pending")
        /\ pending' = [pending EXCEPT ![m] = Append(@, c)]
  /\ UNCHANGED <<daemon, trusted, saved, dialed, deaf, crashes, forgetting>>

\* REQUEST_TIMEOUT, or the dialer left first.
RequestMissing(m, c) ==
  /\ At(m, c, "request")
  /\ m \in deaf[c] \/ PeerLeft(m, c)
  /\ Goto(m, c, "done")
  /\ Unread(m, c)
  /\ UNCHANGED <<daemon, trusted, saved, pending, dialed, deaf, crashes, forgetting>>

\* ACCEPT_TIMEOUT passes; the request is still listed until the task wakes.
DecisionTimeout(m, c) ==
  /\ At(m, c, "pending")
  /\ Goto(m, c, "lapsed")
  /\ UNCHANGED <<daemon, trusted, saved, pending, dialed, stream, deaf, crashes, forgetting>>

\* The phases after every listed request of c's peer is struck from the list: a
\* task still waiting finds its decision channel closed, which refuses it.
Unlisted(m, c, phase) ==
  [x \in Session |->
     IF x = c THEN [task[x] EXCEPT ![m] = phase]
     ELSE IF /\ x \in DOMAIN dialed
             /\ task[x][m] = "pending"
             /\ dialed[x].from = dialed[c].from
     THEN [task[x] EXCEPT ![m] = "lapsed"]
     ELSE task[x]]

\* Mutant: the request of a task that is done stays listed.
NothingRemoved(m, c) == pending

SamePeerRemoved(m, c) ==
  [pending EXCEPT ![m] =
     Retain(@, {i \in DOMAIN @ : dialed[@[i]].from # dialed[c].from})]

\* The task wakes up with the person's yes: pin the peer (a failure to persist
\* is only logged) and go on to establish.
WakeApproved(m, c) ==
  /\ At(m, c, "yes")
  /\ pending' = SamePeerRemoved(m, c)
  /\ task' = Unlisted(m, c, "approved")
  /\ trusted' = [trusted EXCEPT ![m] = @ \cup {Other(c, m)}]
  /\ saved' = [saved EXCEPT ![m] = trusted'[m]] \/ UNCHANGED saved
  /\ UNCHANGED <<daemon, dialed, stream, deaf, crashes, forgetting>>

\* It wakes up with a no, a timeout or a closed channel: Reject, close.
WakeRefused(m, c) ==
  /\ At(m, c, "no") \/ At(m, c, "lapsed")
  /\ pending' = SamePeerRemoved(m, c)
  /\ task' = Unlisted(m, c, "done")
  /\ Write(m, c, "Declined")
  /\ UNCHANGED <<daemon, trusted, saved, dialed, deaf, crashes, forgetting>>

EstablishTarget(m, c) ==
  /\ At(m, c, "approved")
  /\ LET p == Other(c, m) IN
     \/ /\ CanEstablish(daemon[m], c, p)
        /\ \E front \in Fronts(LinkUp(daemon[m], c, p, "Target").links) :
             daemon' = [daemon EXCEPT ![m] =
                          RebuildLayout(LinkUp(@, c, p, "Target"), m, front)]
        /\ Goto(m, c, "accepting")
        /\ UNCHANGED stream
     \/ /\ ~ CanEstablish(daemon[m], c, p)
        /\ Write(m, c, "Busy")
        /\ Goto(m, c, "done")
        /\ UNCHANGED daemon
  /\ UNCHANGED <<trusted, saved, pending, dialed, deaf, crashes, forgetting>>

SendAccept(m, c) ==
  /\ At(m, c, "accepting")
  /\ Write(m, c, "Accept")
  /\ Goto(m, c, "running")
  /\ UNCHANGED <<daemon, trusted, saved, pending, dialed, deaf, crashes, forgetting>>

\* The dialer has left, so the Accept cannot be written.
AcceptFails(m, c) ==
  /\ At(m, c, "accepting") /\ PeerLeft(m, c)
  /\ \E front \in Fronts(LinkDown(daemon[m], m, Other(c, m)).links) :
       daemon' = [daemon EXCEPT ![m] = CleanupPeer(@, m, Other(c, m), front)]
  /\ Goto(m, c, "done")
  /\ Unread(m, c)
  /\ UNCHANGED <<trusted, saved, pending, dialed, deaf, crashes, forgetting>>

-----------------------------------------------------------------------------
(* run_peer                                                                *)

\* Mutant: a Disconnect command is taken from the queue and nothing else.
SendCommandForgetting(m, c) ==
  /\ At(m, c, "running")
  /\ LET p == Other(c, m)
         queue == daemon[m].links[p].commands IN
     /\ queue # <<>>
     /\ daemon' = [daemon EXCEPT ![m] = DropCommand(@, p)]
     /\ IF Head(queue) = "Disconnect" THEN UNCHANGED stream
        ELSE Write(m, c, IF Head(queue) = "Warp" THEN "CursorWarp" ELSE Head(queue))
  /\ UNCHANGED <<trusted, saved, pending, dialed, task, deaf, crashes, forgetting>>

\* The next command goes out on the control stream; Disconnect also ends the
\* loop.  (The clipboard and the input datagrams travel elsewhere.)  The code
\* writes everything queued before it reads again; here it may read in between.
SendCommand(m, c) ==
  /\ At(m, c, "running")
  /\ LET p == Other(c, m)
         queue == daemon[m].links[p].commands IN
     /\ queue # <<>>
     /\ daemon' = [daemon EXCEPT ![m] = DropCommand(@, p)]
     /\ Write(m, c, IF Head(queue) = "Warp" THEN "CursorWarp" ELSE Head(queue))
     /\ task' = IF Head(queue) = "Disconnect"
                THEN [task EXCEPT ![c][m] = "closing"] ELSE task
  /\ UNCHANGED <<trusted, saved, pending, dialed, deaf, crashes, forgetting>>

RecvWarp(m, c) ==
  /\ At(m, c, "running") /\ Incoming(m, c, "CursorWarp")
  /\ Consume(m, c)
  /\ daemon' = [daemon EXCEPT ![m] = YieldControlToPeer(@, m)]
  /\ UNCHANGED <<trusted, saved, pending, dialed, task, deaf, crashes, forgetting>>

RecvReturned(m, c) ==
  /\ At(m, c, "running") /\ Incoming(m, c, "CursorReturned")
  /\ Consume(m, c)
  /\ daemon' = [daemon EXCEPT ![m] = FollowPeerCursor(@, m, Other(c, m))]
  /\ UNCHANGED <<trusted, saved, pending, dialed, task, deaf, crashes, forgetting>>

RecvDisconnect(m, c) ==
  /\ At(m, c, "running") /\ Incoming(m, c, "Disconnect")
  /\ Consume(m, c)
  /\ Goto(m, c, "closing")
  /\ UNCHANGED <<daemon, trusted, saved, pending, dialed, deaf, crashes, forgetting>>

\* The other end closed or dropped the connection: a read ends or a write fails,
\* with whatever was still on the way lost.
SeePeerGone(m, c) ==
  /\ At(m, c, "running") /\ PeerLeft(m, c) /\ m \notin deaf[c]
  /\ Goto(m, c, "closing")
  /\ UNCHANGED <<daemon, trusted, saved, pending, dialed, stream, deaf, crashes, forgetting>>

\* Mutant: no liveness deadline.
NeverTimeout(m, c) == FALSE /\ UNCHANGED vars

\* HEARTBEAT_TIMEOUT without a word from the peer: the network is gone, or the
\* peer never got to run its end and sends no heartbeats.
HeartbeatTimeout(m, c) ==
  /\ At(m, c, "running")
  /\ \/ m \in deaf[c]
     \/ At(Other(c, m), c, "waiting") /\ Other(c, m) \in deaf[c]
  /\ Goto(m, c, "closing")
  /\ UNCHANGED <<daemon, trusted, saved, pending, dialed, stream, deaf, crashes, forgetting>>

\* After the loop: close the connection, clean up.
Cleanup(m, c) ==
  /\ At(m, c, "closing")
  /\ \E front \in Fronts(LinkDown(daemon[m], m, Other(c, m)).links) :
       daemon' = [daemon EXCEPT ![m] = CleanupPeer(@, m, Other(c, m), front)]
  /\ Goto(m, c, "done")
  /\ Unread(m, c)
  /\ UNCHANGED <<trusted, saved, pending, dialed, deaf, crashes, forgetting>>

-----------------------------------------------------------------------------
(* The people: the mouse and the IPC requests                              *)

\* No session is half-open and no hand-over is queued or on its way.
Settled ==
  \A c \in DOMAIN dialed : \A m \in {dialed[c].from, dialed[c].to} :
    /\ task[c][m] \notin {"accepting", "closing"}
    /\ task[c][m] = "running" =>
         /\ task[c][Other(c, m)] = "running"
         /\ stream[c][m] = <<>>
         /\ daemon[m].links[Other(c, m)].commands = <<>>

\* route_captured with a movement: within the screen it stays where it is.
Motion(m, dir, known) ==
  /\ m \in Movers
  /\ OneUser => Settled
  /\ \A p \in DOMAIN daemon[m].links : Len(daemon[m].links[p].commands) < MaxQueue
  /\ daemon' = [daemon EXCEPT ![m] = RouteMotion(@, m, dir, known)]
  /\ UNCHANGED <<trusted, saved, pending, dialed, task, stream, deaf, crashes, forgetting>>

\* `omni accept' and `omni reject' answer the first request listed for the peer;
\* a request that has timed out in the meantime is struck without effect.
DecidePending(m, p, decision) ==
  /\ LET listed == {i \in DOMAIN pending[m] : dialed[pending[m][i]].from = p} IN
     \E first \in listed :
       /\ \A i \in listed : first <= i
       /\ pending' = [pending EXCEPT ![m] = Retain(@, DOMAIN @ \ {first})]
       /\ LET c == pending[m][first] IN
          task' = IF task[c][m] = "pending" THEN [task EXCEPT ![c][m] = decision] ELSE task
  /\ UNCHANGED <<daemon, trusted, saved, dialed, stream, deaf, crashes, forgetting>>

CanCommand(m, p) ==
  /\ p \in DOMAIN daemon[m].links
  /\ Len(daemon[m].links[p].commands) < MaxQueue

Disconnect(m, p) ==
  /\ m \in Hangups
  /\ CanCommand(m, p)
  /\ daemon' = [daemon EXCEPT ![m] = Send(@, {p}, "Disconnect")]
  /\ UNCHANGED <<trusted, saved, pending, dialed, task, stream, deaf, crashes, forgetting>>

\* `omni peers remove', first half: under the lock, end the session if there is
\* one.
RemovePeer(m, p) ==
  /\ m \in Forgetters /\ m # p
  /\ p \notin forgetting[m]
  /\ p \in DOMAIN daemon[m].links => CanCommand(m, p)
  /\ daemon' = [daemon EXCEPT ![m] = Send(@, {p}, "Disconnect")]
  /\ forgetting' = [forgetting EXCEPT ![m] = @ \cup {p}]
  /\ UNCHANGED <<trusted, saved, pending, dialed, task, stream, deaf, crashes>>

\* Second half, without the lock: drop the pin, which may fail to reach the file.
ForgetPeer(m, p) ==
  /\ p \in forgetting[m]
  /\ trusted' = [trusted EXCEPT ![m] = @ \ {p}]
  /\ \/ p \in trusted[m] /\ saved' = [saved EXCEPT ![m] = trusted'[m]]
     \/ UNCHANGED saved
  /\ forgetting' = [forgetting EXCEPT ![m] = @ \ {p}]
  /\ UNCHANGED <<daemon, pending, dialed, task, stream, deaf, crashes>>

PlacePeer(m, p, edge) ==
  /\ m # p
  /\ \E front \in Fronts(Placed(daemon[m], p, edge).links) :
       daemon' = [daemon EXCEPT ![m] = SetLayout(@, m, p, edge, front)]
  /\ UNCHANGED <<trusted, saved, pending, dialed, task, stream, deaf, crashes, forgetting>>

-----------------------------------------------------------------------------
(* The environment                                                         *)

\* From now on nothing reaches m on this connection.
GoDeaf(m, c) ==
  /\ m \in Lossy
  /\ c \in DOMAIN dialed /\ m \in {dialed[c].from, dialed[c].to} \ deaf[c]
  /\ task[c][m] # "done"
  /\ deaf' = [deaf EXCEPT ![c] = @ \cup {m}]
  /\ UNCHANGED <<daemon, trusted, saved, pending, dialed, task, stream, crashes, forgetting>>

\* m's process ends and a new daemon starts from what is on disk.  (Placements
\* that did not reach the config file are the business of Settings.)
Restart(m) ==
  /\ crashes < MaxCrash
  /\ crashes' = crashes + 1
  /\ daemon' = [daemon EXCEPT ![m] = NewDaemon(m, daemon[m].placements)]
  /\ pending' = [pending EXCEPT ![m] = <<>>]
  /\ LET mine == {c \in DOMAIN dialed : task[c][m] \notin {"idle", "done"}} IN
     /\ task' = [c \in Session |-> IF c \in mine THEN [task[c] EXCEPT ![m] = "done"] ELSE task[c]]
     /\ stream' = [c \in Session |-> IF c \in mine THEN [stream[c] EXCEPT ![m] = <<>>] ELSE stream[c]]
  /\ forgetting' = [forgetting EXCEPT ![m] = {}]
  /\ trusted' = [trusted EXCEPT ![m] = saved[m]]
  /\ UNCHANGED <<saved, dialed>>

\* It dies: its peers get no goodbye, all they notice is the silence.
Crash(m) ==
  /\ Restart(m)
  /\ deaf' = [c \in Session |->
                IF c \in DOMAIN dialed /\ task[c][m] \notin {"idle", "done"}
                THEN deaf[c] \cup {Other(c, m)} ELSE deaf[c]]

\* `omni stop', a signal: the tasks are told to disconnect, but the endpoint is
\* closed right after, so the peers may only see that.
Stop(m) ==
  /\ m \in Hangups
  /\ Restart(m)
  /\ UNCHANGED deaf

-----------------------------------------------------------------------------
\* What a task does by itself.
TaskStep(m, c) ==
  \/ DialAccepted(m, c)
  \/ RequestArrives(m, c)
  \/ WakeApproved(m, c)    \/ WakeRefused(m, c)
  \/ EstablishTarget(m, c) \/ SendAccept(m, c)  \/ AcceptFails(m, c)
  \/ SendCommand(m, c)
  \/ RecvWarp(m, c)        \/ RecvReturned(m, c) \/ RecvDisconnect(m, c)
  \/ Cleanup(m, c)

\* What a timer or a lost connection makes it do.
GiveUp(m, c) ==
  \/ DialRefused(m, c)
  \/ RequestMissing(m, c)
  \/ DecisionTimeout(m, c)
  \/ SeePeerGone(m, c)
  \/ HeartbeatTimeout(m, c)

UserStep(m) ==
  \/ \E dir \in Edge \cup {"inside"}, known \in BOOLEAN : Motion(m, dir, known)
  \/ \E p \in Machine : \/ \E c \in Session : Dial(m, p, c)
                        \/ \E decision \in {"yes", "no"} : DecidePending(m, p, decision)
                        \/ Disconnect(m, p)
                        \/ RemovePeer(m, p) \/ ForgetPeer(m, p)
                        \/ \E edge \in Placeable : PlacePeer(m, p, edge)

Next ==
  \E m \in Machine :
    \/ UserStep(m)
    \/ Crash(m) \/ Stop(m)
    \/ \E c \in Session : TaskStep(m, c) \/ GiveUp(m, c) \/ GoDeaf(m, c)

Spec == Init /\ [][Next]_vars

\* The runtime polls every task that can go on and every timer that has expired,
\* and a select! loop takes its ready branches in random order; no person has to
\* do anything, and the network may stay silent.
Fairness == \A m \in Machine, c \in Session :
              WF_vars(TaskStep(m, c)) /\ WF_vars(GiveUp(m, c))

FairSpec == Spec /\ Fairness

-----------------------------------------------------------------------------
(* Properties                                                              *)

TypeOK ==
  /\ daemon = [m \in Machine |-> daemon[m]]
  /\ \A m \in Machine : IsDaemon(daemon[m])
  /\ trusted \in [Machine -> SUBSET Machine]
  /\ saved \in [Machine -> SUBSET Machine]
  /\ pending \in [Machine -> Seq(Session)]
  /\ IsMap(dialed, Session, [from : Machine, to : Machine])
  /\ task \in [Session -> [Machine -> Phase]]
  /\ stream \in [Session -> [Machine -> Seq(Message)]]
  /\ deaf \in [Session -> SUBSET Machine]
  /\ crashes \in 0..MaxCrash
  /\ forgetting \in [Machine -> SUBSET Machine]

\* In every daemon, whenever its lock is free: the links, the session table and
\* its index agree.  establish, the send failure path and every way out of
\* run_peer keep them so.
SessionsAgree == \A m \in Machine : LinksMatchSessions(daemon[m])

\* In every daemon: the cursor is tracked where input goes, there is a session
\* with that machine, and the suppression flag says so; losing a session, being
\* taken over or following a peer never leaves the keyboard withheld for nobody.
InputNeverStranded == \A m \in Machine : CursorFollowsInput(daemon[m], m)

\* In every daemon: the desktop holds exactly the linked machines and a cursor
\* on any of them has a way home, even with two peers placed past one edge.
DesktopAgrees == \A m \in Machine : DesktopMatchesLinks(daemon[m], m)

Holds(m, c) ==
  c \in DOMAIN dialed /\ task[c][m] \in {"accepting", "running", "closing"}

\* Each link belongs to one live task and each task past establish() still has
\* its own link: cleanup_peer, which goes by machine and not by session, can
\* never take away the link of a newer session, and the closed-channel arm of
\* run_peer is never reached.
TasksOwnLinks ==
  \A m \in Machine :
    /\ \A c \in Session : Holds(m, c) =>
         /\ Other(c, m) \in DOMAIN daemon[m].links
         /\ daemon[m].links[Other(c, m)].session = c
    /\ \A p \in DOMAIN daemon[m].links :
         LET c == daemon[m].links[p].session IN Holds(m, c) /\ Other(c, m) = p

\* A request listed for `omni accept' has a task waiting for the answer, or one
\* whose wait has just ended; none is listed twice.
PendingHasWaiter ==
  \A m \in Machine :
    /\ \A i \in DOMAIN pending[m] : task[pending[m][i]][m] \in {"pending", "lapsed"}
    /\ \A i, j \in DOMAIN pending[m] : pending[m][i] = pending[m][j] => i = j
    /\ \A c \in Session : task[c][m] = "pending" => \E i \in DOMAIN pending[m] : pending[m][i] = c

\* Once every hand-over has arrived, input that leaves a machine goes to a
\* machine whose own input stays at home: never to each other, never through a
\* third one.
InputFollowsCursor ==
  Settled => \A m \in Machine :
    daemon[m].active # m => daemon[daemon[m].active].active = daemon[m].active

\* A session one end has lost does not last at the other: the link, and with it
\* the suppression of local input, goes away.
HalfOpenEnds ==
  \A c \in Session, m \in Machine :
    (Holds(m, c) /\ task[c][Other(c, m)] = "done") ~> ~ Holds(m, c)

\* `omni disconnect' and `omni peers remove' end the session they were for, no
\* matter what is queued before them and whether the peer still listens.
DisconnectEnds ==
  \A m, p \in Machine, c \in Session :
    (/\ p \in DOMAIN daemon[m].links
     /\ daemon[m].links[p].session = c
     /\ \E i \in DOMAIN daemon[m].links[p].commands :
          daemon[m].links[p].commands[i] = "Disconnect")
    ~> ~ Holds(m, c)

-----------------------------------------------------------------------------
(* The daemons implement InputOwner                                        *)

Owner == INSTANCE InputOwner WITH
  target   <- [m \in Machine |-> daemon[m].active],
  linked   <- [m \in Machine |-> DOMAIN daemon[m].links],
  withheld <- [m \in Machine |-> daemon[m].suppress]

\* Every step of every daemon moves input the way InputOwner says, or not at all:
\* links that come and go, hand-overs and restarts never redirect it in passing,
\* and what is withheld changes in the same step as where input goes
\* (establish, cleanup_peer, handle_crossing, yield_control, follow_peer).
ImplementsInputOwner == Owner!Spec
=============================================================================
