------------------------------- MODULE Window --------------------------------
(***************************************************************************)
(* The desktop application around the daemon: the Supervisor of the daemon *)
(* embedded in it, its subscription, the tray menu and the notifications,  *)
(* and the store behind the window, against the other ways of starting and *)
(* stopping a daemon on the same machine (`omni start', `omni stop').      *)
(*                                                                         *)
(* A daemon is known by the thread or process it runs in.  All of them     *)
(* want the same UDP port and the same IPC endpoint:                       *)
(*                                                                         *)
(*   none -> loading -> bound -> serving -> closing             *)
(*        -> returned -> cleared -> none                                   *)
(*                                                                         *)
(* Its state is the set of peers whose requests wait for an answer.  What  *)
(* is optional is a set with at most one element.                          *)
(***************************************************************************)
EXTENDS Naturals, Sequences, FiniteSets

CONSTANTS
  Peer,       \* the machines that ask for control
  Call,       \* commands of the window that may be under way at the same time
  MaxEvents,  \* bound: clicks, `omni start' and `omni stop', requests and other
              \* changes, daemons that cannot start, all together
  MaxInbox    \* bound: events on their way to the window

ASSUME MaxInboxAssumption == MaxInbox \in Nat \ {0}

Thread == {"first", "second"}      \* of this process
Runner == Thread \cup {"cli"}      \* and the process of `omni start'

VARIABLES
  phase,     \* of each daemon
  newer,     \* whether the one of `omni start' speaks a newer protocol
  waiting,   \* the requests the serving daemon lists
  kept,      \* whether a thread that has outlived run() keeps the port in this process
  app,       \* "running", "exited" (told to) or "gone"
  slot,      \* Supervisor.thread: the handle kept, or none
  running,   \* Supervisor.running
  op,        \* the Supervisor.stop that holds the lock
  sub,       \* the subscription: the daemon, the line being read, a push due
  announced, \* the requests the user has been told about
  tray,      \* those in the tray menu
  inbox,     \* events on their way to the window
  store,     \* the window's view of the daemon
  call,      \* the window's commands
  events,    \* how many of them there were
  repeated,  \* history: the peers announced although they had not asked again
  untold,    \* history: the peers not announced since they last asked
  merged,    \* history: the peers whose request followed an answered one unseen
  lost,      \* history: a handle was dropped while its thread was running
  overtaken  \* history: the store holds an answer older than a push before it

daemons == <<phase, newer, waiting, kept>>
supervisor == <<slot, running, op, lost>>
notices == <<announced, tray>>
news == <<repeated, untold, merged>>
window == <<store, call, overtaken>>
vars == <<daemons, app, supervisor, sub, notices, inbox, window, events, news>>

Phase == {"none", "loading", "bound", "serving", "closing", "returned", "cleared"}

NoOp == [at |-> "idle", handle |-> {}, by |-> "nobody"]
NoSub == [to |-> {}, line |-> {}, due |-> TRUE]
Blank == [connection |-> "connecting", status |-> {}]
Free == [at |-> "free", status |-> {}, late |-> FALSE]

\* setup starts the daemon and the subscription, the window loads its first view.
Init ==
  /\ phase = [r \in Runner |-> IF r = "first" THEN "loading" ELSE "none"]
  /\ newer = FALSE /\ waiting = {} /\ kept = FALSE /\ app = "running"
  /\ slot = {"first"} /\ running = TRUE /\ op = NoOp
  /\ sub = NoSub /\ announced = {} /\ tray = {} /\ inbox = <<>>
  /\ store = Blank
  /\ call \in {[c \in Call |-> IF c = d THEN [Free EXCEPT !.at = "hello"] ELSE Free] : d \in Call}
  /\ events = 0
  /\ repeated = {} /\ untold = {} /\ merged = {} /\ lost = FALSE /\ overtaken = FALSE

\* One more of the events that are bounded.
Event == events < MaxEvents /\ events' = events + 1

-----------------------------------------------------------------------------
(* The daemons                                                             *)

\* A daemon in run() holds the port, and so may what outlives it.
HoldsPort(r) == phase[r] \in {"bound", "serving", "closing"}
PortTaken(r) == kept \/ \E q \in Runner \ {r} : HoldsPort(q)
Serving(r) == phase[r] = "serving"
Served == \E r \in Runner : Serving(r)

Goes(r, to) == phase' = [phase EXCEPT ![r] = to]

\* run() returns: a thread goes on to tell, a process is gone.
Returns(r) == Goes(r, IF r \in Thread THEN "returned" ELSE "none")

\* With the port bound.  The capture thread has its share of the endpoint, never
\* looks at the shutdown and ends with the process, unless reading its devices has
\* failed; and a clipboard read may outlast the graces.  A process takes them along.
ReturnsBound(r) == Returns(r) /\ kept' \in IF r \in Thread THEN BOOLEAN ELSE {kept}

\* Mutant: the port can be shared.
BindPortShared(r) ==
  /\ phase[r] = "loading"
  /\ Goes(r, "bound")
  /\ UNCHANGED <<newer, waiting, kept, app, supervisor, sub, notices, inbox, window, events, news>>

\* The endpoint binds the port before anything else is set up, or fails for good.
BindPort(r) ==
  /\ phase[r] = "loading"
  /\ IF PortTaken(r) THEN Returns(r) ELSE Goes(r, "bound")
  /\ UNCHANGED <<newer, waiting, kept, app, supervisor, sub, notices, inbox, window, events, news>>

\* The config, the identity or the IPC endpoint cannot be had.
StartFails(r) ==
  /\ \/ phase[r] = "loading" /\ Returns(r) /\ UNCHANGED kept
     \/ phase[r] = "bound" /\ ReturnsBound(r)
  /\ Event
  /\ UNCHANGED <<newer, waiting, app, supervisor, sub, notices, inbox, window, news>>

BindIpc(r) ==
  /\ phase[r] = "bound"
  /\ Goes(r, "serving") /\ waiting' = {}
  /\ UNCHANGED <<newer, kept, app, supervisor, sub, notices, inbox, window, events, news>>

\* Stop is answered; the subscriptions and the accept loop end,
ShutDown(r) ==
  /\ Serving(r)
  /\ Goes(r, "closing") /\ waiting' = {}
  /\ sub' = IF r \in sub.to THEN [sub EXCEPT !.to = {"ended"}] ELSE sub

\* and when the graces are over run() returns; the port is free if nothing keeps it.
Unwind(r) ==
  /\ phase[r] = "closing"
  /\ ReturnsBound(r) /\ newer' = (newer /\ r # "cli")
  /\ UNCHANGED <<waiting, app, supervisor, sub, notices, inbox, window, events, news>>

\* Capture fails, or the clipboard read returns: nothing keeps the port any more.
KeeperEnds ==
  /\ kept /\ kept' = FALSE /\ Event
  /\ UNCHANGED <<phase, newer, waiting, app, supervisor, sub, notices, inbox, window, news>>

\* The observable state changes: a snapshot is due (notify_change).
Changes(requests) ==
  /\ waiting' = requests
  /\ sub' = [sub EXCEPT !.due = TRUE]

\* In something other than the requests.
Change ==
  /\ Served
  /\ Changes(waiting) /\ Event
  /\ UNCHANGED <<phase, newer, kept, app, supervisor, notices, inbox, window, news>>

\* A peer asks: its request is listed until it is answered or given up.  It is
\* merged with its last one if the window has not seen the list without it.
Ask(p) ==
  /\ Served
  /\ p \notin waiting
  /\ Changes(waiting \cup {p})
  /\ untold' = untold \cup {p}
  /\ LET last == IF sub.line = {} THEN announced ELSE UNION sub.line IN
     merged' = IF p \in last THEN merged \cup {p} ELSE merged \ {p}
  /\ Event
  /\ UNCHANGED <<phase, newer, kept, app, supervisor, notices, inbox, window, repeated>>

\* It is given up, or answered with `omni accept' or `omni reject'.
Settle(p) ==
  /\ Served /\ p \in waiting
  /\ Changes(waiting \ {p}) /\ merged' = merged \ {p}
  /\ UNCHANGED <<phase, newer, kept, app, supervisor, notices, inbox, window, events, repeated, untold>>

\* `omni start', unless a daemon answers; of this version or a newer one.
CliStart ==
  /\ ~ Served /\ phase["cli"] = "none"
  /\ Goes("cli", "loading") /\ newer' \in BOOLEAN
  /\ Event
  /\ UNCHANGED <<waiting, kept, app, supervisor, sub, notices, inbox, window, news>>

\* `omni stop', to whichever daemon answers.
CliStop ==
  /\ \E r \in Runner : ShutDown(r)
  /\ Event
  /\ UNCHANGED <<newer, kept, app, supervisor, notices, inbox, window, news>>

-----------------------------------------------------------------------------
(* Supervisor                                                              *)

Alive(t) == phase[t] # "none"

\* Mutant: the flag is left set.
ThreadClearsNothing(t) ==
  /\ phase[t] = "returned"
  /\ Goes(t, "cleared")
  /\ UNCHANGED <<newer, waiting, kept, app, slot, running, op, lost, sub, notices, inbox, window, events, news>>

\* The thread after run(): the flag,
ThreadClears(t) ==
  /\ phase[t] = "returned"
  /\ running' = FALSE
  /\ Goes(t, "cleared")
  /\ UNCHANGED <<newer, waiting, kept, app, slot, op, lost, sub, notices, inbox, window, events, news>>

\* and the event, its last act.
ThreadTells(t) ==
  /\ phase[t] = "cleared" /\ Len(inbox) < MaxInbox
  /\ inbox' = Append(inbox, [kind |-> "exited", waiting |-> {}])
  /\ Goes(t, "none")
  /\ UNCHANGED <<newer, waiting, kept, app, supervisor, sub, notices, window, events, news>>

\* Supervisor.start with the lock: a handle whose thread has ended is reaped,
\* one that has not means there is a daemon.
SupervisorStart ==
  /\ op.at = "idle"
  /\ IF \E t \in slot : Alive(t) THEN UNCHANGED <<phase, slot, running>>
     ELSE \E t \in Thread :
            /\ ~ Alive(t) /\ (t = "second" => Alive("first"))
            /\ slot' = {t} /\ running' = TRUE /\ Goes(t, "loading")
  /\ UNCHANGED <<op, lost>>

\* Supervisor.stop: the handle is taken out,
TakeHandle(by) ==
  /\ op.at = "idle"
  /\ op' = [at |-> "ask", handle |-> slot, by |-> by]
  /\ slot' = {}
  /\ UNCHANGED <<running, lost>>

\* The outcome goes to the command that asked; Quit ends the process either way,
\* and its threads with it.
StopReturns(ok) ==
  /\ op' = NoOp
  /\ IF op.by = "quit"
     THEN app' = "exited" /\ UNCHANGED call
     ELSE /\ call' = [call EXCEPT ![op.by] = IF ok THEN [@ EXCEPT !.at = "stopped"] ELSE Free]
          /\ UNCHANGED app

\* The daemon asked is whichever answers.  Without a handle that is all.
\* Mutant: with one it is all, too.
AskDaemonOnly ==
  /\ op.at = "ask"
  /\ \/ \E r \in Runner : ShutDown(r)
     \/ ~ Served /\ UNCHANGED <<phase, waiting, sub>>
  /\ StopReturns(TRUE)
  /\ UNCHANGED <<newer, kept, slot, running, lost, notices, inbox, store, overtaken, events, news>>

AskDaemon ==
  /\ op.at = "ask"
  /\ \/ \E r \in Runner : ShutDown(r)
     \/ ~ Served /\ UNCHANGED <<phase, waiting, sub>>
  /\ IF op.handle = {} THEN StopReturns(TRUE)
     ELSE op' = [op EXCEPT !.at = "wait"] /\ UNCHANGED <<app, call>>
  /\ UNCHANGED <<newer, kept, slot, running, lost, notices, inbox, store, overtaken, events, news>>

\* A daemon on its way down closes the connection without an answer: an error,
\* and the handle is gone whether or not its thread is.
AskFails ==
  /\ op.at = "ask" /\ \E r \in Runner : phase[r] = "closing"
  /\ StopReturns(FALSE)
  /\ lost' = (lost \/ \E t \in op.handle : Alive(t))
  /\ UNCHANGED <<phase, newer, waiting, kept, slot, running, sub, notices, inbox, store, overtaken, events, news>>

ThreadGone ==
  /\ op.at = "wait" /\ \A t \in op.handle : ~ Alive(t)
  /\ StopReturns(TRUE)
  /\ UNCHANGED <<daemons, slot, running, lost, sub, notices, inbox, store, overtaken, events, news>>

\* Mutant: the handle of a thread that did not stop in time is not put back.
StopTimeoutDropping ==
  /\ op.at = "wait" /\ \E t \in op.handle : Alive(t)
  /\ StopReturns(FALSE)
  /\ UNCHANGED <<daemons, slot, running, lost, sub, notices, inbox, store, overtaken, events, news>>

\* STOP_TIMEOUT: the thread is still running and the handle is put back.
StopTimeout ==
  /\ op.at = "wait" /\ \E t \in op.handle : Alive(t)
  /\ slot' = op.handle
  /\ StopReturns(FALSE)
  /\ UNCHANGED <<daemons, running, lost, sub, notices, inbox, store, overtaken, events, news>>

\* Quit of the tray menu: stops the daemon if there is one of ours in run().
Quit ==
  /\ app = "running" /\ op.at = "idle"
  /\ IF running THEN TakeHandle("quit") /\ UNCHANGED app
     ELSE app' = "exited" /\ UNCHANGED supervisor
  /\ UNCHANGED <<daemons, sub, notices, inbox, window, events, news>>

\* The process ends, with what is left of its daemons and all that it knew.
ProcessEnds ==
  /\ app = "exited"
  /\ app' = "gone"
  /\ phase' = [r \in Runner |-> IF r \in Thread THEN "none" ELSE phase[r]]
  /\ kept' = FALSE
  /\ slot' = {} /\ running' = FALSE /\ op' = NoOp /\ lost' = FALSE
  /\ sub' = NoSub /\ announced' = {} /\ tray' = {} /\ inbox' = <<>>
  /\ store' = Blank /\ call' = [c \in Call |-> Free] /\ overtaken' = FALSE
  /\ untold' = {} /\ merged' = {}
  /\ UNCHANGED <<newer, waiting, events, repeated>>

-----------------------------------------------------------------------------
(* The subscription, the tray and the notifications                        *)

Emit(kind, snapshot) == inbox' = Append(inbox, [kind |-> kind, waiting |-> snapshot])

\* Mutant: only the first failure in a row is reported.
SubscribeFailsOnce ==
  /\ app = "running" /\ sub.to = {} /\ ~ Served /\ Len(inbox) < MaxInbox
  /\ sub.due /\ sub' = [sub EXCEPT !.due = FALSE]
  /\ Emit("dropped", {})
  /\ UNCHANGED <<daemons, app, supervisor, notices, window, events, news>>

\* subscribe_once cannot connect: the window is told, every second.
SubscribeFails ==
  /\ app = "running" /\ sub.to = {} /\ ~ Served /\ Len(inbox) < MaxInbox
  /\ sub' = NoSub
  /\ Emit("dropped", {})
  /\ UNCHANGED <<daemons, app, supervisor, notices, window, events, news>>

\* Mutant: no snapshot at first, only when something changes.
SubscribeToChanges(r) ==
  /\ app = "running" /\ sub.to = {} /\ Serving(r)
  /\ sub' = [NoSub EXCEPT !.to = {r}, !.due = FALSE]
  /\ UNCHANGED <<daemons, app, supervisor, notices, inbox, window, events, news>>

SubscribeTo(r) ==
  /\ app = "running" /\ sub.to = {} /\ Serving(r)
  /\ sub' = [NoSub EXCEPT !.to = {r}]
  /\ UNCHANGED <<daemons, app, supervisor, notices, inbox, window, events, news>>

\* The daemon pushes its state at first and whenever it has changed.
Push ==
  /\ app = "running" /\ sub.line = {}
  /\ sub.to \notin {{}, {"ended"}} /\ sub.due
  /\ sub' = [sub EXCEPT !.line = {waiting}, !.due = FALSE]
  /\ UNCHANGED <<daemons, app, supervisor, notices, inbox, window, events, news>>

\* Mutant: every waiting request is announced with every snapshot.
FreshAll(snapshot) == snapshot

\* new_requests: those to announce,
Fresh(snapshot) == snapshot \ announced

\* Mutant: what has been announced once stays announced.
RetainedAll(snapshot) == announced

\* and those that remain announced.
Retained(snapshot) == announced \cap snapshot

\* A snapshot: the tray menu, the notifications, the window.
HandleLine ==
  /\ app = "running" /\ sub.line # {} /\ Len(inbox) < MaxInbox
  /\ LET snapshot == UNION sub.line IN
     /\ tray' = snapshot
     /\ repeated' = repeated \cup (Fresh(snapshot) \ untold)
     /\ untold' = untold \ Fresh(snapshot)
     /\ announced' = Retained(snapshot) \cup Fresh(snapshot)
     /\ Emit("status", snapshot)
  /\ sub' = [sub EXCEPT !.line = {}]
  /\ UNCHANGED <<daemons, app, supervisor, window, events, merged>>

\* The stream ends: in order, and nobody is told, or with an error.
StreamEnds ==
  /\ app = "running" /\ sub.line = {} /\ Len(inbox) < MaxInbox
  /\ sub.to = {"ended"}
  /\ sub' = NoSub
  /\ Emit("dropped", {}) \/ UNCHANGED inbox
  /\ UNCHANGED <<daemons, app, supervisor, notices, window, events, news>>

\* Accept or Reject of the tray menu; for a request that is gone nothing happens.
TrayAnswer(p) ==
  /\ app = "running" /\ p \in tray
  /\ Served /\ p \in waiting
  /\ Changes(waiting \ {p}) /\ merged' = merged \ {p}
  /\ UNCHANGED <<phase, newer, kept, app, supervisor, notices, inbox, window, events, repeated, untold>>

-----------------------------------------------------------------------------
(* The store: what the window's code does between two awaits               *)

\* The commands that have asked a daemon and not been answered yet.
Reading == {"ready", "newer", "failed", "stopping", "stopped"}

Calls(c, at) == call' = [call EXCEPT ![c].at = at]

\* An event reaches the window.
StatusEvent ==
  /\ inbox # <<>> /\ Head(inbox).kind = "status"
  /\ store' = [connection |-> "connected", status |-> {Head(inbox).waiting}]
  /\ call' = [c \in Call |-> [call[c] EXCEPT !.late = call[c].at \in Reading]]
  /\ overtaken' = FALSE
  /\ inbox' = Tail(inbox)

DroppedEvent ==
  /\ inbox # <<>> /\ Head(inbox).kind = "dropped"
  /\ store' = [store EXCEPT !.connection =
                 IF @ \in {"connected", "incompatible"} THEN "disconnected" ELSE @]
  /\ inbox' = Tail(inbox)
  /\ UNCHANGED <<call, overtaken>>

\* The end of an embedded daemon: whatever it means, look again.
ExitedEvent ==
  /\ inbox # <<>> /\ Head(inbox).kind = "exited"
  /\ \E c \in Call : /\ call[c].at = "free"
                     /\ Calls(c, "hello")
  /\ inbox' = Tail(inbox)
  /\ UNCHANGED <<store, overtaken>>

Deliver ==
  /\ app = "running"
  /\ StatusEvent \/ DroppedEvent \/ ExitedEvent
  /\ UNCHANGED <<daemons, app, supervisor, sub, notices, events, news>>

\* refresh: the daemon's version,
Hello(c) ==
  /\ call[c].at = "hello"
  /\ call' = [call EXCEPT ![c] =
       [Free EXCEPT !.at = IF ~ Served THEN "failed"
                           ELSE IF Serving("cli") /\ newer THEN "newer" ELSE "read"]]

\* then its state,
ReadStatus(c) ==
  /\ call[c].at = "read"
  /\ call' = [call EXCEPT ![c] =
       IF Served THEN [at |-> "ready", status |-> {waiting}, late |-> FALSE]
       ELSE [Free EXCEPT !.at = "failed"]]

\* and the answer, whatever has been pushed in the meantime.
Answered(c) ==
  /\ call[c].at \in {"ready", "newer", "failed", "stopped"}
  /\ store' = CASE call[c].at = "ready" -> [connection |-> "connected", status |-> call[c].status]
                [] call[c].at = "newer" -> [store EXCEPT !.connection = "incompatible"]
                [] OTHER                -> [connection |-> "disconnected", status |-> {}]
  /\ overtaken' = (overtaken \/ call[c].late)
  /\ call' = [call EXCEPT ![c] = Free]

CallStep(c) ==
  /\ app = "running"
  /\ \/ /\ Hello(c) \/ ReadStatus(c)
        /\ UNCHANGED <<phase, slot, running, op, lost, store, overtaken>>
     \/ /\ Answered(c)
        /\ UNCHANGED <<phase, slot, running, op, lost>>
     \/ /\ call[c].at = "start" /\ SupervisorStart /\ Calls(c, "hello")
        /\ UNCHANGED <<store, overtaken>>
     \/ /\ call[c].at = "stop" /\ TakeHandle(c) /\ Calls(c, "stopping")
        /\ UNCHANGED <<phase, store, overtaken>>
  /\ UNCHANGED <<newer, waiting, kept, app, sub, notices, inbox, events, news>>

\* startDaemon and stopDaemon.
Click(c) ==
  /\ app = "running" /\ call[c].at = "free"
  /\ \/ Calls(c, "start") /\ store' = [store EXCEPT !.connection = "connecting"]
     \/ Calls(c, "stop") /\ UNCHANGED store
  /\ Event
  /\ UNCHANGED <<daemons, app, supervisor, sub, notices, inbox, overtaken, news>>

-----------------------------------------------------------------------------
DaemonStep(r) == BindPort(r) \/ BindIpc(r) \/ Unwind(r)
ThreadStep(t) == app = "running" /\ (ThreadClears(t) \/ ThreadTells(t))
StopStep == app = "running" /\ (AskDaemon \/ AskFails \/ ThreadGone \/ StopTimeout)
SubStep == SubscribeFails \/ (\E r \in Runner : SubscribeTo(r)) \/ Push \/ HandleLine \/ StreamEnds

Next ==
  \/ \E r \in Runner : DaemonStep(r) \/ StartFails(r)
  \/ \E t \in Thread : ThreadStep(t)
  \/ StopStep \/ Quit \/ ProcessEnds
  \/ SubStep \/ Deliver
  \/ \E c \in Call : CallStep(c) \/ Click(c)
  \/ \E p \in Peer : Ask(p) \/ Settle(p) \/ TrayAnswer(p)
  \/ Change \/ CliStart \/ CliStop \/ KeeperEnds

\* A daemon, a thread, a timer, the subscription's loop and the window's code go
\* on when they can; nobody has to click, ask or answer.
Fairness ==
  /\ WF_vars(\E r \in Runner : DaemonStep(r)) /\ WF_vars(\E t \in Thread : ThreadStep(t))
  /\ WF_vars(\E c \in Call : CallStep(c)) /\ WF_vars(StopStep)
  /\ WF_vars(SubStep) /\ WF_vars(Deliver)

Spec == Init /\ [][Next]_vars /\ Fairness

-----------------------------------------------------------------------------
(* Properties                                                              *)

Option(S) == {{}} \cup {{x} : x \in S}

TypeOK ==
  /\ phase \in [Runner -> Phase] /\ newer \in BOOLEAN /\ waiting \subseteq Peer
  /\ kept \in BOOLEAN /\ \A r, q \in Runner : HoldsPort(r) /\ HoldsPort(q) => r = q /\ ~ kept
  /\ app \in {"running", "exited", "gone"} /\ slot \in Option(Thread) /\ running \in BOOLEAN
  /\ op.at \in {"idle", "ask", "wait"} /\ op.handle \in Option(Thread)
  /\ sub.to \in Option(Runner \cup {"ended"}) /\ sub.line \in Option(SUBSET Peer)
  /\ announced \subseteq Peer /\ tray \subseteq Peer
  /\ Len(inbox) <= MaxInbox
  /\ store.connection \in {"connecting", "connected", "disconnected", "incompatible"}
  /\ store.status \in Option(SUBSET Peer)

\* However Start, Stop and Quit follow each other, there is one daemon thread at
\* most and the handle kept is its handle, unless a Stop could not be delivered
\* and dropped it (Supervisor::start, Supervisor::stop).
OneThread ==
  app = "running" /\ ~ lost =>
    \A t \in Thread : Alive(t) => t \in slot \cup op.handle

\* A Stop that asked a daemon to stop, or found none.
StopSucceeds == op.at # "idle" /\ \E c \in Call : call[c].at = "stopping" /\ call'[c].at = "stopped"

\* A Stop that succeeds returns only when no daemon thread of ours is left, neither
\* serving nor on its way up or down, so that a Start that follows starts one
\* (Supervisor::stop waits for the thread).
StopMeansGone == [][StopSucceeds => lost \/ \A t \in Thread : phase'[t] = "none"]_vars

\* And when the thread it stopped is gone the port is free, as the comment on
\* Supervisor::stop has it (`run' returns only after the daemon has released its
\* UDP socket).  It need not be, see MCPortKept.cfg.
StopFreesPort == [][op.at = "wait" /\ StopSucceeds => ~ kept']_vars

\* What Quit goes by is true: the flag is set exactly while a daemon of ours is
\* inside run(), unwinding included (Supervisor::is_embedded).
EmbeddedIsTrue ==
  app = "running" /\ ~ lost =>
    (running <=> \E t \in Thread : phase[t] \notin {"none", "cleared"})

\* No request is announced twice, across other changes, reconnections and other
\* daemons (new_requests).
NeverTwice == repeated = {}

\* Once the subscription has caught up, the user has been notified of every
\* waiting request since it arrived, unless it followed one from the same peer
\* that the window did not see go away (announce_new_requests).
AskIsAnnounced ==
  app = "running" /\ sub.to \notin {{}, {"ended"}} /\ sub.line = {} /\ ~ sub.due =>
    \A p \in waiting : p \in untold => p \in merged

\* When no daemon is left, the window says so, even if an answer of the last one
\* arrived after the news (spawn_subscription reports every failure).
DropIsNoticed ==
  <>[](app = "running" /\ ~ Served) => <>[](store.connection \notin {"connected", "incompatible"})

\* When a daemon stays, the window ends up showing its state, unless an answer to
\* one of its commands is older than the last push and replaced it.
PushIsShown ==
  <>[](app = "running" /\ Served) =>
    <>[](overtaken \/ (store.status = {waiting} /\ store.connection \in {"connected", "incompatible"}))
=============================================================================
