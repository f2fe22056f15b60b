-------------------------------- MODULE Ipc ---------------------------------
(***************************************************************************)
(* The daemon's side of its IPC channel: the accept loop, a task per       *)
(* client (handle_client), subscriptions (stream_events) with the watch    *)
(* channels `changes' and `shutting_down', and the way out, from `omni     *)
(* stop' or a signal to the end of run_with_paths.                         *)
(*                                                                         *)
(* The observable state is a number, content, that every change of it      *)
(* increments; what a subscriber was last sent is the content of then.     *)
(* conn[k] is the task that serves client k:                               *)
(*                                                                         *)
(*   request -> subscribe -> check -> snapshot -> writing -> streaming     *)
(*           -> replied -> answered                                        *)
(***************************************************************************)
EXTENDS Naturals

CONSTANTS
  Watchers,    \* clients that subscribe, as the window does
  Stoppers,    \* clients that run `omni stop'
  Idlers,      \* clients that connect and say nothing
  Stuck,       \* the watchers that stop reading
  MaxChange    \* bound: changes of the observable state

Client == Watchers \cup Stoppers \cup Idlers

ASSUME StuckAssumption == Stuck \subseteq Watchers
ASSUME MaxChangeAssumption == MaxChange \in Nat

VARIABLES
  phase,      \* of run_with_paths
  listening,  \* the accept loop runs, and holds its token
  stop,       \* a permit of the shutdown Notify, or a signal
  down,       \* the watch shutting_down
  content,    \* the observable state
  changes,    \* the watch changes
  owed,       \* changes of the state whose notify_change is still to come
  announced,  \* history: the observable state when notify_change was last called
  conn        \* client tasks: [at, seen, armed, data, pushed]

daemon == <<phase, listening, stop, down>>
state == <<content, changes, owed, announced>>
vars == <<daemon, state, conn>>

NoConn == [at |-> "none", seen |-> 0, armed |-> FALSE, data |-> 0, pushed |-> 0]

Init ==
  /\ phase = "serving" /\ listening = TRUE /\ stop = FALSE /\ down = FALSE
  /\ content = 0 /\ changes = 0 /\ owed = 0 /\ announced = 0
  /\ conn = [k \in Client |-> NoConn]

Goto(k, at) == conn' = [conn EXCEPT ![k].at = at]

-----------------------------------------------------------------------------
(* The accept loop and handle_client                                       *)

Accept(k) ==
  /\ listening /\ conn[k].at = "none"
  /\ conn' = [conn EXCEPT ![k] = [NoConn EXCEPT !.at = "request"]]
  /\ UNCHANGED <<daemon, state>>

StopAccepting ==
  /\ listening /\ down
  /\ listening' = FALSE
  /\ UNCHANGED <<phase, stop, down, state, conn>>

AskSubscribe(k) ==
  /\ k \in Watchers /\ conn[k].at = "request"
  /\ Goto(k, "subscribe")
  /\ UNCHANGED <<daemon, state>>

\* The answer to Stop is flushed first,
AskStop(k) ==
  /\ k \in Stoppers /\ conn[k].at = "request"
  /\ Goto(k, "replied")
  /\ UNCHANGED <<daemon, state>>

\* then the daemon is told; a permit is kept until somebody waits for it.
NotifyStop(k) ==
  /\ conn[k].at = "replied"
  /\ stop' = TRUE
  /\ Goto(k, "answered")
  /\ UNCHANGED <<phase, listening, down, state>>

\* The client closes its end, as the command line does after its answer.
HangUp(k) ==
  /\ conn[k].at = "answered"
  /\ conn' = [conn EXCEPT ![k] = NoConn]
  /\ UNCHANGED <<daemon, state>>

Leave(k) ==
  /\ conn[k].at \in {"request", "writing", "streaming"}
  /\ conn' = [conn EXCEPT ![k] = NoConn]
  /\ UNCHANGED <<daemon, state>>

-----------------------------------------------------------------------------
(* stream_events                                                           *)

\* Armed for changes from now on, of either channel.
Subscribe(k) ==
  /\ conn[k].at = "subscribe"
  /\ conn' = [conn EXCEPT ![k].at = "check", ![k].seen = changes, ![k].armed = ~ down]
  /\ UNCHANGED <<daemon, state>>

\* Mutant: a shutdown that has begun already goes unnoticed.
CheckNothing(k) ==
  /\ conn[k].at = "check"
  /\ Goto(k, "snapshot")
  /\ UNCHANGED <<daemon, state>>

CheckShutdown(k) ==
  /\ conn[k].at = "check"
  /\ conn' = [conn EXCEPT ![k] = IF down THEN NoConn ELSE [@ EXCEPT !.at = "snapshot"]]
  /\ UNCHANGED <<daemon, state>>

\* status()
Snapshot(k) ==
  /\ conn[k].at = "snapshot"
  /\ conn' = [conn EXCEPT ![k].at = "writing", ![k].data = content]
  /\ UNCHANGED <<daemon, state>>

\* Mutant: what changed during the write counts as seen.
WriteEventMarking(k) ==
  /\ conn[k].at = "writing" /\ k \notin Stuck
  /\ conn' = [conn EXCEPT ![k].at = "streaming", ![k].pushed = conn[k].data,
                          ![k].seen = changes]
  /\ UNCHANGED <<daemon, state>>

WriteEvent(k) ==
  /\ conn[k].at = "writing" /\ k \notin Stuck
  /\ conn' = [conn EXCEPT ![k].at = "streaming", ![k].pushed = conn[k].data]
  /\ UNCHANGED <<daemon, state>>

\* changed() marks the latest value seen before the state is read.
Changed(k) ==
  /\ conn[k].at = "streaming" /\ conn[k].seen # changes
  /\ conn' = [conn EXCEPT ![k].at = "snapshot", ![k].seen = changes]
  /\ UNCHANGED <<daemon, state>>

ShutdownSeen(k) ==
  /\ conn[k].at = "streaming" /\ conn[k].armed /\ down
  /\ conn' = [conn EXCEPT ![k] = NoConn]
  /\ UNCHANGED <<daemon, state>>

-----------------------------------------------------------------------------
(* Changes of the observable state                                         *)

\* A session, a pending request, the target, a setting: notify_change follows
\* once the lock is released.
ChangeState ==
  /\ phase = "serving" /\ content < MaxChange
  /\ content' = content + 1
  /\ owed' = owed + 1
  /\ UNCHANGED <<daemon, changes, announced, conn>>

NotifyChange ==
  /\ owed > 0
  /\ owed' = owed - 1
  /\ changes' = changes + 1
  /\ announced' = content
  /\ UNCHANGED <<daemon, content, conn>>

\* `omni peers remove' for a peer without a session drops the pin; a capture
\* thread that fails clears `capturing'.  Neither notifies.
ChangeSilently ==
  /\ phase = "serving" /\ content < MaxChange
  /\ content' = content + 1
  /\ UNCHANGED <<daemon, changes, owed, announced, conn>>

-----------------------------------------------------------------------------
(* The way out                                                             *)

\* Ctrl-C, SIGTERM
Terminate ==
  /\ phase = "serving" /\ ~ stop
  /\ stop' = TRUE
  /\ UNCHANGED <<phase, listening, down, state, conn>>

\* wait_for_shutdown returns: tell the tasks, disconnect the peers, close the
\* endpoint.
BeginShutdown ==
  /\ phase = "serving" /\ stop
  /\ phase' = "stopping"
  /\ down' = TRUE
  /\ UNCHANGED <<listening, stop, state, conn>>

\* The last token is dropped.
AllClientsDone ==
  /\ phase = "stopping"
  /\ ~ listening /\ \A k \in Client : conn[k].at = "none"
  /\ phase' = "exited"
  /\ UNCHANGED <<listening, stop, down, state, conn>>

\* SHUTDOWN_GRACE is over: the runtime goes, and with it every task.  It is long
\* enough for clients that read and hang up, so nothing is allowed to rely on it
\* unless one that does not is still connected.
GraceOver ==
  /\ phase = "stopping"
  /\ \E k \in Stuck \cup Idlers : conn[k].at # "none"
  /\ phase' = "exited"
  /\ listening' = FALSE
  /\ conn' = [k \in Client |-> NoConn]
  /\ UNCHANGED <<stop, down, state>>

-----------------------------------------------------------------------------
\* What the daemon's tasks do by themselves for client k.
Serve(k) ==
  \/ NotifyStop(k)
  \/ Subscribe(k) \/ CheckShutdown(k) \/ Snapshot(k) \/ WriteEvent(k) \/ Changed(k)

Behave(k) == AskSubscribe(k) \/ AskStop(k) \/ HangUp(k)

Exit == BeginShutdown \/ StopAccepting \/ AllClientsDone \/ GraceOver

Next ==
  \/ \E k \in Client : Accept(k) \/ Behave(k) \/ Leave(k) \/ Serve(k) \/ ShutdownSeen(k)
  \/ ChangeState \/ NotifyChange \/ ChangeSilently
  \/ Terminate \/ Exit

Spec == Init /\ [][Next]_vars

\* Tasks that can go on are polled, select! takes its ready branches in random
\* order, timers expire; clients that have something to say say it.
FairSpec ==
  /\ Spec
  /\ \A k \in Client : WF_vars(Serve(k)) /\ WF_vars(ShutdownSeen(k)) /\ WF_vars(Behave(k))
  /\ WF_vars(NotifyChange)
  /\ WF_vars(BeginShutdown) /\ WF_vars(StopAccepting)
  /\ WF_vars(AllClientsDone) /\ WF_vars(GraceOver)

-----------------------------------------------------------------------------
(* Properties                                                              *)

\* Once asked to stop, the daemon exits: a subscription that arrives while it is
\* going down does not keep it, even without the deadline, nor, with it, a client
\* that never reads or never says anything.
DaemonExits == stop ~> phase = "exited"

\* A subscriber that keeps reading is sent what was last announced, or something
\* newer, in the end, however changes, notifications and writes interleave and
\* bursts are coalesced.
PushedInTheEnd ==
  \A k \in Watchers \ Stuck :
    (conn[k].at = "streaming" /\ conn[k].pushed < announced)
      ~> (conn[k].pushed >= announced \/ conn[k].at = "none")
=============================================================================
