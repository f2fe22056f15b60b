---------------------------- MODULE WindowProofs ----------------------------
(***************************************************************************)
(* What is proved about the desktop application: however its commands, the *)
(* tray menu, `omni start' and `omni stop' follow each other, it runs one  *)
(* daemon at most and knows it, a Stop that succeeds leaves none, and a    *)
(* request is announced once.                                              *)
(***************************************************************************)
EXTENDS Window, TLAPS

CallPhase == {"free", "start", "stop", "hello", "read"} \cup Reading

DaemonTypes ==
  /\ phase \in [Runner -> Phase] /\ newer \in BOOLEAN /\ waiting \subseteq Peer
  /\ kept \in BOOLEAN /\ app \in {"running", "exited", "gone"}

SupervisorTypes ==
  /\ slot \in Option(Thread) /\ running \in BOOLEAN /\ lost \in BOOLEAN
  /\ op \in [at : {"idle", "ask", "wait"}, handle : Option(Thread),
             by : Call \cup {"quit", "nobody"}]

SubscriptionTypes ==
  /\ sub \in [to : Option(Runner \cup {"ended"}), line : Option(SUBSET Peer), due : BOOLEAN]
  /\ announced \subseteq Peer /\ tray \subseteq Peer

WindowTypes ==
  /\ inbox \in Seq([kind : {"exited", "dropped", "status"}, waiting : SUBSET Peer])
  /\ Len(inbox) <= MaxInbox
  /\ store \in [connection : {"connecting", "connected", "disconnected", "incompatible"},
                status : Option(SUBSET Peer)]
  /\ call \in [Call -> [at : CallPhase, status : Option(SUBSET Peer), late : BOOLEAN]]

Types == DaemonTypes /\ SupervisorTypes /\ SubscriptionTypes /\ WindowTypes

\* The port has one holder: a daemon in run(), or what has outlived one.
PortInv == \A r, q \in Runner : HoldsPort(r) /\ HoldsPort(q) => r = q /\ ~ kept

\* The Supervisor: a Stop that holds the lock has the handle, nobody else; a live
\* thread's handle is kept or held; and the flag says whether it is inside run().
ThreadInv ==
  /\ op.at = "idle" => op.handle = {}
  /\ op.at # "idle" => slot = {}
  /\ OneThread
  /\ EmbeddedIsTrue

\* The subscription: what is not announced yet and not on its way either is still
\* to be told; what is both announced and untold was merged; and the line read
\* last is the daemon's state unless a push is due.
NoticeInv ==
  /\ repeated = {}
  /\ sub.to = {} => sub.line = {}
  /\ app = "running" =>
       /\ \A r \in Runner : sub.to = {r} => Serving(r)
       /\ sub.line = {} =>
            \A p \in waiting : /\ p \notin announced => p \in untold
                               /\ p \in announced /\ p \in untold => p \in merged
       /\ \A s \in sub.line :
            /\ \A p \in s : p \notin announced => p \in untold
            /\ \A p \in waiting : /\ p \notin s => p \in untold
                                  /\ p \in s /\ p \in announced /\ p \in untold => p \in merged
       /\ sub.to \notin {{}, {"ended"}} /\ ~ sub.due =>
            /\ sub.line = {} => waiting = announced
            /\ \A s \in sub.line : waiting = s

WindowInv == Types /\ PortInv /\ ThreadInv /\ NoticeInv

-----------------------------------------------------------------------------
LEMMA InitWindow == Init => WindowInv
<1> SUFFICES ASSUME Init PROVE WindowInv
  OBVIOUS
<1>1. Types
  <2>1. DaemonTypes
    BY DEF Init, DaemonTypes, Runner, Thread, Phase
  <2>2. SupervisorTypes
    BY DEF Init, SupervisorTypes, NoOp, Option, Thread
  <2>3. SubscriptionTypes
    BY DEF Init, SubscriptionTypes, NoSub, Option
  <2>4. WindowTypes
    <3>1. [Free EXCEPT !.at = "hello"] \in [at : CallPhase, status : Option(SUBSET Peer), late : BOOLEAN]
      BY DEF Free, Option, CallPhase
    <3>2. Free \in [at : CallPhase, status : Option(SUBSET Peer), late : BOOLEAN]
      BY DEF Free, Option, CallPhase
    <3>3. PICK d \in Call :
            call = [c \in Call |-> IF c = d THEN [Free EXCEPT !.at = "hello"] ELSE Free]
      BY DEF Init
    <3>4. call \in [Call -> [at : CallPhase, status : Option(SUBSET Peer), late : BOOLEAN]]
      BY <3>1, <3>2, <3>3
    <3>5. inbox \in Seq([kind : {"exited", "dropped", "status"}, waiting : SUBSET Peer]) /\ Len(inbox) <= MaxInbox
      BY MaxInboxAssumption DEF Init
    <3>6. store \in [connection : {"connecting", "connected", "disconnected", "incompatible"},
                     status : Option(SUBSET Peer)]
      BY DEF Init, Blank, Option
    <3> QED
      BY <3>4, <3>5, <3>6 DEF WindowTypes
  <2> QED
    BY <2>1, <2>2, <2>3, <2>4 DEF Types
<1>2. PortInv
  BY DEF Init, PortInv, HoldsPort, Runner, Thread
<1>3. ThreadInv
  BY DEF Init, ThreadInv, NoOp, OneThread, EmbeddedIsTrue, Alive, Runner, Thread
<1>4. NoticeInv
  BY DEF Init, NoticeInv, NoSub
<1> QED
  BY <1>1, <1>2, <1>3, <1>4 DEF WindowInv

-----------------------------------------------------------------------------
(* Types                                                                   *)

\* A daemon's next phase is a phase.
LEMMA PhaseTypes ==
  ASSUME DaemonTypes, NEW r \in Runner, NEW to \in Phase, Goes(r, to)
  PROVE  phase' \in [Runner -> Phase]
  BY DEF DaemonTypes, Goes

LEMMA DaemonTypesNext ==
  ASSUME Types, Next
  PROVE  DaemonTypes'
<1> USE DEF Types
<1>1. ASSUME NEW r \in Runner, DaemonStep(r) \/ StartFails(r) \/ ShutDown(r)
      PROVE  /\ phase' \in [Runner -> Phase]
             /\ waiting' \subseteq Peer
  BY <1>1 DEF DaemonStep, StartFails, ShutDown, BindPort, BindIpc, Unwind, Returns, ReturnsBound,
              Goes, DaemonTypes, Phase
<1>2. CASE \E r \in Runner : DaemonStep(r) \/ StartFails(r)
  BY <1>1, <1>2 DEF DaemonStep, StartFails, BindPort, BindIpc, Unwind, ReturnsBound, DaemonTypes
<1>3. CASE \E t \in Thread : ThreadStep(t)
  BY <1>3 DEF ThreadStep, ThreadClears, ThreadTells, Goes, DaemonTypes, Phase, Runner
<1>4. CASE StopStep
  BY <1>1, <1>4 DEF StopStep, AskDaemon, AskFails, ThreadGone, StopTimeout, StopReturns,
                    DaemonTypes, daemons
<1>5. CASE Quit \/ ProcessEnds
  BY <1>5 DEF Quit, ProcessEnds, DaemonTypes, daemons, Phase, Runner
<1>6. CASE SubStep \/ Deliver
  BY <1>6 DEF SubStep, SubscribeFails, SubscribeTo, Push, HandleLine, StreamEnds, Deliver,
              DaemonTypes, daemons
<1>7. ASSUME NEW c \in Call, CallStep(c) \/ Click(c)
      PROVE  DaemonTypes'
  BY <1>7 DEF CallStep, Click, SupervisorStart, Goes, DaemonTypes, daemons, Phase, Runner
<1>8. CASE \E p \in Peer : Ask(p) \/ Settle(p) \/ TrayAnswer(p)
  BY <1>8 DEF Ask, Settle, TrayAnswer, Changes, DaemonTypes
<1>9. CASE Change \/ CliStart \/ KeeperEnds
  BY <1>9 DEF Change, CliStart, KeeperEnds, Changes, Goes, DaemonTypes, Phase, Runner
<1>10. CASE CliStop
  BY <1>1, <1>10 DEF CliStop, DaemonTypes
<1> QED
  BY <1>2, <1>3, <1>4, <1>5, <1>6, <1>7, <1>8, <1>9, <1>10 DEF Next

LEMMA SupervisorTypesNext ==
  ASSUME Types, Next
  PROVE  SupervisorTypes'
<1> USE DEF Types
<1>1. ASSUME UNCHANGED supervisor
      PROVE  SupervisorTypes'
  BY <1>1 DEF supervisor, SupervisorTypes
<1>2. CASE \/ \E r \in Runner : DaemonStep(r) \/ StartFails(r)
           \/ SubStep \/ Deliver \/ Change \/ CliStart \/ CliStop \/ KeeperEnds
           \/ \E c \in Call : Click(c)
           \/ \E p \in Peer : Ask(p) \/ Settle(p) \/ TrayAnswer(p)
  BY <1>1, <1>2 DEF DaemonStep, StartFails, BindPort, BindIpc, Unwind, SubStep, SubscribeFails,
     SubscribeTo, Push, HandleLine, StreamEnds, Deliver, Change, CliStart, CliStop, KeeperEnds, Click,
     Ask, Settle, TrayAnswer
<1>3. CASE \E t \in Thread : ThreadStep(t)
  BY <1>3 DEF ThreadStep, ThreadClears, ThreadTells, supervisor, SupervisorTypes
<1>4. NoOp \in [at : {"idle", "ask", "wait"}, handle : Option(Thread),
                by : Call \cup {"quit", "nobody"}] /\ {} \in Option(Thread)
  BY DEF NoOp, Option
<1>5. CASE StopStep
  BY <1>4, <1>5 DEF StopStep, AskDaemon, AskFails, ThreadGone, StopTimeout, StopReturns,
                    SupervisorTypes
<1>6. ASSUME NEW by \in Call \cup {"quit"}, TakeHandle(by)
      PROVE  SupervisorTypes'
  <2>1. [at |-> "ask", handle |-> slot, by |-> by]
          \in [at : {"idle", "ask", "wait"}, handle : Option(Thread), by : Call \cup {"quit", "nobody"}]
    BY DEF SupervisorTypes
  <2> QED
    BY <1>4, <1>6, <2>1 DEF TakeHandle, SupervisorTypes
<1>7. CASE Quit \/ ProcessEnds
  BY <1>1, <1>4, <1>6, <1>7 DEF Quit, ProcessEnds, SupervisorTypes
<1>8. CASE SupervisorStart
  BY <1>8 DEF SupervisorStart, Option, SupervisorTypes
<1>9. ASSUME NEW c \in Call, CallStep(c)
      PROVE  SupervisorTypes'
  BY <1>1, <1>6, <1>8, <1>9 DEF CallStep, supervisor
<1> QED
  BY <1>2, <1>3, <1>5, <1>7, <1>9 DEF Next

LEMMA SubscriptionTypesNext ==
  ASSUME Types, Next
  PROVE  SubscriptionTypes'
<1> USE DEF Types
<1>1. ASSUME UNCHANGED sub, UNCHANGED notices
      PROVE  SubscriptionTypes'
  BY <1>1 DEF notices, SubscriptionTypes
<1>2. CASE \/ \E r \in Runner : DaemonStep(r) \/ StartFails(r)
           \/ \E t \in Thread : ThreadStep(t)
           \/ Quit \/ Deliver \/ CliStart \/ KeeperEnds \/ \E c \in Call : CallStep(c) \/ Click(c)
  BY <1>1, <1>2 DEF DaemonStep, StartFails, BindPort, BindIpc, Unwind, ThreadStep, ThreadClears,
     ThreadTells, Quit, Deliver, CliStart, KeeperEnds, CallStep, Click
<1>3. ASSUME NEW r \in Runner, ShutDown(r)
      PROVE  sub' \in [to : Option(Runner \cup {"ended"}), line : Option(SUBSET Peer), due : BOOLEAN]
  BY <1>3 DEF ShutDown, SubscriptionTypes, Option
<1>4. CASE StopStep \/ CliStop
  BY <1>3, <1>4 DEF StopStep, AskDaemon, AskFails, ThreadGone, StopTimeout, CliStop, notices,
                    SubscriptionTypes
<1>5. CASE ProcessEnds
  BY <1>5 DEF ProcessEnds, NoSub, Option, SubscriptionTypes
<1>6. CASE SubscribeFails \/ \E r \in Runner : SubscribeTo(r)
  <2>1. CASE SubscribeFails
    BY <2>1 DEF SubscribeFails, NoSub, notices, Option, SubscriptionTypes
  <2>2. ASSUME NEW r \in Runner, SubscribeTo(r)
        PROVE  SubscriptionTypes'
    <3>1. sub' = [NoSub EXCEPT !.to = {r}] /\ UNCHANGED notices
      BY <2>2 DEF SubscribeTo
    <3>2. {r} \in Option(Runner \cup {"ended"})
      BY DEF Option
    <3> QED
      BY <3>1, <3>2 DEF NoSub, notices, Option, SubscriptionTypes
  <2> QED
    BY <1>6, <2>1, <2>2
<1>7. CASE Push
  BY <1>7 DEF Push, notices, Option, SubscriptionTypes, DaemonTypes
<1>8. CASE HandleLine
  BY <1>8 DEF HandleLine, Retained, Fresh, Option, SubscriptionTypes
<1>9. CASE StreamEnds
  BY <1>9 DEF StreamEnds, NoSub, notices, Option, SubscriptionTypes
<1>10. CASE \/ \E p \in Peer : Ask(p) \/ Settle(p) \/ TrayAnswer(p)
            \/ Change
  BY <1>10 DEF Ask, Settle, TrayAnswer, Change, Changes, notices, SubscriptionTypes
<1> QED
  BY <1>2, <1>4, <1>5, <1>6, <1>7, <1>8, <1>9, <1>10 DEF Next, SubStep

\* What is emitted is an event, and there was room for it.
LEMMA EmitTypes ==
  ASSUME WindowTypes, NEW kind \in {"exited", "dropped", "status"}, NEW snapshot \in SUBSET Peer,
         Len(inbox) < MaxInbox, inbox' = Append(inbox, [kind |-> kind, waiting |-> snapshot]),
         UNCHANGED <<store, call>>
  PROVE  WindowTypes'
<1> DEFINE Event_ == [kind : {"exited", "dropped", "status"}, waiting : SUBSET Peer]
<1>1. [kind |-> kind, waiting |-> snapshot] \in Event_
  OBVIOUS
<1>2. inbox \in Seq(Event_) /\ Len(inbox) \in Nat
  BY DEF WindowTypes
<1> HIDE DEF Event_
<1>3. inbox' \in Seq(Event_) /\ Len(inbox') = Len(inbox) + 1
  BY <1>1, <1>2
<1>4. Len(inbox') <= MaxInbox
  BY <1>2, <1>3, MaxInboxAssumption
<1>5. WindowTypes' <=> inbox' \in Seq(Event_) /\ Len(inbox') <= MaxInbox
  BY DEF WindowTypes, Event_
<1> QED
  BY <1>3, <1>4, <1>5

\* What is delivered was an event, and there is room for another.
LEMMA DeliverTypes ==
  ASSUME WindowTypes, inbox # <<>>, inbox' = Tail(inbox)
  PROVE  /\ inbox' \in Seq([kind : {"exited", "dropped", "status"}, waiting : SUBSET Peer])
         /\ Len(inbox') <= MaxInbox
         /\ Head(inbox).waiting \in SUBSET Peer
<1> DEFINE Event_ == [kind : {"exited", "dropped", "status"}, waiting : SUBSET Peer]
<1>1. inbox \in Seq(Event_) /\ Len(inbox) \in Nat
  BY DEF WindowTypes
<1>2. \A e \in Event_ : e.waiting \in SUBSET Peer
  OBVIOUS
<1> HIDE DEF Event_
<1>3. inbox' \in Seq(Event_) /\ Len(inbox') = Len(inbox) - 1 /\ Head(inbox) \in Event_
  BY <1>1
<1> QED
  BY <1>1, <1>2, <1>3, MaxInboxAssumption DEF WindowTypes, Event_

LEMMA WindowTypesNext ==
  ASSUME Types, Next
  PROVE  WindowTypes'
<1> DEFINE Answer == [at : CallPhase, status : Option(SUBSET Peer), late : BOOLEAN]
<1> USE DEF Types
<1>1. ASSUME UNCHANGED inbox, UNCHANGED <<store, call>>
      PROVE  WindowTypes'
  BY <1>1 DEF WindowTypes
<1>2. CASE \/ \E r \in Runner : DaemonStep(r) \/ StartFails(r)
           \/ \E p \in Peer : Ask(p) \/ Settle(p) \/ TrayAnswer(p)
           \/ \E t \in Thread : ThreadClears(t)
           \/ Quit \/ Push \/ \E r \in Runner : SubscribeTo(r)
           \/ Change \/ CliStart \/ CliStop \/ KeeperEnds
  BY <1>1, <1>2 DEF DaemonStep, StartFails, BindPort, BindIpc, Unwind, Ask, Settle, TrayAnswer,
     ThreadClears, Quit, Push, SubscribeTo, Change, CliStart, CliStop, KeeperEnds, window
<1>3. ASSUME NEW t \in Thread, ThreadTells(t)
      PROVE  WindowTypes'
  <2>1. {} \in SUBSET Peer
    OBVIOUS
  <2> QED
    BY <1>3, <2>1, EmitTypes DEF ThreadTells, window
<1>4. ASSUME NEW kind \in {"exited", "dropped", "status"}, NEW snapshot \in SUBSET Peer,
             Len(inbox) < MaxInbox, Emit(kind, snapshot), UNCHANGED window
      PROVE  WindowTypes'
  BY <1>4, EmitTypes DEF Emit, window
<1>5. CASE SubscribeFails \/ HandleLine \/ StreamEnds
  <2>1. {} \in SUBSET Peer /\ UNION sub.line \in SUBSET Peer
    BY DEF SubscriptionTypes, Option
  <2>2. "dropped" \in {"exited", "dropped", "status"} /\ "status" \in {"exited", "dropped", "status"}
    OBVIOUS
  <2>3. CASE inbox' = inbox
    BY <1>1, <1>5, <2>3 DEF SubscribeFails, HandleLine, StreamEnds, window
  <2>4. CASE inbox' # inbox
    BY <1>4, <1>5, <2>1, <2>2, <2>4 DEF SubscribeFails, HandleLine, StreamEnds
  <2> QED
    BY <2>3, <2>4
<1>6. \A c \in Call : call[c] \in Answer
  BY DEF WindowTypes
<1>7. Free \in Answer /\ [Free EXCEPT !.at = "failed"] \in Answer
      /\ [Free EXCEPT !.at = "newer"] \in Answer /\ [Free EXCEPT !.at = "read"] \in Answer
  BY DEF Free, Option, CallPhase, Reading
<1>8. ASSUME NEW c, NEW answer \in Answer
      PROVE  [call EXCEPT ![c] = answer] \in [Call -> Answer]
  <2>1. call \in [Call -> Answer]
    BY DEF WindowTypes
  <2> HIDE DEF Answer
  <2> QED
    BY <2>1
<1>9. ASSUME NEW c \in Call, NEW at \in CallPhase
      PROVE  [call EXCEPT ![c].at = at] \in [Call -> Answer]
  <2>1. [call[c] EXCEPT !.at = at] \in Answer
    BY <1>6
  <2> HIDE DEF Answer
  <2> QED
    BY <1>8, <2>1
<1>10. ASSUME UNCHANGED <<inbox, store>>, call' \in [Call -> Answer]
       PROVE  WindowTypes'
  BY <1>10 DEF WindowTypes
<1>11. ASSUME NEW ok \in BOOLEAN, StopReturns(ok)
       PROVE  call' \in [Call -> Answer]
  <2>1. CASE op.by = "quit"
    BY <2>1, <1>11 DEF StopReturns, WindowTypes
  <2>2. CASE op.by # "quit"
    <3>1. call' = [call EXCEPT ![op.by] = IF ok THEN [call[op.by] EXCEPT !.at = "stopped"] ELSE Free]
      BY <1>11, <2>2 DEF StopReturns
    <3>2. CASE op.by \in Call
      <4>1. [call[op.by] EXCEPT !.at = "stopped"] \in Answer
        BY <3>2, <1>6 DEF CallPhase, Reading
      <4> QED
        BY <3>1, <4>1, <1>7, <1>8
    <3>3. CASE op.by \notin Call
      <4>1. call \in [Call -> Answer]
        BY DEF WindowTypes
      <4> HIDE DEF Answer
      <4> QED
        BY <3>1, <3>3, <4>1
    <3> QED
      BY <3>2, <3>3
  <2> QED
    BY <2>1, <2>2
<1>12. CASE StopStep
  <2>1. UNCHANGED <<inbox, store>>
    BY <1>12 DEF StopStep, AskDaemon, AskFails, ThreadGone, StopTimeout
  <2>2. call' = call \/ \E ok \in BOOLEAN : StopReturns(ok)
    BY <1>12 DEF StopStep, AskDaemon, AskFails, ThreadGone, StopTimeout
  <2>3. call \in [Call -> Answer]
    BY DEF WindowTypes
  <2> HIDE DEF Answer
  <2> QED
    BY <1>10, <1>11, <2>1, <2>2, <2>3
<1>13. CASE ProcessEnds
  <2>1. inbox' = <<>> /\ store' = Blank /\ call' = [c \in Call |-> Free]
    BY <1>13 DEF ProcessEnds
  <2>2. call' \in [Call -> Answer]
    BY <1>7, <2>1
  <2>3. store' \in [connection : {"connecting", "connected", "disconnected", "incompatible"},
                    status : Option(SUBSET Peer)]
    BY <2>1 DEF Blank, Option
  <2>4. inbox' \in Seq([kind : {"exited", "dropped", "status"}, waiting : SUBSET Peer])
        /\ Len(inbox') <= MaxInbox
    BY <2>1, MaxInboxAssumption
  <2> QED
    BY <2>2, <2>3, <2>4 DEF WindowTypes
<1>14. CASE Deliver
  <2>1. inbox # <<>> /\ inbox' = Tail(inbox)
    BY <1>14 DEF Deliver, StatusEvent, DroppedEvent, ExitedEvent
  <2>2. /\ inbox' \in Seq([kind : {"exited", "dropped", "status"}, waiting : SUBSET Peer])
        /\ Len(inbox') <= MaxInbox
        /\ Head(inbox).waiting \in SUBSET Peer
    BY <2>1, DeliverTypes
  <2>3. CASE StatusEvent
    <3>1. /\ store' = [connection |-> "connected", status |-> {Head(inbox).waiting}]
          /\ call' = [c \in Call |-> [call[c] EXCEPT !.late = call[c].at \in Reading]]
      BY <2>3 DEF StatusEvent
    <3>2. store' \in [connection : {"connecting", "connected", "disconnected", "incompatible"},
                      status : Option(SUBSET Peer)]
      BY <2>2, <3>1 DEF Option
    <3>3. \A c \in Call : [call[c] EXCEPT !.late = call[c].at \in Reading] \in Answer
      <4> TAKE c \in Call
      <4>1. \A b \in BOOLEAN : [call[c] EXCEPT !.late = b] \in Answer
        BY <1>6
      <4>2. (call[c].at \in Reading) \in BOOLEAN
        OBVIOUS
      <4> HIDE DEF Answer
      <4> QED
        BY <4>1, <4>2
    <3>4. call' \in [Call -> Answer]
      BY <3>1, <3>3
    <3> QED
      BY <2>2, <3>2, <3>4 DEF WindowTypes
  <2>4. CASE DroppedEvent
    BY <2>2, <2>4 DEF DroppedEvent, WindowTypes
  <2>5. CASE ExitedEvent
    <3>1. "hello" \in CallPhase
      BY DEF CallPhase
    <3>2. call' \in [Call -> Answer] /\ store' = store
      BY <1>9, <2>5, <3>1 DEF ExitedEvent, Calls
    <3> QED
      BY <2>2, <3>2 DEF WindowTypes
  <2> QED
    BY <1>14, <2>3, <2>4, <2>5 DEF Deliver
<1>15. ASSUME NEW c \in Call, CallStep(c) \/ Click(c)
       PROVE  WindowTypes'
  <2>1. inbox' = inbox
    BY <1>15 DEF CallStep, Click
  <2>2. \A at \in {"hello", "stopping", "start", "stop"} :
          [call EXCEPT ![c].at = at] \in [Call -> Answer]
    BY <1>9 DEF CallPhase, Reading
  <2>3. CASE Hello(c)
    <3>1. call' \in [Call -> Answer]
      BY <1>7, <1>8, <2>3 DEF Hello
    <3>2. store' = store
      BY <1>15, <2>3 DEF CallStep, Click, Hello, Answered
    <3> QED
      BY <2>1, <3>1, <3>2, <1>10
  <2>4. CASE ReadStatus(c)
    <3>1. [at |-> "ready", status |-> {waiting}, late |-> FALSE] \in Answer
      BY DEF DaemonTypes, Option, CallPhase, Reading
    <3>2. call' \in [Call -> Answer]
      BY <1>7, <1>8, <2>4, <3>1 DEF ReadStatus
    <3>3. store' = store
      BY <1>15, <2>4 DEF CallStep, Click, ReadStatus, Answered
    <3> QED
      BY <2>1, <3>2, <3>3, <1>10
  <2>5. CASE Answered(c)
    <3>1. call' \in [Call -> Answer]
      BY <1>7, <1>8, <2>5 DEF Answered
    <3>2. store' \in [connection : {"connecting", "connected", "disconnected", "incompatible"},
                      status : Option(SUBSET Peer)]
      BY <1>6, <2>5 DEF Answered, WindowTypes, Option
    <3> QED
      BY <2>1, <3>1, <3>2 DEF WindowTypes
  <2>6. CASE \E at \in {"hello", "stopping"} : Calls(c, at) /\ store' = store
    <3>1. PICK at \in {"hello", "stopping"} : Calls(c, at) /\ store' = store
      BY <2>6
    <3>2. call' \in [Call -> Answer]
      BY <2>2, <3>1 DEF Calls
    <3> QED
      BY <1>10, <2>1, <3>1, <3>2
  <2>7. CASE Click(c)
    <3>1. call' \in [Call -> Answer]
      BY <2>2, <2>7 DEF Click, Calls
    <3>2. store' = store \/ store' = [store EXCEPT !.connection = "connecting"]
      BY <2>7 DEF Click
    <3> QED
      BY <2>1, <3>1, <3>2 DEF WindowTypes
  <2> QED
    BY <1>15, <2>3, <2>4, <2>5, <2>6, <2>7 DEF CallStep
<1> QED
  BY <1>2, <1>3, <1>5, <1>12, <1>13, <1>14, <1>15 DEF Next, SubStep, ThreadStep

-----------------------------------------------------------------------------
(* The port                                                                *)

\* Who holds the port held it before, or took it when nobody did (BindPort); and
\* what keeps it then has it from a daemon that held it (ReturnsBound).
LEMMA PortNext ==
  ASSUME Types, PortInv, Next
  PROVE  PortInv'
<1>1. phase \in [Runner -> Phase]
  BY DEF Types, DaemonTypes
<1>2. ASSUME \A r \in Runner : HoldsPort(r)' => HoldsPort(r), kept' => kept
      PROVE  PortInv'
  <2>1. ASSUME NEW r \in Runner, NEW q \in Runner, HoldsPort(r)', HoldsPort(q)'
        PROVE  r = q /\ ~ kept'
    <3>1. HoldsPort(r) /\ HoldsPort(q)
      BY <1>2, <2>1
    <3> QED
      BY <1>2, <3>1 DEF PortInv
  <2> QED
    BY <2>1 DEF PortInv
<1>3. ASSUME phase' = phase, kept' => kept
      PROVE  PortInv'
  BY <1>2, <1>3 DEF HoldsPort
<1>4. ASSUME NEW r \in Runner, NEW to \in Phase, Goes(r, to),
             HoldsPort(r) \/ to \notin {"bound", "serving", "closing"}
      PROVE  \A q \in Runner : HoldsPort(q)' => HoldsPort(q)
  BY <1>1, <1>4 DEF Goes, HoldsPort
<1>5. {"none", "loading", "bound", "serving", "closing", "returned", "cleared"} = Phase
  BY DEF Phase
<1>6. ASSUME NEW r \in Runner, DaemonStep(r) \/ StartFails(r)
      PROVE  PortInv'
  <2>1. ASSUME Returns(r), kept' => kept
        PROVE  PortInv'
    BY <1>2, <1>4, <1>5, <2>1 DEF Returns
  <2>2. CASE BindPort(r)
    <3>1. CASE ~ PortTaken(r) /\ Goes(r, "bound") /\ kept' = kept
      <4>1. ~ kept' /\ \A q \in Runner \ {r} : ~ HoldsPort(q)
        BY <3>1 DEF PortTaken
      <4>2. \A q \in Runner \ {r} : phase'[q] = phase[q]
        BY <1>1, <3>1 DEF Goes
      <4>3. \A q \in Runner \ {r} : ~ HoldsPort(q)'
        BY <4>1, <4>2 DEF HoldsPort
      <4> QED
        BY <4>1, <4>3 DEF PortInv
    <3> QED
      BY <2>1, <2>2, <3>1 DEF BindPort
  <2>3. CASE BindIpc(r)
    <3>1. HoldsPort(r) /\ Goes(r, "serving") /\ kept' = kept
      BY <2>3 DEF BindIpc, HoldsPort
    <3> QED
      BY <1>2, <1>4, <1>5, <3>1
  <2>4. ASSUME HoldsPort(r), Returns(r)
        PROVE  PortInv'
    <3>1. \A q \in Runner : q # r => ~ HoldsPort(q)
      BY <2>4 DEF PortInv
    <3>2. phase'[r] \in {"returned", "none"} /\ \A q \in Runner : q # r => phase'[q] = phase[q]
      BY <1>1, <2>4 DEF Returns, Goes
    <3>3. \A q \in Runner : ~ HoldsPort(q)'
      BY <3>1, <3>2 DEF HoldsPort
    <3> QED
      BY <3>3 DEF PortInv
  <2>5. CASE Unwind(r)
    BY <2>4, <2>5 DEF Unwind, ReturnsBound, HoldsPort
  <2>6. CASE StartFails(r)
    BY <2>1, <2>4, <2>6 DEF StartFails, ReturnsBound, HoldsPort
  <2> QED
    BY <1>6, <2>2, <2>3, <2>5, <2>6 DEF DaemonStep
<1>7. ASSUME NEW r \in Runner, ShutDown(r), kept' = kept
      PROVE  PortInv'
  <2>1. HoldsPort(r) /\ Goes(r, "closing")
    BY <1>7 DEF ShutDown, Serving, HoldsPort
  <2> QED
    BY <1>2, <1>4, <1>5, <1>7, <2>1
<1>8. ASSUME NEW t \in Runner, NEW to \in {"none", "loading", "cleared"}, Goes(t, to), kept' = kept
      PROVE  PortInv'
  BY <1>2, <1>4, <1>5, <1>8
<1>9. Thread \subseteq Runner /\ "cli" \in Runner
  BY DEF Runner
<1>10. CASE ProcessEnds
  <2>1. ~ kept' /\ \A r \in Runner : HoldsPort(r)' => HoldsPort(r)
    BY <1>10 DEF ProcessEnds, HoldsPort
  <2> QED
    BY <1>2, <2>1
<1>11. CASE StopStep
  BY <1>3, <1>7, <1>11 DEF StopStep, AskDaemon, AskFails, ThreadGone, StopTimeout, daemons
<1>12. CASE \E t \in Thread : ThreadStep(t)
  BY <1>8, <1>9, <1>12 DEF ThreadStep, ThreadClears, ThreadTells
<1>13. ASSUME NEW c \in Call, CallStep(c)
       PROVE  PortInv'
  <2>1. kept' = kept /\ (phase' = phase \/ SupervisorStart)
    BY <1>13 DEF CallStep
  <2>2. CASE SupervisorStart
    BY <1>3, <1>8, <1>9, <2>1, <2>2 DEF SupervisorStart
  <2> QED
    BY <1>3, <2>1, <2>2
<1>14. CASE CliStart \/ CliStop
  BY <1>7, <1>8, <1>9, <1>14 DEF CliStart, CliStop
<1>15. CASE \/ KeeperEnds \/ Quit \/ SubStep \/ Deliver \/ Change \/ \E c \in Call : Click(c)
            \/ \E p \in Peer : Ask(p) \/ Settle(p) \/ TrayAnswer(p)
  BY <1>3, <1>15 DEF KeeperEnds, Quit, SubStep, SubscribeFails, SubscribeTo, Push, HandleLine, StreamEnds,
     Deliver, Change, Click, Ask, Settle, TrayAnswer, daemons
<1> QED
  BY <1>6, <1>10, <1>11, <1>12, <1>13, <1>14, <1>15 DEF Next

-----------------------------------------------------------------------------
(* The Supervisor                                                          *)

InRun(t) == phase[t] \notin {"none", "cleared"}

\* One handle is kept or held, at most.
LEMMA OneHandle ==
  ASSUME Types, ThreadInv, NEW t \in slot \cup op.handle, NEW u \in slot \cup op.handle
  PROVE  t = u
<1>1. slot \in Option(Thread) /\ op.handle \in Option(Thread) /\ op.at \in {"idle", "ask", "wait"}
  BY DEF Types, SupervisorTypes
<1>2. op.handle = {} \/ slot = {}
  BY DEF ThreadInv
<1> QED
  BY <1>1, <1>2 DEF Option

\* Threads that stay as alive and as much inside run() as they were.
LEMMA SameThreads ==
  ASSUME ThreadInv, UNCHANGED supervisor, app' = app \/ app' # "running",
         \A t \in Thread : Alive(t)' => Alive(t),
         \A t \in Thread : InRun(t)' <=> InRun(t)
  PROVE  ThreadInv'
<1>1. UNCHANGED <<slot, running, op, lost>>
  BY DEF supervisor
<1>2. OneThread'
  BY <1>1 DEF ThreadInv, OneThread
<1>3. EmbeddedIsTrue'
  BY <1>1 DEF ThreadInv, EmbeddedIsTrue, InRun
<1> QED
  BY <1>1, <1>2, <1>3 DEF ThreadInv

LEMMA ThreadNext ==
  ASSUME Types, ThreadInv, Next
  PROVE  ThreadInv'
<1>1. phase \in [Runner -> Phase] /\ Thread \subseteq Runner /\ "cli" \in Runner \ Thread
  BY DEF Types, DaemonTypes, Runner, Thread
<1>2. ASSUME UNCHANGED supervisor, app' = app \/ app' # "running", phase' = phase
      PROVE  ThreadInv'
  BY <1>2, SameThreads DEF Alive, InRun
<1>3. ASSUME NEW r \in Runner, NEW to \in Phase, Goes(r, to), phase[r] \notin {"none", "cleared"},
             r \in Thread => to \notin {"none", "cleared"}
      PROVE  /\ \A t \in Thread : Alive(t)' => Alive(t)
             /\ \A t \in Thread : InRun(t)' <=> InRun(t)
  BY <1>1, <1>3 DEF Goes, Alive, InRun
<1>4. {"none", "loading", "bound", "serving", "closing", "returned", "cleared"} = Phase
  BY DEF Phase
<1>5. ASSUME NEW r \in Runner, DaemonStep(r) \/ StartFails(r)
      PROVE  ThreadInv'
  <2>1. UNCHANGED supervisor /\ app' = app
    BY <1>5 DEF DaemonStep, StartFails, BindPort, BindIpc, Unwind
  <2>2. \E to \in Phase : Goes(r, to) /\ (r \in Thread => to \notin {"none", "cleared"})
    BY <1>4, <1>5 DEF DaemonStep, StartFails, BindPort, BindIpc, Unwind, ReturnsBound, Returns
  <2>3. phase[r] \notin {"none", "cleared"}
    BY <1>5 DEF DaemonStep, StartFails, BindPort, BindIpc, Unwind
  <2> QED
    BY <1>3, <2>1, <2>2, <2>3, SameThreads
<1>6. ASSUME NEW r \in Runner, ShutDown(r)
      PROVE  /\ \A t \in Thread : Alive(t)' => Alive(t)
             /\ \A t \in Thread : InRun(t)' <=> InRun(t)
  BY <1>3, <1>4, <1>6 DEF ShutDown, Serving
<1>7. CASE CliStop
  BY <1>6, <1>7, SameThreads DEF CliStop
<1>8. CASE CliStart
  <2>1. \A t \in Thread : phase'[t] = phase[t]
    BY <1>1, <1>8 DEF CliStart, Goes
  <2> QED
    BY <1>8, <2>1, SameThreads DEF CliStart, Alive, InRun
<1>9. ASSUME NEW t \in Thread, ThreadClears(t), app = "running"
      PROVE  ThreadInv'
  <2>1. /\ phase[t] = "returned" /\ phase' = [phase EXCEPT ![t] = "cleared"]
        /\ running' = FALSE /\ UNCHANGED <<app, slot, op, lost>>
    BY <1>9 DEF ThreadClears, Goes
  <2>2. \A u \in Thread : Alive(u)' <=> Alive(u)
    BY <1>1, <2>1 DEF Alive
  <2>3. OneThread'
    BY <2>1, <2>2 DEF ThreadInv, OneThread
  <2>4. ASSUME ~ lost
        PROVE  \A u \in Thread : ~ InRun(u)'
    <3>1. \A u \in Thread : Alive(u) => u \in slot \cup op.handle
      BY <1>9, <2>4 DEF ThreadInv, OneThread
    <3>2. \A u \in Thread : Alive(u) => u = t
      BY <2>1, <3>1, OneHandle DEF Alive
    <3> QED
      BY <1>1, <2>1, <3>2 DEF Alive, InRun
  <2>5. EmbeddedIsTrue'
    BY <2>1, <2>4 DEF EmbeddedIsTrue, InRun
  <2> QED
    BY <2>1, <2>3, <2>5 DEF ThreadInv
<1>10. ASSUME NEW t \in Thread, ThreadTells(t)
       PROVE  ThreadInv'
  <2>1. /\ phase[t] = "cleared" /\ phase' = [phase EXCEPT ![t] = "none"]
        /\ UNCHANGED supervisor /\ app' = app
    BY <1>10 DEF ThreadTells, Goes
  <2> QED
    BY <1>1, <2>1, SameThreads DEF Alive, InRun
\* SupervisorStart, under the lock: if no handle's thread is alive, none is.
<1>11. CASE SupervisorStart /\ app' = app
  <2>1. CASE UNCHANGED <<phase, slot, running>>
    BY <1>2, <1>11, <2>1 DEF SupervisorStart, supervisor
  <2>2. CASE \E t \in slot : Alive(t)
    BY <1>11, <2>1, <2>2 DEF SupervisorStart
  <2>3. CASE ~ \E t \in slot : Alive(t)
    <3>1. PICK t \in Thread : /\ ~ Alive(t)
                              /\ slot' = {t} /\ running' = TRUE
                              /\ phase' = [phase EXCEPT ![t] = "loading"]
      BY <1>11, <2>3 DEF SupervisorStart, Goes
    <3>2. op.at = "idle" /\ op.handle = {} /\ UNCHANGED <<op, lost>>
      BY <1>11 DEF SupervisorStart, ThreadInv
    <3>3. app = "running" /\ ~ lost => \A u \in Thread : ~ Alive(u)
      BY <2>3, <3>2 DEF ThreadInv, OneThread
    <3>4. \A u \in Thread : phase'[u] = IF u = t THEN "loading" ELSE phase[u]
      BY <1>1, <3>1
    <3>5. OneThread'
      BY <1>11, <3>1, <3>2, <3>3, <3>4 DEF OneThread, Alive
    <3>6. EmbeddedIsTrue'
      BY <1>11, <3>1, <3>2, <3>4 DEF EmbeddedIsTrue
    <3> QED
      BY <3>2, <3>5, <3>6 DEF ThreadInv
  <2> QED
    BY <2>2, <2>3
\* Supervisor::stop moves the handle from the slot to the caller,
<1>12. ASSUME NEW by, TakeHandle(by), phase' = phase, app' = app
       PROVE  ThreadInv'
  <2>1. /\ op.at = "idle" /\ op.handle = {}
        /\ op'.at = "ask" /\ op'.handle = slot /\ slot' = {}
        /\ UNCHANGED <<running, lost>>
    BY <1>12 DEF TakeHandle, ThreadInv
  <2> QED
    BY <1>12, <2>1 DEF ThreadInv, OneThread, EmbeddedIsTrue, Alive
\* and drops it when the thread is gone, or puts it back.
<1>13. CASE StopStep
  <2>1. /\ app = "running" /\ op.at # "idle" /\ slot = {} /\ running' = running
    BY <1>13 DEF StopStep, AskDaemon, AskFails, ThreadGone, StopTimeout, ThreadInv
  <2>2. /\ \A t \in Thread : Alive(t)' => Alive(t)
        /\ \A t \in Thread : InRun(t)' <=> InRun(t)
    BY <1>6, <1>13 DEF StopStep, AskDaemon, AskFails, ThreadGone, StopTimeout, daemons, Alive, InRun
  <2>3. \/ op' = [op EXCEPT !.at = "wait"] /\ slot' = {} /\ lost' = lost
        \/ /\ op' = NoOp
           /\ \/ slot' = {} /\ (\A t \in op.handle : ~ Alive(t)) /\ lost' = lost
              \/ slot' = {} /\ lost' = (lost \/ \E t \in op.handle : Alive(t))
              \/ slot' = op.handle /\ lost' = lost
    BY <1>13, <2>1 DEF StopStep, AskDaemon, AskFails, ThreadGone, StopTimeout, StopReturns
  <2>4. op'.at = "idle" => op'.handle = {}
    BY <2>3 DEF NoOp, ThreadInv, Types, SupervisorTypes
  <2>5. op'.at # "idle" => slot' = {}
    BY <2>3 DEF NoOp
  <2>6. \A t \in op.handle : \/ t \in slot' \cup op'.handle
                             \/ lost' \/ ~ Alive(t)
    BY <2>3 DEF NoOp, Types, SupervisorTypes
  <2>7. lost' \in BOOLEAN /\ (lost => lost')
    BY <2>3 DEF Types, SupervisorTypes
  <2>8. OneThread'
    BY <2>1, <2>2, <2>6, <2>7 DEF ThreadInv, OneThread
  <2>9. EmbeddedIsTrue'
    BY <2>1, <2>2, <2>7 DEF ThreadInv, EmbeddedIsTrue, InRun
  <2> QED
    BY <2>4, <2>5, <2>8, <2>9 DEF ThreadInv
<1>14. CASE ProcessEnds
  BY <1>14 DEF ProcessEnds, NoOp, ThreadInv, OneThread, EmbeddedIsTrue
<1>15. CASE Quit
  <2>1. phase' = phase
    BY <1>15 DEF Quit, daemons
  <2> QED
    BY <1>2, <1>12, <1>15, <2>1 DEF Quit
<1>16. ASSUME NEW c \in Call, CallStep(c)
       PROVE  ThreadInv'
  <2>1. app' = app
    BY <1>16 DEF CallStep
  <2>2. CASE UNCHANGED <<phase, slot, running, op, lost>>
    BY <1>2, <2>1, <2>2 DEF supervisor
  <2> QED
    BY <1>11, <1>12, <1>16, <2>1, <2>2 DEF CallStep
<1>17. CASE \/ KeeperEnds \/ SubStep \/ Deliver \/ Change \/ \E c \in Call : Click(c)
            \/ \E p \in Peer : Ask(p) \/ Settle(p) \/ TrayAnswer(p)
  BY <1>2, <1>17 DEF KeeperEnds, SubStep, SubscribeFails, SubscribeTo, Push, HandleLine, StreamEnds,
     Deliver, Change, Click, Ask, Settle, TrayAnswer, daemons
<1> QED
  BY <1>5, <1>7, <1>8, <1>9, <1>10, <1>13, <1>14, <1>15, <1>16, <1>17 DEF Next, ThreadStep

-----------------------------------------------------------------------------
(* The subscription and the notifications                                  *)

\* Steps that leave the subscription's view of the daemon alone.
LEMMA SameNotices ==
  ASSUME NoticeInv, UNCHANGED <<sub, announced, waiting, repeated, untold, merged>>,
         \A r \in Runner : Serving(r) => Serving(r)', app' = app \/ app' # "running"
  PROVE  NoticeInv'
  BY DEF NoticeInv

\* The serving daemon's requests become fewer, in a step that makes a push due.
LEMMA FewerNotices ==
  ASSUME NoticeInv, NEW requests, requests \subseteq waiting, NEW gone,
         Changes(requests), merged' = merged \ gone, requests \cap gone = {},
         phase' = phase, app' = app, UNCHANGED <<announced, repeated, untold>>,
         sub \in [to : Option(Runner \cup {"ended"}), line : Option(SUBSET Peer), due : BOOLEAN]
  PROVE  NoticeInv'
<1>1. /\ waiting' = requests /\ sub'.to = sub.to /\ sub'.line = sub.line /\ sub'.due = TRUE
  BY DEF Changes
<1> QED
  BY <1>1 DEF NoticeInv, Serving

LEMMA NoticeNext ==
  ASSUME Types, PortInv, NoticeInv, Next
  PROVE  NoticeInv'
<1>1. /\ phase \in [Runner -> Phase]
      /\ sub \in [to : Option(Runner \cup {"ended"}), line : Option(SUBSET Peer), due : BOOLEAN]
      /\ waiting \subseteq Peer
  BY DEF Types, DaemonTypes, SubscriptionTypes
<1>2. ASSUME UNCHANGED sub, UNCHANGED notices, UNCHANGED news, waiting' = waiting,
             \A r \in Runner : Serving(r) => Serving(r)', app' = app \/ app' # "running"
      PROVE  NoticeInv'
  BY <1>2, SameNotices DEF notices, news
<1>3. ASSUME UNCHANGED phase
      PROVE  \A r \in Runner : Serving(r) => Serving(r)'
  BY <1>3 DEF Serving
<1>4. ASSUME NEW r \in Runner, NEW to, Goes(r, to), phase[r] # "serving"
      PROVE  \A q \in Runner : Serving(q) => Serving(q)'
  BY <1>1, <1>4 DEF Goes, Serving
<1>5. Thread \subseteq Runner /\ "cli" \in Runner
  BY DEF Runner
<1>6. ASSUME NEW r \in Runner, ShutDown(r), app' = app \/ app' # "running", UNCHANGED notices,
             UNCHANGED news
      PROVE  NoticeInv'
  <2>1. /\ waiting' = {} /\ Serving(r) /\ sub'.line = sub.line
        /\ sub'.to = IF r \in sub.to THEN {"ended"} ELSE sub.to
    BY <1>1, <1>6 DEF ShutDown
  <2>2. \A q \in Runner : q # r => phase'[q] = phase[q]
    BY <1>1, <1>6 DEF ShutDown, Goes
  <2>3. ASSUME NEW q \in Runner, app = "running", sub.to = {q}
        PROVE  q = r
    BY <1>6, <2>1, <2>3 DEF NoticeInv, PortInv, HoldsPort, Serving
  <2>4. \A x : sub.to = {x} => x \in Runner \cup {"ended"}
    BY <1>1 DEF Option
  <2>5. sub.to = {} \/ \E x \in Runner \cup {"ended"} : sub.to = {x}
    BY <1>1 DEF Option
  <2>6. "ended" \notin Runner
    BY DEF Runner, Thread
  <2>7. app = "running" => sub'.to = {} \/ sub'.to = {"ended"}
    BY <2>1, <2>3, <2>5
  <2>8. UNCHANGED <<announced, repeated, untold, merged>>
    BY <1>6 DEF notices, news
  <2>9. \A q \in Runner : app = "running" => sub'.to # {q}
    BY <2>6, <2>7
  <2> QED
    BY <1>6, <2>1, <2>7, <2>8, <2>9 DEF NoticeInv
<1>7. ASSUME NEW r \in Runner, DaemonStep(r) \/ StartFails(r)
      PROVE  NoticeInv'
  <2>1. UNCHANGED <<sub, notices, news, app>>
    BY <1>7 DEF DaemonStep, StartFails, BindPort, BindIpc, Unwind
  <2>2. phase[r] # "serving" /\ \E to : Goes(r, to)
    BY <1>7 DEF DaemonStep, StartFails, BindPort, BindIpc, Unwind, ReturnsBound, Returns
  <2>3. \A q \in Runner : Serving(q) => Serving(q)'
    BY <1>4, <2>2
  <2>4. CASE waiting' = waiting
    BY <1>2, <2>1, <2>3, <2>4
  <2>5. CASE BindIpc(r)
    <3>1. phase[r] = "bound" /\ waiting' = {}
      BY <2>5 DEF BindIpc
    <3>2. \A q \in Runner : ~ Serving(q)
      BY <3>1 DEF PortInv, HoldsPort, Serving
    <3>3. app = "running" => \A q \in Runner : sub.to # {q}
      BY <3>2 DEF NoticeInv
    <3>4. sub.to = {} \/ \E x \in Runner \cup {"ended"} : sub.to = {x}
      BY <1>1 DEF Option
    <3>5. app = "running" => sub.to \in {{}, {"ended"}}
      BY <3>3, <3>4
    <3> QED
      BY <2>1, <3>1, <3>3, <3>5 DEF NoticeInv, notices, news
  <2> QED
    BY <1>7, <2>4, <2>5 DEF DaemonStep, StartFails, BindPort, Unwind
<1>8. ASSUME NEW t \in Thread, ThreadStep(t)
      PROVE  NoticeInv'
  <2>1. t \in Runner /\ phase[t] # "serving" /\ \E to : Goes(t, to)
    BY <1>5, <1>8 DEF ThreadStep, ThreadClears, ThreadTells
  <2>2. UNCHANGED <<sub, notices, news, app, waiting>>
    BY <1>8 DEF ThreadStep, ThreadClears, ThreadTells
  <2> QED
    BY <1>2, <1>4, <2>1, <2>2
<1>9. CASE StopStep
  <2>1. UNCHANGED notices /\ UNCHANGED news /\ (app' = app \/ app' # "running")
    BY <1>9 DEF StopStep, AskDaemon, AskFails, ThreadGone, StopTimeout, StopReturns
  <2>2. \/ \E r \in Runner : ShutDown(r)
        \/ UNCHANGED <<phase, waiting, sub>>
    BY <1>9 DEF StopStep, AskDaemon, AskFails, ThreadGone, StopTimeout, daemons
  <2> QED
    BY <1>2, <1>3, <1>6, <2>1, <2>2
<1>10. CASE CliStop
  BY <1>6, <1>10 DEF CliStop
<1>11. ASSUME NEW c \in Call, CallStep(c)
       PROVE  NoticeInv'
  <2>1. UNCHANGED <<sub, notices, news, app, waiting>>
    BY <1>11 DEF CallStep
  <2>2. UNCHANGED phase \/ \E t \in Thread : ~ Alive(t) /\ Goes(t, "loading")
    BY <1>11 DEF CallStep, SupervisorStart
  <2> QED
    BY <1>2, <1>3, <1>4, <1>5, <2>1, <2>2 DEF Alive
<1>12. CASE CliStart
  BY <1>2, <1>4, <1>5, <1>12 DEF CliStart
<1>13. CASE KeeperEnds \/ Quit \/ Deliver \/ \E c \in Call : Click(c)
  BY <1>2, <1>3, <1>13 DEF KeeperEnds, Quit, Deliver, Click, daemons
<1>14. CASE ProcessEnds
  BY <1>14 DEF ProcessEnds, NoSub, NoticeInv
<1>15. CASE Change
  <2>1. waiting \subseteq waiting /\ merged' = merged \ {} /\ waiting \cap {} = {}
    BY <1>15 DEF Change, news
  <2> QED
    BY <1>1, <1>15, <2>1, FewerNotices DEF Change, notices, news
<1>16. ASSUME NEW p \in Peer, Settle(p) \/ TrayAnswer(p)
       PROVE  NoticeInv'
  <2>1. waiting \ {p} \subseteq waiting /\ (waiting \ {p}) \cap {p} = {}
    OBVIOUS
  <2> QED
    BY <1>1, <1>16, <2>1, FewerNotices DEF Settle, TrayAnswer, notices
<1>17. ASSUME NEW p \in Peer, Ask(p)
       PROVE  NoticeInv'
  <2>1. /\ waiting' = waiting \cup {p} /\ p \notin waiting
        /\ sub'.to = sub.to /\ sub'.line = sub.line /\ sub'.due = TRUE
        /\ untold' = untold \cup {p}
        /\ UNCHANGED <<phase, app, announced, repeated>>
    BY <1>1, <1>17 DEF Ask, Changes, notices
  <2>2. merged' = IF p \in (IF sub.line = {} THEN announced ELSE UNION sub.line)
                  THEN merged \cup {p} ELSE merged \ {p}
    BY <1>17 DEF Ask
  <2>3. \A r \in Runner : Serving(r)' <=> Serving(r)
    BY <2>1 DEF Serving
  <2>4. CASE sub.line = {}
    BY <2>1, <2>2, <2>3, <2>4 DEF NoticeInv
  <2>5. CASE sub.line # {}
    <3>1. PICK s \in SUBSET Peer : sub.line = {s}
      BY <1>1, <2>5 DEF Option
    <3>2. UNION sub.line = s
      BY <3>1
    <3> QED
      BY <2>1, <2>2, <2>3, <3>1, <3>2 DEF NoticeInv
  <2> QED
    BY <2>4, <2>5
<1>18. CASE SubscribeFails
  <2>1. sub.to = {} /\ sub.line = {} /\ sub' = NoSub
    BY <1>18 DEF SubscribeFails, NoticeInv
  <2>2. sub'.to = {} /\ sub'.line = {} /\ UNCHANGED <<phase, waiting, app, announced, repeated, untold, merged>>
    BY <1>18, <2>1 DEF SubscribeFails, NoSub, daemons, notices, news
  <2> QED
    BY <2>1, <2>2 DEF NoticeInv
<1>19. ASSUME NEW r \in Runner, SubscribeTo(r)
       PROVE  NoticeInv'
  <2>1. sub.to = {} /\ sub.line = {} /\ Serving(r)
    BY <1>19 DEF SubscribeTo, NoticeInv
  <2>2. /\ sub'.to = {r} /\ sub'.line = {} /\ sub'.due = TRUE
        /\ UNCHANGED <<phase, waiting, app, announced, repeated, untold, merged>>
    BY <1>19 DEF SubscribeTo, NoSub, daemons, notices, news
  <2>3. \A q \in Runner : sub'.to = {q} => Serving(q)'
    BY <2>1, <2>2 DEF Serving
  <2> QED
    BY <2>1, <2>2, <2>3 DEF NoticeInv
\* The line pushed is the daemon's state.
<1>20. CASE Push
  <2>1. /\ sub.line = {} /\ sub'.to = sub.to /\ sub'.line = {waiting} /\ sub'.due = FALSE
        /\ sub.to # {} /\ app = "running"
        /\ UNCHANGED <<phase, waiting, app, announced, repeated, untold, merged>>
    BY <1>1, <1>20 DEF Push, daemons, notices, news
  <2>2. \A r \in Runner : Serving(r)' <=> Serving(r)
    BY <2>1 DEF Serving
  <2> QED
    BY <2>1, <2>2 DEF NoticeInv
\* The line read tells the untold and is what stays announced.
<1>21. CASE HandleLine
  <2>1. PICK s \in SUBSET Peer : sub.line = {s}
    BY <1>1, <1>21 DEF HandleLine, Option
  <2>2. UNION sub.line = s
    BY <2>1
  <2>3. /\ app = "running" /\ sub'.to = sub.to /\ sub'.line = {} /\ sub'.due = sub.due
        /\ repeated' = repeated \cup ((s \ announced) \ untold)
        /\ untold' = untold \ (s \ announced)
        /\ announced' = (announced \cap s) \cup (s \ announced)
        /\ UNCHANGED <<phase, waiting, app, merged>>
    BY <1>1, <1>21, <2>2 DEF HandleLine, Fresh, Retained, daemons
  <2>4. announced' = s
    BY <2>3
  <2>5. \A p \in s : p \notin announced => p \in untold
    BY <2>1, <2>3 DEF NoticeInv
  <2>6. repeated' = {}
    BY <2>3, <2>5 DEF NoticeInv
  <2>7. \A r \in Runner : Serving(r)' <=> Serving(r)
    BY <2>3 DEF Serving
  <2>8. \A p \in waiting : /\ p \notin s => p \in untold
                           /\ p \in s /\ p \in announced /\ p \in untold => p \in merged
    BY <2>1, <2>3 DEF NoticeInv
  <2>9. sub.to \notin {{}, {"ended"}} /\ ~ sub.due => waiting = s
    BY <2>1, <2>3 DEF NoticeInv
  <2>10. \A r \in Runner : sub.to = {r} => Serving(r)
    BY <2>3 DEF NoticeInv
  <2> QED
    BY <2>3, <2>4, <2>6, <2>7, <2>8, <2>9, <2>10 DEF NoticeInv
<1>22. CASE StreamEnds
  <2>1. sub.line = {} /\ sub' = NoSub
    BY <1>22 DEF StreamEnds
  <2>2. sub'.to = {} /\ sub'.line = {} /\ UNCHANGED <<phase, waiting, app, announced, repeated, untold, merged>>
    BY <1>22, <2>1 DEF StreamEnds, NoSub, daemons, notices, news
  <2> QED
    BY <2>1, <2>2 DEF NoticeInv
<1> QED
  BY <1>7, <1>8, <1>9, <1>10, <1>11, <1>12, <1>13, <1>14, <1>15, <1>16, <1>17, <1>18, <1>19,
     <1>20, <1>21, <1>22 DEF Next, SubStep

-----------------------------------------------------------------------------
LEMMA NextWindow == WindowInv /\ [Next]_vars => WindowInv'
<1> SUFFICES ASSUME WindowInv, [Next]_vars PROVE WindowInv'
  OBVIOUS
<1>1. CASE Next
  BY <1>1, DaemonTypesNext, SupervisorTypesNext, SubscriptionTypesNext, WindowTypesNext,
     PortNext, ThreadNext, NoticeNext DEF WindowInv, Types
<1>2. CASE UNCHANGED vars
  <2>1. Types'
    <3>1. DaemonTypes'
      BY <1>2 DEF vars, daemons, WindowInv, Types, DaemonTypes
    <3>2. SupervisorTypes' /\ SubscriptionTypes' /\ WindowTypes'
      BY <1>2 DEF vars, supervisor, notices, window, WindowInv, Types, SupervisorTypes,
                  SubscriptionTypes, WindowTypes
    <3> QED
      BY <3>1, <3>2 DEF Types
  <2>2. PortInv'
    BY <1>2 DEF vars, daemons, WindowInv, PortInv, HoldsPort
  <2>3. ThreadInv'
    BY <1>2, SameThreads DEF vars, daemons, WindowInv, Alive, InRun
  <2>4. NoticeInv'
    BY <1>2, SameNotices DEF vars, daemons, notices, news, WindowInv, Serving
  <2> QED
    BY <2>1, <2>2, <2>3, <2>4 DEF WindowInv
<1> QED
  BY <1>1, <1>2

LEMMA AlwaysWindow == Spec => []WindowInv
  BY InitWindow, NextWindow, PTL DEF Spec

\* Every variable has its type and one daemon of the machine has the port.
THEOREM WindowTypeCorrect == Spec => []TypeOK
<1>1. WindowInv => TypeOK
  BY DEF WindowInv, Types, DaemonTypes, SupervisorTypes, SubscriptionTypes, WindowTypes, PortInv,
         TypeOK
<1> QED
  BY <1>1, AlwaysWindow, PTL

\* The application runs one daemon thread at most, and the Supervisor has its
\* handle unless a Stop that could not be delivered dropped it.
THEOREM OneThreadAlways == Spec => []OneThread
<1>1. WindowInv => OneThread
  BY DEF WindowInv, ThreadInv
<1> QED
  BY <1>1, AlwaysWindow, PTL

\* is_embedded is true exactly while a daemon of the application is in run().
THEOREM EmbeddedAlwaysTrue == Spec => []EmbeddedIsTrue
<1>1. WindowInv => EmbeddedIsTrue
  BY DEF WindowInv, ThreadInv
<1> QED
  BY <1>1, AlwaysWindow, PTL

\* new_requests announces no request twice.
THEOREM NeverAnnouncedTwice == Spec => []NeverTwice
<1>1. WindowInv => NeverTwice
  BY DEF WindowInv, NoticeInv, NeverTwice
<1> QED
  BY <1>1, AlwaysWindow, PTL

\* Once the subscription has caught up, no waiting request is left untold but one
\* that was merged with an earlier one of its peer (announce_new_requests).
THEOREM AskAlwaysAnnounced == Spec => []AskIsAnnounced
<1>1. WindowInv => AskIsAnnounced
  BY DEF WindowInv, NoticeInv, AskIsAnnounced
<1> QED
  BY <1>1, AlwaysWindow, PTL

\* A Stop that returns with success leaves no daemon thread of the application;
\* of the port it says nothing, which a capture thread may keep (Supervisor::stop).
THEOREM StopAlwaysMeansGone == Spec => StopMeansGone
<1>1. ASSUME WindowInv, Next, op.at # "idle",
             NEW c \in Call, call[c].at = "stopping", call'[c].at = "stopped"
      PROVE  lost \/ \A t \in Thread : phase'[t] = "none"
  <2>1. call \in [Call -> [at : CallPhase, status : Option(SUBSET Peer), late : BOOLEAN]]
    BY <1>1 DEF WindowInv, Types, WindowTypes
  <2>2. Free.at # "stopped" /\ \A at : [Free EXCEPT !.at = at].at = at
    BY DEF Free
  <2>3. call' # call
    BY <1>1
  <2>4. ~ Deliver
    BY <1>1, <2>1 DEF Deliver, StatusEvent, DroppedEvent, ExitedEvent, Calls
  <2>5. \A d \in Call : ~ CallStep(d)
    BY <1>1, <2>1, <2>2 DEF CallStep, Hello, ReadStatus, Answered, Calls
  <2>6. \A d \in Call : ~ Click(d)
    BY <1>1, <2>1 DEF Click, Calls
  <2>7. ~ ProcessEnds
    BY <1>1, <2>2 DEF ProcessEnds
  <2>8. StopStep
    BY <1>1, <2>3, <2>4, <2>5, <2>6, <2>7 DEF Next, DaemonStep, StartFails, BindPort, BindIpc, Unwind,
       ThreadStep, ThreadClears, ThreadTells, Quit, SubStep, SubscribeFails, SubscribeTo, Push,
       HandleLine, StreamEnds, Ask, Settle, TrayAnswer, Change, CliStart, CliStop, KeeperEnds, window
  <2>9. ASSUME NEW ok, StopReturns(ok), call'[c].at = "stopped"
        PROVE  ok
    <3>1. CASE ~ ok
      <4>1. call' = call \/ call' = [call EXCEPT ![op.by] = Free]
        BY <2>9, <3>1 DEF StopReturns
      <4> QED
        BY <1>1, <2>1, <2>2, <4>1
    <3> QED
      BY <3>1
  <2>10. /\ \A t \in op.handle : ~ Alive(t)
         /\ \A t \in Thread : Alive(t)' => Alive(t)
    <3>1. CASE ThreadGone
      BY <3>1 DEF ThreadGone, daemons, Alive
    <3>2. CASE AskDaemon
      <4>1. op.handle = {}
        BY <2>3, <3>2 DEF AskDaemon
      <4>2. phase' = phase \/ \E r \in Runner : ShutDown(r)
        BY <3>2 DEF AskDaemon
      <4>3. phase \in [Runner -> Phase]
        BY <1>1 DEF WindowInv, Types, DaemonTypes
      <4>4. CASE phase' = phase
        BY <4>1, <4>4 DEF Alive
      <4>5. CASE \E r \in Runner : ShutDown(r)
        <5>1. PICK r \in Runner : ShutDown(r)
          BY <4>5
        <5>2. phase' = [phase EXCEPT ![r] = phase'[r]] /\ phase[r] # "none"
          BY <5>1, <4>3 DEF ShutDown, Serving, Goes
        <5>3. \A t \in Thread : t \in Runner
          BY DEF Runner
        <5> QED
          BY <4>1, <4>3, <5>2, <5>3 DEF Alive
      <4> QED
        BY <4>2, <4>4, <4>5
    <3>3. ~ AskFails /\ ~ StopTimeout
      BY <1>1, <2>9 DEF AskFails, StopTimeout
    <3> QED
      BY <2>8, <3>1, <3>2, <3>3 DEF StopStep
  <2>11. app = "running" /\ slot = {}
    BY <1>1, <2>8 DEF StopStep, WindowInv, ThreadInv
  <2> QED
    BY <1>1, <2>10, <2>11 DEF WindowInv, ThreadInv, OneThread, Alive
<1>2. ASSUME WindowInv, UNCHANGED vars, op.at # "idle",
             NEW c \in Call, call[c].at = "stopping", call'[c].at = "stopped"
      PROVE  FALSE
  BY <1>2 DEF vars, window
<1>3. WindowInv /\ [Next]_vars =>
        [StopSucceeds => lost \/ \A t \in Thread : phase'[t] = "none"]_vars
  BY <1>1, <1>2 DEF StopSucceeds
<1> QED
  BY <1>3, AlwaysWindow, PTL DEF Spec, StopMeansGone
=============================================================================
