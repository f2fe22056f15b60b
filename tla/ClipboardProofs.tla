--------------------------- MODULE ClipboardProofs ---------------------------
(***************************************************************************)
(* What the clipboard run checks on two machines, for any number of them,  *)
(* of payloads, of clients that switch sharing, and of switches; and what  *)
(* the settings run checks of the file the switch is kept in.              *)
(***************************************************************************)
EXTENDS Clipboard, TLAPS

Content == Payload \cup {Nothing}
Job == [at : {"idle", "reading", "read", "found", "writing", "written"}, data : Content]

Shape ==
  /\ copied \subseteq Payload /\ sent \subseteq copied
  /\ os \in [Machine -> copied \cup {Nothing}]
  /\ last \in [Machine -> copied \cup {Nothing}]
  /\ poller \in [Machine -> Job]
  /\ applier \in [Machine -> [Machine -> Job]]
  /\ chan \in [Machine -> [Machine -> Seq(Payload)]]

\* What is on its way has been sent, and may be.
InTransit ==
  \A p, m \in Machine : \A i \in DOMAIN chan[p][m] :
    chan[p][m][i] \in sent /\ Valid(chan[p][m][i])

\* So has what a task for a peer is about to write, or has just written.
InHand ==
  \A m, p \in Machine :
    applier[m][p].at # "idle" => applier[m][p].data \in sent /\ Valid(applier[m][p].data)

\* What the polling task has in hand was copied, and may be sent once it is found.
Polled ==
  \A m \in Machine :
    /\ poller[m].at \in {"read", "found"} => poller[m].data \in copied
    /\ poller[m].at = "found" => Valid(poller[m].data)

\* An oversized payload stays where it was copied.
Stays == \A m \in Machine : os[m] \in TooBig => Owner[os[m]] = m

ClipInv == Shape /\ InTransit /\ InHand /\ Polled /\ Stays /\ NoCopySwallowed

LEMMA ClipInit == Init => ClipInv
<1> SUFFICES ASSUME Init PROVE ClipInv
  OBVIOUS
<1> USE DEF Init
<1>1. Idle \in Job /\ Idle.at = "idle"
  BY DEF Idle, Job, Content
<1>2. Shape
  BY <1>1 DEF Shape
<1>3. InTransit /\ InHand /\ Polled
  BY <1>1 DEF InTransit, InHand, Polled
<1>4. Stays /\ NoCopySwallowed
  BY NothingAssumption, TooBigAssumption DEF Stays, NoCopySwallowed
<1> QED
  BY <1>2, <1>3, <1>4 DEF ClipInv

-----------------------------------------------------------------------------
(* Polling                                                                 *)

\* A step of a polling task that changes neither the clipboard nor what counts as
\* synced, and does not lose what it has found.
LEMMA PollMoves ==
  ASSUME ClipInv, NEW m \in Machine, NEW job \in Job, poller[m].at # "found",
         poller' = [poller EXCEPT ![m] = job],
         job.at # "found", job.at = "read" => job.data \in copied,
         UNCHANGED <<os, mgrs, wanted, applier, toggler, chan, copied, sent, toggled>>
  PROVE  ClipInv'
<1>1. Shape'
  BY DEF ClipInv, Shape, mgrs
<1>2. /\ \A n \in Machine \ {m} : poller'[n] = poller[n]
      /\ poller'[m] = job
  BY DEF ClipInv, Shape
<1>3. InTransit' /\ InHand' /\ Stays'
  BY DEF ClipInv, InTransit, InHand, Stays, mgrs, Valid
<1>4. Polled'
  BY <1>2 DEF ClipInv, Polled, mgrs, Valid
<1>5. NoCopySwallowed'
  BY <1>2 DEF ClipInv, NoCopySwallowed, mgrs
<1> QED
  BY <1>1, <1>3, <1>4, <1>5 DEF ClipInv

LEMMA PollStep ==
  ASSUME ClipInv, NEW m \in Machine, Poll(m)
  PROVE  ClipInv'
<1>1. poller[m] \in Job /\ os[m] \in copied \cup {Nothing} /\ copied \subseteq Payload
  BY DEF ClipInv, Shape
<1>2. Idle \in Job /\ Idle.at = "idle"
  BY DEF Idle, Job, Content
<1>3. CASE PollStart(m)
  <2> DEFINE job == [poller[m] EXCEPT !.at = "reading"]
  <2>1. job \in Job /\ job.at = "reading"
    BY <1>1 DEF Job
  <2>2. poller' = [poller EXCEPT ![m] = job] /\ poller[m].at # "found"
    BY <1>3 DEF PollStart
  <2> QED
    BY <1>3, <2>1, <2>2, PollMoves DEF PollStart
<1>4. CASE PollRead(m)
  <2> DEFINE job == [at |-> "read", data |-> os[m]]
  <2>1. job \in Job /\ job.at = "read" /\ job.data = os[m]
    BY <1>1 DEF Job, Content
  <2>2. poller[m].at # "found"
        /\ UNCHANGED <<os, mgrs, wanted, applier, toggler, chan, copied, sent, toggled>>
    BY <1>4 DEF PollRead
  <2>3. CASE poller' = [poller EXCEPT ![m] = Idle]
    BY <1>2, <2>2, <2>3, PollMoves
  <2>4. CASE os[m] # Nothing /\ poller' = [poller EXCEPT ![m] = job]
    BY <1>1, <2>1, <2>2, <2>4, PollMoves
  <2> QED
    BY <1>4, <2>3, <2>4 DEF PollRead
<1>5. CASE PollCompare(m)
  <2> DEFINE d == poller[m].data
             hit == d # last[m] /\ Valid(d)
             job == IF hit THEN [at |-> "found", data |-> d] ELSE Idle
  <2>1. /\ poller[m].at = "read" /\ d \in copied
        /\ last' = [last EXCEPT ![m] = d]
        /\ poller' = [poller EXCEPT ![m] = job]
        /\ UNCHANGED <<os, enabled, wanted, applier, toggler, chan, copied, sent, toggled>>
    BY <1>5 DEF PollCompare, ClipInv, Polled
  <2>2. /\ job \in Job /\ job.at \in {"found", "idle"}
        /\ hit => job.at = "found" /\ job.data = d /\ job = [at |-> "found", data |-> d]
        /\ job.at = "found" => hit
    BY <1>1, <1>2, <2>1 DEF Job, Content
  <2> HIDE DEF job, hit
  <2>3. /\ \A n \in Machine \ {m} : poller'[n] = poller[n] /\ last'[n] = last[n]
        /\ poller'[m] = job /\ last'[m] = d
    BY <2>1 DEF ClipInv, Shape
  <2>4. Shape'
    BY <2>1, <2>2 DEF ClipInv, Shape
  <2>5. InTransit' /\ InHand' /\ Stays'
    BY <2>1 DEF ClipInv, InTransit, InHand, Stays, Valid
  <2>6. Polled'
    BY <2>1, <2>2, <2>3 DEF ClipInv, Polled, Valid, hit
  <2>7. ASSUME NEW n \in Machine, NEW c \in copied \ TooBig, Owner[c] = n, last'[n] = c
        PROVE  c \in sent \/ poller'[n] = [at |-> "found", data |-> c]
    <3>1. CASE n # m
      BY <2>3, <2>7, <3>1 DEF ClipInv, NoCopySwallowed
    <3>2. CASE n = m /\ hit
      BY <2>2, <2>3, <2>7, <3>2
    <3>3. CASE n = m /\ ~ hit
      <4>1. c = d /\ last[m] = d
        BY <2>3, <2>7, <3>3 DEF hit, Valid
      <4>2. poller[m] # [at |-> "found", data |-> c]
        BY <2>1
      <4> QED
        BY <2>7, <3>3, <4>1, <4>2 DEF ClipInv, NoCopySwallowed
    <3> QED
      BY <3>1, <3>2, <3>3
  <2>8. NoCopySwallowed'
    BY <2>1, <2>7 DEF NoCopySwallowed
  <2> QED
    BY <2>4, <2>5, <2>6, <2>8 DEF ClipInv
<1>6. CASE Broadcast(m)
  <2> DEFINE d == poller[m].data
  <2>1. /\ poller[m].at = "found" /\ d \in copied /\ Valid(d)
        /\ chan' = [chan EXCEPT ![m] = [p \in Machine |->
                      IF p = m THEN chan[m][p] ELSE Append(chan[m][p], d)]]
        /\ poller' = [poller EXCEPT ![m] = Idle]
        /\ sent' = sent \cup {d}
        /\ UNCHANGED <<os, mgrs, wanted, applier, toggler, copied, toggled>>
    BY <1>6 DEF Broadcast, ClipInv, Polled
  <2>2. /\ \A n \in Machine \ {m} : poller'[n] = poller[n]
        /\ poller'[m] = Idle
    BY <2>1 DEF ClipInv, Shape
  <2>3. \A q, p \in Machine :
          \/ chan'[q][p] = chan[q][p]
          \/ chan'[q][p] = Append(chan[q][p], d)
    BY <2>1 DEF ClipInv, Shape
  <2>4. chan' \in [Machine -> [Machine -> Seq(Payload)]]
    <3>1. d \in Payload /\ chan \in [Machine -> [Machine -> Seq(Payload)]]
      BY <1>1, <2>1 DEF ClipInv, Shape
    <3>2. \A p \in Machine : chan[m][p] \in Seq(Payload) /\ Append(chan[m][p], d) \in Seq(Payload)
      BY <3>1
    <3> QED
      BY <2>1, <3>1, <3>2
  <2>5. Shape'
    BY <1>1, <1>2, <2>1, <2>4 DEF ClipInv, Shape, mgrs
  <2>6. InTransit'
    <3> SUFFICES ASSUME NEW q \in Machine, NEW p \in Machine, NEW i \in DOMAIN chan'[q][p]
                 PROVE  chan'[q][p][i] \in sent' /\ Valid(chan'[q][p][i])
      BY DEF InTransit, Valid
    <3>1. chan[q][p] \in Seq(Payload)
      BY DEF ClipInv, Shape
    <3>2. \A k \in DOMAIN chan[q][p] : chan[q][p][k] \in sent /\ Valid(chan[q][p][k])
      BY DEF ClipInv, InTransit
    <3>3. CASE chan'[q][p] = chan[q][p]
      BY <2>1, <3>2, <3>3
    <3>4. CASE chan'[q][p] = Append(chan[q][p], d)
      <4>1. i \in 1..(Len(chan[q][p]) + 1)
        BY <3>1, <3>4
      <4>2. CASE i = Len(chan[q][p]) + 1
        BY <2>1, <3>1, <3>4, <4>2
      <4>3. CASE i # Len(chan[q][p]) + 1
        <5>1. i \in DOMAIN chan[q][p] /\ chan'[q][p][i] = chan[q][p][i]
          BY <3>1, <3>4, <4>1, <4>3
        <5> QED
          BY <2>1, <3>2, <5>1
      <4> QED
        BY <4>2, <4>3
    <3> QED
      BY <2>3, <3>3, <3>4
  <2>7. InHand' /\ Stays'
    BY <2>1 DEF ClipInv, InHand, Stays, Valid
  <2>8. Polled'
    BY <1>2, <2>1, <2>2 DEF ClipInv, Polled, Valid
  <2>9. NoCopySwallowed'
    BY <2>1, <2>2 DEF ClipInv, NoCopySwallowed, mgrs
  <2> QED
    BY <2>5, <2>6, <2>7, <2>8, <2>9 DEF ClipInv
<1> QED
  BY <1>3, <1>4, <1>5, <1>6 DEF Poll

-----------------------------------------------------------------------------
(* Updates that arrive                                                     *)

\* A step of m's task for p that leaves the clipboard, or writes what it has in
\* hand, and records nothing.
LEMMA ApplyMoves ==
  ASSUME ClipInv, NEW m \in Machine, NEW p \in Machine, NEW job \in Job,
         job.at # "idle" => job.data \in sent /\ Valid(job.data),
         applier' = [applier EXCEPT ![m][p] = job],
         UNCHANGED <<mgrs, wanted, poller, toggler, copied, sent, toggled>>
  PROVE  /\ applier' \in [Machine -> [Machine -> Job]]
         /\ InHand' /\ Polled' /\ NoCopySwallowed'
<1>1. applier' \in [Machine -> [Machine -> Job]]
  BY DEF ClipInv, Shape
<1>2. \A n, q \in Machine : applier'[n][q] = IF n = m /\ q = p THEN job ELSE applier[n][q]
  BY DEF ClipInv, Shape
<1>3. InHand'
  BY <1>2 DEF ClipInv, InHand, Valid
<1>4. Polled' /\ NoCopySwallowed'
  BY DEF ClipInv, Polled, NoCopySwallowed, mgrs, Valid
<1> QED
  BY <1>1, <1>3, <1>4

LEMMA ApplyStep ==
  ASSUME ClipInv, NEW m \in Machine, NEW p \in Machine, Apply(m, p)
  PROVE  ClipInv'
<1>1. /\ applier[m][p] \in Job /\ copied \subseteq Payload /\ sent \subseteq copied
      /\ chan \in [Machine -> [Machine -> Seq(Payload)]]
      /\ os \in [Machine -> copied \cup {Nothing}]
  BY DEF ClipInv, Shape
<1>2. Idle \in Job /\ Idle.at = "idle"
  BY DEF Idle, Job, Content
<1>3. CASE ApplyStart(m, p)
  <2> DEFINE d == Head(chan[p][m])
             job == IF enabled[m] /\ Valid(d) THEN [at |-> "writing", data |-> d] ELSE Idle
  <2>1. /\ chan[p][m] # <<>>
        /\ applier' = [applier EXCEPT ![m][p] = job]
        /\ chan' = [chan EXCEPT ![p][m] = Tail(@)]
        /\ UNCHANGED <<os, mgrs, wanted, poller, toggler, copied, sent, toggled>>
    BY <1>3 DEF ApplyStart
  <2>2. d \in sent /\ Valid(d)
    <3>1. 1 \in DOMAIN chan[p][m] /\ d = chan[p][m][1]
      BY <1>1, <2>1
    <3> QED
      BY <3>1 DEF ClipInv, InTransit
  <2>3. job \in Job /\ (job.at # "idle" => job.data \in sent /\ Valid(job.data))
    BY <1>1, <1>2, <2>2 DEF Job, Content
  <2> HIDE DEF job
  <2>4. /\ applier' \in [Machine -> [Machine -> Job]]
        /\ InHand' /\ Polled' /\ NoCopySwallowed'
    BY <2>1, <2>3, ApplyMoves
  <2>5. Tail(chan[p][m]) \in Seq(Payload)
    BY <1>1, <2>1
  <2>6. /\ chan' \in [Machine -> [Machine -> Seq(Payload)]]
        /\ \A q, n \in Machine : chan'[q][n] = IF q = p /\ n = m THEN Tail(chan[q][n])
                                               ELSE chan[q][n]
    BY <1>1, <2>1, <2>5
  <2>7. Shape'
    BY <2>1, <2>4, <2>6 DEF ClipInv, Shape, mgrs
  <2>8. InTransit'
    <3> SUFFICES ASSUME NEW q \in Machine, NEW n \in Machine, NEW i \in DOMAIN chan'[q][n]
                 PROVE  chan'[q][n][i] \in sent /\ Valid(chan'[q][n][i])
      BY <2>1 DEF InTransit, Valid
    <3>1. \A k \in DOMAIN chan[q][n] : chan[q][n][k] \in sent /\ Valid(chan[q][n][k])
      BY DEF ClipInv, InTransit
    <3>2. CASE q = p /\ n = m
      <4>1. chan[q][n] \in Seq(Payload) /\ chan[q][n] # <<>> /\ chan'[q][n] = Tail(chan[q][n])
        BY <1>1, <2>1, <2>6, <3>2
      <4>2. i + 1 \in DOMAIN chan[q][n] /\ chan'[q][n][i] = chan[q][n][i + 1]
        BY <4>1
      <4> QED
        BY <3>1, <4>2
    <3>3. CASE ~ (q = p /\ n = m)
      BY <2>6, <3>1, <3>3
    <3> QED
      BY <3>2, <3>3
  <2>9. Stays'
    BY <2>1 DEF ClipInv, Stays
  <2> QED
    BY <2>4, <2>7, <2>8, <2>9 DEF ClipInv
<1>4. CASE ApplyWrite(m, p)
  <2>1. /\ applier[m][p].at = "writing"
        /\ UNCHANGED <<mgrs, wanted, poller, toggler, chan, copied, sent, toggled>>
    BY <1>4 DEF ApplyWrite
  <2> DEFINE job == [applier[m][p] EXCEPT !.at = "written"]
             d == applier[m][p].data
  <2>2. d \in sent /\ Valid(d)
    BY <2>1 DEF ClipInv, InHand
  <2>3. job \in Job /\ job.data = d
    BY <1>1 DEF Job
  <2> HIDE DEF job
  <2>4. InTransit'
    BY <2>1 DEF ClipInv, InTransit, Valid
  <2>5. CASE os' = [os EXCEPT ![m] = d] /\ applier' = [applier EXCEPT ![m][p] = job]
    <3>1. /\ applier' \in [Machine -> [Machine -> Job]]
          /\ InHand' /\ Polled' /\ NoCopySwallowed'
      BY <2>1, <2>2, <2>3, <2>5, ApplyMoves
    <3>2. Shape'
      BY <1>1, <2>1, <2>2, <2>5, <3>1 DEF ClipInv, Shape, mgrs
    <3>3. Stays'
      BY <1>1, <2>2, <2>5 DEF ClipInv, Stays, Valid
    <3> QED
      BY <2>4, <3>1, <3>2, <3>3 DEF ClipInv
  <2>6. CASE os' = os /\ applier' = [applier EXCEPT ![m][p] = Idle]
    <3>1. /\ applier' \in [Machine -> [Machine -> Job]]
          /\ InHand' /\ Polled' /\ NoCopySwallowed'
      BY <1>2, <2>1, <2>6, ApplyMoves
    <3>2. Shape' /\ Stays'
      BY <2>1, <2>6, <3>1 DEF ClipInv, Shape, mgrs, Stays
    <3> QED
      BY <2>4, <3>1, <3>2 DEF ClipInv
  <2> QED
    BY <1>4, <2>5, <2>6 DEF ApplyWrite, job
<1>5. CASE ApplyRecord(m, p)
  <2> DEFINE d == applier[m][p].data
  <2>1. /\ applier[m][p].at = "written"
        /\ last' = [last EXCEPT ![m] = d]
        /\ applier' = [applier EXCEPT ![m][p] = Idle]
        /\ UNCHANGED <<os, enabled, wanted, poller, toggler, chan, copied, sent, toggled>>
    BY <1>5 DEF ApplyRecord
  <2>2. d \in sent
    BY <2>1 DEF ClipInv, InHand
  <2>3. Shape'
    BY <1>1, <1>2, <2>1, <2>2 DEF ClipInv, Shape
  <2>4. InTransit' /\ Polled' /\ Stays'
    BY <2>1 DEF ClipInv, InTransit, Polled, Stays, Valid
  <2>5. InHand'
    <3>1. \A n, q \in Machine : applier'[n][q] = IF n = m /\ q = p THEN Idle ELSE applier[n][q]
      BY <2>1 DEF ClipInv, Shape
    <3> QED
      BY <1>2, <2>1, <3>1 DEF ClipInv, InHand, Valid
  <2>6. NoCopySwallowed'
    <3>1. last'[m] = d /\ \A n \in Machine \ {m} : last'[n] = last[n]
      BY <2>1 DEF ClipInv, Shape
    <3> QED
      BY <2>1, <2>2, <3>1 DEF ClipInv, NoCopySwallowed
  <2> QED
    BY <2>3, <2>4, <2>5, <2>6 DEF ClipInv
<1> QED
  BY <1>3, <1>4, <1>5 DEF Apply

-----------------------------------------------------------------------------
(* Switching, and copying                                                  *)

LEMMA ToggleStep ==
  ASSUME ClipInv, NEW m \in Machine, NEW k \in Client, Toggle(m, k)
  PROVE  ClipInv'
<1>1. /\ UNCHANGED <<os, poller, applier, chan, copied, sent>>
      /\ last' = last \/ last' = [last EXCEPT ![m] = Nothing]
  BY DEF Toggle, ToggleStart, ToggleForget, ToggleSignal, mgrs
<1>2. Shape'
  BY <1>1 DEF ClipInv, Shape
<1>3. InTransit' /\ InHand' /\ Polled' /\ Stays'
  BY <1>1 DEF ClipInv, InTransit, InHand, Polled, Stays, Valid
<1>4. NoCopySwallowed'
  <2>1. \A n \in Machine : last'[n] = last[n] \/ last'[n] = Nothing
    BY <1>1 DEF ClipInv, Shape
  <2>2. Nothing \notin copied
    BY NothingAssumption DEF ClipInv, Shape
  <2> QED
    BY <1>1, <2>1, <2>2 DEF ClipInv, NoCopySwallowed
<1> QED
  BY <1>2, <1>3, <1>4 DEF ClipInv

\* A new copy is not what counts as synced: that was copied before.
LEMMA CopyStep ==
  ASSUME ClipInv, NEW m \in Machine, NEW d \in Payload, Copy(m, d)
  PROVE  ClipInv'
<1>1. /\ Owner[d] = m /\ d \notin copied
      /\ os' = [os EXCEPT ![m] = d] /\ copied' = copied \cup {d}
      /\ UNCHANGED <<last, poller, applier, chan, sent>>
  BY DEF Copy, mgrs
<1>2. Shape'
  BY <1>1 DEF ClipInv, Shape
<1>3. InTransit' /\ InHand' /\ Polled'
  BY <1>1 DEF ClipInv, InTransit, InHand, Polled, Valid
<1>4. Stays'
  <2>1. os'[m] = d /\ \A n \in Machine \ {m} : os'[n] = os[n]
    BY <1>1 DEF ClipInv, Shape
  <2> QED
    BY <1>1, <2>1 DEF ClipInv, Stays
<1>5. NoCopySwallowed'
  <2>1. \A n \in Machine : last[n] # d
    BY <1>1, NothingAssumption DEF ClipInv, Shape
  <2> QED
    BY <1>1, <2>1 DEF ClipInv, NoCopySwallowed
<1> QED
  BY <1>2, <1>3, <1>4, <1>5 DEF ClipInv

-----------------------------------------------------------------------------
LEMMA ClipStep == ClipInv /\ [Next]_vars => ClipInv'
<1> SUFFICES ASSUME ClipInv, [Next]_vars PROVE ClipInv'
  OBVIOUS
<1>1. CASE Next
  BY <1>1, PollStep, ApplyStep, ToggleStep, CopyStep DEF Next
<1>2. CASE UNCHANGED vars
  BY <1>2 DEF vars, mgrs, ClipInv, Shape, InTransit, InHand, Polled, Stays, NoCopySwallowed, Valid
<1> QED
  BY <1>1, <1>2

\* On any number of machines, no update that arrives swallows a copy made while
\* it was applied (poll_local_change, handle_remote_update).
THEOREM NoCopyIsSwallowed == Spec => []NoCopySwallowed
<1>1. ClipInv => NoCopySwallowed
  BY DEF ClipInv
<1> QED
  BY ClipInit, ClipStep, <1>1, PTL DEF Spec

\* What validate() refuses neither leaves a machine nor is written to another's
\* clipboard, whoever switches sharing meanwhile.
THEOREM OnlyValidEverTravels == Spec => []OnlyValidTravels
<1>1. ClipInv => OnlyValidTravels
  BY DEF ClipInv, InTransit, Stays, OnlyValidTravels
<1> QED
  BY ClipInit, ClipStep, <1>1, PTL DEF Spec
-----------------------------------------------------------------------------
(***************************************************************************)
(* `omni clipboard' also writes the switch to the config file, as `omni    *)
(* layout' and `omni modifiers' write theirs.  What Settings says of one   *)
(* client at a time: between the requests the file has what the memory     *)
(* has, save for the settings whose last request failed, and during one    *)
(* so does the copy of the file that will be written.                      *)
(***************************************************************************)

CONSTANTS Setting, Value, Default, MaxChange, MaxCrash, DiskFails
VARIABLES up, memory, file, request, unsaved, changes, crashes

Config == INSTANCE Settings

OneClient == \A k, l \in Client : k = l

Request ==
  {Config!Idle} \cup [at : {"load"}, setting : Setting, value : Value]
    \cup [at : {"truncate", "write"}, setting : Setting, value : Value,
          config : [Setting -> Value]]

ConfigTypes ==
  /\ memory \in [Setting -> Value]
  /\ file = Config!Torn \/ file \in [Setting -> Value]
  /\ request \in [Client -> Request]

\* A setting that no request is about.
Quiet(s) == \A k \in Client : request[k] # Config!Idle => request[k].setting # s

ConfigInv ==
  /\ ConfigTypes
  /\ ~ up => \A k \in Client : request[k] = Config!Idle
  /\ file # Config!Torn =>
       \A s \in Setting \ unsaved : Quiet(s) => file[s] = memory[s]
  /\ \A k \in Client : request[k].at # "idle" =>
       memory[request[k].setting] = request[k].value
  /\ \A k \in Client : request[k].at \in {"truncate", "write"} =>
       \A s \in (Setting \ unsaved) \cup {request[k].setting} :
         request[k].config[s] = memory[s]
  /\ \A k \in Client : request[k].at = "write" => file = Config!Torn

LEMMA RequestFields ==
  \A r \in Request :
    /\ r.at = "idle" <=> r = Config!Idle
    /\ r.at \in {"idle", "load", "truncate", "write"}
    /\ r.at # "idle" => r.setting \in Setting /\ r.value \in Value
    /\ r.at \in {"truncate", "write"} => r.config \in [Setting -> Value]
BY DEF Request, Config!Idle

LEMMA InitConfig == Default \in Value /\ Config!Init => ConfigInv
<1> SUFFICES ASSUME Default \in Value, Config!Init PROVE ConfigInv
  OBVIOUS
<1>1. ConfigTypes
  BY DEF Config!Init, ConfigTypes, Request
<1>2. \A k \in Client : request[k].at = "idle"
  BY DEF Config!Init, Config!Idle
<1> QED
  BY <1>1, <1>2 DEF Config!Init, ConfigInv

LEMMA NextConfig == OneClient /\ ConfigInv /\ [Config!Next]_(Config!vars) => ConfigInv'
<1> SUFFICES ASSUME OneClient, ConfigInv, [Config!Next]_(Config!vars) PROVE ConfigInv'
  OBVIOUS
<1>0. ConfigTypes /\ Config!Idle \in Request /\ Config!Idle.at = "idle"
  BY DEF ConfigInv, Request, Config!Idle
<1>1. ASSUME NEW k \in Client, NEW s \in Setting, NEW v \in Value, Config!Change(k, s, v)
      PROVE  ConfigInv'
  <2>1. PICK r : r = [at |-> "load", setting |-> s, value |-> v]
    OBVIOUS
  <2>2. r \in Request /\ r.at = "load" /\ r.setting = s /\ r.value = v /\ r # Config!Idle
    BY <1>0, <2>1 DEF Request
  <2>3. /\ memory' = [memory EXCEPT ![s] = v] /\ request' = [request EXCEPT ![k] = r]
        /\ file' = file /\ unsaved' = unsaved /\ up' = up /\ up /\ request[k] = Config!Idle
    BY <1>1, <2>1 DEF Config!Change
  <2>4. request'[k] = r /\ \A l \in Client : l = k
    BY <1>0, <2>3 DEF ConfigTypes, OneClient
  <2>5. ConfigTypes'
    BY <1>0, <2>2, <2>3 DEF ConfigTypes
  <2>6. memory'[s] = v /\ \A x \in Setting \ {s} : memory'[x] = memory[x]
    BY <1>0, <2>3 DEF ConfigTypes
  <2>7. \A x \in Setting : Quiet(x)' => x # s /\ Quiet(x)
    BY <2>2, <2>3, <2>4 DEF Quiet
  <2> QED
    BY <2>2, <2>3, <2>4, <2>5, <2>6, <2>7 DEF ConfigInv
<1>2. ASSUME NEW k \in Client, request[k].at # "idle", Config!Fail(k),
             memory' = memory, up' = up, file' = file
      PROVE  ConfigInv'
  <2>1. /\ request' = [request EXCEPT ![k] = Config!Idle]
        /\ unsaved' = unsaved \cup {request[k].setting}
    BY <1>2 DEF Config!Fail
  <2>2. \A l \in Client : l = k /\ request'[l] = Config!Idle
    BY <1>0, <2>1 DEF ConfigTypes, OneClient
  <2>3. ConfigTypes'
    BY <1>0, <1>2, <2>1 DEF ConfigTypes
  <2>4. \A s \in Setting \ unsaved' : s \notin unsaved /\ Quiet(s)
    BY <2>1, <2>2 DEF Quiet
  <2> QED
    BY <1>0, <1>2, <2>2, <2>3, <2>4 DEF ConfigInv
<1>3. ASSUME NEW k \in Client, Config!Load(k)
      PROVE  ConfigInv'
  <2>1. /\ request[k].at = "load" /\ memory' = memory /\ up' = up /\ file' = file
        /\ request[k] \in Request
    BY <1>0, <1>3 DEF Config!Load, ConfigTypes
  <2>2. CASE Config!Fail(k)
    BY <1>2, <2>1, <2>2
  <2>3. CASE file # Config!Torn /\ request' = [request EXCEPT ![k] = Config!Merged(k, file)]
             /\ unsaved' = unsaved
    <3>1. PICK s : s = request[k].setting
      OBVIOUS
    <3>2. PICK v : v = request[k].value
      OBVIOUS
    <3>3. s \in Setting /\ v \in Value /\ request[k] # Config!Idle /\ file \in [Setting -> Value]
      BY <1>0, <2>1, <2>3, <3>1, <3>2, RequestFields DEF ConfigTypes
    <3>4. PICK c : c = [file EXCEPT ![s] = v]
      OBVIOUS
    <3>5. c \in [Setting -> Value] /\ c[s] = v /\ \A x \in Setting \ {s} : c[x] = file[x]
      BY <3>3, <3>4
    <3>6. PICK r : r = [at |-> "truncate", setting |-> s, value |-> v, config |-> c]
      OBVIOUS
    <3>7. r \in Request /\ r.at = "truncate" /\ r.setting = s /\ r.value = v /\ r.config = c
      BY <3>3, <3>5, <3>6 DEF Request
    <3>8. request' = [request EXCEPT ![k] = r]
      BY <2>3, <3>1, <3>2, <3>4, <3>6 DEF Config!Merged
    <3>9. ConfigTypes' /\ request'[k] = r /\ \A l \in Client : l = k
      BY <1>0, <2>1, <3>7, <3>8 DEF ConfigTypes, OneClient
    <3>10. \A x \in Setting : Quiet(x) <=> x # s
      BY <3>1, <3>3, <3>9 DEF Quiet
    <3>11. \A x \in Setting : Quiet(x)' => x # s
      BY <1>0, <3>7, <3>9 DEF Quiet
    <3>12. memory[s] = v
      BY <2>1, <3>1, <3>2 DEF ConfigInv
    <3>13. \A x \in (Setting \ unsaved) \cup {s} : c[x] = memory[x]
      BY <2>3, <3>5, <3>10, <3>12 DEF ConfigInv
    <3>14. up
      BY <3>3 DEF ConfigInv
    <3> QED
      BY <2>1, <2>3, <3>7, <3>9, <3>10, <3>11, <3>12, <3>13, <3>14 DEF ConfigInv
  <2> QED
    BY <1>3, <2>2, <2>3 DEF Config!Load
<1>4. ASSUME NEW k \in Client, Config!Truncate(k)
      PROVE  ConfigInv'
  <2>1. /\ request[k].at = "truncate" /\ memory' = memory /\ up' = up /\ request[k] \in Request
    BY <1>0, <1>4 DEF Config!Truncate, ConfigTypes
  <2>2. CASE Config!Fail(k) /\ file' = file
    BY <1>2, <2>1, <2>2
  <2>3. CASE /\ file' = Config!Torn /\ request' = [request EXCEPT ![k].at = "write"]
             /\ unsaved' = unsaved
    <3>1. PICK r : r = [request[k] EXCEPT !.at = "write"]
      OBVIOUS
    <3>2. /\ r \in Request /\ r.at = "write" /\ r.setting = request[k].setting
          /\ r.value = request[k].value /\ r.config = request[k].config
      <4>1. request[k] \in [at : {"truncate", "write"}, setting : Setting, value : Value,
                            config : [Setting -> Value]]
        BY <2>1 DEF Request, Config!Idle
      <4> QED
        BY <3>1, <4>1 DEF Request
    <3>3. request' = [request EXCEPT ![k] = r]
      BY <2>3, <3>1
    <3>4. ConfigTypes' /\ request'[k] = r /\ \A l \in Client : l = k
      BY <1>0, <2>1, <2>3, <3>2, <3>3 DEF ConfigTypes, OneClient
    <3>5. up
      BY <2>1, RequestFields DEF ConfigInv
    <3> QED
      BY <2>1, <2>3, <3>2, <3>4, <3>5 DEF ConfigInv
  <2> QED
    BY <1>4, <2>2, <2>3 DEF Config!Truncate
<1>5. ASSUME NEW k \in Client, Config!Write(k)
      PROVE  ConfigInv'
  <2>1. /\ request[k].at = "write" /\ memory' = memory /\ up' = up /\ request[k] \in Request
        /\ file = Config!Torn
    BY <1>0, <1>5 DEF Config!Write, ConfigTypes, ConfigInv
  <2>2. CASE Config!Fail(k) /\ file' = file
    BY <1>2, <2>1, <2>2
  <2>3. CASE /\ file' = request[k].config /\ request' = [request EXCEPT ![k] = Config!Idle]
             /\ unsaved' = {s \in unsaved : s # request[k].setting \/ memory[s] # request[k].value}
    <3>1. PICK c : c = request[k].config
      OBVIOUS
    <3>2. c \in [Setting -> Value]
      BY <2>1, <3>1, RequestFields
    <3>3. ConfigTypes'
      BY <1>0, <2>1, <2>3, <3>1, <3>2 DEF ConfigTypes
    <3>4. \A l \in Client : request'[l] = Config!Idle
      BY <1>0, <2>3 DEF ConfigTypes, OneClient
    <3>5. memory[request[k].setting] = request[k].value
      BY <2>1 DEF ConfigInv
    <3>6. \A s \in Setting \ unsaved' : s \in (Setting \ unsaved) \cup {request[k].setting}
      BY <2>3, <3>5
    <3>7. \A s \in Setting \ unsaved' : c[s] = memory[s]
      BY <2>1, <3>1, <3>6 DEF ConfigInv
    <3> QED
      BY <1>0, <2>1, <2>3, <3>1, <3>3, <3>4, <3>7 DEF ConfigInv
  <2> QED
    BY <1>5, <2>1, <2>2, <2>3 DEF Config!Write
<1>6. CASE Config!Crash
  <2>1. /\ up' = FALSE /\ request' = [k \in Client |-> Config!Idle]
        /\ memory' = memory /\ file' = file
        /\ unsaved' = unsaved \cup
             {request[k].setting : k \in {x \in Client : request[x] # Config!Idle}}
    BY <1>6 DEF Config!Crash
  <2>2. ConfigTypes'
    BY <1>0, <2>1 DEF ConfigTypes
  <2>3. \A s \in Setting \ unsaved' : s \notin unsaved /\ Quiet(s)
    BY <2>1 DEF Quiet
  <2>4. \A k \in Client : request'[k] = Config!Idle
    BY <2>1
  <2> QED
    BY <1>0, <2>1, <2>2, <2>3, <2>4 DEF ConfigInv
<1>7. CASE Config!Start
  <2>1. /\ ~ up /\ file # Config!Torn /\ up' /\ memory' = file /\ file' = file
        /\ request' = request /\ unsaved' = unsaved
    BY <1>7 DEF Config!Start
  <2>2. ConfigTypes' /\ \A k \in Client : request'[k].at = "idle"
    BY <1>0, <2>1 DEF ConfigTypes, ConfigInv
  <2> QED
    BY <2>1, <2>2 DEF ConfigInv
<1>8. CASE UNCHANGED Config!vars
  BY <1>8 DEF Config!vars, ConfigInv, ConfigTypes, Quiet
<1> QED
  BY <1>1, <1>3, <1>4, <1>5, <1>6, <1>7, <1>8 DEF Config!Next

\* With one client at a time, a setting whose change was answered with Ok is in
\* the file as it is in memory, however many settings there are and however often
\* saving fails or the daemon dies (set_layout, set_modifier_swap, set_clipboard,
\* Config::save).
THEOREM ConfirmedIsKept ==
  ASSUME OneClient, Default \in Value
  PROVE  Config!Spec => []Config!KeptOnceConfirmed
<1>1. ConfigInv => Config!KeptOnceConfirmed
  BY DEF ConfigInv, Quiet, Config!KeptOnceConfirmed
<1> QED
  BY InitConfig, NextConfig, <1>1, PTL DEF Config!Spec
=============================================================================
