------------------------------ MODULE Clipboard -----------------------------
(***************************************************************************)
(* Opt-in clipboard sharing: on each machine the ClipboardManager, the     *)
(* task that polls the local clipboard and broadcasts new copies, the      *)
(* peers' tasks that apply what arrives, and `omni clipboard on|off'.      *)
(* They run on different threads and meet in the OS clipboard, the enabled *)
(* flag and last_synced only, so each access to one of these is a step of  *)
(* its own.                                                                *)
(*                                                                         *)
(* Every copy a user makes has a payload of its own, so that a payload     *)
(* tells who copied it.  What a machine sends travels to a peer in order:  *)
(* command queue, sender task and bulk stream are one queue here.          *)
(***************************************************************************)
EXTENDS Naturals, Sequences, FiniteSets

CONSTANTS
  Machine,    \* machines, each with a session with every other
  Payload,    \* what users copy, each once
  Owner,      \* payload -> the machine it is copied on
  TooBig,     \* the payloads over MAX_CLIPBOARD_BYTES, or malformed
  Nothing,    \* an empty clipboard; no last_synced
  Client,     \* IPC clients that may be toggling at the same time
  Toggles,    \* bound: how often sharing is switched, all together
  Startup,    \* the machines on which sharing is on from the start
  Busy        \* the machines whose OS clipboard may refuse an access

ASSUME OwnerAssumption == Owner \in [Payload -> Machine]
ASSUME TooBigAssumption == TooBig \subseteq Payload
ASSUME NothingAssumption == Nothing \notin Payload
ASSUME TogglesAssumption == Toggles \in Nat
ASSUME StartupAssumption == Startup \subseteq Machine
ASSUME BusyAssumption == Busy \subseteq Machine

VARIABLES
  os,        \* the OS clipboard of each machine
  enabled,   \* ClipboardManager::enabled
  last,      \* ClipboardState::last_synced
  wanted,    \* the watch channel clipboard_on
  poller,    \* the polling task: [at, data]
  applier,   \* applier[m][p]: m's task for peer p: [at, data]
  toggler,   \* toggler[m][k]: client k's set_clipboard on m: [at, on]
  chan,      \* chan[p][m]: payloads on their way from p to m
  copied,    \* the payloads copied so far
  sent,      \* history: the payloads that were ever broadcast
  toggled    \* how often sharing was switched

mgrs == <<enabled, last>>
vars == <<os, enabled, last, wanted, poller, applier, toggler, chan, copied, sent, toggled>>

Idle == [at |-> "idle", data |-> Nothing]

Init ==
  /\ os = [m \in Machine |-> Nothing]
  /\ enabled = [m \in Machine |-> m \in Startup]
  /\ last = [m \in Machine |-> Nothing]
  /\ wanted = [m \in Machine |-> m \in Startup]
  /\ poller = [m \in Machine |-> Idle]
  /\ applier = [m \in Machine |-> [p \in Machine |-> Idle]]
  /\ toggler = [m \in Machine |-> [k \in Client |-> [at |-> "idle", on |-> FALSE]]]
  /\ chan = [p \in Machine |-> [m \in Machine |-> <<>>]]
  /\ copied = {}
  /\ sent = {}
  /\ toggled = 0

\* ClipboardData::validate
Valid(d) == d \notin TooBig

-----------------------------------------------------------------------------
(* poll_local_change and broadcast_local_clipboard                         *)

\* A tick of the polling task, which is parked while clipboard_on is false.  With
\* the manager disabled the poll is over at once.
PollStart(m) ==
  /\ poller[m].at = "idle" /\ wanted[m] /\ enabled[m]
  /\ poller' = [poller EXCEPT ![m].at = "reading"]
  /\ UNCHANGED <<os, mgrs, wanted, applier, toggler, chan, copied, sent, toggled>>

\* port.read(): an empty clipboard, or one that another application holds, ends
\* the poll.
PollRead(m) ==
  /\ poller[m].at = "reading"
  /\ \/ poller' = [poller EXCEPT ![m] =
                     IF os[m] = Nothing THEN Idle ELSE [at |-> "read", data |-> os[m]]]
     \/ m \in Busy /\ poller' = [poller EXCEPT ![m] = Idle]
  /\ UNCHANGED <<os, mgrs, wanted, applier, toggler, chan, copied, sent, toggled>>

\* Mutant: an oversized payload is sent all the same.
PollCompareUnchecked(m) ==
  /\ poller[m].at = "read"
  /\ LET d == poller[m].data IN
     /\ last' = [last EXCEPT ![m] = d]
     /\ poller' = [poller EXCEPT ![m] = IF d # last[m] THEN [at |-> "found", data |-> d]
                                        ELSE Idle]
  /\ UNCHANGED <<os, enabled, wanted, applier, toggler, chan, copied, sent, toggled>>

PollCompare(m) ==
  /\ poller[m].at = "read"
  /\ LET d == poller[m].data IN
     /\ last' = [last EXCEPT ![m] = d]
     /\ poller' = [poller EXCEPT ![m] = IF d # last[m] /\ Valid(d)
                                        THEN [at |-> "found", data |-> d] ELSE Idle]
  /\ UNCHANGED <<os, enabled, wanted, applier, toggler, chan, copied, sent, toggled>>

Broadcast(m) ==
  /\ poller[m].at = "found"
  /\ chan' = [chan EXCEPT ![m] = [p \in Machine |->
                IF p = m THEN @[p] ELSE Append(@[p], poller[m].data)]]
  /\ poller' = [poller EXCEPT ![m] = Idle]
  /\ sent' = sent \cup {poller[m].data}
  /\ UNCHANGED <<os, mgrs, wanted, applier, toggler, copied, toggled>>

-----------------------------------------------------------------------------
(* handle_remote_update, called from run_peer                              *)

\* A payload arrives; it is dropped when sharing is off or it is not valid.
ApplyStart(m, p) ==
  /\ applier[m][p].at = "idle" /\ chan[p][m] # <<>>
  /\ LET d == Head(chan[p][m]) IN
     applier' = [applier EXCEPT ![m][p] = IF enabled[m] /\ Valid(d)
                                          THEN [at |-> "writing", data |-> d] ELSE Idle]
  /\ chan' = [chan EXCEPT ![p][m] = Tail(@)]
  /\ UNCHANGED <<os, mgrs, wanted, poller, toggler, copied, sent, toggled>>

ApplyWrite(m, p) ==
  /\ applier[m][p].at = "writing"
  /\ \/ /\ os' = [os EXCEPT ![m] = applier[m][p].data]
        /\ applier' = [applier EXCEPT ![m][p].at = "written"]
     \/ /\ m \in Busy
        /\ applier' = [applier EXCEPT ![m][p] = Idle]
        /\ UNCHANGED os
  /\ UNCHANGED <<mgrs, wanted, poller, toggler, chan, copied, sent, toggled>>

\* Mutant: what the clipboard holds now is recorded, not what was written.
ApplyReread(m, p) ==
  /\ applier[m][p].at = "written"
  /\ last' = [last EXCEPT ![m] = os[m]]
  /\ applier' = [applier EXCEPT ![m][p] = Idle]
  /\ UNCHANGED <<os, enabled, wanted, poller, toggler, chan, copied, sent, toggled>>

ApplyRecord(m, p) ==
  /\ applier[m][p].at = "written"
  /\ last' = [last EXCEPT ![m] = applier[m][p].data]
  /\ applier' = [applier EXCEPT ![m][p] = Idle]
  /\ UNCHANGED <<os, enabled, wanted, poller, toggler, chan, copied, sent, toggled>>

-----------------------------------------------------------------------------
(* set_clipboard                                                           *)

ToggleStart(m, k, on) ==
  /\ toggler[m][k].at = "idle"
  /\ toggled < Toggles
  /\ toggled' = toggled + 1
  /\ enabled' = [enabled EXCEPT ![m] = on]
  /\ toggler' = [toggler EXCEPT ![m][k] = [at |-> IF on THEN "signal" ELSE "forget",
                                           on |-> on]]
  /\ UNCHANGED <<os, last, wanted, poller, applier, chan, copied, sent>>

ToggleForget(m, k) ==
  /\ toggler[m][k].at = "forget"
  /\ last' = [last EXCEPT ![m] = Nothing]
  /\ toggler' = [toggler EXCEPT ![m][k].at = "signal"]
  /\ UNCHANGED <<os, enabled, wanted, poller, applier, chan, copied, sent, toggled>>

ToggleSignal(m, k) ==
  /\ toggler[m][k].at = "signal"
  /\ wanted' = [wanted EXCEPT ![m] = toggler[m][k].on]
  /\ toggler' = [toggler EXCEPT ![m][k].at = "idle"]
  /\ UNCHANGED <<os, mgrs, poller, applier, chan, copied, sent, toggled>>

-----------------------------------------------------------------------------
(* Users                                                                   *)

Copy(m, d) ==
  /\ Owner[d] = m
  /\ d \notin copied
  /\ os' = [os EXCEPT ![m] = d]
  /\ copied' = copied \cup {d}
  /\ UNCHANGED <<mgrs, wanted, poller, applier, toggler, chan, sent, toggled>>

-----------------------------------------------------------------------------
Poll(m) == PollStart(m) \/ PollRead(m) \/ PollCompare(m) \/ Broadcast(m)

Apply(m, p) == ApplyStart(m, p) \/ ApplyWrite(m, p) \/ ApplyRecord(m, p)

Toggle(m, k) ==
  \/ \E on \in BOOLEAN : ToggleStart(m, k, on)
  \/ ToggleForget(m, k)
  \/ ToggleSignal(m, k)

Next ==
  \E m \in Machine :
    \/ Poll(m)
    \/ \E p \in Machine : Apply(m, p)
    \/ \E k \in Client : Toggle(m, k)
    \/ \E d \in Payload : Copy(m, d)

Spec == Init /\ [][Next]_vars

-----------------------------------------------------------------------------
(* Properties                                                              *)

\* Only what validate() lets pass ever leaves a machine, and an oversized payload
\* is on no clipboard but that of the machine it was copied on.
OnlyValidTravels ==
  /\ \A m, p \in Machine : \A i \in DOMAIN chan[p][m] : Valid(chan[p][m][i])
  /\ \A m \in Machine : os[m] \in TooBig => Owner[os[m]] = m

\* No update that arrives swallows a copy made while it was applied: a copy that
\* may be sent and counts as synced has been broadcast, or is about to be.  Any
\* other is found by the next poll that gets to read it.
NoCopySwallowed ==
  \A m \in Machine : \A d \in copied \ TooBig :
    Owner[d] = m /\ last[m] = d => d \in sent \/ poller[m] = [at |-> "found", data |-> d]
=============================================================================
