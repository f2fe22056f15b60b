------------------------------ MODULE Settings ------------------------------
(***************************************************************************)
(* The settings IPC clients change at run time: `omni layout', `omni       *)
(* modifiers' and `omni clipboard'.  Each request changes the daemon's     *)
(* memory, then loads the one config file, changes its own entry and       *)
(* writes the file back.  Requests of different clients run on different   *)
(* threads and nothing but the file system orders their file accesses;     *)
(* std::fs::write first truncates the file and then fills it.              *)
(*                                                                         *)
(* A setting is one entry of the file: the edge of a host, the swap of a   *)
(* host, the clipboard switch.                                             *)
(***************************************************************************)
EXTENDS Maps, Naturals

CONSTANTS
  Setting,     \* the entries
  Value,       \* their values
  Default,     \* the value of an entry that is not in the file
  Client,      \* IPC clients
  MaxChange,   \* bound: requests, all together
  MaxCrash,    \* bound: how often the daemon dies
  DiskFails    \* TRUE: opening or writing the file may fail

ASSUME SettingAssumption == Setting # {}
ASSUME DefaultAssumption == Default \in Value
ASSUME MaxChangeAssumption == MaxChange \in Nat
ASSUME MaxCrashAssumption == MaxCrash \in Nat
ASSUME DiskFailsAssumption == DiskFails \in BOOLEAN

VARIABLES
  up,        \* the daemon runs
  memory,    \* setting -> value, as the daemon goes by
  file,      \* the config file: setting -> value, or Torn
  request,   \* each client's request: [at, setting, value, config]
  unsaved,   \* history: the settings whose last request was not answered with Ok
  changes,   \* how many requests there were
  crashes    \* how many crashes

vars == <<up, memory, file, request, unsaved, changes, crashes>>

\* What the file holds between the truncation and the write, or after writes that
\* overlapped: a text that does not parse, so without entries.
Torn == EmptyMap

Idle == [at |-> "idle"]

Init ==
  /\ up = TRUE
  /\ memory = [s \in Setting |-> Default]
  /\ file = [s \in Setting |-> Default]
  /\ request = [k \in Client |-> Idle]
  /\ unsaved = {}
  /\ changes = 0
  /\ crashes = 0

-----------------------------------------------------------------------------
(* set_layout, set_modifier_swap, set_clipboard                            *)

\* Under the state lock (the clipboard's switch is an atomic).
Change(k, s, v) ==
  /\ up /\ request[k] = Idle
  /\ changes < MaxChange
  /\ changes' = changes + 1
  /\ memory' = [memory EXCEPT ![s] = v]
  /\ request' = [request EXCEPT ![k] = [at |-> "load", setting |-> s, value |-> v]]
  /\ UNCHANGED <<up, file, unsaved, crashes>>

\* The request of client k is over, without an Ok.
Fail(k) ==
  /\ request' = [request EXCEPT ![k] = Idle]
  /\ unsaved' = unsaved \cup {request[k].setting}

Merged(k, config) ==
  [at |-> "truncate", setting |-> request[k].setting, value |-> request[k].value,
   config |-> [config EXCEPT ![request[k].setting] = request[k].value]]

\* Mutant: the request starts from the defaults, not from what is in the file.
LoadDefaults(k) ==
  /\ request[k].at = "load"
  /\ request' = [request EXCEPT ![k] = Merged(k, [s \in Setting |-> Default])]
  /\ UNCHANGED <<up, memory, file, unsaved, changes, crashes>>

\* Config::load, and the request's own entry put into it.  A file that does not
\* parse is an error to the client; the change stays in memory.
Load(k) ==
  /\ request[k].at = "load"
  /\ \/ /\ file # Torn
        /\ request' = [request EXCEPT ![k] = Merged(k, file)]
        /\ UNCHANGED unsaved
     \/ /\ file = Torn
        /\ Fail(k)
  /\ UNCHANGED <<up, memory, file, changes, crashes>>

\* Config::save opens the file, which empties it,
Truncate(k) ==
  /\ request[k].at = "truncate"
  /\ \/ /\ file' = Torn
        /\ request' = [request EXCEPT ![k].at = "write"]
        /\ UNCHANGED unsaved
     \/ /\ DiskFails
        /\ Fail(k)
        /\ UNCHANGED file
  /\ UNCHANGED <<up, memory, changes, crashes>>

\* and fills it.  Over what another request wrote meanwhile the tail of a longer
\* text may survive.
Write(k) ==
  /\ request[k].at = "write"
  /\ \/ /\ \/ file' = request[k].config
           \/ file \notin {Torn, request[k].config} /\ file' = Torn
        /\ request' = [request EXCEPT ![k] = Idle]
        /\ unsaved' = {s \in unsaved : s # request[k].setting \/ memory[s] # request[k].value}
     \/ /\ DiskFails
        /\ Fail(k)
        /\ UNCHANGED file
  /\ UNCHANGED <<up, memory, changes, crashes>>

-----------------------------------------------------------------------------
(* The daemon comes and goes                                               *)

Crash ==
  /\ up /\ crashes < MaxCrash
  /\ up' = FALSE
  /\ crashes' = crashes + 1
  /\ request' = [k \in Client |-> Idle]
  /\ unsaved' = unsaved \cup {request[k].setting : k \in {x \in Client : request[x] # Idle}}
  /\ UNCHANGED <<memory, file, changes>>

\* run_with_paths: a file that does not parse ends the start.
Start ==
  /\ ~ up /\ file # Torn
  /\ up' = TRUE
  /\ memory' = file
  /\ UNCHANGED <<file, request, unsaved, changes, crashes>>

Next ==
  \/ \E k \in Client : \/ \E s \in Setting, v \in Value : Change(k, s, v)
                       \/ Load(k) \/ Truncate(k) \/ Write(k)
  \/ Crash \/ Start

Spec == Init /\ [][Next]_vars

-----------------------------------------------------------------------------
(* Properties                                                              *)

\* A setting whose change was answered with Ok is in the file as it is in memory
\* until the next request for it, so a restart brings it back: whatever other
\* settings are changed, fail to be saved or are cut short by a crash.  (A write
\* that was cut short leaves a file no daemon starts with.)
KeptOnceConfirmed ==
  file # Torn =>
    \A s \in Setting \ unsaved :
      (\A k \in Client : request[k] # Idle => request[k].setting # s) => file[s] = memory[s]
=============================================================================
