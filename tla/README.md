# Omnipresent in TLA+

Omnipresent lets one keyboard and mouse drive several machines: each runs a
daemon (`omni`), the daemons are linked pairwise over QUIC, and when the cursor
leaves a screen by an edge behind which another machine is placed, input goes to
that machine. This directory holds a specification of the daemon, of the input
adapters of the three systems and of the desktop application around the daemon,
model-checked with TLC and in part proved with TLAPS. Paths below are relative to `src/`.

`PROJECT.json` lists the components, the runs, the findings, the hazards, the
theorems, and for every definition the source lines it models.

## 1. The system

### Components, their state and operations

| Component | State | Operations | Interacts with |
|---|---|---|---|
| Session manager (`crates/omni-session`) | session table, index by peer, active target | `establish`, `close`, `reverse_role`, `yield_control`, `follow_peer`, `handle_crossing` | called under the daemon's lock; emits `SessionEvents` |
| Daemon state (`omni-runtime/src/daemon.rs`, `State`) | sessions, links with their command queues, virtual desktop, tracked cursor, placements, the `suppress` watch | critical sections of `route_captured`, `rebuild_layout`, `cleanup_peer`, `set_layout`, `yield_control_to_peer`, `follow_peer_cursor` | one mutex shared by the capture thread, the peer tasks and the IPC tasks |
| Connections (`daemon.rs`: `do_connect`, `handle_incoming`, `run_peer`) | phase of each end's task, control streams, pending requests | dial, ask, decide, establish, accept, exchange commands, time out, clean up | peers over QUIC, people over IPC |
| Virtual desktop (`crates/omni-topology`) | screens, links between edges, cursor | `add_machine`, `link`, `advance`, `scale_delta` | `advance_cursor` |
| Clipboard sharing (`crates/omni-clipboard`) | enabled flag, `last_synced`, the OS clipboard | poll, broadcast, apply, switch | a polling task, the peer tasks, IPC requests |
| Trust (`omni-runtime/src/trust.rs`, `crates/omni-security`) | records of accepted peers, the trust file | `load`, `accept`, `remove`, `is_trusted`, `authorize_server` | the TLS verifier, `handle_incoming`, `do_connect`, IPC |
| Settings (`omni-runtime/src/config.rs`) | config file, its copy in memory | `load`, `save`, three requests that change an entry | IPC tasks, daemon start |
| IPC server (`daemon.rs`: `handle_client`, `stream_events`) | client tasks, watches `changes` and `shutting_down` | requests, subscriptions, shutdown | command line, desktop window |
| Input capture and injection (`crates/omni-input`: Linux, Windows, macOS) | grabs, hooks or tap; held modifiers, Caps Lock, the parked cursor, scroll remainders, the last click | poll, `set_suppressed`, re-arm, inject, warp | capture thread, peer tasks, the operating system |
| Input on the wire (`daemon.rs`: `run_capture`, `route_captured`, `coalesce_motion`; `remap.rs`, `ratelimit.rs`) | what the capture thread was told, queue, token bucket | route, collapse, relabel, limit | capture thread, peer tasks |
| QUIC transport (`crates/omni-transport`) | connections, datagram and bulk pumps | connect, accept, send, receive | peer tasks |
| Desktop shell (`omni/src-tauri`) | handle and flag of the in-process daemon, announced requests, tray menu | start, stop, quit, subscribe, announce, answer | the daemon's thread, IPC, the window |
| Desktop store (`omni/src/stores`) | connection, last snapshot | three events, refresh, start, stop | the shell's commands and events |
| Command line (`crates/omni-cli`) | - | start, stop, one request | IPC |
| Identity, wire codec, doctor, self-update | files | - | - |

### What is hard here

- *Interleaving.* Capture thread, one task per peer, one per client and the
  polling task meet in a mutex, in watch channels and in the OS clipboard. The
  mutex is never held over an await, so anything read in one critical section
  may be stale in the next one.
- *Two deciders.* Each machine decides locally where its input goes, and tells
  others afterwards. Two may decide at the same time.
- *Failure.* Peers crash, networks go silent in one direction, people do not
  answer, disks do not take a file. Sessions are half-open in between.
- *Files.* Trust and settings are rewritten in place and read at the next start.
- *Exit.* Subscribers wait for the daemon, which waits for its client tasks.
- *Late knowledge.* The capture thread and, on Linux, each reader learn of a
  change of target some events later, a reader between two batches; the window learns of the daemon's state by
  pushes and by answers that may overtake each other.
- *Loss.* Input travels as datagrams that may be lost, overtaken or limited,
  whereas what a key means depends on the keys before it.
- *Two daemons.* The window starts one in its own process, `omni start` another;
  they compete for one port and one endpoint. In the window's process threads
  outlive the daemon that started them, and keep what they hold.

### What makes each component correct

- Sessions: table and index agree; the active target has a session; what the
  events say adds up to the state.
- Daemon state: links, sessions and desktop agree; the cursor is tracked where
  input goes; local input is withheld exactly while it goes elsewhere.
- Connections: one session per peer; a task cleans up its own link and no
  other's; half-open sessions end; a disconnect ends its session.
- Hand-over: once all is quiet, input goes to a machine whose own input is local.
- Desktop: the cursor is on a real pixel; crossing to and fro loses little;
  no movement is scaled away.
- Clipboard: a copy is sent, is not echoed, and only while sharing is on.
- Trust: one certificate per host, the newest; a removed peer stays removed.
- Settings: what was confirmed survives.
- IPC: a subscriber hears of every change in the end; the daemon exits.
- Input path: an event acts on one desktop; chords arrive as chords; no key is
  stuck when nothing went wrong; clicks land and pair up; scrolling is exact.
- Desktop application: one daemon thread at most; when a stop has succeeded
  it is gone; every request is announced once; the window shows what is.

## 2. Modules

| Module | Models | Builds on |
|---|---|---|
| `Maps` | hash maps as functions | |
| `Lists` | vectors as sequences; `Retain` is `Vec::retain` and `Iterator::filter` | |
| `SessionOps` | the methods of `SessionManager` as operators | `Maps` |
| `SessionManager` | those methods in any order, and a listener behind the event port | `SessionOps` |
| `DaemonState` | `State` and every critical section, as operators on a record | `SessionOps` |
| `Omnipresent` | several daemons, their connections, people, network, crashes | `DaemonState`, `Lists` |
| `Topology` | layout, `advance`, `scale_delta`, to the pixel | `Maps` |
| `Clipboard` | clipboard sharing between machines, access by access | |
| `Trust` | trust state, file, dials, requests and removals of one daemon | `Maps`, `Lists` |
| `Settings` | the config file under concurrent requests and crashes | `Maps` |
| `Ipc` | client tasks, subscriptions, shutdown | |
| `InputOwner` | what a person may rely on: where input goes, what is linked, what is withheld | |
| `Scroll` | `Scaled`, its accumulators, the conversion from fractional lines | |
| `InputOps` | input events, modifier relabelling, the desktop that is injected into | `Scroll`, `Maps` |
| `LinuxInput`, `WindowsInput`, `MacInput` | the source and the sink of each system, as operators | `InputOps` |
| `InputPath` | from one machine's keyboard and mouse to another's desktop | the four above, `Lists` |
| `Window` | supervisor, subscription, tray, notifications and store of the desktop application, and `omni start` and `stop` beside it | |
| `OmnipresentProofs`, `SessionProofs`, `ClipboardProofs`, `TopologyProofs`, `InputProofs`, `TrustProofs`, `WindowProofs` | theorems about the module of that name (`ClipboardProofs` also about `Settings`) | the modules above, `ListProofs`, TLAPS |
| `ListProofs` | lemmas about `Retain` and about walks along a sequence | `Lists`, TLAPS |

`MC<Module>` modules hold symmetry sets and constant definitions; each `.cfg`
gives the bounds of one run.

### How state and actions correspond to the code

`Omnipresent` has a variable for each machine's `State` (`daemon`), for the pins
in memory and on disk (`trusted`, `saved`), for `Vec<PendingRequest>`
(`pending`), and for each connection and end: how far the task has come
(`task`), the control messages on their way to it (`stream`) and whether anything
still reaches it (`deaf`). An action is what a task does between two awaits, or
a whole critical section of an IPC request or the capture thread, including the
`rebuild_layout` and `sync_suppression` at its end. A session id is a fresh
random number the target draws, so a connection is identified with its id.

`InputOwner` is the abstract specification of the same daemons. `Omnipresent`
implements it under the mapping at its end: the target is what
`SessionManager::active_target` says, the links are those of `State`, what is
withheld is the `suppress` watch. Sessions, messages, layouts and cursors are
gone; what stays is that a new link does not move the input, a lost one brings it
home only if it went there, and what is withheld changes in the same step.

`InputPath` has the person (`hands`), the adapter (`source`) and its channel
(`captured`), the capture thread (`capture`), the part of `State` it needs
(`away`, `cursor`), the peer's task (`commands`), the two ways to the peer
(`wire`, `control`), and the peer's `limiter`, `sink` and `desktop`. A *scene*
fixes the systems at the two ends, the keys, and what the person does; the run
has nine of them with keys or a wheel, three with movements and clicks. `Touch` is
one call of the adapter's callback or one frame that a reader has fetched. A Linux
reader fetches all there is and converts it before it looks at the suppression flag
again: any number of frames goes by one grab, until `ReaderTurns`, after which the
next batch goes by the new one, and may be there already (`more`). `ApplySuppression`, `PollAndRoute` and `PollIdle` are the capture loop;
`SendBatch`, `RecvDatagram` and `RecvControl` are branches of `run_peer`, and
`SessionEnds` what `cleanup_peer` does, with the bucket of the next `run_peer`:
`begun` counts from where the session began. On Linux the X server may know the
cursor's place or not (`SyncedCursors`).
`InputOwner` and `InputPath` meet in `away`: it is the suppression watch.

`Window` has a phase for each daemon of the machine: two threads of the
application's process, one process of `omni start`. `kept` says that something
that has outlived `run_with_paths` still has its share of the endpoint, and the port
with it: the capture thread, which never looks at the shutdown, or a clipboard read
that is slower than the graces. `phase`, `slot`, `running` and
`op` are the `Supervisor`; `sub`, `announced` and `tray` the subscription's thread;
`inbox` the events on their way to the window; `store` and `call` the window's
code, one step for what it does between two awaits.

`Clipboard`, `Settings` and `Ipc` are finer: what they are about happens outside
the mutex, so every access to a flag, a file or a watch channel is a step.

### Abstractions

- A movement is the edge it leaves by (`Omnipresent`) or a vector (`Topology`).
  `Topology` keeps integer division, truncation, and `as i32` wrap-around;
  `IntHalf` is half the width of the integer type.
- `HashMap` order: when two peers are placed past one edge the last one visited
  is reached by it, so `RebuildLayout` takes any choice (`Fronts`).
- Input datagrams and clipboard payloads do not change `State` and are left out
  of the command queue of `Omnipresent`; `InputPath` and `Clipboard` have them.
- In `InputPath` screens have one axis and the same size on both machines (sizes
  are the subject of `Topology`), and a link's session is the only one. Of the key
  tables it has what the properties tell apart: the modifier keys of both sides,
  Caps Lock, the keypad's Enter, a key macOS lacks, an ordinary one.
- The history variables of `InputPath` (`begun`, `injected`, `visits`, and `kept`, `calm`,
  `home`, `holding`, `meant`, `spot`, `visit` in an event) and `faults` influence
  nothing. Of the faults, "carried" is a key or button held across a crossing,
  "apart" a Caps Lock pressed while input stayed at home, "overtaken" a datagram
  and the `CursorWarp` sent before or after it that arrive the other way round.
- On Windows and macOS the cursor that `sync_cursor_to_os` reads is the one after
  the hook has returned. Hiding the cursor, drags, and polls that learn nothing are
  left out. Every `SendInput` is accepted.
- The lines per notch are read once per adapter; the Windows sink asks for them with
  each event (`windows/sink.rs:216`). `WheelExact` and `ScrollingIsExact` therefore hold
  as long as the user leaves the setting alone: what is pending is counted in units of
  the setting it was left by.
- `millilines_from_lines` takes a float; `FromHalves` takes multiples of half a
  milli-line, where rounding decides.
- In `Window` the answer to Stop and the start of the shutdown are one step, an
  error's text and the `embedded` field of the store are left out, a deadline may
  pass at any time, and a command of the window that passes one request on is a
  request like any other.
- `run_peer` writes all queued commands before it reads again; `SendCommand` may
  read in between. The model therefore has more behaviours than the code.
- In `Omnipresent` a host is the peer it belongs to; `Trust` tells them apart.
  Machine ids are taken to be distinct (they are a prefix of a hash).
- A crash leaves the peers deaf; a stop lets them see the connection close.
- A write over a file another request has written meanwhile may leave text that
  does not parse, as the longer text's tail survives.

## 3. Runs

### Runs that pass

| Run | Shows | Bounds |
|---|---|---|
| `session_manager` | index and table agree, the active target has a session, and the events alone suffice to follow the state: a listener ends up with the same view and at no point sees input go to a session it knows is closed | two peers, two ids, three events behind |
| `connect` | two machines that do not know each other dial each other at once: sessions agree, each task owns its link, a listed request has a waiter | two connections, one crash, silence on either side, failing saves, a removal |
| `handover` | with one user who lets each crossing settle, input never goes to a machine that sends its own elsewhere, over hand-overs, disconnects, silence, a crash and reconnects; a session lost at one end ends at the other; a disconnect ends its session | two machines, both with a mouse; two connections, one crash or stop |
| `desktop` | with two peers, also past one edge, and placements that change under the cursor, the desktop agrees with the links and input comes home; the daemons implement `InputOwner` | three machines |
| `topology` | cursor on a pixel, there and back, no movement lost (looked at on one axis: `scale_axis` serves both); contended edges, corners with two ways out | three machines, four screen sizes down to one pixel, three pixels each way |
| `clipboard` | only valid payloads travel; no copy is swallowed by an update applied at the same time | three copies, one oversized, two switches, a busy clipboard |
| `settings` | a confirmed setting survives failed saves and crashes, one client at a time (of two, one may lose its change: see below) | four requests, two crashes |
| `ipc` | subscribers hear of every announced change; the daemon exits, without its deadline if all clients behave, by its deadline if one does not read or speak | two subscribers, one of them stuck, a silent client, two changes |
| `input_path` | once the adapter has been told where input goes, and on Linux from the next batch of a device on, an event acts on exactly one desktop; chords are taken as typed on Windows and macOS whatever is lost; when nothing was lost, keys and Caps Lock agree at both ends; clicks land where they were made, across crossings, coalescing and a second visit, and come up with the count they went down with; the rate limit of a session; scrolling is exact to the remainder | nine scenes of keys or a wheel with three to six things done, at most one mishap, one second; three of movements and clicks with four to six things done |
| `window` | one daemon thread, and none when a stop has succeeded; one holder of the port; the embedded flag is true; requests are announced, and once; the window notices a lost daemon and shows the state of one that stays | one asking peer, one command of the window at a time, three events, one event on its way |
| `trust` | one pin per host, the newest; removed stays removed; nobody gets a session uninvited | two peers, two hosts, an ambiguous prefix, a file with duplicates |

Bounds. Two machines and two connections are the least at which dials cross and
at which an old task may meet a newer session; a third machine is needed for
contended edges. Queues of one entry, with one message on the stream behind them,
let a disconnect wait behind a hand-over; a longer queue repeats that. One crash,
at any moment, with a reconnect after it, exercises every recovery path. Screens
of one to five pixels meet every case of the integer divisions: source smaller,
equal, larger, and one pixel wide or high. In `input_path` each system is a
controller and a peer; four things done are a modifier and a key down and up, or a
crossing, a movement and a click; six a button used on each of two visits; turns of -60 and 119 hundred-and-twentieths of a notch
leave a remainder in either direction, six of them add up to more than a notch. A
screen of two positions is the least with an edge and a place beside it. The bucket
of four tokens is emptied by five events. In `window` three events are a stop, a
start and a daemon of the command line between them, or a request that is
settled, asked again and settled. `CHECK_DEADLOCK FALSE` is set where
everything may be over: connections, copies, requests, changes are used up, a
daemon has exited, or a file does not parse and no daemon starts. The session
manager never ends and is checked for deadlock.

### Runs that do not: where the code and its documents disagree

| Run | Statement | What happens |
|---|---|---|
| `both_cross` | "leaves exactly one of them in control" (`session.rs:189`) | after simultaneous crossings both give way, or each follows the other |

It checks the one property that states what the quoted line says.

### Divergences the models show that no run states

They are in the models as the code has them, and the properties are worded so
that they hold nevertheless.

- Two clipboards may end up swapped: `poll_local_change` reads before it takes the
  lock (`service.rs:56`) and compares with what `last_synced` is afterwards, so
  content an update has replaced meanwhile is sent as a new copy; `daemon.rs:678`
  says a copy is "available wherever the user pastes" and the echo guard "stops it
  bouncing back". `NoCopySwallowed` says only that no copy is lost for good.
- Two requests that change settings at once each load, change and save the whole
  file (`daemon.rs:1622`); one change may be lost, or the file torn, although
  `daemon.rs:1641` says it "survives a restart". `KeptOnceConfirmed` is checked
  with one client at a time.
- The Windows sink keeps one bit per modifier and repairs it with the left key
  (`windows/sink.rs:103`): a right-hand modifier that is held too long is not
  released, although the field's comment (`windows/sink.rs:89`) says a lost datagram
  cannot strand one. `TypedAsMeant` leaves the right-hand keys out.
- Keys held across a crossing or the end of a session stay down on the machine
  that got the press (`daemon.rs:530`, `1181`). `KeysBalance` leaves these out,
  `TypedAsMeant` does not.
- With one button held, another one's release takes the count 1 on macOS
  (`macos/sink.rs:170`), although the comment above it has a release carry the
  count of its press. `ClickPairs` excludes chords.
- A cursor position that overtakes the message that places the cursor is undone by
  it (`daemon.rs:1129`). `ClickLands` excludes it.
- On a Linux controller what a device delivers until its reader has come round, the
  batch it is converting and what comes meanwhile, still goes by the old grab
  (`linux/mod.rs:261-287`), and every system's events until the capture thread's next
  turn do. `ActsOnce` speaks of the events after that.
- The comment on `Supervisor::stop` (`src-tauri/src/daemon.rs:105`) says that "`run`
  returns only after the daemon has released its UDP socket". An embedded daemon that
  captures does not release it: the capture thread (`daemon.rs:294`, loop at `472`) owns
  a share of the `QuicEndpoint` and ends only with the process or when reading its
  devices fails; `endpoint.close()` closes connections, and `shutdown_timeout` does not
  wait for that thread. The Start that follows a Stop that succeeded then fails at the
  bind (`daemon.rs:235`). `StopMeansGone` speaks of the daemon's threads only;
  `StopFreesPort` in `Window` is the comment's claim, and
  `tlc -config MCPortKept.cfg MCWindow` gives a trace in eleven steps, in which the
  daemon ends by itself after the bind and the Stop finds its thread finished.
- The rate limiter is a session's (`daemon.rs:1027`): a session that ends and one that
  follows within the same second pass two full bursts. `WithinRate` counts from the
  beginning of a session.
- `Supervisor::stop` takes the handle out and loses it if the request cannot be
  delivered (`src-tauri/src/daemon.rs:115`), so that a later start runs a second
  daemon thread; the comment at line 126 wants "the next Start" not to. `OneThread`,
  `EmbeddedIsTrue` and `StopMeansGone` exclude it by `lost`.
- `is_embedded` holds while our daemon is still failing to bind the port another
  one has; a Quit then stops the other one, which `tray.rs:168` says "is left alone".
- The window keeps showing an answer older than the last push, until the next
  push (`daemon-store.ts:203`). `PushIsShown` excludes it by `overtaken`.
- The reason an embedded daemon gave for ending (`daemon-store.ts:175`) is
  overwritten by the refresh that follows it at once (`:224`), although `lib.rs:52`
  says that a daemon that could not start says why; "incompatible" is
  overwritten by the next push (`:154`). The error text is not modelled.
- A request that is settled and asked again between two snapshots is not announced
  again (`ipc.rs:278` says it is). `AskIsAnnounced` excludes it by `merged`.
- A machine that follows another is not told when the cursor crosses from that
  one to a third (`daemon.rs:618`), although `control.rs:63` wants every keyboard
  to type where the cursor is. `handover` therefore has two machines.
- Timeouts and struck duplicates are refused as `Declined` (`daemon.rs:755`),
  which `control.rs:90` keeps for a person's no.
- `link` leaves the machine it displaces its own link home (`layout.rs:112`),
  although `layout.rs:78` says "kept symmetric". `ThereAndBack` asks only where
  the link leads back.
- `scale_axis` truncates (`geometry.rs:48`); its comment says "rounding to
  nearest".
- A clipboard access may follow the switch-off it was checked before
  (`service.rs:52`), and two switches at once may leave one direction on
  (`daemon.rs:1644`).
- A removed peer and a capture that stopped notify no subscriber
  (`daemon.rs:1460`). `PushedInTheEnd` is about what was announced.
- Dialing a machine under a second name takes the first name's pin away
  (`trust.rs:169`), so that a changed certificate there is a first use again;
  `trust.rs:11` promises a refusal.
- `omni peers remove` looks for the session by the link's host or a prefix, and
  ends one; a session that comes up in between, is known under another address or
  is the second one to fit stays (`daemon.rs:1450`). `NoUninvitedSession` names
  exactly these: the variable `outlived` holds them.

### Fairness

`Omnipresent!Fairness` and `Ipc!FairSpec` ask weak fairness of the steps of each
task and of its timers: the tokio runtime polls every task that has been woken,
`select!` picks among ready branches at random, timers expire. Nothing is asked
of people or of the network. IPC clients, except the silent ones, are taken to
send the request they connected for, and the command line to hang up after its
answer. `Window!Fairness` asks it of the daemons, the threads after them, the
supervisor's polling, the subscription's loop and the window's own code, each as a
whole; nobody has to click, ask, answer or stop anything, and `DropIsNoticed` and
`PushIsShown` say what follows once a daemon is gone, or stays, for good.
`InputPath` states no liveness, since the person stops when the bound is reached.
`Ipc!GraceOver` is enabled only while a client that does not read or
speak is connected: the daemon has to exit without its deadline otherwise.

## 4. Proofs

Each of these is proved for every value of the constants, from the named
assumptions in the modules and the hypotheses given here.

| Theorem | States | Module proved about |
|---|---|---|
| `SessionsAlwaysAgree` | `Spec => []SessionsAgree` | `Omnipresent` |
| `InputIsNeverStranded` | `Spec => []InputNeverStranded` | |
| `DesktopAlwaysAgrees` | `Spec => []DesktopAgrees` | |
| `OwnerImplemented` | `Spec => ImplementsInputOwner` | |
| `TasksAlwaysOwnLinks` | `Spec => []TasksOwnLinks` | |
| `PendingAlwaysHasWaiter` | `Spec => []PendingHasWaiter` | |
| `TypesAlwaysCorrect` | `Spec => []TypeOK` | |
| `InputAlwaysFollowsCursor` | `TwoMachines`, `OneUser` give `Spec => []InputFollowsCursor` | |
| `TablesAlwaysAgree`, `EventsAlwaysTellAll`, `ViewsNeverDangle` | the three invariants | `SessionManager` |
| `NoCopyIsSwallowed`, `OnlyValidEverTravels` | the two invariants | `Clipboard` |
| `ConfirmedIsKept` | `OneClient` gives `Spec => []KeptOnceConfirmed` | `Settings` |
| `CursorStaysOnScreen`, `ThereAndBackAlways` | `Spec => []CursorOnScreen`, `[]ThereAndBack` | `Topology` |
| `MovementsAreNeverLost` | movements that fit on every screen give `Spec => []MovementNeverLost` | |
| `OnePinPerHostAlways`, `NewestPinAlwaysCounts`, `ForgottenForGood`, `NobodyComesUninvited` | the four invariants | `Trust` |
| `WindowTypeCorrect`, `OneThreadAlways`, `EmbeddedAlwaysTrue`, `NeverAnnouncedTwice`, `AskAlwaysAnnounced`, `StopAlwaysMeansGone` | its invariants and `Spec => StopMeansGone` | `Window` |
| `RateHolds`, `ActsOnceAlways`, `ClicksAlwaysPair`, `TypedAlwaysAsMeant` | `Spec => []WithinRate`, `[]ActsOnce`, `[]ClickPairs`, `[]TypedAsMeant` | `InputPath` |
| `ClicksAlwaysLand`, `KeysAlwaysBalance` | `Spec => []ClickLands`, `[]KeysBalance` | |
| `ScrollingIsExact` | `WheelFits(most)` gives `Spec => []WheelExact` | |
| `TakeConserves` | `Take` makes up and loses nothing within 32 bits, and less than a unit stays pending, in the direction of the sum | `Scroll` |

### Hypotheses

- `TwoMachines` and `OneUser` (one person, who lets a hand-over arrive before
  the next) are what `InputFollowsCursor` needs: without the second the run
  `both_cross` is a counterexample, without the first a crossing onto a third
  machine is one, which the code does not tell the second (see section 3).
- `OneClient`: of two clients that change settings at once one may lose its change.
- Movements that fit: `scale_axis` narrows its product to an `i32`, so a movement
  times the width of the widest screen has to be within it. On screens of eight
  thousand pixels that is a quarter of a million pixels in one event.
- `WheelFits(most)`: no turn, converted, is more than `most` milli-lines, and a
  whole unit besides still fits 32 bits. One notch at a time fits for every setting
  of lines per notch that Windows offers up to its hundred; larger sums
  `Scaled::take` clamps on purpose. TLC evaluates it for the turns of the runs.
- In `InputPath` only the four modifiers have a left and a right key
  (`ScenesAssumption`), as in the key tables of all three systems: they know no other
  key by its side.
- In `Trust` a file that an older version left has each certificate once
  (`LegacyAssumption`): `accept` looks a certificate up before it adds a record, and
  only the hosts are what `dedup_host_pins` finds several of. `ScreenAssumption`: every screen has a pixel.

### Omnipresent

None of the first three is inductive by itself: that a crossing finds a session
needs the desktop to match the links, that a session which goes takes the cursor
home needs the sessions to match the links, and all need the types. The
inductive invariant `Inv` says that every daemon is `Consistent`, the
conjunction of `IsDaemon`, `LinksMatchSessions`, `CursorFollowsInput` and
`DesktopMatchesLinks`, and that connections join two different machines.
The module first shows that each critical section keeps a consistent state
consistent, then that every action is one of these on one daemon or leaves all
daemons alone. The argument does not rely on the mutual behaviour of tasks: the
lock-protected state is consistent in itself, whatever peers send and in whatever
order tasks run.

The refinement reuses `Inv`: of each critical section it is shown which step of
`InputOwner` it is, or that it changes neither target nor links nor suppression,
under `IsDaemon` and `CursorFollowsInput`, which say that what is withheld is what
goes elsewhere, before and after. `LinkUp` and the failure of an Accept need
`LinksMatchSessions` too: a link that comes down takes its session along.

The remaining four each add to the one before:

- `TaskInv` relates the locked state to the tasks. Given consistency, `by_peer`
  tells which session each link has, and few steps touch it: the index lists exactly
  the sessions its tasks hold, and only connections that were made have tasks. That
  `cleanup_peer`, which goes by machine, takes its own task's link away follows:
  two tasks that hold sessions with one peer would be under one entry of the index.
- `ListInv` adds that the lists of pending requests and the tasks that wait match,
  and that only connections that were made are listed, so that a new one never
  meets an old entry.
- `TypeInv` adds the types: a command can only be taken from a queue the daemon
  has, which is why they come after the ownership of links.
- `HandInv` adds what the two ends of a connection know of each other. `Roles`:
  the dialer goes on only once the other has accepted. `Asked`: before that nothing is
  handed over and nobody's input is on the other. `Crossing`: while both ends run,
  two machines that send input to each other have a warp on its way that ends it,
  and one that has taken its input back and has not been heard yet is still at home,
  with no such message the other way. When an end stops running nothing is claimed
  until its cleanup, which brings input home. `InputFollowsCursor` is the case in which
  nothing is on its way.

### The other modules

`SessionProofs` needs more than the tables for the two properties of a listener
that lags: there is a *story*, a sequence of views from the one the listener has to
the tables of the manager, each made from the one before by the next event, and
in each input goes home or to a machine with a session. A method adds to its end,
the listener takes its first view. That `close` is safe is that the view between
its two events is such a view.

`ClipboardProofs` strengthens both properties of `Clipboard` with where a payload
can come from: what is on the way, what a task for a peer holds and what the polling
task found was copied, sent and let pass by `validate`. For `Settings`, which it takes
by `INSTANCE` because the clipboard switch is one of the settings, `ConfigInv` says
that between requests the file has what the memory has, but for settings whose
last request failed, and that the copy a request is about to write does too.

`TopologyProofs` bounds the projected entry point by the properties of integer
division. `ThereAndBack` needs `PairedInv` besides: no machine is its own neighbour,
and what is past an edge has a neighbour past the opposite one, if not always the
same (the divergence of `link`, section 3).

`TrustProofs` shows of `accept`, `remove` and `dedup_host_pins` what they do to
any sequence of records, with the lemmas of `ListProofs` about `Retain`: what is
kept was there, in its order, and different elements stay different. `RecordInv` says
that memory has each host and each certificate once, the file each certificate,
and neither a stranger; a host's pin is what was accepted last for it. `SessionInv`
says that a stranger's session is about to end or was missed by the removal, and
likewise a stranger's request that had passed the check.

`WindowProofs` has one invariant in four parts: the types; that the port has one
holder, and no daemon of `run` has it while something that outlived one keeps it; that the thread's handle is kept or held by a Stop and the flag is true; and,
for announcements, that what is waiting and neither announced nor in the snapshot just
read is still to be told, and that what is both announced and untold was merged.

`InputProofs` shows first that everything on the way has its type and that what
holds of each event when it is captured and of each input when it is sent holds of
all in the queues (`Flows`): coalescing, loss and reordering make up nothing. On that
rest six invariants, each for one property. `ActsInv`: a Linux device whose reader has
come round since the adapter was told is grabbed as it was told, the other systems'
flag is what they were told. `ClickInv`: a button that is down has the count the sink remembers.
`WheelInv`: the equation of `WheelExact`, with what `Take` conserves. `TypedInv`: the
source's record of modifiers is what the hands hold, every key event on the way
carries it, and a Windows sink's record is what its desktop has. `WithinRate` is
strengthened apart from them (`RateInv`): for every second begun, and the beginning of
the session, what was injected since then and the tokens left are within a full bucket
and the refill up to the last event, and nothing was if that moment is later.

The other two say what all the events in the queues come to together. What that is
no recursive definition says: there is a *walk*, a sequence of places one longer than
the queue, with each element leading from one place to the next (`Walks` in
`ListProofs`). An element that comes makes it one step longer, one that is taken lets
it start one step later, and what `Coalesce` leaves out may be skipped when it changes
nothing for what stays; that is proved once for any steps, by the least index at which it
could fail, and needs no induction over data.

- `LandsInv`, for `ClickLands`: while nothing has gone wrong the places of the cursor lead
  over the datagrams and the commands from where the peer's desktop has it to where
  `State` has it (`CursorTrail`), and every button on the way carries the place it
  stands at. What belongs to a visit the peer's cursor has not begun is announced by a
  warp that is still in the queue or the control stream, and these come in order
  (`VisitsInOrder`): a button never arrives ahead of the warp of its visit unless
  that counts as overtaken. A pointer that gives way to the next one is skipped, for
  the next one puts the cursor where it goes whatever was before.
- `KeysInv`, for `KeysBalance`: the keys that are down lead over the datagrams and the
  commands from what the peer's desktop takes to be down (`Underway`), and over what
  was captured and not routed to what the person holds (`Heading`). Where these two meet
  the one is the other under the names of the swap while input goes to the peer, and
  nothing is held there while it stays here (`Joined`). It rests on `TypedInv`, since a
  Windows sink presses and releases modifiers by what each event carries, and on
  `SourceTracks`: the macOS adapter toggles, so what it keeps has to be what is down. Of each
  capturing adapter it is shown that what it reports of a stroke tells of exactly that
  stroke (`LinuxTells`, `WindowsTells`, `MacTells`), Caps Lock on macOS in two events, and
  of each injecting one what the event makes of its desktop (`KeyInjected`); relabelling
  merges no two keys (`RoutedPast`).

### Only model-checked

Every safety invariant that a run checks is proved. Liveness is out of the provers' reach: `HalfOpenEnds`, `DisconnectEnds`,
`PushedInTheEnd`, `DaemonExits`, `DropIsNoticed` and `PushIsShown` stay with TLC, and
with them the whole of `Ipc`, whose properties are of that kind.

## 5. Not modelled

The layout store and the clipboard adapters; the framing and size limits of the
transport and the fate of a single oversized payload; the commands of the command
line and the window that send one request and print the answer; the window's error
text, network address, permission prompts and log view; hiding the cursor, drags,
middle and extra buttons, horizontal scrolling (which is a second copy of the
vertical one). A screen of zero pixels, which `advance` cannot handle, is excluded by
assumption. Cryptography, file permissions, serialisation, probes of the operating
system, self-update and rendering stay out for good: they are calls into libraries
and the operating system without state of their own.

Hazards without a property are listed in `PROJECT.json` with the reason.

## 6. Plan

Done: `SessionOps`, `DaemonState`, `Omnipresent`; `Topology`; `Clipboard`,
`Settings`, `Ipc`, `Trust`; the input path with its three systems; `InputOwner` and
its refinement; `Window`; the theorems above.

What remains worth doing, in this order: an invariant of `Ipc` that says which
clients a daemon going down still waits for, as a theorem; what `KeysBalance` still
promises of one key when an event of another is lost; a specification of the
trust store that `Trust` implements; two commands of the window at a time; three
machines that follow each other, once it is written down what they promise.
