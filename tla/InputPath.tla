------------------------------ MODULE InputPath ------------------------------
(***************************************************************************)
(* The way of one person's input from the keyboard and mouse of this       *)
(* machine, the controller, to the desktop of its peer: the adapter that   *)
(* captures and withholds it, the capture thread (run_capture,             *)
(* route_captured), the queue of the peer's task, its datagrams and its    *)
(* control stream, and at the other end the rate limiter and the adapter   *)
(* that injects.                                                           *)
(*                                                                         *)
(* The peer's screen lies past the right edge of this one and is as large. *)
(* What was true when an event was made travels with it: `kept' whether    *)
(* the local desktop got it too, `meant' the modifiers the person held,    *)
(* `spot' where on the peer's screen the cursor was, `visit' how often it  *)
(* had come there.                                                         *)
(***************************************************************************)
EXTENDS InputOps, Lists

CONSTANTS
  Scenes,        \* what happens where, see below
  WheelTurns,    \* how far a wheel turns at a time
  Notch, LinesPerNotch,   \* see WindowsInput
  Rate, Burst,   \* EVENTS_PER_SECOND, BURST
  MaxCaptured    \* bound: events the capture thread has not routed

\* A scene is the two systems, what the person does ("keyboard", "pointer" or
\* "wheel") and with which keys, the link's modifier_swap, and the bounds: how
\* often the person does something or the session ends, how many mishaps there
\* are (a datagram lost or overtaken, a hook removed, a device unplugged, a grab
\* that fails, a change of the swap), how many seconds pass, and how many events
\* the queue of the peer's task and the network hold.
ASSUME ScenesAssumption ==
  \A s \in Scenes :
    /\ {s.from, s.to} \subseteq {"Linux", "Windows", "Mac"}
    /\ s.doing \in {"keyboard", "pointer", "wheel"} /\ s.swap \in Swap
    /\ s.keys \subseteq [side : {"left", "right", "none"}, name : STRING]
    /\ \A key \in s.keys : IsModifierKey(key) => key.name \in Modifier
    /\ {s.strokes, s.mishaps, s.seconds, s.queue} \subseteq Nat
ASSUME WheelTurnsAssumption == WheelTurns \subseteq Int
ASSUME RateAssumption == Rate \in Nat
ASSUME BurstAssumption == Burst \in Nat \ {0}
ASSUME NotchAssumption == Notch \in Nat \ {0}
ASSUME LinesPerNotchAssumption == LinesPerNotch \subseteq Nat \ {0}

Linux   == INSTANCE LinuxInput
Windows == INSTANCE WindowsInput
Mac     == INSTANCE MacInput

VARIABLES
  scene,      \* the two operating systems and the person's task
  hands,      \* [keys, buttons, locked]: what is held down, and Caps Lock
  at,         \* this machine's own cursor
  source,     \* the adapter that captures
  captured,   \* its channel to the capture thread
  away,       \* State: input goes to the peer; what the suppress watch says
  cursor,     \* State: the position of the tracked cursor
  capture,    \* the capture thread: [told, turn, seen]; "stopped" is a turn, and
              \* `seen' the Linux readers that have come round since it told them
  swap,       \* the link's modifier_swap
  commands,   \* the queue of the peer's task
  control,    \* its control stream, as far as cursors are concerned
  wire,       \* its datagrams
  sink,       \* the peer's adapter
  desktop,    \* the peer's desktop
  limiter,    \* the session's rate limiter at the peer: [tokens, last]
  clock,      \* seconds
  begun,      \* history: how many events had been injected when the session began
              \* and at each full second of it
  injected,   \* history: [count, meant, click, asked] of the events injected
  visits,     \* history: how often the cursor has crossed onto the peer's screen
  faults,     \* history: what went wrong
  strokes, mishaps

person == <<hands, at, strokes>>
here   == <<source, captured, capture>>
state  == <<away, cursor, swap, visits>>
net    == <<commands, control, wire>>
peer   == <<sink, desktop, limiter, injected>>
timing == <<clock, begun>>
vars   == <<scene, person, here, state, net, peer, timing, faults, mishaps>>

\* RateLimiter::default: every session begins with a full bucket.
NewLimiter(now) == [tokens |-> Burst, last |-> now]

Init ==
  /\ scene \in Scenes
  /\ hands = [keys |-> {}, buttons |-> {}, locked |-> FALSE]
  /\ at = Width /\ cursor = Width /\ away = FALSE
  /\ source \in CASE scene.from = "Linux"   -> {Linux!NewSource}
                  [] scene.from = "Windows" -> {[s EXCEPT !.last = at] : s \in Windows!NewSource}
                  [] scene.from = "Mac"     -> {Mac!NewSource}
  /\ sink \in CASE scene.to = "Linux"   -> {Linux!NewSink}
                [] scene.to = "Windows" -> Windows!NewSink
                [] scene.to = "Mac"     -> {Mac!NewSink}
  /\ capture = [told |-> FALSE, turn |-> "top", seen |-> {}]
  /\ swap = scene.swap
  /\ captured = <<>> /\ commands = <<>> /\ control = <<>> /\ wire = <<>>
  /\ desktop = NewDesktop
  /\ limiter = NewLimiter(0)
  /\ clock = 0 /\ begun = [second \in {0} |-> 0]
  /\ injected = [count |-> 0, meant |-> {}, click |-> <<0, 0>>, asked |-> 0]
  /\ visits = 0 /\ faults = {} /\ strokes = 0 /\ mishaps = 0

-----------------------------------------------------------------------------
(* The person and the capturing adapter                                    *)

KeyStrokes ==
  [kind : {"key"}, key : scene.keys \ hands.keys, action : {"Press"}]
    \cup [kind : {"key"}, key : hands.keys, action : {"Release", "Repeat"}]
Clicks ==
  [kind : {"button"}, button : Button \ hands.buttons, action : {"Press"}]
    \cup [kind : {"button"}, button : hands.buttons, action : {"Release"}]
\* Whoever does not point moves only to get across.
Moves == [kind : {"move"},
          dx : IF scene.doing = "pointer" THEN {-1, 1} ELSE IF away THEN {-1} ELSE {1}]

\* What the person may do next.
Strokes ==
  Moves \cup CASE scene.doing = "keyboard" -> KeyStrokes
               [] scene.doing = "pointer"  -> Clicks
               [] scene.doing = "wheel"    -> [kind : {"wheel"}, turn : WheelTurns]

Toggled(set, x, action) ==
  IF action = "Press" THEN set \cup {x} ELSE IF action = "Release" THEN set \ {x} ELSE set

HandsAfter(raw) ==
  CASE raw.kind = "key" ->
         [hands EXCEPT !.keys = Toggled(@, raw.key, raw.action),
                       !.locked = IF raw.key = CapsLock /\ raw.action = "Press" THEN ~ @ ELSE @]
    [] raw.kind = "button" -> [hands EXCEPT !.buttons = Toggled(@, raw.button, raw.action)]
    [] OTHER -> hands

ReadOf(raw) ==
  LET after == HandsAfter(raw) IN
  CASE scene.from = "Linux"   -> Linux!Read(source, at, raw)
    [] scene.from = "Windows" -> Windows!Read(source, at, raw)
    [] scene.from = "Mac"     -> Mac!Read(source, at, raw, after.keys, after.locked)

Blind == \/ scene.from = "Windows" /\ ~ source.hooked
         \/ scene.from = "Mac" /\ ~ source.tapped

\* The adapter and the capture thread know where input goes, and nothing waits
\* to change it; a Linux reader knows from its next batch on.
Calm(raw) ==
  /\ captured = <<>> /\ capture.told = away /\ ~ Blind
  /\ scene.from = "Linux" => Linux!DeviceOf(raw) \in capture.seen

\* Whether the person holds something down.
Holding == hands.keys # {} \/ hands.buttons # {}

\* Something happens at the keyboard or the mouse and the adapter is called.
Touch(raw) ==
  /\ strokes < scene.strokes /\ capture.turn # "stopped"
  /\ raw \in Strokes
  /\ scene.from = "Linux" => Linux!CanRead(source, raw)
  /\ LET read == ReadOf(raw) IN
     /\ Len(captured) + Len(read.events) <= MaxCaptured
     /\ captured' = captured \o [i \in DOMAIN read.events |->
          [event |-> read.events[i], kept |-> read.kept, calm |-> Calm(raw), home |-> ~ away,
           holding |-> Holding, meant |-> ModifiersOf(HandsAfter(raw).keys)]]
     /\ source' = read.source
     /\ at' = read.at
  /\ hands' = HandsAfter(raw)
  /\ strokes' = strokes + 1
  /\ faults' = faults
       \cup (IF Blind THEN {"missed"} ELSE {})
       \cup (IF raw.kind = "key" /\ raw.key.side = "right" THEN {"right"} ELSE {})
  /\ UNCHANGED <<scene, capture, state, net, peer, timing, mishaps>>

Mishap == mishaps < scene.mishaps /\ mishaps' = mishaps + 1

\* A Linux reader comes round, perhaps with more to read that came while it was
\* converting; its grab or ungrab may fail.
ReaderTurns ==
  /\ scene.from = "Linux"
  /\ \E dev \in source.due :
       /\ capture' = [capture EXCEPT !.seen = @ \cup {dev}]
       /\ \E more \in SUBSET {dev} :
            \/ /\ source' = Linux!Turns(source, dev, more)
               /\ UNCHANGED <<faults, mishaps>>
            \/ /\ Mishap
               /\ source' = Linux!TurnFails(source, dev, more)
               /\ faults' = faults \cup {"ungrabbed"}
  /\ UNCHANGED <<scene, person, captured, state, net, peer, timing>>

\* What the operating system does to the adapter.
SourceMishap ==
  /\ Mishap
  /\ \/ scene.from = "Linux" /\ source' \in Linux!Unplugs(source)
     \/ scene.from = "Windows" /\ source.hooked /\ source' = Windows!HookRemoved(source)
     \/ scene.from = "Mac" /\ source.tapped /\ source' = Mac!TapDisabled(source)
  /\ UNCHANGED <<scene, person, captured, capture, state, net, peer, timing, faults>>

\* What the adapter does about it.
SourceRecovers ==
  /\ \/ scene.from = "Windows" /\ ~ source.hooked /\ source.open /\ source' \in Windows!Rearm(source)
     \/ scene.from = "Mac" /\ ~ source.tapped /\ source' = Mac!TapEnabled(source)
  /\ UNCHANGED <<scene, person, captured, capture, state, net, peer, timing, faults, mishaps>>

-----------------------------------------------------------------------------
(* The capture thread                                                      *)

Stopped == CASE scene.from = "Linux"   -> Linux!Stopped(source)
             [] scene.from = "Windows" -> Windows!Stopped(source)
             [] scene.from = "Mac"     -> FALSE

\* The top of run_capture's loop: a change of the watch reaches the adapter.
ApplySuppression ==
  /\ capture.turn = "top"
  /\ capture' = [told |-> away, turn |-> "poll",
                 seen |-> IF capture.told = away THEN capture.seen ELSE {}]
  /\ IF capture.told = away THEN UNCHANGED <<source, at>>
     ELSE /\ source' = CASE scene.from = "Linux"   -> Linux!SetSuppressed(source, away)
                         [] scene.from = "Windows" -> Windows!SetSuppressed(source, away)
                         [] scene.from = "Mac"     -> Mac!SetSuppressed(source, away)
          /\ at' = IF scene.from = "Windows" THEN Windows!ParkedAt(at, away) ELSE at
  /\ UNCHANGED <<scene, hands, strokes, captured, state, net, peer, timing, faults, mishaps>>

Input(event, c) ==
  [type |-> "Input", event |-> ApplySwap(swap, event), spot |-> cursor, visit |-> visits,
   meant |-> IF swap = "None" THEN c.meant ELSE SwapModifiers(c.meant)]
WarpTo(x) == [type |-> "Warp", x |-> x, visit |-> visits + 1]
Returned == [type |-> "CursorReturned"]

\* forward_to with the position on the peer's screen.
ForwardPointer(x, c) == commands' = Append(commands, Input(PointerEvent(x), c))

\* sync_cursor_to_os: on Linux the position is to be had from an X server only.
SyncedCursors == IF scene.from = "Linux" THEN {cursor, at} ELSE {at}

\* What was down when the next event was made is held across a crossing that
\* comes now, and released on the other side.
Carried ==
  IF IF captured = <<>> THEN Holding ELSE Head(captured).holding THEN {"carried"} ELSE {}

\* advance_cursor to x, and what route_captured does about it.
AdvanceCursor(c, x) ==
  CASE ~ away /\ x > Width ->
         /\ away' = TRUE /\ cursor' = 0 /\ commands' = Append(commands, WarpTo(0))
         /\ visits' = visits + 1
         /\ faults' = faults \cup Carried
         /\ UNCHANGED at
    [] away /\ x < 0 ->
         /\ away' = FALSE /\ cursor' = Width /\ commands' = Append(commands, Returned)
         /\ at' = Width
         /\ faults' = faults \cup Carried
         /\ UNCHANGED visits
    [] OTHER ->
         /\ cursor' = ClampToScreen(x)
         /\ IF away THEN ForwardPointer(ClampToScreen(x), c) ELSE UNCHANGED commands
         /\ UNCHANGED <<away, at, visits, faults>>

\* route_captured, of a movement.
RouteMotion(c) ==
  \E start \in IF away THEN {cursor} ELSE SyncedCursors : AdvanceCursor(c, start + c.event.dx)

IsCapsLock(e) == e.type = "Key" /\ e.key = CapsLock

\* poll has an event: route_captured, one critical section.  Whatever is not a
\* movement is forwarded while input goes to the peer and left alone otherwise.
PollAndRoute ==
  /\ capture.turn = "poll" /\ captured # <<>>
  /\ Len(commands) < scene.queue
  /\ LET c == Head(captured) IN
     IF c.event.type = "Motion" THEN RouteMotion(c)
     ELSE /\ commands' = IF away THEN Append(commands, Input(c.event, c)) ELSE commands
          /\ faults' = faults \cup (IF ~ away /\ IsCapsLock(c.event) THEN {"apart"} ELSE {})
          /\ UNCHANGED <<away, cursor, at, visits>>
  /\ captured' = Tail(captured)
  /\ capture' = [capture EXCEPT !.turn = "top"]
  /\ UNCHANGED <<scene, hands, strokes, source, swap, control, wire, peer, timing, mishaps>>

\* poll has none; it fails when the adapter has stopped, which ends the thread
\* and drops the adapter.  Turns that would learn nothing are left out.
PollIdle ==
  /\ capture.turn = "poll" /\ captured = <<>>
  /\ Stopped \/ capture.told # away
  /\ capture' = [capture EXCEPT !.turn = IF Stopped THEN "stopped" ELSE "top"]
  /\ UNCHANGED <<scene, person, source, captured, state, net, peer, timing, faults, mishaps>>

-----------------------------------------------------------------------------
(* The peer's task                                                         *)

IsPointer(command) == command.type = "Input" /\ command.event.type = "Pointer"

\* Mutant: a run of pointers is collapsed across what lies between them.
CoalesceAcross(batch) ==
  LET last == CHOOSE i \in DOMAIN batch : \A j \in DOMAIN batch : IsPointer(batch[j]) => j <= i IN
  Retain(batch, {i \in DOMAIN batch : IsPointer(batch[i]) => batch[i] = batch[last]})

\* coalesce_motion: a pointer gives way to one right after it.
Coalesce(batch) ==
  Retain(batch, {i \in DOMAIN batch :
                   ~ (IsPointer(batch[i]) /\ i < Len(batch) /\ IsPointer(batch[i + 1]))})

Inputs(batch) == {i \in DOMAIN batch : batch[i].type = "Input"}

\* The task takes all there is, collapses it and writes it: input as datagrams,
\* the rest to the control stream.
SendBatch ==
  /\ commands # <<>>
  /\ LET batch == Coalesce(commands) IN
     /\ wire' = wire \o Retain(batch, Inputs(batch))
     /\ control' = control \o Retain(batch, DOMAIN batch \ Inputs(batch))
     /\ Len(wire') <= scene.queue /\ Len(control') <= scene.queue
  /\ commands' = <<>>
  /\ UNCHANGED <<scene, person, here, state, peer, timing, faults, mishaps>>

Without(seq, i) == Retain(seq, DOMAIN seq \ {i})

\* A datagram never arrives.
LoseDatagram(i) ==
  /\ Mishap
  /\ wire' = Without(wire, i)
  /\ faults' = faults \cup {"lost"}
  /\ UNCHANGED <<scene, person, here, state, commands, control, peer, timing>>

\* The session ends; its queue and what was on the way are lost, the adapters and
\* what they have pressed stay.  The cursor comes home to where rebuild_layout
\* puts it, and the next session has a rate limiter of its own.
SessionEnds ==
  /\ away
  /\ strokes < scene.strokes /\ strokes' = strokes + 1
  /\ away' = FALSE /\ cursor' = 0
  /\ commands' = <<>> /\ control' = <<>> /\ wire' = <<>>
  /\ limiter' = NewLimiter(clock)
  /\ begun' = [second \in {clock} |-> injected.count]
  /\ faults' = faults \cup Carried \cup (IF commands \o wire # <<>> THEN {"lost"} ELSE {})
  /\ UNCHANGED <<scene, hands, at, here, swap, visits, sink, desktop, injected, clock, mishaps>>

-----------------------------------------------------------------------------
(* The peer                                                                *)

\* Mutant: a refill is added on top of a full bucket.
RefilledUncapped == limiter.tokens + Rate * (clock - limiter.last)

Least(a, b) == IF a <= b THEN a ELSE b

\* allow_at: what has been refilled since the last event, up to the capacity.
Refilled == Least(limiter.tokens + Rate * (clock - limiter.last), Burst)

InjectOf(e, soon) ==
  CASE scene.to = "Linux"   -> Linux!Inject(sink, desktop, e)
    [] scene.to = "Windows" -> Windows!Inject(sink, desktop, e)
    [] scene.to = "Mac"     -> Mac!Inject(sink, desktop, e, soon)

\* One button goes down while another is.
Chorded(e) == e.type = "Button" /\ e.action = "Press" /\ desktop.buttons # EmptyMap

\* History: what an event that was injected adds to it.
InjectedAfter(c) ==
  [injected EXCEPT
   !.count = @ + 1,
   !.meant = IF /\ c.event.type = "Key" /\ c.event.action = "Press"
                /\ ~ IsModifierKey(c.event.key)
                /\ scene.to = "Mac" => Mac!Carried(c.event.key)
             THEN c.meant ELSE @,
   !.click = IF c.event.type = "Button" THEN <<desktop.at, c.spot>> ELSE @,
   !.asked = @ + IF c.event.type = "Scroll" THEN c.event.dy ELSE 0]

\* The cursor was placed before the input was sent.
Placed(command, input) == command.type = "Warp" /\ command.visit <= input.visit

RecvFaults(i) ==
  (IF Refilled < 1 THEN {"limited"} ELSE {})
    \cup (IF i > 1 THEN {"reordered"} ELSE {})
    \cup (IF \E n \in DOMAIN control : Placed(control[n], wire[i]) THEN {"overtaken"} ELSE {})
    \cup (IF Chorded(wire[i].event) THEN {"chorded"} ELSE {})

\* A datagram arrives, perhaps before an older one: rate limit, inject.
RecvDatagram(i, soon) ==
  /\ wire' = Without(wire, i)
  /\ limiter' = [tokens |-> IF Refilled >= 1 THEN Refilled - 1 ELSE Refilled, last |-> clock]
  /\ IF Refilled >= 1
     THEN /\ sink' = InjectOf(wire[i].event, soon).sink
          /\ desktop' = InjectOf(wire[i].event, soon).desktop
          /\ injected' = InjectedAfter(wire[i])
     ELSE UNCHANGED <<sink, desktop, injected>>
  /\ faults' = faults \cup RecvFaults(i)
  /\ IF i > 1 THEN Mishap ELSE UNCHANGED mishaps
  /\ UNCHANGED <<scene, person, here, state, commands, control, timing>>

\* CursorWarp places the peer's cursor, perhaps before input that is older;
\* CursorReturned is the other machine's business.
RecvControl ==
  /\ control # <<>>
  /\ control' = Tail(control)
  /\ desktop' = IF Head(control).type = "Warp" THEN PlaceCursor(desktop, Head(control).x) ELSE desktop
  /\ faults' = faults
       \cup (IF Head(control).type = "Warp" /\ \E i \in DOMAIN wire : ~ Placed(Head(control), wire[i])
             THEN {"overtaken"} ELSE {})
  /\ UNCHANGED <<scene, person, here, state, commands, wire, sink, limiter, injected, timing, mishaps>>

Tick ==
  /\ clock < scene.seconds /\ clock' = clock + 1
  /\ begun' = [second \in DOMAIN begun \cup {clock + 1} |->
                 IF second = clock + 1 THEN injected.count ELSE begun[second]]
  /\ UNCHANGED <<scene, person, here, state, net, peer, faults, mishaps>>

\* `omni modifiers' changes the link's swap at any time.
SetModifierSwap ==
  /\ scene.doing = "keyboard" /\ Mishap
  /\ swap' \in Swap \ {swap}
  /\ faults' = faults \cup {"relabelled"}
  /\ UNCHANGED <<scene, person, here, away, cursor, visits, net, peer, timing>>

Next ==
  \/ \E raw \in Strokes : Touch(raw)
  \/ ReaderTurns \/ SourceMishap \/ SourceRecovers
  \/ ApplySuppression \/ PollAndRoute \/ PollIdle
  \/ SendBatch \/ RecvControl \/ SessionEnds \/ SetModifierSwap \/ Tick
  \/ \E i \in DOMAIN wire : LoseDatagram(i) \/ \E soon \in BOOLEAN : RecvDatagram(i, soon)

Spec == Init /\ [][Next]_vars

-----------------------------------------------------------------------------
(* Properties                                                              *)

\* The words in `faults' are "missed", "right", "apart", "ungrabbed", "carried",
\* "lost", "limited", "reordered", "overtaken", "relabelled" and "chorded": each
\* action that lets one happen says what it is.

\* What the person typed as a chord is taken as that chord on a Windows or macOS
\* peer, whatever was lost, overtaken or refused on the way and whatever was held
\* across a crossing: every key event carries the modifiers that go with it
\* (inject_key in both sinks).  Two keys for one modifier defeat it, and so do
\* events the capturing adapter never saw.
TypedAsMeant ==
  scene.to \in {"Windows", "Mac"} /\ faults \intersect {"right", "missed"} = {}
    => desktop.chord = injected.meant

Drained == captured = <<>> /\ commands = <<>> /\ control = <<>> /\ wire = <<>>

Carry(key) ==
  /\ scene.from = "Mac" => Mac!Carried(key) /\ key # CapsLock
  /\ scene.to = "Mac" => Mac!Carried(key)

\* When everything has arrived, the peer's desktop takes those keys to be down
\* that are down on the controller, under the names the swap gives them, and has
\* Caps Lock as the controller has it: no key is stuck and none is missing
\* (convert_event, inject_key and the key tables of the three systems).
KeysBalance ==
  /\ Drained /\ away
  /\ faults \subseteq {"overtaken"} \cup (IF scene.to = "Windows" THEN {} ELSE {"right"})
  => /\ desktop.keys = {IF swap = "None" THEN key ELSE SwapKey(key) :
                          key \in {k \in hands.keys : Carry(k)}}
     /\ desktop.caps = hands.locked

\* A click lands where the virtual cursor was when the button went down, however
\* the movements around it are collapsed (coalesce_motion, Pointer events).
ClickLands == faults = {} => injected.click[1] = injected.click[2]

\* A button comes up with the click count it went down with, so that a double
\* click is one (click_state).
ClickPairs == "chorded" \notin faults => desktop.up[1] = desktop.up[2]

\* Once the adapter has been told, an event is withheld from the local desktop
\* exactly if the input goes to the peer (run_capture, set_suppressed).
ActsOnce ==
  faults \intersect {"missed", "ungrabbed"} = {}
    => \A i \in DOMAIN captured : captured[i].calm => captured[i].kept = captured[i].home

\* In any number of whole seconds of a session no more is injected than a full
\* bucket and what refills it in that time, however idle it was before
\* (RateLimiter::allow_at; another session has a bucket of its own).
WithinRate ==
  \A second \in DOMAIN begun :
    injected.count - begun[second] <= Burst + Rate * (clock - second)

\* No scrolling is made up and none goes missing: what the desktop was scrolled
\* and what is pending are what was asked for, with less than one unit pending,
\* in the same direction as the scrolling that left it (Scaled::take), as long as
\* nobody changes the lines per notch, which the Windows adapters ask for each time.
WheelExact ==
  LET unit  == IF scene.to = "Windows" THEN PerLine * sink.lines ELSE PerLine
      asked == injected.asked * (IF scene.to = "Windows" THEN Notch ELSE 1) IN
  /\ desktop.scrolled * unit + sink.wheel = asked
  /\ sink.wheel < unit /\ -sink.wheel < unit

\* Nothing is clamped to 32 bits when a turn comes to no more than `most'
\* milli-lines and a whole unit besides still fits: what WheelExact takes for
\* granted of the numbers (i64::clamp in Scaled::take).
WheelFits(most) ==
  /\ most \in Nat
  /\ \A lines \in LinesPerNotch \cup {1} : PerLine * lines + most * Notch <= Limit
  /\ \A turn \in WheelTurns :
       /\ turn * PerLine \in -most..most /\ FromHalves(turn) \in -most..most
       /\ \A lines \in LinesPerNotch :
            turn * (PerLine * lines) \in (Notch - most * Notch)..(most * Notch - Notch)
=============================================================================
