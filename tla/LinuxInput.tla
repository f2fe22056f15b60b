----------------------------- MODULE LinuxInput ------------------------------
(***************************************************************************)
(* The Linux adapters: evdev readers that grab their device while input is *)
(* suppressed, and a uinput device to inject with.                         *)
(*                                                                         *)
(* A source is [suppressed, grabbed, due, modifiers, unplugged]; `due' are *)
(* the devices of which a batch is being read, whose reader has yet to     *)
(* come round to the top of its loop, where alone it looks at the flag.    *)
(* Until then any number of events goes by the grab it has.  A sink is     *)
(* [wheel].  Whether the cursor could be hidden makes no difference to     *)
(* anything here.                                                          *)
(***************************************************************************)
EXTENDS InputOps

Device == {"keyboard", "mouse"}

\* linux/keymap.rs carries every kind of key told apart here.
Carried(key) == TRUE

NewSource ==
  [suppressed |-> FALSE, grabbed |-> {}, due |-> {}, modifiers |-> {}, unplugged |-> {}]

\* LinuxSource::set_suppressed
SetSuppressed(s, flag) == [s EXCEPT !.suppressed = flag]

\* poll fails once every reader is gone.
Stopped(s) == s.unplugged = Device

DeviceOf(raw) == IF raw.kind = "key" THEN "keyboard" ELSE "mouse"

\* update_modifiers: one bit for both sides.
UpdateModifiers(modifiers, raw) ==
  IF ~ IsModifierKey(raw.key) THEN modifiers
  ELSE IF raw.action = "Release" THEN modifiers \ {raw.key.name}
  ELSE modifiers \cup {raw.key.name}

\* The value of an EV_KEY event: a repeat is a press.
ActionOf(value) == IF value = "Release" THEN "Release" ELSE "Press"

\* convert_event, of one frame.
Convert(s, raw) ==
  CASE raw.kind = "key" ->
         IF (raw.action = "Repeat" /\ IsModifierKey(raw.key)) \/ ~ Carried(raw.key) THEN <<>>
         ELSE <<KeyEvent(raw.key, ActionOf(raw.action), UpdateModifiers(s.modifiers, raw))>>
    [] raw.kind = "button" -> <<ButtonEvent(raw.button, raw.action)>>
    [] raw.kind = "move"   -> IF raw.dx = 0 THEN <<>> ELSE <<MotionEvent(raw.dx)>>
    [] raw.kind = "wheel"  -> <<ScrollEvent(raw.turn * PerLine)>>

CanRead(s, raw) == DeviceOf(raw) \notin s.unplugged

\* An event of the batch read_device fetches, the first one or a further one, or
\* one that waits for the next: what the desktop gets of it goes by the grab taken
\* before.
Read(s, at, raw) ==
  [source |-> [s EXCEPT !.modifiers = IF raw.kind = "key" /\ raw.action # "Repeat"
                                      THEN UpdateModifiers(@, raw) ELSE @,
                        !.due = @ \cup {DeviceOf(raw)}],
   events |-> Convert(s, raw),
   kept   |-> DeviceOf(raw) \notin s.grabbed,
   at     |-> CursorAfter(at, raw, DeviceOf(raw) \notin s.grabbed)]

\* Mutant: the readers never look at the flag again.
TurnsUngrabbed(s, dev, more) == [s EXCEPT !.due = (@ \ {dev}) \cup more]

\* The top of a reader's loop; `more' is its device if events wait for it.
Turns(s, dev, more) ==
  [s EXCEPT !.due = (@ \ {dev}) \cup more,
            !.grabbed = IF s.suppressed THEN @ \cup {dev} ELSE @ \ {dev}]

\* A grab that fails is tried again after the next batch.
TurnFails(s, dev, more) == [s EXCEPT !.due = (@ \ {dev}) \cup more]

\* A device is unplugged, and its reader ends.
Unplugs(s) ==
  {[s EXCEPT !.unplugged = @ \cup {dev}, !.grabbed = @ \ {dev}, !.due = @ \ {dev}] :
     dev \in Device \ s.unplugged}

-----------------------------------------------------------------------------
NewSink == [wheel |-> 0]

\* LinuxSink::inject: the modifiers of a key event are not looked at.
Inject(k, d, e) ==
  CASE e.type = "Key" ->
         [sink |-> k, desktop |-> IF Carried(e.key) THEN SendKey(d, e.key, e.action) ELSE d]
    [] e.type = "Motion"  -> [sink |-> k, desktop |-> PlaceCursor(d, ClampToScreen(d.at + e.dx))]
    [] e.type = "Pointer" -> [sink |-> k, desktop |-> PlaceCursor(d, e.x)]
    [] e.type = "Button"  -> [sink |-> k, desktop |-> PostButton(d, e.button, e.action, 1)]
    [] e.type = "Scroll"  ->
         LET taken == TakeLines(k.wheel, e.dy) IN
         [sink |-> [k EXCEPT !.wheel = taken.pending], desktop |-> ScrollBy(d, taken.whole)]
=============================================================================
