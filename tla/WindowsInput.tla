---------------------------- MODULE WindowsInput -----------------------------
(***************************************************************************)
(* The Windows adapters: low-level hooks that Windows may silently remove  *)
(* and a timer re-arms, and SendInput with a record of the modifiers held. *)
(*                                                                         *)
(* A source is [suppressed, modifiers, last, hooked, open, wheel, lines]:  *)
(* `last' is the anchor of relative motion, or NoAnchor; `open' says that  *)
(* the event channel has its sender; `wheel' is what a wheel has turned    *)
(* but not reported, `lines' the cached lines per notch.  A sink is        *)
(* [held, wheel].                                                          *)
(***************************************************************************)
EXTENDS InputOps

CONSTANTS Notch,         \* WHEEL_DELTA
          LinesPerNotch  \* what this machine's settings say a notch scrolls

NoAnchor == -1
Centre == Width \div 2

\* windows/keymap.rs: the keypad's Enter shares its virtual key with the main
\* one, the extended bit tells them apart.
VirtualKey(key) ==
  IF key = KeypadEnter THEN [vk |-> "Return", side |-> "none", extended |-> TRUE]
  ELSE [vk |-> key.name, side |-> key.side, extended |-> IsModifierKey(key) /\ key.side = "right"]

\* Mutant: the extended bit is not looked at.
HidFromVkPlain(v) == [side |-> v.side, name |-> v.vk]

HidFromVk(v) ==
  IF v.vk = "Return" /\ v.extended THEN KeypadEnter ELSE [side |-> v.side, name |-> v.vk]

NewSource ==
  {[suppressed |-> FALSE, modifiers |-> {}, last |-> NoAnchor, hooked |-> TRUE,
    open |-> TRUE, wheel |-> 0, lines |-> lines] : lines \in LinesPerNotch}

\* WindowsSource::set_suppressed; the cursor is parked at the centre.
SetSuppressed(s, flag) ==
  [s EXCEPT !.suppressed = flag, !.last = IF flag THEN Centre ELSE NoAnchor]
ParkedAt(at, flag) == IF flag THEN Centre ELSE at

Stopped(s) == ~ s.open

UpdateModifiers(modifiers, raw) ==
  IF ~ IsModifierKey(raw.key) THEN modifiers
  ELSE IF raw.action = "Release" THEN modifiers \ {raw.key.name}
  ELSE modifiers \cup {raw.key.name}

\* keyboard_proc: every key is queued, and swallowed while suppressed.
KeyboardProc(s, at, raw) ==
  LET modifiers == UpdateModifiers(s.modifiers, raw) IN
  [source |-> [s EXCEPT !.modifiers = modifiers],
   events |-> <<KeyEvent(HidFromVk(VirtualKey(raw.key)),
                         IF raw.action = "Release" THEN "Release" ELSE "Press", modifiers)>>,
   kept   |-> ~ s.suppressed,
   at     |-> at]

\* convert_mouse, WM_MOUSEMOVE: the first sample only anchors.
MouseMove(s, at, raw) ==
  LET x        == at + raw.dx
      anchored == s.last # NoAnchor
      park     == anchored /\ s.suppressed IN
  [source |-> [s EXCEPT !.last = IF park THEN Centre ELSE x],
   events |-> IF anchored /\ x # s.last THEN <<MotionEvent(x - s.last)>> ELSE <<>>,
   kept   |-> ~ s.suppressed,
   at     |-> IF park THEN Centre ELSE CursorAfter(at, raw, ~ s.suppressed)]

\* wheel_millilines; a turn is in hundred-and-twentieths of a notch.
WheelMillilines(s, turn) == Take(s.wheel, turn, ToI32(s.lines * PerLine), Notch)

MouseWheel(s, at, raw) ==
  LET taken == WheelMillilines(s, raw.turn) IN
  [source |-> [s EXCEPT !.wheel = taken.pending],
   events |-> IF taken.whole = 0 THEN <<>> ELSE <<ScrollEvent(taken.whole)>>,
   kept   |-> ~ s.suppressed,
   at     |-> at]

\* A hook that Windows has removed sees nothing and withholds nothing.
Read(s, at, raw) ==
  CASE ~ s.hooked -> [source |-> s, events |-> <<>>, kept |-> TRUE,
                      at |-> CursorAfter(at, raw, TRUE)]
    [] s.hooked /\ raw.kind = "key"   -> KeyboardProc(s, at, raw)
    [] s.hooked /\ raw.kind = "move"  -> MouseMove(s, at, raw)
    [] s.hooked /\ raw.kind = "wheel" -> MouseWheel(s, at, raw)
    [] s.hooked /\ raw.kind = "button" ->
         [source |-> s, events |-> <<ButtonEvent(raw.button, raw.action)>>,
          kept |-> ~ s.suppressed, at |-> at]

\* Windows removes a hook whose callback was slow.
HookRemoved(s) == [s EXCEPT !.hooked = FALSE]

\* The timer of run_hooks: the settings are read again and the hooks installed
\* anew; if that fails the event channel is dropped.
Rearm(s) ==
  UNION {{[s EXCEPT !.hooked = ok, !.open = ok, !.lines = lines] : lines \in LinesPerNotch} :
           ok \in BOOLEAN}

-----------------------------------------------------------------------------
NewSink == {[held |-> {}, wheel |-> 0, lines |-> lines] : lines \in LinesPerNotch}

\* MODIFIER_KEYS: the left key stands for the modifier.
LeftKey(modifier) == [side |-> "left", name |-> modifier]

\* reconcile and apply_modifiers, with every SendInput accepted: what is held
\* too much is released, what is missing is pressed.
ApplyModifiers(k, d, wanted) ==
  [sink    |-> [k EXCEPT !.held = wanted],
   desktop |-> [d EXCEPT !.keys = (@ \ {LeftKey(m) : m \in k.held \ wanted})
                                     \cup {LeftKey(m) : m \in wanted \ k.held}]]

\* inject_key: a modifier key is obeyed and recorded; before any other key the
\* modifiers it carries are put in place.
InjectKey(k, d, e) ==
  IF IsModifierKey(e.key)
  THEN [sink    |-> [k EXCEPT !.held = IF e.action = "Press" THEN @ \cup {e.key.name}
                                       ELSE @ \ {e.key.name}],
        desktop |-> SendKey(d, e.key, e.action)]
  ELSE LET fixed == ApplyModifiers(k, d, e.modifiers) IN
       [fixed EXCEPT !.desktop = SendKey(@, HidFromVk(VirtualKey(e.key)), e.action)]

\* inject_scroll: this machine's own lines per notch are divided out.
InjectScroll(k, d, dy) ==
  LET taken == Take(k.wheel, dy, Notch, ToI32(PerLine * k.lines)) IN
  [sink |-> [k EXCEPT !.wheel = taken.pending], desktop |-> ScrollBy(d, taken.whole)]

Inject(k, d, e) ==
  CASE e.type = "Key"     -> InjectKey(k, d, e)
    [] e.type = "Motion"  -> [sink |-> k, desktop |-> PlaceCursor(d, ClampToScreen(d.at + e.dx))]
    [] e.type = "Pointer" -> [sink |-> k, desktop |-> PlaceCursor(d, e.x)]
    [] e.type = "Button"  -> [sink |-> k, desktop |-> PostButton(d, e.button, e.action, 1)]
    [] e.type = "Scroll"  -> InjectScroll(k, d, e.dy)
=============================================================================
