------------------------------ MODULE MacInput -------------------------------
(***************************************************************************)
(* The macOS adapters: an event tap, which the system disables when it is  *)
(* slow, and CGEvents that carry their own modifiers.                      *)
(*                                                                         *)
(* A source is [suppressed, held, caps, tapped]: `held' are the modifier   *)
(* keys whose FlagsChanged came an odd number of times, `caps' the last    *)
(* state of Caps Lock it was told of.  A sink is [buttons, modifiers,      *)
(* click, wheel].  Hiding the cursor is left out.                          *)
(***************************************************************************)
EXTENDS InputOps

\* macos/keymap.rs has no Pause, Print Screen or Scroll Lock.
Carried(key) == key # Pause

NewSource ==
  [suppressed |-> FALSE, held |-> {}, caps |-> FALSE, tapped |-> TRUE]

\* MacosSource::set_suppressed
SetSuppressed(s, flag) == [s EXCEPT !.suppressed = flag]

\* toggle_modifier: an unseen key goes down, a held one comes up.
ToggleModifier(held, key) ==
  IF key \in held THEN [held |-> held \ {key}, action |-> "Release"]
  ELSE [held |-> held \cup {key}, action |-> "Press"]

\* caps_lock_tap: nothing is sent when the state did not change.
CapsLockTap(previous, now, flags) ==
  IF previous = now THEN <<>>
  ELSE <<KeyEvent(CapsLock, "Press", flags), KeyEvent(CapsLock, "Release", flags)>>

\* FlagsChanged does not say whether a modifier key went down or up.
ConvertFlagsChanged(s, key, flags) ==
  LET toggled == ToggleModifier(s.held, key) IN
  [source |-> [s EXCEPT !.held = toggled.held],
   events |-> <<KeyEvent(key, toggled.action, flags)>>]

\* Caps Lock comes as a FlagsChanged for the press and one for the release; its
\* state is the system's.
ConvertCapsLock(s, now, flags) ==
  [source |-> [s EXCEPT !.caps = now], events |-> CapsLockTap(s.caps, now, flags)]

\* convert_event.  The system sends no FlagsChanged for the repeats of a held
\* modifier key.  `held' are the keys down after the event, `locked' the state
\* of Caps Lock.
Convert(s, raw, held, locked) ==
  LET flags  == ModifiersOf(held)
      only(e) == [source |-> s, events |-> e] IN
  CASE raw.kind = "key" /\ raw.key = CapsLock ->
         IF raw.action = "Repeat" THEN only(<<>>) ELSE ConvertCapsLock(s, locked, flags)
    [] raw.kind = "key" /\ IsModifierKey(raw.key) ->
         IF raw.action = "Repeat" THEN only(<<>>) ELSE ConvertFlagsChanged(s, raw.key, flags)
    [] raw.kind = "key" /\ raw.key # CapsLock /\ ~ IsModifierKey(raw.key) ->
         IF Carried(raw.key)
         THEN only(<<KeyEvent(raw.key, IF raw.action = "Release" THEN "Release" ELSE "Press", flags)>>)
         ELSE only(<<>>)
    [] raw.kind = "button" -> only(<<ButtonEvent(raw.button, raw.action)>>)
    [] raw.kind = "move"   -> only(<<MotionEvent(raw.dx)>>)
    [] raw.kind = "wheel"  ->
         only(IF raw.turn = 0 THEN <<>> ELSE <<ScrollEvent(FromHalves(raw.turn))>>)

\* The tap's callback; a disabled tap sees nothing and withholds nothing.
Read(s, at, raw, held, locked) ==
  IF ~ s.tapped
  THEN [source |-> s, events |-> <<>>, kept |-> TRUE, at |-> CursorAfter(at, raw, TRUE)]
  ELSE LET converted == Convert(s, raw, held, locked) IN
       [source |-> converted.source, events |-> converted.events,
        kept |-> ~ s.suppressed, at |-> CursorAfter(at, raw, ~ s.suppressed)]

\* The system disables the tap, and tells the callback, which enables it again.
TapDisabled(s) == [s EXCEPT !.tapped = FALSE]
TapEnabled(s) == [s EXCEPT !.tapped = TRUE]

-----------------------------------------------------------------------------
NoClick == [button |-> "none", at |-> 0, count |-> 0]

NewSink == [buttons |-> {}, modifiers |-> {}, click |-> NoClick, wheel |-> 0]

\* inject_key: the event is stamped with the modifiers it carries.
InjectKey(k, d, e) ==
  IF Carried(e.key)
  THEN [sink    |-> [k EXCEPT !.modifiers = e.modifiers],
        desktop |-> PostKey(d, e.key, e.action, e.modifiers)]
  ELSE [sink |-> k, desktop |-> d]

\* next_click_count: the streak goes on for the same button at the same spot,
\* soon after.
NextClickCount(click, button, at, soon) ==
  IF click.button = button /\ soon /\ click.at = at THEN click.count + 1 ELSE 1

\* Mutant: a release starts a streak of its own.
ReleaseCountOne(k, button) == 1

\* click_state of a release: the count of the press before it.
ReleaseCount(k, button) == IF k.click.button = button THEN k.click.count ELSE 1

\* inject_button; `soon' is whether DOUBLE_CLICK_INTERVAL has not passed.
InjectButton(k, d, e, soon) ==
  IF e.action = "Press"
  THEN LET count == NextClickCount(k.click, e.button, d.at, soon) IN
       [sink    |-> [k EXCEPT !.buttons = @ \cup {e.button},
                              !.click = [button |-> e.button, at |-> d.at, count |-> count]],
        desktop |-> PostButton(d, e.button, "Press", count)]
  ELSE [sink    |-> [k EXCEPT !.buttons = @ \ {e.button}],
        desktop |-> PostButton(d, e.button, "Release", ReleaseCount(k, e.button))]

\* inject_scroll: whole lines.
InjectScroll(k, d, dy) ==
  LET taken == TakeLines(k.wheel, dy) IN
  [sink |-> [k EXCEPT !.wheel = taken.pending], desktop |-> ScrollBy(d, taken.whole)]

\* inject_pointer keeps the position on the desktop, inject_motion moves from
\* where the cursor is.
Inject(k, d, e, soon) ==
  CASE e.type = "Key"     -> InjectKey(k, d, e)
    [] e.type = "Motion"  -> [sink |-> k, desktop |-> PlaceCursor(d, ClampToScreen(d.at + e.dx))]
    [] e.type = "Pointer" -> [sink |-> k, desktop |-> PlaceCursor(d, ClampToScreen(e.x))]
    [] e.type = "Button"  -> InjectButton(k, d, e, soon)
    [] e.type = "Scroll"  -> InjectScroll(k, d, e.dy)
=============================================================================
