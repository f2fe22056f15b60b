------------------------------ MODULE InputOps -------------------------------
(***************************************************************************)
(* The vocabulary of omni-protocol's input events and what a desktop makes *)
(* of injected ones.                                                       *)
(*                                                                         *)
(* A key is a record [side, name]: a modifier key has a side, "left" or    *)
(* "right", any other key has none.  Both sides of a modifier key stand    *)
(* for one modifier.  Positions are those of one axis, 0..Width.           *)
(*                                                                         *)
(* A desktop is a record:                                                  *)
(*   keys     the keys it takes to be held down                            *)
(*   chord    the modifiers it applied to the last ordinary key pressed    *)
(*   caps     whether Caps Lock is on                                      *)
(*   at       where its cursor is                                          *)
(*   buttons  button -> the click count it was pressed with                *)
(*   up       the click count the last button came up with, and went down  *)
(*            with                                                         *)
(*   scrolled how far it was scrolled, in its own unit                     *)
(***************************************************************************)
EXTENDS Scroll, Maps, Sequences

CONSTANT Width    \* the last position on either screen

ASSUME WidthAssumption == Width \in Nat \ {0}

Modifier == {"Shift", "Control", "Alt", "Meta"}
Button == {"Left", "Right"}
Swap == {"None", "MetaAndControl"}

Plain(name) == [side |-> "none", name |-> name]
CapsLock == Plain("CapsLock")
KeypadEnter == Plain("KeypadEnter")
Pause == Plain("Pause")

IsModifierKey(key) == key.side # "none"
ModifiersOf(keys) == {key.name : key \in {k \in keys : IsModifierKey(k)}}

KeyEvent(key, action, modifiers) ==
  [type |-> "Key", key |-> key, action |-> action, modifiers |-> modifiers]
MotionEvent(dx) == [type |-> "Motion", dx |-> dx]
PointerEvent(x) == [type |-> "Pointer", x |-> x]
ButtonEvent(button, action) == [type |-> "Button", button |-> button, action |-> action]
ScrollEvent(dy) == [type |-> "Scroll", dy |-> dy]

-----------------------------------------------------------------------------
(* Relabelling modifiers (remap.rs)                                        *)

SwapName(name) ==
  CASE name = "Meta" -> "Control" [] name = "Control" -> "Meta" [] OTHER -> name

SwapKey(key) == IF IsModifierKey(key) THEN [key EXCEPT !.name = SwapName(@)] ELSE key
SwapModifiers(modifiers) == {SwapName(name) : name \in modifiers}

\* Mutant: the key is relabelled, the modifiers it carries are not.
ApplySwapToKeys(swap, e) ==
  IF swap = "None" \/ e.type # "Key" THEN e ELSE [e EXCEPT !.key = SwapKey(@)]

ApplySwap(swap, e) ==
  IF swap = "None" \/ e.type # "Key" THEN e
  ELSE [e EXCEPT !.key = SwapKey(@), !.modifiers = SwapModifiers(@)]

-----------------------------------------------------------------------------
(* The desktop                                                             *)

NewDesktop ==
  [keys |-> {}, chord |-> {}, caps |-> FALSE, at |-> 0,
   buttons |-> EmptyMap, up |-> <<1, 1>>, scrolled |-> 0]

\* A key event that says which modifiers it is to be taken with.
PostKey(d, key, action, modifiers) ==
  IF action = "Release" THEN [d EXCEPT !.keys = @ \ {key}]
  ELSE [d EXCEPT !.keys  = @ \cup {key},
                 !.chord = IF IsModifierKey(key) THEN @ ELSE modifiers,
                 !.caps  = IF key = CapsLock /\ key \notin d.keys THEN ~ @ ELSE @]

\* One that does not: the modifiers are those the desktop takes to be held.
SendKey(d, key, action) == PostKey(d, key, action, ModifiersOf(d.keys))

\* A button goes down or up, with a click count.
PostButton(d, button, action, count) ==
  IF action = "Press" THEN [d EXCEPT !.buttons = Insert(@, button, count)]
  ELSE IF button \in DOMAIN d.buttons
  THEN [d EXCEPT !.buttons = Remove(@, button), !.up = <<count, d.buttons[button]>>]
  ELSE d

PlaceCursor(d, x) == [d EXCEPT !.at = x]

ScrollBy(d, units) == [d EXCEPT !.scrolled = @ + units]

ClampToScreen(x) == IF x < 0 THEN 0 ELSE IF x > Width THEN Width ELSE x

\* Where the system's own cursor is after an event of the mouse.
CursorAfter(at, raw, kept) ==
  IF kept /\ raw.kind = "move" THEN ClampToScreen(at + raw.dx) ELSE at
=============================================================================
