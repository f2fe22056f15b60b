------------------------------ MODULE Topology ------------------------------
(***************************************************************************)
(* omni-topology: the virtual desktop and the cursor that moves over it.   *)
(* A layout is [screens, links]; screens maps a machine to its size, links *)
(* maps <<machine, edge>> to the machine past that edge.  Coordinates are  *)
(* computed in i64 and never get near its limits; the one narrowing that   *)
(* can lose something, `as i32' in scale_axis, keeps its width (IntHalf).  *)
(***************************************************************************)
EXTENDS Maps, Integers

CONSTANTS
  Machine,     \* machines of the virtual desktop
  Home,        \* the machine whose mouse moves the cursor
  Screen,      \* screen sizes
  Hubs,        \* the machines others are placed next to
  Linkable,    \* the edges machines are linked by
  MaxDelta,    \* bound: largest movement of the mouse
  IntHalf      \* 2^31: how many values a movement, an i32, has below zero

ASSUME HomeAssumption == Home \in Machine
ASSUME ScreenAssumption ==   \* a display that exists has at least one pixel
         Screen \subseteq [width : Nat \ {0}, height : Nat \ {0}]
ASSUME MaxDeltaAssumption == MaxDelta \in Nat
ASSUME IntHalfAssumption == IntHalf \in Nat \ {0}

Edge == {"Left", "Right", "Top", "Bottom"}

ASSUME HubsAssumption == Hubs \subseteq Machine
ASSUME LinkableAssumption == Linkable \subseteq Edge

VARIABLES layout,   \* the VirtualLayout
          cursor    \* the CursorState: [machine, x, y]

vars == <<layout, cursor>>

Opposite(e) == CASE e = "Left"  -> "Right"
                 [] e = "Right" -> "Left"
                 [] e = "Top"   -> "Bottom"
                 [] e = "Bottom" -> "Top"

Delta == (-MaxDelta)..MaxDelta

-----------------------------------------------------------------------------
(* Arithmetic                                                              *)

Clamp(x, lo, hi) == IF x < lo THEN lo ELSE IF x > hi THEN hi ELSE x

\* What is left of x in an i32.
Wrap(x) == ((x + IntHalf) % (2 * IntHalf)) - IntHalf

\* Integer division of the code truncates; \div of TLA+ rounds down.
Quotient(x, y) == IF x < 0 THEN -((-x) \div y) ELSE x \div y

Signum(x) == IF x < 0 THEN -1 ELSE IF x > 0 THEN 1 ELSE 0

\* Mutant: a movement too small for the division is lost.
ScaleAxisLossy(delta, from, to) == Wrap(Quotient(delta * to, from))

ScaleAxis(delta, from, to) ==
  IF delta = 0 \/ from = 0 \/ to = 0 \/ from = to THEN delta
  ELSE LET scaled == Quotient(delta * to, from) IN
       IF scaled = 0 THEN Signum(delta) ELSE Wrap(scaled)

\* Mutant: spans are compared by their lengths, not by their last coordinates.
ProjectByLength(coord, src, dst) ==
  IF src <= 1 \/ dst = 0 THEN 0
  ELSE (Clamp(coord, 0, src) * dst) \div src

Project(coord, src, dst) ==
  IF src <= 1 \/ dst = 0 THEN 0
  ELSE (Clamp(coord, 0, src - 1) * (dst - 1)) \div (src - 1)

-----------------------------------------------------------------------------
(* The layout                                                              *)

AddMachine(lay, m, screen) == [lay EXCEPT !.screens = Insert(@, m, screen)]

LinkEdge(lay, a, e, b) ==
  [lay EXCEPT !.links = Insert(Insert(@, <<a, e>>, b), <<b, Opposite(e)>>, a)]

\* The edge a coordinate runs past and by how much, as a set of at most one.
EdgeOvershoot(coord, length, low, high) ==
  IF coord < 0 THEN {[edge |-> low, over |-> -coord]}
  ELSE IF coord >= length THEN {[edge |-> high, over |-> coord - (length - 1)]}
  ELSE {}

\* The edges run past that have a neighbor.
Exits(lay, m, x, y) ==
  {o \in EdgeOvershoot(x, lay.screens[m].width, "Left", "Right")
           \cup EdgeOvershoot(y, lay.screens[m].height, "Top", "Bottom") :
     <<m, o.edge>> \in DOMAIN lay.links}

\* The one overshot most; a tie goes to the vertical one, which comes last.
ChosenExit(exits) ==
  CHOOSE o \in exits :
    \A p \in exits \ {o} :
      o.over > p.over \/ (o.over = p.over /\ o.edge \in {"Top", "Bottom"})

Horizontal == {"Left", "Right"}

\* Mutant: the coordinate along the edge is taken over unscaled.
EntryPointUnscaled(e, peer, from, x, y) ==
  IF e \in Horizontal
  THEN [x |-> IF e = "Right" THEN 0 ELSE peer.width - 1, y |-> Clamp(y, 0, from.height - 1)]
  ELSE [x |-> Clamp(x, 0, from.width - 1), y |-> IF e = "Bottom" THEN 0 ELSE peer.height - 1]

EntryPoint(e, peer, from, x, y) ==
  IF e \in Horizontal
  THEN [x |-> IF e = "Right" THEN 0 ELSE peer.width - 1,
        y |-> Project(y, from.height, peer.height)]
  ELSE [x |-> Project(x, from.width, peer.width),
        y |-> IF e = "Bottom" THEN 0 ELSE peer.height - 1]

Land(m, point) == [machine |-> m, x |-> point.x, y |-> point.y]

Advance(lay, cur, dx, dy) ==
  LET screen == lay.screens[cur.machine]
      x == cur.x + dx
      y == cur.y + dy
  IN  IF Exits(lay, cur.machine, x, y) # {}
      THEN LET e == ChosenExit(Exits(lay, cur.machine, x, y)).edge
               peer == lay.links[<<cur.machine, e>>]
           IN  Land(peer, EntryPoint(e, lay.screens[peer], screen, x, y))
      ELSE Land(cur.machine, [x |-> Clamp(x, 0, screen.width - 1),
                              y |-> Clamp(y, 0, screen.height - 1)])

-----------------------------------------------------------------------------
(* The desktop as a component                                              *)

Init ==
  \E screen \in Screen :
    /\ layout = [screens |-> [m \in {Home} |-> screen], links |-> EmptyMap]
    /\ cursor = [machine |-> Home, x |-> 0, y |-> 0]

\* add_machine; a machine that is there already is DuplicateMachine.
Add(m, screen) ==
  /\ m \notin DOMAIN layout.screens
  /\ layout' = AddMachine(layout, m, screen)
  /\ UNCHANGED cursor

\* link; a machine that is not there is UnknownMachine.
Link(a, e, b) ==
  /\ a \in DOMAIN layout.screens /\ b \in DOMAIN layout.screens
  /\ layout' = LinkEdge(layout, a, e, b)
  /\ UNCHANGED cursor

\* advance_cursor: away from home the movement is rescaled first.
Moved(dx, dy) ==
  LET home == layout.screens[Home]
      here == layout.screens[cursor.machine]
  IN  IF cursor.machine = Home THEN Advance(layout, cursor, dx, dy)
      ELSE Advance(layout, cursor, ScaleAxis(dx, home.width, here.width),
                                   ScaleAxis(dy, home.height, here.height))

Move(dx, dy) ==
  /\ cursor' = Moved(dx, dy)
  /\ UNCHANGED layout

Next ==
  \/ \E m \in Machine, screen \in Screen : Add(m, screen)
  \/ \E a \in Hubs, b \in Machine, e \in Linkable : a # b /\ Link(a, e, b)
  \/ \E dx, dy \in Delta : Move(dx, dy)

Spec == Init /\ [][Next]_vars

-----------------------------------------------------------------------------
(* Properties                                                              *)

\* However the desktop is put together and whatever the mouse does, the cursor is
\* on a pixel of a machine that is part of it, and no edge leads to a machine
\* without a screen: advance() can fail with UnknownMachine for neither.
CursorOnScreen ==
  /\ cursor.machine \in DOMAIN layout.screens
  /\ cursor.x < layout.screens[cursor.machine].width
  /\ cursor.y < layout.screens[cursor.machine].height
  /\ \A k \in DOMAIN layout.links :
       k[1] \in DOMAIN layout.screens /\ layout.links[k] \in DOMAIN layout.screens

\* A movement that was not zero never scales down to zero (scale_delta): unless
\* it leaves the screen, the cursor goes the way the mouse does.
MovementNeverLost ==
  \A dx \in Delta \ {0} :
    LET next == Moved(dx, 0) IN
    next.machine = cursor.machine =>
      \/ Signum(next.x - cursor.x) = Signum(dx)
      \/ cursor.x = IF dx < 0 THEN 0 ELSE layout.screens[cursor.machine].width - 1

\* Pushing straight over an edge, and the coordinate along it.
Push(cur, e, n) ==
  CASE e = "Left"   -> Advance(layout, cur, -n, 0)
    [] e = "Right"  -> Advance(layout, cur, n, 0)
    [] e = "Top"    -> Advance(layout, cur, 0, -n)
    [] e = "Bottom" -> Advance(layout, cur, 0, n)

Along(cur, e) == IF e \in Horizontal THEN cur.y ELSE cur.x

Extent(m, e) ==
  IF e \in Horizontal THEN layout.screens[m].height ELSE layout.screens[m].width

Breadth(m, e) ==
  IF e \in Horizontal THEN layout.screens[m].width ELSE layout.screens[m].height

\* Crossing an edge and coming straight back ends at that edge of the same
\* machine, less than one pixel of the coarser screen before where it left and
\* never beyond; from a corner, at the very same pixel.
ThereAndBack ==
  \A e \in Edge :
    LET m == cursor.machine IN
    <<m, e>> \in DOMAIN layout.links =>
      LET p == layout.links[<<m, e>>] IN
      layout.links[<<p, Opposite(e)>>] = m =>
        LET back == Push(Push(cursor, e, Breadth(m, e)), Opposite(e), Breadth(p, e))
            lost == Along(cursor, e) - Along(back, e)
            src  == Extent(m, e) - 1
            dst  == Extent(p, e) - 1
        IN  /\ back.machine = m
            /\ lost >= 0
            /\ dst > 0 => lost * dst < src + dst
            /\ dst > 0 /\ Along(cursor, e) = src => lost = 0
=============================================================================
