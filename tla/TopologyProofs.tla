--------------------------- MODULE TopologyProofs ---------------------------
(***************************************************************************)
(* The cursor is always on a pixel of a machine of the virtual desktop,    *)
(* for any screens, any arrangement and any movement.                      *)
(***************************************************************************)
EXTENDS Topology, TLAPS

\* What a division gives when the dividend is at most b times q.
LEMMA QuotientBound ==
  ASSUME NEW a \in Nat, NEW b \in Nat \ {0}, NEW q \in Nat, a <= b * q
  PROVE  a \div b \in Nat /\ a \div b <= q
<1>1. /\ a \div b \in Int /\ a % b \in 0..(b - 1)
      /\ a = b * (a \div b) + (a % b)
  BY SMT
<1>2. b * (a \div b) <= b * q
  BY <1>1, SMT
<1>3. a \div b >= 0
  BY <1>1, SMT
<1>4. a \div b <= q
  BY <1>1, <1>2, SMT
<1> QED
  BY <1>1, <1>3, <1>4

LEMMA ProductBound ==
  ASSUME NEW c \in Nat, NEW s \in Nat, NEW d \in Nat, c <= s
  PROVE  c * d \in Nat /\ c * d <= s * d
  BY SMT

\* project() stays within the span it maps to.
LEMMA ProjectInSpan ==
  ASSUME NEW coord \in Int, NEW src \in Nat \ {0}, NEW dst \in Nat \ {0}
  PROVE  Project(coord, src, dst) \in Nat /\ Project(coord, src, dst) < dst
<1>1. CASE src <= 1
  BY <1>1 DEF Project
<1>2. CASE src > 1
  <2> DEFINE c == Clamp(coord, 0, src - 1)
  <2>1. c \in Nat /\ c <= src - 1
    BY <1>2 DEF Clamp
  <2>2. c * (dst - 1) \in Nat /\ c * (dst - 1) <= (src - 1) * (dst - 1)
    <3> HIDE DEF c
    <3> QED
      BY <2>1, <1>2, ProductBound
  <2>3. src - 1 \in Nat \ {0} /\ dst - 1 \in Nat
    BY <1>2
  <2>4. /\ (c * (dst - 1)) \div (src - 1) \in Nat
        /\ (c * (dst - 1)) \div (src - 1) <= dst - 1
    <3> HIDE DEF c
    <3> QED
      BY <2>2, <2>3, QuotientBound
  <2> QED
    BY <2>4, <1>2 DEF Project
<1> QED
  BY <1>1, <1>2

-----------------------------------------------------------------------------
\* A desktop that is put together properly, and a cursor on one of its pixels.
Desktop(lay) ==
  /\ lay \in [screens : {lay.screens}, links : {lay.links}]
  /\ IsMap(lay.screens, Machine, Screen)
  /\ IsMap(lay.links, Machine \X Edge, Machine)
  /\ \A k \in DOMAIN lay.links :
       k[1] \in DOMAIN lay.screens /\ lay.links[k] \in DOMAIN lay.screens

OnDesktop(lay, cur) ==
  /\ cur \in [machine : Machine, x : Nat, y : Nat]
  /\ cur.machine \in DOMAIN lay.screens
  /\ cur.x < lay.screens[cur.machine].width
  /\ cur.y < lay.screens[cur.machine].height

\* A coordinate overshoots at most one of two opposite edges.
LEMMA OvershootShape ==
  ASSUME NEW coord \in Int, NEW length \in Nat, NEW low \in Edge, NEW high \in Edge
  PROVE  /\ EdgeOvershoot(coord, length, low, high) \subseteq [edge : {low, high}, over : Int]
         /\ \A o, p \in EdgeOvershoot(coord, length, low, high) : o = p
  BY DEF EdgeOvershoot

\* Of the edges overshot one is chosen, whenever there is any: at most one is
\* horizontal and one vertical, and a tie has a winner.
LEMMA ExitIsChosen ==
  ASSUME NEW H, NEW V,
         H \subseteq [edge : {"Left", "Right"}, over : Int],
         V \subseteq [edge : {"Top", "Bottom"}, over : Int],
         \A o, p \in H : o = p,
         \A o, p \in V : o = p,
         NEW E, E \subseteq H \cup V, E # {}
  PROVE  ChosenExit(E) \in E
<1> DEFINE Wins(o) == \A p \in E \ {o} :
                        o.over > p.over \/ (o.over = p.over /\ o.edge \in {"Top", "Bottom"})
<1>1. \E o \in E : Wins(o)
  <2>1. PICK o \in E : TRUE
    OBVIOUS
  <2>2. CASE E = {o}
    BY <2>2
  <2>3. CASE E # {o}
    <3>1. PICK h \in E, v \in E : h \in H /\ v \in V
      BY <2>1, <2>3
    <3>2. E = {h, v}
      BY <3>1
    <3>3. h.over \in Int /\ v.over \in Int /\ v.edge \in {"Top", "Bottom"}
      BY <3>1
    <3>4. CASE v.over >= h.over
      BY <3>2, <3>3, <3>4
    <3>5. CASE h.over > v.over
      BY <3>2, <3>3, <3>5
    <3> QED
      BY <3>3, <3>4, <3>5
  <2> QED
    BY <2>2, <2>3
<1> QED
  BY <1>1 DEF ChosenExit

\* advance() leaves the cursor on a pixel.
LEMMA AdvanceOnDesktop ==
  ASSUME NEW lay, Desktop(lay), NEW cur, OnDesktop(lay, cur), NEW dx \in Int, NEW dy \in Int
  PROVE  OnDesktop(lay, Advance(lay, cur, dx, dy))
<1> DEFINE m == cur.machine
           screen == lay.screens[m]
           x == cur.x + dx
           y == cur.y + dy
           E == Exits(lay, m, x, y)
<1>1. \A p \in DOMAIN lay.screens :
        /\ p \in Machine
        /\ lay.screens[p].width \in Nat \ {0} /\ lay.screens[p].height \in Nat \ {0}
  BY ScreenAssumption DEF Desktop, IsMap
<1>2. x \in Int /\ y \in Int /\ m \in DOMAIN lay.screens
  BY DEF OnDesktop
<1>3. CASE E # {}
  <2> DEFINE H == EdgeOvershoot(x, screen.width, "Left", "Right")
             V == EdgeOvershoot(y, screen.height, "Top", "Bottom")
             e == ChosenExit(E).edge
             peer == lay.links[<<m, e>>]
             there == lay.screens[peer]
  <2>1. /\ H \subseteq [edge : {"Left", "Right"}, over : Int]
        /\ \A o, p \in H : o = p
    BY <1>1, <1>2, OvershootShape DEF Edge
  <2>2. /\ V \subseteq [edge : {"Top", "Bottom"}, over : Int]
        /\ \A o, p \in V : o = p
    BY <1>1, <1>2, OvershootShape DEF Edge
  <2>3. E \subseteq H \cup V
    BY DEF Exits
  <2>4. ChosenExit(E) \in E
    <3> HIDE DEF H, V, E
    <3> QED
      BY <1>3, <2>1, <2>2, <2>3, ExitIsChosen
  <2>5. <<m, e>> \in DOMAIN lay.links
    BY <2>4 DEF Exits
  <2>6. peer \in DOMAIN lay.screens
    BY <2>5 DEF Desktop
  <2>7. /\ Project(y, screen.height, there.height) \in Nat
        /\ Project(y, screen.height, there.height) < there.height
    BY <1>1, <1>2, <2>6, ProjectInSpan
  <2>8. /\ Project(x, screen.width, there.width) \in Nat
        /\ Project(x, screen.width, there.width) < there.width
    BY <1>1, <1>2, <2>6, ProjectInSpan
  <2>9. there.width \in Nat \ {0} /\ there.height \in Nat \ {0}
    BY <1>1, <2>6
  <2>10. LET q == EntryPoint(e, there, screen, x, y) IN
           q.x \in Nat /\ q.x < there.width /\ q.y \in Nat /\ q.y < there.height
    <3> HIDE DEF e, there, screen, x, y
    <3> QED
      BY <2>7, <2>8, <2>9 DEF EntryPoint
  <2>11. Advance(lay, cur, dx, dy) = Land(peer, EntryPoint(e, there, screen, x, y))
    BY <1>3 DEF Advance
  <2> QED
    <3> HIDE DEF e, there, screen, x, y, E
    <3>1. peer \in Machine
      BY <1>1, <2>6
    <3> QED
      BY <2>6, <2>10, <2>11, <3>1 DEF Land, OnDesktop, there
<1>4. CASE E = {}
  <2> DEFINE q == [x |-> Clamp(x, 0, screen.width - 1), y |-> Clamp(y, 0, screen.height - 1)]
  <2>1. screen.width \in Nat \ {0} /\ screen.height \in Nat \ {0}
    BY <1>1, <1>2
  <2>2. q.x \in Nat /\ q.x < screen.width /\ q.y \in Nat /\ q.y < screen.height
    <3> HIDE DEF screen, x, y
    <3> QED
      BY <1>2, <2>1 DEF Clamp
  <2>3. Advance(lay, cur, dx, dy) = Land(m, q)
    BY <1>4 DEF Advance
  <2>4. m \in Machine
    BY <1>1, <1>2
  <2> QED
    <3> HIDE DEF q, x, y
    <3> QED
      BY <1>2, <2>2, <2>3, <2>4 DEF Land, OnDesktop
<1> QED
  BY <1>3, <1>4

\* A movement stays an integer when it is rescaled and narrowed.
LEMMA ScaledIsInt ==
  ASSUME NEW d \in Int, NEW from \in Nat \ {0}, NEW to \in Nat \ {0}
  PROVE  ScaleAxis(d, from, to) \in Int
<1>1. d * to \in Int
  OBVIOUS
<1>2. \A a \in Int : a \div from \in Int
  OBVIOUS
<1>3. Quotient(d * to, from) \in Int
  BY <1>1, <1>2 DEF Quotient
<1>4. \A a \in Int : Wrap(a) \in Int
  BY IntHalfAssumption DEF Wrap
<1> QED
  BY <1>3, <1>4 DEF ScaleAxis, Signum

-----------------------------------------------------------------------------
\* The inductive invariant.
Inv == Desktop(layout) /\ OnDesktop(layout, cursor) /\ Home \in DOMAIN layout.screens

LEMMA InitInv == Init => Inv
  BY HomeAssumption, ScreenAssumption
  DEF Init, Inv, Desktop, OnDesktop, IsMap, EmptyMap

LEMMA AddInv ==
  ASSUME Inv, NEW m \in Machine, NEW screen \in Screen, Add(m, screen)
  PROVE  Inv'
  BY DEF Inv, Desktop, OnDesktop, Add, AddMachine, IsMap, Insert

LEMMA OppositeIsEdge == \A e \in Edge : Opposite(e) \in Edge
  BY Zenon DEF Edge, Opposite

LEMMA LinkInv ==
  ASSUME Inv, NEW a \in Machine, NEW b \in Machine, NEW e \in Linkable, Link(a, e, b)
  PROVE  Inv'
<1>1. e \in Edge /\ Opposite(e) \in Edge
  BY OppositeIsEdge, LinkableAssumption
<1>2. /\ layout'.screens = layout.screens
      /\ layout'.links = Insert(Insert(layout.links, <<a, e>>, b), <<b, Opposite(e)>>, a)
      /\ layout' \in [screens : {layout'.screens}, links : {layout'.links}]
      /\ cursor' = cursor
  BY DEF Inv, Desktop, Link, LinkEdge
<1>3. IsMap(layout'.links, Machine \X Edge, Machine)
  BY <1>1, <1>2 DEF Inv, Desktop, IsMap, Insert
<1>4. \A k \in DOMAIN layout'.links :
        k[1] \in DOMAIN layout.screens /\ layout'.links[k] \in DOMAIN layout.screens
  BY <1>1, <1>2 DEF Inv, Desktop, Link, Insert
<1> QED
  BY <1>2, <1>3, <1>4 DEF Inv, Desktop, OnDesktop

LEMMA MoveInv ==
  ASSUME Inv, NEW dx \in Delta, NEW dy \in Delta, Move(dx, dy)
  PROVE  Inv'
<1>1. dx \in Int /\ dy \in Int
  BY MaxDeltaAssumption DEF Delta
<1>2. \A p \in DOMAIN layout.screens :
        layout.screens[p].width \in Nat \ {0} /\ layout.screens[p].height \in Nat \ {0}
  BY ScreenAssumption DEF Inv, Desktop, IsMap
<1> DEFINE home == layout.screens[Home]
           here == layout.screens[cursor.machine]
           sx == ScaleAxis(dx, home.width, here.width)
           sy == ScaleAxis(dy, home.height, here.height)
<1>3. sx \in Int /\ sy \in Int
  BY <1>1, <1>2, ScaledIsInt DEF Inv, OnDesktop
<1>4. OnDesktop(layout, Advance(layout, cursor, dx, dy))
  BY <1>1, AdvanceOnDesktop DEF Inv
<1>5. OnDesktop(layout, Advance(layout, cursor, sx, sy))
  <2> HIDE DEF sx, sy
  <2> QED
    BY <1>3, AdvanceOnDesktop DEF Inv
<1>6. /\ cursor' = Advance(layout, cursor, dx, dy) \/ cursor' = Advance(layout, cursor, sx, sy)
      /\ layout' = layout
  BY DEF Move, Moved
<1> QED
  BY <1>4, <1>5, <1>6 DEF Inv

LEMMA NextInv == Inv /\ [Next]_vars => Inv'
<1> SUFFICES ASSUME Inv, [Next]_vars PROVE Inv'
  OBVIOUS
<1>1. CASE UNCHANGED vars
  BY <1>1 DEF vars, Inv
<1>2. ASSUME NEW m \in Machine, NEW screen \in Screen, Add(m, screen) PROVE Inv'
  BY <1>2, AddInv
<1>3. ASSUME NEW a \in Hubs, NEW b \in Machine, NEW e \in Linkable, Link(a, e, b) PROVE Inv'
  BY <1>3, LinkInv, HubsAssumption
<1>4. ASSUME NEW dx \in Delta, NEW dy \in Delta, Move(dx, dy) PROVE Inv'
  BY <1>4, MoveInv
<1> QED
  BY <1>1, <1>2, <1>3, <1>4 DEF Next

\* For every set of machines, screens and placements and every movement, the
\* cursor is on a pixel of a known machine and every edge leads to one.
THEOREM CursorStaysOnScreen == Spec => []CursorOnScreen
<1>1. Inv => CursorOnScreen
  BY DEF Inv, Desktop, OnDesktop, CursorOnScreen
<1> QED
  BY InitInv, NextInv, <1>1, PTL DEF Spec

-----------------------------------------------------------------------------
(***************************************************************************)
(* Crossings.  No edge leads back to its own machine, and behind every     *)
(* edge that leads somewhere the opposite edge leads somewhere, too.       *)
(***************************************************************************)
Paired(lay) ==
  \A k \in DOMAIN lay.links :
    lay.links[k] # k[1] /\ <<lay.links[k], Opposite(k[2])>> \in DOMAIN lay.links

PairedInv == Inv /\ Paired(layout)

LEMMA OppositeTwice == \A e \in Edge : Opposite(Opposite(e)) = e
  BY Zenon DEF Edge, Opposite

LEMMA InitPaired == Init => PairedInv
<1> SUFFICES ASSUME Init PROVE Paired(layout)
  BY InitInv DEF PairedInv
<1>1. DOMAIN layout.links = {}
  BY DEF Init, EmptyMap
<1> QED
  BY <1>1 DEF Paired

LEMMA LinkPaired ==
  ASSUME PairedInv, NEW a \in Machine, NEW b \in Machine, a # b, NEW e \in Edge, Link(a, e, b)
  PROVE  Paired(layout')
<1> DEFINE old == layout.links
           new == layout'.links
<1>1. new = Insert(Insert(old, <<a, e>>, b), <<b, Opposite(e)>>, a)
  BY DEF PairedInv, Inv, Desktop, Link, LinkEdge
<1>2. /\ DOMAIN new = DOMAIN old \cup {<<a, e>>, <<b, Opposite(e)>>}
      /\ \A k \in DOMAIN new :
           new[k] = IF k = <<b, Opposite(e)>> THEN a ELSE IF k = <<a, e>> THEN b ELSE old[k]
  BY <1>1 DEF Insert
<1>3. Opposite(e) \in Edge /\ Opposite(Opposite(e)) = e
  BY OppositeIsEdge, OppositeTwice
<1>4. \A k \in DOMAIN old : old[k] # k[1] /\ <<old[k], Opposite(k[2])>> \in DOMAIN old
  BY DEF PairedInv, Paired
<1> HIDE DEF old, new
<1>5. \A k \in DOMAIN new : new[k] # k[1] /\ <<new[k], Opposite(k[2])>> \in DOMAIN new
  <2> SUFFICES ASSUME NEW k \in DOMAIN new
               PROVE  new[k] # k[1] /\ <<new[k], Opposite(k[2])>> \in DOMAIN new
    OBVIOUS
  <2>1. CASE k = <<b, Opposite(e)>>
    BY <1>2, <1>3, <2>1
  <2>2. CASE k = <<a, e>> /\ k # <<b, Opposite(e)>>
    BY <1>2, <2>2
  <2>3. CASE k # <<a, e>> /\ k # <<b, Opposite(e)>>
    BY <1>2, <1>4, <2>3
  <2> QED
    BY <2>1, <2>2, <2>3
<1> QED
  BY <1>5 DEF Paired, new

LEMMA NextPaired == PairedInv /\ [Next]_vars => PairedInv'
<1> SUFFICES ASSUME PairedInv, [Next]_vars PROVE Paired(layout')
  BY NextInv DEF PairedInv
<1>1. CASE UNCHANGED layout
  BY <1>1 DEF PairedInv
<1>2. ASSUME NEW m \in Machine, NEW screen \in Screen, Add(m, screen)
      PROVE  Paired(layout')
  <2>1. layout'.links = layout.links
    BY <1>2 DEF PairedInv, Inv, Desktop, Add, AddMachine
  <2> QED
    BY <2>1 DEF PairedInv, Paired
<1>3. ASSUME NEW a \in Hubs, NEW b \in Machine, NEW e \in Linkable, a # b, Link(a, e, b)
      PROVE  Paired(layout')
  BY <1>3, LinkPaired, HubsAssumption, LinkableAssumption
<1> QED
  BY <1>1, <1>2, <1>3 DEF Next, Move, vars

-----------------------------------------------------------------------------
(* A movement that is not lost                                             *)

\* Rescaled, a movement still goes the same way, as long as it fits an i32.
LEMMA ScaledSameWay ==
  ASSUME NEW d \in Int, d # 0, NEW from \in Nat \ {0}, NEW to \in Nat \ {0},
         NEW most \in Nat, -most <= d, d <= most, most * to < IntHalf
  PROVE  LET r == ScaleAxis(d, from, to) IN r \in Int /\ (d < 0 => r < 0) /\ (d > 0 => r > 0)
<1> DEFINE n      == IF d < 0 THEN -d ELSE d
           scaled == Quotient(d * to, from)
<1>1. n \in Nat /\ n <= most
  OBVIOUS
<1>2. n * to \in Nat /\ n * to <= most * to
  <2> HIDE DEF n
  <2> QED
    BY <1>1, ProductBound
<1>3. n * to <= from * (n * to)
  <2> DEFINE q == n * to
  <2>1. q \in Nat
    BY <1>2
  <2> HIDE DEF q
  <2>2. 1 * q <= from * q
    BY <2>1, ProductBound
  <2> QED
    BY <2>1, <2>2 DEF q
<1>4. (n * to) \div from \in Nat /\ (n * to) \div from <= n * to
  <2> DEFINE q == n * to
  <2>1. q \in Nat /\ q <= from * q
    BY <1>2, <1>3
  <2> HIDE DEF q
  <2>2. q \div from \in Nat /\ q \div from <= q
    BY <2>1, QuotientBound
  <2> QED
    BY <2>2 DEF q
<1>5. most * to \in Nat
  OBVIOUS
<1>6. d < 0 => d * to < 0 /\ -(d * to) = n * to
  BY SMT
<1>7. d > 0 => d * to > 0 /\ d * to = n * to
  BY SMT
<1>8. scaled = IF d < 0 THEN -((n * to) \div from) ELSE (n * to) \div from
  BY <1>6, <1>7 DEF Quotient
<1>9. scaled \in Int /\ -IntHalf < scaled /\ scaled < IntHalf
  <2> DEFINE q == (n * to) \div from
  <2>1. q \in Nat /\ q < IntHalf
    BY <1>2, <1>4, <1>5, IntHalfAssumption
  <2> HIDE DEF q
  <2>2. scaled = IF d < 0 THEN -q ELSE q
    BY <1>8 DEF q
  <2> QED
    BY <2>1, <2>2, IntHalfAssumption
<1>10. (d < 0 => scaled <= 0) /\ (d > 0 => scaled >= 0)
  BY <1>4, <1>8
<1> HIDE DEF scaled
<1>11. Wrap(scaled) = scaled
  BY <1>9, IntHalfAssumption DEF Wrap
<1>12. ScaleAxis(d, from, to) = IF from = to THEN d ELSE IF scaled = 0 THEN Signum(d) ELSE scaled
  BY <1>11 DEF ScaleAxis, scaled
<1> QED
  BY <1>9, <1>10, <1>12 DEF Signum

\* An edge that leads somewhere leads off the machine.
LEMMA CrossingLeaves ==
  ASSUME PairedInv, NEW dx \in Int, NEW dy \in Int,
         Advance(layout, cursor, dx, dy).machine = cursor.machine
  PROVE  Exits(layout, cursor.machine, cursor.x + dx, cursor.y + dy) = {}
<1> DEFINE m == cursor.machine
           x == cursor.x + dx
           y == cursor.y + dy
           E == Exits(layout, m, x, y)
           screen == layout.screens[m]
           H == EdgeOvershoot(x, screen.width, "Left", "Right")
           V == EdgeOvershoot(y, screen.height, "Top", "Bottom")
<1> SUFFICES ASSUME E # {} PROVE FALSE
  OBVIOUS
<1>1. /\ m \in DOMAIN layout.screens /\ x \in Int /\ y \in Int
      /\ screen.width \in Nat /\ screen.height \in Nat
  BY ScreenAssumption DEF PairedInv, Inv, Desktop, OnDesktop, IsMap
<1>2. H \subseteq [edge : {"Left", "Right"}, over : Int] /\ \A o, p \in H : o = p
  BY <1>1, OvershootShape DEF Edge
<1>3. V \subseteq [edge : {"Top", "Bottom"}, over : Int] /\ \A o, p \in V : o = p
  BY <1>1, OvershootShape DEF Edge
<1>4. E \subseteq H \cup V
  BY DEF Exits
<1>5. ChosenExit(E) \in E
  <2> HIDE DEF H, V, E
  <2> QED
    BY <1>2, <1>3, <1>4, ExitIsChosen
<1>6. <<m, ChosenExit(E).edge>> \in DOMAIN layout.links
  BY <1>5 DEF Exits
<1>7. layout.links[<<m, ChosenExit(E).edge>>] # m
  BY <1>6 DEF PairedInv, Paired
<1>8. Advance(layout, cursor, dx, dy).machine = layout.links[<<m, ChosenExit(E).edge>>]
  BY DEF Advance, Land
<1> QED
  BY <1>7, <1>8

\* On every desktop and from every pixel, a movement of the mouse moves the cursor
\* its way unless it is at the border already or leaves the machine: whatever the
\* ratio of the screens, rescaling neither swallows nor turns it (scale_axis).
\* Only a movement that, stretched to the widest screen, no longer fits an i32 is
\* left out: it would be narrowed.
THEOREM MovementsAreNeverLost ==
  ASSUME \A screen \in Screen : MaxDelta * screen.width < IntHalf
  PROVE  Spec => []MovementNeverLost
<1>1. ASSUME PairedInv, NEW dx \in Delta \ {0},
             Moved(dx, 0).machine = cursor.machine
      PROVE  \/ Signum(Moved(dx, 0).x - cursor.x) = Signum(dx)
             \/ cursor.x = IF dx < 0 THEN 0 ELSE layout.screens[cursor.machine].width - 1
  <2> DEFINE home == layout.screens[Home]
             here == layout.screens[cursor.machine]
             sx   == IF cursor.machine = Home THEN dx ELSE ScaleAxis(dx, home.width, here.width)
  <2>1. /\ dx \in Int /\ dx # 0 /\ MaxDelta \in Nat /\ -MaxDelta <= dx /\ dx <= MaxDelta
    BY MaxDeltaAssumption DEF Delta
  <2>2. /\ home \in Screen /\ here \in Screen
        /\ home.width \in Nat \ {0} /\ here.width \in Nat \ {0}
        /\ home.height \in Nat \ {0} /\ here.height \in Nat \ {0}
    BY <1>1, ScreenAssumption DEF PairedInv, Inv, Desktop, OnDesktop, IsMap
  <2>3. MaxDelta * here.width < IntHalf
    BY <2>2
  <2>4. sx \in Int /\ (dx < 0 => sx < 0) /\ (dx > 0 => sx > 0)
    BY <2>1, <2>2, <2>3, ScaledSameWay
  <2>5. ScaleAxis(0, home.height, here.height) = 0
    BY DEF ScaleAxis
  <2>6. Moved(dx, 0) = Advance(layout, cursor, sx, 0)
    BY <2>5 DEF Moved
  <2> HIDE DEF sx
  <2>7. Exits(layout, cursor.machine, cursor.x + sx, cursor.y + 0) = {}
    BY <1>1, <2>4, <2>6, CrossingLeaves
  <2>8. Moved(dx, 0).x = Clamp(cursor.x + sx, 0, here.width - 1)
    BY <2>6, <2>7 DEF Advance, Land
  <2>9. cursor.x \in Nat /\ cursor.x < here.width
    BY <1>1 DEF PairedInv, Inv, OnDesktop
  <2> HIDE DEF here
  <2>10. CASE dx < 0 /\ cursor.x # 0
    BY <2>1, <2>2, <2>4, <2>8, <2>9, <2>10 DEF Clamp, Signum
  <2>11. CASE dx > 0 /\ cursor.x # here.width - 1
    BY <2>1, <2>2, <2>4, <2>8, <2>9, <2>11 DEF Clamp, Signum
  <2> QED
    BY <2>1, <2>10, <2>11 DEF here
<1>2. PairedInv => MovementNeverLost
  BY <1>1 DEF MovementNeverLost
<1> QED
  BY <1>2, InitPaired, NextPaired, PTL DEF Spec

-----------------------------------------------------------------------------
(* There and back                                                          *)

\* A quotient is the largest number that fits.
LEMMA QuotientFits ==
  ASSUME NEW a \in Nat, NEW b \in Nat \ {0}
  PROVE  a \div b \in Nat /\ b * (a \div b) <= a /\ a < b * (a \div b) + b
<1>1. /\ a \div b \in Int /\ a % b \in 0..(b - 1)
      /\ a = b * (a \div b) + (a % b)
  BY SMT
<1>2. a \div b >= 0
  BY SMT
<1> QED
  BY <1>1, <1>2

\* project() there and project() back.
LEMMA ProjectedBack ==
  ASSUME NEW src \in Nat \ {0}, NEW dst \in Nat \ {0}, NEW a \in Nat, a < src,
         NEW back, back = Project(Project(a, src, dst), dst, src)
  PROVE  /\ back \in Nat /\ back <= a
         /\ dst - 1 > 0 => (a - back) * (dst - 1) < (src - 1) + (dst - 1)
         /\ dst - 1 > 0 /\ a = src - 1 => back = a
<1> DEFINE there == Project(a, src, dst)
<1>1. there \in Nat /\ there < dst
  BY ProjectInSpan
<1>2. back \in Nat /\ back < src
  BY <1>1, ProjectInSpan
<1>3. CASE src <= 1
  <2>1. a = 0 /\ back = 0 /\ src = 1
    BY <1>2, <1>3
  <2>2. (0 - 0) * (dst - 1) = 0
    OBVIOUS
  <2> QED
    BY <2>1, <2>2
<1>4. CASE dst <= 1
  BY <1>4 DEF Project
<1>5. CASE src > 1 /\ dst > 1
  <2>1. Clamp(a, 0, src - 1) = a
    BY DEF Clamp
  <2>2. there = (a * (dst - 1)) \div (src - 1)
    BY <1>5, <2>1 DEF Project
  <2> HIDE DEF there
  <2>3. Clamp(there, 0, dst - 1) = there
    BY <1>1 DEF Clamp
  <2>4. back = Project(there, dst, src)
    BY DEF there
  <2>5. back = (there * (src - 1)) \div (dst - 1)
    BY <1>5, <2>3, <2>4 DEF Project
  <2> DEFINE s == src - 1
             d == dst - 1
  <2>6. /\ s \in Nat \ {0} /\ d \in Nat \ {0} /\ a <= s
        /\ there = (a * d) \div s /\ back = (there * s) \div d
    BY <1>5, <2>2, <2>5
  <2> HIDE DEF s, d
  <2>7. there \in Nat /\ back \in Nat
    BY <1>1, <1>2
  <2>8. s * there <= a * d /\ a * d < s * there + s
    <3> DEFINE n == a * d
    <3>1. n \in Nat
      BY <2>6, ProductBound
    <3> HIDE DEF n
    <3>2. there = n \div s
      BY <2>6 DEF n
    <3>3. s * there <= n /\ n < s * there + s
      BY <2>6, <3>1, <3>2, QuotientFits
    <3> QED
      BY <3>3 DEF n
  <2>9. d * back <= there * s /\ there * s < d * back + d
    <3> DEFINE n == there * s
    <3>1. n \in Nat
      BY <2>6, <2>7, ProductBound
    <3> HIDE DEF n
    <3>2. back = n \div d
      BY <2>6 DEF n
    <3>3. d * back <= n /\ n < d * back + d
      BY <2>6, <3>1, <3>2, QuotientFits
    <3> QED
      BY <3>3 DEF n
  <2>10. s \in Nat /\ s > 0 /\ d \in Nat /\ d > 0 /\ a \in Nat /\ a <= s
    BY <2>6
  <2> USE <2>7, <2>10
  <2>11. a * d \in Nat /\ there * s \in Nat
    BY ProductBound
  <2>12. /\ s * there = there * s /\ d * back = back * d
        /\ back * d \in Nat
    OBVIOUS
  <2>13. back * d <= a * d
    BY <2>11, <2>8, <2>9, <2>12
  <2>14. back <= a
    <3> SUFFICES ASSUME a + 1 <= back PROVE FALSE
      OBVIOUS
    <3>1. (a + 1) * d <= back * d
      BY ProductBound
    <3>2. (a + 1) * d = a * d + d
      OBVIOUS
    <3> QED
      BY <2>11, <2>12, <2>13, <3>1, <3>2
  <2>15. (a - back) * d = a * d - back * d
    <3> DEFINE k == a - back
    <3>1. k \in Nat /\ a = back + k
      BY <2>14
    <3> HIDE DEF k
    <3>2. (back + k) * d = back * d + k * d
      BY <3>1
    <3>3. k * d \in Nat
      BY <3>1, ProductBound
    <3>4. a * d - back * d = k * d
      BY <2>12, <3>1, <3>2, <3>3
    <3> QED
      BY <3>4 DEF k
  <2>16. a * d - back * d < s + d
    BY <2>11, <2>8, <2>9, <2>12
  <2>17. a = s => back = a
    <3> SUFFICES ASSUME a = s, back + 1 <= a PROVE FALSE
      BY <2>14
    <3>1. there = d
      <4>1. s * d < s * there + s /\ s * there <= s * d
        BY <2>8
      <4>2. CASE there + 1 <= d
        <5>1. (there + 1) * s <= d * s
          BY <4>2, ProductBound
        <5>2. (there + 1) * s = there * s + s /\ d * s = s * d
          OBVIOUS
        <5> QED
          BY <2>11, <2>12, <4>1, <5>1, <5>2
      <4>3. CASE d + 1 <= there
        <5>1. (d + 1) * s <= there * s
          BY <4>3, ProductBound
        <5>2. (d + 1) * s = d * s + s /\ d * s = s * d
          OBVIOUS
        <5> QED
          BY <2>11, <2>12, <4>1, <5>1, <5>2
      <4> QED
        BY <4>2, <4>3
    <3>2. (back + 1) * d <= s * d
      BY ProductBound
    <3>3. (back + 1) * d = back * d + d /\ there * s = s * d
      BY <3>1
    <3> QED
      BY <2>11, <2>9, <2>12, <3>2, <3>3
  <2> QED
    BY <1>2, <2>14, <2>15, <2>16, <2>17 DEF s, d
<1> QED
  BY <1>3, <1>4, <1>5

\* Pushing over a linked edge lands on the machine behind it, at the coordinate
\* scaled to its side.
LEMMA PushCrosses ==
  ASSUME Desktop(layout), NEW cur, OnDesktop(layout, cur), NEW e \in Edge,
         <<cur.machine, e>> \in DOMAIN layout.links
  PROVE  LET p == layout.links[<<cur.machine, e>>]
             r == Push(cur, e, Breadth(cur.machine, e))
         IN  /\ r.machine = p /\ OnDesktop(layout, r)
             /\ Along(r, e) = Project(Along(cur, e), Extent(cur.machine, e), Extent(p, e))
<1> DEFINE m == cur.machine
           p == layout.links[<<m, e>>]
           n == Breadth(m, e)
           here == layout.screens[m]
           there == layout.screens[p]
           dx == CASE e = "Left" -> -n [] e = "Right" -> n [] OTHER -> 0
           dy == CASE e = "Top" -> -n [] e = "Bottom" -> n [] OTHER -> 0
<1>1. /\ here.width \in Nat \ {0} /\ here.height \in Nat \ {0}
      /\ cur.x \in Nat /\ cur.x < here.width /\ cur.y \in Nat /\ cur.y < here.height
  BY ScreenAssumption DEF Desktop, OnDesktop, IsMap
<1>2. n \in Nat \ {0} /\ n = IF e \in Horizontal THEN here.width ELSE here.height
  BY <1>1 DEF Breadth
<1>3. dx \in Int /\ dy \in Int
  BY <1>2 DEF Edge
<1>4. Push(cur, e, n) = Advance(layout, cur, dx, dy)
  BY DEF Push, Edge
<1>5. OnDesktop(layout, Push(cur, e, n))
  BY <1>3, <1>4, AdvanceOnDesktop
<1> DEFINE x == cur.x + dx
           y == cur.y + dy
<1>6. \E over : EdgeOvershoot(x, here.width, "Left", "Right")
                  \cup EdgeOvershoot(y, here.height, "Top", "Bottom") = {[edge |-> e, over |-> over]}
  <2> HIDE DEF here
  <2>1. CASE e = "Left"
    <3>1. x < 0 /\ ~ (y < 0) /\ ~ (y >= here.height)
      BY <1>1, <1>2, <2>1 DEF Horizontal
    <3> QED
      BY <2>1, <3>1 DEF EdgeOvershoot
  <2>2. CASE e = "Right"
    <3>1. ~ (x < 0) /\ x >= here.width /\ ~ (y < 0) /\ ~ (y >= here.height)
      BY <1>1, <1>2, <2>2 DEF Horizontal
    <3> QED
      BY <2>2, <3>1 DEF EdgeOvershoot
  <2>3. CASE e = "Top"
    <3>1. ~ (x < 0) /\ ~ (x >= here.width) /\ y < 0
      BY <1>1, <1>2, <2>3 DEF Horizontal
    <3> QED
      BY <2>3, <3>1 DEF EdgeOvershoot
  <2>4. CASE e = "Bottom"
    <3>1. ~ (x < 0) /\ ~ (x >= here.width) /\ ~ (y < 0) /\ y >= here.height
      BY <1>1, <1>2, <2>4 DEF Horizontal
    <3> QED
      BY <2>4, <3>1 DEF EdgeOvershoot
  <2> QED
    BY <2>1, <2>2, <2>3, <2>4 DEF Edge
<1>7. PICK over : Exits(layout, m, x, y) = {[edge |-> e, over |-> over]}
  <2>1. PICK over : EdgeOvershoot(x, here.width, "Left", "Right")
                  \cup EdgeOvershoot(y, here.height, "Top", "Bottom") = {[edge |-> e, over |-> over]}
    BY <1>6
  <2> DEFINE all == EdgeOvershoot(x, here.width, "Left", "Right")
                      \cup EdgeOvershoot(y, here.height, "Top", "Bottom")
  <2>2. Exits(layout, m, x, y) = {o \in all : <<m, o.edge>> \in DOMAIN layout.links}
    BY Zenon DEF Exits
  <2>3. all = {[edge |-> e, over |-> over]}
    BY <2>1
  <2> HIDE DEF all, x, y, m
  <2>4. <<m, e>> \in DOMAIN layout.links
    BY DEF m
  <2> QED
    BY <2>2, <2>3, <2>4
<1>8. Exits(layout, m, x, y) # {} /\ ChosenExit(Exits(layout, m, x, y)).edge = e
  <2> DEFINE E == Exits(layout, m, x, y)
  <2>1. E = {[edge |-> e, over |-> over]}
    BY <1>7
  <2> HIDE DEF E
  <2>2. \E o \in E : \A q \in E \ {o} :
          o.over > q.over \/ (o.over = q.over /\ o.edge \in {"Top", "Bottom"})
    BY <2>1
  <2>3. ChosenExit(E) \in E
    BY <2>2 DEF ChosenExit
  <2> QED
    BY <2>1, <2>3 DEF E
<1>9. Push(cur, e, n) = Land(p, EntryPoint(e, there, here, x, y))
  BY <1>4, <1>8 DEF Advance
<1>10. Along(Push(cur, e, n), e) = Project(Along(cur, e), Extent(m, e), Extent(p, e))
  <2>1. (e \in Horizontal => y = cur.y) /\ (e \notin Horizontal => x = cur.x)
    BY <1>1 DEF Horizontal, Edge
  <2> HIDE DEF x, y
  <2> QED
    BY <1>9, <2>1 DEF Along, Extent, Land, EntryPoint
<1>11. Push(cur, e, n).machine = p
  BY <1>9 DEF Land
<1> QED
  BY <1>5, <1>10, <1>11

\* From every pixel of every desktop, over any edge and straight back: on the same
\* machine, less than a pixel of the coarser screen before, never beyond, and from
\* a corner at the same pixel (edge_overshoot, entry_point, project).
THEOREM ThereAndBackAlways == Spec => []ThereAndBack
<1>1. ASSUME PairedInv, NEW e \in Edge, <<cursor.machine, e>> \in DOMAIN layout.links,
             layout.links[<<layout.links[<<cursor.machine, e>>], Opposite(e)>>] = cursor.machine
      PROVE  LET m    == cursor.machine
                 p    == layout.links[<<m, e>>]
                 back == Push(Push(cursor, e, Breadth(m, e)), Opposite(e), Breadth(p, e))
                 lost == Along(cursor, e) - Along(back, e)
                 src  == Extent(m, e) - 1
                 dst  == Extent(p, e) - 1
             IN  /\ back.machine = m
                 /\ lost >= 0
                 /\ dst > 0 => lost * dst < src + dst
                 /\ dst > 0 /\ Along(cursor, e) = src => lost = 0
  <2> DEFINE m    == cursor.machine
             p    == layout.links[<<m, e>>]
             o    == Opposite(e)
             r    == Push(cursor, e, Breadth(m, e))
             back == Push(r, o, Breadth(p, e))
  <2>1. Desktop(layout) /\ OnDesktop(layout, cursor)
    BY <1>1 DEF PairedInv, Inv
  <2>2. o \in Edge /\ <<p, o>> \in DOMAIN layout.links /\ layout.links[<<p, o>>] = m
    BY <1>1, OppositeIsEdge DEF PairedInv, Paired
  <2>3. /\ r.machine = p /\ OnDesktop(layout, r)
        /\ Along(r, e) = Project(Along(cursor, e), Extent(m, e), Extent(p, e))
    BY <1>1, <2>1, PushCrosses
  <2>4. o \in Horizontal <=> e \in Horizontal
    BY DEF Horizontal, Opposite, Edge
  <2>5. /\ Breadth(p, e) = Breadth(p, o)
        /\ \A c : Along(c, e) = Along(c, o)
        /\ \A q : Extent(q, e) = Extent(q, o)
    BY <2>4 DEF Breadth, Along, Extent
  <2> HIDE DEF r, o, p, m
  <2>6. LET q == layout.links[<<r.machine, o>>]
            b == Push(r, o, Breadth(r.machine, o))
        IN  /\ b.machine = q /\ OnDesktop(layout, b)
            /\ Along(b, o) = Project(Along(r, o), Extent(r.machine, o), Extent(q, o))
    BY <2>1, <2>2, <2>3, PushCrosses
  <2>7. /\ back.machine = m
        /\ Along(back, e) = Project(Along(r, e), Extent(p, e), Extent(m, e))
    BY <2>2, <2>3, <2>5, <2>6
  <2>8. /\ Extent(m, e) \in Nat \ {0} /\ Extent(p, e) \in Nat \ {0}
        /\ Along(cursor, e) \in Nat /\ Along(cursor, e) < Extent(m, e)
    <3>1. m \in DOMAIN layout.screens /\ p \in DOMAIN layout.screens
      BY <2>1, <2>3 DEF OnDesktop, m
    <3>2. \A q \in DOMAIN layout.screens :
            layout.screens[q].width \in Nat \ {0} /\ layout.screens[q].height \in Nat \ {0}
      BY <2>1, ScreenAssumption DEF Desktop, IsMap
    <3> QED
      BY <2>1, <3>1, <3>2 DEF OnDesktop, Extent, Along, m
  <2> DEFINE a   == Along(cursor, e)
             b   == Along(back, e)
             src == Extent(m, e)
             dst == Extent(p, e)
  <2>9. b = Project(Project(a, src, dst), dst, src)
    BY <2>3, <2>7
  <2>10. back.machine = m
    BY <2>7
  <2> HIDE DEF a, b, src, dst, back
  <2>11. src \in Nat \ {0} /\ dst \in Nat \ {0} /\ a \in Nat /\ a < src
    BY <2>8 DEF src, dst, a
  <2>12. /\ b \in Nat /\ b <= a
         /\ dst - 1 > 0 => (a - b) * (dst - 1) < (src - 1) + (dst - 1)
         /\ dst - 1 > 0 /\ a = src - 1 => b = a
    BY <2>9, <2>11, ProjectedBack
  <2>13. /\ a - b >= 0
         /\ dst - 1 > 0 => (a - b) * (dst - 1) < (src - 1) + (dst - 1)
         /\ dst - 1 > 0 /\ a = src - 1 => a - b = 0
    BY <2>11, <2>12
  <2> QED
    BY <2>10, <2>13 DEF a, b, src, dst, back, r, o, p, m
<1>2. PairedInv => ThereAndBack
  BY <1>1 DEF ThereAndBack
<1> QED
  BY <1>2, InitPaired, NextPaired, PTL DEF Spec
=============================================================================
