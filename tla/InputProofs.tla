----------------------------- MODULE InputProofs ------------------------------
(***************************************************************************)
(* What is proved about the way of the input: scrolling is neither made up *)
(* nor lost by the conversion between units (scroll.rs); the rate limiter  *)
(* keeps what is injected within its rate (ratelimit.rs); what is on the   *)
(* way has its type; an event acts on one desktop; a button comes up with  *)
(* the count it went down with; what a desktop is scrolled and what is     *)
(* pending are what was asked for; a chord is taken as it was typed; a     *)
(* click lands where the cursor was; and no key is stuck or missing.       *)
(***************************************************************************)
EXTENDS InputPath, ListProofs

\* Truncating division leaves less than the divisor, on the dividend's side of
\* zero.
LEMMA QuotientTruncates ==
  ASSUME NEW n \in Int, NEW d \in Nat \ {0}
  PROVE  /\ Quotient(n, d) \in Int
         /\ n >= 0 => n - Quotient(n, d) * d \in 0..(d - 1)
         /\ n <= 0 => Quotient(n, d) * d - n \in 0..(d - 1)
<1>1. \A k \in Nat : /\ k \div d \in Int
                     /\ k - (k \div d) * d \in 0..(d - 1)
  <2> TAKE k \in Nat
  <2>1. k \div d \in Int /\ k % d \in 0..(d - 1)
    OBVIOUS
  <2>2. k = d * (k \div d) + (k % d)
    OBVIOUS
  <2> QED
    BY <2>1, <2>2
<1>2. CASE n >= 0
  <2>1. Quotient(n, d) = n \div d
    BY <1>2 DEF Quotient
  <2>2. n <= 0 => n = 0
    BY <1>2
  <2> QED
    BY <1>1, <1>2, <2>1, <2>2
<1>3. CASE n < 0
  <2> DEFINE q == (-n) \div d
  <2>1. Quotient(n, d) = -q
    BY <1>3 DEF Quotient
  <2>2. q \in Int /\ (-n) - q * d \in 0..(d - 1)
    BY <1>1, <1>3
  <2>3. (-q) * d = -(q * d)
    BY <2>2
  <2> HIDE DEF q
  <2> QED
    BY <1>3, <2>1, <2>2, <2>3
<1> QED
  BY <1>2, <1>3

\* Scaled::take: as long as the sum fits an i32, what comes out and what stays
\* pending together are what was pending and what came in; less than one unit
\* stays, in the direction of the sum, so that no scrolling runs backwards.
THEOREM TakeConserves ==
  ASSUME NEW pending \in Int, NEW value \in Int, NEW numerator \in Int,
         NEW denominator \in Nat \ {0},
         pending + value * numerator \in (-Limit - 1)..Limit
  PROVE  LET sum   == pending + value * numerator
             taken == Take(pending, value, numerator, denominator)
         IN  /\ taken.whole * denominator + taken.pending = sum
             /\ sum >= 0 => taken.pending \in 0..(denominator - 1)
             /\ sum <= 0 => -taken.pending \in 0..(denominator - 1)
<1> DEFINE sum   == pending + value * numerator
           taken == Take(pending, value, numerator, denominator)
           whole == Quotient(sum, denominator)
<1>1. sum \in Int
  OBVIOUS
<1>2. ToI32(sum) = sum
  BY LimitAssumption DEF ToI32
<1>3. ~ (denominator <= 0)
  OBVIOUS
<1>4. taken = [whole |-> whole, pending |-> sum - whole * denominator]
  BY <1>2, <1>3 DEF Take
<1>5. taken.whole = whole /\ taken.pending = sum - whole * denominator
  BY <1>4
<1>6. /\ whole \in Int
      /\ sum >= 0 => sum - whole * denominator \in 0..(denominator - 1)
      /\ sum <= 0 => whole * denominator - sum \in 0..(denominator - 1)
  BY <1>1, QuotientTruncates
<1> HIDE DEF sum, taken, whole
<1>7. whole * denominator \in Int
  BY <1>6
<1>8. /\ taken.whole * denominator + taken.pending = sum
      /\ sum >= 0 => taken.pending \in 0..(denominator - 1)
      /\ sum <= 0 => -taken.pending \in 0..(denominator - 1)
  BY <1>1, <1>5, <1>6, <1>7
<1> QED
  BY <1>8 DEF sum, taken

-----------------------------------------------------------------------------
(* The rate limiter.  Of the seconds that began after the last event nothing *)
(* has been used; of the others, what has been used and what is left in the  *)
(* bucket come from a full bucket and its refills.                           *)

\* What is refilled from one moment to another.
Gained(from, to) == Rate * (to - from)

LEMMA GainedNat ==
  ASSUME NEW a \in Int, NEW c \in Int, a <= c
  PROVE  Gained(a, c) \in Nat
<1>1. c - a \in Nat
  OBVIOUS
<1> QED
  BY <1>1, RateAssumption DEF Gained

LEMMA GainedAdds ==
  ASSUME NEW a \in Int, NEW b \in Int, NEW c \in Int
  PROVE  Gained(a, c) = Gained(a, b) + Gained(b, c)
<1>1. \A x, y \in Int : Rate * (x + y) = Rate * x + Rate * y
  BY RateAssumption
<1>2. c - a = (b - a) + (c - b) /\ c - b \in Int /\ b - a \in Int
  OBVIOUS
<1> QED
  BY <1>1, <1>2 DEF Gained

RateShape ==
  /\ clock \in Nat
  /\ limiter.tokens \in 0..Burst /\ limiter.last \in 0..clock
  /\ DOMAIN injected = {"count", "meant", "click", "asked"}
  /\ injected.count \in Nat
  /\ DOMAIN begun \subseteq 0..clock /\ \A n \in DOMAIN begun : begun[n] \in Nat

Unused(n) == limiter.last < n => injected.count = begun[n]
Used(n) ==
  limiter.last >= n
    => injected.count - begun[n] + limiter.tokens <= Burst + Gained(n, limiter.last)

RateInv ==
  RateShape /\ \A n \in DOMAIN begun : Unused(n) /\ Used(n)

LEMMA RateNumbers ==
  ASSUME RateShape
  PROVE  /\ Burst \in Nat /\ clock \in Nat
         /\ limiter.tokens \in Nat /\ limiter.tokens <= Burst
         /\ limiter.last \in Nat /\ limiter.last <= clock
         /\ injected.count \in Nat
BY BurstAssumption DEF RateShape

\* A session begins: one moment, at which the bucket is full.
LEMMA RateNew ==
  ASSUME NEW now \in Nat, NEW count \in Nat,
         NEW l, l = NewLimiter(now), NEW b, b = [second \in {now} |-> count]
  PROVE  /\ l.tokens \in 0..Burst /\ l.last = now
         /\ DOMAIN b = {now} /\ b[now] = count
         /\ count - b[now] + l.tokens <= Burst + Gained(now, l.last)
<1>1. l.tokens = Burst /\ l.last = now /\ b[now] = count /\ DOMAIN b = {now}
  BY DEF NewLimiter
<1>2. Gained(now, now) \in Nat
  BY GainedNat
<1> QED
  BY <1>1, <1>2, BurstAssumption

LEMMA RateInit == Init => RateInv
<1> SUFFICES ASSUME Init PROVE RateInv
  OBVIOUS
<1>1. /\ clock = 0 /\ limiter = NewLimiter(0) /\ begun = [second \in {0} |-> 0]
      /\ injected = [count |-> 0, meant |-> {}, click |-> <<0, 0>>, asked |-> 0]
  BY DEF Init
<1>2. /\ limiter.tokens \in 0..Burst /\ limiter.last = 0
      /\ DOMAIN begun = {0} /\ begun[0] = 0
      /\ 0 - begun[0] + limiter.tokens <= Burst + Gained(0, limiter.last)
  BY <1>1, RateNew
<1>3. RateShape
  BY <1>1, <1>2 DEF RateShape
<1>4. \A n \in DOMAIN begun : Unused(n) /\ Used(n)
  BY <1>1, <1>2 DEF Unused, Used
<1> QED
  BY <1>3, <1>4 DEF RateInv

\* Time passes: a new second begins, of which nothing has been used.
LEMMA RateTick == RateInv /\ Tick => RateInv'
<1> SUFFICES ASSUME RateInv, Tick PROVE RateInv'
  OBVIOUS
<1>1. /\ clock' = clock + 1 /\ limiter' = limiter /\ injected' = injected
      /\ begun' = [second \in DOMAIN begun \cup {clock + 1} |->
                     IF second = clock + 1 THEN injected.count ELSE begun[second]]
  BY DEF Tick, peer
<1>2. RateShape
  BY DEF RateInv
<1>3. /\ DOMAIN begun' = DOMAIN begun \cup {clock + 1}
      /\ clock + 1 \notin DOMAIN begun
      /\ begun'[clock + 1] = injected.count
      /\ \A n \in DOMAIN begun : begun'[n] = begun[n]
  BY <1>1, <1>2 DEF RateShape
<1>4. RateShape'
  BY <1>1, <1>2, <1>3 DEF RateShape
<1>5. ASSUME NEW n \in DOMAIN begun' PROVE Unused(n)' /\ Used(n)'
  <2>1. CASE n \in DOMAIN begun
    <3>1. Unused(n) /\ Used(n)
      BY <2>1 DEF RateInv
    <3> QED
      BY <1>1, <1>3, <2>1, <3>1 DEF Unused, Used
  <2>2. CASE n = clock + 1
    <3>1. limiter.last < n
      BY <1>2, <2>2 DEF RateShape
    <3> QED
      BY <1>1, <1>2, <1>3, <2>2, <3>1 DEF Unused, Used, RateShape
  <2> QED
    BY <1>3, <2>1, <2>2
<1> QED
  BY <1>4, <1>5 DEF RateInv

\* The session ends, and the next one begins with a bucket of its own.
LEMMA RateEnds == RateInv /\ SessionEnds => RateInv'
<1> SUFFICES ASSUME RateInv, SessionEnds PROVE RateInv'
  OBVIOUS
<1>1. /\ clock' = clock /\ injected' = injected /\ limiter' = NewLimiter(clock)
      /\ begun' = [second \in {clock} |-> injected.count]
  BY DEF SessionEnds
<1>2. RateShape /\ clock \in Nat /\ injected.count \in Nat
  BY DEF RateInv, RateShape
<1>3. /\ limiter'.tokens \in 0..Burst /\ limiter'.last = clock
      /\ DOMAIN begun' = {clock} /\ begun'[clock] = injected.count
      /\ injected.count - begun'[clock] + limiter'.tokens <= Burst + Gained(clock, limiter'.last)
  BY <1>1, <1>2, RateNew
<1>4. RateShape'
  BY <1>1, <1>2, <1>3 DEF RateShape
<1>5. \A n \in DOMAIN begun' : Unused(n)' /\ Used(n)'
  BY <1>1, <1>2, <1>3 DEF Unused, Used
<1> QED
  BY <1>4, <1>5 DEF RateInv

\* What the bucket holds when an event comes.
LEMMA RefilledBounds ==
  ASSUME RateShape
  PROVE  /\ Refilled \in 0..Burst
         /\ Refilled <= limiter.tokens + Gained(limiter.last, clock)
<1>1. Gained(limiter.last, clock) \in Nat
  <2>1. limiter.last \in Int /\ clock \in Int /\ limiter.last <= clock
    BY RateNumbers
  <2> QED
    BY <2>1, GainedNat, Zenon
<1>2. Refilled = Least(limiter.tokens + Gained(limiter.last, clock), Burst)
  BY DEF Refilled, Gained
<1> QED
  BY <1>1, <1>2, BurstAssumption, SMTT(30) DEF RateShape, Least

\* An event is let through or not.
LEMMA RateRecv ==
  ASSUME RateInv, NEW i \in DOMAIN wire, NEW soon \in BOOLEAN, RecvDatagram(i, soon)
  PROVE  RateInv'
<1>1. /\ clock' = clock /\ begun' = begun
      /\ limiter' = [tokens |-> IF Refilled >= 1 THEN Refilled - 1 ELSE Refilled, last |-> clock]
      /\ ~ (Refilled >= 1) => injected' = injected
  BY DEF RecvDatagram, timing
<1>2. RateShape
  BY DEF RateInv
<1>3. Refilled >= 1 => /\ injected'.count = injected.count + 1
                       /\ DOMAIN injected' = DOMAIN injected
  BY <1>2 DEF RecvDatagram, InjectedAfter, RateShape
<1>4. /\ Refilled \in 0..Burst
      /\ Refilled <= limiter.tokens + Gained(limiter.last, clock)
  BY <1>2, RefilledBounds
<1>5. injected'.count + limiter'.tokens = injected.count + Refilled
  BY <1>1, <1>2, <1>3, <1>4 DEF RateShape
<1>6. RateShape'
  BY <1>1, <1>2, <1>3, <1>4, BurstAssumption DEF RateShape
<1>7. ASSUME NEW n \in DOMAIN begun' PROVE Unused(n)' /\ Used(n)'
  <2>1. Unused(n) /\ Used(n)
    BY <1>1 DEF RateInv
  <2>2. begun'[n] = begun[n] /\ begun[n] \in Nat
    BY <1>1, <1>2 DEF RateShape
  <2>3. limiter'.last = clock /\ n <= clock /\ n \in Nat
    BY <1>1, <1>2 DEF RateShape
  <2> /\ n \in Int /\ clock \in Int /\ limiter.last \in Int
      /\ n <= clock /\ limiter.last <= clock
    BY <1>2, <2>3, RateNumbers
  <2>4. injected.count - begun[n] + Refilled <= Burst + Gained(n, clock)
    <3>1. CASE limiter.last < n
      <4>1. injected.count = begun[n]
        BY <2>1, <3>1 DEF Unused
      <4>2. Gained(n, clock) \in Nat
        BY GainedNat, Zenon
      <4> QED
        BY <1>2, <1>4, <2>2, <4>1, <4>2, RateNumbers
    <3>2. CASE limiter.last >= n
      <4>1. injected.count - begun[n] + limiter.tokens <= Burst + Gained(n, limiter.last)
        BY <2>1, <3>2 DEF Used
      <4>2. Gained(n, clock) = Gained(n, limiter.last) + Gained(limiter.last, clock)
        BY GainedAdds, Zenon
      <4>3. Gained(n, limiter.last) \in Nat /\ Gained(limiter.last, clock) \in Nat
        <5>1. n <= limiter.last
          BY <2>3, <3>2, RateNumbers, <1>2
        <5> QED
          BY <5>1, GainedNat, Zenon
      <4> QED
        BY <1>2, <1>4, <2>2, <4>1, <4>2, <4>3, RateNumbers
    <3> QED
      BY <1>2, <2>3, <3>1, <3>2 DEF RateShape
  <2>5. injected'.count \in Nat /\ limiter'.tokens \in Nat
    BY <1>6, BurstAssumption DEF RateShape
  <2>6. injected'.count - begun[n] + limiter'.tokens = injected.count - begun[n] + Refilled
    BY <1>2, <1>4, <1>5, <2>2, <2>5, RateNumbers
  <2> QED
    BY <2>2, <2>3, <2>4, <2>6, <1>1, <1>2 DEF Unused, Used, RateShape
<1> QED
  BY <1>6, <1>7 DEF RateInv

\* Nothing else touches the limiter, the clock or what has been injected.
LEMMA RateElsewhere ==
  ASSUME [Next]_vars, ~ Tick, ~ SessionEnds,
         ~ \E i \in DOMAIN wire : \E soon \in BOOLEAN : RecvDatagram(i, soon)
  PROVE  UNCHANGED <<limiter, clock, begun, injected>>
<1>1. ASSUME NEW raw \in Strokes, Touch(raw) PROVE UNCHANGED <<limiter, clock, begun, injected>>
  BY <1>1 DEF Touch, peer, timing
<1>2. CASE ReaderTurns
  BY <1>2 DEF ReaderTurns, peer, timing
<1>3. CASE SourceMishap
  BY <1>3 DEF SourceMishap, peer, timing
<1>4. CASE SourceRecovers
  BY <1>4 DEF SourceRecovers, peer, timing
<1>5. CASE ApplySuppression
  BY <1>5 DEF ApplySuppression, peer, timing
<1>6. CASE PollAndRoute
  BY <1>6 DEF PollAndRoute, peer, timing
<1>7. CASE PollIdle
  BY <1>7 DEF PollIdle, peer, timing
<1>8. CASE SendBatch
  BY <1>8 DEF SendBatch, peer, timing
<1>9. CASE RecvControl
  BY <1>9 DEF RecvControl, timing
<1>10. CASE SetModifierSwap
  BY <1>10 DEF SetModifierSwap, peer, timing
<1>11. ASSUME NEW i \in DOMAIN wire, LoseDatagram(i)
       PROVE  UNCHANGED <<limiter, clock, begun, injected>>
  BY <1>11 DEF LoseDatagram, peer, timing
<1>12. CASE UNCHANGED vars
  BY <1>12 DEF vars, peer, timing
<1> QED
  BY <1>1, <1>2, <1>3, <1>4, <1>5, <1>6, <1>7, <1>8, <1>9, <1>10, <1>11, <1>12 DEF Next

LEMMA RateStep == RateInv /\ [Next]_vars => RateInv'
<1> SUFFICES ASSUME RateInv, [Next]_vars PROVE RateInv'
  OBVIOUS
<1>1. CASE Tick
  BY <1>1, RateTick
<1>2. CASE \E i \in DOMAIN wire : \E soon \in BOOLEAN : RecvDatagram(i, soon)
  BY <1>2, RateRecv
<1>3. CASE SessionEnds
  BY <1>3, RateEnds
<1>4. CASE UNCHANGED <<limiter, clock, begun, injected>>
  BY <1>4 DEF RateInv, RateShape, Unused, Used
<1> QED
  BY <1>1, <1>2, <1>3, <1>4, RateElsewhere

\* However the events come in, in no number of whole seconds of a session does the
\* peer inject more than a full bucket and its refills (RateLimiter::allow_at).
THEOREM RateHolds == Spec => []WithinRate
<1>1. RateInv => WithinRate
  <2> SUFFICES ASSUME RateInv, NEW n \in DOMAIN begun
               PROVE  injected.count - begun[n] <= Burst + Gained(n, clock)
    BY DEF WithinRate, Gained
  <2>1. RateShape
    BY DEF RateInv
  <2>2. n \in 0..clock /\ begun[n] \in Nat
    BY <2>1 DEF RateShape
  <2>3. Unused(n) /\ Used(n)
    BY DEF RateInv
  <2>4. Gained(n, clock) \in Nat /\ Gained(limiter.last, clock) \in Nat
    <3>1. /\ n \in Int /\ n <= clock
          /\ limiter.last \in Int /\ clock \in Int /\ limiter.last <= clock
      BY <2>1, <2>2, RateNumbers
    <3> QED
      BY <3>1, GainedNat, Zenon
  <2>5. CASE limiter.last < n
    BY <2>1, <2>2, <2>3, <2>4, <2>5, RateNumbers DEF Unused
  <2>6. CASE limiter.last >= n
    <3>1. Gained(n, clock) = Gained(n, limiter.last) + Gained(limiter.last, clock)
      BY <2>1, <2>2, GainedAdds, RateNumbers
    <3>2. Gained(n, limiter.last) \in Nat
      <4>1. n \in Int /\ limiter.last \in Int /\ n <= limiter.last
        BY <2>1, <2>2, <2>6, RateNumbers
      <4> QED
        BY <4>1, GainedNat, Zenon
    <3>3. injected.count - begun[n] + limiter.tokens <= Burst + Gained(n, limiter.last)
      BY <2>3, <2>6 DEF Used
    <3> QED
      BY <2>1, <2>2, <2>4, <3>1, <3>2, <3>3, RateNumbers
  <2> QED
    BY <2>1, <2>2, <2>5, <2>6, SMTT(30) DEF RateShape
<1>2. RateInv /\ [Next]_vars => RateInv'
  BY RateStep
<1> QED
  BY RateInit, <1>1, <1>2, PTL DEF Spec

-----------------------------------------------------------------------------
(* The adapters' modules extend InputOps, and so each has a copy of its      *)
(* operators.  They are the same.                                           *)

LEMMA LinuxWords ==
  /\ \A a : Linux!MotionEvent(a) = MotionEvent(a)
  /\ \A a : Linux!ScrollEvent(a) = ScrollEvent(a)
  /\ \A a : Linux!IsModifierKey(a) = IsModifierKey(a)
  /\ \A a : Linux!ClampToScreen(a) = ClampToScreen(a)
  /\ \A a, b : Linux!ButtonEvent(a, b) = ButtonEvent(a, b)
  /\ \A a, b : Linux!PlaceCursor(a, b) = PlaceCursor(a, b)
  /\ \A a, b : Linux!ScrollBy(a, b) = ScrollBy(a, b)
  /\ \A a, b : Linux!TakeLines(a, b) = TakeLines(a, b)
  /\ \A a, b, c : Linux!KeyEvent(a, b, c) = KeyEvent(a, b, c)
  /\ \A a, b, c : Linux!CursorAfter(a, b, c) = CursorAfter(a, b, c)
  /\ \A a, b, c : Linux!SendKey(a, b, c) = SendKey(a, b, c)
  /\ \A a, b, c, d : Linux!PostButton(a, b, c, d) = PostButton(a, b, c, d)
BY DEF Linux!KeyEvent, Linux!MotionEvent, Linux!ButtonEvent, Linux!ScrollEvent,
       Linux!CursorAfter, Linux!ClampToScreen, Linux!IsModifierKey, Linux!SendKey,
       Linux!PostKey, Linux!CapsLock, Linux!Plain, Linux!ModifiersOf, Linux!PostButton,
       Linux!Insert, Linux!Remove, Linux!PlaceCursor, Linux!ScrollBy, Linux!TakeLines,
       Linux!Take, Linux!ToI32, Linux!Quotient, KeyEvent, MotionEvent, ButtonEvent,
       ScrollEvent, CursorAfter, ClampToScreen, IsModifierKey, SendKey, PostKey, CapsLock,
       Plain, ModifiersOf, PostButton, Insert, Remove, PlaceCursor, ScrollBy, TakeLines, Take,
       ToI32, Quotient

LEMMA WindowsWords ==
  /\ Windows!KeypadEnter = KeypadEnter
  /\ \A a : Windows!MotionEvent(a) = MotionEvent(a)
  /\ \A a : Windows!ScrollEvent(a) = ScrollEvent(a)
  /\ \A a : Windows!IsModifierKey(a) = IsModifierKey(a)
  /\ \A a : Windows!ClampToScreen(a) = ClampToScreen(a)
  /\ \A a : Windows!ToI32(a) = ToI32(a)
  /\ \A a, b : Windows!ButtonEvent(a, b) = ButtonEvent(a, b)
  /\ \A a, b : Windows!PlaceCursor(a, b) = PlaceCursor(a, b)
  /\ \A a, b : Windows!ScrollBy(a, b) = ScrollBy(a, b)
  /\ \A a, b, c : Windows!KeyEvent(a, b, c) = KeyEvent(a, b, c)
  /\ \A a, b, c : Windows!CursorAfter(a, b, c) = CursorAfter(a, b, c)
  /\ \A a, b, c : Windows!SendKey(a, b, c) = SendKey(a, b, c)
  /\ \A a, b, c, d : Windows!PostButton(a, b, c, d) = PostButton(a, b, c, d)
  /\ \A a, b, c, d : Windows!Take(a, b, c, d) = Take(a, b, c, d)
BY DEF Windows!KeyEvent, Windows!MotionEvent, Windows!ButtonEvent, Windows!ScrollEvent,
       Windows!CursorAfter, Windows!ClampToScreen, Windows!IsModifierKey, Windows!SendKey,
       Windows!PostKey, Windows!CapsLock, Windows!Plain, Windows!ModifiersOf,
       Windows!PostButton, Windows!Insert, Windows!Remove, Windows!PlaceCursor,
       Windows!ScrollBy, Windows!Take, Windows!ToI32, Windows!Quotient, Windows!KeypadEnter,
       KeyEvent, MotionEvent, ButtonEvent, ScrollEvent, CursorAfter, ClampToScreen,
       IsModifierKey, SendKey, PostKey, CapsLock, Plain, ModifiersOf, PostButton, Insert,
       Remove, PlaceCursor, ScrollBy, Take, ToI32, Quotient, KeypadEnter

LEMMA MacWords ==
  /\ Mac!CapsLock = CapsLock
  /\ Mac!Pause = Pause
  /\ \A a : Mac!MotionEvent(a) = MotionEvent(a)
  /\ \A a : Mac!ScrollEvent(a) = ScrollEvent(a)
  /\ \A a : Mac!IsModifierKey(a) = IsModifierKey(a)
  /\ \A a : Mac!ModifiersOf(a) = ModifiersOf(a)
  /\ \A a : Mac!FromHalves(a) = FromHalves(a)
  /\ \A a : Mac!ClampToScreen(a) = ClampToScreen(a)
  /\ \A a, b : Mac!ButtonEvent(a, b) = ButtonEvent(a, b)
  /\ \A a, b : Mac!PlaceCursor(a, b) = PlaceCursor(a, b)
  /\ \A a, b : Mac!ScrollBy(a, b) = ScrollBy(a, b)
  /\ \A a, b : Mac!TakeLines(a, b) = TakeLines(a, b)
  /\ \A a, b, c : Mac!KeyEvent(a, b, c) = KeyEvent(a, b, c)
  /\ \A a, b, c : Mac!CursorAfter(a, b, c) = CursorAfter(a, b, c)
  /\ \A a, b, c, d : Mac!PostKey(a, b, c, d) = PostKey(a, b, c, d)
  /\ \A a, b, c, d : Mac!PostButton(a, b, c, d) = PostButton(a, b, c, d)
BY DEF Mac!KeyEvent, Mac!MotionEvent, Mac!ButtonEvent, Mac!ScrollEvent, Mac!CursorAfter,
       Mac!ClampToScreen, Mac!IsModifierKey, Mac!ModifiersOf, Mac!FromHalves, Mac!PostKey,
       Mac!CapsLock, Mac!Plain, Mac!PostButton, Mac!Insert, Mac!Remove, Mac!PlaceCursor,
       Mac!ScrollBy, Mac!TakeLines, Mac!Take, Mac!ToI32, Mac!Quotient, Mac!Pause, KeyEvent,
       MotionEvent, ButtonEvent, ScrollEvent, CursorAfter, ClampToScreen, IsModifierKey,
       ModifiersOf, FromHalves, PostKey, CapsLock, Plain, PostButton, Insert, Remove,
       PlaceCursor, ScrollBy, TakeLines, Take, ToI32, Quotient, Pause

-----------------------------------------------------------------------------
(* What is on the way, and the two ends of it: the types.                   *)

Names == {key.name : key \in UNION {s.keys : s \in Scenes}}
           \cup {"CapsLock", "KeypadEnter", "Control", "Meta"}
Key == [side : {"left", "right", "none"}, name : Names]
Action == {"Press", "Release"}

\* What an adapter reports, and what is sent.
RawEvents ==
  [type : {"Key"}, key : Key, action : Action, modifiers : SUBSET Names]
    \cup [type : {"Motion"}, dx : Int]
    \cup [type : {"Button"}, button : Button, action : Action]
    \cup [type : {"Scroll"}, dy : Int]
Events == RawEvents \cup [type : {"Pointer"}, x : Int]

CapturedSet ==
  [event : RawEvents, kept : BOOLEAN, calm : BOOLEAN, home : BOOLEAN, holding : BOOLEAN,
   meant : SUBSET Names]
InputSet == [type : {"Input"}, event : Events, spot : Int, visit : Nat, meant : SUBSET Names]
Others == [type : {"Warp"}, x : Int, visit : Nat] \cup {Returned}

LinuxSources ==
  [suppressed : BOOLEAN, grabbed : SUBSET Linux!Device, due : SUBSET Linux!Device,
   modifiers : SUBSET Names, unplugged : SUBSET Linux!Device]
WindowsSources ==
  [suppressed : BOOLEAN, modifiers : SUBSET Names, last : Int, hooked : BOOLEAN, open : BOOLEAN,
   wheel : Int, lines : LinesPerNotch]
MacSources == [suppressed : BOOLEAN, held : SUBSET Key, caps : BOOLEAN, tapped : BOOLEAN]

SourceTypes ==
  /\ scene.from = "Linux" => source \in LinuxSources
  /\ scene.from = "Windows" => source \in WindowsSources
  /\ scene.from = "Mac" => source \in MacSources

\* The controller: the person, the adapter, the capture thread and the state.
HereTypes ==
  /\ scene \in Scenes
  /\ hands \in [keys : SUBSET scene.keys, buttons : SUBSET Button, locked : BOOLEAN]
  /\ at \in Int /\ cursor \in Int /\ away \in BOOLEAN /\ visits \in Nat /\ swap \in Swap
  /\ capture \in [told : BOOLEAN, turn : {"top", "poll", "stopped"}, seen : SUBSET Linux!Device]
  /\ SourceTypes

\* One of the things a person does.
StrokeOf(raw) ==
  \/ raw.kind = "move" /\ raw.dx \in Int
  \/ /\ raw.kind = "key" /\ raw.key \in scene.keys
     /\ \/ raw.action = "Press" /\ raw.key \notin hands.keys
        \/ raw.action \in {"Release", "Repeat"} /\ raw.key \in hands.keys
  \/ raw.kind = "button" /\ raw.button \in Button /\ raw.action \in Action
  \/ raw.kind = "wheel" /\ raw.turn \in WheelTurns

LEMMA StrokeKinds ==
  ASSUME HereTypes, NEW raw \in Strokes
  PROVE  StrokeOf(raw)
<1>1. scene.doing \in {"keyboard", "pointer", "wheel"}
  BY ScenesAssumption DEF HereTypes
<1>2. CASE raw \in Moves
  BY <1>2 DEF Moves, StrokeOf
<1>3. CASE raw \in KeyStrokes
  BY <1>3 DEF KeyStrokes, StrokeOf, HereTypes
<1>4. CASE raw \in Clicks
  BY <1>4 DEF Clicks, StrokeOf, HereTypes, Action
<1>5. CASE raw \in [kind : {"wheel"}, turn : WheelTurns]
  BY <1>5 DEF StrokeOf
<1> QED
  BY <1>1, <1>2, <1>3, <1>4, <1>5 DEF Strokes

LEMMA SceneKeys ==
  ASSUME HereTypes
  PROVE  /\ scene.keys \subseteq Key
         /\ scene.from \in {"Linux", "Windows", "Mac"} /\ scene.to \in {"Linux", "Windows", "Mac"}
<1>1. /\ scene \in Scenes
      /\ scene.from \in {"Linux", "Windows", "Mac"} /\ scene.to \in {"Linux", "Windows", "Mac"}
      /\ scene.keys \subseteq [side : {"left", "right", "none"}, name : STRING]
  BY ScenesAssumption DEF HereTypes
<1>2. ASSUME NEW key \in scene.keys PROVE key \in Key
  <2>1. key.name \in Names
    BY <1>1 DEF Names
  <2> QED
    BY <1>1, <2>1 DEF Key
<1> QED
  BY <1>1, <1>2

LEMMA ModifiersAreNames ==
  ASSUME NEW keys \in SUBSET Key
  PROVE  ModifiersOf(keys) \in SUBSET Names
BY DEF ModifiersOf, Key

\* The hands keep to the scene's keys.
LEMMA HandsTyped ==
  ASSUME HereTypes, NEW raw \in Strokes
  PROVE  /\ HandsAfter(raw) \in [keys : SUBSET scene.keys, buttons : SUBSET Button, locked : BOOLEAN]
         /\ HandsAfter(raw).keys = IF raw.kind = "key" THEN Toggled(hands.keys, raw.key, raw.action)
                                   ELSE hands.keys
<1>1. StrokeOf(raw)
  BY StrokeKinds
<1> QED
  BY <1>1 DEF HandsAfter, StrokeOf, HereTypes, Toggled, Action

\* A conversion between units of scrolling gives numbers.
LEMMA TakeTyped ==
  ASSUME NEW pending \in Int, NEW value \in Int, NEW numerator \in Int, NEW denominator \in Int
  PROVE  /\ Take(pending, value, numerator, denominator) \in [whole : Int, pending : Int]
<1> DEFINE sum   == pending + value * numerator
           whole == Quotient(ToI32(sum), denominator)
<1>1. CASE denominator <= 0
  BY <1>1 DEF Take
<1>2. CASE denominator > 0
  <2>1. sum \in Int
    OBVIOUS
  <2>2. ToI32(sum) \in Int
    <3> HIDE DEF sum
    <3> QED
      BY <2>1, LimitAssumption DEF ToI32
  <2>3. denominator \in Nat \ {0}
    BY <1>2
  <2>4. whole \in Int
    BY <2>2, <2>3, QuotientTruncates
  <2>5. Take(pending, value, numerator, denominator) =
          [whole |-> whole, pending |-> ToI32(sum) - whole * denominator]
    BY <1>2 DEF Take
  <2> HIDE DEF whole, sum
  <2>6. whole * denominator \in Int
    BY <2>4
  <2> QED
    BY <2>2, <2>4, <2>5, <2>6
<1> QED
  BY <1>1, <1>2

\* What each adapter makes of a stroke.
LEMMA CursorTyped ==
  ASSUME HereTypes, NEW raw \in Strokes, NEW x \in Int, NEW kept
  PROVE  CursorAfter(x, raw, kept) \in Int
<1>1. StrokeOf(raw)
  BY StrokeKinds
<1> QED
  BY <1>1, WidthAssumption DEF StrokeOf, CursorAfter, ClampToScreen

LEMMA LinuxReadTyped ==
  ASSUME HereTypes, scene.from = "Linux", NEW raw \in Strokes
  PROVE  /\ Linux!Read(source, at, raw).source \in LinuxSources
         /\ Linux!Read(source, at, raw).events \in Seq(RawEvents)
         /\ Linux!Read(source, at, raw).kept \in BOOLEAN /\ Linux!Read(source, at, raw).at \in Int
<1> DEFINE read == Linux!Read(source, at, raw)
<1>1. StrokeOf(raw) /\ SourceTypes /\ scene.keys \subseteq Key
  BY StrokeKinds, SceneKeys DEF HereTypes
<1>2. Linux!DeviceOf(raw) \in Linux!Device
  BY DEF Linux!DeviceOf, Linux!Device
<1>3. raw.kind = "key" => Linux!UpdateModifiers(source.modifiers, raw) \in SUBSET Names
  BY <1>1 DEF StrokeOf, SourceTypes, LinuxSources, Linux!UpdateModifiers, Key
<1>4. read.source \in LinuxSources
  BY <1>1, <1>2, <1>3 DEF Linux!Read, SourceTypes, LinuxSources
<1>5. read.kept \in BOOLEAN /\ read.at \in Int
  <2>1. read.kept = (Linux!DeviceOf(raw) \notin source.grabbed)
    BY DEF Linux!Read
  <2>2. read.at = CursorAfter(at, raw, Linux!DeviceOf(raw) \notin source.grabbed)
    BY LinuxWords DEF Linux!Read
  <2> QED
    BY <2>1, <2>2, CursorTyped DEF HereTypes
<1>6. read.events = Linux!Convert(source, raw)
  BY DEF Linux!Read
<1>7. Linux!Convert(source, raw) \in Seq(RawEvents)
  <2>1. CASE raw.kind = "key"
    <3>1. KeyEvent(raw.key, Linux!ActionOf(raw.action), Linux!UpdateModifiers(source.modifiers, raw))
            \in RawEvents
      BY <1>1, <1>3, <2>1 DEF StrokeOf, KeyEvent, RawEvents, Linux!ActionOf, Action
    <3> QED
      BY <2>1, <3>1, LinuxWords DEF Linux!Convert
  <2>2. CASE raw.kind = "button"
    <3>1. ButtonEvent(raw.button, raw.action) \in RawEvents
      BY <1>1, <2>2 DEF StrokeOf, ButtonEvent, RawEvents
    <3> QED
      BY <2>2, <3>1, LinuxWords DEF Linux!Convert
  <2>3. CASE raw.kind = "move"
    <3>1. MotionEvent(raw.dx) \in RawEvents
      BY <1>1, <2>3 DEF StrokeOf, MotionEvent, RawEvents
    <3> QED
      BY <2>3, <3>1, LinuxWords DEF Linux!Convert
  <2>4. CASE raw.kind = "wheel"
    <3>1. raw.turn * PerLine \in Int
      <4>1. raw.turn \in WheelTurns
        BY <1>1, <2>4 DEF StrokeOf
      <4>2. raw.turn \in Int
        BY <4>1, WheelTurnsAssumption
      <4> QED
        BY <4>2, PerLineAssumption
    <3>2. ScrollEvent(raw.turn * PerLine) \in RawEvents
      BY <3>1 DEF ScrollEvent, RawEvents
    <3> QED
      BY <2>4, <3>2, LinuxWords DEF Linux!Convert
  <2> QED
    BY <1>1, <2>1, <2>2, <2>3, <2>4 DEF StrokeOf
<1> QED
  BY <1>4, <1>5, <1>6, <1>7

\* A key's virtual key leads back to a key, and to the same one (the side of
\* a key that has one is looked at as its extended bit).
LEMMA VirtualKeyReturns ==
  ASSUME NEW key \in Key
  PROVE  /\ Windows!HidFromVk(Windows!VirtualKey(key)) \in Key
         /\ key.side # "right" => Windows!HidFromVk(Windows!VirtualKey(key)) = key
<1>1. /\ KeypadEnter = [side |-> "none", name |-> "KeypadEnter"]
      /\ Windows!KeypadEnter = KeypadEnter
      /\ KeypadEnter \in Key
  BY WindowsWords DEF KeypadEnter, Plain, Key, Names
<1>2. CASE key = KeypadEnter
  BY <1>1, <1>2 DEF Windows!HidFromVk, Windows!VirtualKey
<1>3. CASE key # KeypadEnter
  <2> DEFINE v == Windows!VirtualKey(key)
  <2>1. v.vk = key.name /\ v.side = key.side /\ (v.extended => key.side = "right")
    BY <1>1, <1>3, WindowsWords DEF Windows!VirtualKey, IsModifierKey
  <2>2. key = [side |-> key.side, name |-> key.name]
    BY DEF Key
  <2> HIDE DEF v
  <2>3. Windows!HidFromVk(v) = IF v.vk = "Return" /\ v.extended THEN KeypadEnter ELSE key
    BY <1>1, <2>1, <2>2 DEF Windows!HidFromVk
  <2> QED
    BY <1>1, <2>1, <2>3 DEF v
<1> QED
  BY <1>2, <1>3

LEMMA WindowsReadTyped ==
  ASSUME HereTypes, scene.from = "Windows", NEW raw \in Strokes
  PROVE  /\ Windows!Read(source, at, raw).source \in WindowsSources
         /\ Windows!Read(source, at, raw).events \in Seq(RawEvents)
         /\ Windows!Read(source, at, raw).kept \in BOOLEAN /\ Windows!Read(source, at, raw).at \in Int
<1> DEFINE read == Windows!Read(source, at, raw)
<1>0. SUFFICES /\ read.source \in WindowsSources /\ read.events \in Seq(RawEvents)
               /\ read.kept \in BOOLEAN /\ read.at \in Int
  OBVIOUS
<1>1. /\ StrokeOf(raw) /\ scene.keys \subseteq Key /\ at \in Int
      /\ source \in WindowsSources
  BY StrokeKinds, SceneKeys DEF HereTypes, SourceTypes
<1>2. <<>> \in Seq(RawEvents)
  OBVIOUS
<1>3. CASE ~ source.hooked
  <2>1. /\ read.source = source /\ read.events = <<>> /\ read.kept = TRUE
        /\ read.at = CursorAfter(at, raw, TRUE)
    BY <1>3, WindowsWords DEF Windows!Read
  <2> QED
    BY <1>1, <1>2, <2>1, CursorTyped
<1>4. CASE source.hooked /\ raw.kind = "key"
  <2> DEFINE modifiers == Windows!UpdateModifiers(source.modifiers, raw)
             key == Windows!HidFromVk(Windows!VirtualKey(raw.key))
             action == IF raw.action = "Release" THEN "Release" ELSE "Press"
  <2>1. modifiers \in SUBSET Names
    BY <1>1, <1>4 DEF StrokeOf, WindowsSources, Windows!UpdateModifiers, Key
  <2>2. key \in Key
    BY <1>1, <1>4, VirtualKeyReturns DEF StrokeOf
  <2>3. /\ read.source = [source EXCEPT !.modifiers = modifiers]
        /\ read.events = <<KeyEvent(key, action, modifiers)>>
        /\ read.kept = ~ source.suppressed /\ read.at = at
    BY <1>4, WindowsWords DEF Windows!Read, Windows!KeyboardProc
  <2>4. KeyEvent(key, action, modifiers) \in RawEvents
    <3> HIDE DEF key, modifiers
    <3> QED
      BY <2>1, <2>2 DEF KeyEvent, RawEvents, Action
  <2> HIDE DEF read, modifiers, key
  <2> QED
    BY <1>1, <2>1, <2>3, <2>4 DEF WindowsSources
<1>5. CASE source.hooked /\ raw.kind = "move"
  <2> DEFINE x        == at + raw.dx
             anchored == source.last # Windows!NoAnchor
             park     == anchored /\ source.suppressed
  <2>1. raw.dx \in Int /\ x \in Int /\ x - source.last \in Int /\ Windows!Centre \in Int
    BY <1>1, <1>5, WidthAssumption DEF StrokeOf, WindowsSources, Windows!Centre
  <2>2. /\ read.source = [source EXCEPT !.last = IF park THEN Windows!Centre ELSE x]
        /\ read.events = IF anchored /\ x # source.last THEN <<MotionEvent(x - source.last)>> ELSE <<>>
        /\ read.kept = ~ source.suppressed
        /\ read.at = IF park THEN Windows!Centre ELSE CursorAfter(at, raw, ~ source.suppressed)
    BY <1>5, WindowsWords DEF Windows!Read, Windows!MouseMove
  <2>3. MotionEvent(x - source.last) \in RawEvents
    BY <2>1 DEF MotionEvent, RawEvents
  <2>4. CursorAfter(at, raw, ~ source.suppressed) \in Int
    BY <1>1, CursorTyped
  <2> HIDE DEF read, x, anchored, park
  <2>5. read.source \in WindowsSources
    BY <1>1, <2>1, <2>2 DEF WindowsSources
  <2>6. read.events \in Seq(RawEvents) /\ read.kept \in BOOLEAN /\ read.at \in Int
    BY <1>2, <2>1, <2>2, <2>3, <2>4
  <2> QED
    BY <2>5, <2>6
<1>6. CASE source.hooked /\ raw.kind = "wheel"
  <2> DEFINE taken == Windows!WheelMillilines(source, raw.turn)
  <2>1. raw.turn \in Int /\ Notch \in Int /\ ToI32(source.lines * PerLine) \in Int
    <3>0. raw.turn \in WheelTurns /\ source.lines \in LinesPerNotch
      BY <1>1, <1>6 DEF StrokeOf, WindowsSources
    <3>1. raw.turn \in Int /\ source.lines \in Int
      <4>1. raw.turn \in Int
        BY <3>0, WheelTurnsAssumption
      <4>2. source.lines \in Nat \ {0}
        BY <3>0, LinesPerNotchAssumption
      <4> QED
        BY <4>1, <4>2
    <3>2. source.lines * PerLine \in Int
      BY <3>1, PerLineAssumption
    <3> QED
      BY <3>1, <3>2, NotchAssumption, LimitAssumption DEF ToI32
  <2>2. taken \in [whole : Int, pending : Int]
    <3>1. source.wheel \in Int
      BY <1>1 DEF WindowsSources
    <3> QED
      BY <2>1, <3>1, TakeTyped, WindowsWords DEF Windows!WheelMillilines
  <2>3. /\ read.source = [source EXCEPT !.wheel = taken.pending]
        /\ read.events = IF taken.whole = 0 THEN <<>> ELSE <<ScrollEvent(taken.whole)>>
        /\ read.kept = ~ source.suppressed /\ read.at = at
    BY <1>6, WindowsWords DEF Windows!Read, Windows!MouseWheel
  <2> HIDE DEF read, taken
  <2>4. ScrollEvent(taken.whole) \in RawEvents
    BY <2>2 DEF ScrollEvent, RawEvents
  <2>5. taken.pending \in Int
    BY <2>2
  <2>6. read.source \in WindowsSources
    BY <1>1, <2>3, <2>5 DEF WindowsSources
  <2> QED
    BY <1>1, <1>2, <2>3, <2>4, <2>6
<1>7. CASE source.hooked /\ raw.kind = "button"
  <2>1. /\ read.source = source /\ read.events = <<ButtonEvent(raw.button, raw.action)>>
        /\ read.kept = ~ source.suppressed /\ read.at = at
    BY <1>7, WindowsWords DEF Windows!Read
  <2>2. ButtonEvent(raw.button, raw.action) \in RawEvents
    BY <1>1, <1>7 DEF StrokeOf, ButtonEvent, RawEvents
  <2> HIDE DEF read
  <2> QED
    BY <1>1, <2>1, <2>2
<1> QED
  BY <1>1, <1>3, <1>4, <1>5, <1>6, <1>7 DEF StrokeOf

\* Half milli-lines are rounded to whole ones.
LEMMA HalvesTyped ==
  ASSUME NEW halves \in Int
  PROVE  FromHalves(halves) \in Int
<1>1. (halves + 1) \div 2 \in Int /\ (1 - halves) \div 2 \in Int
  OBVIOUS
<1> QED
  BY <1>1 DEF FromHalves

LEMMA MacReadTyped ==
  ASSUME HereTypes, scene.from = "Mac", NEW raw \in Strokes
  PROVE  LET read == Mac!Read(source, at, raw, HandsAfter(raw).keys, HandsAfter(raw).locked) IN
         /\ read.source \in MacSources /\ read.events \in Seq(RawEvents)
         /\ read.kept \in BOOLEAN /\ read.at \in Int
<1> DEFINE held      == HandsAfter(raw).keys
           locked    == HandsAfter(raw).locked
           flags     == ModifiersOf(held)
           read      == Mac!Read(source, at, raw, held, locked)
           converted == Mac!Convert(source, raw, held, locked)
<1>1. StrokeOf(raw) /\ scene.keys \subseteq Key /\ at \in Int /\ source \in MacSources
  BY StrokeKinds, SceneKeys DEF HereTypes, SourceTypes
<1>2. held \in SUBSET Key /\ locked \in BOOLEAN /\ flags \in SUBSET Names
  <2>1. HandsAfter(raw) \in [keys : SUBSET scene.keys, buttons : SUBSET Button, locked : BOOLEAN]
    BY HandsTyped
  <2>2. held \in SUBSET Key /\ locked \in BOOLEAN
    BY <1>1, <2>1
  <2> HIDE DEF held, locked
  <2> QED
    BY <2>2, ModifiersAreNames
<1>3. <<>> \in Seq(RawEvents)
  OBVIOUS
<1> HIDE DEF held, locked, flags
<1>4. ASSUME NEW key \in Key, NEW action \in Action
      PROVE  KeyEvent(key, action, flags) \in RawEvents
  BY <1>2 DEF KeyEvent, RawEvents
<1>5. converted.source \in MacSources /\ converted.events \in Seq(RawEvents)
  <2>1. CASE raw.kind = "key" /\ raw.key = CapsLock
    <3>1. CapsLock \in Key
      BY DEF CapsLock, Plain, Key, Names
    <3>2. KeyEvent(CapsLock, "Press", flags) \in RawEvents /\ KeyEvent(CapsLock, "Release", flags) \in RawEvents
      BY <1>4, <3>1 DEF Action
    <3>3. Mac!CapsLockTap(source.caps, locked, flags) \in Seq(RawEvents)
      BY <1>3, <3>2, MacWords DEF Mac!CapsLockTap
    <3>4. CASE raw.action = "Repeat"
      <4>1. converted = [source |-> source, events |-> <<>>]
        BY <2>1, <3>4, MacWords DEF Mac!Convert
      <4> QED
        BY <1>1, <1>3, <4>1
    <3>5. CASE raw.action # "Repeat"
      <4>0. Mac!ModifiersOf(held) = flags
        BY MacWords DEF flags
      <4>1. Mac!ConvertCapsLock(source, locked, flags) =
              [source |-> [source EXCEPT !.caps = locked],
               events |-> Mac!CapsLockTap(source.caps, locked, flags)]
        BY DEF Mac!ConvertCapsLock
      <4>2. raw.key = Mac!CapsLock /\ ~ Mac!IsModifierKey(raw.key)
        BY <2>1 DEF Mac!IsModifierKey, CapsLock, Plain, Mac!CapsLock, Mac!Plain
      <4>3. converted = Mac!ConvertCapsLock(source, locked, flags)
        BY <2>1, <3>5, <4>0, <4>2 DEF Mac!Convert
      <4>4. /\ converted.source = [source EXCEPT !.caps = locked]
            /\ converted.events = Mac!CapsLockTap(source.caps, locked, flags)
        BY <4>1, <4>3
      <4> HIDE DEF converted
      <4> QED
        BY <1>1, <1>2, <3>3, <4>4 DEF MacSources
    <3> QED
      BY <3>4, <3>5
  <2>2. CASE raw.kind = "key" /\ IsModifierKey(raw.key) /\ raw.key # CapsLock
    <3> DEFINE toggled == Mac!ToggleModifier(source.held, raw.key)
    <3>1. raw.key \in Key
      BY <1>1, <2>2 DEF StrokeOf
    <3>2. toggled.held \in SUBSET Key /\ toggled.action \in Action
      BY <1>1, <3>1 DEF Mac!ToggleModifier, Action, MacSources
    <3>3. KeyEvent(raw.key, toggled.action, flags) \in RawEvents
      BY <1>4, <3>1, <3>2
    <3>4. converted = IF raw.action = "Repeat" THEN [source |-> source, events |-> <<>>]
                      ELSE [source |-> [source EXCEPT !.held = toggled.held],
                            events |-> <<KeyEvent(raw.key, toggled.action, flags)>>]
      BY <2>2, MacWords DEF Mac!Convert, Mac!ConvertFlagsChanged, flags
    <3> HIDE DEF toggled, converted
    <3> QED
      BY <1>1, <1>3, <3>2, <3>3, <3>4 DEF MacSources
  <2>3. CASE raw.kind = "key" /\ ~ IsModifierKey(raw.key) /\ raw.key # CapsLock
    <3>1. raw.key \in Key
      BY <1>1, <2>3 DEF StrokeOf
    <3>2. KeyEvent(raw.key, IF raw.action = "Release" THEN "Release" ELSE "Press", flags) \in RawEvents
      BY <1>4, <3>1 DEF Action
    <3>3. /\ converted.source = source
          /\ converted.events = IF Mac!Carried(raw.key)
               THEN <<KeyEvent(raw.key, IF raw.action = "Release" THEN "Release" ELSE "Press", flags)>>
               ELSE <<>>
      BY <2>3, MacWords DEF Mac!Convert, flags
    <3> HIDE DEF converted
    <3> QED
      BY <1>1, <1>3, <3>2, <3>3
  <2>4. CASE raw.kind = "button"
    <3>1. ButtonEvent(raw.button, raw.action) \in RawEvents
      BY <1>1, <2>4 DEF StrokeOf, ButtonEvent, RawEvents
    <3>2. converted.source = source /\ converted.events = <<ButtonEvent(raw.button, raw.action)>>
      BY <2>4, MacWords DEF Mac!Convert
    <3> QED
      BY <1>1, <3>1, <3>2
  <2>5. CASE raw.kind = "move"
    <3>1. MotionEvent(raw.dx) \in RawEvents
      BY <1>1, <2>5 DEF StrokeOf, MotionEvent, RawEvents
    <3>2. converted.source = source /\ converted.events = <<MotionEvent(raw.dx)>>
      BY <2>5, MacWords DEF Mac!Convert
    <3> QED
      BY <1>1, <3>1, <3>2
  <2>6. CASE raw.kind = "wheel"
    <3>1. FromHalves(raw.turn) \in Int
      <4>1. raw.turn \in WheelTurns
        BY <1>1, <2>6 DEF StrokeOf
      <4>2. raw.turn \in Int
        BY <4>1, WheelTurnsAssumption
      <4> QED
        BY <4>2, HalvesTyped
    <3>2. ScrollEvent(FromHalves(raw.turn)) \in RawEvents
      BY <3>1 DEF ScrollEvent, RawEvents
    <3>3. /\ converted.source = source
          /\ converted.events = IF raw.turn = 0 THEN <<>> ELSE <<ScrollEvent(FromHalves(raw.turn))>>
      BY <2>6, MacWords DEF Mac!Convert
    <3> QED
      BY <1>1, <1>3, <3>2, <3>3
  <2> QED
    BY <1>1, <2>1, <2>2, <2>3, <2>4, <2>5, <2>6 DEF StrokeOf
<1>6. CASE ~ source.tapped
  <2>1. /\ read.source = source /\ read.events = <<>> /\ read.kept = TRUE
        /\ read.at = CursorAfter(at, raw, TRUE)
    BY <1>6, MacWords DEF Mac!Read
  <2> QED
    BY <1>1, <1>3, <2>1, CursorTyped DEF held, locked
<1>7. CASE source.tapped
  <2>1. /\ read.source = converted.source /\ read.events = converted.events
        /\ read.kept = ~ source.suppressed
        /\ read.at = CursorAfter(at, raw, ~ source.suppressed)
    BY <1>7, MacWords DEF Mac!Read
  <2> HIDE DEF read, converted
  <2>2. source.suppressed \in BOOLEAN
    BY <1>1 DEF MacSources
  <2>3. read.source \in MacSources /\ read.events \in Seq(RawEvents) /\ read.kept \in BOOLEAN
        /\ read.at \in Int
    BY <1>1, <1>5, <2>1, <2>2, CursorTyped
  <2> QED
    BY <2>3 DEF read, held, locked
<1> QED
  BY <1>1, <1>6, <1>7

LEMMA ReadTyped ==
  ASSUME HereTypes, NEW raw \in Strokes
  PROVE  /\ scene.from = "Linux" => ReadOf(raw).source \in LinuxSources
         /\ scene.from = "Windows" => ReadOf(raw).source \in WindowsSources
         /\ scene.from = "Mac" => ReadOf(raw).source \in MacSources
         /\ ReadOf(raw).events \in Seq(RawEvents) /\ ReadOf(raw).kept \in BOOLEAN
         /\ ReadOf(raw).at \in Int
<1>1. scene.from \in {"Linux", "Windows", "Mac"}
  BY SceneKeys
<1>2. CASE scene.from = "Linux"
  <2>1. ReadOf(raw) = Linux!Read(source, at, raw)
    BY <1>2 DEF ReadOf
  <2> QED
    BY <1>2, <2>1, LinuxReadTyped
<1>3. CASE scene.from = "Windows"
  <2>1. ReadOf(raw) = Windows!Read(source, at, raw)
    BY <1>3 DEF ReadOf
  <2> QED
    BY <1>3, <2>1, WindowsReadTyped
<1>4. CASE scene.from = "Mac"
  <2>1. ReadOf(raw) = Mac!Read(source, at, raw, HandsAfter(raw).keys, HandsAfter(raw).locked)
    BY <1>4 DEF ReadOf
  <2> QED
    BY <1>4, <2>1, MacReadTyped
<1> QED
  BY <1>1, <1>2, <1>3, <1>4

\* The controller's end keeps its types, whatever happens.
LEMMA HereInit == Init => HereTypes
<1> SUFFICES ASSUME Init PROVE HereTypes
  OBVIOUS
<1>1. scene \in Scenes /\ scene.swap \in Swap /\ scene.from \in {"Linux", "Windows", "Mac"}
  BY ScenesAssumption DEF Init
<1>2. SourceTypes
  <2>1. CASE scene.from = "Linux"
    <3>1. source = Linux!NewSource
      BY <2>1 DEF Init
    <3> QED
      BY <2>1, <3>1 DEF SourceTypes, LinuxSources, Linux!NewSource
  <2>2. CASE scene.from = "Windows"
    <3>1. PICK s \in Windows!NewSource : source = [s EXCEPT !.last = at]
      BY <2>2 DEF Init
    <3>2. PICK lines \in LinesPerNotch :
            s = [suppressed |-> FALSE, modifiers |-> {}, last |-> Windows!NoAnchor, hooked |-> TRUE,
                 open |-> TRUE, wheel |-> 0, lines |-> lines]
      BY <3>1 DEF Windows!NewSource
    <3>3. at \in Int
      BY WidthAssumption DEF Init
    <3>4. source \in WindowsSources
      <4>1. s \in WindowsSources
        BY <3>2 DEF WindowsSources, Windows!NoAnchor
      <4> QED
        BY <3>1, <3>3, <4>1 DEF WindowsSources
    <3> QED
      BY <2>2, <3>4 DEF SourceTypes
  <2>3. CASE scene.from = "Mac"
    <3>1. source = Mac!NewSource
      BY <2>3 DEF Init
    <3> QED
      BY <2>3, <3>1 DEF SourceTypes, MacSources, Mac!NewSource
  <2> QED
    BY <1>1, <2>1, <2>2, <2>3
<1>3. /\ hands = [keys |-> {}, buttons |-> {}, locked |-> FALSE]
      /\ at = Width /\ cursor = Width /\ away = FALSE /\ swap = scene.swap /\ visits = 0
      /\ capture = [told |-> FALSE, turn |-> "top", seen |-> {}]
  BY DEF Init
<1>4. hands \in [keys : SUBSET scene.keys, buttons : SUBSET Button, locked : BOOLEAN]
  BY <1>3
<1>5. capture \in [told : BOOLEAN, turn : {"top", "poll", "stopped"}, seen : SUBSET Linux!Device]
  BY <1>3
<1>6. at \in Int /\ cursor \in Int
  BY <1>3, WidthAssumption
<1>7. away \in BOOLEAN /\ visits \in Nat /\ swap \in Swap
  BY <1>1, <1>3
<1> QED
  BY <1>1, <1>2, <1>4, <1>5, <1>6, <1>7 DEF HereTypes

LEMMA SuppressionTyped ==
  ASSUME HereTypes, ApplySuppression
  PROVE  HereTypes'
<1>1. /\ UNCHANGED <<scene, hands, away, cursor, swap, visits>>
      /\ capture' = [told |-> away, turn |-> "poll",
                     seen |-> IF capture.told = away THEN capture.seen ELSE {}]
  BY DEF ApplySuppression, state
<1>2. SourceTypes' /\ at' \in Int
  <2>1. CASE capture.told = away
    BY <1>1, <2>1 DEF ApplySuppression, HereTypes, SourceTypes
  <2>2. CASE capture.told # away
    <3>1. scene.from = "Linux" => source' = Linux!SetSuppressed(source, away)
      BY <2>2 DEF ApplySuppression
    <3>2. scene.from = "Windows" => source' = Windows!SetSuppressed(source, away)
      BY <2>2 DEF ApplySuppression
    <3>3. scene.from = "Mac" => source' = Mac!SetSuppressed(source, away)
      BY <2>2 DEF ApplySuppression
    <3>4. Windows!Centre \in Int /\ Windows!NoAnchor \in Int
      BY WidthAssumption DEF Windows!Centre, Windows!NoAnchor
    <3>5. at' \in Int
      BY <2>2, <3>4 DEF ApplySuppression, Windows!ParkedAt, HereTypes
    <3> QED
      BY <1>1, <3>1, <3>2, <3>3, <3>4, <3>5
      DEF HereTypes, SourceTypes, LinuxSources, WindowsSources, MacSources,
          Linux!SetSuppressed, Windows!SetSuppressed, Mac!SetSuppressed
  <2> QED
    BY <2>1, <2>2
<1> QED
  BY <1>1, <1>2 DEF HereTypes

LEMMA TouchTyped ==
  ASSUME HereTypes, NEW raw \in Strokes, Touch(raw)
  PROVE  HereTypes'
<1>1. /\ UNCHANGED <<scene, away, cursor, swap, visits>>
      /\ source' = ReadOf(raw).source /\ at' = ReadOf(raw).at /\ hands' = HandsAfter(raw)
      /\ capture' = capture
  BY DEF Touch, state
<1>2. SourceTypes' /\ at' \in Int
  BY <1>1, ReadTyped DEF SourceTypes
<1>3. hands' \in [keys : SUBSET scene.keys, buttons : SUBSET Button, locked : BOOLEAN]
  BY <1>1, HandsTyped
<1> QED
  BY <1>1, <1>2, <1>3 DEF HereTypes

\* What a hook that is installed anew keeps.
LEMMA RearmKeeps ==
  ASSUME NEW s \in WindowsSources, NEW t \in Windows!Rearm(s)
  PROVE  /\ t \in WindowsSources
         /\ t.suppressed = s.suppressed /\ t.modifiers = s.modifiers /\ t.wheel = s.wheel
<1>1. PICK ok \in BOOLEAN :
        t \in {[s EXCEPT !.hooked = ok, !.open = ok, !.lines = lines] : lines \in LinesPerNotch}
  BY DEF Windows!Rearm
<1>2. PICK lines \in LinesPerNotch : t = [s EXCEPT !.hooked = ok, !.open = ok, !.lines = lines]
  BY <1>1
<1> QED
  BY <1>2 DEF WindowsSources

\* A Linux reader comes round.
LooksAt(dev) == capture' = [capture EXCEPT !.seen = @ \cup {dev}]
Turn(dev) ==
  /\ LooksAt(dev)
  /\ \E more \in SUBSET {dev} :
       \/ source' = Linux!Turns(source, dev, more) /\ UNCHANGED faults
       \/ source' = Linux!TurnFails(source, dev, more) /\ faults' = faults \cup {"ungrabbed"}

LEMMA TurnOf ==
  ASSUME ReaderTurns
  PROVE  \E dev \in source.due : Turn(dev)
BY DEF ReaderTurns, Turn, LooksAt

\* Mishaps of the adapter and what it does about them.
LEMMA SourceTyped ==
  ASSUME HereTypes, ReaderTurns \/ SourceMishap \/ SourceRecovers
  PROVE  HereTypes'
<1>1. UNCHANGED <<scene, hands, at, away, cursor, swap, visits>>
  BY DEF ReaderTurns, SourceMishap, SourceRecovers, state, person
<1>2. SourceTypes
  BY DEF HereTypes
<1>3. SourceTypes'
  <2>1. CASE ReaderTurns
    <3>1. scene.from = "Linux"
      BY <2>1 DEF ReaderTurns
    <3>2. PICK dev \in source.due : Turn(dev)
      BY <2>1, TurnOf
    <3>3. source \in LinuxSources /\ dev \in Linux!Device
      BY <1>2, <3>1, <3>2 DEF SourceTypes, LinuxSources
    <3>4. PICK more \in SUBSET {dev} :
            source' = Linux!Turns(source, dev, more) \/ source' = Linux!TurnFails(source, dev, more)
      BY <3>2 DEF Turn
    <3>5. Linux!Turns(source, dev, more) \in LinuxSources
      BY <3>3, <3>4 DEF LinuxSources, Linux!Turns
    <3>6. Linux!TurnFails(source, dev, more) \in LinuxSources
      BY <3>3, <3>4 DEF LinuxSources, Linux!TurnFails
    <3> QED
      BY <1>1, <3>1, <3>4, <3>5, <3>6 DEF SourceTypes
  <2>2. CASE SourceMishap
    <3>1. CASE scene.from = "Linux" /\ source' \in Linux!Unplugs(source)
      <4>1. PICK dev \in Linux!Device \ source.unplugged :
              source' = [source EXCEPT !.unplugged = @ \cup {dev}, !.grabbed = @ \ {dev},
                                       !.due = @ \ {dev}]
        BY <3>1 DEF Linux!Unplugs
      <4>2. source' \in LinuxSources
        BY <1>2, <3>1, <4>1 DEF SourceTypes, LinuxSources
      <4> QED
        BY <1>1, <3>1, <4>2 DEF SourceTypes
    <3>2. CASE scene.from = "Windows" /\ source' = Windows!HookRemoved(source)
      BY <1>1, <1>2, <3>2 DEF SourceTypes, WindowsSources, Windows!HookRemoved
    <3>3. CASE scene.from = "Mac" /\ source' = Mac!TapDisabled(source)
      BY <1>1, <1>2, <3>3 DEF SourceTypes, MacSources, Mac!TapDisabled
    <3> QED
      BY <2>2, <3>1, <3>2, <3>3 DEF SourceMishap
  <2>3. CASE SourceRecovers
    <3>1. CASE scene.from = "Windows" /\ source' \in Windows!Rearm(source)
      <4>1. source \in WindowsSources
        BY <1>2, <3>1 DEF SourceTypes
      <4>2. source' \in WindowsSources
        BY <3>1, <4>1, RearmKeeps
      <4> QED
        BY <1>1, <3>1, <4>2 DEF SourceTypes
    <3>2. CASE scene.from = "Mac" /\ source' = Mac!TapEnabled(source)
      BY <1>1, <1>2, <3>2 DEF SourceTypes, MacSources, Mac!TapEnabled
    <3> QED
      BY <2>3, <3>1, <3>2 DEF SourceRecovers
  <2> QED
    BY <2>1, <2>2, <2>3
<1>4. capture' \in [told : BOOLEAN, turn : {"top", "poll", "stopped"}, seen : SUBSET Linux!Device]
  <2>1. CASE ReaderTurns
    <3>1. PICK dev \in source.due : LooksAt(dev)
      BY <2>1, TurnOf DEF Turn
    <3>2. dev \in Linux!Device
      BY <1>2, <2>1 DEF ReaderTurns, SourceTypes, LinuxSources
    <3> QED
      BY <3>1, <3>2 DEF LooksAt, HereTypes
  <2>2. CASE SourceMishap \/ SourceRecovers
    BY <2>2 DEF SourceMishap, SourceRecovers, HereTypes
  <2> QED
    BY <2>1, <2>2
<1> QED
  BY <1>1, <1>3, <1>4 DEF HereTypes

\* A movement leads from where the cursor is taken to be to somewhere.
LEMMA RouteFrom ==
  ASSUME HereTypes, NEW c, c.event.dx \in Int, RouteMotion(c)
  PROVE  \E x \in Int : AdvanceCursor(c, x) /\ ClampToScreen(x) \in 0..Width
<1>1. PICK start \in IF away THEN {cursor} ELSE SyncedCursors : AdvanceCursor(c, start + c.event.dx)
  BY DEF RouteMotion
<1>2. start \in Int
  BY DEF SyncedCursors, HereTypes
<1> DEFINE x == start + c.event.dx
<1>3. x \in Int /\ ClampToScreen(x) \in 0..Width
  BY <1>2, WidthAssumption DEF ClampToScreen
<1> QED
  BY <1>1, <1>3

LEMMA RouteTyped ==
  ASSUME HereTypes, captured \in Seq(CapturedSet), PollAndRoute
  PROVE  HereTypes'
<1> DEFINE c == Head(captured)
<1>1. /\ UNCHANGED <<scene, hands, source, swap>>
      /\ capture' = [capture EXCEPT !.turn = "top"]
  BY DEF PollAndRoute
<1>2. c \in CapturedSet
  BY DEF PollAndRoute
<1>3. at' \in Int /\ cursor' \in Int /\ away' \in BOOLEAN /\ visits' \in Nat
  <2>1. CASE c.event.type # "Motion"
    <3>1. UNCHANGED <<away, cursor, at, visits>>
      BY <2>1 DEF PollAndRoute
    <3> QED
      BY <3>1 DEF HereTypes
  <2>2. CASE c.event.type = "Motion"
    <3>1. RouteMotion(c)
      BY <2>2 DEF PollAndRoute
    <3>2. c.event.dx \in Int
      BY <1>2, <2>2 DEF CapturedSet, RawEvents
    <3>3. PICK x \in Int : AdvanceCursor(c, x) /\ ClampToScreen(x) \in 0..Width
      BY <3>1, <3>2, RouteFrom
    <3>4. ClampToScreen(x) \in Int /\ Width \in Int
      BY <3>3, WidthAssumption
    <3>5. \/ away' = TRUE /\ cursor' = 0 /\ visits' = visits + 1 /\ at' = at
          \/ away' = FALSE /\ cursor' = Width /\ at' = Width /\ visits' = visits
          \/ cursor' = ClampToScreen(x) /\ UNCHANGED <<away, at, visits>>
      BY <3>3 DEF AdvanceCursor
    <3>6. /\ at \in Int /\ away \in BOOLEAN /\ visits \in Nat /\ 0 \in Int
          /\ visits + 1 \in Nat /\ TRUE \in BOOLEAN /\ FALSE \in BOOLEAN
      BY DEF HereTypes
    <3> QED
      BY <3>3, <3>4, <3>5, <3>6
  <2> QED
    BY <2>1, <2>2
<1>4. SourceTypes'
  BY <1>1 DEF HereTypes, SourceTypes
<1> QED
  BY <1>1, <1>3, <1>4 DEF HereTypes

LEMMA HereStep ==
  ASSUME HereTypes, captured \in Seq(CapturedSet), [Next]_vars
  PROVE  HereTypes'
<1>1. ASSUME NEW raw \in Strokes, Touch(raw) PROVE HereTypes'
  BY <1>1, TouchTyped
<1>2. CASE ReaderTurns \/ SourceMishap \/ SourceRecovers
  BY <1>2, SourceTyped
<1>3. CASE ApplySuppression
  BY <1>3, SuppressionTyped
<1>4. CASE PollAndRoute
  BY <1>4, RouteTyped
<1>5. CASE PollIdle
  BY <1>5 DEF PollIdle, HereTypes, SourceTypes, person, state
<1>6. CASE SessionEnds
  <2>1. /\ UNCHANGED <<scene, hands, at, source, capture, swap, visits>>
        /\ away' = FALSE /\ cursor' = 0
    BY <1>6 DEF SessionEnds, here
  <2>2. SourceTypes'
    BY <2>1 DEF HereTypes, SourceTypes
  <2>3. at' \in Int /\ cursor' \in Int
    BY <2>1 DEF HereTypes
  <2>4. away' \in BOOLEAN /\ visits' \in Nat /\ swap' \in Swap
    BY <2>1 DEF HereTypes
  <2> QED
    BY <2>1, <2>2, <2>3, <2>4 DEF HereTypes
<1>7. CASE SetModifierSwap
  BY <1>7 DEF SetModifierSwap, HereTypes, SourceTypes, here, person
<1>8. CASE UNCHANGED <<scene, person, here, state>>
  BY <1>8 DEF HereTypes, SourceTypes, here, person, state
<1>9. CASE SendBatch \/ RecvControl \/ Tick
  BY <1>8, <1>9 DEF SendBatch, RecvControl, Tick
<1>10. ASSUME NEW i \in DOMAIN wire, LoseDatagram(i) \/ \E soon \in BOOLEAN : RecvDatagram(i, soon)
       PROVE  HereTypes'
  BY <1>8, <1>10 DEF LoseDatagram, RecvDatagram
<1>11. CASE UNCHANGED vars
  BY <1>8, <1>11 DEF vars
<1> QED
  BY <1>1, <1>2, <1>3, <1>4, <1>5, <1>6, <1>7, <1>9, <1>10, <1>11 DEF Next

-----------------------------------------------------------------------------
(* What holds of every event when it is captured, and of every input when it *)
(* is sent, holds of all that is on the way: coalescing, losing and          *)
(* reordering make up nothing.  C and I are the events and inputs of which   *)
(* that is said.                                                             *)

Flows(C, I) ==
  /\ captured \in Seq(C) /\ commands \in Seq(I \cup Others)
  /\ control \in Seq(Others) /\ wire \in Seq(I)

\* What the capturing adapter's channel gets for an event of a stroke.
Fresh(raw, event) ==
  [event |-> event, kept |-> ReadOf(raw).kept, calm |-> Calm(raw), home |-> ~ away,
   holding |-> Holding, meant |-> ModifiersOf(HandsAfter(raw).keys)]

LEMMA FlowInit ==
  ASSUME NEW C, NEW I, Init
  PROVE  Flows(C, I)
<1>1. captured = <<>> /\ commands = <<>> /\ control = <<>> /\ wire = <<>>
  BY DEF Init
<1> QED
  BY <1>1 DEF Flows

LEMMA FlowTouch ==
  ASSUME NEW C, NEW I, HereTypes, Flows(C, I), NEW raw \in Strokes, Touch(raw),
         \A i \in DOMAIN ReadOf(raw).events : Fresh(raw, ReadOf(raw).events[i]) \in C
  PROVE  Flows(C, I)'
<1> DEFINE events == ReadOf(raw).events
           new    == [i \in DOMAIN events |-> Fresh(raw, events[i])]
<1>1. UNCHANGED <<commands, control, wire>> /\ captured' = captured \o new
  BY DEF Touch, net, Fresh
<1>2. events \in Seq(RawEvents)
  BY ReadTyped
<1>3. new \in Seq(C)
  <2>1. DOMAIN events = 1..Len(events) /\ Len(events) \in Nat
    BY <1>2
  <2>2. new \in [1..Len(events) -> C]
    BY <2>1
  <2> HIDE DEF new
  <2> QED
    BY <2>1, <2>2
<1>4. captured' \in Seq(C)
  <2> HIDE DEF new
  <2> QED
    BY <1>1, <1>3 DEF Flows
<1> QED
  BY <1>1, <1>4 DEF Flows

LEMMA FlowRoute ==
  ASSUME NEW C, NEW I, HereTypes, Flows(C, I), PollAndRoute, C \subseteq CapturedSet,
         \A c \in C : c.event.type # "Motion" => Input(c.event, c) \in I,
         \A c \in C, x \in 0..Width : Input(PointerEvent(x), c) \in I
  PROVE  Flows(C, I)'
<1> DEFINE c == Head(captured)
<1>1. c \in C /\ captured' = Tail(captured) /\ UNCHANGED <<control, wire>>
  BY DEF PollAndRoute, Flows
<1>2. captured' \in Seq(C)
  BY <1>1 DEF PollAndRoute, Flows
<1>3. \/ commands' = commands
      \/ \E command \in I \cup Others : commands' = Append(commands, command)
  <2>1. CASE c.event.type # "Motion"
    <3>1. commands' = IF away THEN Append(commands, Input(c.event, c)) ELSE commands
      BY <2>1 DEF PollAndRoute
    <3>2. Input(c.event, c) \in I
      BY <1>1, <2>1
    <3> HIDE DEF c
    <3> QED
      BY <3>1, <3>2
  <2>2. CASE c.event.type = "Motion"
    <3>1. RouteMotion(c)
      BY <2>2 DEF PollAndRoute
    <3>2. c.event.dx \in Int
      BY <1>1, <2>2 DEF CapturedSet, RawEvents
    <3>3. PICK x \in Int : AdvanceCursor(c, x) /\ ClampToScreen(x) \in 0..Width
      BY <3>1, <3>2, RouteFrom
    <3>4. WarpTo(0) \in Others /\ Returned \in Others
      BY DEF Others, WarpTo, HereTypes
    <3>5. \/ commands' = Append(commands, WarpTo(0))
          \/ commands' = Append(commands, Returned)
          \/ commands' = Append(commands, Input(PointerEvent(ClampToScreen(x)), c))
          \/ commands' = commands
      BY <3>3 DEF AdvanceCursor, ForwardPointer
    <3>6. Input(PointerEvent(ClampToScreen(x)), c) \in I
      BY <1>1, <3>3
    <3> HIDE DEF c
    <3> QED
      BY <3>4, <3>5, <3>6
  <2> QED
    BY <2>1, <2>2
<1>4. commands' \in Seq(I \cup Others)
  <2> DEFINE All == I \cup Others
  <2>1. commands \in Seq(All)
    BY DEF Flows
  <2>2. commands' = commands \/ \E command \in All : commands' = Append(commands, command)
    BY <1>3
  <2> HIDE DEF All
  <2>3. commands' \in Seq(All)
    BY <2>1, <2>2
  <2> QED
    BY <2>3 DEF All
<1> QED
  BY <1>1, <1>2, <1>4 DEF Flows

LEMMA FlowSend ==
  ASSUME NEW C, NEW I, Flows(C, I), SendBatch, \A input \in I : input.type = "Input"
  PROVE  Flows(C, I)'
<1> DEFINE All    == I \cup Others
           stay   == {i \in DOMAIN commands :
                        ~ (/\ IsPointer(commands[i]) /\ i < Len(commands)
                           /\ IsPointer(commands[i + 1]))}
           batch  == Coalesce(commands)
           inputs == Inputs(batch)
<1>1. commands \in Seq(All) /\ stay \in SUBSET DOMAIN commands
  BY DEF Flows
<1>2. batch = Retain(commands, stay)
  BY DEF Coalesce
<1> HIDE DEF stay, All
<1>3. Retain(commands, stay) \in Seq(All)
  BY <1>1, RetainElements
<1>4. batch \in Seq(All)
  BY <1>2, <1>3
<1> HIDE DEF batch
<1>5. inputs \in SUBSET DOMAIN batch /\ DOMAIN batch \ inputs \in SUBSET DOMAIN batch
  BY DEF Inputs
<1>6. \A i \in DOMAIN batch : batch[i] \in All
  BY <1>4
<1>7. \A i \in inputs : batch[i] \in I
  BY <1>6 DEF Inputs, All, Others, Returned
<1>8. \A i \in DOMAIN batch \ inputs : batch[i] \in Others
  BY <1>6 DEF Inputs, All
<1> HIDE DEF inputs
<1>9. ASSUME NEW keep \in SUBSET DOMAIN batch, NEW T, \A i \in keep : batch[i] \in T
      PROVE  Retain(batch, keep) \in Seq(T)
  <2> DEFINE r == Retain(batch, keep)
  <2>1. /\ Retain(batch, keep) \in Seq(All)
        /\ \A k \in DOMAIN Retain(batch, keep) : \E i \in keep : Retain(batch, keep)[k] = batch[i]
    BY <1>4, RetainElements
  <2>2. r \in Seq(All) /\ \A k \in DOMAIN r : r[k] \in T
    BY <1>9, <2>1
  <2> HIDE DEF r
  <2>3. r \in Seq(T)
    BY <2>2
  <2> QED
    BY <2>3 DEF r
<1>10. Retain(batch, inputs) \in Seq(I) /\ Retain(batch, DOMAIN batch \ inputs) \in Seq(Others)
  BY <1>5, <1>7, <1>8, <1>9
<1>11. /\ wire' = wire \o Retain(batch, inputs)
       /\ control' = control \o Retain(batch, DOMAIN batch \ inputs)
       /\ commands' = <<>> /\ captured' = captured
  BY DEF SendBatch, batch, inputs, here
<1>12. wire' \in Seq(I) /\ control' \in Seq(Others)
  BY <1>10, <1>11 DEF Flows
<1>13. commands' \in Seq(I \cup Others) /\ captured' \in Seq(C)
  <2>1. <<>> \in Seq(I \cup Others)
    OBVIOUS
  <2> QED
    BY <1>11, <2>1 DEF Flows
<1> QED
  BY <1>12, <1>13 DEF Flows

LEMMA WithoutFlows ==
  ASSUME NEW I, wire \in Seq(I), NEW i \in DOMAIN wire
  PROVE  Without(wire, i) \in Seq(I)
<1>1. DOMAIN wire \ {i} \in SUBSET DOMAIN wire
  OBVIOUS
<1>2. Retain(wire, DOMAIN wire \ {i}) \in Seq(I)
  BY <1>1, RetainElements
<1> QED
  BY <1>2 DEF Without

LEMMA FlowStep ==
  ASSUME NEW C, NEW I, HereTypes, Flows(C, I), [Next]_vars,
         C \subseteq CapturedSet, \A input \in I : input.type = "Input",
         \A raw \in Strokes : Touch(raw) =>
           \A i \in DOMAIN ReadOf(raw).events : Fresh(raw, ReadOf(raw).events[i]) \in C,
         \A c \in C : c.event.type # "Motion" => Input(c.event, c) \in I,
         \A c \in C, x \in 0..Width : Input(PointerEvent(x), c) \in I
  PROVE  Flows(C, I)'
<1>1. ASSUME NEW raw \in Strokes, Touch(raw) PROVE Flows(C, I)'
  BY <1>1, FlowTouch
<1>2. CASE PollAndRoute
  BY <1>2, FlowRoute
<1>3. CASE SendBatch
  BY <1>3, FlowSend
<1>4. CASE SessionEnds
  <2>1. captured' = captured /\ commands' = <<>> /\ control' = <<>> /\ wire' = <<>>
    BY <1>4 DEF SessionEnds, here
  <2> QED
    BY <2>1 DEF Flows
<1>5. CASE RecvControl
  <2>1. /\ control # <<>> /\ control' = Tail(control)
        /\ UNCHANGED <<captured, commands, wire>>
    BY <1>5 DEF RecvControl, here
  <2> QED
    BY <2>1 DEF Flows
<1>6. ASSUME NEW i \in DOMAIN wire, LoseDatagram(i) \/ \E soon \in BOOLEAN : RecvDatagram(i, soon)
      PROVE  Flows(C, I)'
  <2>1. wire' = Without(wire, i) /\ UNCHANGED <<captured, commands, control>>
    BY <1>6 DEF LoseDatagram, RecvDatagram, here
  <2>2. Without(wire, i) \in Seq(I)
    BY WithoutFlows DEF Flows
  <2> QED
    BY <2>1, <2>2 DEF Flows
<1>7. CASE UNCHANGED <<captured, net>>
  BY <1>7 DEF Flows, net
<1>8. CASE ReaderTurns \/ SourceMishap \/ SourceRecovers \/ ApplySuppression \/ PollIdle \/ Tick
           \/ SetModifierSwap \/ UNCHANGED vars
  <2>1. UNCHANGED <<captured, net>>
    BY <1>8 DEF ReaderTurns, SourceMishap, SourceRecovers, ApplySuppression, PollIdle, Tick,
                SetModifierSwap, vars, here, net
  <2> QED
    BY <1>7, <2>1
<1>9. \/ \E raw \in Strokes : Touch(raw)
      \/ \E i \in DOMAIN wire : LoseDatagram(i) \/ \E soon \in BOOLEAN : RecvDatagram(i, soon)
      \/ PollAndRoute \/ SendBatch \/ SessionEnds \/ RecvControl
      \/ ReaderTurns \/ SourceMishap \/ SourceRecovers \/ ApplySuppression \/ PollIdle \/ Tick
      \/ SetModifierSwap \/ UNCHANGED vars
  BY DEF Next
<1>10. CASE \E raw \in Strokes : Touch(raw)
  BY <1>1, <1>10
<1>11. CASE \E i \in DOMAIN wire : LoseDatagram(i) \/ \E soon \in BOOLEAN : RecvDatagram(i, soon)
  BY <1>6, <1>11
<1> QED
  BY <1>2, <1>3, <1>4, <1>5, <1>8, <1>9, <1>10, <1>11

\* All that is on the way has its type.
InputTypes == HereTypes /\ Flows(CapturedSet, InputSet)

LEMMA FreshTyped ==
  ASSUME HereTypes, NEW raw \in Strokes, NEW i \in DOMAIN ReadOf(raw).events
  PROVE  Fresh(raw, ReadOf(raw).events[i]) \in CapturedSet
<1>1. ReadOf(raw).events \in Seq(RawEvents) /\ ReadOf(raw).kept \in BOOLEAN
  BY ReadTyped
<1>2. ReadOf(raw).events[i] \in RawEvents
  BY <1>1
<1>3. Calm(raw) \in BOOLEAN /\ Holding \in BOOLEAN /\ (~ away) \in BOOLEAN
  BY DEF Calm, Holding
<1>4. ModifiersOf(HandsAfter(raw).keys) \in SUBSET Names
  <2>1. HandsAfter(raw).keys \in SUBSET Key
    BY HandsTyped, SceneKeys
  <2> QED
    BY <2>1, ModifiersAreNames
<1> QED
  BY <1>1, <1>2, <1>3, <1>4 DEF Fresh, CapturedSet

LEMMA SwapNames == \A name \in Names : SwapName(name) \in Names
<1>1. "Meta" \in Names /\ "Control" \in Names
  BY DEF Names
<1>2. \A name : SwapName(name) = "Control" \/ SwapName(name) = "Meta" \/ SwapName(name) = name
  BY DEF SwapName
<1> QED
  BY <1>1, <1>2

\* Relabelling keeps an event's type, its kind and the side of its key.
LEMMA SwapTyped ==
  ASSUME NEW e \in Events, NEW with \in Swap
  PROVE  /\ ApplySwap(with, e) \in Events /\ ApplySwap(with, e).type = e.type
         /\ e.type = "Key" => /\ ApplySwap(with, e).key.side = e.key.side
                              /\ ApplySwap(with, e).modifiers =
                                   IF with = "None" THEN e.modifiers ELSE SwapModifiers(e.modifiers)
         /\ e.type # "Key" => ApplySwap(with, e) = e
<1>1. CASE with = "None" \/ e.type # "Key"
  BY <1>1 DEF ApplySwap
<1>2. CASE with # "None" /\ e.type = "Key"
  <2>1. e \in [type : {"Key"}, key : Key, action : Action, modifiers : SUBSET Names]
    BY <1>2 DEF Events, RawEvents
  <2>2. \A name \in Names : SwapName(name) \in Names
    BY SwapNames
  <2>3. SwapModifiers(e.modifiers) \in SUBSET Names
    BY <2>1, <2>2 DEF SwapModifiers
  <2>4. SwapKey(e.key) \in Key /\ SwapKey(e.key).side = e.key.side
    BY <2>1, <2>2 DEF SwapKey, Key
  <2>5. ApplySwap(with, e) = [e EXCEPT !.key = SwapKey(e.key), !.modifiers = SwapModifiers(e.modifiers)]
    BY <1>2 DEF ApplySwap
  <2> QED
    BY <1>2, <2>1, <2>3, <2>4, <2>5 DEF Events, RawEvents
<1> QED
  BY <1>1, <1>2

LEMMA InputTyped ==
  ASSUME HereTypes, NEW c \in CapturedSet, NEW e \in Events
  PROVE  Input(e, c) \in InputSet
<1>1. ApplySwap(swap, e) \in Events
  BY SwapTyped DEF HereTypes
<1>2. \A name \in Names : SwapName(name) \in Names
  BY SwapNames
<1>3. c.meant \in SUBSET Names /\ SwapModifiers(c.meant) \in SUBSET Names
  BY <1>2 DEF CapturedSet, SwapModifiers
<1> QED
  BY <1>1, <1>3 DEF Input, InputSet, HereTypes

LEMMA CapturedIsEvent ==
  ASSUME NEW c \in CapturedSet
  PROVE  c.event \in Events
BY DEF CapturedSet, Events

LEMMA PointerIsEvent ==
  ASSUME NEW x \in Int
  PROVE  PointerEvent(x) \in Events
BY DEF PointerEvent, Events

LEMMA InputTypesInit == Init => InputTypes
BY HereInit, FlowInit DEF InputTypes

LEMMA InputTypesStep ==
  ASSUME InputTypes, [Next]_vars
  PROVE  InputTypes'
<1>1. HereTypes /\ Flows(CapturedSet, InputSet)
  BY DEF InputTypes
<1>2. HereTypes'
  BY <1>1, HereStep DEF Flows
<1>3. \A c \in CapturedSet : Input(c.event, c) \in InputSet
  BY <1>1, InputTyped, CapturedIsEvent
<1>4. \A c \in CapturedSet, x \in Int : Input(PointerEvent(x), c) \in InputSet
  BY <1>1, InputTyped, PointerIsEvent
<1>5. \A input \in InputSet : input.type = "Input"
  BY DEF InputSet
<1>6. Flows(CapturedSet, InputSet)'
  BY <1>1, <1>3, <1>4, <1>5, FreshTyped, FlowStep
<1> QED
  BY <1>2, <1>6 DEF InputTypes

\* What went wrong is not forgotten.
LEMMA FaultsStay ==
  ASSUME [Next]_vars
  PROVE  faults \subseteq faults'
<1>1. ASSUME NEW raw \in Strokes, Touch(raw) PROVE faults \subseteq faults'
  BY <1>1 DEF Touch
<1>2. CASE PollAndRoute
  BY <1>2 DEF PollAndRoute, RouteMotion, AdvanceCursor
<1>3. ASSUME NEW i \in DOMAIN wire, LoseDatagram(i) \/ \E soon \in BOOLEAN : RecvDatagram(i, soon)
      PROVE  faults \subseteq faults'
  BY <1>3 DEF LoseDatagram, RecvDatagram
<1>4. CASE ReaderTurns \/ SourceMishap \/ SourceRecovers \/ ApplySuppression \/ PollIdle
  BY <1>4 DEF ReaderTurns, SourceMishap, SourceRecovers, ApplySuppression, PollIdle
<1>5. CASE SendBatch \/ RecvControl \/ SessionEnds \/ SetModifierSwap \/ Tick
  BY <1>5 DEF SendBatch, RecvControl, SessionEnds, SetModifierSwap, Tick
<1>6. CASE UNCHANGED vars
  BY <1>6 DEF vars
<1> QED
  BY <1>1, <1>2, <1>3, <1>4, <1>5, <1>6 DEF Next

-----------------------------------------------------------------------------
(* An event that comes when the adapter has been told where input goes, and  *)
(* nothing waits to change it, is withheld here exactly if it goes there.    *)

ActedOnce == {c \in CapturedSet : c.calm => c.kept = c.home}

\* The adapter has been told what the capture thread has taken in; a Linux
\* device whose reader has come round since is grabbed accordingly.
Obeys ==
  /\ source.suppressed = capture.told
  /\ scene.from = "Linux" =>
       \A dev \in capture.seen :
         dev \notin source.unplugged => (dev \in source.grabbed <=> source.suppressed)

Sound == faults \intersect {"missed", "ungrabbed"} = {}
ActsInv == InputTypes /\ (Sound => Obeys /\ Flows(ActedOnce, InputSet))

LEMMA ActsInit == Init => ActsInv
<1> SUFFICES ASSUME Init PROVE ActsInv
  OBVIOUS
<1>1. InputTypes /\ Flows(ActedOnce, InputSet)
  BY InputTypesInit, FlowInit
<1>2. HereTypes
  BY <1>1 DEF InputTypes
<1>3. capture.told = FALSE /\ capture.seen = {}
  BY DEF Init
<1>4. source.suppressed = FALSE
  <2>1. CASE scene.from = "Linux"
    BY <2>1 DEF Init, Linux!NewSource
  <2>2. CASE scene.from = "Windows"
    BY <2>2 DEF Init, Windows!NewSource
  <2>3. CASE scene.from = "Mac"
    BY <2>3 DEF Init, Mac!NewSource
  <2> QED
    BY <1>2, <2>1, <2>2, <2>3, SceneKeys
<1> QED
  BY <1>1, <1>3, <1>4 DEF ActsInv, Obeys

\* A calm event was withheld or not as it should have been.
LEMMA FreshActsOnce ==
  ASSUME HereTypes, Obeys, NEW raw \in Strokes, Touch(raw), NEW i \in DOMAIN ReadOf(raw).events
  PROVE  Fresh(raw, ReadOf(raw).events[i]) \in ActedOnce
<1> DEFINE c == Fresh(raw, ReadOf(raw).events[i])
<1>1. c \in CapturedSet
  BY FreshTyped
<1>2. c.calm = Calm(raw) /\ c.kept = ReadOf(raw).kept /\ c.home = ~ away
  BY DEF Fresh
<1>3. ASSUME Calm(raw) PROVE ReadOf(raw).kept = ~ away
  <2>1. capture.told = away /\ ~ Blind /\ away \in BOOLEAN /\ source.suppressed = away
    BY <1>3 DEF Calm, Obeys, HereTypes
  <2>2. CASE scene.from = "Linux"
    <3> DEFINE dev == Linux!DeviceOf(raw)
    <3>1. dev \in capture.seen /\ dev \notin source.unplugged
      BY <1>3, <2>2 DEF Calm, Touch, Linux!CanRead
    <3>2. dev \in source.grabbed <=> source.suppressed
      BY <2>2, <3>1 DEF Obeys
    <3>3. ReadOf(raw).kept = (dev \notin source.grabbed)
      BY <2>2 DEF ReadOf, Linux!Read
    <3> HIDE DEF dev
    <3> QED
      BY <2>1, <3>2, <3>3
  <2>3. CASE scene.from = "Windows"
    <3>1. source.hooked /\ StrokeOf(raw)
      BY <2>1, <2>3, StrokeKinds DEF Blind
    <3>2. ReadOf(raw) = Windows!Read(source, at, raw)
      BY <2>3 DEF ReadOf
    <3>3. CASE raw.kind = "key"
      BY <2>1, <3>1, <3>2, <3>3 DEF Windows!Read, Windows!KeyboardProc
    <3>4. CASE raw.kind = "move"
      BY <2>1, <3>1, <3>2, <3>4 DEF Windows!Read, Windows!MouseMove
    <3>5. CASE raw.kind = "wheel"
      BY <2>1, <3>1, <3>2, <3>5 DEF Windows!Read, Windows!MouseWheel
    <3>6. CASE raw.kind = "button"
      BY <2>1, <3>1, <3>2, <3>6 DEF Windows!Read
    <3> QED
      BY <3>1, <3>3, <3>4, <3>5, <3>6 DEF StrokeOf
  <2>4. CASE scene.from = "Mac"
    BY <2>1, <2>4 DEF ReadOf, Mac!Read, Blind
  <2> QED
    BY <2>2, <2>3, <2>4, SceneKeys
<1> HIDE DEF c
<1> QED
  BY <1>1, <1>2, <1>3 DEF ActedOnce, c

\* The adapter obeys as long as it hears everything and every grab succeeds.
LEMMA ObeysStep ==
  ASSUME HereTypes, HereTypes', Obeys, [Next]_vars, Sound'
  PROVE  Obeys'
<1>1. ASSUME NEW raw \in Strokes, Touch(raw) PROVE Obeys'
  <2>1. /\ source' = ReadOf(raw).source /\ scene' = scene
        /\ capture' = capture
    BY <1>1 DEF Touch
  <2>2. capture'.told = capture.told /\ capture'.seen = capture.seen
    BY <2>1
  <2>3. CASE scene.from = "Linux"
    <3>1. source' = [source EXCEPT !.modifiers = IF raw.kind = "key" /\ raw.action # "Repeat"
                                                 THEN Linux!UpdateModifiers(@, raw) ELSE @,
                                   !.due = @ \cup {Linux!DeviceOf(raw)}]
      BY <2>1, <2>3 DEF ReadOf, Linux!Read
    <3>2. /\ source'.suppressed = source.suppressed /\ source'.grabbed = source.grabbed
          /\ source'.unplugged = source.unplugged
      BY <2>3, <3>1 DEF HereTypes, SourceTypes, LinuxSources
    <3> QED
      BY <2>1, <2>2, <3>2 DEF Obeys
  <2>4. CASE scene.from = "Windows"
    <3>1. source'.suppressed = source.suppressed
      <4>1. StrokeOf(raw) /\ source' = Windows!Read(source, at, raw).source
        BY <2>1, <2>4, StrokeKinds DEF ReadOf
      <4>2. CASE ~ source.hooked
        BY <4>1, <4>2 DEF Windows!Read
      <4>3. CASE source.hooked /\ raw.kind = "key"
        BY <2>4, <4>1, <4>3
        DEF Windows!Read, Windows!KeyboardProc, HereTypes, SourceTypes, WindowsSources
      <4>4. CASE source.hooked /\ raw.kind = "move"
        BY <2>4, <4>1, <4>4
        DEF Windows!Read, Windows!MouseMove, HereTypes, SourceTypes, WindowsSources
      <4>5. CASE source.hooked /\ raw.kind = "wheel"
        BY <2>4, <4>1, <4>5
        DEF Windows!Read, Windows!MouseWheel, HereTypes, SourceTypes, WindowsSources
      <4>6. CASE source.hooked /\ raw.kind = "button"
        BY <4>1, <4>6 DEF Windows!Read
      <4> QED
        BY <2>4, <4>1, <4>2, <4>3, <4>4, <4>5, <4>6
        DEF StrokeOf, HereTypes, SourceTypes, WindowsSources
    <3> QED
      BY <2>1, <2>2, <2>4, <3>1 DEF Obeys
  <2>5. CASE scene.from = "Mac"
    <3>1. source'.suppressed = source.suppressed
      <4> DEFINE converted == Mac!Convert(source, raw, HandsAfter(raw).keys, HandsAfter(raw).locked)
      <4>1. source' = IF source.tapped THEN converted.source ELSE source
        BY <2>1, <2>5 DEF ReadOf, Mac!Read
      <4>2. StrokeOf(raw)
        BY StrokeKinds
      <4>3. source \in MacSources
        BY <2>5 DEF HereTypes, SourceTypes, MacSources
      <4>4. converted.source.suppressed = source.suppressed
        <5>1. CASE raw.kind = "key"
          BY <4>3, <5>1
          DEF MacSources, Mac!Convert, Mac!ConvertCapsLock, Mac!ConvertFlagsChanged, Mac!ToggleModifier
        <5>2. CASE raw.kind # "key"
          BY <4>2, <5>2 DEF Mac!Convert, StrokeOf
        <5> QED
          BY <5>1, <5>2
      <4> HIDE DEF converted
      <4> QED
        BY <4>1, <4>4
    <3> QED
      BY <2>1, <2>2, <2>5, <3>1 DEF Obeys
  <2> QED
    BY <2>3, <2>4, <2>5, SceneKeys
<1>2. CASE ReaderTurns
  <2>1. scene.from = "Linux" /\ scene' = scene
    BY <1>2 DEF ReaderTurns
  <2>2. PICK dev \in source.due : Turn(dev)
    BY <1>2, TurnOf
  <2>3. PICK more \in SUBSET {dev} : source' = Linux!Turns(source, dev, more)
    BY <2>2 DEF Sound, Turn
  <2>4. /\ capture'.told = capture.told /\ capture'.seen = capture.seen \cup {dev}
        /\ source'.suppressed = source.suppressed
        /\ source'.grabbed = IF source.suppressed THEN source.grabbed \cup {dev}
                             ELSE source.grabbed \ {dev}
        /\ source'.unplugged = source.unplugged
    BY <2>1, <2>2, <2>3 DEF Turn, LooksAt, Linux!Turns, HereTypes, SourceTypes, LinuxSources
  <2> QED
    BY <2>1, <2>4 DEF Obeys
<1>3. CASE SourceMishap
  <2>1. UNCHANGED <<scene, capture>>
    BY <1>3 DEF SourceMishap
  <2>2. CASE scene.from = "Linux" /\ source' \in Linux!Unplugs(source)
    <3>1. PICK dev \in Linux!Device \ source.unplugged :
            source' = [source EXCEPT !.unplugged = @ \cup {dev}, !.grabbed = @ \ {dev},
                                     !.due = @ \ {dev}]
      BY <2>2 DEF Linux!Unplugs
    <3>2. /\ source'.suppressed = source.suppressed /\ source'.due = source.due \ {dev}
          /\ source'.grabbed = source.grabbed \ {dev}
          /\ source'.unplugged = source.unplugged \cup {dev}
      BY <2>2, <3>1 DEF HereTypes, SourceTypes, LinuxSources
    <3> QED
      BY <2>1, <3>2 DEF Obeys
  <2>3. CASE scene.from = "Windows" /\ source' = Windows!HookRemoved(source)
    BY <2>1, <2>3 DEF Obeys, Windows!HookRemoved, HereTypes, SourceTypes, WindowsSources
  <2>4. CASE scene.from = "Mac" /\ source' = Mac!TapDisabled(source)
    BY <2>1, <2>4 DEF Obeys, Mac!TapDisabled, HereTypes, SourceTypes, MacSources
  <2> QED
    BY <1>3, <2>2, <2>3, <2>4 DEF SourceMishap
<1>4. CASE SourceRecovers
  <2>1. UNCHANGED <<scene, capture>>
    BY <1>4 DEF SourceRecovers
  <2>2. CASE scene.from = "Windows" /\ source' \in Windows!Rearm(source)
    <3>1. source'.suppressed = source.suppressed
      BY <2>2, RearmKeeps DEF HereTypes, SourceTypes
    <3> QED
      BY <2>1, <2>2, <3>1 DEF Obeys
  <2>3. CASE scene.from = "Mac" /\ source' = Mac!TapEnabled(source)
    BY <2>1, <2>3 DEF Obeys, Mac!TapEnabled, HereTypes, SourceTypes, MacSources
  <2> QED
    BY <1>4, <2>2, <2>3 DEF SourceRecovers
<1>5. CASE ApplySuppression
  <2>1. /\ scene' = scene
        /\ capture'.told = away
        /\ capture'.seen = IF capture.told = away THEN capture.seen ELSE {}
    BY <1>5 DEF ApplySuppression
  <2>2. CASE capture.told = away
    <3>1. source' = source
      BY <1>5, <2>2 DEF ApplySuppression
    <3> QED
      BY <2>1, <2>2, <3>1 DEF Obeys
  <2>3. CASE capture.told # away
    <3>1. source'.suppressed = away
      <4>1. CASE scene.from = "Linux"
        BY <1>5, <2>3, <4>1
        DEF ApplySuppression, Linux!SetSuppressed, HereTypes, SourceTypes, LinuxSources
      <4>2. CASE scene.from = "Windows"
        BY <1>5, <2>3, <4>2
        DEF ApplySuppression, Windows!SetSuppressed, HereTypes, SourceTypes, WindowsSources
      <4>3. CASE scene.from = "Mac"
        BY <1>5, <2>3, <4>3
        DEF ApplySuppression, Mac!SetSuppressed, HereTypes, SourceTypes, MacSources
      <4> QED
        BY <4>1, <4>2, <4>3, SceneKeys
    <3> QED
      BY <2>1, <2>3, <3>1 DEF Obeys
  <2> QED
    BY <2>2, <2>3
<1>6. CASE PollAndRoute \/ PollIdle
  <2>1. UNCHANGED <<scene, source>> /\ capture'.told = capture.told /\ capture'.seen = capture.seen
    BY <1>6 DEF PollAndRoute, PollIdle, HereTypes
  <2> QED
    BY <2>1 DEF Obeys
<1>7. CASE UNCHANGED <<scene, source, capture>>
  BY <1>7 DEF Obeys
<1>8. CASE SendBatch \/ RecvControl \/ SessionEnds \/ SetModifierSwap \/ Tick \/ UNCHANGED vars
  <2>1. UNCHANGED <<scene, source, capture>>
    BY <1>8 DEF SendBatch, RecvControl, SessionEnds, SetModifierSwap, Tick, vars, here
  <2> QED
    BY <1>7, <2>1
<1>9. ASSUME NEW i \in DOMAIN wire, LoseDatagram(i) \/ \E soon \in BOOLEAN : RecvDatagram(i, soon)
      PROVE  Obeys'
  <2>1. UNCHANGED <<scene, source, capture>>
    BY <1>9 DEF LoseDatagram, RecvDatagram, here
  <2> QED
    BY <1>7, <2>1
<1> QED
  BY <1>1, <1>2, <1>3, <1>4, <1>5, <1>6, <1>8, <1>9 DEF Next

\* Once the adapter has been told, an event is withheld from the local desktop
\* exactly if the input goes to the peer (run_capture, set_suppressed).
THEOREM ActsOnceAlways == Spec => []ActsOnce
<1>1. ActsInv => ActsOnce
  <2> SUFFICES ASSUME ActsInv, Sound, NEW i \in DOMAIN captured, captured[i].calm
               PROVE  captured[i].kept = captured[i].home
    BY DEF ActsOnce, Sound
  <2>1. captured[i] \in ActedOnce
    BY DEF ActsInv, Flows
  <2> QED
    BY <2>1 DEF ActedOnce
<1>2. ActsInv /\ [Next]_vars => ActsInv'
  <2> SUFFICES ASSUME ActsInv, [Next]_vars PROVE ActsInv'
    OBVIOUS
  <2>1. InputTypes /\ InputTypes'
    BY InputTypesStep DEF ActsInv
  <2>2. ASSUME Sound' PROVE Obeys' /\ Flows(ActedOnce, InputSet)'
    <3>1. Sound /\ HereTypes /\ HereTypes'
      BY <2>1, <2>2, FaultsStay DEF Sound, InputTypes
    <3>2. Obeys /\ Flows(ActedOnce, InputSet)
      BY <3>1 DEF ActsInv
    <3>3. Obeys'
      BY <2>2, <3>1, <3>2, ObeysStep
    <3>4. ActedOnce \subseteq CapturedSet
      BY DEF ActedOnce
    <3>5. \A input \in InputSet : input.type = "Input"
      BY DEF InputSet
    <3>6. \A c \in ActedOnce : Input(c.event, c) \in InputSet
      BY <3>1, <3>4, InputTyped, CapturedIsEvent
    <3>7. \A c \in ActedOnce, x \in Int : Input(PointerEvent(x), c) \in InputSet
      BY <3>1, <3>4, InputTyped, PointerIsEvent
    <3>8. \A raw \in Strokes : Touch(raw) =>
            \A i \in DOMAIN ReadOf(raw).events : Fresh(raw, ReadOf(raw).events[i]) \in ActedOnce
      BY <3>1, <3>2, FreshActsOnce
    <3> QED
      BY <3>1, <3>2, <3>3, <3>4, <3>5, <3>6, <3>7, <3>8, FlowStep
  <2> QED
    BY <2>1, <2>2 DEF ActsInv
<1> QED
  BY ActsInit, <1>1, <1>2, PTL DEF Spec

-----------------------------------------------------------------------------
(* The peer's end: the types.                                               *)

HeldButtons == UNION {[held -> Nat] : held \in SUBSET Button}
DesktopSet ==
  [keys : SUBSET Key, chord : SUBSET Names, caps : BOOLEAN, at : Int, buttons : HeldButtons,
   up : Nat \X Nat, scrolled : Int]
MacSink ==
  [buttons : SUBSET Button, modifiers : SUBSET Names,
   click : [button : Button \cup {"none"}, at : Int, count : Nat], wheel : Int]
WindowsSink == [held : SUBSET Names, wheel : Int, lines : LinesPerNotch]

SinkTypes(to, k) ==
  /\ to = "Linux" => k \in [wheel : Int]
  /\ to = "Windows" => k \in WindowsSink
  /\ to = "Mac" => k \in MacSink

ThereTypes ==
  /\ SinkTypes(scene.to, sink) /\ desktop \in DesktopSet
  /\ injected \in [count : Nat, meant : SUBSET Names, click : Int \X Int, asked : Int]

\* What the injections do to a desktop keeps its type.
LEMMA PostKeyTyped ==
  ASSUME NEW d \in DesktopSet, NEW key \in Key, NEW action \in Action,
         NEW modifiers \in SUBSET Names
  PROVE  /\ PostKey(d, key, action, modifiers) \in DesktopSet
         /\ PostKey(d, key, action, modifiers).buttons = d.buttons
         /\ PostKey(d, key, action, modifiers).up = d.up
         /\ PostKey(d, key, action, modifiers).scrolled = d.scrolled
         /\ PostKey(d, key, action, modifiers).at = d.at
BY DEF PostKey, DesktopSet

LEMMA SendKeyTyped ==
  ASSUME NEW d \in DesktopSet, NEW key \in Key, NEW action \in Action
  PROVE  /\ SendKey(d, key, action) \in DesktopSet
         /\ SendKey(d, key, action).buttons = d.buttons
         /\ SendKey(d, key, action).up = d.up
         /\ SendKey(d, key, action).scrolled = d.scrolled
         /\ SendKey(d, key, action).at = d.at
<1>1. ModifiersOf(d.keys) \in SUBSET Names
  BY ModifiersAreNames DEF DesktopSet
<1> QED
  BY <1>1, PostKeyTyped DEF SendKey

LEMMA PlaceTyped ==
  ASSUME NEW d \in DesktopSet, NEW x \in Int
  PROVE  /\ PlaceCursor(d, x) \in DesktopSet /\ ClampToScreen(x) \in Int
         /\ PlaceCursor(d, x).buttons = d.buttons /\ PlaceCursor(d, x).up = d.up
         /\ PlaceCursor(d, x).chord = d.chord /\ PlaceCursor(d, x).keys = d.keys
         /\ PlaceCursor(d, x).scrolled = d.scrolled
         /\ PlaceCursor(d, x).caps = d.caps /\ PlaceCursor(d, x).at = x
BY WidthAssumption DEF PlaceCursor, DesktopSet, ClampToScreen

LEMMA ScrollByTyped ==
  ASSUME NEW d \in DesktopSet, NEW units \in Int
  PROVE  /\ ScrollBy(d, units) \in DesktopSet
         /\ ScrollBy(d, units).buttons = d.buttons /\ ScrollBy(d, units).up = d.up
         /\ ScrollBy(d, units).chord = d.chord /\ ScrollBy(d, units).keys = d.keys
         /\ ScrollBy(d, units).caps = d.caps /\ ScrollBy(d, units).at = d.at
         /\ ScrollBy(d, units).scrolled = d.scrolled + units
BY DEF ScrollBy, DesktopSet

\* A button goes down with its click count, or comes up with one.
LEMMA PostButtonTyped ==
  ASSUME NEW d \in DesktopSet, NEW button \in Button, NEW action \in Action, NEW count \in Nat
  PROVE  LET after == PostButton(d, button, action, count) IN
         /\ after \in DesktopSet
         /\ after.keys = d.keys /\ after.chord = d.chord /\ after.scrolled = d.scrolled
         /\ after.caps = d.caps /\ after.at = d.at
         /\ action = "Press" => after.buttons = Insert(d.buttons, button, count) /\ after.up = d.up
         /\ (action # "Press" /\ button \in DOMAIN d.buttons) =>
              after.buttons = Remove(d.buttons, button) /\ after.up = <<count, d.buttons[button]>>
         /\ (action # "Press" /\ button \notin DOMAIN d.buttons) => after = d
<1>1. PICK held \in SUBSET Button : d.buttons \in [held -> Nat]
  BY DEF DesktopSet, HeldButtons
<1>2. Insert(d.buttons, button, count) \in HeldButtons
  <2>1. DOMAIN d.buttons \cup {button} \in SUBSET Button
    BY <1>1
  <2>2. Insert(d.buttons, button, count) \in [DOMAIN d.buttons \cup {button} -> Nat]
    BY <1>1 DEF Insert
  <2> QED
    BY <2>1, <2>2 DEF HeldButtons
<1>3. Remove(d.buttons, button) \in HeldButtons
  <2>1. DOMAIN d.buttons \ {button} \in SUBSET Button
    BY <1>1
  <2>2. Remove(d.buttons, button) \in [DOMAIN d.buttons \ {button} -> Nat]
    BY <1>1 DEF Remove
  <2> QED
    BY <2>1, <2>2 DEF HeldButtons
<1>4. CASE action = "Press"
  <2>1. PostButton(d, button, action, count) = [d EXCEPT !.buttons = Insert(@, button, count)]
    BY <1>4 DEF PostButton
  <2> QED
    BY <1>2, <1>4, <2>1 DEF DesktopSet
<1>5. CASE action # "Press" /\ button \in DOMAIN d.buttons
  <2>1. PostButton(d, button, action, count) =
          [d EXCEPT !.buttons = Remove(@, button), !.up = <<count, d.buttons[button]>>]
    BY <1>5 DEF PostButton
  <2>2. <<count, d.buttons[button]>> \in Nat \X Nat
    BY <1>1, <1>5
  <2> QED
    BY <1>3, <1>5, <2>1, <2>2 DEF DesktopSet
<1>6. CASE action # "Press" /\ button \notin DOMAIN d.buttons
  BY <1>6 DEF PostButton
<1> QED
  BY <1>4, <1>5, <1>6

\* The kinds of event there are on the wire.
EventOf(e) ==
  \/ e.type = "Key" /\ e.key \in Key /\ e.action \in Action /\ e.modifiers \in SUBSET Names
  \/ e.type = "Motion" /\ e.dx \in Int
  \/ e.type = "Pointer" /\ e.x \in Int
  \/ e.type = "Button" /\ e.button \in Button /\ e.action \in Action
  \/ e.type = "Scroll" /\ e.dy \in Int

LEMMA EventKinds ==
  ASSUME NEW e \in Events
  PROVE  EventOf(e)
BY DEF Events, RawEvents, EventOf

\* What an injection leaves as it was: the buttons unless it is of a button, the
\* keys, the chord and Caps Lock unless of a key, the scrolling unless of a wheel,
\* the cursor unless of a movement; and where a position puts the cursor.
Untouched(e, d) ==
  /\ e.type # "Button" => d.buttons = desktop.buttons /\ d.up = desktop.up
  /\ e.type # "Key" => d.keys = desktop.keys /\ d.chord = desktop.chord /\ d.caps = desktop.caps
  /\ e.type # "Scroll" => d.scrolled = desktop.scrolled
  /\ e.type \notin {"Pointer", "Motion"} => d.at = desktop.at
  /\ e.type = "Pointer" => d.at \in {e.x, ClampToScreen(e.x)}

\* A movement of the cursor stays on the screen.
LEMMA MovedTyped ==
  ASSUME NEW d \in DesktopSet, NEW dx \in Int
  PROVE  LET after == PlaceCursor(d, ClampToScreen(d.at + dx)) IN
         /\ after \in DesktopSet
         /\ after.buttons = d.buttons /\ after.up = d.up /\ after.chord = d.chord
         /\ after.keys = d.keys /\ after.scrolled = d.scrolled /\ after.caps = d.caps
<1>1. d.at + dx \in Int
  BY DEF DesktopSet
<1>2. ClampToScreen(d.at + dx) \in Int
  BY <1>1, PlaceTyped
<1> QED
  BY <1>2, PlaceTyped

LEMMA TakeLinesTyped ==
  ASSUME NEW pending \in Int, NEW dy \in Int
  PROVE  TakeLines(pending, dy) \in [whole : Int, pending : Int]
<1>1. \A n, m \in Int : Take(pending, dy, n, m) \in [whole : Int, pending : Int]
  BY TakeTyped
<1>2. 1 \in Int /\ PerLine \in Int
  BY PerLineAssumption
<1> QED
  BY <1>1, <1>2, Zenon DEF TakeLines

LEMMA LinuxInjectTyped ==
  ASSUME NEW k \in [wheel : Int], desktop \in DesktopSet, NEW e \in Events,
         NEW done, done = Linux!Inject(k, desktop, e)
  PROVE  /\ done.sink \in [wheel : Int] /\ done.desktop \in DesktopSet
         /\ Untouched(e, done.desktop)
<1>1. EventOf(e) /\ desktop.at \in Int
  BY EventKinds DEF DesktopSet
<1>2. CASE e.type = "Key"
  <2>1. done.sink = k /\ done.desktop = SendKey(desktop, e.key, e.action)
    BY <1>2, LinuxWords DEF Linux!Inject, Linux!Carried
  <2>2. e.key \in Key /\ e.action \in Action
    BY <1>1, <1>2 DEF EventOf
  <2>3. LET after == SendKey(desktop, e.key, e.action) IN
        /\ after \in DesktopSet /\ after.buttons = desktop.buttons /\ after.up = desktop.up
        /\ after.scrolled = desktop.scrolled /\ after.at = desktop.at
    BY <2>2, SendKeyTyped
  <2> QED
    BY <1>2, <2>1, <2>3 DEF Untouched
<1>3. CASE e.type = "Motion"
  <2>1. done.sink = k /\ done.desktop = PlaceCursor(desktop, ClampToScreen(desktop.at + e.dx))
    BY <1>3, LinuxWords DEF Linux!Inject
  <2>2. e.dx \in Int
    BY <1>1, <1>3 DEF EventOf
  <2> QED
    BY <1>3, <2>1, <2>2, MovedTyped DEF Untouched
<1>4. CASE e.type = "Pointer"
  <2>1. done.sink = k /\ done.desktop = PlaceCursor(desktop, e.x)
    BY <1>4, LinuxWords DEF Linux!Inject
  <2>2. e.x \in Int
    BY <1>1, <1>4 DEF EventOf
  <2>3. LET after == PlaceCursor(desktop, e.x) IN
        /\ after \in DesktopSet /\ after.buttons = desktop.buttons /\ after.up = desktop.up
        /\ after.chord = desktop.chord /\ after.keys = desktop.keys
        /\ after.scrolled = desktop.scrolled /\ after.caps = desktop.caps /\ after.at = e.x
    BY <2>2, PlaceTyped
  <2> QED
    BY <1>4, <2>1, <2>3 DEF Untouched
<1>5. CASE e.type = "Button"
  <2>1. done.sink = k /\ done.desktop = PostButton(desktop, e.button, e.action, 1)
    BY <1>5, LinuxWords DEF Linux!Inject
  <2> QED
    BY <1>1, <1>5, <2>1, PostButtonTyped DEF Untouched, EventOf
<1>6. CASE e.type = "Scroll"
  <2> DEFINE taken == TakeLines(k.wheel, e.dy)
  <2>1. done.sink = [k EXCEPT !.wheel = taken.pending] /\ done.desktop = ScrollBy(desktop, taken.whole)
    BY <1>6, LinuxWords DEF Linux!Inject
  <2>2. taken \in [whole : Int, pending : Int]
    BY <1>1, <1>6, TakeLinesTyped DEF EventOf
  <2> HIDE DEF taken
  <2> QED
    BY <1>6, <2>1, <2>2, ScrollByTyped DEF Untouched
<1> QED
  BY <1>1, <1>2, <1>3, <1>4, <1>5, <1>6 DEF EventOf

LEMMA WindowsInjectTyped ==
  ASSUME NEW k \in WindowsSink, desktop \in DesktopSet, NEW e \in Events,
         NEW done, done = Windows!Inject(k, desktop, e)
  PROVE  /\ done.sink \in WindowsSink /\ done.desktop \in DesktopSet
         /\ Untouched(e, done.desktop)
<1>1. EventOf(e) /\ desktop.at \in Int
  BY EventKinds DEF DesktopSet
<1>2. CASE e.type = "Key"
  <2>1. done = Windows!InjectKey(k, desktop, e)
    BY <1>2 DEF Windows!Inject
  <2>2. e.key \in Key /\ e.action \in Action /\ e.modifiers \in SUBSET Names
    BY <1>1, <1>2 DEF EventOf
  <2>3. CASE IsModifierKey(e.key)
    <3>1. /\ done.sink = [k EXCEPT !.held = IF e.action = "Press" THEN @ \cup {e.key.name}
                                            ELSE @ \ {e.key.name}]
          /\ done.desktop = SendKey(desktop, e.key, e.action)
      BY <2>1, <2>3, WindowsWords DEF Windows!InjectKey
    <3>2. e.key.name \in Names
      BY <2>2 DEF Key
    <3>3. done.sink \in WindowsSink
      BY <3>1, <3>2 DEF WindowsSink
    <3>4. LET after == SendKey(desktop, e.key, e.action) IN
          /\ after \in DesktopSet /\ after.buttons = desktop.buttons /\ after.up = desktop.up
          /\ after.scrolled = desktop.scrolled /\ after.at = desktop.at
      BY <2>2, SendKeyTyped
    <3> QED
      BY <1>2, <3>1, <3>3, <3>4 DEF Untouched
  <2>4. CASE ~ IsModifierKey(e.key)
    <3> DEFINE fixed == Windows!ApplyModifiers(k, desktop, e.modifiers)
               key   == Windows!HidFromVk(Windows!VirtualKey(e.key))
    <3>1. done = [fixed EXCEPT !.desktop = SendKey(@, key, e.action)]
      BY <2>1, <2>4, WindowsWords DEF Windows!InjectKey
    <3>2. /\ fixed.sink = [k EXCEPT !.held = e.modifiers]
          /\ fixed.desktop =
               [desktop EXCEPT !.keys = (@ \ {Windows!LeftKey(m) : m \in k.held \ e.modifiers})
                                          \cup {Windows!LeftKey(m) : m \in e.modifiers \ k.held}]
          /\ done.sink = fixed.sink /\ done.desktop = SendKey(fixed.desktop, key, e.action)
      BY <3>1 DEF Windows!ApplyModifiers
    <3>3. key \in Key
      BY <2>2, VirtualKeyReturns
    <3>4. \A m \in Names : Windows!LeftKey(m) \in Key
      BY DEF Windows!LeftKey, Key
    <3>5. /\ fixed.desktop \in DesktopSet /\ fixed.desktop.buttons = desktop.buttons
          /\ fixed.desktop.up = desktop.up /\ fixed.desktop.scrolled = desktop.scrolled
          /\ fixed.desktop.at = desktop.at
      BY <2>2, <3>2, <3>4 DEF DesktopSet
    <3>6. done.sink \in WindowsSink
      BY <2>2, <3>2 DEF WindowsSink
    <3> HIDE DEF fixed, key
    <3>7. LET after == SendKey(fixed.desktop, key, e.action) IN
          /\ after \in DesktopSet /\ after.buttons = fixed.desktop.buttons
          /\ after.up = fixed.desktop.up /\ after.scrolled = fixed.desktop.scrolled
          /\ after.at = fixed.desktop.at
      BY <2>2, <3>3, <3>5, SendKeyTyped
    <3> QED
      BY <1>2, <3>2, <3>5, <3>6, <3>7 DEF Untouched
  <2> QED
    BY <2>3, <2>4
<1>3. CASE e.type = "Motion"
  <2>1. done.sink = k /\ done.desktop = PlaceCursor(desktop, ClampToScreen(desktop.at + e.dx))
    BY <1>3, WindowsWords DEF Windows!Inject
  <2>2. e.dx \in Int
    BY <1>1, <1>3 DEF EventOf
  <2> QED
    BY <1>3, <2>1, <2>2, MovedTyped DEF Untouched
<1>4. CASE e.type = "Pointer"
  <2>1. done.sink = k /\ done.desktop = PlaceCursor(desktop, e.x)
    BY <1>4, WindowsWords DEF Windows!Inject
  <2>2. e.x \in Int
    BY <1>1, <1>4 DEF EventOf
  <2>3. LET after == PlaceCursor(desktop, e.x) IN
        /\ after \in DesktopSet /\ after.buttons = desktop.buttons /\ after.up = desktop.up
        /\ after.chord = desktop.chord /\ after.keys = desktop.keys
        /\ after.scrolled = desktop.scrolled /\ after.caps = desktop.caps /\ after.at = e.x
    BY <2>2, PlaceTyped
  <2> QED
    BY <1>4, <2>1, <2>3 DEF Untouched
<1>5. CASE e.type = "Button"
  <2>1. done.sink = k /\ done.desktop = PostButton(desktop, e.button, e.action, 1)
    BY <1>5, WindowsWords DEF Windows!Inject
  <2> QED
    BY <1>1, <1>5, <2>1, PostButtonTyped DEF Untouched, EventOf
<1>6. CASE e.type = "Scroll"
  <2> DEFINE taken == Take(k.wheel, e.dy, Notch, ToI32(PerLine * k.lines))
  <2>1. done.sink = [k EXCEPT !.wheel = taken.pending] /\ done.desktop = ScrollBy(desktop, taken.whole)
    BY <1>6, WindowsWords DEF Windows!Inject, Windows!InjectScroll
  <2>2. taken \in [whole : Int, pending : Int]
    <3>0. k.lines \in LinesPerNotch /\ k.wheel \in Int /\ e.dy \in Int
      BY <1>1, <1>6 DEF EventOf, WindowsSink
    <3>1. k.wheel \in Int /\ k.lines \in Int /\ e.dy \in Int /\ Notch \in Int
      <4>1. k.lines \in Nat \ {0}
        BY <3>0, LinesPerNotchAssumption
      <4> QED
        BY <3>0, <4>1, NotchAssumption
    <3>2. PerLine * k.lines \in Int
      BY <3>1, PerLineAssumption
    <3>3. ToI32(PerLine * k.lines) \in Int
      BY <3>2, LimitAssumption DEF ToI32
    <3> QED
      BY <3>1, <3>3, TakeTyped
  <2> HIDE DEF taken
  <2>3. done.sink \in WindowsSink
    BY <2>1, <2>2 DEF WindowsSink
  <2> QED
    BY <1>6, <2>1, <2>2, <2>3, ScrollByTyped DEF Untouched
<1> QED
  BY <1>1, <1>2, <1>3, <1>4, <1>5, <1>6 DEF EventOf

\* Of a macOS sink also what becomes of its record of the last click.
LEMMA MacInjectTyped ==
  ASSUME NEW k \in MacSink, desktop \in DesktopSet, NEW e \in Events, NEW soon \in BOOLEAN,
         NEW done, done = Mac!Inject(k, desktop, e, soon)
  PROVE  /\ done.sink \in MacSink /\ done.desktop \in DesktopSet
         /\ Untouched(e, done.desktop)
         /\ e.type # "Button" => done.sink.click = k.click
         /\ (e.type = "Button" /\ e.action = "Press") =>
              /\ done.sink.click.button = e.button
              /\ done.desktop.buttons = Insert(desktop.buttons, e.button, done.sink.click.count)
              /\ done.desktop.up = desktop.up
         /\ (e.type = "Button" /\ e.action # "Press") =>
              /\ done.sink.click = k.click
              /\ done.desktop = PostButton(desktop, e.button, "Release",
                                           Mac!ReleaseCount(k, e.button))
<1>1. /\ EventOf(e) /\ desktop.at \in Int
      /\ k.click \in [button : Button \cup {"none"}, at : Int, count : Nat]
  BY EventKinds DEF DesktopSet, MacSink
<1>2. CASE e.type = "Key"
  <2>1. done = Mac!InjectKey(k, desktop, e)
    BY <1>2 DEF Mac!Inject
  <2>2. e.key \in Key /\ e.action \in Action /\ e.modifiers \in SUBSET Names
    BY <1>1, <1>2 DEF EventOf
  <2>3. CASE Mac!Carried(e.key)
    <3>1. /\ done.sink = [k EXCEPT !.modifiers = e.modifiers]
          /\ done.desktop = PostKey(desktop, e.key, e.action, e.modifiers)
      BY <2>1, <2>3, MacWords DEF Mac!InjectKey
    <3>2. done.sink \in MacSink /\ done.sink.click = k.click
      BY <2>2, <3>1 DEF MacSink
    <3> QED
      BY <1>2, <2>2, <3>1, <3>2, PostKeyTyped DEF Untouched
  <2>4. CASE ~ Mac!Carried(e.key)
    BY <1>2, <2>1, <2>4 DEF Mac!InjectKey, Untouched
  <2> QED
    BY <2>3, <2>4
<1>3. CASE e.type = "Motion"
  <2>1. done.sink = k /\ done.desktop = PlaceCursor(desktop, ClampToScreen(desktop.at + e.dx))
    BY <1>3, MacWords DEF Mac!Inject
  <2>2. e.dx \in Int
    BY <1>1, <1>3 DEF EventOf
  <2> QED
    BY <1>3, <2>1, <2>2, MovedTyped DEF Untouched
<1>4. CASE e.type = "Pointer"
  <2>1. done.sink = k /\ done.desktop = PlaceCursor(desktop, ClampToScreen(e.x))
    BY <1>4, MacWords DEF Mac!Inject
  <2>2. e.x \in Int
    BY <1>1, <1>4 DEF EventOf
  <2>3. LET after == PlaceCursor(desktop, ClampToScreen(e.x)) IN
        /\ after \in DesktopSet /\ after.buttons = desktop.buttons /\ after.up = desktop.up
        /\ after.chord = desktop.chord /\ after.keys = desktop.keys
        /\ after.scrolled = desktop.scrolled /\ after.caps = desktop.caps
        /\ after.at = ClampToScreen(e.x)
    BY <2>2, PlaceTyped
  <2> QED
    BY <1>4, <2>1, <2>3 DEF Untouched
<1>5. CASE e.type = "Button" /\ e.action = "Press"
  <2> DEFINE count == Mac!NextClickCount(k.click, e.button, desktop.at, soon)
  <2>1. /\ done.sink = [k EXCEPT !.buttons = @ \cup {e.button},
                                 !.click = [button |-> e.button, at |-> desktop.at, count |-> count]]
        /\ done.desktop = PostButton(desktop, e.button, "Press", count)
    BY <1>5, MacWords DEF Mac!Inject, Mac!InjectButton
  <2>2. count \in Nat
    BY <1>1 DEF Mac!NextClickCount
  <2>3. e.button \in Button /\ "Press" \in Action
    BY <1>1, <1>5 DEF EventOf, Action
  <2> HIDE DEF count
  <2>4. /\ done.sink \in MacSink /\ done.sink.click.button = e.button
        /\ done.sink.click.count = count
    <3>1. done.sink.click = [button |-> e.button, at |-> desktop.at, count |-> count]
      BY <2>1 DEF MacSink
    <3>2. done.sink.click \in [button : Button \cup {"none"}, at : Int, count : Nat]
      BY <1>1, <2>2, <2>3, <3>1
    <3>3. /\ done.sink.buttons = k.buttons \cup {e.button}
          /\ done.sink = [buttons |-> done.sink.buttons, modifiers |-> k.modifiers,
                          click |-> done.sink.click, wheel |-> k.wheel]
      BY <2>1 DEF MacSink
    <3>4. done.sink.buttons \in SUBSET Button /\ k.modifiers \in SUBSET Names /\ k.wheel \in Int
      BY <2>3, <3>3 DEF MacSink
    <3>5. done.sink \in MacSink
      BY <3>2, <3>3, <3>4 DEF MacSink
    <3> QED
      BY <3>1, <3>5
  <2> QED
    BY <1>5, <2>1, <2>2, <2>3, <2>4, PostButtonTyped DEF Untouched
<1>6. CASE e.type = "Button" /\ e.action # "Press"
  <2> DEFINE count == Mac!ReleaseCount(k, e.button)
  <2>1. /\ done.sink = [k EXCEPT !.buttons = @ \ {e.button}]
        /\ done.desktop = PostButton(desktop, e.button, "Release", count)
    BY <1>6, MacWords DEF Mac!Inject, Mac!InjectButton
  <2>2. count \in Nat
    BY <1>1 DEF Mac!ReleaseCount
  <2>3. e.button \in Button /\ "Release" \in Action
    BY <1>1, <1>6 DEF EventOf, Action
  <2>4. done.sink \in MacSink /\ done.sink.click = k.click
    <3> QED
      BY <2>1 DEF MacSink
  <2>5. done.desktop = PostButton(desktop, e.button, "Release", Mac!ReleaseCount(k, e.button))
    BY <2>1
  <2> HIDE DEF count
  <2> QED
    BY <1>6, <2>1, <2>2, <2>3, <2>4, <2>5, PostButtonTyped DEF Untouched
<1>7. CASE e.type = "Scroll"
  <2> DEFINE taken == TakeLines(k.wheel, e.dy)
  <2>1. done.sink = [k EXCEPT !.wheel = taken.pending] /\ done.desktop = ScrollBy(desktop, taken.whole)
    BY <1>7, MacWords DEF Mac!Inject, Mac!InjectScroll
  <2>2. taken \in [whole : Int, pending : Int]
    BY <1>1, <1>7, TakeLinesTyped DEF EventOf, MacSink
  <2> HIDE DEF taken
  <2>3. done.sink \in MacSink /\ done.sink.click = k.click
    BY <2>1, <2>2 DEF MacSink
  <2> QED
    BY <1>7, <2>1, <2>2, <2>3, ScrollByTyped DEF Untouched
<1> QED
  BY <1>1, <1>2, <1>3, <1>4, <1>5, <1>6, <1>7 DEF EventOf

LEMMA InjectTyped ==
  ASSUME scene \in Scenes, ThereTypes, NEW e \in Events, NEW soon \in BOOLEAN
  PROVE  /\ SinkTypes(scene.to, InjectOf(e, soon).sink)
         /\ InjectOf(e, soon).desktop \in DesktopSet
         /\ Untouched(e, InjectOf(e, soon).desktop)
<1>1. scene.to \in {"Linux", "Windows", "Mac"}
  BY ScenesAssumption
<1>2. CASE scene.to = "Linux"
  <2>1. InjectOf(e, soon) = Linux!Inject(sink, desktop, e)
    BY <1>2 DEF InjectOf
  <2> QED
    BY <1>2, <2>1, LinuxInjectTyped DEF ThereTypes, SinkTypes
<1>3. CASE scene.to = "Windows"
  <2>1. InjectOf(e, soon) = Windows!Inject(sink, desktop, e)
    BY <1>3 DEF InjectOf
  <2> QED
    BY <1>3, <2>1, WindowsInjectTyped DEF ThereTypes, SinkTypes
<1>4. CASE scene.to = "Mac"
  <2>1. InjectOf(e, soon) = Mac!Inject(sink, desktop, e, soon)
    BY <1>4 DEF InjectOf
  <2> QED
    BY <1>4, <2>1, MacInjectTyped DEF ThereTypes, SinkTypes
<1> QED
  BY <1>1, <1>2, <1>3, <1>4

LEMMA ThereInit == Init => ThereTypes
<1> SUFFICES ASSUME Init PROVE ThereTypes
  OBVIOUS
<1>1. scene.to \in {"Linux", "Windows", "Mac"}
  BY ScenesAssumption DEF Init
<1>2. SinkTypes(scene.to, sink)
  <2>1. CASE scene.to = "Linux"
    BY <2>1 DEF Init, SinkTypes, Linux!NewSink
  <2>2. CASE scene.to = "Windows"
    BY <2>2 DEF Init, SinkTypes, Windows!NewSink, WindowsSink
  <2>3. CASE scene.to = "Mac"
    BY <2>3 DEF Init, SinkTypes, Mac!NewSink, Mac!NoClick, MacSink
  <2> QED
    BY <1>1, <2>1, <2>2, <2>3
<1>3. desktop \in DesktopSet
  <2>1. EmptyMap \in [{} -> Nat] /\ {} \in SUBSET Button
    BY DEF EmptyMap
  <2>2. EmptyMap \in HeldButtons
    BY <2>1 DEF HeldButtons
  <2> QED
    BY <2>2 DEF Init, NewDesktop, DesktopSet
<1> QED
  BY <1>2, <1>3 DEF Init, ThereTypes

\* What the peer does when a datagram comes.
LEMMA ReceivedInput ==
  ASSUME InputTypes, NEW i \in DOMAIN wire
  PROVE  /\ wire[i] \in InputSet /\ wire[i].event \in Events
         /\ wire[i].meant \in SUBSET Names /\ wire[i].spot \in Int
<1>1. wire[i] \in InputSet
  BY DEF InputTypes, Flows
<1> QED
  BY <1>1 DEF InputSet

\* Only these touch what the peer's adapter does.
LEMMA PeerElsewhere ==
  ASSUME [Next]_vars, ~ RecvControl,
         ~ \E i \in DOMAIN wire : \E soon \in BOOLEAN : RecvDatagram(i, soon)
  PROVE  UNCHANGED <<scene, sink, desktop, injected>>
<1>1. ASSUME NEW raw \in Strokes, Touch(raw) PROVE UNCHANGED <<scene, sink, desktop, injected>>
  BY <1>1 DEF Touch, peer
<1>2. CASE ReaderTurns \/ SourceMishap \/ SourceRecovers
  BY <1>2 DEF ReaderTurns, SourceMishap, SourceRecovers, peer
<1>3. CASE ApplySuppression \/ PollAndRoute \/ PollIdle
  BY <1>3 DEF ApplySuppression, PollAndRoute, PollIdle, peer
<1>4. CASE SendBatch \/ SessionEnds \/ SetModifierSwap \/ Tick
  BY <1>4 DEF SendBatch, SessionEnds, SetModifierSwap, Tick, peer
<1>5. ASSUME NEW i \in DOMAIN wire, LoseDatagram(i) PROVE UNCHANGED <<scene, sink, desktop, injected>>
  BY <1>5 DEF LoseDatagram, peer
<1>6. CASE UNCHANGED vars
  BY <1>6 DEF vars, peer
<1> QED
  BY <1>1, <1>2, <1>3, <1>4, <1>5, <1>6 DEF Next

\* The scene is the same throughout.
LEMMA SceneStays ==
  ASSUME [Next]_vars
  PROVE  scene' = scene
<1>1. RecvControl => scene' = scene
  BY DEF RecvControl
<1>2. ASSUME NEW i \in DOMAIN wire, NEW soon \in BOOLEAN, RecvDatagram(i, soon) PROVE scene' = scene
  BY <1>2 DEF RecvDatagram
<1> QED
  BY <1>1, <1>2, PeerElsewhere

LEMMA ThereStep ==
  ASSUME InputTypes, ThereTypes, [Next]_vars
  PROVE  ThereTypes'
<1>1. scene' = scene /\ scene \in Scenes
  BY SceneStays DEF InputTypes, HereTypes
<1>2. CASE RecvControl
  <2>1. Head(control) \in Others
    BY <1>2 DEF RecvControl, InputTypes, Flows
  <2>2. UNCHANGED <<sink, injected>>
    BY <1>2 DEF RecvControl
  <2>3. desktop' \in DesktopSet
    <3>1. Head(control).type = "Warp" => Head(control).x \in Int
      BY <2>1 DEF Others, Returned
    <3>2. desktop' = IF Head(control).type = "Warp" THEN PlaceCursor(desktop, Head(control).x) ELSE desktop
      BY <1>2 DEF RecvControl
    <3> QED
      BY <3>1, <3>2, PlaceTyped DEF ThereTypes
  <2> QED
    BY <1>1, <2>2, <2>3 DEF ThereTypes
<1>3. ASSUME NEW i \in DOMAIN wire, NEW soon \in BOOLEAN, RecvDatagram(i, soon)
      PROVE  ThereTypes'
  <2>1. /\ wire[i].event \in Events /\ wire[i].meant \in SUBSET Names /\ wire[i].spot \in Int
        /\ EventOf(wire[i].event)
    BY ReceivedInput, EventKinds
  <2>2. CASE ~ (Refilled >= 1)
    <3>1. UNCHANGED <<sink, desktop, injected>>
      BY <1>3, <2>2 DEF RecvDatagram
    <3> QED
      BY <1>1, <3>1 DEF ThereTypes
  <2>3. CASE Refilled >= 1
    <3>1. /\ sink' = InjectOf(wire[i].event, soon).sink
          /\ desktop' = InjectOf(wire[i].event, soon).desktop
          /\ injected' = InjectedAfter(wire[i])
      BY <1>3, <2>3 DEF RecvDatagram
    <3>2. SinkTypes(scene.to, sink') /\ desktop' \in DesktopSet
      BY <1>1, <2>1, <3>1, InjectTyped
    <3>3. desktop.at \in Int
      BY DEF ThereTypes, DesktopSet
    <3>4. /\ injected.asked + (IF wire[i].event.type = "Scroll" THEN wire[i].event.dy ELSE 0) \in Int
          /\ injected.count + 1 \in Nat /\ <<desktop.at, wire[i].spot>> \in Int \X Int
      BY <2>1, <3>3 DEF ThereTypes, EventOf
    <3>5. injected' \in [count : Nat, meant : SUBSET Names, click : Int \X Int, asked : Int]
      BY <2>1, <3>1, <3>4 DEF InjectedAfter, ThereTypes
    <3> QED
      BY <1>1, <3>2, <3>5 DEF ThereTypes
  <2> QED
    BY <2>2, <2>3
<1>4. CASE UNCHANGED <<scene, sink, desktop, injected>>
  BY <1>4 DEF ThereTypes
<1> QED
  BY <1>2, <1>3, <1>4, PeerElsewhere

-----------------------------------------------------------------------------
(* A button comes up with the click count it went down with.                *)

\* On Linux and Windows every click counts as one; a macOS sink remembers the
\* last button that went down, and unless two are down at once that is the one
\* that is held.
CountsKept ==
  /\ desktop.up[1] = desktop.up[2]
  /\ \A button \in DOMAIN desktop.buttons :
       IF scene.to = "Mac"
       THEN sink.click.button = button /\ sink.click.count = desktop.buttons[button]
       ELSE desktop.buttons[button] = 1

ClickInv == InputTypes /\ ThereTypes /\ ("chorded" \notin faults => CountsKept)

LEMMA ClickInit == Init => ClickInv
<1> SUFFICES ASSUME Init PROVE ClickInv
  OBVIOUS
<1>1. desktop.buttons = EmptyMap /\ desktop.up = <<1, 1>>
  BY DEF Init, NewDesktop
<1>2. DOMAIN desktop.buttons = {}
  BY <1>1 DEF EmptyMap
<1> QED
  BY <1>1, <1>2, InputTypesInit, ThereInit DEF ClickInv, CountsKept

\* A button that goes down or up leaves the counts in order.
LEMMA ClickInjected ==
  ASSUME scene \in Scenes, ThereTypes, CountsKept, NEW e \in Events, NEW soon \in BOOLEAN,
         e.type = "Button", ~ Chorded(e),
         NEW k, k = InjectOf(e, soon).sink, NEW d, d = InjectOf(e, soon).desktop
  PROVE  /\ d.up[1] = d.up[2]
         /\ \A button \in DOMAIN d.buttons :
              IF scene.to = "Mac"
              THEN k.click.button = button /\ k.click.count = d.buttons[button]
              ELSE d.buttons[button] = 1
<1>1. scene.to \in {"Linux", "Windows", "Mac"}
  BY ScenesAssumption
<1>2. e.button \in Button /\ e.action \in Action /\ desktop \in DesktopSet
  BY EventKinds DEF EventOf, ThereTypes
<1>3. e.action = "Press" => DOMAIN desktop.buttons = {}
  BY DEF Chorded, EmptyMap
<1>4. CASE scene.to # "Mac"
  <2>1. d = PostButton(desktop, e.button, e.action, 1)
    <3>1. CASE scene.to = "Linux"
      BY <3>1, LinuxWords DEF InjectOf, Linux!Inject
    <3>2. CASE scene.to = "Windows"
      BY <3>2, WindowsWords DEF InjectOf, Windows!Inject
    <3> QED
      BY <1>1, <1>4, <3>1, <3>2
  <2>2. CASE e.action = "Press"
    <3>1. d.buttons = Insert(desktop.buttons, e.button, 1) /\ d.up = desktop.up
      BY <1>2, <2>1, <2>2, PostButtonTyped
    <3> QED
      BY <1>4, <3>1 DEF Insert, CountsKept
  <2>3. CASE e.action # "Press" /\ e.button \in DOMAIN desktop.buttons
    <3>1. d.buttons = Remove(desktop.buttons, e.button) /\ d.up = <<1, desktop.buttons[e.button]>>
      BY <1>2, <2>1, <2>3, PostButtonTyped
    <3> QED
      BY <1>4, <2>3, <3>1 DEF Remove, CountsKept
  <2>4. CASE e.action # "Press" /\ e.button \notin DOMAIN desktop.buttons
    <3>1. d = desktop
      BY <1>2, <2>1, <2>4, PostButtonTyped
    <3> QED
      BY <1>4, <3>1 DEF CountsKept
  <2> QED
    BY <1>4, <2>2, <2>3, <2>4
<1>5. CASE scene.to = "Mac"
  <2>1. InjectOf(e, soon) = Mac!Inject(sink, desktop, e, soon) /\ sink \in MacSink
    BY <1>5 DEF InjectOf, ThereTypes, SinkTypes
  <2>2. CASE e.action = "Press"
    <3>1. /\ k.click.button = e.button /\ d.up = desktop.up
          /\ d.buttons = Insert(desktop.buttons, e.button, k.click.count)
      BY <1>2, <2>1, <2>2, MacInjectTyped
    <3>2. \A button \in DOMAIN d.buttons : button = e.button /\ d.buttons[button] = k.click.count
      BY <1>3, <2>2, <3>1 DEF Insert
    <3>3. /\ d.up[1] = d.up[2]
          /\ \A button \in DOMAIN d.buttons :
               k.click.button = button /\ k.click.count = d.buttons[button]
      BY <3>1, <3>2 DEF CountsKept
    <3> QED
      BY <1>5, <3>3
  <2>3. CASE e.action # "Press"
    <3> DEFINE count == Mac!ReleaseCount(sink, e.button)
    <3>1. k.click = sink.click /\ d = PostButton(desktop, e.button, "Release", count)
      BY <1>2, <2>1, <2>3, MacInjectTyped
    <3>2. count \in Nat /\ "Release" \in Action /\ "Release" # "Press"
      BY <2>1 DEF Mac!ReleaseCount, MacSink, Action
    <3>3. CASE e.button \in DOMAIN desktop.buttons
      <4>1. count = desktop.buttons[e.button]
        BY <1>5, <3>3 DEF Mac!ReleaseCount, CountsKept
      <4> HIDE DEF count
      <4>2. d.buttons = Remove(desktop.buttons, e.button) /\ d.up = <<count, desktop.buttons[e.button]>>
        <5> DEFINE action == "Release"
        <5>1. action \in Action /\ action # "Press" /\ d = PostButton(desktop, e.button, action, count)
          BY <3>1, <3>2
        <5> HIDE DEF action
        <5> QED
          BY <1>2, <3>2, <3>3, <5>1, PostButtonTyped
      <4>3. /\ d.up[1] = d.up[2]
            /\ \A button \in DOMAIN d.buttons :
                 k.click.button = button /\ k.click.count = d.buttons[button]
        BY <1>5, <3>1, <4>1, <4>2 DEF Remove, CountsKept
      <4> QED
        BY <1>5, <4>3
    <3>4. CASE e.button \notin DOMAIN desktop.buttons
      <4> HIDE DEF count
      <4>1. d = desktop
        BY <1>2, <3>1, <3>2, <3>4, PostButtonTyped
      <4>2. /\ d.up[1] = d.up[2]
            /\ \A button \in DOMAIN d.buttons :
                 k.click.button = button /\ k.click.count = d.buttons[button]
        BY <1>5, <3>1, <4>1 DEF CountsKept
      <4> QED
        BY <1>5, <4>2
    <3> QED
      BY <3>3, <3>4
  <2> QED
    BY <2>2, <2>3
<1> QED
  BY <1>4, <1>5

LEMMA ClickStep == ClickInv /\ [Next]_vars => ClickInv'
<1> SUFFICES ASSUME ClickInv, [Next]_vars PROVE ClickInv'
  OBVIOUS
<1>1. InputTypes /\ ThereTypes /\ InputTypes' /\ ThereTypes'
  BY InputTypesStep, ThereStep DEF ClickInv
<1>2. scene' = scene /\ scene \in Scenes
  BY <1>1, SceneStays DEF InputTypes, HereTypes
<1>3. ASSUME "chorded" \notin faults' PROVE CountsKept'
  <2>1. CountsKept
    BY <1>3, FaultsStay DEF ClickInv
  <2>2. CASE RecvControl
    <3>1. sink' = sink /\ Head(control) \in Others
      BY <1>1, <2>2 DEF RecvControl, InputTypes, Flows
    <3>2. Head(control).type = "Warp" => Head(control).x \in Int
      BY <3>1 DEF Others, Returned
    <3>3. desktop' = IF Head(control).type = "Warp" THEN PlaceCursor(desktop, Head(control).x) ELSE desktop
      BY <2>2 DEF RecvControl
    <3>4. desktop'.buttons = desktop.buttons /\ desktop'.up = desktop.up
      BY <1>1, <3>2, <3>3, PlaceTyped DEF ThereTypes
    <3> QED
      BY <1>2, <2>1, <3>1, <3>4 DEF CountsKept
  <2>3. ASSUME NEW i \in DOMAIN wire, NEW soon \in BOOLEAN, RecvDatagram(i, soon)
        PROVE  CountsKept'
    <3> DEFINE e == wire[i].event
    <3>1. e \in Events
      BY <1>1, ReceivedInput
    <3>2. ~ Chorded(e)
      BY <1>3, <2>3 DEF RecvDatagram, RecvFaults
    <3>3. \/ UNCHANGED <<sink, desktop>>
          \/ sink' = InjectOf(e, soon).sink /\ desktop' = InjectOf(e, soon).desktop
      BY <2>3 DEF RecvDatagram
    <3> HIDE DEF e
    <3>4. CASE UNCHANGED <<sink, desktop>>
      BY <1>2, <2>1, <3>4 DEF CountsKept
    <3>5. CASE sink' = InjectOf(e, soon).sink /\ desktop' = InjectOf(e, soon).desktop /\ e.type = "Button"
      BY <1>1, <1>2, <2>1, <3>1, <3>2, <3>5, ClickInjected DEF CountsKept
    <3>6. CASE sink' = InjectOf(e, soon).sink /\ desktop' = InjectOf(e, soon).desktop /\ e.type # "Button"
      <4>1. desktop'.buttons = desktop.buttons /\ desktop'.up = desktop.up
        BY <1>1, <1>2, <3>1, <3>6, InjectTyped DEF Untouched
      <4>2. scene.to = "Mac" => sink'.click = sink.click
        <5> SUFFICES ASSUME scene.to = "Mac" PROVE sink'.click = sink.click
          OBVIOUS
        <5>1. InjectOf(e, soon) = Mac!Inject(sink, desktop, e, soon) /\ sink \in MacSink
              /\ desktop \in DesktopSet
          BY <1>1 DEF InjectOf, ThereTypes, SinkTypes
        <5> QED
          BY <3>1, <3>6, <5>1, MacInjectTyped
      <4> QED
        BY <1>2, <2>1, <4>1, <4>2 DEF CountsKept
    <3> QED
      BY <3>3, <3>4, <3>5, <3>6
  <2>4. CASE UNCHANGED <<scene, sink, desktop, injected>>
    BY <2>1, <2>4 DEF CountsKept
  <2> QED
    BY <2>2, <2>3, <2>4, PeerElsewhere
<1> QED
  BY <1>1, <1>3 DEF ClickInv

\* A button comes up with the click count it went down with, so that a double
\* click is one, whatever is lost or overtaken (click_state).
THEOREM ClicksAlwaysPair == Spec => []ClickPairs
<1>1. ClickInv => ClickPairs
  BY DEF ClickInv, CountsKept, ClickPairs
<1> QED
  BY ClickInit, ClickStep, <1>1, PTL DEF Spec

-----------------------------------------------------------------------------
(* No scrolling is made up and none goes missing, as long as the numbers fit *)
(* 32 bits: no event on the way scrolls by more than `most', so that neither *)
(* machine's sum is clamped.                                                 *)

ScrollsIn(most, e) == e.type = "Scroll" => e.dy \in -most..most
CapturedWithin(most) == {c \in CapturedSet : ScrollsIn(most, c.event)}
InputWithin(most) == {input \in InputSet : ScrollsIn(most, input.event)}

\* Less than a notch of what a wheel turned has not been reported.
SourceWheel == scene.from = "Windows" => source.wheel < Notch /\ -source.wheel < Notch

\* What comes of a wheel's turn, and that it is a wheel's turn.
LEMMA LinuxWheelRead ==
  ASSUME HereTypes, scene.from = "Linux", NEW raw \in Strokes,
         NEW i \in DOMAIN Linux!Read(source, at, raw).events,
         NEW e, e = Linux!Read(source, at, raw).events[i], e.type = "Scroll"
  PROVE  raw.turn \in WheelTurns /\ e.dy = raw.turn * PerLine
<1>1. StrokeOf(raw)
  BY StrokeKinds
<1>2. Linux!Read(source, at, raw).events = Linux!Convert(source, raw)
  BY DEF Linux!Read
<1>3. CASE raw.kind = "key"
  BY <1>2, <1>3, LinuxWords DEF Linux!Convert, KeyEvent
<1>4. CASE raw.kind = "button"
  BY <1>2, <1>4, LinuxWords DEF Linux!Convert, ButtonEvent
<1>5. CASE raw.kind = "move"
  BY <1>2, <1>5, LinuxWords DEF Linux!Convert, MotionEvent
<1>6. CASE raw.kind = "wheel"
  <2>1. Linux!Convert(source, raw) = <<ScrollEvent(raw.turn * PerLine)>>
    BY <1>6, LinuxWords DEF Linux!Convert
  <2> QED
    BY <1>1, <1>2, <1>6, <2>1 DEF ScrollEvent, StrokeOf
<1> QED
  BY <1>1, <1>3, <1>4, <1>5, <1>6 DEF StrokeOf

LEMMA MacWheelRead ==
  ASSUME HereTypes, scene.from = "Mac", NEW raw \in Strokes,
         NEW read, read = Mac!Read(source, at, raw, HandsAfter(raw).keys, HandsAfter(raw).locked),
         NEW i \in DOMAIN read.events, read.events[i].type = "Scroll"
  PROVE  raw.turn \in WheelTurns /\ read.events[i].dy = FromHalves(raw.turn)
<1> DEFINE held      == HandsAfter(raw).keys
           locked    == HandsAfter(raw).locked
           flags     == Mac!ModifiersOf(held)
           converted == Mac!Convert(source, raw, held, locked)
<1>1. StrokeOf(raw)
  BY StrokeKinds
<1>2. read.events = IF source.tapped THEN converted.events ELSE <<>>
  BY DEF Mac!Read
<1>3. source.tapped /\ i \in DOMAIN converted.events /\ read.events[i] = converted.events[i]
  BY <1>2
<1> HIDE DEF held, locked
<1>4. CASE raw.kind = "key"
  <2>1. \/ converted.events = <<>>
        \/ converted.events = Mac!CapsLockTap(source.caps, locked, flags)
        \/ converted.events = <<KeyEvent(raw.key, Mac!ToggleModifier(source.held, raw.key).action, flags)>>
        \/ converted.events = <<KeyEvent(raw.key, IF raw.action = "Release" THEN "Release" ELSE "Press", flags)>>
    BY <1>4, MacWords DEF Mac!Convert, Mac!ConvertCapsLock, Mac!ConvertFlagsChanged
  <2> HIDE DEF converted, flags
  <2>2. \A j \in DOMAIN converted.events : converted.events[j].type = "Key"
    BY <2>1, MacWords DEF Mac!CapsLockTap, KeyEvent
  <2> QED
    BY <1>3, <2>2
<1>5. CASE raw.kind = "button"
  BY <1>3, <1>5, MacWords DEF Mac!Convert, ButtonEvent
<1>6. CASE raw.kind = "move"
  BY <1>3, <1>6, MacWords DEF Mac!Convert, MotionEvent
<1>7. CASE raw.kind = "wheel"
  <2>1. converted.events = IF raw.turn = 0 THEN <<>> ELSE <<ScrollEvent(FromHalves(raw.turn))>>
    BY <1>7, MacWords DEF Mac!Convert
  <2> HIDE DEF converted
  <2> QED
    BY <1>1, <1>3, <1>7, <2>1 DEF ScrollEvent, StrokeOf
<1> QED
  BY <1>1, <1>4, <1>5, <1>6, <1>7 DEF StrokeOf

LEMMA WindowsWheelRead ==
  ASSUME HereTypes, scene.from = "Windows", NEW raw \in Strokes,
         NEW read, read = Windows!Read(source, at, raw)
  PROVE  /\ \A i \in DOMAIN read.events : read.events[i].type = "Scroll" =>
              /\ raw.turn \in WheelTurns
              /\ read.events[i].dy = Windows!WheelMillilines(source, raw.turn).whole
         /\ \/ read.source.wheel = source.wheel
            \/ /\ raw.turn \in WheelTurns
               /\ read.source.wheel = Windows!WheelMillilines(source, raw.turn).pending
<1>1. StrokeOf(raw) /\ source \in WindowsSources
  BY StrokeKinds DEF HereTypes, SourceTypes
<1>2. CASE ~ source.hooked
  BY <1>2 DEF Windows!Read
<1>3. CASE source.hooked /\ raw.kind = "key"
  <2>1. /\ \E key, action, modifiers : read.events = <<KeyEvent(key, action, modifiers)>>
        /\ \E modifiers : read.source = [source EXCEPT !.modifiers = modifiers]
    BY <1>3, WindowsWords DEF Windows!Read, Windows!KeyboardProc
  <2>2. read.source.wheel = source.wheel
    BY <1>1, <2>1 DEF WindowsSources
  <2>3. \A i \in DOMAIN read.events : read.events[i].type = "Key"
    BY <2>1 DEF KeyEvent
  <2> QED
    BY <2>2, <2>3
<1>4. CASE source.hooked /\ raw.kind = "move"
  <2>1. /\ read.events = <<>> \/ \E dx : read.events = <<MotionEvent(dx)>>
        /\ \E last : read.source = [source EXCEPT !.last = last]
    BY <1>4, WindowsWords DEF Windows!Read, Windows!MouseMove
  <2>2. read.source.wheel = source.wheel
    BY <1>1, <2>1 DEF WindowsSources
  <2>3. CASE read.events = <<>>
    BY <2>2, <2>3
  <2>4. CASE read.events # <<>>
    <3>1. PICK dx : read.events = <<MotionEvent(dx)>>
      BY <2>1, <2>4
    <3>2. \A i \in DOMAIN read.events : read.events[i].type = "Motion"
      BY <3>1 DEF MotionEvent
    <3> QED
      BY <2>2, <3>2
  <2> QED
    BY <2>3, <2>4
<1>5. CASE source.hooked /\ raw.kind = "wheel"
  <2> DEFINE taken == Windows!WheelMillilines(source, raw.turn)
  <2>1. /\ read.source = [source EXCEPT !.wheel = taken.pending]
        /\ read.events = IF taken.whole = 0 THEN <<>> ELSE <<ScrollEvent(taken.whole)>>
    BY <1>5, WindowsWords DEF Windows!Read, Windows!MouseWheel
  <2> HIDE DEF taken
  <2>2. read.source.wheel = taken.pending /\ raw.turn \in WheelTurns
    BY <1>1, <1>5, <2>1 DEF WindowsSources, StrokeOf
  <2>3. \A i \in DOMAIN read.events : read.events[i].dy = taken.whole
    BY <2>1 DEF ScrollEvent
  <2> QED
    BY <2>2, <2>3 DEF taken
<1>6. CASE source.hooked /\ raw.kind = "button"
  BY <1>6, WindowsWords DEF Windows!Read, ButtonEvent
<1> QED
  BY <1>1, <1>2, <1>3, <1>4, <1>5, <1>6 DEF StrokeOf

\* Of two whole numbers, one no larger than the other's multiple.
LEMMA WithinMultiple ==
  ASSUME NEW w \in Int, NEW most \in Nat, NEW d \in Nat \ {0},
         w * d <= most * d, -(most * d) <= w * d
  PROVE  w \in -most..most
<1>1. CASE w > most
  <2>1. w - most \in Nat \ {0} /\ (w - most) * d > 0
    BY <1>1
  <2>2. (w - most) * d = w * d - most * d
    OBVIOUS
  <2> QED
    BY <2>1, <2>2
<1>2. CASE w < -most
  <2>1. -most - w \in Nat \ {0} /\ (-most - w) * d > 0
    BY <1>2
  <2>2. (-most - w) * d = -(most * d) - w * d
    OBVIOUS
  <2> QED
    BY <2>1, <2>2
<1> QED
  BY <1>1, <1>2

\* When the sum is not clamped, nothing is lost and less than a unit is pending.
LEMMA TakeFits ==
  ASSUME NEW pending \in Int, NEW value \in Int, NEW numerator \in Int,
         NEW denominator \in Nat \ {0},
         pending + value * numerator \in (-Limit - 1)..Limit,
         NEW taken, taken = Take(pending, value, numerator, denominator)
  PROVE  /\ taken.whole \in Int /\ taken.pending \in Int
         /\ taken.whole * denominator + taken.pending = pending + value * numerator
         /\ taken.pending < denominator /\ -taken.pending < denominator
         /\ pending + value * numerator >= 0 => taken.pending >= 0
         /\ pending + value * numerator <= 0 => taken.pending <= 0
<1> DEFINE sum == pending + value * numerator
<1>1. taken \in [whole : Int, pending : Int]
  <2>1. denominator \in Int
    OBVIOUS
  <2> QED
    BY <2>1, TakeTyped
<1>2. sum \in Int
  OBVIOUS
<1>3. /\ taken.whole * denominator + taken.pending = sum
      /\ sum >= 0 => taken.pending \in 0..(denominator - 1)
      /\ sum <= 0 => -taken.pending \in 0..(denominator - 1)
  BY TakeConserves
<1> HIDE DEF sum
<1>4. taken.whole \in Int /\ taken.pending \in Int
  BY <1>1
<1>5. taken.pending < denominator /\ -taken.pending < denominator
  BY <1>2, <1>3, <1>4
<1>6. /\ sum >= 0 => taken.pending >= 0
      /\ sum <= 0 => taken.pending <= 0
  BY <1>2, <1>3, <1>4
<1> QED
  BY <1>3, <1>4, <1>5, <1>6 DEF sum

\* The whole units of a sum that is within `most' of them.
LEMMA WholeWithin ==
  ASSUME NEW most \in Nat, NEW d \in Nat \ {0}, NEW whole \in Int, NEW pending \in Int,
         NEW sum \in Int, whole * d + pending = sum,
         sum <= most * d, -(most * d) <= sum,
         pending < d, -pending < d,
         sum >= 0 => pending >= 0, sum <= 0 => pending <= 0
  PROVE  whole \in -most..most
<1> DEFINE top  == most * d
           part == whole * d
<1>1. top \in Nat /\ part \in Int /\ part + pending = sum
  OBVIOUS
<1>2. sum <= top /\ -top <= sum
  OBVIOUS
<1>3. whole < 0 => part <= -d
  <2>1. whole < 0 => (-1 - whole) \in Nat
    OBVIOUS
  <2>2. whole < 0 => (-1 - whole) * d >= 0
    BY <2>1
  <2>3. (-1 - whole) * d = -d - whole * d
    OBVIOUS
  <2> QED
    BY <2>2, <2>3
<1>4. whole > 0 => part >= d
  <2>1. whole > 0 => (whole - 1) \in Nat
    OBVIOUS
  <2>2. whole > 0 => (whole - 1) * d >= 0
    BY <2>1
  <2>3. (whole - 1) * d = whole * d - d
    OBVIOUS
  <2> QED
    BY <2>2, <2>3
<1>5. whole = 0 => part = 0
  OBVIOUS
<1> HIDE DEF top, part
<1>6. part <= top /\ -top <= part
  BY <1>1, <1>2, <1>3, <1>4, <1>5
<1> QED
  BY <1>6, WithinMultiple DEF top, part

\* What a Windows source reports of a turn, and what it keeps.
LEMMA MillilinesFit ==
  ASSUME NEW most, WheelFits(most), NEW s \in WindowsSources, s.wheel < Notch, -s.wheel < Notch,
         NEW turn \in WheelTurns, NEW taken, taken = Windows!WheelMillilines(s, turn)
  PROVE  /\ taken.whole \in -most..most
         /\ taken.pending < Notch /\ -taken.pending < Notch
<1>1. PICK wheel, lines, scale : wheel = s.wheel /\ lines = s.lines /\ scale = PerLine * lines
  OBVIOUS
<1>2. lines \in LinesPerNotch /\ wheel \in Int /\ wheel < Notch /\ -wheel < Notch
  BY <1>1 DEF WindowsSources
<1>3. lines \in Nat \ {0} /\ turn \in Int /\ most \in Nat /\ Notch \in Nat \ {0}
  <2>1. lines \in Nat \ {0}
    BY <1>2, LinesPerNotchAssumption
  <2>2. turn \in Int
    BY WheelTurnsAssumption
  <2> QED
    BY <2>1, <2>2, NotchAssumption DEF WheelFits
<1>4. scale \in Nat /\ most * Notch \in Nat /\ lines * PerLine = scale
  BY <1>1, <1>3, PerLineAssumption
<1>5. scale + most * Notch <= Limit
  BY <1>1, <1>2 DEF WheelFits
<1>6. turn * scale \in (Notch - most * Notch)..(most * Notch - Notch)
  BY <1>1, <1>2 DEF WheelFits
<1>7. taken = Take(wheel, turn, ToI32(lines * PerLine), Notch)
  BY <1>1, WindowsWords DEF Windows!WheelMillilines
<1>8. ToI32(scale) = scale
  BY <1>4, <1>5, LimitAssumption DEF ToI32
<1>9. taken = Take(wheel, turn, scale, Notch)
  BY <1>4, <1>7, <1>8
<1>10. turn * scale \in Int
  BY <1>3, <1>4
<1>11. /\ wheel + turn * scale \in Int
       /\ wheel + turn * scale <= most * Notch /\ -(most * Notch) <= wheel + turn * scale
  BY <1>2, <1>3, <1>4, <1>6, <1>10
<1>12. wheel + turn * scale \in (-Limit - 1)..Limit
  BY <1>4, <1>5, <1>11, LimitAssumption
<1>13. /\ taken.whole \in Int /\ taken.pending \in Int
       /\ taken.whole * Notch + taken.pending = wheel + turn * scale
       /\ taken.pending < Notch /\ -taken.pending < Notch
       /\ wheel + turn * scale >= 0 => taken.pending >= 0
       /\ wheel + turn * scale <= 0 => taken.pending <= 0
  <2>1. wheel \in Int /\ turn \in Int /\ scale \in Int /\ Notch \in Nat \ {0}
    BY <1>2, <1>3, <1>4
  <2>2. \A v, n \in Int, d \in Nat \ {0} :
          wheel + v * n \in (-Limit - 1)..Limit => \A t : t = Take(wheel, v, n, d) =>
            /\ t.whole \in Int /\ t.pending \in Int
            /\ t.whole * d + t.pending = wheel + v * n
            /\ t.pending < d /\ -t.pending < d
            /\ wheel + v * n >= 0 => t.pending >= 0
            /\ wheel + v * n <= 0 => t.pending <= 0
    BY <2>1, TakeFits
  <2> QED
    BY <1>9, <1>12, <2>1, <2>2, Zenon
<1>14. taken.whole \in -most..most
  <2>1. PICK whole, pending, sum :
          whole = taken.whole /\ pending = taken.pending /\ sum = wheel + turn * scale
    OBVIOUS
  <2>2. /\ whole \in Int /\ pending \in Int /\ sum \in Int
        /\ whole * Notch + pending = sum
        /\ sum <= most * Notch /\ -(most * Notch) <= sum
        /\ pending < Notch /\ -pending < Notch
        /\ sum >= 0 => pending >= 0
        /\ sum <= 0 => pending <= 0
    BY <1>11, <1>13, <2>1
  <2>3. whole \in -most..most
    BY <1>3, <2>2, WholeWithin
  <2> QED
    BY <2>1, <2>3
<1> QED
  BY <1>13, <1>14

\* No event is captured that scrolls by more.
LEMMA WheelRead ==
  ASSUME HereTypes, SourceWheel, NEW most, WheelFits(most), NEW raw \in Strokes,
         NEW i \in DOMAIN ReadOf(raw).events
  PROVE  ScrollsIn(most, ReadOf(raw).events[i])
<1> SUFFICES ASSUME ReadOf(raw).events[i].type = "Scroll"
             PROVE  ReadOf(raw).events[i].dy \in -most..most
  BY DEF ScrollsIn
<1>1. CASE scene.from = "Linux"
  <2>1. ReadOf(raw) = Linux!Read(source, at, raw)
    BY <1>1 DEF ReadOf
  <2>2. raw.turn \in WheelTurns /\ ReadOf(raw).events[i].dy = raw.turn * PerLine
    BY <1>1, <2>1, LinuxWheelRead
  <2> QED
    BY <2>2 DEF WheelFits
<1>2. CASE scene.from = "Windows"
  <2>1. ReadOf(raw) = Windows!Read(source, at, raw)
    BY <1>2 DEF ReadOf
  <2>2. /\ raw.turn \in WheelTurns
        /\ ReadOf(raw).events[i].dy = Windows!WheelMillilines(source, raw.turn).whole
    BY <1>2, <2>1, WindowsWheelRead
  <2>3. source \in WindowsSources /\ source.wheel < Notch /\ -source.wheel < Notch
    BY <1>2 DEF HereTypes, SourceTypes, SourceWheel
  <2> QED
    BY <2>2, <2>3, MillilinesFit
<1>3. CASE scene.from = "Mac"
  <2>1. ReadOf(raw) = Mac!Read(source, at, raw, HandsAfter(raw).keys, HandsAfter(raw).locked)
    BY <1>3 DEF ReadOf
  <2>2. raw.turn \in WheelTurns /\ ReadOf(raw).events[i].dy = FromHalves(raw.turn)
    BY <1>3, <2>1, MacWheelRead
  <2> QED
    BY <2>2 DEF WheelFits
<1> QED
  BY <1>1, <1>2, <1>3, SceneKeys

\* What one unit of the peer's desktop weighs, and what a milli-line does.
UnitOf(k) == IF scene.to = "Windows" THEN PerLine * k.lines ELSE PerLine
Weight == IF scene.to = "Windows" THEN Notch ELSE 1

LEMMA UnitFits ==
  ASSUME NEW most, WheelFits(most), scene \in Scenes, ThereTypes
  PROVE  /\ sink.wheel \in Int /\ UnitOf(sink) \in Nat \ {0} /\ Weight \in Nat \ {0}
         /\ most \in Nat /\ UnitOf(sink) + most * Weight <= Limit
<1>1. most \in Nat /\ Notch \in Nat \ {0}
  BY NotchAssumption DEF WheelFits
<1>2. CASE scene.to = "Windows"
  <2>1. sink.lines \in LinesPerNotch /\ sink.wheel \in Int
    BY <1>2 DEF ThereTypes, SinkTypes, WindowsSink
  <2>2. PICK lines : lines = sink.lines
    OBVIOUS
  <2>3. lines \in Nat \ {0}
    BY <2>1, <2>2, LinesPerNotchAssumption
  <2>4. PerLine * lines \in Nat \ {0}
    BY <2>3, PerLineAssumption
  <2>5. PerLine * lines + most * Notch <= Limit
    BY <2>1, <2>2 DEF WheelFits
  <2> QED
    BY <1>1, <1>2, <2>1, <2>2, <2>4, <2>5 DEF UnitOf, Weight
<1>3. CASE scene.to # "Windows"
  <2>1. sink.wheel \in Int
    BY <1>3, ScenesAssumption DEF ThereTypes, SinkTypes, MacSink
  <2>2. PerLine * 1 + most * Notch <= Limit
    BY DEF WheelFits
  <2>3. most * Notch >= most
    <3>1. most * (Notch - 1) >= 0 /\ most * (Notch - 1) = most * Notch - most
      BY <1>1
    <3> QED
      BY <1>1, <3>1
  <2>4. PerLine + most * 1 <= Limit
    BY <1>1, <2>2, <2>3, PerLineAssumption, LimitAssumption
  <2> QED
    BY <1>1, <1>3, <2>1, <2>4, PerLineAssumption DEF UnitOf, Weight
<1> QED
  BY <1>2, <1>3

\* What an injected event does to the scrolling.
LEMMA LinuxScrolled ==
  ASSUME NEW k \in [wheel : Int], desktop \in DesktopSet, NEW e \in Events,
         NEW done, done = Linux!Inject(k, desktop, e)
  PROVE  IF e.type = "Scroll"
         THEN LET taken == TakeLines(k.wheel, e.dy) IN
              /\ done.sink.wheel = taken.pending
              /\ done.desktop.scrolled = desktop.scrolled + taken.whole
         ELSE done.sink.wheel = k.wheel
<1>1. EventOf(e)
  BY EventKinds
<1>2. CASE e.type = "Scroll"
  <2> DEFINE taken == TakeLines(k.wheel, e.dy)
  <2>1. done.sink = [k EXCEPT !.wheel = taken.pending] /\ done.desktop = ScrollBy(desktop, taken.whole)
    BY <1>2, LinuxWords DEF Linux!Inject
  <2>2. taken \in [whole : Int, pending : Int]
    BY <1>1, <1>2, TakeLinesTyped DEF EventOf
  <2> HIDE DEF taken
  <2>3. done.sink.wheel = taken.pending /\ done.desktop.scrolled = desktop.scrolled + taken.whole
    BY <2>1, <2>2, ScrollByTyped
  <2> QED
    BY <1>2, <2>3 DEF taken
<1>3. CASE e.type # "Scroll"
  BY <1>1, <1>3 DEF Linux!Inject, EventOf
<1> QED
  BY <1>2, <1>3

LEMMA WindowsScrolled ==
  ASSUME NEW k \in WindowsSink, desktop \in DesktopSet, NEW e \in Events,
         NEW done, done = Windows!Inject(k, desktop, e)
  PROVE  /\ done.sink.lines = k.lines
         /\ IF e.type = "Scroll"
            THEN LET taken == Take(k.wheel, e.dy, Notch, ToI32(PerLine * k.lines)) IN
                 /\ done.sink.wheel = taken.pending
                 /\ done.desktop.scrolled = desktop.scrolled + taken.whole
            ELSE done.sink.wheel = k.wheel
<1>1. EventOf(e)
  BY EventKinds
<1>2. CASE e.type = "Scroll"
  <2> DEFINE taken == Take(k.wheel, e.dy, Notch, ToI32(PerLine * k.lines))
  <2>1. done.sink = [k EXCEPT !.wheel = taken.pending] /\ done.desktop = ScrollBy(desktop, taken.whole)
    BY <1>2, WindowsWords DEF Windows!Inject, Windows!InjectScroll
  <2> HIDE DEF taken
  <2>2. done.sink.wheel = taken.pending /\ done.sink.lines = k.lines
        /\ done.desktop.scrolled = desktop.scrolled + taken.whole
    BY <2>1 DEF WindowsSink, ScrollBy, DesktopSet
  <2> QED
    BY <1>2, <2>2 DEF taken
<1>3. CASE e.type = "Key"
  <2>1. \E held : done.sink = [k EXCEPT !.held = held]
    <3>1. done = Windows!InjectKey(k, desktop, e)
      BY <1>3 DEF Windows!Inject
    <3>2. CASE IsModifierKey(e.key)
      <4> DEFINE held == IF e.action = "Press" THEN k.held \cup {e.key.name}
                         ELSE k.held \ {e.key.name}
      <4>1. done.sink = [k EXCEPT !.held = held]
        BY <3>1, <3>2, WindowsWords DEF Windows!InjectKey
      <4> HIDE DEF held
      <4> QED
        BY <4>1
    <3>3. CASE ~ IsModifierKey(e.key)
      <4> DEFINE fixed == Windows!ApplyModifiers(k, desktop, e.modifiers)
                 key   == Windows!HidFromVk(Windows!VirtualKey(e.key))
      <4>1. done = [fixed EXCEPT !.desktop = SendKey(@, key, e.action)]
        BY <3>1, <3>3, WindowsWords DEF Windows!InjectKey
      <4>2. fixed.sink = [k EXCEPT !.held = e.modifiers] /\ done.sink = fixed.sink
        BY <4>1 DEF Windows!ApplyModifiers
      <4> QED
        BY <4>2
    <3> QED
      BY <3>2, <3>3
  <2> QED
    BY <1>3, <2>1 DEF WindowsSink
<1>4. CASE e.type \in {"Motion", "Pointer", "Button"}
  BY <1>4 DEF Windows!Inject
<1> QED
  BY <1>1, <1>2, <1>3, <1>4 DEF EventOf

LEMMA MacScrolled ==
  ASSUME NEW k \in MacSink, desktop \in DesktopSet, NEW e \in Events, NEW soon \in BOOLEAN,
         NEW done, done = Mac!Inject(k, desktop, e, soon)
  PROVE  IF e.type = "Scroll"
         THEN LET taken == TakeLines(k.wheel, e.dy) IN
              /\ done.sink.wheel = taken.pending
              /\ done.desktop.scrolled = desktop.scrolled + taken.whole
         ELSE done.sink.wheel = k.wheel
<1>1. EventOf(e)
  BY EventKinds
<1>2. CASE e.type = "Scroll"
  <2> DEFINE taken == TakeLines(k.wheel, e.dy)
  <2>1. done.sink = [k EXCEPT !.wheel = taken.pending] /\ done.desktop = ScrollBy(desktop, taken.whole)
    BY <1>2, MacWords DEF Mac!Inject, Mac!InjectScroll
  <2> HIDE DEF taken
  <2>2. done.sink.wheel = taken.pending /\ done.desktop.scrolled = desktop.scrolled + taken.whole
    BY <2>1 DEF MacSink, ScrollBy, DesktopSet
  <2> QED
    BY <1>2, <2>2 DEF taken
<1>3. CASE e.type = "Key"
  <2>1. done.sink = k \/ done.sink = [k EXCEPT !.modifiers = e.modifiers]
    BY <1>3, MacWords DEF Mac!Inject, Mac!InjectKey
  <2> QED
    BY <1>3, <2>1 DEF MacSink
<1>4. CASE e.type = "Button"
  <2>1. \E buttons, click : done.sink = [k EXCEPT !.buttons = buttons, !.click = click]
    <3>1. CASE e.action = "Press"
      BY <1>4, <3>1 DEF Mac!Inject, Mac!InjectButton
    <3>2. CASE e.action # "Press"
      <4>1. done.sink = [k EXCEPT !.buttons = k.buttons \ {e.button}]
        BY <1>4, <3>2 DEF Mac!Inject, Mac!InjectButton
      <4>2. done.sink = [k EXCEPT !.buttons = k.buttons \ {e.button}, !.click = k.click]
        BY <4>1 DEF MacSink
      <4> QED
        BY <4>2
    <3> QED
      BY <3>1, <3>2
  <2> QED
    BY <1>4, <2>1 DEF MacSink
<1>5. CASE e.type \in {"Motion", "Pointer"}
  BY <1>5 DEF Mac!Inject
<1> QED
  BY <1>1, <1>2, <1>3, <1>4, <1>5 DEF EventOf

\* What any of the three does to it.
LEMMA ScrollInjected ==
  ASSUME NEW most, WheelFits(most), scene \in Scenes, ThereTypes,
         NEW e \in Events, NEW soon \in BOOLEAN,
         NEW k, k = InjectOf(e, soon).sink, NEW d, d = InjectOf(e, soon).desktop
  PROVE  /\ UnitOf(k) = UnitOf(sink)
         /\ IF e.type = "Scroll"
            THEN LET taken == Take(sink.wheel, e.dy, Weight, UnitOf(sink)) IN
                 /\ k.wheel = taken.pending
                 /\ d.scrolled = desktop.scrolled + taken.whole
            ELSE k.wheel = sink.wheel /\ d.scrolled = desktop.scrolled
<1>1. scene.to \in {"Linux", "Windows", "Mac"} /\ desktop \in DesktopSet
  BY ScenesAssumption DEF ThereTypes
<1>2. e.type # "Scroll" => d.scrolled = desktop.scrolled
  BY InjectTyped DEF Untouched
<1>3. CASE scene.to = "Linux"
  <2>1. InjectOf(e, soon) = Linux!Inject(sink, desktop, e) /\ sink \in [wheel : Int]
    BY <1>3 DEF InjectOf, ThereTypes, SinkTypes
  <2> QED
    BY <1>1, <1>2, <1>3, <2>1, LinuxScrolled DEF UnitOf, Weight, TakeLines
<1>4. CASE scene.to = "Windows"
  <2>1. InjectOf(e, soon) = Windows!Inject(sink, desktop, e) /\ sink \in WindowsSink
    BY <1>4 DEF InjectOf, ThereTypes, SinkTypes
  <2>2. UnitOf(sink) \in Nat /\ UnitOf(sink) <= Limit /\ UnitOf(sink) = PerLine * sink.lines
    <3>1. UnitOf(sink) \in Nat \ {0} /\ Weight \in Nat \ {0} /\ most \in Nat
          /\ UnitOf(sink) + most * Weight <= Limit
      BY UnitFits
    <3>2. most * Weight \in Nat
      BY <3>1
    <3>3. UnitOf(sink) \in Nat /\ UnitOf(sink) <= Limit
      BY <3>1, <3>2, LimitAssumption
    <3> QED
      BY <1>4, <3>3 DEF UnitOf
  <2>3. ToI32(UnitOf(sink)) = UnitOf(sink)
    BY <2>2, LimitAssumption DEF ToI32
  <2>4. ToI32(PerLine * sink.lines) = UnitOf(sink) /\ Weight = Notch
    BY <1>4, <2>2, <2>3 DEF Weight
  <2>5. k.lines = sink.lines
    BY <1>1, <2>1, WindowsScrolled
  <2>6. UnitOf(k) = UnitOf(sink)
    BY <2>5 DEF UnitOf
  <2>7. IF e.type = "Scroll"
        THEN LET taken == Take(sink.wheel, e.dy, Notch, ToI32(PerLine * sink.lines)) IN
             k.wheel = taken.pending /\ d.scrolled = desktop.scrolled + taken.whole
        ELSE k.wheel = sink.wheel
    BY <1>1, <2>1, WindowsScrolled
  <2> QED
    BY <1>2, <2>4, <2>6, <2>7, Zenon
<1>5. CASE scene.to = "Mac"
  <2>1. InjectOf(e, soon) = Mac!Inject(sink, desktop, e, soon) /\ sink \in MacSink
    BY <1>5 DEF InjectOf, ThereTypes, SinkTypes
  <2> QED
    BY <1>1, <1>2, <1>5, <2>1, MacScrolled DEF UnitOf, Weight, TakeLines
<1> QED
  BY <1>1, <1>3, <1>4, <1>5

\* What was asked for is what the desktop was scrolled and what is pending.
Exact(unit, weight, wheel, scrolled, asked) ==
  scrolled * unit + wheel = asked * weight /\ wheel < unit /\ -wheel < unit

\* A whole number of units goes to the desktop and the rest stays pending.
LEMMA StaysExact ==
  ASSUME NEW most \in Nat, NEW unit \in Nat \ {0}, NEW weight \in Nat \ {0},
         unit + most * weight <= Limit,
         NEW wheel \in Int, NEW scrolled \in Int, NEW asked \in Int, NEW dy \in -most..most,
         Exact(unit, weight, wheel, scrolled, asked),
         NEW taken, taken = Take(wheel, dy, weight, unit)
  PROVE  Exact(unit, weight, taken.pending, scrolled + taken.whole, asked + dy)
<1>0. scrolled * unit + wheel = asked * weight /\ wheel < unit /\ -wheel < unit
  BY DEF Exact
<1>1. dy * weight \in Int /\ dy * weight <= most * weight /\ -(most * weight) <= dy * weight
  <2>1. (most - dy) * weight >= 0 /\ (most + dy) * weight >= 0
    OBVIOUS
  <2>2. /\ (most - dy) * weight = most * weight - dy * weight
        /\ (most + dy) * weight = most * weight + dy * weight
    OBVIOUS
  <2>3. dy * weight \in Int /\ most * weight \in Int
    OBVIOUS
  <2> QED
    BY <2>1, <2>2, <2>3
<1>2. most * weight \in Nat
  OBVIOUS
<1>3. wheel + dy * weight \in (-Limit - 1)..Limit
  BY <1>0, <1>1, <1>2, LimitAssumption
<1>4. dy \in Int /\ weight \in Int
  OBVIOUS
<1>5. /\ taken.whole \in Int /\ taken.pending \in Int
      /\ taken.whole * unit + taken.pending = wheel + dy * weight
      /\ taken.pending < unit /\ -taken.pending < unit
  BY <1>3, <1>4, TakeFits
<1>6. /\ (scrolled + taken.whole) * unit = scrolled * unit + taken.whole * unit
      /\ (asked + dy) * weight = asked * weight + dy * weight
      /\ scrolled * unit \in Int /\ taken.whole * unit \in Int /\ asked * weight \in Int
  BY <1>4, <1>5
<1>7. PICK kept, moved, was, more : /\ kept = scrolled * unit /\ moved = taken.whole * unit
                                   /\ was = asked * weight /\ more = dy * weight
  OBVIOUS
<1>8. /\ kept \in Int /\ moved \in Int /\ was \in Int /\ more \in Int /\ taken.pending \in Int
      /\ kept + wheel = was /\ moved + taken.pending = wheel + more
  BY <1>0, <1>1, <1>5, <1>6, <1>7
<1>9. (kept + moved) + taken.pending = was + more
  BY <1>8
<1> QED
  BY <1>5, <1>6, <1>7, <1>9 DEF Exact

WheelInv(most) ==
  /\ InputTypes /\ ThereTypes
  /\ SourceWheel /\ Flows(CapturedWithin(most), InputWithin(most))
  /\ WheelExact

LEMMA ExactMeans ==
  WheelExact <=> Exact(UnitOf(sink), Weight, sink.wheel, desktop.scrolled, injected.asked)
BY DEF WheelExact, UnitOf, Weight, Exact

LEMMA WheelInit ==
  ASSUME NEW most, WheelFits(most), Init
  PROVE  WheelInv(most)
<1>1. InputTypes /\ ThereTypes /\ scene \in Scenes
  BY InputTypesInit, ThereInit DEF Init
<1>2. SourceWheel
  <2> SUFFICES ASSUME scene.from = "Windows" PROVE source.wheel = 0
    BY NotchAssumption DEF SourceWheel
  <2>1. PICK s \in Windows!NewSource : source = [s EXCEPT !.last = at]
    BY DEF Init
  <2> QED
    BY <2>1 DEF Windows!NewSource
<1>3. Flows(CapturedWithin(most), InputWithin(most))
  BY FlowInit
<1>4. sink.wheel = 0 /\ desktop.scrolled = 0 /\ injected.asked = 0
  <2>1. sink.wheel = 0
    <3>1. scene.to \in {"Linux", "Windows", "Mac"}
      BY <1>1, ScenesAssumption
    <3>2. CASE scene.to = "Linux"
      BY <3>2 DEF Init, Linux!NewSink
    <3>3. CASE scene.to = "Windows"
      BY <3>3 DEF Init, Windows!NewSink
    <3>4. CASE scene.to = "Mac"
      BY <3>4 DEF Init, Mac!NewSink
    <3> QED
      BY <3>1, <3>2, <3>3, <3>4
  <2> QED
    BY <2>1 DEF Init, NewDesktop
<1>5. UnitOf(sink) \in Nat \ {0} /\ Weight \in Nat \ {0}
  BY <1>1, UnitFits
<1>6. 0 * UnitOf(sink) + 0 = 0 * Weight /\ 0 < UnitOf(sink) /\ -0 < UnitOf(sink)
  BY <1>5
<1>7. WheelExact
  BY <1>4, <1>6, ExactMeans DEF Exact
<1> QED
  BY <1>1, <1>2, <1>3, <1>7 DEF WheelInv

\* A datagram keeps it.
LEMMA WheelReceived ==
  ASSUME NEW most, WheelFits(most), WheelInv(most), NEW i \in DOMAIN wire, NEW soon \in BOOLEAN,
         RecvDatagram(i, soon)
  PROVE  WheelExact'
<1> DEFINE e == wire[i].event
           k == InjectOf(e, soon).sink
           d == InjectOf(e, soon).desktop
<1>1. ThereTypes /\ scene \in Scenes /\ scene' = scene
  BY DEF WheelInv, InputTypes, HereTypes, RecvDatagram
<1>2. wire[i] \in InputWithin(most) /\ e \in Events
  BY ReceivedInput DEF WheelInv, Flows
<1>3. e.type = "Scroll" => e.dy \in -most..most
  BY <1>2 DEF InputWithin, ScrollsIn
<1>4. Exact(UnitOf(sink), Weight, sink.wheel, desktop.scrolled, injected.asked)
  BY ExactMeans DEF WheelInv
<1>5. CASE UNCHANGED <<sink, desktop, injected>>
  BY <1>1, <1>4, <1>5 DEF WheelExact, UnitOf, Weight, Exact
<1>6. CASE sink' = k /\ desktop' = d /\ injected' = InjectedAfter(wire[i])
  <2>1. injected'.asked = injected.asked + IF e.type = "Scroll" THEN e.dy ELSE 0
    BY <1>1, <1>6 DEF InjectedAfter, ThereTypes
  <2>2. UnitOf(k) = UnitOf(sink)
    BY <1>1, <1>2, ScrollInjected
  <2>3. /\ UnitOf(sink) \in Nat \ {0} /\ Weight \in Nat \ {0} /\ sink.wheel \in Int
        /\ most \in Nat /\ UnitOf(sink) + most * Weight <= Limit
        /\ desktop.scrolled \in Int /\ injected.asked \in Int
    BY <1>1, UnitFits DEF ThereTypes, DesktopSet
  <2>4. Exact(UnitOf(sink), Weight, k.wheel, d.scrolled, injected'.asked)
    <3>1. CASE e.type = "Scroll"
      <4> DEFINE taken == Take(sink.wheel, e.dy, Weight, UnitOf(sink))
      <4>1. k.wheel = taken.pending /\ d.scrolled = desktop.scrolled + taken.whole
        BY <1>1, <1>2, <3>1, ScrollInjected
      <4>2. e.dy \in -most..most /\ injected'.asked = injected.asked + e.dy
        BY <1>3, <2>1, <3>1
      <4> HIDE DEF e, k, d
      <4>3. Exact(UnitOf(sink), Weight, taken.pending, desktop.scrolled + taken.whole,
                  injected.asked + e.dy)
        BY <1>4, <2>3, <4>2, StaysExact
      <4> HIDE DEF taken
      <4> QED
        BY <4>1, <4>2, <4>3
    <3>2. CASE e.type # "Scroll"
      <4>1. k.wheel = sink.wheel /\ d.scrolled = desktop.scrolled
        BY <1>1, <1>2, <3>2, ScrollInjected
      <4>2. injected'.asked = injected.asked
        BY <2>1, <2>3, <3>2
      <4> QED
        BY <1>4, <4>1, <4>2
    <3> QED
      BY <3>1, <3>2
  <2> HIDE DEF e, k, d
  <2>5. Exact(UnitOf(sink'), Weight, sink'.wheel, desktop'.scrolled, injected'.asked)
    BY <1>6, <2>2, <2>4
  <2> QED
    BY <1>1, <2>5 DEF WheelExact, UnitOf, Weight, Exact
<1>7. \/ UNCHANGED <<sink, desktop, injected>>
      \/ sink' = k /\ desktop' = d /\ injected' = InjectedAfter(wire[i])
  BY DEF RecvDatagram
<1> QED
  BY <1>5, <1>6, <1>7

LEMMA SourceWheelStep ==
  ASSUME NEW most, WheelFits(most), HereTypes, SourceWheel, [Next]_vars
  PROVE  SourceWheel'
<1>1. scene' = scene
  BY SceneStays
<1> SUFFICES ASSUME scene.from = "Windows"
             PROVE  source'.wheel < Notch /\ -source'.wheel < Notch
  BY <1>1 DEF SourceWheel
<1>2. source \in WindowsSources /\ source.wheel < Notch /\ -source.wheel < Notch
  BY DEF HereTypes, SourceTypes, SourceWheel
<1>3. ASSUME NEW raw \in Strokes, Touch(raw)
      PROVE  source'.wheel < Notch /\ -source'.wheel < Notch
  <2>1. source' = ReadOf(raw).source /\ ReadOf(raw) = Windows!Read(source, at, raw)
    BY <1>3 DEF Touch, ReadOf
  <2>2. \/ source'.wheel = source.wheel
        \/ /\ raw.turn \in WheelTurns
           /\ source'.wheel = Windows!WheelMillilines(source, raw.turn).pending
    BY <2>1, WindowsWheelRead
  <2> QED
    BY <1>2, <2>2, MillilinesFit
<1>4. CASE SourceMishap
  <2>1. source' = Windows!HookRemoved(source)
    BY <1>4 DEF SourceMishap
  <2> QED
    BY <1>2, <2>1 DEF Windows!HookRemoved, WindowsSources
<1>5. CASE SourceRecovers
  <2>1. source' \in Windows!Rearm(source)
    BY <1>5 DEF SourceRecovers
  <2> QED
    BY <1>2, <2>1, RearmKeeps
<1>6. CASE ApplySuppression
  <2>1. source' = source \/ source' = Windows!SetSuppressed(source, away)
    BY <1>6 DEF ApplySuppression
  <2> QED
    BY <1>2, <2>1 DEF Windows!SetSuppressed, WindowsSources
<1>7. CASE UNCHANGED source
  BY <1>2, <1>7
<1>8. CASE ReaderTurns
  BY <1>8 DEF ReaderTurns
<1>9. CASE PollAndRoute \/ PollIdle \/ SendBatch \/ RecvControl \/ SessionEnds \/ SetModifierSwap \/ Tick
  BY <1>7, <1>9 DEF PollAndRoute, PollIdle, SendBatch, RecvControl, SessionEnds,
                    SetModifierSwap, Tick, here
<1>10. ASSUME NEW i \in DOMAIN wire, LoseDatagram(i) \/ \E soon \in BOOLEAN : RecvDatagram(i, soon)
       PROVE  UNCHANGED source
  BY <1>10 DEF LoseDatagram, RecvDatagram, here
<1>11. CASE UNCHANGED vars
  BY <1>7, <1>11 DEF vars, here
<1> QED
  BY <1>3, <1>4, <1>5, <1>6, <1>7, <1>8, <1>9, <1>10, <1>11 DEF Next

LEMMA WheelFlows ==
  ASSUME NEW most, WheelFits(most), WheelInv(most), [Next]_vars
  PROVE  Flows(CapturedWithin(most), InputWithin(most))'
<1>1. HereTypes /\ SourceWheel /\ Flows(CapturedWithin(most), InputWithin(most))
  BY DEF WheelInv, InputTypes
<1>2. CapturedWithin(most) \subseteq CapturedSet /\ \A input \in InputWithin(most) : input.type = "Input"
  BY DEF CapturedWithin, InputWithin, InputSet
<1>3. ASSUME NEW raw \in Strokes, NEW i \in DOMAIN ReadOf(raw).events
      PROVE  Fresh(raw, ReadOf(raw).events[i]) \in CapturedWithin(most)
  <2>1. Fresh(raw, ReadOf(raw).events[i]) \in CapturedSet
    BY <1>1, FreshTyped
  <2>2. Fresh(raw, ReadOf(raw).events[i]).event = ReadOf(raw).events[i]
    BY DEF Fresh
  <2>3. ScrollsIn(most, ReadOf(raw).events[i])
    BY <1>1, WheelRead
  <2> QED
    BY <2>1, <2>2, <2>3 DEF CapturedWithin
<1>4. ASSUME NEW c \in CapturedSet, NEW e \in Events, ScrollsIn(most, e)
      PROVE  Input(e, c) \in InputWithin(most)
  <2>1. Input(e, c) \in InputSet /\ Input(e, c).event = ApplySwap(swap, e)
    BY <1>1, InputTyped DEF Input
  <2>2. ApplySwap(swap, e).type = e.type /\ (e.type # "Key" => ApplySwap(swap, e) = e)
    BY <1>1, SwapTyped DEF HereTypes
  <2>3. ScrollsIn(most, Input(e, c).event)
    BY <1>4, <2>1, <2>2 DEF ScrollsIn
  <2> QED
    BY <2>1, <2>3 DEF InputWithin
<1>5. \A c \in CapturedWithin(most) : Input(c.event, c) \in InputWithin(most)
  BY <1>4, CapturedIsEvent DEF CapturedWithin
<1>6. \A c \in CapturedWithin(most), x \in Int : Input(PointerEvent(x), c) \in InputWithin(most)
  <2> SUFFICES ASSUME NEW c \in CapturedWithin(most), NEW x \in Int
               PROVE  Input(PointerEvent(x), c) \in InputWithin(most)
    OBVIOUS
  <2>1. PointerEvent(x) \in Events /\ c \in CapturedSet
    BY PointerIsEvent DEF CapturedWithin
  <2>2. ScrollsIn(most, PointerEvent(x))
    BY DEF ScrollsIn, PointerEvent
  <2> QED
    BY <1>4, <2>1, <2>2
<1> QED
  BY <1>1, <1>2, <1>3, <1>5, <1>6, FlowStep

LEMMA WheelStep ==
  ASSUME NEW most, WheelFits(most), WheelInv(most), [Next]_vars
  PROVE  WheelInv(most)'
<1>1. InputTypes' /\ ThereTypes'
  BY InputTypesStep, ThereStep DEF WheelInv
<1>2. SourceWheel'
  BY SourceWheelStep DEF WheelInv, InputTypes
<1>3. Flows(CapturedWithin(most), InputWithin(most))'
  BY WheelFlows
<1>4. WheelExact'
  <2>1. CASE \E i \in DOMAIN wire : \E soon \in BOOLEAN : RecvDatagram(i, soon)
    BY <2>1, WheelReceived
  <2>2. CASE UNCHANGED <<scene, sink, desktop, injected>>
    BY <2>2 DEF WheelInv, WheelExact
  <2>3. CASE RecvControl
    <3>1. UNCHANGED <<scene, sink, injected>>
      BY <2>3 DEF RecvControl
    <3>2. desktop'.scrolled = desktop.scrolled
      BY <2>3 DEF RecvControl, WheelInv, ThereTypes, DesktopSet, PlaceCursor
    <3> QED
      BY <3>1, <3>2 DEF WheelInv, WheelExact
  <2> QED
    BY <2>1, <2>2, <2>3, PeerElsewhere
<1> QED
  BY <1>1, <1>2, <1>3, <1>4 DEF WheelInv

\* Whatever is lost, refused or overtaken on the way, what a desktop is scrolled
\* and what its adapter keeps for the next event are exactly what was asked for,
\* as long as no turn of a wheel makes a sum that 32 bits do not hold
\* (Scaled::take, wheel_millilines, inject_scroll).
THEOREM ScrollingIsExact ==
  ASSUME NEW most, WheelFits(most)
  PROVE  Spec => []WheelExact
<1>1. Init => WheelInv(most)
  BY WheelInit
<1>2. WheelInv(most) /\ [Next]_vars => WheelInv(most)'
  BY WheelStep
<1>3. WheelInv(most) => WheelExact
  BY DEF WheelInv
<1> QED
  BY <1>1, <1>2, <1>3, PTL DEF Spec

-----------------------------------------------------------------------------
(* What was typed as a chord is taken as that chord.                        *)

\* A key event carries the modifiers the person held, and no key of the right
\* side is in use.
KeyAsMeant(e, meant) == e.type = "Key" => e.modifiers = meant /\ e.key.side # "right"
CapturedAsMeant == {c \in CapturedSet : KeyAsMeant(c.event, c.meant)}
InputAsMeant == {input \in InputSet : KeyAsMeant(input.event, input.meant)}

Heard == faults \intersect {"right", "missed"} = {}

\* The adapters that keep a record of the modifiers keep a true one.
SourceKnows ==
  /\ \A key \in hands.keys : key.side # "right"
  /\ scene.from \in {"Linux", "Windows"} => source.modifiers = ModifiersOf(hands.keys)
Records(held, keys) ==
  \A key \in Key : IsModifierKey(key) => (key \in keys <=> key.side = "left" /\ key.name \in held)
SinkKnows == scene.to = "Windows" => Records(sink.held, desktop.keys)

ChordKept == scene.to \in {"Windows", "Mac"} => desktop.chord = injected.meant

TypedInv ==
  /\ InputTypes /\ ThereTypes
  /\ Heard => SourceKnows /\ SinkKnows /\ ChordKept /\ Flows(CapturedAsMeant, InputAsMeant)

LEMMA TypedInit == Init => TypedInv
<1> SUFFICES ASSUME Init PROVE TypedInv
  OBVIOUS
<1>1. InputTypes /\ ThereTypes /\ Flows(CapturedAsMeant, InputAsMeant)
  BY InputTypesInit, ThereInit, FlowInit
<1>2. hands.keys = {} /\ ModifiersOf({}) = {}
  BY DEF Init, ModifiersOf
<1>3. scene.from = "Linux" => source.modifiers = {}
  BY DEF Init, Linux!NewSource
<1>4. scene.from = "Windows" => source.modifiers = {}
  BY DEF Init, Windows!NewSource
<1>5. desktop.keys = {} /\ desktop.chord = {} /\ injected.meant = {}
  BY DEF Init, NewDesktop
<1>6. scene.to = "Windows" => sink.held = {}
  BY DEF Init, Windows!NewSink
<1> QED
  BY <1>1, <1>2, <1>3, <1>4, <1>5, <1>6 DEF TypedInv, SourceKnows, SinkKnows, ChordKept, Records

\* What a modifier key of the left side does to the modifiers that are held.
LEMMA HandsModifiers ==
  ASSUME HereTypes, NEW raw \in Strokes, raw.kind = "key", raw.key.side # "right",
         \A key \in hands.keys : key.side # "right"
  PROVE  /\ \A key \in HandsAfter(raw).keys : key.side # "right"
         /\ ModifiersOf(HandsAfter(raw).keys) =
              IF ~ IsModifierKey(raw.key) THEN ModifiersOf(hands.keys)
              ELSE IF raw.action = "Release" THEN ModifiersOf(hands.keys) \ {raw.key.name}
              ELSE ModifiersOf(hands.keys) \cup {raw.key.name}
<1> DEFINE after == HandsAfter(raw).keys
<1>1. /\ raw.action \in {"Press", "Release", "Repeat"}
      /\ raw.action = "Repeat" => raw.key \in hands.keys
      /\ raw.key \in Key /\ hands.keys \subseteq Key
  <2>1. StrokeOf(raw)
    BY StrokeKinds
  <2> QED
    BY <2>1, SceneKeys DEF StrokeOf, HereTypes
<1>2. after = Toggled(hands.keys, raw.key, raw.action)
  BY DEF HandsAfter, HereTypes
<1>3. after = IF raw.action = "Press" THEN hands.keys \cup {raw.key}
              ELSE IF raw.action = "Release" THEN hands.keys \ {raw.key} ELSE hands.keys
  BY <1>2 DEF Toggled
<1> HIDE DEF after
<1>4. \A key \in after : key.side # "right"
  BY <1>3
<1>5. \A name : name \in ModifiersOf(hands.keys) <=> [side |-> "left", name |-> name] \in hands.keys
  BY <1>1 DEF ModifiersOf, IsModifierKey, Key
<1>6. \A name : name \in ModifiersOf(after) <=> [side |-> "left", name |-> name] \in after
  BY <1>1, <1>3, <1>4 DEF ModifiersOf, IsModifierKey, Key
<1>7. CASE ~ IsModifierKey(raw.key)
  <2>1. \A name : [side |-> "left", name |-> name] \in after <=> [side |-> "left", name |-> name] \in hands.keys
    BY <1>1, <1>3, <1>7 DEF IsModifierKey
  <2> QED
    BY <1>4, <1>5, <1>6, <1>7, <2>1 DEF after
<1>8. CASE IsModifierKey(raw.key)
  <2>1. raw.key = [side |-> "left", name |-> raw.key.name]
    BY <1>1, <1>8 DEF IsModifierKey, Key
  <2>2. \A name : [side |-> "left", name |-> name] = raw.key <=> name = raw.key.name
    BY <2>1
  <2>3. ModifiersOf(after) = IF raw.action = "Release" THEN ModifiersOf(hands.keys) \ {raw.key.name}
                             ELSE ModifiersOf(hands.keys) \cup {raw.key.name}
    BY <1>1, <1>3, <1>5, <1>6, <2>1, <2>2
  <2> QED
    BY <1>4, <1>8, <2>3 DEF after
<1> QED
  BY <1>7, <1>8

\* What the person does to anything else leaves the keys alone.
LEMMA HandsElsewhere ==
  ASSUME HereTypes, NEW raw, raw.kind # "key"
  PROVE  HandsAfter(raw).keys = hands.keys
BY DEF HandsAfter, HereTypes

\* The key events that come of a stroke.
LEMMA LinuxTyped ==
  ASSUME HereTypes, SourceKnows, scene.from = "Linux", NEW raw \in Strokes,
         raw.kind = "key" => raw.key.side # "right",
         NEW read, read = Linux!Read(source, at, raw)
  PROVE  /\ read.source.modifiers = ModifiersOf(HandsAfter(raw).keys)
         /\ \A i \in DOMAIN read.events :
              KeyAsMeant(read.events[i], ModifiersOf(HandsAfter(raw).keys))
<1>1. /\ StrokeOf(raw) /\ source \in LinuxSources
      /\ source.modifiers = ModifiersOf(hands.keys)
      /\ \A key \in hands.keys : key.side # "right"
  BY StrokeKinds DEF HereTypes, SourceTypes, SourceKnows
<1>2. /\ read.source = [source EXCEPT !.modifiers = IF raw.kind = "key" /\ raw.action # "Repeat"
                                                    THEN Linux!UpdateModifiers(@, raw) ELSE @,
                                      !.due = @ \cup {Linux!DeviceOf(raw)}]
      /\ read.events = Linux!Convert(source, raw)
  BY DEF Linux!Read
<1>3. read.source.modifiers = IF raw.kind = "key" /\ raw.action # "Repeat"
                              THEN Linux!UpdateModifiers(source.modifiers, raw) ELSE source.modifiers
  BY <1>1, <1>2 DEF LinuxSources
<1>4. CASE raw.kind = "key"
  <2>1. Linux!UpdateModifiers(source.modifiers, raw) = ModifiersOf(HandsAfter(raw).keys)
    BY <1>1, <1>4, HandsModifiers, LinuxWords DEF Linux!UpdateModifiers
  <2>2. raw.action = "Repeat" => HandsAfter(raw).keys = hands.keys
    BY <1>4 DEF HandsAfter, HereTypes, Toggled
  <2>3. read.source.modifiers = ModifiersOf(HandsAfter(raw).keys)
    BY <1>1, <1>3, <1>4, <2>1, <2>2
  <2>4. \/ read.events = <<>>
        \/ \E action : read.events = <<KeyEvent(raw.key, action, ModifiersOf(HandsAfter(raw).keys))>>
    BY <1>2, <1>4, <2>1, LinuxWords DEF Linux!Convert
  <2>5. \A i \in DOMAIN read.events :
          KeyAsMeant(read.events[i], ModifiersOf(HandsAfter(raw).keys))
    <3>1. CASE read.events = <<>>
      BY <3>1
    <3>2. ASSUME NEW action,
                 read.events = <<KeyEvent(raw.key, action, ModifiersOf(HandsAfter(raw).keys))>>
          PROVE  \A i \in DOMAIN read.events :
                   KeyAsMeant(read.events[i], ModifiersOf(HandsAfter(raw).keys))
      BY <1>4, <3>2 DEF KeyAsMeant, KeyEvent
    <3> QED
      BY <2>4, <3>1, <3>2
  <2> QED
    BY <2>3, <2>5
<1>5. CASE raw.kind # "key"
  <2>1. read.source.modifiers = ModifiersOf(HandsAfter(raw).keys)
    BY <1>1, <1>3, <1>5, HandsElsewhere
  <2>2. \A i \in DOMAIN read.events : read.events[i].type # "Key"
    <3>1. CASE raw.kind = "button"
      BY <1>2, <3>1, LinuxWords DEF Linux!Convert, ButtonEvent
    <3>2. CASE raw.kind = "move"
      BY <1>2, <3>2, LinuxWords DEF Linux!Convert, MotionEvent
    <3>3. CASE raw.kind = "wheel"
      BY <1>2, <3>3, LinuxWords DEF Linux!Convert, ScrollEvent
    <3> QED
      BY <1>1, <1>5, <3>1, <3>2, <3>3 DEF StrokeOf
  <2> QED
    BY <2>1, <2>2 DEF KeyAsMeant
<1> QED
  BY <1>4, <1>5

LEMMA WindowsTyped ==
  ASSUME HereTypes, SourceKnows, scene.from = "Windows", source.hooked, NEW raw \in Strokes,
         raw.kind = "key" => raw.key.side # "right",
         NEW read, read = Windows!Read(source, at, raw)
  PROVE  /\ read.source.modifiers = ModifiersOf(HandsAfter(raw).keys)
         /\ \A i \in DOMAIN read.events :
              KeyAsMeant(read.events[i], ModifiersOf(HandsAfter(raw).keys))
<1>1. /\ StrokeOf(raw) /\ source \in WindowsSources
      /\ source.modifiers = ModifiersOf(hands.keys)
      /\ \A key \in hands.keys : key.side # "right"
  BY StrokeKinds DEF HereTypes, SourceTypes, SourceKnows
<1>2. CASE raw.kind = "key"
  <2>1. Windows!UpdateModifiers(source.modifiers, raw) = ModifiersOf(HandsAfter(raw).keys)
    BY <1>1, <1>2, HandsModifiers, WindowsWords DEF Windows!UpdateModifiers
  <2> DEFINE key  == Windows!HidFromVk(Windows!VirtualKey(raw.key))
             held == ModifiersOf(HandsAfter(raw).keys)
  <2>2. /\ read.source = [source EXCEPT !.modifiers = held]
        /\ \E action : read.events = <<KeyEvent(key, action, held)>>
    BY <1>2, <2>1, WindowsWords DEF Windows!Read, Windows!KeyboardProc
  <2>3. key = raw.key
    <3>1. raw.key \in Key
      BY <1>1, <1>2, SceneKeys DEF StrokeOf
    <3> QED
      BY <1>2, <3>1, VirtualKeyReturns
  <2> HIDE DEF key, held
  <2>4. read.source.modifiers = held
    BY <1>1, <2>2 DEF WindowsSources
  <2>5. \A i \in DOMAIN read.events : KeyAsMeant(read.events[i], held)
    BY <1>2, <2>2, <2>3 DEF KeyAsMeant, KeyEvent
  <2> QED
    BY <2>4, <2>5 DEF held
<1>3. CASE raw.kind # "key"
  <2>1. HandsAfter(raw).keys = hands.keys
    BY <1>3, HandsElsewhere
  <2>2. read.source.modifiers = source.modifiers
    <3>1. CASE raw.kind = "button"
      BY <3>1 DEF Windows!Read
    <3>2. CASE raw.kind = "move"
      BY <1>1, <3>2 DEF Windows!Read, Windows!MouseMove, WindowsSources
    <3>3. CASE raw.kind = "wheel"
      BY <1>1, <3>3 DEF Windows!Read, Windows!MouseWheel, WindowsSources
    <3> QED
      BY <1>1, <1>3, <3>1, <3>2, <3>3 DEF StrokeOf
  <2>3. \A i \in DOMAIN read.events : read.events[i].type # "Key"
    <3>1. CASE raw.kind = "button"
      BY <3>1, WindowsWords DEF Windows!Read, ButtonEvent
    <3>2. CASE raw.kind = "move"
      <4>1. read.events = <<>> \/ \E dx : read.events = <<MotionEvent(dx)>>
        BY <3>2, WindowsWords DEF Windows!Read, Windows!MouseMove
      <4>2. ASSUME NEW dx, read.events = <<MotionEvent(dx)>>
            PROVE  \A i \in DOMAIN read.events : read.events[i].type # "Key"
        BY <4>2 DEF MotionEvent
      <4> QED
        BY <4>1, <4>2
    <3>3. CASE raw.kind = "wheel"
      <4>1. read.events = <<>> \/ \E dy : read.events = <<ScrollEvent(dy)>>
        BY <3>3, WindowsWords DEF Windows!Read, Windows!MouseWheel
      <4>2. ASSUME NEW dy, read.events = <<ScrollEvent(dy)>>
            PROVE  \A i \in DOMAIN read.events : read.events[i].type # "Key"
        BY <4>2 DEF ScrollEvent
      <4> QED
        BY <4>1, <4>2
    <3> QED
      BY <1>1, <1>3, <3>1, <3>2, <3>3 DEF StrokeOf
  <2> QED
    BY <1>1, <2>1, <2>2, <2>3 DEF KeyAsMeant
<1> QED
  BY <1>2, <1>3

LEMMA MacTyped ==
  ASSUME HereTypes, scene.from = "Mac", source.tapped, NEW raw \in Strokes,
         raw.kind = "key" => raw.key.side # "right",
         NEW read, read = Mac!Read(source, at, raw, HandsAfter(raw).keys, HandsAfter(raw).locked)
  PROVE  \A i \in DOMAIN read.events :
           KeyAsMeant(read.events[i], ModifiersOf(HandsAfter(raw).keys))
<1> DEFINE held      == HandsAfter(raw).keys
           locked    == HandsAfter(raw).locked
           flags     == ModifiersOf(held)
           converted == Mac!Convert(source, raw, held, locked)
<1>1. StrokeOf(raw)
  BY StrokeKinds
<1>2. read.events = converted.events /\ Mac!ModifiersOf(held) = flags
  BY MacWords DEF Mac!Read
<1> HIDE DEF held, locked
<1>3. CASE raw.kind = "key"
  <2>1. \/ converted.events = <<>>
        \/ converted.events = Mac!CapsLockTap(source.caps, locked, flags)
        \/ \E action : converted.events = <<KeyEvent(raw.key, action, flags)>>
    BY <1>2, <1>3, MacWords DEF Mac!Convert, Mac!ConvertCapsLock, Mac!ConvertFlagsChanged
  <2> HIDE DEF converted, flags
  <2>2. CapsLock.side # "right"
    BY DEF CapsLock, Plain
  <2>3. CASE converted.events = Mac!CapsLockTap(source.caps, locked, flags)
    BY <1>2, <2>2, <2>3, MacWords DEF Mac!CapsLockTap, KeyEvent, KeyAsMeant, flags, held
  <2>4. CASE \E action : converted.events = <<KeyEvent(raw.key, action, flags)>>
    BY <1>2, <1>3, <2>4 DEF KeyEvent, KeyAsMeant, flags, held
  <2> QED
    BY <1>2, <2>1, <2>3, <2>4
<1>4. CASE raw.kind # "key"
  <2>1. \A i \in DOMAIN converted.events : converted.events[i].type # "Key"
    <3>1. CASE raw.kind = "button"
      BY <3>1, MacWords DEF Mac!Convert, ButtonEvent
    <3>2. CASE raw.kind = "move"
      BY <3>2, MacWords DEF Mac!Convert, MotionEvent
    <3>3. CASE raw.kind = "wheel"
      BY <3>3, MacWords DEF Mac!Convert, ScrollEvent
    <3> QED
      BY <1>1, <1>4, <3>1, <3>2, <3>3 DEF StrokeOf
  <2> QED
    BY <1>2, <2>1 DEF KeyAsMeant
<1> QED
  BY <1>3, <1>4

\* What the adapter makes of a stroke it heard.
LEMMA HeardStroke ==
  ASSUME HereTypes, SourceKnows, NEW raw \in Strokes, Touch(raw), Heard'
  PROVE  /\ SourceKnows'
         /\ \A i \in DOMAIN ReadOf(raw).events : Fresh(raw, ReadOf(raw).events[i]) \in CapturedAsMeant
<1>1. /\ ~ Blind /\ (raw.kind = "key" => raw.key.side # "right")
      /\ source' = ReadOf(raw).source /\ hands' = HandsAfter(raw) /\ scene' = scene
  <2>1. faults' = faults
           \cup (IF Blind THEN {"missed"} ELSE {})
           \cup (IF raw.kind = "key" /\ raw.key.side = "right" THEN {"right"} ELSE {})
    BY DEF Touch
  <2>2. ~ Blind
    BY <2>1 DEF Heard
  <2>3. raw.kind = "key" => raw.key.side # "right"
    BY <2>1 DEF Heard
  <2> QED
    BY <2>2, <2>3 DEF Touch
<1>2. \A key \in hands'.keys : key.side # "right"
  BY <1>1, HandsModifiers, HandsElsewhere DEF SourceKnows
<1>3. /\ scene.from \in {"Linux", "Windows"} =>
           ReadOf(raw).source.modifiers = ModifiersOf(HandsAfter(raw).keys)
      /\ \A i \in DOMAIN ReadOf(raw).events :
           KeyAsMeant(ReadOf(raw).events[i], ModifiersOf(HandsAfter(raw).keys))
  <2>1. CASE scene.from = "Linux"
    <3>1. ReadOf(raw) = Linux!Read(source, at, raw)
      BY <2>1 DEF ReadOf
    <3> QED
      BY <1>1, <2>1, <3>1, LinuxTyped
  <2>2. CASE scene.from = "Windows"
    <3>1. ReadOf(raw) = Windows!Read(source, at, raw) /\ source.hooked
      BY <1>1, <2>2 DEF ReadOf, Blind
    <3> QED
      BY <1>1, <2>2, <3>1, WindowsTyped
  <2>3. CASE scene.from = "Mac"
    <3>1. ReadOf(raw) = Mac!Read(source, at, raw, HandsAfter(raw).keys, HandsAfter(raw).locked)
      BY <2>3 DEF ReadOf
    <3>2. source.tapped
      BY <1>1, <2>3 DEF Blind
    <3>3. \A i \in DOMAIN ReadOf(raw).events :
            KeyAsMeant(ReadOf(raw).events[i], ModifiersOf(HandsAfter(raw).keys))
      BY <1>1, <2>3, <3>1, <3>2, MacTyped
    <3> QED
      BY <2>3, <3>3
  <2> QED
    BY <2>1, <2>2, <2>3, SceneKeys
<1>4. SourceKnows'
  BY <1>1, <1>2, <1>3 DEF SourceKnows
<1>5. ASSUME NEW i \in DOMAIN ReadOf(raw).events
      PROVE  Fresh(raw, ReadOf(raw).events[i]) \in CapturedAsMeant
  <2>1. Fresh(raw, ReadOf(raw).events[i]) \in CapturedSet
    BY FreshTyped
  <2>2. /\ Fresh(raw, ReadOf(raw).events[i]).event = ReadOf(raw).events[i]
        /\ Fresh(raw, ReadOf(raw).events[i]).meant = ModifiersOf(HandsAfter(raw).keys)
    BY DEF Fresh
  <2> QED
    BY <1>3, <2>1, <2>2 DEF CapturedAsMeant
<1> QED
  BY <1>4, <1>5

\* The adapter's record stays true.
LEMMA SourceKnowsStep ==
  ASSUME HereTypes, SourceKnows, [Next]_vars, Heard'
  PROVE  SourceKnows'
<1>1. scene' = scene
  BY SceneStays
<1>2. CASE UNCHANGED <<hands, source>>
  BY <1>1, <1>2 DEF SourceKnows
<1>3. CASE hands' = hands /\ (scene.from \in {"Linux", "Windows"} => source'.modifiers = source.modifiers)
  BY <1>1, <1>3 DEF SourceKnows
<1>4. ASSUME NEW raw \in Strokes, Touch(raw) PROVE SourceKnows'
  BY <1>4, HeardStroke
<1>5. CASE ReaderTurns
  <2>1. scene.from = "Linux" /\ hands' = hands
    BY <1>5 DEF ReaderTurns, person
  <2>2. PICK dev, more : \/ source' = Linux!Turns(source, dev, more)
                         \/ source' = Linux!TurnFails(source, dev, more)
    BY <1>5, TurnOf DEF Turn
  <2>3. source'.modifiers = source.modifiers
    BY <2>1, <2>2 DEF Linux!Turns, Linux!TurnFails, HereTypes, SourceTypes, LinuxSources
  <2> QED
    BY <1>3, <2>1, <2>3
<1>6. CASE SourceMishap
  <2>1. hands' = hands
    BY <1>6 DEF SourceMishap, person
  <2>2. CASE scene.from = "Linux"
    <3>1. PICK dev : source' = [source EXCEPT !.unplugged = @ \cup {dev}, !.grabbed = @ \ {dev},
                                              !.due = @ \ {dev}]
      BY <1>6, <2>2 DEF SourceMishap, Linux!Unplugs
    <3>2. source'.modifiers = source.modifiers
      BY <2>2, <3>1 DEF HereTypes, SourceTypes, LinuxSources
    <3> QED
      BY <1>3, <2>1, <3>2
  <2>3. CASE scene.from = "Windows"
    <3>1. source' = Windows!HookRemoved(source)
      BY <1>6, <2>3 DEF SourceMishap
    <3>2. source'.modifiers = source.modifiers
      BY <2>3, <3>1 DEF Windows!HookRemoved, HereTypes, SourceTypes, WindowsSources
    <3> QED
      BY <1>3, <2>1, <3>2
  <2>4. CASE scene.from = "Mac"
    BY <1>3, <2>1, <2>4
  <2> QED
    BY <2>2, <2>3, <2>4, SceneKeys
<1>7. CASE SourceRecovers
  <2>1. hands' = hands
    BY <1>7 DEF SourceRecovers, person
  <2>2. CASE scene.from = "Windows"
    <3>1. source' \in Windows!Rearm(source) /\ source \in WindowsSources
      BY <1>7, <2>2 DEF SourceRecovers, HereTypes, SourceTypes
    <3>2. source'.modifiers = source.modifiers
      BY <3>1, RearmKeeps
    <3> QED
      BY <1>3, <2>1, <3>2
  <2>3. CASE scene.from # "Windows"
    <3>1. scene.from = "Mac"
      BY <1>7, <2>3 DEF SourceRecovers
    <3> QED
      BY <1>3, <2>1, <3>1
  <2> QED
    BY <2>2, <2>3
<1>8. CASE ApplySuppression
  <2>1. hands' = hands
    BY <1>8 DEF ApplySuppression
  <2>2. CASE source' = source
    BY <1>2, <2>1, <2>2
  <2>3. CASE scene.from = "Linux" /\ source' = Linux!SetSuppressed(source, away)
    <3>1. source'.modifiers = source.modifiers
      BY <2>3 DEF Linux!SetSuppressed, HereTypes, SourceTypes, LinuxSources
    <3> QED
      BY <1>3, <2>1, <3>1
  <2>4. CASE scene.from = "Windows" /\ source' = Windows!SetSuppressed(source, away)
    <3>1. source'.modifiers = source.modifiers
      BY <2>4 DEF Windows!SetSuppressed, HereTypes, SourceTypes, WindowsSources
    <3> QED
      BY <1>3, <2>1, <3>1
  <2>5. CASE scene.from = "Mac"
    BY <1>3, <2>1, <2>5
  <2>6. \/ source' = source
        \/ scene.from = "Linux" /\ source' = Linux!SetSuppressed(source, away)
        \/ scene.from = "Windows" /\ source' = Windows!SetSuppressed(source, away)
        \/ scene.from = "Mac"
    BY <1>8, SceneKeys DEF ApplySuppression
  <2> QED
    BY <2>2, <2>3, <2>4, <2>5, <2>6
<1>9. CASE PollAndRoute \/ PollIdle \/ SendBatch \/ RecvControl \/ SessionEnds \/ SetModifierSwap \/ Tick
  BY <1>2, <1>9 DEF PollAndRoute, PollIdle, SendBatch, RecvControl, SessionEnds,
                    SetModifierSwap, Tick, here, person
<1>10. ASSUME NEW i \in DOMAIN wire, LoseDatagram(i) \/ \E soon \in BOOLEAN : RecvDatagram(i, soon)
       PROVE  UNCHANGED <<hands, source>>
  BY <1>10 DEF LoseDatagram, RecvDatagram, here, person
<1>11. CASE UNCHANGED vars
  BY <1>2, <1>11 DEF vars, here, person
<1> QED
  BY <1>2, <1>4, <1>5, <1>6, <1>7, <1>8, <1>9, <1>10, <1>11 DEF Next

\* What is on the way goes on carrying what was meant, whatever the swap.
LEMMA TypedFlows ==
  ASSUME HereTypes, SourceKnows, Flows(CapturedAsMeant, InputAsMeant), [Next]_vars, Heard'
  PROVE  Flows(CapturedAsMeant, InputAsMeant)'
<1>1. CapturedAsMeant \subseteq CapturedSet /\ \A input \in InputAsMeant : input.type = "Input"
  BY DEF CapturedAsMeant, InputAsMeant, InputSet
<1>2. \A raw \in Strokes : Touch(raw) =>
        \A i \in DOMAIN ReadOf(raw).events : Fresh(raw, ReadOf(raw).events[i]) \in CapturedAsMeant
  BY HeardStroke
<1>3. ASSUME NEW c \in CapturedSet, NEW e \in Events, KeyAsMeant(e, c.meant)
      PROVE  Input(e, c) \in InputAsMeant
  <2>1. /\ Input(e, c) \in InputSet /\ Input(e, c).event = ApplySwap(swap, e)
        /\ Input(e, c).meant = IF swap = "None" THEN c.meant ELSE SwapModifiers(c.meant)
    BY InputTyped DEF Input
  <2>2. /\ ApplySwap(swap, e).type = e.type
        /\ e.type = "Key" => /\ ApplySwap(swap, e).key.side = e.key.side
                             /\ ApplySwap(swap, e).modifiers =
                                  IF swap = "None" THEN e.modifiers ELSE SwapModifiers(e.modifiers)
    BY SwapTyped DEF HereTypes
  <2>3. KeyAsMeant(Input(e, c).event, Input(e, c).meant)
    BY <1>3, <2>1, <2>2 DEF KeyAsMeant
  <2> QED
    BY <2>1, <2>3 DEF InputAsMeant
<1>4. \A c \in CapturedAsMeant : Input(c.event, c) \in InputAsMeant
  BY <1>3, CapturedIsEvent DEF CapturedAsMeant
<1>5. \A c \in CapturedAsMeant, x \in Int : Input(PointerEvent(x), c) \in InputAsMeant
  <2> SUFFICES ASSUME NEW c \in CapturedAsMeant, NEW x \in Int
               PROVE  Input(PointerEvent(x), c) \in InputAsMeant
    OBVIOUS
  <2>1. PointerEvent(x) \in Events /\ c \in CapturedSet
    BY PointerIsEvent DEF CapturedAsMeant
  <2>2. KeyAsMeant(PointerEvent(x), c.meant)
    BY DEF KeyAsMeant, PointerEvent
  <2> QED
    BY <1>3, <2>1, <2>2
<1> QED
  BY <1>1, <1>2, <1>4, <1>5, FlowStep

LEMMA RecordedModifiers ==
  ASSUME NEW held \in SUBSET Names, NEW keys \in SUBSET Key, Records(held, keys)
  PROVE  ModifiersOf(keys) = held
<1>1. ASSUME NEW m \in held PROVE m \in ModifiersOf(keys)
  <2> DEFINE key == [side |-> "left", name |-> m]
  <2>1. key \in Key /\ IsModifierKey(key) /\ key.name = m /\ key.side = "left"
    BY DEF Key, IsModifierKey
  <2> HIDE DEF key
  <2>2. key \in keys
    BY <2>1 DEF Records
  <2> QED
    BY <2>1, <2>2 DEF ModifiersOf
<1>2. ASSUME NEW m \in ModifiersOf(keys) PROVE m \in held
  <2>1. PICK key \in keys : IsModifierKey(key) /\ m = key.name
    BY DEF ModifiersOf
  <2> QED
    BY <2>1 DEF Records
<1> QED
  BY <1>1, <1>2

\* A Windows sink: the modifiers are put right before any other key goes down.
LEMMA WindowsTypes ==
  ASSUME NEW k \in WindowsSink, desktop \in DesktopSet, NEW e \in Events,
         Records(k.held, desktop.keys), e.type = "Key", e.key.side # "right",
         NEW done, done = Windows!Inject(k, desktop, e)
  PROVE  /\ Records(done.sink.held, done.desktop.keys)
         /\ done.desktop.chord = IF e.action = "Press" /\ ~ IsModifierKey(e.key)
                                 THEN e.modifiers ELSE desktop.chord
<1>1. /\ e.key \in Key /\ e.action \in Action /\ e.modifiers \in SUBSET Names
      /\ desktop.keys \in SUBSET Key /\ k.held \in SUBSET Names
      /\ done = Windows!InjectKey(k, desktop, e)
  BY EventKinds DEF EventOf, DesktopSet, WindowsSink, Windows!Inject
<1>2. CASE IsModifierKey(e.key)
  <2> DEFINE held == IF e.action = "Press" THEN k.held \cup {e.key.name} ELSE k.held \ {e.key.name}
             keys == IF e.action = "Release" THEN desktop.keys \ {e.key}
                     ELSE desktop.keys \cup {e.key}
  <2>1. done.sink = [k EXCEPT !.held = held] /\ done.desktop = SendKey(desktop, e.key, e.action)
    BY <1>1, <1>2, WindowsWords DEF Windows!InjectKey
  <2>2. done.desktop.keys = keys /\ done.desktop.chord = desktop.chord
    BY <1>2, <2>1 DEF SendKey, PostKey, DesktopSet
  <2>3. Records(held, keys)
    <3>1. e.key.side = "left"
      BY <1>1, <1>2 DEF IsModifierKey, Key
    <3>2. \A key \in Key : key = e.key <=> key.side = "left" /\ key.name = e.key.name
      BY <1>1, <3>1 DEF Key
    <3>3. e.action = "Press" \/ e.action = "Release"
      BY <1>1 DEF Action
    <3>4. CASE e.action = "Press"
      BY <3>2, <3>4 DEF Records
    <3>5. CASE e.action = "Release"
      BY <3>2, <3>5 DEF Records
    <3> QED
      BY <3>3, <3>4, <3>5
  <2> HIDE DEF held, keys
  <2>4. done.sink.held = held
    BY <2>1 DEF WindowsSink
  <2> QED
    BY <1>2, <2>2, <2>3, <2>4
<1>3. CASE ~ IsModifierKey(e.key)
  <2> DEFINE fixed == Windows!ApplyModifiers(k, desktop, e.modifiers)
             keys  == (desktop.keys \ {Windows!LeftKey(m) : m \in k.held \ e.modifiers})
                         \cup {Windows!LeftKey(m) : m \in e.modifiers \ k.held}
  <2>1. Windows!HidFromVk(Windows!VirtualKey(e.key)) = e.key
    BY <1>1, VirtualKeyReturns
  <2>2. done = [fixed EXCEPT !.desktop = SendKey(@, e.key, e.action)]
    BY <1>1, <1>3, <2>1, WindowsWords DEF Windows!InjectKey
  <2>3. /\ fixed.sink = [k EXCEPT !.held = e.modifiers]
        /\ fixed.desktop = [desktop EXCEPT !.keys = keys]
        /\ done.sink = fixed.sink /\ done.desktop = SendKey(fixed.desktop, e.key, e.action)
    BY <2>2 DEF Windows!ApplyModifiers
  <2>4. \A key \in Key : \A m : key = Windows!LeftKey(m) <=> key.side = "left" /\ key.name = m
    BY DEF Windows!LeftKey, Key
  <2>5. Records(e.modifiers, keys)
    <3> SUFFICES ASSUME NEW key \in Key, IsModifierKey(key)
                 PROVE  key \in keys <=> key.side = "left" /\ key.name \in e.modifiers
      BY DEF Records
    <3>1. key \in desktop.keys <=> key.side = "left" /\ key.name \in k.held
      BY DEF Records
    <3>2. \A held : key \in {Windows!LeftKey(m) : m \in held} <=> key.side = "left" /\ key.name \in held
      BY <2>4
    <3>3. key \in keys <=>
            \/ key \in desktop.keys /\ key \notin {Windows!LeftKey(m) : m \in k.held \ e.modifiers}
            \/ key \in {Windows!LeftKey(m) : m \in e.modifiers \ k.held}
      OBVIOUS
    <3> HIDE DEF keys
    <3> QED
      BY <3>1, <3>2, <3>3
  <2>6. keys \in SUBSET Key
    BY <1>1 DEF Windows!LeftKey, Key
  <2> HIDE DEF fixed, keys
  <2>7. /\ done.sink.held = e.modifiers
        /\ fixed.desktop.keys = keys /\ fixed.desktop.chord = desktop.chord
        /\ fixed.desktop \in DesktopSet
    BY <2>3, <2>6 DEF WindowsSink, DesktopSet
  <2>8. ModifiersOf(keys) = e.modifiers
    BY <1>1, <2>5, <2>6, RecordedModifiers
  <2>9. /\ done.desktop.keys = IF e.action = "Release" THEN keys \ {e.key} ELSE keys \cup {e.key}
        /\ done.desktop.chord = IF e.action = "Release" THEN desktop.chord ELSE e.modifiers
    BY <1>3, <2>3, <2>7, <2>8 DEF SendKey, PostKey, DesktopSet
  <2>10. Records(e.modifiers, done.desktop.keys)
    BY <1>3, <2>5, <2>9 DEF Records
  <2>11. e.action = "Press" <=> e.action # "Release"
    BY <1>1 DEF Action
  <2> QED
    BY <1>3, <2>7, <2>9, <2>10, <2>11
<1> QED
  BY <1>2, <1>3

\* A macOS sink stamps the event.
LEMMA MacTypes ==
  ASSUME NEW k \in MacSink, desktop \in DesktopSet, NEW e \in Events, NEW soon \in BOOLEAN,
         e.type = "Key", NEW done, done = Mac!Inject(k, desktop, e, soon)
  PROVE  done.desktop.chord = IF e.action = "Press" /\ ~ IsModifierKey(e.key) /\ Mac!Carried(e.key)
                              THEN e.modifiers ELSE desktop.chord
<1>1. e.action \in Action /\ done = Mac!InjectKey(k, desktop, e)
  BY EventKinds DEF EventOf, Mac!Inject
<1>2. CASE Mac!Carried(e.key)
  <2>1. done.desktop = PostKey(desktop, e.key, e.action, e.modifiers)
    BY <1>1, <1>2, MacWords DEF Mac!InjectKey
  <2>2. e.action = "Press" <=> e.action # "Release"
    BY <1>1 DEF Action
  <2> QED
    BY <1>2, <2>1, <2>2 DEF PostKey, DesktopSet
<1>3. CASE ~ Mac!Carried(e.key)
  BY <1>1, <1>3 DEF Mac!InjectKey
<1> QED
  BY <1>2, <1>3

\* A datagram keeps what was typed.
LEMMA TypedReceived ==
  ASSUME InputTypes, ThereTypes, SinkKnows, ChordKept, Flows(CapturedAsMeant, InputAsMeant),
         NEW i \in DOMAIN wire, NEW soon \in BOOLEAN, RecvDatagram(i, soon)
  PROVE  SinkKnows' /\ ChordKept'
<1> DEFINE e == wire[i].event
           k == InjectOf(e, soon).sink
           d == InjectOf(e, soon).desktop
<1>1. scene \in Scenes /\ scene' = scene /\ desktop \in DesktopSet
  BY DEF InputTypes, HereTypes, RecvDatagram, ThereTypes
<1>2. wire[i] \in InputAsMeant /\ e \in Events
  BY ReceivedInput DEF Flows
<1>3. e.type = "Key" => e.modifiers = wire[i].meant /\ e.key.side # "right"
  BY <1>2 DEF InputAsMeant, KeyAsMeant
<1>4. CASE UNCHANGED <<sink, desktop, injected>>
  BY <1>1, <1>4 DEF SinkKnows, ChordKept
<1>5. CASE sink' = k /\ desktop' = d /\ injected' = InjectedAfter(wire[i])
  <2>1. injected'.meant = IF /\ e.type = "Key" /\ e.action = "Press" /\ ~ IsModifierKey(e.key)
                             /\ scene.to = "Mac" => Mac!Carried(e.key)
                          THEN wire[i].meant ELSE injected.meant
    BY <1>5 DEF InjectedAfter, ThereTypes
  <2>2. CASE scene.to = "Windows"
    <3>1. InjectOf(e, soon) = Windows!Inject(sink, desktop, e) /\ sink \in WindowsSink
      BY <2>2 DEF InjectOf, ThereTypes, SinkTypes
    <3>2. Records(sink.held, desktop.keys) /\ desktop.chord = injected.meant
      BY <2>2 DEF SinkKnows, ChordKept
    <3> HIDE DEF e
    <3>3. CASE e.type = "Key"
      <4>1. /\ Records(k.held, d.keys)
            /\ d.chord = IF e.action = "Press" /\ ~ IsModifierKey(e.key)
                         THEN e.modifiers ELSE desktop.chord
        BY <1>1, <1>2, <1>3, <3>1, <3>2, <3>3, WindowsTypes
      <4>2. d.chord = injected'.meant
        BY <1>3, <2>1, <2>2, <3>2, <3>3, <4>1
      <4> QED
        BY <1>1, <1>5, <2>2, <4>1, <4>2 DEF SinkKnows, ChordKept
    <3>4. CASE e.type # "Key"
      <4>1. d.keys = desktop.keys /\ d.chord = desktop.chord
        BY <1>1, <1>2, <3>4, InjectTyped DEF Untouched
      <4>2. k.held = sink.held
        <5>1. k = Windows!Inject(sink, desktop, e).sink
          BY <3>1
        <5>2. e.type \in {"Motion", "Pointer", "Button", "Scroll"}
          BY <1>2, <3>4, EventKinds DEF EventOf
        <5> HIDE DEF k
        <5>3. CASE e.type = "Scroll"
          <6>1. \E wheel : k = [sink EXCEPT !.wheel = wheel]
            BY <5>1, <5>3 DEF Windows!Inject, Windows!InjectScroll
          <6> QED
            BY <3>1, <6>1 DEF WindowsSink
        <5>4. CASE e.type # "Scroll"
          BY <5>1, <5>2, <5>4 DEF Windows!Inject
        <5> QED
          BY <5>3, <5>4
      <4>3. injected'.meant = injected.meant
        BY <2>1, <3>4
      <4> QED
        BY <1>1, <1>5, <2>2, <3>2, <4>1, <4>2, <4>3 DEF SinkKnows, ChordKept
    <3> QED
      BY <3>3, <3>4
  <2>3. CASE scene.to = "Mac"
    <3>1. InjectOf(e, soon) = Mac!Inject(sink, desktop, e, soon) /\ sink \in MacSink
      BY <2>3 DEF InjectOf, ThereTypes, SinkTypes
    <3>2. desktop.chord = injected.meant
      BY <2>3 DEF ChordKept
    <3> HIDE DEF e
    <3>3. d.chord = injected'.meant
      <4>1. CASE e.type = "Key"
        <5>1. d.chord = IF e.action = "Press" /\ ~ IsModifierKey(e.key) /\ Mac!Carried(e.key)
                        THEN e.modifiers ELSE desktop.chord
          BY <1>1, <1>2, <3>1, <4>1, MacTypes
        <5> QED
          BY <1>3, <2>1, <2>3, <3>2, <4>1, <5>1
      <4>2. CASE e.type # "Key"
        <5>1. d.chord = desktop.chord
          BY <1>1, <1>2, <4>2, InjectTyped DEF Untouched
        <5> QED
          BY <2>1, <3>2, <4>2, <5>1
      <4> QED
        BY <4>1, <4>2
    <3> QED
      BY <1>1, <1>5, <2>3, <3>3 DEF SinkKnows, ChordKept
  <2>4. CASE scene.to \notin {"Windows", "Mac"}
    BY <1>1, <2>4 DEF SinkKnows, ChordKept
  <2> QED
    BY <2>2, <2>3, <2>4
<1>6. \/ UNCHANGED <<sink, desktop, injected>>
      \/ sink' = k /\ desktop' = d /\ injected' = InjectedAfter(wire[i])
  BY DEF RecvDatagram
<1> QED
  BY <1>4, <1>5, <1>6

LEMMA TypedStep == TypedInv /\ [Next]_vars => TypedInv'
<1> SUFFICES ASSUME TypedInv, [Next]_vars PROVE TypedInv'
  OBVIOUS
<1>1. InputTypes /\ ThereTypes /\ InputTypes' /\ ThereTypes'
  BY InputTypesStep, ThereStep DEF TypedInv
<1>2. scene' = scene /\ HereTypes
  BY <1>1, SceneStays DEF InputTypes
<1>3. ASSUME Heard' PROVE SourceKnows' /\ SinkKnows' /\ ChordKept' /\ Flows(CapturedAsMeant, InputAsMeant)'
  <2>1. SourceKnows /\ SinkKnows /\ ChordKept /\ Flows(CapturedAsMeant, InputAsMeant)
    <3>1. Heard
      BY <1>3, FaultsStay DEF Heard
    <3> QED
      BY <3>1 DEF TypedInv
  <2>2. SourceKnows'
    BY <1>2, <1>3, <2>1, SourceKnowsStep
  <2>3. Flows(CapturedAsMeant, InputAsMeant)'
    BY <1>2, <1>3, <2>1, TypedFlows
  <2>4. SinkKnows' /\ ChordKept'
    <3>1. CASE \E i \in DOMAIN wire : \E soon \in BOOLEAN : RecvDatagram(i, soon)
      BY <1>1, <2>1, <3>1, TypedReceived
    <3>2. CASE UNCHANGED <<scene, sink, desktop, injected>>
      BY <2>1, <3>2 DEF SinkKnows, ChordKept
    <3>3. CASE RecvControl
      <4>1. UNCHANGED <<sink, injected>>
        BY <3>3 DEF RecvControl
      <4>2. desktop'.keys = desktop.keys /\ desktop'.chord = desktop.chord
        BY <1>1, <3>3 DEF RecvControl, ThereTypes, DesktopSet, PlaceCursor
      <4> QED
        BY <1>2, <2>1, <4>1, <4>2 DEF SinkKnows, ChordKept
    <3> QED
      BY <3>1, <3>2, <3>3, PeerElsewhere
  <2> QED
    BY <2>2, <2>3, <2>4
<1> QED
  BY <1>1, <1>3 DEF TypedInv

\* What the person typed as a chord is taken as that chord on a Windows or macOS
\* peer, whatever was lost, overtaken or refused on the way, whatever was held
\* across a crossing and however the swap changed (inject_key in both sinks).
THEOREM TypedAlwaysAsMeant == Spec => []TypedAsMeant
<1>1. TypedInv => TypedAsMeant
  BY DEF TypedInv, Heard, ChordKept, TypedAsMeant
<1> QED
  BY TypedInit, TypedStep, <1>1, PTL DEF Spec

-----------------------------------------------------------------------------
(* A click lands where the virtual cursor was when the button went down.    *)

\* What the peer's task sends: movements have become positions on the screen.
OnScreen ==
  {input \in InputSet : /\ input.event.type # "Motion"
                        /\ input.event.type = "Pointer" => input.event.x \in 0..Width}
Way == OnScreen \cup Others

LEMMA OnScreenStep ==
  ASSUME InputTypes, Flows(CapturedSet, OnScreen), [Next]_vars
  PROVE  Flows(CapturedSet, OnScreen)'
<1>1. HereTypes
  BY DEF InputTypes
<1>2. \A input \in OnScreen : input.type = "Input"
  BY DEF OnScreen, InputSet
<1>3. ASSUME NEW c \in CapturedSet, c.event.type # "Motion"
      PROVE  Input(c.event, c) \in OnScreen
  <2>1. c.event \in Events /\ c.event.type # "Pointer"
    BY CapturedIsEvent DEF CapturedSet, RawEvents
  <2>2. Input(c.event, c) \in InputSet /\ Input(c.event, c).event = ApplySwap(swap, c.event)
    BY <1>1, <2>1, InputTyped DEF Input
  <2>3. ApplySwap(swap, c.event).type = c.event.type
    BY <1>1, <2>1, SwapTyped DEF HereTypes
  <2> QED
    BY <1>3, <2>1, <2>2, <2>3 DEF OnScreen
<1>4. ASSUME NEW c \in CapturedSet, NEW x \in 0..Width
      PROVE  Input(PointerEvent(x), c) \in OnScreen
  <2>1. x \in Int
    OBVIOUS
  <2>2. Input(PointerEvent(x), c) \in InputSet
    BY <1>1, <2>1, InputTyped, PointerIsEvent
  <2>3. Input(PointerEvent(x), c).event = PointerEvent(x)
    BY DEF Input, ApplySwap, PointerEvent
  <2> QED
    BY <2>2, <2>3 DEF OnScreen, PointerEvent
<1> QED
  BY <1>1, <1>2, <1>3, <1>4, FreshTyped, FlowStep

\* Where the peer's cursor is, on which of its visits.  A visit begins at the
\* edge, which is where the Warp that announces it puts the cursor.
Spots == [visit : Nat, at : Int]
Entered(p, visit) == IF p.visit < visit THEN 0 ELSE p.at

\* Where an element of the way takes it.
Past(p, c) ==
  IF c.type = "Input"
  THEN [visit |-> c.visit,
        at |-> IF c.event.type = "Pointer" THEN c.event.x ELSE Entered(p, c.visit)]
  ELSE IF c.type = "Warp" THEN [visit |-> c.visit, at |-> 0] ELSE p

\* What is to be true of the element there: no visit comes after a later one, and
\* a button lands on its spot.
Fits(p, c) ==
  /\ c.type = "Input" => p.visit <= c.visit
  /\ c.type = "Input" /\ c.event.type = "Button" => c.spot = Entered(p, c.visit)
  /\ c.type = "Warp" => p.visit < c.visit /\ c.x = 0

CursorSteps == {m \in Spots \X Way \X Spots : Fits(m[1], m[2]) /\ m[3] = Past(m[1], m[2])}

LEMMA WayKinds ==
  ASSUME NEW c \in Way
  PROVE  \/ c.type = "Input" /\ c \in OnScreen /\ c.visit \in Nat /\ c.spot \in Int /\ c.event \in Events
         \/ c.type = "Warp" /\ c.visit \in Nat /\ c.x \in Int
         \/ c.type = "CursorReturned" /\ c = Returned
BY DEF Way, OnScreen, InputSet, Others, Returned

LEMMA CursorStep ==
  ASSUME NEW p \in Spots, NEW c \in Way, NEW q
  PROVE  /\ Past(p, c) \in Spots
         /\ Leads(CursorSteps, p, c, q) <=> Fits(p, c) /\ q = Past(p, c)
<1>1. p.visit \in Nat /\ p.at \in Int
  BY DEF Spots
<1>2. Past(p, c) \in Spots
  <2>1. \A visit \in Nat : Entered(p, visit) \in Int
    BY <1>1 DEF Entered
  <2>2. c.type = "Input" /\ c.event.type = "Pointer" => c.event.x \in Int
    BY DEF Way, OnScreen, Others, Returned
  <2> QED
    BY <2>1, <2>2, WayKinds DEF Past, Spots
<1> QED
  BY <1>2 DEF CursorSteps, Leads

IsWarp(c) == c.type = "Warp"
WarpIn(s, visit) == \E n \in DOMAIN s : IsWarp(s[n]) /\ s[n].visit = visit
Announced(s, r, visit) == WarpIn(s, visit) \/ WarpIn(r, visit)

\* The peer's cursor is on its h-th visit.  Whatever belongs to a later one is
\* announced by a Warp that is still on the way, and these come in order.
VisitsInOrder(h) ==
  /\ h <= visits
  /\ away /\ h < visits => Announced(control, commands, visits)
  /\ \A i \in DOMAIN wire :
       wire[i].visit <= visits /\ (h < wire[i].visit => WarpIn(control, wire[i].visit))
  /\ \A i \in DOMAIN commands :
       /\ commands[i].type = "Input" =>
            /\ commands[i].visit <= visits
            /\ h < commands[i].visit => Announced(control, commands, commands[i].visit)
       /\ IsWarp(commands[i]) => h < commands[i].visit /\ commands[i].visit <= visits
  /\ \A i \in DOMAIN control : IsWarp(control[i]) => h < control[i].visit /\ control[i].visit <= visits
                                                     /\ control[i].x = 0
  /\ \A i, j \in DOMAIN control :
       i < j /\ IsWarp(control[i]) /\ IsWarp(control[j]) => control[i].visit < control[j].visit
  /\ \A i, j \in DOMAIN commands :
       i < j /\ IsWarp(commands[i]) /\ IsWarp(commands[j]) => commands[i].visit < commands[j].visit
  /\ \A i \in DOMAIN control, j \in DOMAIN commands : IsWarp(control[i]) =>
       /\ IsWarp(commands[j]) => control[i].visit < commands[j].visit
       /\ commands[j].type = "Input" => control[i].visit <= commands[j].visit

\* The datagrams and the queue lead from where the peer's cursor is to where the
\* virtual cursor is, and every button on the way fits.
CursorTrail(h, t, u) ==
  /\ Walks(CursorSteps, t, wire) /\ Walks(CursorSteps, u, commands)
  /\ t[1] = [visit |-> h, at |-> desktop.at] /\ u[1] = EndOf(t)
  /\ EndOf(u).visit <= visits
  /\ away => Entered(EndOf(u), visits) = cursor

Tracked ==
  \E h \in Nat, t, u \in Seq(Spots) : VisitsInOrder(h) /\ CursorTrail(h, t, u)

\* What becomes of an event that is routed.
Routed ==
  \/ commands' = commands /\ visits' = visits /\ ~ away /\ ~ away'
  \/ /\ away /\ away' /\ visits' = visits
     /\ \E c \in OnScreen :
          /\ commands' = Append(commands, c) /\ c.visit = visits /\ c.spot = cursor
          /\ cursor' = IF c.event.type = "Pointer" THEN c.event.x ELSE cursor
  \/ /\ ~ away /\ away' /\ visits' = visits + 1 /\ cursor' = 0
     /\ commands' = Append(commands, [type |-> "Warp", x |-> 0, visit |-> visits + 1])
  \/ away /\ ~ away' /\ visits' = visits /\ commands' = Append(commands, Returned)

LEMMA RouteCases ==
  ASSUME InputTypes, PollAndRoute
  PROVE  Routed
<1> DEFINE c == Head(captured)
<1>1. HereTypes /\ c \in CapturedSet /\ away \in BOOLEAN
  BY DEF PollAndRoute, InputTypes, Flows, HereTypes
<1>2. CASE c.event.type # "Motion"
  <2>1. /\ commands' = IF away THEN Append(commands, Input(c.event, c)) ELSE commands
        /\ UNCHANGED <<away, cursor, visits>>
    BY <1>2 DEF PollAndRoute
  <2>2. c.event \in Events /\ c.event.type # "Pointer"
    BY <1>1, CapturedIsEvent DEF CapturedSet, RawEvents
  <2>3. ApplySwap(swap, c.event).type = c.event.type
    BY <1>1, <2>2, SwapTyped DEF HereTypes
  <2>4. Input(c.event, c) \in InputSet
    BY <1>1, <2>2, InputTyped
  <2>5. /\ Input(c.event, c).event = ApplySwap(swap, c.event)
        /\ Input(c.event, c).visit = visits /\ Input(c.event, c).spot = cursor
    BY DEF Input
  <2> HIDE DEF c
  <2>6. Input(c.event, c) \in OnScreen
    BY <1>2, <2>2, <2>3, <2>4, <2>5 DEF OnScreen
  <2> QED
    BY <1>1, <1>2, <2>1, <2>2, <2>3, <2>5, <2>6 DEF Routed
<1>3. CASE c.event.type = "Motion"
  <2>1. RouteMotion(c) /\ c.event.dx \in Int
    BY <1>1, <1>3 DEF PollAndRoute, CapturedSet, RawEvents
  <2>2. PICK x \in Int : AdvanceCursor(c, x) /\ ClampToScreen(x) \in 0..Width
    BY <1>1, <2>1, RouteFrom
  <2> DEFINE to == ClampToScreen(x)
             input == Input(PointerEvent(to), c)
  <2>3. to \in 0..Width /\ to \in Int
    BY <2>2, WidthAssumption
  <2>4. input \in InputSet
    BY <1>1, <2>3, InputTyped, PointerIsEvent
  <2>5. /\ input.event = [type |-> "Pointer", x |-> to]
        /\ input.visit = visits /\ input.spot = cursor
    BY DEF Input, ApplySwap, PointerEvent
  <2>6. \/ /\ ~ away /\ away' = TRUE /\ cursor' = 0 /\ commands' = Append(commands, WarpTo(0))
           /\ visits' = visits + 1
        \/ /\ away /\ away' = FALSE /\ commands' = Append(commands, Returned)
           /\ visits' = visits
        \/ /\ cursor' = to /\ UNCHANGED <<away, visits>>
           /\ IF away THEN commands' = Append(commands, input) ELSE commands' = commands
    BY <2>2 DEF AdvanceCursor, ForwardPointer
  <2> HIDE DEF to, c, input
  <2>7. input \in OnScreen
    BY <2>3, <2>4, <2>5 DEF OnScreen
  <2> QED
    BY <1>1, <2>5, <2>6, <2>7 DEF Routed, WarpTo
<1> QED
  BY <1>2, <1>3

\* All three are sequences of elements of the way.
LEMMA OnTheWay ==
  ASSUME Flows(CapturedSet, OnScreen)
  PROVE  /\ wire \in Seq(OnScreen) /\ wire \in Seq(Way) /\ commands \in Seq(Way)
         /\ control \in Seq(Others)
         /\ \A i \in DOMAIN wire : wire[i] \in OnScreen /\ wire[i] \in Way
         /\ \A i \in DOMAIN commands : commands[i] \in Way
         /\ \A i \in DOMAIN control : control[i] \in Others /\ control[i] \in Way
<1>1. wire \in Seq(OnScreen) /\ commands \in Seq(Way) /\ control \in Seq(Others)
  BY DEF Flows, Way
<1>2. OnScreen \subseteq Way /\ Others \subseteq Way
  BY DEF Way
<1> HIDE DEF Way
<1>3. wire \in Seq(Way)
  BY <1>1, <1>2
<1> QED
  BY <1>1, <1>2, <1>3

\* An element comes to the end of the queue.
LEMMA AppendVisits ==
  ASSUME Flows(CapturedSet, OnScreen), visits \in Nat, NEW h \in Nat, VisitsInOrder(h),
         NEW c \in Way, commands' = Append(commands, c), UNCHANGED <<control, wire>>,
         visits' \in Nat, visits <= visits',
         away' /\ h < visits' => Announced(control', commands', visits'),
         c.type = "Input" => c.visit = visits /\ visits' = visits /\ away,
         IsWarp(c) => c.visit = visits' /\ visits < visits'
  PROVE  VisitsInOrder(h)'
<1> DEFINE n == Len(commands)
<1>1. /\ commands \in Seq(Way) /\ control \in Seq(Others)
      /\ \A i \in DOMAIN wire : wire[i] \in OnScreen
      /\ \A i \in DOMAIN commands : commands[i] \in Way
      /\ \A i \in DOMAIN control : control[i] \in Way
  BY OnTheWay
<1>2. /\ n \in Nat /\ DOMAIN commands = 1..n /\ DOMAIN commands' = 1..(n + 1)
      /\ \A i \in 1..n : commands'[i] = commands[i]
      /\ commands'[n + 1] = c
  BY <1>1
<1> HIDE DEF n
<1>3. \A visit : Announced(control, commands, visit) => Announced(control', commands', visit)
  <2>1. ASSUME NEW visit, WarpIn(commands, visit) PROVE WarpIn(commands', visit)
    <3>1. PICK i \in DOMAIN commands : IsWarp(commands[i]) /\ commands[i].visit = visit
      BY <2>1 DEF WarpIn
    <3>2. i \in DOMAIN commands' /\ commands'[i] = commands[i]
      BY <1>2
    <3> QED
      BY <3>1, <3>2 DEF WarpIn
  <2> QED
    BY <2>1 DEF Announced
<1>4. \A i \in DOMAIN wire : wire[i].visit \in Nat
  BY <1>1 DEF OnScreen, InputSet
<1>5. \A d \in Way : (d.type = "Input" \/ IsWarp(d)) => d.visit \in Nat
  BY WayKinds DEF IsWarp
<1>6. \A i \in DOMAIN wire' :
        wire'[i].visit <= visits' /\ (h < wire'[i].visit => WarpIn(control', wire'[i].visit))
  BY <1>4 DEF VisitsInOrder
<1>7. ASSUME NEW i \in DOMAIN commands'
      PROVE  /\ commands'[i].type = "Input" =>
                  /\ commands'[i].visit <= visits'
                  /\ h < commands'[i].visit => Announced(control', commands', commands'[i].visit)
             /\ IsWarp(commands'[i]) => h < commands'[i].visit /\ commands'[i].visit <= visits'
  <2>1. CASE i \in 1..n
    <3>1. commands'[i] = commands[i] /\ commands[i] \in Way /\ i \in DOMAIN commands
      BY <1>1, <1>2, <2>1
    <3>2. commands[i].type = "Input" \/ IsWarp(commands[i]) => commands[i].visit \in Nat
      BY <1>5, <3>1
    <3> QED
      BY <1>3, <3>1, <3>2 DEF VisitsInOrder
  <2>2. CASE i = n + 1
    <3>1. commands'[i] = c
      BY <1>2, <2>2
    <3>2. c.type = "Input" /\ h < c.visit => Announced(control', commands', c.visit)
      BY <1>3 DEF VisitsInOrder
    <3>3. IsWarp(c) => h < c.visit
      BY <1>5 DEF VisitsInOrder
    <3> QED
      BY <3>1, <3>2, <3>3
  <2> QED
    BY <1>2, <2>1, <2>2
<1>8. \A i \in DOMAIN control' :
        IsWarp(control'[i]) => h < control'[i].visit /\ control'[i].visit <= visits' /\ control'[i].x = 0
  BY <1>1, <1>5 DEF VisitsInOrder
<1>9. ASSUME NEW i \in DOMAIN commands', NEW j \in DOMAIN commands',
             i < j, IsWarp(commands'[i]), IsWarp(commands'[j])
      PROVE  commands'[i].visit < commands'[j].visit
  <2>1. i \in 1..n /\ commands'[i] = commands[i] /\ commands[i].visit \in Nat
    BY <1>1, <1>2, <1>5, <1>9
  <2>2. CASE j \in 1..n
    BY <1>2, <1>9, <2>1, <2>2 DEF VisitsInOrder
  <2>3. CASE j = n + 1
    BY <1>2, <1>9, <2>1, <2>3 DEF VisitsInOrder
  <2> QED
    BY <1>2, <2>2, <2>3
<1>10. ASSUME NEW i \in DOMAIN control', NEW j \in DOMAIN commands', IsWarp(control'[i])
       PROVE  /\ IsWarp(commands'[j]) => control'[i].visit < commands'[j].visit
              /\ commands'[j].type = "Input" => control'[i].visit <= commands'[j].visit
  <2>1. control'[i] = control[i] /\ i \in DOMAIN control /\ control[i].visit \in Nat
    BY <1>1, <1>5, <1>10
  <2>2. CASE j \in 1..n
    BY <1>2, <1>10, <2>1, <2>2 DEF VisitsInOrder
  <2>3. CASE j = n + 1
    BY <1>2, <1>10, <2>1, <2>3 DEF VisitsInOrder
  <2> QED
    BY <1>2, <2>2, <2>3
<1>11. h <= visits'
  BY DEF VisitsInOrder
<1> QED
  BY <1>6, <1>7, <1>8, <1>9, <1>10, <1>11 DEF VisitsInOrder

\* The trail goes on past an element that comes to the end of the queue.
LEMMA AppendTrail ==
  ASSUME Flows(CapturedSet, OnScreen), NEW h \in Nat, NEW t \in Seq(Spots), NEW u \in Seq(Spots),
         CursorTrail(h, t, u),
         NEW c \in Way, commands' = Append(commands, c), UNCHANGED <<wire, desktop>>,
         Fits(EndOf(u), c), Past(EndOf(u), c).visit <= visits',
         away' => Entered(Past(EndOf(u), c), visits') = cursor'
  PROVE  \E v \in Seq(Spots) : CursorTrail(h, t, v)'
<1> DEFINE p == EndOf(u)
<1>1. commands \in Seq(Way)
  BY OnTheWay
<1>2. Walks(CursorSteps, t, wire) /\ Walks(CursorSteps, u, commands) /\ u[1] = EndOf(t)
  BY DEF CursorTrail
<1>4. p \in Spots
  BY <1>1, <1>2, WalkEnds
<1>5. Past(p, c) \in Spots /\ Leads(CursorSteps, p, c, Past(p, c))
  BY <1>4, CursorStep
<1> DEFINE q == Past(p, c)
<1>6. q \in Spots /\ Leads(CursorSteps, EndOf(u), c, q)
  BY <1>5
<1> HIDE DEF q
<1>7. PICK v \in Seq(Spots) :
        Walks(CursorSteps, v, Append(commands, c)) /\ v[1] = u[1] /\ EndOf(v) = q
  BY <1>1, <1>2, <1>6, WalkAppend
<1>8. CursorTrail(h, t, v)'
  <2>1. Walks(CursorSteps, t, wire') /\ Walks(CursorSteps, v, commands')
    BY <1>2, <1>7
  <2>2. t[1] = [visit |-> h, at |-> desktop'.at] /\ v[1] = EndOf(t)
    BY <1>2, <1>7 DEF CursorTrail
  <2>3. EndOf(v).visit <= visits' /\ (away' => Entered(EndOf(v), visits') = cursor')
    BY <1>7 DEF q
  <2> QED
    BY <2>1, <2>2, <2>3 DEF CursorTrail
<1> QED
  BY <1>8

LEMMA TrackedRoute ==
  ASSUME InputTypes, ThereTypes, Flows(CapturedSet, OnScreen), Tracked, PollAndRoute
  PROVE  Tracked'
<1>1. PICK h \in Nat, t \in Seq(Spots), u \in Seq(Spots) : VisitsInOrder(h) /\ CursorTrail(h, t, u)
  BY DEF Tracked
<1>2. UNCHANGED <<control, wire, desktop>>
  BY DEF PollAndRoute, peer
<1>3. visits \in Nat /\ away \in BOOLEAN
  BY DEF InputTypes, HereTypes
<1> DEFINE p == EndOf(u)
<1>4. p \in Spots /\ p.visit \in Nat /\ p.at \in Int /\ p.visit <= visits
  <2>1. Walks(CursorSteps, u, commands) /\ commands \in Seq(Way)
    BY <1>1, OnTheWay DEF CursorTrail
  <2>2. p \in Spots
    BY <2>1, WalkEnds
  <2> QED
    BY <1>1, <2>2 DEF CursorTrail, Spots
<1>5. away => Entered(p, visits) = cursor
  BY <1>1 DEF CursorTrail
<1>6. ASSUME NEW c \in Way, commands' = Append(commands, c), visits' \in Nat, visits <= visits',
             away' /\ h < visits' => Announced(control', commands', visits'),
             c.type = "Input" => c.visit = visits /\ visits' = visits /\ away,
             IsWarp(c) => c.visit = visits' /\ visits < visits',
             Fits(p, c), Past(p, c).visit <= visits',
             away' => Entered(Past(p, c), visits') = cursor'
      PROVE  Tracked'
  <2>1. VisitsInOrder(h)'
    BY <1>1, <1>2, <1>3, <1>6, AppendVisits
  <2>2. \E v \in Seq(Spots) : CursorTrail(h, t, v)'
    BY <1>1, <1>2, <1>6, AppendTrail
  <2> QED
    BY <2>1, <2>2 DEF Tracked
<1>7. ASSUME NEW c \in Way, commands' = Append(commands, c)
      PROVE  \A visit : WarpIn(commands, visit) => WarpIn(commands', visit)
  <2>1. commands \in Seq(Way)
    BY OnTheWay
  <2>2. \A i \in DOMAIN commands : i \in DOMAIN commands' /\ commands'[i] = commands[i]
    BY <1>7, <2>1
  <2> QED
    BY <2>2 DEF WarpIn
<1>8. CASE commands' = commands /\ visits' = visits /\ ~ away /\ ~ away'
  <2>1. VisitsInOrder(h)'
    BY <1>1, <1>2, <1>8 DEF VisitsInOrder
  <2>2. CursorTrail(h, t, u)'
    BY <1>1, <1>2, <1>8 DEF CursorTrail
  <2> QED
    BY <2>1, <2>2 DEF Tracked
<1>9. ASSUME away, away', visits' = visits, NEW c \in OnScreen, commands' = Append(commands, c),
             c.visit = visits, c.spot = cursor,
             cursor' = IF c.event.type = "Pointer" THEN c.event.x ELSE cursor
      PROVE  Tracked'
  <2>1. c \in Way /\ c.type = "Input" /\ ~ IsWarp(c)
    BY DEF Way, OnScreen, InputSet, IsWarp
  <2>2. h < visits' => Announced(control', commands', visits')
    BY <1>1, <1>2, <1>7, <1>9, <2>1 DEF VisitsInOrder, Announced
  <2>3. Fits(p, c)
    BY <1>4, <1>5, <1>9, <2>1 DEF Fits, IsWarp
  <2>4. Past(p, c).visit = visits /\ Entered(Past(p, c), visits) = cursor'
    BY <1>3, <1>5, <1>9, <2>1 DEF Past, Entered
  <2> QED
    BY <1>3, <1>6, <1>9, <2>1, <2>2, <2>3, <2>4
<1>10. ASSUME ~ away, away', visits' = visits + 1, cursor' = 0,
              NEW c, c = [type |-> "Warp", x |-> 0, visit |-> visits + 1],
              commands' = Append(commands, c)
       PROVE  Tracked'
  <2>1. c \in Way /\ c.type = "Warp" /\ IsWarp(c) /\ c.visit = visits + 1 /\ c.x = 0
    BY <1>3, <1>10 DEF Way, Others, IsWarp
  <2>2. Announced(control', commands', visits')
    <3>1. commands \in Seq(Way)
      BY OnTheWay
    <3>2. Len(commands) + 1 \in DOMAIN commands' /\ commands'[Len(commands) + 1] = c
      BY <1>10, <2>1, <3>1
    <3> QED
      BY <1>10, <2>1, <3>2 DEF Announced, WarpIn
  <2>3. Fits(p, c)
    BY <1>3, <1>4, <2>1 DEF Fits
  <2>4. Past(p, c).visit = visits' /\ Entered(Past(p, c), visits') = 0
    BY <1>3, <1>10, <2>1 DEF Past, Entered
  <2>5. visits' \in Nat /\ visits < visits' /\ visits <= visits' /\ visits' <= visits'
    BY <1>3, <1>10
  <2> QED
    BY <1>6, <1>10, <2>1, <2>2, <2>3, <2>4, <2>5
<1>11. CASE away /\ ~ away' /\ visits' = visits /\ commands' = Append(commands, Returned)
  <2> DEFINE c == Returned
  <2>1. c \in Way /\ c.type = "CursorReturned" /\ ~ IsWarp(c)
    BY DEF Way, Others, Returned, IsWarp
  <2> HIDE DEF c
  <2>2. Fits(p, c) /\ Past(p, c) = p
    BY <2>1 DEF Fits, Past
  <2>3. commands' = Append(commands, c)
    BY <1>11 DEF c
  <2> QED
    BY <1>3, <1>4, <1>6, <1>11, <2>1, <2>2, <2>3
<1> QED
  BY <1>8, <1>9, <1>10, <1>11, RouteCases DEF Routed

\* Nothing of the queue, the state and the control stream changes, and no
\* datagram comes.
LEMMA VisitsStay ==
  ASSUME NEW h \in Nat, VisitsInOrder(h), UNCHANGED <<visits, away, commands, control>>,
         \A i \in DOMAIN wire' : \E j \in DOMAIN wire : wire'[i] = wire[j]
  PROVE  VisitsInOrder(h)'
<1>1. \A i \in DOMAIN wire' :
        wire'[i].visit <= visits' /\ (h < wire'[i].visit => WarpIn(control', wire'[i].visit))
  BY DEF VisitsInOrder
<1> QED
  BY <1>1 DEF VisitsInOrder

\* The first datagram arrives on time and is injected: it finds the cursor where
\* it should be.
LEMMA TrackedReceived ==
  ASSUME InputTypes, ThereTypes, RateInv, Flows(CapturedSet, OnScreen), Tracked,
         NEW i \in DOMAIN wire, NEW soon \in BOOLEAN, RecvDatagram(i, soon), RecvFaults(i) = {}
  PROVE  /\ Tracked'
         /\ wire[i].event.type = "Button" => wire[i].spot = desktop.at
<1> DEFINE c == wire[1]
<1>1. PICK h \in Nat, t \in Seq(Spots), u \in Seq(Spots) : VisitsInOrder(h) /\ CursorTrail(h, t, u)
  BY DEF Tracked
<1>2. wire \in Seq(Way) /\ wire \in Seq(OnScreen)
  BY OnTheWay
<1>3. ~ (Refilled < 1) /\ ~ (i > 1) /\ ~ \E n \in DOMAIN control : Placed(control[n], wire[i])
  BY DEF RecvFaults
<1>4. i = 1 /\ wire # <<>>
  BY <1>2, <1>3
<1>5. c \in OnScreen /\ c \in Way /\ c.type = "Input" /\ c.visit \in Nat
  BY <1>2, <1>4 DEF OnScreen, InputSet, Way
<1>6. wire' = Tail(wire)
  <2>1. wire' = Retain(wire, DOMAIN wire \ {1})
    BY <1>4 DEF RecvDatagram, Without
  <2> QED
    BY <1>2, <1>4, <2>1, RetainAllButFirst
<1>7. UNCHANGED <<visits, away, cursor, commands, control>>
  BY DEF RecvDatagram, state
<1>8. Refilled >= 1
  <2>1. Refilled \in Int
    BY RefilledBounds DEF RateInv
  <2> QED
    BY <1>3, <2>1
<1>9. desktop' = InjectOf(c.event, soon).desktop
  BY <1>4, <1>8 DEF RecvDatagram
<1>10. c.visit <= h
  <2> SUFFICES ASSUME h < c.visit PROVE FALSE
    BY <1>5
  <2>1. WarpIn(control, c.visit)
    BY <1>1, <1>4 DEF VisitsInOrder
  <2>2. PICK n \in DOMAIN control : control[n].type = "Warp" /\ control[n].visit = c.visit
    BY <2>1 DEF WarpIn, IsWarp
  <2>3. Placed(control[n], wire[i])
    BY <1>4, <1>5, <2>2 DEF Placed
  <2> QED
    BY <1>3, <2>3
<1>11. /\ t[1] = [visit |-> h, at |-> desktop.at] /\ t[1] \in Spots
       /\ Walks(CursorSteps, t, wire) /\ Walks(CursorSteps, u, commands) /\ u[1] = EndOf(t)
  BY <1>1 DEF CursorTrail, Spots, ThereTypes, DesktopSet
<1>12. PICK v \in Seq(Spots) :
         /\ Walks(CursorSteps, v, wire') /\ Leads(CursorSteps, t[1], c, v[1])
         /\ EndOf(v) = EndOf(t)
  BY <1>2, <1>4, <1>6, <1>11, WalkTail
<1>13. Fits(t[1], c) /\ v[1] = Past(t[1], c)
  BY <1>5, <1>11, <1>12, CursorStep
<1>14. c.visit = h /\ (c.event.type = "Button" => c.spot = desktop.at)
  BY <1>5, <1>10, <1>11, <1>13 DEF Fits, Entered
<1>15. desktop'.at = IF c.event.type = "Pointer" THEN c.event.x ELSE desktop.at
  <2>1. Untouched(c.event, InjectOf(c.event, soon).desktop) /\ c.event \in Events
    BY <1>5, InjectTyped DEF InputTypes, HereTypes, OnScreen, InputSet
  <2>2. c.event.type # "Motion" /\ (c.event.type = "Pointer" => c.event.x \in 0..Width)
    BY <1>5 DEF OnScreen
  <2>3. c.event.type = "Pointer" => ClampToScreen(c.event.x) = c.event.x
    BY <2>2, WidthAssumption DEF ClampToScreen
  <2> QED
    BY <1>9, <2>1, <2>2, <2>3 DEF Untouched
<1>16. v[1] = [visit |-> h, at |-> desktop'.at]
  <2>1. Entered(t[1], c.visit) = desktop.at
    BY <1>11, <1>14 DEF Entered
  <2> QED
    BY <1>5, <1>13, <1>14, <1>15, <2>1 DEF Past
<1>17. CursorTrail(h, v, u)'
  <2>1. u[1] = EndOf(v)
    BY <1>11, <1>12
  <2>2. Walks(CursorSteps, u, commands')
    BY <1>7, <1>11
  <2>3. EndOf(u).visit <= visits' /\ (away' => Entered(EndOf(u), visits') = cursor')
    BY <1>1, <1>7 DEF CursorTrail
  <2> QED
    BY <1>12, <1>16, <2>1, <2>2, <2>3 DEF CursorTrail
<1>18. VisitsInOrder(h)'
  <2>1. \A k \in DOMAIN wire' : \E j \in DOMAIN wire : wire'[k] = wire[j]
    BY <1>2, <1>4, <1>6
  <2> QED
    BY <1>1, <1>7, <2>1, VisitsStay
<1> QED
  BY <1>4, <1>12, <1>14, <1>17, <1>18 DEF Tracked

\* The visit of the Warp that is first on the control stream has begun.
Raise(p, visit) == IF p.visit < visit THEN [visit |-> visit, at |-> 0] ELSE p

\* A walk of which the rest belongs to that visit or a later one: it makes no
\* difference whether it was announced on the way or before.
LEMMA WalkRaised ==
  ASSUME NEW s \in Seq(Way), NEW t \in Seq(Spots), Walks(CursorSteps, t, s), NEW visit \in Nat,
         \A i \in DOMAIN s : /\ s[i].type = "Input" => visit <= s[i].visit
                             /\ IsWarp(s[i]) => visit < s[i].visit
  PROVE  \E u \in Seq(Spots) :
           /\ Walks(CursorSteps, u, s)
           /\ u[1] = Raise(t[1], visit) /\ EndOf(u) = Raise(EndOf(t), visit)
<1> DEFINE f == [p \in Spots |-> Raise(p, visit)]
<1>1. \A p \in Spots : Raise(p, visit) \in Spots /\ f[p] = Raise(p, visit)
  BY DEF Raise, Spots
<1>2. f \in [Spots -> Spots]
  BY <1>1
<1>3. Len(s) \in Nat /\ DOMAIN s = 1..Len(s) /\ Len(t) = Len(s) + 1
  BY DEF Walks
<1>4. \A i \in 1..(Len(s) + 1) : t[i] \in Spots
  BY <1>3
<1> HIDE DEF f
<1>5. ASSUME NEW i \in DOMAIN s, Leads(CursorSteps, t[i], s[i], t[i + 1])
      PROVE  Leads(CursorSteps, f[t[i]], s[i], f[t[i + 1]])
  <2> DEFINE c == s[i]
             p == t[i]
             q == t[i + 1]
  <2>1. c \in Way /\ p \in Spots /\ q \in Spots
    <3>1. i \in 1..(Len(s) + 1) /\ i + 1 \in 1..(Len(s) + 1)
      BY <1>3
    <3> QED
      BY <1>4, <3>1
  <2>2. /\ c.type = "Input" => visit <= c.visit
        /\ c.type = "Warp" => visit < c.visit
    BY DEF IsWarp
  <2>3. Leads(CursorSteps, p, c, q)
    BY <1>5
  <2>4. f[p] \in Spots /\ f[p] = Raise(p, visit) /\ f[q] = Raise(q, visit)
    BY <1>1, <2>1
  <2> SUFFICES Leads(CursorSteps, f[p], c, f[q])
    OBVIOUS
  <2> HIDE DEF c, p, q
  <2>5. Fits(p, c) /\ q = Past(p, c)
    BY <2>1, <2>3, CursorStep
  <2>6. p.visit \in Nat
    BY <2>1 DEF Spots
  <2>7. Fits(Raise(p, visit), c) /\ Raise(q, visit) = Past(Raise(p, visit), c)
    <3>1. CASE c.type = "Input" /\ c.visit \in Nat
      <4>1. Entered(Raise(p, visit), c.visit) = Entered(p, c.visit)
        BY <2>2, <2>6, <3>1 DEF Entered, Raise
      <4>2. q.visit = c.visit
        BY <2>5, <3>1 DEF Past
      <4>3. Raise(q, visit) = q
        BY <2>2, <3>1, <4>2 DEF Raise
      <4>4. Raise(p, visit).visit <= c.visit
        BY <2>2, <2>5, <2>6, <3>1 DEF Raise, Fits
      <4> QED
        BY <2>5, <3>1, <4>1, <4>3, <4>4 DEF Fits, Past
    <3>2. CASE c.type = "Warp" /\ c.visit \in Nat
      <4>1. q = [visit |-> c.visit, at |-> 0]
        BY <2>5, <3>2 DEF Past
      <4>2. Raise(q, visit) = q
        BY <2>2, <3>2, <4>1 DEF Raise
      <4>3. Raise(p, visit).visit < c.visit /\ c.x = 0
        BY <2>2, <2>5, <2>6, <3>2 DEF Raise, Fits
      <4> QED
        BY <3>2, <4>1, <4>2, <4>3 DEF Fits, Past
    <3>3. CASE c.type = "CursorReturned"
      BY <2>5, <3>3 DEF Fits, Past
    <3> QED
      BY <2>1, <3>1, <3>2, <3>3, WayKinds
  <2> QED
    BY <2>1, <2>4, <2>7, CursorStep
<1>6. PICK u \in Seq(Spots) : Walks(CursorSteps, u, s) /\ u[1] = f[t[1]] /\ EndOf(u) = f[EndOf(t)]
  <2>1. StepsUnder(CursorSteps, t, s, f)
    BY <1>5 DEF StepsUnder
  <2> QED
    BY <1>2, <2>1, WalkMapped
<1>7. t[1] \in Spots /\ EndOf(t) \in Spots
  BY WalkEnds
<1> QED
  BY <1>1, <1>6, <1>7

\* The announcements that are left when the first of the control stream goes.
LEMMA AnnouncedLater ==
  ASSUME control \in Seq(Others), control # <<>>
  PROVE  /\ control[1] \in Others /\ 1 \in DOMAIN control
         /\ \A i \in DOMAIN Tail(control) :
              i + 1 \in DOMAIN control /\ 1 < i + 1 /\ Tail(control)[i] = control[i + 1]
         /\ \A visit : WarpIn(control, visit) /\ ~ (IsWarp(control[1]) /\ control[1].visit = visit)
                         => WarpIn(Tail(control), visit)
<1>1. control[1] \in Others /\ 1 \in DOMAIN control
  OBVIOUS
<1>2. \A i \in DOMAIN Tail(control) :
        i + 1 \in DOMAIN control /\ 1 < i + 1 /\ Tail(control)[i] = control[i + 1]
  OBVIOUS
<1>3. ASSUME NEW visit, WarpIn(control, visit),
             ~ (IsWarp(control[1]) /\ control[1].visit = visit)
      PROVE  WarpIn(Tail(control), visit)
  <2>1. PICK n \in DOMAIN control : IsWarp(control[n]) /\ control[n].visit = visit
    BY <1>3 DEF WarpIn
  <2>2. n # 1 /\ n \in Nat /\ n \in 1..Len(control) /\ Len(control) \in Nat
    BY <1>3, <2>1
  <2>3. n - 1 \in DOMAIN Tail(control) /\ Tail(control)[n - 1] = control[n]
    BY <2>2
  <2> QED
    BY <2>1, <2>3 DEF WarpIn
<1> QED
  BY <1>1, <1>2, <1>3

\* A Warp that overtakes no older input begins the next visit.
LEMMA TrackedControl ==
  ASSUME InputTypes, ThereTypes, Flows(CapturedSet, OnScreen), Tracked, RecvControl, faults' = {}
  PROVE  Tracked'
<1> DEFINE w == control[1]
<1>1. PICK h \in Nat, t \in Seq(Spots), u \in Seq(Spots) : VisitsInOrder(h) /\ CursorTrail(h, t, u)
  BY DEF Tracked
<1>2. /\ control # <<>> /\ control' = Tail(control) /\ Head(control) = w
      /\ UNCHANGED <<visits, away, cursor, commands, wire>>
  BY DEF RecvControl, state
<1>3. /\ control \in Seq(Others) /\ commands \in Seq(Way) /\ wire \in Seq(Way)
      /\ \A i \in DOMAIN wire : wire[i] \in OnScreen
      /\ \A i \in DOMAIN commands : commands[i] \in Way
      /\ \A i \in DOMAIN control : control[i] \in Way
  BY OnTheWay
<1>4. /\ w \in Others /\ 1 \in DOMAIN control
      /\ \A i \in DOMAIN control' :
           i + 1 \in DOMAIN control /\ 1 < i + 1 /\ control'[i] = control[i + 1]
      /\ \A visit : WarpIn(control, visit) /\ ~ (IsWarp(w) /\ w.visit = visit)
                      => WarpIn(control', visit)
  BY <1>2, <1>3, AnnouncedLater
<1>5. /\ Walks(CursorSteps, t, wire) /\ Walks(CursorSteps, u, commands)
      /\ t[1] = [visit |-> h, at |-> desktop.at] /\ u[1] = EndOf(t)
      /\ EndOf(u).visit <= visits /\ (away => Entered(EndOf(u), visits) = cursor)
  BY <1>1 DEF CursorTrail
<1>6. visits \in Nat
  BY DEF InputTypes, HereTypes
<1>7. \A d \in Way : (d.type = "Input" \/ IsWarp(d)) => d.visit \in Nat
  BY WayKinds DEF IsWarp
<1>8. \A i \in DOMAIN wire : wire[i].type = "Input" /\ wire[i].visit \in Nat
  BY <1>3 DEF OnScreen, InputSet
<1>9. \A i, j \in DOMAIN control' :
        i < j /\ IsWarp(control'[i]) /\ IsWarp(control'[j]) => control'[i].visit < control'[j].visit
  <2>1. \A i \in DOMAIN control' : i \in Nat
    BY <1>2, <1>3
  <2>2. \A i, j \in DOMAIN control' : i < j => i + 1 < j + 1
    BY <2>1
  <2> QED
    BY <1>1, <1>4, <2>2 DEF VisitsInOrder
<1>10. CASE IsWarp(w)
  <2>14. w.visit \in Nat
    BY <1>3, <1>4, <1>7, <1>10
  <2>15. PICK k \in Nat : k = w.visit
    BY <2>14
  <2>1. /\ k \in Nat /\ h < k /\ k <= visits /\ w.x = 0 /\ w.type = "Warp"
    BY <1>1, <1>4, <1>10, <2>15 DEF VisitsInOrder, IsWarp
  <2>2. \A i \in DOMAIN wire : k <= wire[i].visit
    <3>1. ~ \E i \in DOMAIN wire : ~ Placed(w, wire[i])
      BY <1>2, <2>1 DEF RecvControl
    <3> QED
      BY <2>1, <2>15, <3>1 DEF Placed
  <2>3. \A j \in DOMAIN commands : /\ commands[j].type = "Input" => k <= commands[j].visit
                                   /\ IsWarp(commands[j]) => k < commands[j].visit
    BY <1>1, <1>4, <1>10, <2>15 DEF VisitsInOrder
  <2>4. \A i \in DOMAIN control' : IsWarp(control'[i]) => k < control'[i].visit
    BY <1>1, <1>4, <1>10, <2>15 DEF VisitsInOrder
  <2>5. desktop'.at = 0
    <3>1. desktop' = PlaceCursor(desktop, w.x)
      BY <1>2, <2>1 DEF RecvControl
    <3> QED
      BY <2>1, <3>1 DEF PlaceCursor, ThereTypes, DesktopSet
  <2>6. VisitsInOrder(k)'
    <3>1. \A visit \in Nat : k < visit /\ WarpIn(control, visit) => WarpIn(control', visit)
      BY <1>4, <2>1, <2>15
    <3>2. \A visit \in Nat : k < visit /\ Announced(control, commands, visit)
                               => Announced(control', commands', visit)
      BY <1>2, <3>1 DEF Announced
    <3>3. away' /\ k < visits' => Announced(control', commands', visits')
      BY <1>1, <1>2, <1>6, <2>1, <3>2 DEF VisitsInOrder
    <3>4. \A i \in DOMAIN wire' :
            wire'[i].visit <= visits' /\ (k < wire'[i].visit => WarpIn(control', wire'[i].visit))
      BY <1>1, <1>2, <1>8, <2>1, <3>1 DEF VisitsInOrder
    <3>5. \A i \in DOMAIN commands' :
            /\ commands'[i].type = "Input" =>
                 /\ commands'[i].visit <= visits'
                 /\ k < commands'[i].visit => Announced(control', commands', commands'[i].visit)
            /\ IsWarp(commands'[i]) => k < commands'[i].visit /\ commands'[i].visit <= visits'
      BY <1>1, <1>2, <1>3, <1>7, <2>1, <2>3, <3>2 DEF VisitsInOrder
    <3>6. \A i \in DOMAIN control' :
            IsWarp(control'[i]) =>
              k < control'[i].visit /\ control'[i].visit <= visits' /\ control'[i].x = 0
      BY <1>1, <1>2, <1>4, <2>4 DEF VisitsInOrder
    <3>7. \A i \in DOMAIN control', j \in DOMAIN commands' : IsWarp(control'[i]) =>
            /\ IsWarp(commands'[j]) => control'[i].visit < commands'[j].visit
            /\ commands'[j].type = "Input" => control'[i].visit <= commands'[j].visit
      BY <1>1, <1>2, <1>4 DEF VisitsInOrder
    <3>8. \A i, j \in DOMAIN commands' :
            i < j /\ IsWarp(commands'[i]) /\ IsWarp(commands'[j])
              => commands'[i].visit < commands'[j].visit
      BY <1>1, <1>2 DEF VisitsInOrder
    <3> QED
      BY <1>2, <1>9, <2>1, <3>3, <3>4, <3>5, <3>6, <3>7, <3>8 DEF VisitsInOrder
  <2>7. \A i \in DOMAIN wire : /\ wire[i].type = "Input" => k <= wire[i].visit
                               /\ IsWarp(wire[i]) => k < wire[i].visit
    BY <1>8, <2>2 DEF IsWarp
  <2>8. PICK t2 \in Seq(Spots) :
          Walks(CursorSteps, t2, wire) /\ t2[1] = Raise(t[1], k) /\ EndOf(t2) = Raise(EndOf(t), k)
    BY <1>3, <1>5, <2>1, <2>7, WalkRaised
  <2>9. PICK u2 \in Seq(Spots) :
          Walks(CursorSteps, u2, commands) /\ u2[1] = Raise(u[1], k) /\ EndOf(u2) = Raise(EndOf(u), k)
    BY <1>3, <1>5, <2>1, <2>3, WalkRaised
  <2>10. t2[1] = [visit |-> k, at |-> desktop'.at]
    BY <1>5, <2>1, <2>5, <2>8 DEF Raise
  <2>11. u2[1] = EndOf(t2)
    BY <1>5, <2>8, <2>9
  <2>12. EndOf(u2).visit <= visits /\ (away => Entered(EndOf(u2), visits) = cursor)
    <3>1. EndOf(u) \in Spots
      BY <1>3, <1>5, WalkEnds
    <3>2. EndOf(u).visit \in Nat
      BY <3>1 DEF Spots
    <3> QED
      BY <1>5, <1>6, <2>1, <2>9, <3>2 DEF Raise, Entered
  <2>13. CursorTrail(k, t2, u2)'
    BY <1>2, <2>8, <2>9, <2>10, <2>11, <2>12 DEF CursorTrail
  <2> QED
    BY <2>1, <2>6, <2>13 DEF Tracked
<1>11. CASE ~ IsWarp(w)
  <2>1. desktop' = desktop
    BY <1>2, <1>11 DEF RecvControl, IsWarp
  <2>2. CursorTrail(h, t, u)'
    BY <1>2, <1>5, <2>1 DEF CursorTrail
  <2>3. \A visit : WarpIn(control, visit) => WarpIn(control', visit)
    BY <1>4, <1>11
  <2>4. VisitsInOrder(h)'
    <3>2. \A visit : Announced(control, commands, visit) => Announced(control', commands', visit)
      BY <1>2, <2>3 DEF Announced
    <3>3. away' /\ h < visits' => Announced(control', commands', visits')
      BY <1>1, <1>2, <3>2 DEF VisitsInOrder
    <3>4. \A i \in DOMAIN wire' :
            wire'[i].visit <= visits' /\ (h < wire'[i].visit => WarpIn(control', wire'[i].visit))
      BY <1>1, <1>2, <2>3 DEF VisitsInOrder
    <3>5. \A i \in DOMAIN commands' :
            /\ commands'[i].type = "Input" =>
                 /\ commands'[i].visit <= visits'
                 /\ h < commands'[i].visit => Announced(control', commands', commands'[i].visit)
            /\ IsWarp(commands'[i]) => h < commands'[i].visit /\ commands'[i].visit <= visits'
      BY <1>1, <1>2, <3>2 DEF VisitsInOrder
    <3>6. \A i \in DOMAIN control' :
            IsWarp(control'[i]) =>
              h < control'[i].visit /\ control'[i].visit <= visits' /\ control'[i].x = 0
      BY <1>1, <1>2, <1>4 DEF VisitsInOrder
    <3>7. \A i \in DOMAIN control', j \in DOMAIN commands' : IsWarp(control'[i]) =>
            /\ IsWarp(commands'[j]) => control'[i].visit < commands'[j].visit
            /\ commands'[j].type = "Input" => control'[i].visit <= commands'[j].visit
      BY <1>1, <1>2, <1>4 DEF VisitsInOrder
    <3>8. \A i, j \in DOMAIN commands' :
            i < j /\ IsWarp(commands'[i]) /\ IsWarp(commands'[j])
              => commands'[i].visit < commands'[j].visit
      BY <1>1, <1>2 DEF VisitsInOrder
    <3>9. h <= visits'
      BY <1>1, <1>2 DEF VisitsInOrder
    <3> QED
      BY <1>9, <3>3, <3>4, <3>5, <3>6, <3>7, <3>8, <3>9 DEF VisitsInOrder
  <2> QED
    BY <2>2, <2>4 DEF Tracked
<1> QED
  BY <1>10, <1>11

\* A pointer gives way to the one right after it.
GivesWay(s, j) == IsPointer(s[j]) /\ j < Len(s) /\ IsPointer(s[j + 1])

\* What the peer's task does to its queue: in the order they came, input goes to
\* the datagrams and the rest to the control stream.
SplitInto(sent, rest, from, other) ==
  /\ wire' = wire \o sent /\ control' = control \o rest
  /\ \A n \in DOMAIN sent : sent[n] = commands[from[n]] /\ commands[from[n]].type = "Input"
  /\ \A n \in DOMAIN rest : rest[n] = commands[other[n]] /\ commands[other[n]].type # "Input"
  /\ \A m, n \in DOMAIN sent : m < n => from[m] < from[n]
  /\ \A m, n \in DOMAIN rest : m < n => other[m] < other[n]
  /\ \A j \in DOMAIN commands :
       \/ \E n \in DOMAIN sent : from[n] = j
       \/ \E n \in DOMAIN rest : other[n] = j
       \/ GivesWay(commands, j)

LEMMA BatchSplits ==
  ASSUME NEW S, commands \in Seq(S), SendBatch
  PROVE  \E sent \in Seq(S), rest \in Seq(S) :
           \E from \in [DOMAIN sent -> DOMAIN commands], other \in [DOMAIN rest -> DOMAIN commands] :
             SplitInto(sent, rest, from, other)
<1> DEFINE stay   == {i \in DOMAIN commands : ~ GivesWay(commands, i)}
           batch  == Coalesce(commands)
           inputs == Inputs(batch)
           rests  == DOMAIN batch \ inputs
<1>1. stay \in SUBSET DOMAIN commands /\ batch = Retain(commands, stay)
  BY DEF Coalesce, GivesWay
<1>2. /\ wire' = wire \o Retain(batch, inputs)
      /\ control' = control \o Retain(batch, rests)
  BY DEF SendBatch
<1>3. /\ inputs \in SUBSET DOMAIN batch /\ rests \in SUBSET DOMAIN batch
      /\ \A i \in inputs : batch[i].type = "Input"
      /\ \A i \in rests : batch[i].type # "Input"
  BY DEF Inputs
<1>4. \A j \in DOMAIN commands : j \in stay \/ GivesWay(commands, j)
  OBVIOUS
<1>5. \A i \in DOMAIN batch : i \in inputs \/ i \in rests
  OBVIOUS
<1> HIDE DEF stay, batch, inputs, rests
<1>6. Retain(commands, stay) \in Seq(S) /\ \E f : Picks(f, Retain(commands, stay), commands, stay)
  BY <1>1, RetainPicks
<1>7. PICK f \in [DOMAIN batch -> stay] :
        /\ \A n \in DOMAIN batch : batch[n] = commands[f[n]]
        /\ \A m, n \in DOMAIN batch : m < n => f[m] < f[n]
        /\ \A i \in stay : \E n \in DOMAIN batch : f[n] = i
  BY <1>1, <1>6 DEF Picks
<1>8. batch \in Seq(S)
  BY <1>1, <1>6
<1>9. ASSUME NEW keep \in SUBSET DOMAIN batch
      PROVE  \E r \in Seq(S) : \E g \in [DOMAIN r -> DOMAIN commands] :
               /\ r = Retain(batch, keep)
               /\ \A n \in DOMAIN r : r[n] = commands[g[n]] /\ \E k \in keep : r[n] = batch[k]
               /\ \A m, n \in DOMAIN r : m < n => g[m] < g[n]
               /\ \A k \in keep : \E n \in DOMAIN r : g[n] = f[k]
  <2> DEFINE r == Retain(batch, keep)
  <2>1. Retain(batch, keep) \in Seq(S) /\ \E e : Picks(e, Retain(batch, keep), batch, keep)
    BY <1>8, RetainPicks
  <2>2. r \in Seq(S) /\ r = Retain(batch, keep)
    BY <2>1
  <2>3. PICK e \in [DOMAIN r -> keep] :
          /\ \A n \in DOMAIN r : r[n] = batch[e[n]]
          /\ \A m, n \in DOMAIN r : m < n => e[m] < e[n]
          /\ \A i \in keep : \E n \in DOMAIN r : e[n] = i
    BY <2>1 DEF Picks
  <2> HIDE DEF r
  <2> DEFINE g == [n \in DOMAIN r |-> f[e[n]]]
  <2>4. /\ \A n \in DOMAIN r : e[n] \in keep /\ e[n] \in DOMAIN batch /\ g[n] = f[e[n]]
        /\ \A n \in DOMAIN r : f[e[n]] \in DOMAIN commands
    BY <1>1, <1>7, <2>3
  <2>5. g \in [DOMAIN r -> DOMAIN commands]
    BY <2>4
  <2> HIDE DEF g
  <2>6. \A n \in DOMAIN r : r[n] = commands[g[n]] /\ \E k \in keep : r[n] = batch[k]
    BY <1>7, <2>3, <2>4
  <2>7. \A m, n \in DOMAIN r : m < n => g[m] < g[n]
    BY <1>7, <2>3, <2>4
  <2>8. \A k \in keep : \E n \in DOMAIN r : g[n] = f[k]
    BY <2>3, <2>4
  <2> QED
    BY <2>2, <2>5, <2>6, <2>7, <2>8
<1>10. PICK sent \in Seq(S) : \E g \in [DOMAIN sent -> DOMAIN commands] :
         /\ sent = Retain(batch, inputs)
         /\ \A n \in DOMAIN sent : sent[n] = commands[g[n]] /\ \E k \in inputs : sent[n] = batch[k]
         /\ \A m, n \in DOMAIN sent : m < n => g[m] < g[n]
         /\ \A k \in inputs : \E n \in DOMAIN sent : g[n] = f[k]
  BY <1>3, <1>9
<1>11. PICK from \in [DOMAIN sent -> DOMAIN commands] :
         /\ sent = Retain(batch, inputs)
         /\ \A n \in DOMAIN sent : sent[n] = commands[from[n]] /\ \E k \in inputs : sent[n] = batch[k]
         /\ \A m, n \in DOMAIN sent : m < n => from[m] < from[n]
         /\ \A k \in inputs : \E n \in DOMAIN sent : from[n] = f[k]
  BY <1>10
<1>12. PICK rest \in Seq(S) : \E g \in [DOMAIN rest -> DOMAIN commands] :
         /\ rest = Retain(batch, rests)
         /\ \A n \in DOMAIN rest : rest[n] = commands[g[n]] /\ \E k \in rests : rest[n] = batch[k]
         /\ \A m, n \in DOMAIN rest : m < n => g[m] < g[n]
         /\ \A k \in rests : \E n \in DOMAIN rest : g[n] = f[k]
  BY <1>3, <1>9
<1>13. PICK other \in [DOMAIN rest -> DOMAIN commands] :
         /\ rest = Retain(batch, rests)
         /\ \A n \in DOMAIN rest : rest[n] = commands[other[n]] /\ \E k \in rests : rest[n] = batch[k]
         /\ \A m, n \in DOMAIN rest : m < n => other[m] < other[n]
         /\ \A k \in rests : \E n \in DOMAIN rest : other[n] = f[k]
  BY <1>12
<1>14. \A n \in DOMAIN sent : sent[n] = commands[from[n]] /\ commands[from[n]].type = "Input"
  BY <1>3, <1>11
<1>15. \A n \in DOMAIN rest : rest[n] = commands[other[n]] /\ commands[other[n]].type # "Input"
  BY <1>3, <1>13
<1>16. ASSUME NEW j \in DOMAIN commands
       PROVE  \/ \E n \in DOMAIN sent : from[n] = j
              \/ \E n \in DOMAIN rest : other[n] = j
              \/ GivesWay(commands, j)
  <2>1. CASE j \in stay
    <3>1. PICK k \in DOMAIN batch : f[k] = j
      BY <1>7, <2>1
    <3> QED
      BY <1>5, <1>11, <1>13, <3>1
  <2> QED
    BY <1>4, <2>1
<1>17. SplitInto(sent, rest, from, other)
  <2>1. wire' = wire \o sent /\ control' = control \o rest
    BY <1>2, <1>11, <1>13
  <2> QED
    BY <1>11, <1>13, <1>14, <1>15, <1>16, <2>1 DEF SplitInto
<1> QED
  BY <1>17

\* Of a run of pointers the last one stays: before anything else, and at the end
\* of the queue, none has given way.
LEMMA NoneGaveWay ==
  ASSUME NEW s, Len(s) \in Nat, NEW a \in Nat, NEW b \in Nat, b <= Len(s) + 1,
         \A j \in a..(b - 1) : ~ IsPointer(s[j]) \/ GivesWay(s, j),
         b <= Len(s) => ~ IsPointer(s[b])
  PROVE  \A j \in a..(b - 1) : ~ IsPointer(s[j])
<1> SUFFICES ASSUME NEW j \in a..(b - 1), IsPointer(s[j]) PROVE FALSE
  OBVIOUS
<1> DEFINE T == {i \in Nat : i <= Len(s) /\ IsPointer(s[i])}
<1>1. j \in Nat /\ j < b /\ j \in T
  OBVIOUS
<1>2. ASSUME NEW i \in j..(b - 1), i \in T
      PROVE  i + 1 \in T
  <2>1. i \in a..(b - 1) /\ i \in Nat
    OBVIOUS
  <2>2. GivesWay(s, i)
    BY <1>2, <2>1
  <2> QED
    BY <2>1, <2>2 DEF GivesWay
<1> HIDE DEF T
<1>3. \A i \in j..b : i \in T
  BY <1>1, <1>2, Onwards
<1>4. b \in T
  BY <1>1, <1>3
<1> QED
  BY <1>4 DEF T

\* Over a gap from which no datagram comes the trail goes to no earlier visit;
\* and unless a pointer ends the gap, the cursor stays where it is.
LEMMA CursorStays ==
  ASSUME NEW s \in Seq(Way), NEW t \in Seq(Spots), Walks(CursorSteps, t, s),
         NEW a \in 1..(Len(s) + 1), NEW b \in 1..(Len(s) + 1), a <= b,
         \A j \in a..(b - 1) : s[j].type # "Input" \/ GivesWay(s, j)
  PROVE  /\ t[a].visit <= t[b].visit
         /\ (b <= Len(s) => ~ IsPointer(s[b])) =>
              \A visit \in Nat : t[b].visit <= visit => Entered(t[a], visit) = Entered(t[b], visit)
<1>1. /\ Len(s) \in Nat /\ DOMAIN s = 1..Len(s) /\ Len(t) = Len(s) + 1 /\ a \in Nat /\ b \in Nat
      /\ \A i \in 1..Len(s) : Leads(CursorSteps, t[i], s[i], t[i + 1])
  BY DEF Walks
<1>2. \A i \in 1..(Len(s) + 1) : t[i] \in Spots /\ t[i].visit \in Nat /\ t[i].at \in Int
  <2>1. \A i \in 1..(Len(s) + 1) : t[i] \in Spots
    BY <1>1
  <2> QED
    BY <2>1 DEF Spots
<1>3. \A i \in 1..Len(s) : i \in 1..(Len(s) + 1) /\ i + 1 \in 1..(Len(s) + 1) /\ s[i] \in Way
  BY <1>1
<1>4. ASSUME NEW i \in 1..Len(s)
      PROVE  Fits(t[i], s[i]) /\ t[i + 1] = Past(t[i], s[i])
  BY <1>1, <1>2, <1>3, CursorStep
<1>5. ASSUME NEW i \in 1..Len(s)
      PROVE  /\ t[i].visit <= t[i + 1].visit
             /\ s[i].type # "Input" => \A visit \in Nat :
                  t[i + 1].visit <= visit => Entered(t[i], visit) = Entered(t[i + 1], visit)
  <2> DEFINE p == t[i]
             q == t[i + 1]
             c == s[i]
  <2>1. p.visit \in Nat /\ q.visit \in Nat /\ c \in Way /\ Fits(p, c) /\ q = Past(p, c)
    BY <1>2, <1>3, <1>4
  <2> SUFFICES /\ p.visit <= q.visit
               /\ c.type # "Input" => \A visit \in Nat :
                    q.visit <= visit => Entered(p, visit) = Entered(q, visit)
    OBVIOUS
  <2> HIDE DEF p, q, c
  <2>2. CASE c.type = "Input"
    BY <2>1, <2>2 DEF Fits, Past
  <2>3. CASE c.type = "Warp" /\ c.visit \in Nat
    <3>1. q = [visit |-> c.visit, at |-> 0] /\ p.visit < c.visit
      BY <2>1, <2>3 DEF Fits, Past
    <3> QED
      BY <2>1, <2>3, <3>1 DEF Entered
  <2>4. CASE c.type = "CursorReturned"
    BY <2>1, <2>4 DEF Past
  <2> QED
    BY <2>1, <2>2, <2>3, <2>4, WayKinds
\* Nowhere does it go back.
<1>6. \A i \in a..b : \A j \in i..b : t[i].visit <= t[j].visit
  <2> SUFFICES ASSUME NEW i \in a..b PROVE \A j \in i..b : t[i].visit <= t[j].visit
    OBVIOUS
  <2> DEFINE T == {j \in i..b : t[i].visit <= t[j].visit}
  <2>1. i \in Nat /\ i \in 1..(Len(s) + 1) /\ i \in T
    BY <1>1, <1>2
  <2>2. ASSUME NEW j \in i..(b - 1), j \in T
        PROVE  j + 1 \in T
    <3>1. j \in 1..Len(s) /\ j \in 1..(Len(s) + 1) /\ j + 1 \in 1..(Len(s) + 1) /\ j + 1 \in i..b
      BY <1>1, <2>1
    <3>2. t[i].visit <= t[j].visit /\ t[j].visit <= t[j + 1].visit
      BY <1>5, <2>2, <3>1
    <3> QED
      BY <1>2, <2>1, <3>1, <3>2
  <2> HIDE DEF T
  <2>3. \A j \in i..b : j \in T
    BY <1>1, <2>1, <2>2, Onwards
  <2> QED
    BY <2>3 DEF T
<1>7. ASSUME b <= Len(s) => ~ IsPointer(s[b]), NEW visit \in Nat, t[b].visit <= visit
      PROVE  Entered(t[a], visit) = Entered(t[b], visit)
  <2>1. \A j \in a..(b - 1) : ~ IsPointer(s[j]) \/ GivesWay(s, j)
    BY DEF IsPointer
  <2>2. \A j \in a..(b - 1) : ~ IsPointer(s[j])
    <3>1. Len(s) \in Nat /\ a \in Nat /\ b \in Nat /\ b <= Len(s) + 1
      BY <1>1
    <3>2. b <= Len(s) => ~ IsPointer(s[b])
      BY <1>7
    <3> QED
      BY <2>1, <3>1, <3>2, NoneGaveWay
  <2>3. \A j \in a..(b - 1) : s[j].type # "Input"
    BY <2>2 DEF GivesWay
  <2> DEFINE T == {j \in a..b : Entered(t[a], visit) = Entered(t[j], visit)}
  <2>4. a \in T
    BY <1>1
  <2>5. ASSUME NEW j \in a..(b - 1), j \in T
        PROVE  j + 1 \in T
    <3>1. j \in 1..Len(s) /\ j + 1 \in a..b /\ j + 1 \in 1..(Len(s) + 1) /\ b \in (j + 1)..b
      BY <1>1
    <3>2. t[j + 1].visit <= visit
      <4>1. t[j + 1].visit <= t[b].visit
        BY <1>6, <3>1
      <4> QED
        BY <1>2, <1>7, <3>1, <4>1
    <3>3. Entered(t[j], visit) = Entered(t[j + 1], visit)
      BY <1>5, <2>3, <3>1, <3>2
    <3> QED
      BY <2>5, <3>1, <3>3
  <2> HIDE DEF T
  <2>6. \A j \in a..b : j \in T
    BY <1>1, <2>4, <2>5, Onwards
  <2>7. b \in T
    BY <1>1, <2>6
  <2> QED
    BY <2>7 DEF T
<1>8. t[a].visit <= t[b].visit
  <2>1. a \in a..b /\ b \in a..b
    BY <1>1
  <2> QED
    BY <1>6, <2>1
<1> QED
  BY <1>7, <1>8

\* What was announced in the queue is announced on the control stream.
LEMMA VisitsSent ==
  ASSUME InputTypes, Flows(CapturedSet, OnScreen), NEW h \in Nat, VisitsInOrder(h), SendBatch,
         \A i \in DOMAIN commands : IsWarp(commands[i]) => commands[i].x = 0
  PROVE  VisitsInOrder(h)'
<1>1. /\ commands \in Seq(Way) /\ control \in Seq(Way) /\ wire \in Seq(Way)
      /\ \A i \in DOMAIN wire : wire[i] \in OnScreen
      /\ \A i \in DOMAIN commands : commands[i] \in Way
      /\ \A i \in DOMAIN control : control[i] \in Way
  <2>1. Others \subseteq Way
    BY DEF Way
  <2> QED
    BY <2>1, OnTheWay
<1>2. PICK sent \in Seq(Way), rest \in Seq(Way) :
        \E from \in [DOMAIN sent -> DOMAIN commands], other \in [DOMAIN rest -> DOMAIN commands] :
          SplitInto(sent, rest, from, other)
  BY <1>1, BatchSplits
<1>3. PICK from \in [DOMAIN sent -> DOMAIN commands], other \in [DOMAIN rest -> DOMAIN commands] :
        SplitInto(sent, rest, from, other)
  BY <1>2
<1>4. /\ wire' = wire \o sent /\ control' = control \o rest /\ commands' = <<>>
      /\ visits' = visits /\ away' = away
  BY <1>3 DEF SplitInto, SendBatch, state
<1>5. /\ \A n \in DOMAIN sent :
           from[n] \in DOMAIN commands /\ sent[n] = commands[from[n]] /\ commands[from[n]].type = "Input"
      /\ \A n \in DOMAIN rest : other[n] \in DOMAIN commands /\ rest[n] = commands[other[n]]
      /\ \A m, n \in DOMAIN rest : m < n => other[m] < other[n]
      /\ \A j \in DOMAIN commands : ~ IsWarp(commands[j]) \/ \E n \in DOMAIN rest : other[n] = j
  <2>1. \A n \in DOMAIN sent : sent[n] = commands[from[n]] /\ commands[from[n]].type = "Input"
    BY <1>3 DEF SplitInto
  <2>2. \A n \in DOMAIN rest : rest[n] = commands[other[n]]
    BY <1>3 DEF SplitInto
  <2>3. \A m, n \in DOMAIN rest : m < n => other[m] < other[n]
    BY <1>3 DEF SplitInto
  <2>4. ASSUME NEW j \in DOMAIN commands
        PROVE  ~ IsWarp(commands[j]) \/ \E n \in DOMAIN rest : other[n] = j
    <3>1. \/ \E n \in DOMAIN sent : from[n] = j
          \/ \E n \in DOMAIN rest : other[n] = j
          \/ GivesWay(commands, j)
      BY <1>3 DEF SplitInto
    <3> QED
      BY <2>1, <3>1 DEF GivesWay, IsPointer, IsWarp
  <2> QED
    BY <2>1, <2>2, <2>3, <2>4
<1> DEFINE m == Len(wire)
           k == Len(control)
<1>6. /\ m \in Nat /\ DOMAIN wire = 1..m
      /\ \A i \in DOMAIN wire' : \/ i \in DOMAIN wire /\ wire'[i] = wire[i]
                                 \/ i - m \in DOMAIN sent /\ wire'[i] = sent[i - m]
  BY <1>1, <1>4
<1>7. /\ k \in Nat /\ DOMAIN control = 1..k
      /\ \A i \in DOMAIN control' : i \in Nat
      /\ \A i \in DOMAIN control' : \/ i <= k /\ i \in DOMAIN control /\ control'[i] = control[i]
                                    \/ k < i /\ i - k \in DOMAIN rest /\ control'[i] = rest[i - k]
      /\ \A i \in DOMAIN control : i \in DOMAIN control' /\ control'[i] = control[i]
      /\ \A i \in DOMAIN rest : k + i \in DOMAIN control' /\ control'[k + i] = rest[i]
  <2>1. DOMAIN control = 1..Len(control) /\ Len(control) \in Nat
    BY <1>1
  <2>2. JoinsAt(control \o rest, control, rest)
    BY <1>1, JoinedAt
  <2> QED
    BY <1>4, <2>1, <2>2 DEF JoinsAt
<1> HIDE DEF m, k
<1>8. \A visit : Announced(control, commands, visit) => WarpIn(control', visit)
  <2>1. ASSUME NEW visit, WarpIn(control, visit) PROVE WarpIn(control', visit)
    BY <1>7, <2>1 DEF WarpIn
  <2>2. ASSUME NEW visit, WarpIn(commands, visit) PROVE WarpIn(control', visit)
    <3>1. PICK j \in DOMAIN commands : IsWarp(commands[j]) /\ commands[j].visit = visit
      BY <2>2 DEF WarpIn
    <3>2. PICK n \in DOMAIN rest : other[n] = j
      BY <1>5, <3>1
    <3>3. k + n \in DOMAIN control' /\ control'[k + n] = commands[j]
      BY <1>5, <1>7, <3>2
    <3> QED
      BY <3>1, <3>3 DEF WarpIn
  <2> QED
    BY <2>1, <2>2 DEF Announced
<1>9. \A visit : WarpIn(control, visit) => Announced(control, commands, visit)
  BY DEF Announced
<1>10. ASSUME NEW i \in DOMAIN wire'
       PROVE  wire'[i].visit <= visits' /\ (h < wire'[i].visit => WarpIn(control', wire'[i].visit))
  <2>1. CASE i \in DOMAIN wire /\ wire'[i] = wire[i]
    BY <1>4, <1>8, <1>9, <2>1 DEF VisitsInOrder
  <2>2. CASE i - m \in DOMAIN sent /\ wire'[i] = sent[i - m]
    <3>1. PICK j \in DOMAIN commands : wire'[i] = commands[j] /\ commands[j].type = "Input"
      BY <1>5, <2>2
    <3> QED
      BY <1>4, <1>8, <3>1 DEF VisitsInOrder
  <2> QED
    BY <1>6, <2>1, <2>2
<1>11. ASSUME NEW i \in DOMAIN control', IsWarp(control'[i])
       PROVE  h < control'[i].visit /\ control'[i].visit <= visits' /\ control'[i].x = 0
  <2>1. CASE i \in DOMAIN control /\ control'[i] = control[i]
    BY <1>4, <1>11, <2>1 DEF VisitsInOrder
  <2>2. CASE i - k \in DOMAIN rest /\ control'[i] = rest[i - k]
    <3>1. PICK j \in DOMAIN commands : control'[i] = commands[j]
      BY <1>5, <2>2
    <3> QED
      BY <1>4, <1>11, <3>1 DEF VisitsInOrder
  <2> QED
    BY <1>7, <2>1, <2>2
<1>12. ASSUME NEW i \in DOMAIN control', NEW j \in DOMAIN control',
              i < j, IsWarp(control'[i]), IsWarp(control'[j])
       PROVE  control'[i].visit < control'[j].visit
  <2>0. i \in Nat /\ j \in Nat
    BY <1>7
  <2>1. CASE j <= k
    <3>1. /\ i \in DOMAIN control /\ control'[i] = control[i]
          /\ j \in DOMAIN control /\ control'[j] = control[j]
      BY <1>7, <1>12, <2>0, <2>1
    <3> QED
      BY <1>12, <3>1 DEF VisitsInOrder
  <2>2. CASE k < j /\ i <= k
    <3>1. i \in DOMAIN control /\ control'[i] = control[i] /\ j - k \in DOMAIN rest
          /\ control'[j] = rest[j - k]
      BY <1>7, <2>0, <2>2
    <3>2. PICK n \in DOMAIN commands : control'[j] = commands[n]
      BY <1>5, <3>1
    <3> QED
      BY <1>12, <3>1, <3>2 DEF VisitsInOrder
  <2>3. CASE k < j /\ k < i
    <3>1. /\ i - k \in DOMAIN rest /\ j - k \in DOMAIN rest /\ i - k < j - k
          /\ control'[i] = rest[i - k] /\ control'[j] = rest[j - k]
      BY <1>7, <1>12, <2>0, <2>3
    <3>2. /\ other[i - k] \in DOMAIN commands /\ other[j - k] \in DOMAIN commands
          /\ other[i - k] < other[j - k]
          /\ control'[i] = commands[other[i - k]] /\ control'[j] = commands[other[j - k]]
      BY <1>5, <3>1
    <3> QED
      BY <1>12, <3>2 DEF VisitsInOrder
  <2> QED
    BY <1>7, <2>0, <2>1, <2>2, <2>3
<1>13. away' /\ h < visits' => Announced(control', commands', visits')
  BY <1>4, <1>8 DEF VisitsInOrder, Announced
<1>14. h <= visits'
  BY <1>4 DEF VisitsInOrder
<1>15. DOMAIN commands' = {}
  BY <1>4
<1> QED
  BY <1>10, <1>11, <1>12, <1>13, <1>14, <1>15 DEF VisitsInOrder

\* What the queue held follows what is on the way.
LEMMA TrackedSend ==
  ASSUME InputTypes, Flows(CapturedSet, OnScreen), Tracked, SendBatch
  PROVE  Tracked'
<1>1. PICK h \in Nat, t \in Seq(Spots), u \in Seq(Spots) : VisitsInOrder(h) /\ CursorTrail(h, t, u)
  BY DEF Tracked
<1>2. commands \in Seq(Way) /\ wire \in Seq(Way) /\ \A i \in DOMAIN commands : commands[i] \in Way
  BY OnTheWay
<1>3. PICK sent \in Seq(Way), rest \in Seq(Way) :
        \E from \in [DOMAIN sent -> DOMAIN commands], other \in [DOMAIN rest -> DOMAIN commands] :
          SplitInto(sent, rest, from, other)
  BY <1>2, BatchSplits
<1>4. PICK from \in [DOMAIN sent -> DOMAIN commands], other \in [DOMAIN rest -> DOMAIN commands] :
        SplitInto(sent, rest, from, other)
  BY <1>3
<1>5. /\ wire' = wire \o sent /\ commands' = <<>>
      /\ UNCHANGED <<visits, away, cursor, desktop>>
  BY <1>4 DEF SplitInto, SendBatch, state, peer
<1>6. /\ Walks(CursorSteps, t, wire) /\ Walks(CursorSteps, u, commands)
      /\ t[1] = [visit |-> h, at |-> desktop.at] /\ u[1] = EndOf(t)
      /\ EndOf(u).visit <= visits /\ (away => Entered(EndOf(u), visits) = cursor)
  BY <1>1 DEF CursorTrail
<1> DEFINE n == Len(commands)
<1>7. /\ n \in Nat /\ DOMAIN commands = 1..n /\ Len(u) = n + 1
      /\ \A i \in 1..n : Leads(CursorSteps, u[i], commands[i], u[i + 1])
  BY <1>2, <1>6 DEF Walks
<1>8. \A i \in 1..(n + 1) : u[i] \in Spots /\ u[i].visit \in Nat
  <2>1. \A i \in 1..(n + 1) : u[i] \in Spots
    BY <1>7
  <2> QED
    BY <2>1 DEF Spots
<1>9. \A n1 \in DOMAIN sent : sent[n1] = commands[from[n1]] /\ commands[from[n1]].type = "Input"
  BY <1>4 DEF SplitInto
<1>10. \A k, l \in DOMAIN sent : k < l => from[k] < from[l]
  BY <1>4 DEF SplitInto
<1>11. ASSUME NEW j \in DOMAIN commands, \A k \in DOMAIN sent : from[k] # j
       PROVE  commands[j].type # "Input" \/ GivesWay(commands, j)
  <2>1. \/ \E n1 \in DOMAIN sent : from[n1] = j
        \/ \E n1 \in DOMAIN rest : other[n1] = j
        \/ GivesWay(commands, j)
    BY <1>4 DEF SplitInto
  <2>2. \A n1 \in DOMAIN rest : commands[other[n1]].type # "Input"
    BY <1>4 DEF SplitInto
  <2> QED
    BY <1>11, <2>1, <2>2
<1>12. ASSUME NEW i \in 1..n
       PROVE  Fits(u[i], commands[i]) /\ u[i + 1] = Past(u[i], commands[i])
  <2>1. i \in 1..(n + 1) /\ commands[i] \in Way
    BY <1>2, <1>7
  <2> QED
    BY <1>7, <1>8, <2>1, CursorStep
<1>13. VisitsInOrder(h)'
  <2>1. \A i \in DOMAIN commands : IsWarp(commands[i]) => commands[i].x = 0
    BY <1>7, <1>12 DEF Fits, IsWarp
  <2> QED
    BY <1>1, <2>1, VisitsSent
<1>14. ASSUME NEW a \in DOMAIN commands, NEW b \in DOMAIN commands, a <= b,
              \E k \in DOMAIN sent : from[k] = b,
              \A j \in a..(b - 1) : \A k \in DOMAIN sent : from[k] # j
       PROVE  Leads(CursorSteps, u[a], commands[b], u[b + 1])
  <2>1. a \in 1..(n + 1) /\ b \in 1..(n + 1) /\ a \in Nat /\ b \in Nat /\ b <= n
    BY <1>7
  <2>2. \A j \in a..(b - 1) : commands[j].type # "Input" \/ GivesWay(commands, j)
    <3>1. \A j \in a..(b - 1) : j \in DOMAIN commands
      BY <1>7, <2>1
    <3> QED
      BY <1>11, <1>14, <3>1
  <2>3. /\ u[a].visit <= u[b].visit
        /\ ~ IsPointer(commands[b]) =>
             \A visit \in Nat : u[b].visit <= visit => Entered(u[a], visit) = Entered(u[b], visit)
    <3>1. a \in 1..(Len(commands) + 1) /\ b \in 1..(Len(commands) + 1) /\ a <= b
      BY <1>14, <2>1
    <3>2. /\ u[a].visit <= u[b].visit
          /\ (b <= Len(commands) => ~ IsPointer(commands[b])) =>
               \A visit \in Nat : u[b].visit <= visit => Entered(u[a], visit) = Entered(u[b], visit)
      BY <1>2, <1>6, <2>2, <3>1, CursorStays
    <3> QED
      BY <3>2
  <2> DEFINE c == commands[b]
             p == u[a]
             q == u[b]
  <2>4. /\ c \in Way /\ c.type = "Input" /\ p \in Spots /\ q \in Spots
        /\ p.visit \in Nat /\ q.visit \in Nat /\ c.visit \in Nat
    <3>1. c \in Way /\ c.type = "Input"
      BY <1>2, <1>9, <1>14
    <3>2. c.visit \in Nat
      BY <3>1, WayKinds
    <3> QED
      BY <1>8, <2>1, <3>1, <3>2
  <2>5. Fits(q, c) /\ u[b + 1] = Past(q, c)
    BY <1>7, <1>12
  <2>6. /\ p.visit <= q.visit
        /\ c.event.type # "Pointer" => \A visit \in Nat : q.visit <= visit => Entered(p, visit) = Entered(q, visit)
    BY <2>3 DEF IsPointer
  <2> HIDE DEF c, p, q
  <2>7. Fits(p, c)
    BY <2>4, <2>5, <2>6 DEF Fits
  <2>8. Past(p, c) = Past(q, c)
    BY <2>4, <2>5, <2>6 DEF Past, Fits
  <2>9. Leads(CursorSteps, p, c, u[b + 1])
    BY <2>4, <2>5, <2>7, <2>8, CursorStep
  <2> QED
    BY <2>9 DEF c, p
<1>15. PICK w \in Seq(Spots), end \in 1..(Len(commands) + 1) :
         /\ Walks(CursorSteps, w, sent) /\ w[1] = u[1] /\ EndOf(w) = u[end]
         /\ \A j \in end..Len(commands) : \A k \in DOMAIN sent : from[k] # j
  <2>1. Skips(CursorSteps, u, commands, sent, from)
    BY <1>9, <1>10, <1>14 DEF Skips
  <2>2. PICK w \in Seq(Spots), end \in 1..(Len(commands) + 1) : SkipsTo(CursorSteps, w, end, u, commands, sent, from)
    BY <1>2, <1>6, <2>1, WalkOver
  <2> QED
    BY <2>2 DEF SkipsTo
<1>16. /\ u[end].visit <= u[n + 1].visit
       /\ \A visit \in Nat : u[n + 1].visit <= visit => Entered(u[end], visit) = Entered(u[n + 1], visit)
  <2>1. end \in 1..(n + 1) /\ n + 1 \in 1..(n + 1) /\ end <= n + 1 /\ (n + 1) - 1 = n
    BY <1>7
  <2>2. \A j \in end..n : commands[j].type # "Input" \/ GivesWay(commands, j)
    <3>1. \A j \in end..n : j \in DOMAIN commands
      BY <1>7, <2>1
    <3> QED
      BY <1>11, <1>15, <3>1
  <2> DEFINE b == n + 1
  <2>3. end \in 1..(Len(commands) + 1) /\ b \in 1..(Len(commands) + 1) /\ end <= b /\ ~ (b <= Len(commands))
    BY <1>7, <2>1
  <2>4. \A j \in end..(b - 1) : commands[j].type # "Input" \/ GivesWay(commands, j)
    BY <2>1, <2>2
  <2> HIDE DEF b
  <2>5. /\ u[end].visit <= u[b].visit
        /\ \A visit \in Nat : u[b].visit <= visit => Entered(u[end], visit) = Entered(u[b], visit)
    BY <1>2, <1>6, <2>3, <2>4, CursorStays
  <2> QED
    BY <2>5 DEF b
<1>17. EndOf(u) = u[n + 1]
  BY <1>7 DEF EndOf
<1>18. PICK v \in Seq(Spots) :
         Walks(CursorSteps, v, wire \o sent) /\ v[1] = t[1] /\ EndOf(v) = EndOf(w)
  <2>1. w[1] = EndOf(t) /\ Walks(CursorSteps, w, sent) /\ Walks(CursorSteps, t, wire)
    BY <1>6, <1>15
  <2> QED
    BY <1>2, <2>1, WalkOn
<1> DEFINE last == u[end]
           done == <<last>>
<1>19. /\ last \in Spots /\ last.visit \in Nat /\ last.visit <= visits
       /\ (away => Entered(last, visits) = cursor)
  <2>1. last \in Spots /\ last.visit \in Nat /\ visits \in Nat /\ u[n + 1].visit \in Nat
    BY <1>7, <1>8, <1>15 DEF InputTypes, HereTypes
  <2>2. u[n + 1].visit <= visits /\ (away => Entered(u[n + 1], visits) = cursor)
    BY <1>6, <1>17
  <2> HIDE DEF n
  <2>3. last.visit <= u[n + 1].visit /\ Entered(last, visits) = Entered(u[n + 1], visits)
    BY <1>16, <2>1, <2>2
  <2> HIDE DEF last
  <2> QED
    BY <2>1, <2>2, <2>3
<1>20. /\ done \in Seq(Spots) /\ Walks(CursorSteps, done, commands') /\ done[1] = last
       /\ EndOf(done) = last
  BY <1>5, <1>19 DEF Walks, EndOf
<1> HIDE DEF done, last, n
<1>21. CursorTrail(h, v, done)'
  <2>1. Walks(CursorSteps, v, wire') /\ v[1] = [visit |-> h, at |-> desktop'.at]
    BY <1>5, <1>6, <1>18
  <2>2. done[1] = EndOf(v)
    BY <1>15, <1>18, <1>20 DEF last
  <2>3. EndOf(done).visit <= visits' /\ (away' => Entered(EndOf(done), visits') = cursor')
    BY <1>5, <1>19, <1>20
  <2> QED
    BY <1>20, <2>1, <2>2, <2>3 DEF CursorTrail
<1> QED
  BY <1>13, <1>18, <1>20, <1>21 DEF Tracked

\* The session ends with nothing on the way.
LEMMA TrackedEnds ==
  ASSUME Flows(CapturedSet, OnScreen), Tracked, SessionEnds, faults' = {}
  PROVE  Tracked'
<1>1. PICK h \in Nat, t \in Seq(Spots), u \in Seq(Spots) : VisitsInOrder(h) /\ CursorTrail(h, t, u)
  BY DEF Tracked
<1>2. /\ control' = <<>> /\ wire' = <<>> /\ commands' = <<>> /\ away' = FALSE
      /\ UNCHANGED <<visits, desktop>>
  BY DEF SessionEnds, peer
<1>3. commands \o wire = <<>>
  BY DEF SessionEnds
<1>4. commands = <<>> /\ wire = <<>>
  <2>1. Len(commands \o wire) = 0 /\ commands \in Seq(Way) /\ wire \in Seq(Way)
    BY <1>3, OnTheWay
  <2>2. Len(commands) = 0 /\ Len(wire) = 0
    BY <2>1
  <2> QED
    BY <2>1, <2>2
<1>5. VisitsInOrder(h)'
  <2>1. DOMAIN control' = {} /\ DOMAIN wire' = {} /\ DOMAIN commands' = {} /\ h <= visits'
    BY <1>1, <1>2 DEF VisitsInOrder
  <2> QED
    BY <1>2, <2>1 DEF VisitsInOrder
<1>6. CursorTrail(h, t, u)'
  BY <1>1, <1>2, <1>4 DEF CursorTrail
<1> QED
  BY <1>5, <1>6 DEF Tracked

LEMMA TrackedElsewhere ==
  ASSUME Tracked, UNCHANGED <<away, cursor, visits, commands, control, wire, desktop>>
  PROVE  Tracked'
<1>1. PICK h \in Nat, t \in Seq(Spots), u \in Seq(Spots) : VisitsInOrder(h) /\ CursorTrail(h, t, u)
  BY DEF Tracked
<1>2. VisitsInOrder(h)'
  BY <1>1 DEF VisitsInOrder
<1>3. CursorTrail(h, t, u)'
  BY <1>1 DEF CursorTrail
<1> QED
  BY <1>2, <1>3 DEF Tracked

\* As long as nothing goes wrong, what is on the way leads from where the peer's
\* cursor is to where the virtual one is.
LandsInv ==
  /\ InputTypes /\ ThereTypes /\ RateInv /\ Flows(CapturedSet, OnScreen)
  /\ faults = {} => Tracked /\ injected.click[1] = injected.click[2]

LEMMA LandsInit == Init => LandsInv
<1> SUFFICES ASSUME Init PROVE LandsInv
  OBVIOUS
<1>1. InputTypes /\ ThereTypes /\ RateInv /\ Flows(CapturedSet, OnScreen)
  BY InputTypesInit, ThereInit, RateInit, FlowInit
<1> DEFINE p == [visit |-> 0, at |-> 0]
           t == <<p>>
<1>2. p \in Spots
  BY DEF Spots
<1> HIDE DEF p
<1>3. /\ t \in Seq(Spots) /\ EndOf(t) = p /\ t[1] = p
      /\ Walks(CursorSteps, t, wire) /\ Walks(CursorSteps, t, commands)
  BY <1>2 DEF Init, Walks, EndOf
<1> HIDE DEF t
<1>4. /\ captured = <<>> /\ commands = <<>> /\ control = <<>> /\ wire = <<>>
      /\ visits = 0 /\ away = FALSE /\ desktop.at = 0 /\ injected.click = <<0, 0>>
  BY DEF Init, NewDesktop
<1>5. VisitsInOrder(0)
  <2>1. DOMAIN commands = {} /\ DOMAIN control = {} /\ DOMAIN wire = {}
    BY <1>4
  <2> QED
    BY <1>4, <2>1 DEF VisitsInOrder
<1>6. CursorTrail(0, t, t)
  BY <1>3, <1>4 DEF CursorTrail, p
<1>7. Tracked
  <2>1. 0 \in Nat
    OBVIOUS
  <2> QED
    BY <1>3, <1>5, <1>6, <2>1 DEF Tracked
<1> QED
  BY <1>1, <1>4, <1>7 DEF LandsInv

\* Each step keeps the trail, if nothing goes wrong in it.
LEMMA LandsStep == LandsInv /\ [Next]_vars => LandsInv'
<1> SUFFICES ASSUME LandsInv, [Next]_vars PROVE LandsInv'
  OBVIOUS
<1>1. InputTypes /\ ThereTypes /\ RateInv /\ Flows(CapturedSet, OnScreen)
  BY DEF LandsInv
<1>2. InputTypes' /\ ThereTypes' /\ RateInv' /\ Flows(CapturedSet, OnScreen)'
  BY <1>1, InputTypesStep, ThereStep, RateStep, OnScreenStep
<1>3. ASSUME faults' = {} PROVE Tracked' /\ injected'.click[1] = injected'.click[2]
  <2>1. Tracked /\ injected.click[1] = injected.click[2]
    BY <1>3, FaultsStay DEF LandsInv
  <2>2. CASE PollAndRoute
    <3>1. injected' = injected
      BY <2>2 DEF PollAndRoute, peer
    <3> QED
      BY <1>1, <2>1, <2>2, <3>1, TrackedRoute
  <2>3. CASE SendBatch
    <3>1. injected' = injected
      BY <2>3 DEF SendBatch, peer
    <3> QED
      BY <1>1, <2>1, <2>3, <3>1, TrackedSend
  <2>4. CASE RecvControl
    <3>1. injected' = injected
      BY <2>4 DEF RecvControl
    <3> QED
      BY <1>1, <1>3, <2>1, <2>4, <3>1, TrackedControl
  <2>5. CASE SessionEnds
    <3>1. injected' = injected
      BY <2>5 DEF SessionEnds, peer
    <3> QED
      BY <1>1, <1>3, <2>1, <2>5, <3>1, TrackedEnds
  <2>6. ASSUME NEW i \in DOMAIN wire, NEW soon \in BOOLEAN, RecvDatagram(i, soon)
        PROVE  Tracked' /\ injected'.click[1] = injected'.click[2]
    <3>1. RecvFaults(i) = {}
      BY <1>3, <2>6 DEF RecvDatagram
    <3>2. Tracked' /\ (wire[i].event.type = "Button" => wire[i].spot = desktop.at)
      BY <1>1, <2>1, <2>6, <3>1, TrackedReceived
    <3>3. injected' = injected \/ injected' = InjectedAfter(wire[i])
      BY <2>6 DEF RecvDatagram
    <3>4. CASE injected' = InjectedAfter(wire[i])
      <4>1. injected'.click = IF wire[i].event.type = "Button"
                              THEN <<desktop.at, wire[i].spot>> ELSE injected.click
        BY <1>1, <3>4 DEF InjectedAfter, ThereTypes
      <4> QED
        BY <2>1, <3>2, <4>1
    <3> QED
      BY <2>1, <3>2, <3>3, <3>4
  <2>7. ASSUME NEW i \in DOMAIN wire, LoseDatagram(i) PROVE FALSE
    BY <1>3, <2>7 DEF LoseDatagram
  <2>8. ASSUME UNCHANGED <<away, cursor, visits, commands, control, wire, desktop>>,
               injected'.click = injected.click
        PROVE  Tracked' /\ injected'.click[1] = injected'.click[2]
    BY <2>1, <2>8, TrackedElsewhere
  <2>9. CASE Tick
    BY <2>8, <2>9 DEF Tick, state, net, peer
  <2>10. ASSUME NEW raw \in Strokes, Touch(raw)
         PROVE  Tracked' /\ injected'.click[1] = injected'.click[2]
    BY <2>8, <2>10 DEF Touch, state, net, peer
  <2>11. CASE ReaderTurns \/ SourceMishap \/ SourceRecovers
    BY <2>8, <2>11 DEF ReaderTurns, SourceMishap, SourceRecovers, state, net, peer
  <2>12. CASE ApplySuppression \/ PollIdle \/ SetModifierSwap
    BY <2>8, <2>12 DEF ApplySuppression, PollIdle, SetModifierSwap, state, net, peer
  <2>13. CASE UNCHANGED vars
    BY <2>8, <2>13 DEF vars, state, net, peer
  <2> QED
    BY <2>2, <2>3, <2>4, <2>5, <2>6, <2>7, <2>9, <2>10, <2>11, <2>12, <2>13 DEF Next
<1> QED
  BY <1>2, <1>3 DEF LandsInv

\* As long as nothing is lost, overtaken, refused or held across a crossing, a
\* click lands where the virtual cursor was when the button went down, however
\* the movements around it were collapsed, on whichever visit (coalesce_motion,
\* Pointer events, CursorWarp).
THEOREM ClicksAlwaysLand == Spec => []ClickLands
<1>1. LandsInv => ClickLands
  BY DEF LandsInv, ClickLands
<1> QED
  BY LandsInit, LandsStep, <1>1, PTL DEF Spec

-----------------------------------------------------------------------------
(* No key is stuck and none is missing                                     *)

LEMMA SidedAreModifiers ==
  ASSUME HereTypes
  PROVE  \A key \in scene.keys : IsModifierKey(key) => key.name \in Modifier
BY ScenesAssumption DEF HereTypes

\* The keys that are down and the state of Caps Lock, as one can know them who has
\* seen the events up to some point.
Pictures == [keys : SUBSET Key, caps : BOOLEAN]

CapsPast(p, key) == IF key = CapsLock /\ key \notin p.keys THEN ~ p.caps ELSE p.caps

\* What one more event makes of that (PostKey).
KeyPast(p, e) ==
  IF e.type # "Key" THEN p
  ELSE IF e.action = "Release" THEN [keys |-> p.keys \ {e.key}, caps |-> p.caps]
  ELSE [keys |-> p.keys \cup {e.key}, caps |-> CapsPast(p, e.key)]

LEMMA PicturePast ==
  ASSUME NEW p \in Pictures, NEW e \in Events
  PROVE  KeyPast(p, e) \in Pictures
<1>1. p.keys \in SUBSET Key /\ p.caps \in BOOLEAN
  BY DEF Pictures
<1>2. e.type = "Key" => e.key \in Key
  BY EventKinds DEF EventOf
<1>3. \A key : CapsPast(p, key) \in BOOLEAN
  BY <1>1 DEF CapsPast
<1>4. CASE e.type # "Key"
  BY <1>4 DEF KeyPast
<1>5. CASE e.type = "Key" /\ e.action = "Release"
  BY <1>1, <1>5 DEF KeyPast, Pictures
<1>6. CASE e.type = "Key" /\ e.action # "Release"
  BY <1>1, <1>2, <1>3, <1>6 DEF KeyPast, Pictures
<1> QED
  BY <1>4, <1>5, <1>6

\* On its way to a Windows peer an event carries the modifiers that are then down.
Suits(to, p, e) ==
  to = "Windows" /\ e.type = "Key" => e.modifiers = ModifiersOf(KeyPast(p, e).keys)

\* Where nothing was held when an event was made, nothing had been pressed before
\* it; Caps Lock on macOS comes as two events at once.
HeldBefore(p, c) == c.holding \/ p.keys = {} \/ IsCapsLock(c.event)

CapturedSteps(to) ==
  {m \in Pictures \X CapturedSet \X Pictures :
     /\ Suits(to, m[1], m[2].event) /\ HeldBefore(m[1], m[2])
     /\ m[3] = KeyPast(m[1], m[2].event)}

Commanded == InputSet \cup Others

SentSteps(to) ==
  {m \in Pictures \X Commanded \X Pictures :
     IF m[2].type = "Input"
     THEN Suits(to, m[1], m[2].event) /\ m[3] = KeyPast(m[1], m[2].event)
     ELSE m[3] = m[1]}

LEMMA CapturedStep ==
  ASSUME NEW to, NEW p \in Pictures, NEW c \in CapturedSet, NEW q
  PROVE  /\ KeyPast(p, c.event) \in Pictures
         /\ Leads(CapturedSteps(to), p, c, q)
              <=> Suits(to, p, c.event) /\ HeldBefore(p, c) /\ q = KeyPast(p, c.event)
<1>1. KeyPast(p, c.event) \in Pictures
  BY CapturedIsEvent, PicturePast
<1> QED
  BY <1>1 DEF CapturedSteps, Leads

LEMMA SentStep ==
  ASSUME NEW to, NEW p \in Pictures, NEW c \in Commanded, NEW q
  PROVE  /\ c.type = "Input" =>
              /\ c \in InputSet /\ c.event \in Events /\ KeyPast(p, c.event) \in Pictures
              /\ Leads(SentSteps(to), p, c, q)
                   <=> Suits(to, p, c.event) /\ q = KeyPast(p, c.event)
         /\ c.type # "Input" => (Leads(SentSteps(to), p, c, q) <=> q = p)
<1>1. c.type = "Input" => c \in InputSet /\ c.event \in Events
  BY DEF Commanded, InputSet, Others, Returned
<1>2. c.type = "Input" => KeyPast(p, c.event) \in Pictures
  BY <1>1, PicturePast
<1> HIDE DEF Pictures, Commanded
<1> QED
  BY <1>1, <1>2 DEF SentSteps, Leads

\* A key and a picture under the names that the link's swap gives.
LabelName(with, name) == IF with = "None" THEN name ELSE SwapName(name)
Label(with, key) == IF with = "None" THEN key ELSE SwapKey(key)
SwapPicture(with, p) == [keys |-> {Label(with, key) : key \in p.keys}, caps |-> p.caps]

LEMMA LabelKeys ==
  ASSUME NEW with \in Swap, NEW key \in Key
  PROVE  /\ Label(with, key) \in Key /\ Label(with, key).side = key.side
         /\ ~ IsModifierKey(key) => Label(with, key) = key
         /\ IsModifierKey(key) => Label(with, key).name = LabelName(with, key.name)
<1>1. key.side \in {"left", "right", "none"} /\ key.name \in Names
      /\ key = [side |-> key.side, name |-> key.name]
  BY DEF Key
<1>2. SwapName(key.name) \in Names
  BY <1>1, SwapNames
<1>3. [key EXCEPT !.name = SwapName(@)] = [side |-> key.side, name |-> SwapName(key.name)]
  BY <1>1
<1>4. [side |-> key.side, name |-> SwapName(key.name)] \in Key
  BY <1>1, <1>2 DEF Key
<1> QED
  BY <1>3, <1>4 DEF Label, LabelName, SwapKey

LEMMA LabelsDiffer ==
  ASSUME NEW with \in Swap, NEW j \in Key, NEW k \in Key, Label(with, j) = Label(with, k)
  PROVE  j = k
<1>1. j.side = k.side
  BY LabelKeys
<1>2. CASE ~ IsModifierKey(j)
  <2>1. ~ IsModifierKey(k)
    BY <1>1, <1>2 DEF IsModifierKey
  <2> QED
    BY <1>2, <2>1, LabelKeys
<1>3. CASE IsModifierKey(j)
  <2>1. IsModifierKey(k)
    BY <1>1, <1>3 DEF IsModifierKey
  <2>2. LabelName(with, j.name) = LabelName(with, k.name)
    BY <1>3, <2>1, LabelKeys
  <2>3. j.name = k.name
    BY <2>2 DEF LabelName, SwapName
  <2> QED
    BY <1>1, <2>3 DEF Key
<1> QED
  BY <1>2, <1>3

LEMMA LabelPlain ==
  ASSUME NEW with \in Swap, NEW key \in Key, NEW name
  PROVE  Label(with, key) = Plain(name) <=> key = Plain(name)
<1>1. Plain(name).side = "none"
  BY DEF Plain
<1> QED
  BY <1>1, LabelKeys DEF IsModifierKey

LEMMA LabelledModifiers ==
  ASSUME NEW with \in Swap, NEW keys \in SUBSET Key
  PROVE  ModifiersOf({Label(with, key) : key \in keys}) =
           {LabelName(with, name) : name \in ModifiersOf(keys)}
<1> DEFINE labelled == {Label(with, key) : key \in keys}
<1>1. \A key \in keys : /\ IsModifierKey(key) <=> IsModifierKey(Label(with, key))
                        /\ IsModifierKey(key) => Label(with, key).name = LabelName(with, key.name)
  BY LabelKeys DEF IsModifierKey
<1>2. ASSUME NEW name \in ModifiersOf(labelled)
      PROVE  name \in {LabelName(with, n) : n \in ModifiersOf(keys)}
  <2>1. PICK key \in keys : IsModifierKey(Label(with, key)) /\ name = Label(with, key).name
    BY DEF ModifiersOf
  <2>2. IsModifierKey(key) /\ name = LabelName(with, key.name)
    BY <1>1, <2>1
  <2>3. key.name \in ModifiersOf(keys)
    BY <2>2 DEF ModifiersOf
  <2> QED
    BY <2>2, <2>3
<1>3. ASSUME NEW n \in ModifiersOf(keys)
      PROVE  LabelName(with, n) \in ModifiersOf(labelled)
  <2>1. PICK key \in keys : IsModifierKey(key) /\ n = key.name
    BY DEF ModifiersOf
  <2>2. Label(with, key) \in labelled /\ IsModifierKey(Label(with, key))
        /\ LabelName(with, n) = Label(with, key).name
    BY <1>1, <2>1
  <2> HIDE DEF labelled
  <2> QED
    BY <2>2 DEF ModifiersOf
<1> HIDE DEF labelled
<1>4. ModifiersOf(labelled) = {LabelName(with, n) : n \in ModifiersOf(keys)}
  BY <1>2, <1>3
<1> QED
  BY <1>4 DEF labelled

\* Relabelling an event and taking it in is taking it in and relabelling the
\* picture: the swap merges no two keys.
LEMMA RoutedPast ==
  ASSUME NEW with \in Swap, NEW p \in Pictures, NEW e \in RawEvents
  PROVE  /\ SwapPicture(with, p) \in Pictures
         /\ KeyPast(SwapPicture(with, p), ApplySwap(with, e)) = SwapPicture(with, KeyPast(p, e))
         /\ \A to : Suits(to, p, e) => Suits(to, SwapPicture(with, p), ApplySwap(with, e))
<1> DEFINE x == ApplySwap(with, e)
           q == SwapPicture(with, p)
<1>1. p.keys \in SUBSET Key /\ p.caps \in BOOLEAN /\ e \in Events
  BY DEF Pictures, Events
<1>2. /\ q = [keys |-> {Label(with, key) : key \in p.keys}, caps |-> p.caps]
      /\ q.keys = {Label(with, key) : key \in p.keys} /\ q.caps = p.caps
  BY DEF SwapPicture
<1>3. q \in Pictures
  BY <1>1, <1>2, LabelKeys DEF Pictures
<1>4. x.type = e.type
  BY <1>1, SwapTyped
<1>5. CASE e.type # "Key"
  BY <1>3, <1>4, <1>5 DEF KeyPast, Suits
<1>6. CASE e.type = "Key"
  <2>1. /\ e.key \in Key /\ e.modifiers \in SUBSET Names /\ e.action \in Action
        /\ e = [type |-> "Key", key |-> e.key, action |-> e.action, modifiers |-> e.modifiers]
    BY <1>6 DEF RawEvents
  <2>2. /\ x.key = Label(with, e.key) /\ x.action = e.action
        /\ x.modifiers = {LabelName(with, name) : name \in e.modifiers}
    <3>1. CASE with = "None"
      BY <2>1, <3>1 DEF ApplySwap, Label, LabelName
    <3>2. CASE with # "None"
      BY <1>6, <2>1, <3>2 DEF ApplySwap, Label, LabelName, SwapModifiers
    <3> QED
      BY <3>1, <3>2
  <2> DEFINE after == KeyPast(p, e)
  <2>3. KeyPast(q, x) = SwapPicture(with, after)
    <3>1. \A j, k \in Key : Label(with, j) = Label(with, k) => j = k
      BY LabelsDiffer
    <3> HIDE DEF q, x
    <3>2. CASE e.action = "Release"
      <4>1. KeyPast(q, x) = [keys |-> q.keys \ {x.key}, caps |-> q.caps]
        BY <1>4, <1>6, <2>2, <3>2 DEF KeyPast
      <4>2. after = [keys |-> p.keys \ {e.key}, caps |-> p.caps]
        BY <1>6, <3>2 DEF KeyPast
      <4>3. q.keys \ {x.key} = {Label(with, key) : key \in p.keys \ {e.key}}
        BY <1>1, <1>2, <2>1, <2>2, <3>1
      <4> QED
        BY <1>2, <4>1, <4>2, <4>3 DEF SwapPicture
    <3>3. CASE e.action # "Release"
      <4>1. KeyPast(q, x) = [keys |-> q.keys \cup {x.key}, caps |-> CapsPast(q, x.key)]
        BY <1>4, <1>6, <2>2, <3>3 DEF KeyPast
      <4>2. after = [keys |-> p.keys \cup {e.key}, caps |-> CapsPast(p, e.key)]
        BY <1>6, <3>3 DEF KeyPast
      <4>3. q.keys \cup {x.key} = {Label(with, key) : key \in p.keys \cup {e.key}}
        BY <1>2, <2>2
      <4>4. x.key = CapsLock <=> e.key = CapsLock
        BY <2>1, <2>2, LabelPlain DEF CapsLock
      <4>5. x.key \in q.keys <=> e.key \in p.keys
        BY <1>1, <1>2, <2>1, <2>2, <3>1
      <4>6. CapsPast(q, x.key) = CapsPast(p, e.key)
        BY <1>2, <4>4, <4>5 DEF CapsPast
      <4> DEFINE keys == p.keys \cup {e.key}
                 caps == CapsPast(p, e.key)
      <4>7. after.keys = keys /\ after.caps = caps
        BY <4>2
      <4>8. q.keys \cup {x.key} = {Label(with, key) : key \in keys}
        BY <4>3
      <4>9. CapsPast(q, x.key) = caps
        BY <4>6
      <4> HIDE DEF keys, caps, after
      <4>10. KeyPast(q, x) = [keys |-> {Label(with, key) : key \in keys}, caps |-> caps]
        BY <4>1, <4>8, <4>9
      <4>11. SwapPicture(with, after) = [keys |-> {Label(with, key) : key \in keys}, caps |-> caps]
        BY <4>7 DEF SwapPicture
      <4> QED
        BY <4>10, <4>11
    <3> QED
      BY <3>2, <3>3
  <2>4. after.keys \in SUBSET Key
    BY <1>1, PicturePast DEF Pictures
  <2>5. ASSUME NEW to, Suits(to, p, e) PROVE Suits(to, q, x)
    <3>1. SwapPicture(with, after).keys = {Label(with, key) : key \in after.keys}
      BY DEF SwapPicture
    <3>2. ModifiersOf(KeyPast(q, x).keys) = {LabelName(with, name) : name \in ModifiersOf(after.keys)}
      BY <2>3, <2>4, <3>1, LabelledModifiers
    <3> QED
      BY <1>6, <2>2, <2>5, <3>2 DEF Suits
  <2> QED
    BY <1>3, <2>3, <2>5
<1> QED
  BY <1>3, <1>5, <1>6

\* What the events tell that a capturing adapter reports: macOS has no name for
\* some keys, and of Caps Lock it reports only that it went on or off.
Taken(h) ==
  [keys |-> {key \in h.keys : scene.from = "Mac" => Mac!Carried(key) /\ key # CapsLock},
   caps |-> h.locked]

\* What of it the peer's system has names for.
Known(to, keys) == {key \in keys : to = "Mac" => Mac!Carried(key)}

\* The macOS adapter toggles, so it must agree with the keyboard.
SourceTracks ==
  scene.from = "Mac" => /\ source.caps = hands.locked
                        /\ source.held = {key \in hands.keys : IsModifierKey(key)}

\* What the capture thread has still to route leads to the keys that are down.
Heading(h) == Walks(CapturedSteps(scene.to), h, captured) /\ EndOf(h) = Taken(hands)

\* What is on the way leads on from the keys the peer's desktop takes to be down.
Underway(c, w) ==
  /\ Walks(SentSteps(scene.to), c, commands) /\ Walks(SentSteps(scene.to), w, wire)
  /\ EndOf(w) = c[1]
  /\ desktop.keys = Known(scene.to, w[1].keys) /\ desktop.caps = w[1].caps

\* The next event goes to this machine's desktop and sets the two Caps Locks apart.
Apart == ~ away /\ captured # <<>> /\ IsCapsLock(Head(captured).event)

\* Where the one ends the other begins; while input stays here the peer has
\* nothing held down and the same Caps Lock.
Joined(p, q) ==
  IF away THEN q = SwapPicture(swap, p)
  ELSE Apart \/ (q.keys = {} /\ q.caps = p.caps)

KeysTracked ==
  \E h, c, w \in Seq(Pictures) : Heading(h) /\ Underway(c, w) /\ Joined(h[1], EndOf(c))

LEMMA KeysFlow ==
  ASSUME InputTypes
  PROVE  /\ Taken(hands) \in Pictures
         /\ captured \in Seq(CapturedSet) /\ wire \in Seq(Commanded) /\ commands \in Seq(Commanded)
         /\ \A i \in DOMAIN captured : captured[i] \in CapturedSet
         /\ \A i \in DOMAIN wire : wire[i] \in Commanded /\ wire[i] \in InputSet
         /\ \A i \in DOMAIN commands : commands[i] \in Commanded
<1>1. Taken(hands) \in Pictures
  <2>1. hands.keys \in SUBSET Key /\ hands.locked \in BOOLEAN
    BY SceneKeys DEF InputTypes, HereTypes
  <2> QED
    BY <2>1 DEF Taken, Pictures
<1>2. /\ captured \in Seq(CapturedSet) /\ wire \in Seq(InputSet) /\ commands \in Seq(Commanded)
      /\ InputSet \subseteq Commanded
  BY DEF InputTypes, Flows, Commanded
<1> HIDE DEF CapturedSet, InputSet, Commanded
<1>3. wire \in Seq(Commanded)
  BY <1>2
<1> QED
  BY <1>1, <1>2, <1>3

\* At the start nothing is down and nothing on the way.
LEMMA KeysInit == Init => SourceTracks /\ KeysTracked
<1> SUFFICES ASSUME Init PROVE SourceTracks /\ KeysTracked
  OBVIOUS
<1>1. /\ captured = <<>> /\ commands = <<>> /\ wire = <<>> /\ away = FALSE
      /\ hands.keys = {} /\ hands.locked = FALSE
      /\ desktop.keys = {} /\ desktop.caps = FALSE
  BY DEF Init, NewDesktop
<1> DEFINE p == [keys |-> {}, caps |-> FALSE]
           t == <<p>>
<1>2. p \in Pictures /\ p.keys = {} /\ p.caps = FALSE /\ Taken(hands) = p
  BY <1>1 DEF Pictures, Taken
<1> HIDE DEF p
<1>3. /\ t \in Seq(Pictures) /\ EndOf(t) = p /\ t[1] = p
      /\ \A R : Walks(R, t, captured) /\ Walks(R, t, commands) /\ Walks(R, t, wire)
  BY <1>1, <1>2 DEF Walks, EndOf
<1> HIDE DEF t
<1>4. Heading(t)
  BY <1>2, <1>3 DEF Heading
<1>5. Underway(t, t)
  BY <1>1, <1>2, <1>3 DEF Underway, Known
<1>6. Joined(t[1], EndOf(t))
  BY <1>1, <1>2, <1>3 DEF Joined
<1>7. SourceTracks
  <2>1. scene.from = "Mac" => source = Mac!NewSource
    BY DEF Init
  <2>2. Mac!NewSource.caps = FALSE /\ Mac!NewSource.held = {}
    BY DEF Mac!NewSource
  <2> QED
    BY <1>1, <2>1, <2>2 DEF SourceTracks
<1> QED
  BY <1>3, <1>4, <1>5, <1>6, <1>7 DEF KeysTracked

\* A command comes to the end of the queue.
LEMMA UnderwayAppend ==
  ASSUME InputTypes, NEW c \in Seq(Pictures), NEW w \in Seq(Pictures), Underway(c, w),
         NEW x \in Commanded, NEW q \in Pictures, Leads(SentSteps(scene.to), EndOf(c), x, q),
         commands' = Append(commands, x), UNCHANGED <<scene, wire, desktop>>
  PROVE  \E d \in Seq(Pictures) : Underway(d, w)' /\ EndOf(d) = q
<1>1. commands \in Seq(Commanded)
  BY KeysFlow
<1>2. Walks(SentSteps(scene.to), c, commands)
  BY DEF Underway
<1>3. PICK d \in Seq(Pictures) :
        Walks(SentSteps(scene.to), d, Append(commands, x)) /\ d[1] = c[1] /\ EndOf(d) = q
  BY <1>1, <1>2, WalkAppend
<1>4. Underway(d, w)'
  BY <1>3 DEF Underway
<1> QED
  BY <1>3, <1>4

\* Movements and what goes to the control stream leave the keys as they are.
LEMMA PictureStays ==
  ASSUME NEW to, NEW s \in Seq(Commanded), NEW t \in Seq(Pictures), Walks(SentSteps(to), t, s),
         NEW a \in 1..(Len(s) + 1), NEW b \in 1..(Len(s) + 1), a <= b,
         \A j \in a..(b - 1) : s[j].type # "Input" \/ GivesWay(s, j)
  PROVE  t[a] = t[b]
<1>1. /\ Len(s) \in Nat /\ DOMAIN s = 1..Len(s) /\ Len(t) = Len(s) + 1 /\ a \in Nat /\ b \in Nat
      /\ \A i \in 1..Len(s) : Leads(SentSteps(to), t[i], s[i], t[i + 1])
      /\ \A i \in 1..Len(s) : s[i] \in Commanded /\ t[i] \in Pictures
  BY DEF Walks
<1> DEFINE T == {i \in Nat : t[i] = t[a]}
<1>2. ASSUME NEW i \in a..(b - 1), i \in T
      PROVE  i + 1 \in T
  <2>1. i \in 1..Len(s)
    BY <1>1
  <2>2. Leads(SentSteps(to), t[i], s[i], t[i + 1]) /\ s[i] \in Commanded /\ t[i] \in Pictures
    BY <1>1, <2>1
  <2>3. t[i + 1] = t[i]
    <3>1. CASE s[i].type # "Input"
      BY <2>2, <3>1, SentStep
    <3>2. CASE s[i].type = "Input"
      <4>1. t[i + 1] = KeyPast(t[i], s[i].event)
        BY <2>2, <3>2, SentStep
      <4>2. s[i].event.type = "Pointer"
        BY <3>2 DEF GivesWay, IsPointer
      <4> QED
        BY <4>1, <4>2 DEF KeyPast
    <3> QED
      BY <3>1, <3>2
  <2> QED
    BY <1>2, <2>1, <2>3
<1>3. a \in T
  BY <1>1
<1> HIDE DEF T
<1>4. \A i \in a..b : i \in T
  BY <1>1, <1>2, <1>3, Onwards
<1> QED
  BY <1>1, <1>4 DEF T

LEMMA UnderwaySent ==
  ASSUME InputTypes, NEW c \in Seq(Pictures), NEW w \in Seq(Pictures), Underway(c, w), SendBatch
  PROVE  \E d, v \in Seq(Pictures) : Underway(d, v)' /\ EndOf(d) = EndOf(c)
<1>1. commands \in Seq(Commanded) /\ wire \in Seq(Commanded)
  BY KeysFlow
<1>2. PICK sent \in Seq(Commanded), rest \in Seq(Commanded) :
        \E from \in [DOMAIN sent -> DOMAIN commands], other \in [DOMAIN rest -> DOMAIN commands] :
          SplitInto(sent, rest, from, other)
  BY <1>1, BatchSplits
<1>3. PICK from \in [DOMAIN sent -> DOMAIN commands], other \in [DOMAIN rest -> DOMAIN commands] :
        SplitInto(sent, rest, from, other)
  BY <1>2
<1>4. wire' = wire \o sent /\ commands' = <<>> /\ UNCHANGED <<scene, desktop>>
  BY <1>3 DEF SplitInto, SendBatch, peer
<1> DEFINE R == SentSteps(scene.to)
           n == Len(commands)
<1>5. /\ Walks(R, c, commands) /\ Walks(R, w, wire) /\ EndOf(w) = c[1]
      /\ desktop.keys = Known(scene.to, w[1].keys) /\ desktop.caps = w[1].caps
  BY DEF Underway
<1>6. /\ n \in Nat /\ DOMAIN commands = 1..n /\ Len(c) = n + 1
      /\ \A i \in 1..n : Leads(R, c[i], commands[i], c[i + 1])
      /\ \A i \in 1..(n + 1) : c[i] \in Pictures
  BY <1>1, <1>5 DEF Walks
<1>7. ASSUME NEW j \in DOMAIN commands, \A k \in DOMAIN sent : from[k] # j
      PROVE  commands[j].type # "Input" \/ GivesWay(commands, j)
  <2>1. \/ \E k \in DOMAIN sent : from[k] = j
        \/ \E k \in DOMAIN rest : other[k] = j
        \/ GivesWay(commands, j)
    BY <1>3 DEF SplitInto
  <2>2. \A k \in DOMAIN rest : commands[other[k]].type # "Input"
    BY <1>3 DEF SplitInto
  <2> QED
    BY <1>7, <2>1, <2>2
<1> HIDE DEF R, n
\* Over what is left out the picture stays.
<1>8. ASSUME NEW a \in 1..(n + 1), NEW b \in 1..(n + 1), a <= b,
             \A j \in a..(b - 1) : \A k \in DOMAIN sent : from[k] # j
      PROVE  c[a] = c[b]
  <2>1. \A j \in a..(b - 1) : commands[j].type # "Input" \/ GivesWay(commands, j)
    <3>1. \A j \in a..(b - 1) : j \in DOMAIN commands
      BY <1>6
    <3> QED
      BY <1>7, <1>8, <3>1
  <2>2. a \in 1..(Len(commands) + 1) /\ b \in 1..(Len(commands) + 1)
    BY DEF n
  <2>3. Walks(SentSteps(scene.to), c, commands)
    BY <1>5 DEF R
  <2> QED
    BY <1>1, <1>8, <2>1, <2>2, <2>3, PictureStays
<1>9. ASSUME NEW a \in DOMAIN commands, NEW b \in DOMAIN commands, a <= b,
             \E k \in DOMAIN sent : from[k] = b,
             \A j \in a..(b - 1) : \A k \in DOMAIN sent : from[k] # j
      PROVE  Leads(R, c[a], commands[b], c[b + 1])
  <2>1. a \in 1..(n + 1) /\ b \in 1..(n + 1) /\ b \in 1..n
    BY <1>6
  <2>2. c[a] = c[b]
    BY <1>8, <1>9, <2>1
  <2> QED
    BY <1>6, <2>1, <2>2
<1>10. Skips(R, c, commands, sent, from)
  <2>1. \A k \in DOMAIN sent : sent[k] = commands[from[k]]
    BY <1>3 DEF SplitInto
  <2>2. \A k, m \in DOMAIN sent : k < m => from[k] < from[m]
    BY <1>3 DEF SplitInto
  <2> QED
    BY <1>9, <2>1, <2>2 DEF Skips
<1>11. PICK u \in Seq(Pictures), end \in 1..(Len(commands) + 1) : SkipsTo(R, u, end, c, commands, sent, from)
  BY <1>1, <1>5, <1>10, WalkOver
<1>12. /\ Walks(R, u, sent) /\ u[1] = c[1] /\ EndOf(u) = c[end]
       /\ \A j \in end..Len(commands) : \A k \in DOMAIN sent : from[k] # j
  BY <1>11 DEF SkipsTo
<1>13. c[end] = EndOf(c)
  <2> DEFINE b == n + 1
  <2>1. end \in 1..(n + 1) /\ b \in 1..(n + 1) /\ end <= b /\ b - 1 = n /\ Len(c) = b
    BY <1>6 DEF n
  <2>2. \A j \in end..(b - 1) : \A k \in DOMAIN sent : from[k] # j
    BY <1>12, <2>1 DEF n
  <2> HIDE DEF b
  <2>3. c[end] = c[b]
    BY <1>8, <2>1, <2>2
  <2> QED
    BY <2>1, <2>3 DEF EndOf
<1>14. PICK v \in Seq(Pictures) : Walks(R, v, wire \o sent) /\ v[1] = w[1] /\ EndOf(v) = EndOf(u)
  <2>1. u[1] = EndOf(w)
    BY <1>5, <1>12
  <2> QED
    BY <1>1, <1>5, <1>12, <2>1, WalkOn
<1> DEFINE last == EndOf(c)
           d    == <<last>>
<1>15. last \in Pictures
  BY <1>1, <1>5, WalkEnds
<1> HIDE DEF last
<1>16. d \in Seq(Pictures) /\ Walks(R, d, commands') /\ d[1] = last /\ EndOf(d) = last
  BY <1>4, <1>15 DEF Walks, EndOf
<1> HIDE DEF d
<1>17. Underway(d, v)'
  <2>1. Walks(R, v, wire') /\ EndOf(v) = d[1]
    BY <1>4, <1>12, <1>13, <1>14, <1>16 DEF last
  <2>2. desktop'.keys = Known(scene'.to, v[1].keys) /\ desktop'.caps = v[1].caps
    BY <1>4, <1>5, <1>14
  <2>3. R = SentSteps(scene'.to)
    BY <1>4 DEF R
  <2> QED
    BY <1>16, <2>1, <2>2, <2>3 DEF Underway
<1> QED
  BY <1>14, <1>16, <1>17 DEF last

\* Only a modifier key changes the modifiers.
LEMMA PlainKeepsModifiers ==
  ASSUME NEW p, NEW e, ~ (e.type = "Key" /\ IsModifierKey(e.key))
  PROVE  ModifiersOf(KeyPast(p, e).keys) = ModifiersOf(p.keys)
<1>1. \/ KeyPast(p, e) = p
      \/ ~ IsModifierKey(e.key) /\ KeyPast(p, e).keys = p.keys \ {e.key}
      \/ ~ IsModifierKey(e.key) /\ KeyPast(p, e).keys = p.keys \cup {e.key}
  BY DEF KeyPast
<1> QED
  BY <1>1 DEF ModifiersOf

\* What posting a key event makes of a desktop's keys and its Caps Lock.
KeysPosted(d, e) == IF e.action = "Release" THEN d.keys \ {e.key} ELSE d.keys \cup {e.key}
CapsPosted(d, e) == IF e.action = "Release" THEN d.caps ELSE CapsPast(d, e.key)

LEMMA PostedPicture ==
  ASSUME NEW d \in DesktopSet, NEW e, NEW modifiers
  PROVE  /\ PostKey(d, e.key, e.action, modifiers).keys = KeysPosted(d, e)
         /\ PostKey(d, e.key, e.action, modifiers).caps = CapsPosted(d, e)
BY DEF PostKey, DesktopSet, CapsPast, KeysPosted, CapsPosted

\* A key the peer's system has a name for does to its desktop what it does to the
\* picture; one that it has none for is in neither.
LEMMA KnownPast ==
  ASSUME NEW to, NEW p \in Pictures, NEW e \in Events, e.type = "Key",
         NEW d, d.keys = Known(to, p.keys), d.caps = p.caps
  PROVE  /\ (to = "Mac" => Mac!Carried(e.key)) =>
              /\ Known(to, KeyPast(p, e).keys) = KeysPosted(d, e)
              /\ KeyPast(p, e).caps = CapsPosted(d, e)
         /\ ~ (to = "Mac" => Mac!Carried(e.key)) =>
              Known(to, KeyPast(p, e).keys) = d.keys /\ KeyPast(p, e).caps = d.caps
<1> DEFINE named(key) == to = "Mac" => Mac!Carried(key)
<1>1. \A keys : Known(to, keys) = {key \in keys : named(key)}
  BY DEF Known
<1>2. ~ named(e.key) => e.key # CapsLock
  BY MacWords DEF Mac!Carried, CapsLock, Pause, Plain
<1> HIDE DEF named
<1>3. CASE e.action = "Release"
  <2>1. KeyPast(p, e).keys = p.keys \ {e.key} /\ KeyPast(p, e).caps = p.caps
    BY <1>3 DEF KeyPast
  <2> QED
    BY <1>1, <1>3, <2>1 DEF named, KeysPosted, CapsPosted
<1>4. CASE e.action # "Release"
  <2>1. KeyPast(p, e).keys = p.keys \cup {e.key} /\ KeyPast(p, e).caps = CapsPast(p, e.key)
    BY <1>4 DEF KeyPast
  <2>2. CASE named(e.key)
    <3>1. e.key \in d.keys <=> e.key \in p.keys
      BY <1>1, <2>2
    <3>2. CapsPast(p, e.key) = CapsPast(d, e.key)
      BY <3>1 DEF CapsPast
    <3>3. Known(to, p.keys \cup {e.key}) = d.keys \cup {e.key}
      BY <1>1, <2>2
    <3> QED
      BY <1>4, <2>1, <2>2, <3>2, <3>3 DEF named, KeysPosted, CapsPosted
  <2>3. CASE ~ named(e.key)
    <3>1. CapsPast(p, e.key) = p.caps
      BY <1>2, <2>3 DEF CapsPast
    <3>2. Known(to, p.keys \cup {e.key}) = d.keys
      BY <1>1, <2>3
    <3> QED
      BY <2>1, <2>3, <3>1, <3>2 DEF named
  <2> QED
    BY <2>2, <2>3
<1> QED
  BY <1>3, <1>4

\* A key event does to each of the three desktops what it does to the picture.
LEMMA KeyInjected ==
  ASSUME scene \in Scenes, ThereTypes, NEW p \in Pictures, NEW e \in Events, e.type = "Key",
         desktop.keys = Known(scene.to, p.keys), desktop.caps = p.caps,
         scene.to = "Windows" =>
           Records(sink.held, desktop.keys) /\ e.key.side # "right" /\ Suits("Windows", p, e),
         NEW soon \in BOOLEAN, NEW after, after = InjectOf(e, soon).desktop
  PROVE  after.keys = Known(scene.to, KeyPast(p, e).keys) /\ after.caps = KeyPast(p, e).caps
<1>1. e.key \in Key /\ e.action \in Action /\ e.modifiers \in SUBSET Names
  BY EventKinds DEF EventOf
<1>2. desktop \in DesktopSet /\ SinkTypes(scene.to, sink) /\ scene.to \in {"Linux", "Windows", "Mac"}
  BY ScenesAssumption DEF ThereTypes
<1>3. /\ (scene.to = "Mac" => Mac!Carried(e.key)) =>
           /\ Known(scene.to, KeyPast(p, e).keys) = KeysPosted(desktop, e)
           /\ KeyPast(p, e).caps = CapsPosted(desktop, e)
      /\ ~ (scene.to = "Mac" => Mac!Carried(e.key)) =>
           Known(scene.to, KeyPast(p, e).keys) = desktop.keys /\ KeyPast(p, e).caps = desktop.caps
  BY KnownPast
\* What a posted event does is enough.
<1>4. ASSUME scene.to = "Mac" => Mac!Carried(e.key),
             NEW modifiers, after = PostKey(desktop, e.key, e.action, modifiers)
      PROVE  after.keys = Known(scene.to, KeyPast(p, e).keys) /\ after.caps = KeyPast(p, e).caps
  <2>1. after.keys = KeysPosted(desktop, e) /\ after.caps = CapsPosted(desktop, e)
    BY <1>2, <1>4, PostedPicture
  <2> QED
    BY <1>3, <1>4, <2>1
<1>5. CASE scene.to = "Linux"
  <2>1. after = Linux!Inject(sink, desktop, e).desktop
    BY <1>5 DEF InjectOf
  <2>2. after = SendKey(desktop, e.key, e.action)
    BY <2>1, LinuxWords DEF Linux!Inject, Linux!Carried
  <2> QED
    BY <1>4, <1>5, <2>2 DEF SendKey
<1>6. CASE scene.to = "Windows"
  <2>1. after = Windows!InjectKey(sink, desktop, e).desktop
    BY <1>6 DEF InjectOf, Windows!Inject
  <2>2. sink \in WindowsSink /\ desktop.keys = p.keys /\ desktop.keys \in SUBSET Key
    BY <1>2, <1>6 DEF SinkTypes, Known, DesktopSet
  <2>3. after = SendKey(desktop, e.key, e.action)
    <3>1. CASE IsModifierKey(e.key)
      BY <2>1, <3>1, WindowsWords DEF Windows!InjectKey
    <3>2. CASE ~ IsModifierKey(e.key)
      <4>1. ModifiersOf(KeyPast(p, e).keys) = ModifiersOf(p.keys)
        BY <3>2, PlainKeepsModifiers
      <4>2. sink.held \in SUBSET Names /\ ModifiersOf(desktop.keys) = sink.held
        <5>1. sink.held \in SUBSET Names
          BY <2>2 DEF WindowsSink
        <5> QED
          BY <1>6, <2>2, <5>1, RecordedModifiers
      <4>3. e.modifiers = sink.held
        BY <1>6, <2>2, <4>1, <4>2 DEF Suits
      <4>4. Windows!ApplyModifiers(sink, desktop, e.modifiers).desktop = desktop
        <5>1. Windows!ApplyModifiers(sink, desktop, e.modifiers).desktop = [desktop EXCEPT !.keys = @]
          BY <4>3 DEF Windows!ApplyModifiers
        <5> QED
          BY <1>2, <5>1 DEF DesktopSet
      <4>5. Windows!HidFromVk(Windows!VirtualKey(e.key)) = e.key
        BY <1>1, <1>6, VirtualKeyReturns
      <4>6. after = Windows!SendKey(Windows!ApplyModifiers(sink, desktop, e.modifiers).desktop,
                                    e.key, e.action)
        BY <2>1, <3>2, <4>5, WindowsWords DEF Windows!InjectKey, Windows!ApplyModifiers
      <4> QED
        BY <4>4, <4>6, WindowsWords
    <3> QED
      BY <3>1, <3>2
  <2> QED
    BY <1>4, <1>6, <2>3 DEF SendKey
<1>7. CASE scene.to = "Mac"
  <2>1. after = Mac!InjectKey(sink, desktop, e).desktop
    BY <1>7 DEF InjectOf, Mac!Inject
  <2>2. CASE Mac!Carried(e.key)
    <3>1. after = PostKey(desktop, e.key, e.action, e.modifiers)
      BY <2>1, <2>2, MacWords DEF Mac!InjectKey
    <3> QED
      BY <1>4, <2>2, <3>1
  <2>3. CASE ~ Mac!Carried(e.key)
    <3>1. after = desktop
      BY <2>1, <2>3 DEF Mac!InjectKey
    <3> QED
      BY <1>7, <1>3, <2>3, <3>1
  <2> QED
    BY <2>2, <2>3
<1> QED
  BY <1>2, <1>5, <1>6, <1>7

\* A datagram that arrives on time is injected.
LEMMA UnderwayReceived ==
  ASSUME TypedInv, RateInv, scene.to = "Windows" => Heard,
         NEW c \in Seq(Pictures), NEW w \in Seq(Pictures), Underway(c, w),
         NEW i \in DOMAIN wire, NEW soon \in BOOLEAN, RecvDatagram(i, soon),
         RecvFaults(i) \intersect {"limited", "reordered"} = {}
  PROVE  \E v \in Seq(Pictures) : Underway(c, v)'
<1> DEFINE x == wire[1]
           R == SentSteps(scene.to)
<1>1. InputTypes /\ ThereTypes /\ scene \in Scenes
  BY DEF TypedInv, InputTypes, HereTypes
<1>2. wire \in Seq(Commanded) /\ \A k \in DOMAIN wire : wire[k] \in Commanded /\ wire[k] \in InputSet
  BY <1>1, KeysFlow
<1>3. ~ (Refilled < 1) /\ ~ (i > 1)
  BY DEF RecvFaults
<1>4. i = 1 /\ wire # <<>>
  BY <1>2, <1>3
<1>5. x \in Commanded /\ x \in InputSet /\ x.type = "Input" /\ x.event \in Events
  <2>1. x \in Commanded /\ x \in InputSet
    BY <1>2, <1>4
  <2> QED
    BY <2>1 DEF InputSet
<1>6. wire' = Tail(wire)
  <2>1. wire' = Retain(wire, DOMAIN wire \ {1})
    BY <1>4 DEF RecvDatagram, Without
  <2> QED
    BY <1>2, <1>4, <2>1, RetainAllButFirst
<1>7. Refilled >= 1
  <2>1. Refilled \in Int
    BY RefilledBounds DEF RateInv
  <2> QED
    BY <1>3, <2>1
<1>8. desktop' = InjectOf(x.event, soon).desktop /\ UNCHANGED <<scene, commands>>
  BY <1>4, <1>7 DEF RecvDatagram
<1>9. /\ Walks(R, c, commands) /\ Walks(R, w, wire) /\ EndOf(w) = c[1]
      /\ desktop.keys = Known(scene.to, w[1].keys) /\ desktop.caps = w[1].caps
  BY DEF Underway
<1> HIDE DEF R
<1>10. PICK v \in Seq(Pictures) :
         Walks(R, v, wire') /\ Leads(R, w[1], x, v[1]) /\ EndOf(v) = EndOf(w)
  BY <1>2, <1>4, <1>6, <1>9, WalkTail
<1>11. w[1] \in Pictures
  BY <1>2, <1>9, WalkEnds
<1>12. Suits(scene.to, w[1], x.event) /\ v[1] = KeyPast(w[1], x.event)
  <2>1. Leads(SentSteps(scene.to), w[1], x, v[1])
    BY <1>10 DEF R
  <2> HIDE DEF x
  <2> QED
    BY <1>5, <1>11, <2>1, SentStep
<1>13. desktop'.keys = Known(scene.to, v[1].keys) /\ desktop'.caps = v[1].caps
  <2> DEFINE e == x.event
             p == w[1]
  <2>1. e \in Events /\ p \in Pictures /\ desktop' = InjectOf(e, soon).desktop
        /\ Suits(scene.to, p, e) /\ v[1] = KeyPast(p, e)
        /\ desktop.keys = Known(scene.to, p.keys) /\ desktop.caps = p.caps
    BY <1>5, <1>8, <1>9, <1>11, <1>12
  <2>2. e.type = "Key" /\ scene.to = "Windows" => Records(sink.held, desktop.keys) /\ e.key.side # "right"
    <3>1. scene.to = "Windows" => SinkKnows /\ Flows(CapturedAsMeant, InputAsMeant)
      BY DEF TypedInv
    <3>2. scene.to = "Windows" => wire[1] \in InputAsMeant
      BY <1>4, <3>1 DEF Flows
    <3> QED
      BY <3>1, <3>2 DEF SinkKnows, InputAsMeant, KeyAsMeant
  <2> HIDE DEF e, p
  <2>3. CASE e.type = "Key"
    <3>1. scene.to = "Windows" =>
            Records(sink.held, desktop.keys) /\ e.key.side # "right" /\ Suits("Windows", p, e)
      BY <2>1, <2>2, <2>3
    <3> QED
      BY <1>1, <2>1, <2>3, <3>1, KeyInjected
  <2>4. CASE e.type # "Key"
    <3>1. desktop'.keys = desktop.keys /\ desktop'.caps = desktop.caps
      BY <1>1, <2>1, <2>4, InjectTyped DEF Untouched
    <3>2. v[1] = p
      BY <2>1, <2>4 DEF KeyPast
    <3> QED
      BY <2>1, <3>1, <3>2
  <2> QED
    BY <2>3, <2>4
<1>14. Underway(c, v)'
  <2>1. R = SentSteps(scene'.to)
    BY <1>8 DEF R
  <2> QED
    BY <1>8, <1>9, <1>10, <1>13, <2>1 DEF Underway
<1> QED
  BY <1>14

\* What one stroke makes of the keys that are down.
LEMMA HandsLocked ==
  ASSUME HereTypes, NEW raw \in Strokes
  PROVE  /\ hands.keys \in SUBSET Key /\ hands.locked \in BOOLEAN
         /\ HandsAfter(raw).locked =
              IF raw.kind = "key" /\ raw.key = CapsLock /\ raw.action = "Press"
              THEN ~ hands.locked ELSE hands.locked
<1>1. StrokeOf(raw) /\ scene.keys \subseteq Key
  BY StrokeKinds, SceneKeys
<1> QED
  BY <1>1 DEF HandsAfter, StrokeOf, HereTypes

\* No event, one, or the two of Caps Lock on macOS tell what became of the keys.
Tells(p, events, q) ==
  \/ events = <<>> /\ q = p
  \/ Len(events) = 1 /\ q = KeyPast(p, events[1])
  \/ /\ Len(events) = 2 /\ IsCapsLock(events[1]) /\ IsCapsLock(events[2])
     /\ q = KeyPast(KeyPast(p, events[1]), events[2])

\* A key that the adapter names is told of by one event.
LEMMA OneEventTells ==
  ASSUME HereTypes, NEW raw \in Strokes, raw.kind = "key",
         scene.from = "Mac" => Mac!Carried(raw.key) /\ raw.key # CapsLock,
         NEW e, e.type = "Key", e.key = raw.key,
         e.action = IF raw.action = "Release" THEN "Release" ELSE "Press"
  PROVE  KeyPast(Taken(hands), e) = Taken(HandsAfter(raw))
<1> DEFINE named(key) == scene.from = "Mac" => Mac!Carried(key) /\ key # CapsLock
           after == HandsAfter(raw)
           p == Taken(hands)
<1>1. \A h : Taken(h).keys = {key \in h.keys : named(key)} /\ Taken(h).caps = h.locked
             /\ Taken(h) = [keys |-> {key \in h.keys : named(key)}, caps |-> h.locked]
  BY DEF Taken
<1>2. named(raw.key)
  OBVIOUS
<1>3. /\ \/ raw.action = "Press" /\ raw.key \notin hands.keys
         \/ raw.action \in {"Release", "Repeat"} /\ raw.key \in hands.keys
      /\ after.keys = Toggled(hands.keys, raw.key, raw.action)
      /\ after.locked = IF raw.key = CapsLock /\ raw.action = "Press" THEN ~ hands.locked
                        ELSE hands.locked
  BY StrokeKinds, HandsTyped, HandsLocked DEF StrokeOf
<1> HIDE DEF named, after
<1>4. CASE raw.action = "Release"
  <2>1. KeyPast(p, e) = [keys |-> p.keys \ {e.key}, caps |-> p.caps]
    BY <1>4 DEF KeyPast
  <2>2. after.keys = hands.keys \ {raw.key} /\ after.locked = hands.locked
    BY <1>3, <1>4 DEF Toggled
  <2>3. p.keys \ {e.key} = {key \in after.keys : named(key)}
    BY <1>1, <2>2
  <2> QED
    BY <1>1, <2>1, <2>2, <2>3 DEF after
<1>5. CASE raw.action # "Release"
  <2>1. KeyPast(p, e) = [keys |-> p.keys \cup {e.key}, caps |-> CapsPast(p, e.key)]
    BY <1>5 DEF KeyPast
  <2>2. after.keys = hands.keys \cup {raw.key}
    BY <1>3, <1>5 DEF Toggled
  <2>3. p.keys \cup {e.key} = {key \in after.keys : named(key)}
    BY <1>1, <1>2, <2>2
  <2>4. e.key \in p.keys <=> raw.action # "Press"
    BY <1>1, <1>2, <1>3
  <2>5. CapsPast(p, e.key) = after.locked
    BY <1>1, <1>3, <2>4 DEF CapsPast
  <2> QED
    BY <1>1, <2>1, <2>3, <2>5 DEF after
<1> QED
  BY <1>4, <1>5

\* What is no key stroke, or a repeat, or of a key without a name, changes nothing.
LEMMA NoEventTells ==
  ASSUME HereTypes, NEW raw \in Strokes,
         \/ raw.kind # "key" \/ raw.action = "Repeat"
         \/ scene.from = "Mac" /\ ~ Mac!Carried(raw.key)
  PROVE  Taken(HandsAfter(raw)) = Taken(hands)
<1>1. /\ HandsAfter(raw).keys = IF raw.kind = "key" THEN Toggled(hands.keys, raw.key, raw.action)
                                ELSE hands.keys
      /\ HandsAfter(raw).locked = IF raw.kind = "key" /\ raw.key = CapsLock /\ raw.action = "Press"
                                  THEN ~ hands.locked ELSE hands.locked
  BY HandsTyped, HandsLocked
<1>2. CASE raw.kind # "key" \/ raw.action = "Repeat"
  BY <1>1, <1>2 DEF Taken, Toggled
<1>3. CASE raw.kind = "key" /\ scene.from = "Mac" /\ ~ Mac!Carried(raw.key)
  <2>1. raw.key # CapsLock
    BY <1>3, MacWords DEF Mac!Carried, CapsLock, Pause, Plain
  <2>2. HandsAfter(raw).locked = hands.locked
    BY <1>1, <2>1
  <2>3. {key \in HandsAfter(raw).keys : Mac!Carried(key) /\ key # CapsLock} =
          {key \in hands.keys : Mac!Carried(key) /\ key # CapsLock}
    BY <1>1, <1>3 DEF Toggled
  <2> QED
    BY <1>3, <2>2, <2>3 DEF Taken
<1> QED
  BY <1>2, <1>3

\* What is no key event tells nothing.
LEMMA OtherEventTells ==
  ASSUME HereTypes, NEW raw \in Strokes, raw.kind # "key",
         NEW events, events = <<>> \/ \E e : events = <<e>> /\ e.type # "Key"
  PROVE  Tells(Taken(hands), events, Taken(HandsAfter(raw)))
<1>1. Taken(HandsAfter(raw)) = Taken(hands)
  BY NoEventTells
<1>2. CASE events = <<>>
  BY <1>1, <1>2 DEF Tells
<1>3. ASSUME NEW e, events = <<e>>, e.type # "Key"
      PROVE  Tells(Taken(hands), events, Taken(HandsAfter(raw)))
  <2>1. Len(events) = 1 /\ events[1] = e
    BY <1>3
  <2> QED
    BY <1>1, <1>3, <2>1 DEF Tells, KeyPast
<1> QED
  BY <1>2, <1>3

LEMMA LinuxTells ==
  ASSUME HereTypes, scene.from = "Linux", NEW raw \in Strokes
  PROVE  Tells(Taken(hands), Linux!Read(source, at, raw).events, Taken(HandsAfter(raw)))
<1> DEFINE events == Linux!Read(source, at, raw).events
<1>1. StrokeOf(raw) /\ events = Linux!Convert(source, raw)
  BY StrokeKinds DEF Linux!Read
<1>2. CASE raw.kind = "key"
  <2>1. CASE raw.action = "Repeat" /\ IsModifierKey(raw.key)
    <3>1. events = <<>>
      BY <1>1, <1>2, <2>1, LinuxWords DEF Linux!Convert
    <3> QED
      BY <2>1, <3>1, NoEventTells DEF Tells
  <2>2. CASE ~ (raw.action = "Repeat" /\ IsModifierKey(raw.key))
    <3> DEFINE e == KeyEvent(raw.key, Linux!ActionOf(raw.action),
                             Linux!UpdateModifiers(source.modifiers, raw))
    <3>1. events = <<e>>
      BY <1>1, <1>2, <2>2, LinuxWords DEF Linux!Convert, Linux!Carried
    <3>2. /\ e.type = "Key" /\ e.key = raw.key
          /\ e.action = IF raw.action = "Release" THEN "Release" ELSE "Press"
      BY DEF KeyEvent, Linux!ActionOf
    <3> HIDE DEF e, events
    <3>3. KeyPast(Taken(hands), e) = Taken(HandsAfter(raw))
      BY <1>2, <3>2, OneEventTells
    <3>4. Len(events) = 1 /\ events[1] = e
      BY <3>1
    <3>5. Tells(Taken(hands), events, Taken(HandsAfter(raw)))
      BY <3>3, <3>4 DEF Tells
    <3> QED
      BY <3>5 DEF events
  <2> QED
    BY <2>1, <2>2
<1>3. CASE raw.kind # "key"
  <2>1. events = <<>> \/ \E e : events = <<e>> /\ e.type # "Key"
    <3>1. CASE raw.kind = "move"
      BY <1>1, <3>1, LinuxWords DEF Linux!Convert, MotionEvent
    <3>2. CASE raw.kind = "button"
      BY <1>1, <3>2, LinuxWords DEF Linux!Convert, ButtonEvent
    <3>3. CASE raw.kind = "wheel"
      <4>1. events = <<ScrollEvent(raw.turn * PerLine)>>
        BY <1>1, <3>3, LinuxWords DEF Linux!Convert
      <4> QED
        BY <4>1 DEF ScrollEvent
    <3> QED
      BY <1>1, <1>3, <3>1, <3>2, <3>3 DEF StrokeOf
  <2> HIDE DEF events
  <2>2. Tells(Taken(hands), events, Taken(HandsAfter(raw)))
    BY <1>3, <2>1, OtherEventTells
  <2> QED
    BY <2>2 DEF events
<1> QED
  BY <1>2, <1>3

\* The Windows key tables give back the key that was pressed, either Enter included.
LEMMA WindowsTells ==
  ASSUME HereTypes, scene.from = "Windows", source.hooked, NEW raw \in Strokes
  PROVE  Tells(Taken(hands), Windows!Read(source, at, raw).events, Taken(HandsAfter(raw)))
<1> DEFINE events == Windows!Read(source, at, raw).events
<1>1. StrokeOf(raw) /\ scene.keys \subseteq Key
  BY StrokeKinds, SceneKeys
<1>2. CASE raw.kind = "key"
  <2> DEFINE key  == Windows!HidFromVk(Windows!VirtualKey(raw.key))
             with == Windows!UpdateModifiers(source.modifiers, raw)
             e    == KeyEvent(key, IF raw.action = "Release" THEN "Release" ELSE "Press", with)
  <2>1. events = <<e>>
    BY <1>2, WindowsWords DEF Windows!Read, Windows!KeyboardProc
  <2>2. raw.key \in Key /\ (IsModifierKey(raw.key) => raw.key.name \in Modifier)
    BY <1>1, <1>2, SidedAreModifiers DEF StrokeOf
  <2>3. key = raw.key
    <3>1. CASE raw.key.side # "right"
      BY <2>2, <3>1, VirtualKeyReturns
    <3>2. CASE raw.key.side = "right"
      <4>1. raw.key.name # "Return" /\ raw.key # KeypadEnter
        BY <2>2, <3>2 DEF IsModifierKey, Modifier, KeypadEnter, Plain
      <4>2. Windows!VirtualKey(raw.key).vk = raw.key.name /\ Windows!VirtualKey(raw.key).side = raw.key.side
        BY <4>1, WindowsWords DEF Windows!VirtualKey
      <4> QED
        BY <2>2, <4>1, <4>2 DEF Windows!HidFromVk, Key
    <3> QED
      BY <3>1, <3>2
  <2>4. /\ e.type = "Key" /\ e.key = raw.key
        /\ e.action = IF raw.action = "Release" THEN "Release" ELSE "Press"
    BY <2>3 DEF KeyEvent
  <2> HIDE DEF e, events
  <2>5. KeyPast(Taken(hands), e) = Taken(HandsAfter(raw))
    BY <1>2, <2>4, OneEventTells
  <2>6. Len(events) = 1 /\ events[1] = e
    BY <2>1
  <2>7. Tells(Taken(hands), events, Taken(HandsAfter(raw)))
    BY <2>5, <2>6 DEF Tells
  <2> QED
    BY <2>7 DEF events
<1>3. CASE raw.kind # "key"
  <2>1. events = <<>> \/ \E e : events = <<e>> /\ e.type # "Key"
    <3>1. CASE raw.kind = "move"
      <4>1. events = <<>> \/ \E dx : events = <<MotionEvent(dx)>>
        BY <3>1, WindowsWords DEF Windows!Read, Windows!MouseMove
      <4>2. \A dx : MotionEvent(dx).type # "Key"
        BY DEF MotionEvent
      <4> HIDE DEF events
      <4> QED
        BY <4>1, <4>2
    <3>2. CASE raw.kind = "button"
      <4>1. events = <<ButtonEvent(raw.button, raw.action)>>
        BY <3>2, WindowsWords DEF Windows!Read
      <4> QED
        BY <4>1 DEF ButtonEvent
    <3>3. CASE raw.kind = "wheel"
      <4>1. events = <<>> \/ events = <<ScrollEvent(Windows!WheelMillilines(source, raw.turn).whole)>>
        BY <3>3, WindowsWords DEF Windows!Read, Windows!MouseWheel
      <4> QED
        BY <4>1 DEF ScrollEvent
    <3> QED
      BY <1>1, <1>3, <3>1, <3>2, <3>3 DEF StrokeOf
  <2> HIDE DEF events
  <2>2. Tells(Taken(hands), events, Taken(HandsAfter(raw)))
    BY <1>3, <2>1, OtherEventTells
  <2> QED
    BY <2>2 DEF events
<1> QED
  BY <1>2, <1>3

\* On macOS a change of the flags is told apart by what was held before, and Caps
\* Lock by its state.
LEMMA MacTells ==
  ASSUME HereTypes, scene.from = "Mac", source.tapped, SourceTracks, NEW raw \in Strokes,
         NEW read, read = Mac!Read(source, at, raw, HandsAfter(raw).keys, HandsAfter(raw).locked)
  PROVE  /\ Tells(Taken(hands), read.events, Taken(HandsAfter(raw)))
         /\ read.source.caps = HandsAfter(raw).locked
         /\ read.source.held = {key \in HandsAfter(raw).keys : IsModifierKey(key)}
<1> DEFINE held      == HandsAfter(raw).keys
           locked    == HandsAfter(raw).locked
           flags     == ModifiersOf(held)
           converted == Mac!Convert(source, raw, held, locked)
           p         == Taken(hands)
           q         == Taken(HandsAfter(raw))
           moded(keys) == {key \in keys : IsModifierKey(key)}
<1>1. /\ StrokeOf(raw) /\ source \in MacSources
      /\ source.caps = hands.locked /\ source.held = moded(hands.keys)
      /\ hands.keys \in SUBSET Key /\ hands.locked \in BOOLEAN
  BY StrokeKinds, HandsLocked DEF HereTypes, SourceTypes, SourceTracks
<1>2. read.source = converted.source /\ read.events = converted.events
  BY MacWords DEF Mac!Read
<1>3. /\ held = IF raw.kind = "key" THEN Toggled(hands.keys, raw.key, raw.action) ELSE hands.keys
      /\ locked = IF raw.kind = "key" /\ raw.key = CapsLock /\ raw.action = "Press"
                  THEN ~ hands.locked ELSE hands.locked
  BY HandsTyped, HandsLocked
<1>4. /\ ~ IsModifierKey(CapsLock) /\ Mac!Carried(CapsLock)
      /\ \A key : IsModifierKey(key) => Mac!Carried(key)
  BY MacWords DEF IsModifierKey, CapsLock, Pause, Plain, Mac!Carried
<1>5. p = [keys |-> {key \in hands.keys : Mac!Carried(key) /\ key # CapsLock}, caps |-> hands.locked]
      /\ q = [keys |-> {key \in held : Mac!Carried(key) /\ key # CapsLock}, caps |-> locked]
  BY DEF Taken
<1> HIDE DEF held, locked, p, q, converted
<1> SUFFICES /\ Tells(p, converted.events, q)
             /\ converted.source.caps = locked /\ converted.source.held = moded(held)
  BY <1>2 DEF p, q, held, locked
<1>6. CASE raw.kind = "key" /\ raw.key = CapsLock
  <2>1. moded(held) = moded(hands.keys)
    BY <1>3, <1>4, <1>6 DEF Toggled
  <2>2. CASE raw.action = "Repeat"
    <3>1. converted.source = source /\ converted.events = <<>>
      BY <1>6, <2>2, MacWords DEF converted, Mac!Convert
    <3>2. q = p
      BY <2>2, NoEventTells DEF p, q
    <3>3. locked = hands.locked
      BY <1>3, <2>2
    <3> QED
      BY <1>1, <2>1, <3>1, <3>2, <3>3 DEF Tells
  <2>3. CASE raw.action # "Repeat"
    <3>1. raw.key = Mac!CapsLock /\ ~ Mac!IsModifierKey(raw.key) /\ Mac!ModifiersOf(held) = flags
      BY <1>4, <1>6, MacWords
    <3>2. /\ converted.source = [source EXCEPT !.caps = locked]
          /\ converted.events = Mac!CapsLockTap(source.caps, locked, flags)
      <4>1. converted = Mac!ConvertCapsLock(source, locked, flags)
        BY <1>6, <2>3, <3>1 DEF converted, Mac!Convert
      <4>2. Mac!ConvertCapsLock(source, locked, flags) =
              [source |-> [source EXCEPT !.caps = locked],
               events |-> Mac!CapsLockTap(source.caps, locked, flags)]
        BY DEF Mac!ConvertCapsLock
      <4> QED
        BY <4>1, <4>2
    <3>3. converted.source.caps = locked /\ converted.source.held = source.held
      BY <1>1, <3>2 DEF MacSources
    <3>4. CASE raw.action = "Release"
      <4>1. locked = hands.locked
        BY <1>3, <3>4
      <4>2. converted.events = <<>>
        BY <1>1, <3>2, <4>1 DEF Mac!CapsLockTap
      <4>3. {key \in held : Mac!Carried(key) /\ key # CapsLock} =
              {key \in hands.keys : Mac!Carried(key) /\ key # CapsLock}
        BY <1>3, <1>6 DEF Toggled
      <4>4. q = p
        BY <1>5, <4>1, <4>3
      <4> QED
        BY <1>1, <2>1, <3>3, <4>2, <4>4 DEF Tells
    <3>5. CASE raw.action = "Press"
      <4> DEFINE down == KeyEvent(CapsLock, "Press", flags)
                 up   == KeyEvent(CapsLock, "Release", flags)
      <4>1. locked = ~ hands.locked
        BY <1>3, <1>6, <3>5
      <4>2. converted.events = <<down, up>>
        BY <1>1, <3>2, <4>1, MacWords DEF Mac!CapsLockTap
      <4>3. /\ down.type = "Key" /\ down.key = CapsLock /\ down.action = "Press"
            /\ up.type = "Key" /\ up.key = CapsLock /\ up.action = "Release"
        BY DEF KeyEvent
      <4> HIDE DEF down, up
      <4>4. CapsLock \notin p.keys /\ p.caps = hands.locked
        BY <1>5
      <4>5. KeyPast(p, down) = [keys |-> p.keys \cup {CapsLock}, caps |-> locked]
        BY <4>1, <4>3, <4>4 DEF KeyPast, CapsPast
      <4>6. KeyPast(KeyPast(p, down), up) = [keys |-> (p.keys \cup {CapsLock}) \ {CapsLock}, caps |-> locked]
        BY <4>3, <4>5 DEF KeyPast
      <4>7. (p.keys \cup {CapsLock}) \ {CapsLock} = {key \in held : Mac!Carried(key) /\ key # CapsLock}
        <5>1. held = hands.keys \cup {CapsLock}
          BY <1>3, <1>6, <3>5 DEF Toggled
        <5> QED
          BY <1>5, <5>1
      <4>8. q = KeyPast(KeyPast(p, down), up)
        BY <1>5, <4>6, <4>7
      <4>9. /\ Len(converted.events) = 2 /\ converted.events[1] = down /\ converted.events[2] = up
        BY <4>2
      <4>10. IsCapsLock(down) /\ IsCapsLock(up)
        BY <4>3 DEF IsCapsLock
      <4> QED
        BY <1>1, <2>1, <3>3, <4>8, <4>9, <4>10 DEF Tells
    <3> QED
      BY <1>1, <1>6, <2>3, <3>4, <3>5 DEF StrokeOf
  <2> QED
    BY <2>2, <2>3
<1>7. CASE raw.kind = "key" /\ IsModifierKey(raw.key) /\ raw.key # CapsLock
  <2> DEFINE toggled == Mac!ToggleModifier(source.held, raw.key)
             e       == KeyEvent(raw.key, toggled.action, flags)
  <2>1. locked = hands.locked
    BY <1>3, <1>7
  <2>2. CASE raw.action = "Repeat"
    <3>1. converted.source = source /\ converted.events = <<>>
      BY <1>7, <2>2, MacWords DEF converted, Mac!Convert
    <3>2. q = p /\ held = hands.keys
      BY <1>3, <2>2, <1>7, NoEventTells DEF p, q, Toggled
    <3> QED
      BY <1>1, <2>1, <3>1, <3>2 DEF Tells
  <2>3. CASE raw.action # "Repeat"
    <3>1. /\ converted.source = [source EXCEPT !.held = toggled.held]
          /\ converted.events = <<e>>
      <4>1. converted = [source |-> [source EXCEPT !.held = toggled.held], events |-> <<e>>]
        BY <1>7, <2>3, MacWords DEF converted, Mac!Convert, Mac!ConvertFlagsChanged
      <4> HIDE DEF e, toggled
      <4> QED
        BY <4>1
    <3>2. raw.key \in source.held <=> raw.action = "Release"
      BY <1>1, <1>7, <2>3 DEF StrokeOf
    <3>3. /\ toggled.action = IF raw.action = "Release" THEN "Release" ELSE "Press"
          /\ toggled.held = moded(held)
      BY <1>1, <1>3, <1>7, <2>3, <3>2 DEF Mac!ToggleModifier, Toggled, StrokeOf
    <3>4. /\ e.type = "Key" /\ e.key = raw.key
          /\ e.action = IF raw.action = "Release" THEN "Release" ELSE "Press"
      BY <3>3 DEF KeyEvent
    <3> HIDE DEF e, toggled
    <3>5. KeyPast(p, e) = q
      BY <1>4, <1>7, <3>4, OneEventTells DEF p, q
    <3>6. Len(converted.events) = 1 /\ converted.events[1] = e
      BY <3>1
    <3>7. converted.source.caps = source.caps /\ converted.source.held = toggled.held
      BY <1>1, <3>1 DEF MacSources
    <3> QED
      BY <1>1, <2>1, <3>3, <3>5, <3>6, <3>7 DEF Tells
  <2> QED
    BY <2>2, <2>3
<1>8. CASE raw.kind = "key" /\ ~ IsModifierKey(raw.key) /\ raw.key # CapsLock
  <2> DEFINE e == KeyEvent(raw.key, IF raw.action = "Release" THEN "Release" ELSE "Press", flags)
  <2>1. /\ converted.source = source
        /\ converted.events = IF Mac!Carried(raw.key) THEN <<e>> ELSE <<>>
    BY <1>8, MacWords DEF converted, Mac!Convert
  <2>2. locked = hands.locked /\ moded(held) = moded(hands.keys)
    BY <1>3, <1>8 DEF Toggled
  <2>3. /\ e.type = "Key" /\ e.key = raw.key
        /\ e.action = IF raw.action = "Release" THEN "Release" ELSE "Press"
    BY DEF KeyEvent
  <2> HIDE DEF e
  <2>4. CASE Mac!Carried(raw.key)
    <3>1. KeyPast(p, e) = q
      BY <1>8, <2>3, <2>4, OneEventTells DEF p, q
    <3>2. Len(converted.events) = 1 /\ converted.events[1] = e
      BY <2>1, <2>4
    <3> QED
      BY <1>1, <2>1, <2>2, <3>1, <3>2 DEF Tells
  <2>5. CASE ~ Mac!Carried(raw.key)
    <3>1. q = p
      BY <1>8, <2>5, NoEventTells DEF p, q
    <3> QED
      BY <1>1, <2>1, <2>2, <2>5, <3>1 DEF Tells
  <2> QED
    BY <2>4, <2>5
<1>9. CASE raw.kind # "key"
  <2>1. /\ converted.source = source
        /\ converted.events = <<>> \/ \E e : converted.events = <<e>> /\ e.type # "Key"
    <3>1. CASE raw.kind = "move"
      BY <3>1, MacWords DEF converted, Mac!Convert, MotionEvent
    <3>2. CASE raw.kind = "button"
      BY <3>2, MacWords DEF converted, Mac!Convert, ButtonEvent
    <3>3. CASE raw.kind = "wheel"
      <4>1. /\ converted.source = source
            /\ converted.events = <<>> \/ converted.events = <<ScrollEvent(FromHalves(raw.turn))>>
        BY <3>3, MacWords DEF converted, Mac!Convert
      <4> QED
        BY <4>1 DEF ScrollEvent
    <3> QED
      BY <1>1, <1>9, <3>1, <3>2, <3>3 DEF StrokeOf
  <2>2. Tells(p, converted.events, q)
    BY <1>9, <2>1, OtherEventTells DEF p, q
  <2>3. locked = hands.locked /\ held = hands.keys
    BY <1>3, <1>9
  <2> QED
    BY <1>1, <2>1, <2>2, <2>3
<1> QED
  BY <1>6, <1>7, <1>8, <1>9

LEMMA ReadTells ==
  ASSUME HereTypes, SourceTracks, ~ Blind, NEW raw \in Strokes
  PROVE  /\ Tells(Taken(hands), ReadOf(raw).events, Taken(HandsAfter(raw)))
         /\ scene.from = "Mac" =>
              /\ ReadOf(raw).source.caps = HandsAfter(raw).locked
              /\ ReadOf(raw).source.held = {key \in HandsAfter(raw).keys : IsModifierKey(key)}
<1>1. CASE scene.from = "Linux"
  <2>1. ReadOf(raw) = Linux!Read(source, at, raw)
    BY <1>1 DEF ReadOf
  <2> QED
    BY <1>1, <2>1, LinuxTells
<1>2. CASE scene.from = "Windows"
  <2>1. ReadOf(raw) = Windows!Read(source, at, raw) /\ source.hooked
    BY <1>2 DEF ReadOf, Blind
  <2> QED
    BY <1>2, <2>1, WindowsTells
<1>3. CASE scene.from = "Mac"
  <2>1. ReadOf(raw) = Mac!Read(source, at, raw, HandsAfter(raw).keys, HandsAfter(raw).locked)
    BY <1>3 DEF ReadOf
  <2>2. source.tapped
    BY <1>3 DEF Blind
  <2> QED
    BY <1>3, <2>1, <2>2, MacTells
<1> QED
  BY <1>1, <1>2, <1>3, SceneKeys

\* The keys without a name are no modifiers.
LEMMA TakenModifiers ==
  ASSUME NEW h
  PROVE  ModifiersOf(Taken(h).keys) = ModifiersOf(h.keys)
<1>1. \A key : IsModifierKey(key) => Mac!Carried(key) /\ key # CapsLock
  BY MacWords DEF IsModifierKey, CapsLock, Pause, Plain, Mac!Carried
<1>2. {key \in Taken(h).keys : IsModifierKey(key)} = {key \in h.keys : IsModifierKey(key)}
  BY <1>1 DEF Taken
<1> QED
  BY <1>2 DEF ModifiersOf

\* `new' is what the capture channel gets when the adapter reports `events', with
\* the keys of `p' down before the stroke and those of `q' after it.
Reports(to, new, events, p, q) ==
  /\ \A i \in DOMAIN new : new[i].event = events[i] /\ (new[i].holding \/ p.keys = {})
  /\ to = "Windows" => \A i \in DOMAIN new :
       new[i].event.type = "Key" => new[i].event.modifiers = ModifiersOf(q.keys)

LEMMA FreshWalk ==
  ASSUME NEW to, NEW p \in Pictures, NEW q \in Pictures, NEW events, Tells(p, events, q),
         NEW new \in Seq(CapturedSet), Len(new) = Len(events), Reports(to, new, events, p, q)
  PROVE  \E u \in Seq(Pictures) :
           Walks(CapturedSteps(to), u, new) /\ u[1] = p /\ EndOf(u) = q
<1> DEFINE R == CapturedSteps(to)
<1>0. /\ \A i \in DOMAIN new : new[i].event = events[i] /\ (new[i].holding \/ p.keys = {})
      /\ to = "Windows" => \A i \in DOMAIN new :
           new[i].event.type = "Key" => new[i].event.modifiers = ModifiersOf(q.keys)
  BY DEF Reports
<1>1. DOMAIN new = 1..Len(new) /\ Len(new) \in Nat /\ \A i \in DOMAIN new : new[i] \in CapturedSet
  OBVIOUS
<1>2. CASE events = <<>> /\ q = p
  <2> DEFINE u == <<p>>
  <2>1. Len(new) = 0
    BY <1>2
  <2>2. u \in Seq(Pictures) /\ u[1] = p /\ EndOf(u) = q /\ Len(u) = 1
    BY <1>2 DEF EndOf
  <2> HIDE DEF u
  <2>3. Walks(R, u, new)
    BY <2>1, <2>2 DEF Walks
  <2> QED
    BY <2>2, <2>3
<1>3. CASE Len(events) = 1 /\ q = KeyPast(p, events[1])
  <2> DEFINE u == <<p, q>>
             c == new[1]
  <2>1. Len(new) = 1 /\ 1 \in DOMAIN new
    BY <1>1, <1>3
  <2>2. c \in CapturedSet /\ q = KeyPast(p, c.event) /\ Suits(to, p, c.event) /\ HeldBefore(p, c)
    BY <1>0, <1>1, <1>3, <2>1 DEF Suits, HeldBefore
  <2>3. Leads(R, p, c, q)
    BY <2>2, CapturedStep
  <2>4. u \in Seq(Pictures) /\ u[1] = p /\ u[2] = q /\ EndOf(u) = q /\ Len(u) = 2
    BY DEF EndOf
  <2> HIDE DEF u, R
  <2>5. Walks(R, u, new)
    BY <2>1, <2>3, <2>4 DEF Walks
  <2> QED
    BY <2>4, <2>5 DEF R
<1>4. CASE /\ Len(events) = 2 /\ IsCapsLock(events[1]) /\ IsCapsLock(events[2])
           /\ q = KeyPast(KeyPast(p, events[1]), events[2])
  <2> DEFINE m == KeyPast(p, events[1])
             u == <<p, m, q>>
             c == new[1]
             d == new[2]
  <2>1. Len(new) = 2 /\ 1 \in DOMAIN new /\ 2 \in DOMAIN new
    BY <1>1, <1>4
  <2>2. /\ c \in CapturedSet /\ d \in CapturedSet
        /\ m = KeyPast(p, c.event) /\ q = KeyPast(m, d.event)
        /\ IsCapsLock(c.event) /\ IsCapsLock(d.event)
    BY <1>0, <1>1, <1>4, <2>1
  <2>3. m \in Pictures
    BY <2>2, CapturedStep
  <2>4. ModifiersOf(q.keys) = ModifiersOf(m.keys)
    <3>1. ~ IsModifierKey(d.event.key)
      BY <2>2 DEF IsCapsLock, IsModifierKey, CapsLock, Plain
    <3> HIDE DEF m, d
    <3> QED
      BY <2>2, <3>1, PlainKeepsModifiers
  <2>5. Suits(to, p, c.event) /\ Suits(to, m, d.event)
    BY <1>0, <2>1, <2>2, <2>4 DEF Suits
  <2>6. Leads(R, p, c, m)
    <3>1. HeldBefore(p, c)
      BY <2>2 DEF HeldBefore
    <3> HIDE DEF m, c
    <3> QED
      BY <2>2, <2>5, <3>1, CapturedStep
  <2>7. Leads(R, m, d, q)
    <3>1. HeldBefore(m, d)
      BY <2>2 DEF HeldBefore
    <3> HIDE DEF m, d
    <3> QED
      BY <2>2, <2>3, <2>5, <3>1, CapturedStep
  <2> HIDE DEF m
  <2>8. u \in Seq(Pictures) /\ u[1] = p /\ u[2] = m /\ u[3] = q /\ EndOf(u) = q /\ Len(u) = 3
    BY <2>3 DEF EndOf
  <2> HIDE DEF u, R
  <2>9. \A i \in 1..Len(new) : Leads(R, u[i], new[i], u[i + 1])
    <3>1. \A i \in 1..Len(new) : i = 1 \/ i = 2
      BY <2>1
    <3>2. u[1 + 1] = m /\ u[2 + 1] = q
      BY <2>8
    <3> QED
      BY <2>6, <2>7, <2>8, <3>1, <3>2
  <2>10. Walks(R, u, new)
    BY <2>1, <2>8, <2>9 DEF Walks
  <2> QED
    BY <2>8, <2>10 DEF R
<1> QED
  BY <1>2, <1>3, <1>4 DEF Tells

\* What the adapter reports leads on to the keys that are down after the stroke.
LEMMA HeadingTouched ==
  ASSUME TypedInv, SourceTracks, NEW h \in Seq(Pictures), Heading(h),
         NEW raw \in Strokes, Touch(raw), "missed" \notin faults', scene.to = "Windows" => Heard'
  PROVE  SourceTracks' /\ \E g \in Seq(Pictures) : Heading(g)' /\ g[1] = h[1]
<1> DEFINE events == ReadOf(raw).events
           new    == [i \in DOMAIN events |-> Fresh(raw, events[i])]
           p      == Taken(hands)
           q      == Taken(HandsAfter(raw))
           R      == CapturedSteps(scene.to)
<1>1. InputTypes /\ HereTypes /\ hands.keys \in SUBSET Key
  BY HandsLocked DEF TypedInv, InputTypes
<1>2. /\ captured' = captured \o new /\ hands' = HandsAfter(raw) /\ source' = ReadOf(raw).source
      /\ scene' = scene
  BY DEF Touch, Fresh
<1>3. ~ Blind
  <2>1. faults' = faults
           \cup (IF Blind THEN {"missed"} ELSE {})
           \cup (IF raw.kind = "key" /\ raw.key.side = "right" THEN {"right"} ELSE {})
    BY DEF Touch
  <2> QED
    BY <2>1
<1>4. /\ Tells(p, events, q)
      /\ scene.from = "Mac" =>
           /\ ReadOf(raw).source.caps = HandsAfter(raw).locked
           /\ ReadOf(raw).source.held = {key \in HandsAfter(raw).keys : IsModifierKey(key)}
  BY <1>1, <1>3, ReadTells
<1>5. p \in Pictures /\ q \in Pictures
  <2>1. p \in Pictures
    BY <1>1, KeysFlow
  <2>2. HandsAfter(raw).keys \in SUBSET Key /\ HandsAfter(raw).locked \in BOOLEAN
    BY <1>1, HandsTyped, SceneKeys
  <2>3. q \in Pictures
    BY <2>2 DEF Taken, Pictures
  <2> QED
    BY <2>1, <2>3
<1>6. events \in Seq(RawEvents) /\ DOMAIN events = 1..Len(events) /\ Len(events) \in Nat
  BY <1>1, ReadTyped
<1>7. new \in Seq(CapturedSet) /\ Len(new) = Len(events) /\ DOMAIN new = DOMAIN events
  <2>1. \A i \in DOMAIN events : Fresh(raw, events[i]) \in CapturedSet
    BY <1>1, FreshTyped
  <2> DEFINE k == Len(events)
  <2>2. new \in [1..k -> CapturedSet] /\ k \in Nat
    BY <1>6, <2>1
  <2> HIDE DEF new, k
  <2>3. new \in Seq(CapturedSet) /\ Len(new) = k
    BY <2>2
  <2>4. DOMAIN new = 1..k
    BY <2>2
  <2> QED
    BY <1>6, <2>3, <2>4 DEF k
<1>8. \A i \in DOMAIN new :
        /\ new[i].event = events[i] /\ new[i].meant = ModifiersOf(HandsAfter(raw).keys)
        /\ new[i].holding = Holding
  BY <1>7 DEF Fresh
<1>9. \A i \in DOMAIN new : new[i].event = events[i] /\ (new[i].holding \/ p.keys = {})
  <2>1. Holding \/ p.keys = {}
    BY DEF Holding, Taken
  <2> QED
    BY <1>8, <2>1
<1>10. scene.to = "Windows" => \A i \in DOMAIN new :
         new[i].event.type = "Key" => new[i].event.modifiers = ModifiersOf(q.keys)
  <2> SUFFICES ASSUME scene.to = "Windows", NEW i \in DOMAIN new, new[i].event.type = "Key"
               PROVE  new[i].event.modifiers = ModifiersOf(q.keys)
    OBVIOUS
  <2>1. Heard' /\ SourceKnows
    <3>1. Heard
      BY FaultsStay DEF Heard, Next
    <3> QED
      BY <3>1 DEF TypedInv
  <2>2. Fresh(raw, events[i]) \in CapturedAsMeant
    BY <1>1, <1>7, <2>1, HeardStroke
  <2>3. new[i].event.modifiers = new[i].meant
    BY <1>7, <2>2 DEF CapturedAsMeant, KeyAsMeant
  <2> QED
    BY <1>8, <2>3, TakenModifiers
<1> HIDE DEF new, events, p, q, R
<1>11. PICK u \in Seq(Pictures) : Walks(R, u, new) /\ u[1] = p /\ EndOf(u) = q
  <2> DEFINE to == scene.to
  <2>1. /\ Tells(p, events, q) /\ p \in Pictures /\ q \in Pictures
        /\ new \in Seq(CapturedSet) /\ Len(new) = Len(events)
    BY <1>4, <1>5, <1>7
  <2>2. Reports(to, new, events, p, q)
    BY <1>9, <1>10 DEF Reports
  <2>3. R = CapturedSteps(to)
    BY DEF R
  <2> HIDE DEF to
  <2>4. \E u \in Seq(Pictures) : Walks(CapturedSteps(to), u, new) /\ u[1] = p /\ EndOf(u) = q
    BY <2>1, <2>2, FreshWalk
  <2> QED
    BY <2>3, <2>4
<1>12. Walks(R, h, captured) /\ EndOf(h) = p /\ captured \in Seq(CapturedSet)
  BY <1>1, KeysFlow DEF Heading, R, p
<1>13. PICK g \in Seq(Pictures) : Walks(R, g, captured \o new) /\ g[1] = h[1] /\ EndOf(g) = EndOf(u)
  BY <1>7, <1>11, <1>12, WalkOn
<1>14. Heading(g)'
  <2>1. Taken(hands)' = q
    BY <1>2 DEF Taken, q
  <2>2. CapturedSteps(scene.to)' = R
    BY <1>2 DEF R, CapturedSteps
  <2> QED
    BY <1>2, <1>11, <1>13, <2>1, <2>2 DEF Heading
<1>15. SourceTracks'
  BY <1>2, <1>4 DEF SourceTracks
<1> QED
  BY <1>13, <1>14, <1>15

\* The capture thread takes the next event.
LEMMA HeadingRouted ==
  ASSUME InputTypes, NEW h \in Seq(Pictures), Heading(h), PollAndRoute
  PROVE  /\ Head(captured) \in CapturedSet /\ h[1] \in Pictures
         /\ Suits(scene.to, h[1], Head(captured).event) /\ HeldBefore(h[1], Head(captured))
         /\ \E g \in Seq(Pictures) : Heading(g)' /\ g[1] = KeyPast(h[1], Head(captured).event)
<1> DEFINE R == CapturedSteps(scene.to)
           c == Head(captured)
<1>1. /\ captured \in Seq(CapturedSet) /\ captured # <<>> /\ captured' = Tail(captured)
      /\ hands' = hands /\ scene' = scene
  BY KeysFlow DEF PollAndRoute
<1>2. c \in CapturedSet /\ c = captured[1]
  BY <1>1
<1>3. Walks(R, h, captured) /\ EndOf(h) = Taken(hands)
  BY DEF Heading
<1>4. h[1] \in Pictures
  BY <1>1, <1>3, WalkEnds
<1> HIDE DEF R
<1>5. PICK g \in Seq(Pictures) :
        Walks(R, g, Tail(captured)) /\ Leads(R, h[1], captured[1], g[1]) /\ EndOf(g) = EndOf(h)
  BY <1>1, <1>3, WalkTail
<1>6. Suits(scene.to, h[1], c.event) /\ HeldBefore(h[1], c) /\ g[1] = KeyPast(h[1], c.event)
  <2> DEFINE to == scene.to
             p  == h[1]
             q  == g[1]
  <2>1. Leads(CapturedSteps(to), p, c, q) /\ p \in Pictures
    BY <1>2, <1>4, <1>5 DEF R
  <2> HIDE DEF to, p, q, c
  <2>2. Suits(to, p, c.event) /\ HeldBefore(p, c) /\ q = KeyPast(p, c.event)
    BY <1>2, <2>1, CapturedStep
  <2> QED
    BY <2>2 DEF to, p, q
<1>7. Heading(g)'
  <2>1. Taken(hands)' = Taken(hands) /\ CapturedSteps(scene.to)' = R
    BY <1>1 DEF Taken, R, CapturedSteps
  <2> QED
    BY <1>1, <1>3, <1>5, <2>1 DEF Heading
<1> QED
  BY <1>2, <1>4, <1>6, <1>7

\* A command that is no key event comes to the end of the queue.
LEMMA UnderwayOther ==
  ASSUME InputTypes, NEW c \in Seq(Pictures), NEW w \in Seq(Pictures), Underway(c, w),
         NEW x \in Commanded, x.type = "Input" => x.event.type # "Key",
         commands' = Append(commands, x), UNCHANGED <<scene, wire, desktop>>
  PROVE  \E d \in Seq(Pictures) : Underway(d, w)' /\ EndOf(d) = EndOf(c)
<1> DEFINE q  == EndOf(c)
           to == scene.to
<1>1. q \in Pictures
  <2>1. commands \in Seq(Commanded) /\ Walks(SentSteps(scene.to), c, commands)
    BY KeysFlow DEF Underway
  <2> QED
    BY <2>1, WalkEnds
<1> HIDE DEF q, to
<1>2. x.type = "Input" => KeyPast(q, x.event) = q /\ Suits(to, q, x.event)
  BY DEF KeyPast, Suits
<1>3. Leads(SentSteps(to), q, x, q)
  BY <1>1, <1>2, SentStep
<1>4. Leads(SentSteps(scene.to), EndOf(c), x, q)
  BY <1>3 DEF to, q
<1>5. \E d \in Seq(Pictures) : Underway(d, w)' /\ EndOf(d) = q
  BY <1>1, <1>4, UnderwayAppend
<1> QED
  BY <1>5 DEF q

\* Nothing comes.
LEMMA UnderwayStays ==
  ASSUME NEW c \in Seq(Pictures), NEW w \in Seq(Pictures), Underway(c, w),
         UNCHANGED <<scene, commands, wire>>, desktop'.keys = desktop.keys, desktop'.caps = desktop.caps
  PROVE  Underway(c, w)'
BY DEF Underway

\* A crossing with nothing held down makes nothing of the relabelling.
LEMMA NothingHeld ==
  ASSUME NEW with, NEW p \in Pictures, NEW q \in Pictures, p.keys = {}
  PROVE  q = SwapPicture(with, p) <=> q.keys = {} /\ q.caps = p.caps
<1>1. SwapPicture(with, p) = [keys |-> {}, caps |-> p.caps]
  BY DEF SwapPicture
<1> QED
  BY <1>1 DEF Pictures

\* A movement is routed: the keys stay as they are, and whoever crosses with none
\* held finds none on the other side.
LEMMA KeysMoved ==
  ASSUME InputTypes, SourceTracks, NEW h \in Seq(Pictures), NEW c \in Seq(Pictures), NEW w \in Seq(Pictures),
         Heading(h), Underway(c, w), Joined(h[1], EndOf(c)),
         PollAndRoute, Head(captured).event.type = "Motion", "carried" \notin faults'
  PROVE  KeysTracked'
<1> DEFINE m == Head(captured)
           p == h[1]
           q == EndOf(c)
<1>1. /\ m \in CapturedSet /\ p \in Pictures /\ HeldBefore(p, m) /\ m.event \in RawEvents
      /\ m.event.dx \in Int
  BY HeadingRouted DEF CapturedSet, RawEvents
<1>2. PICK g \in Seq(Pictures) : Heading(g)' /\ g[1] = p
  <2>1. KeyPast(p, m.event) = p
    BY DEF KeyPast
  <2> QED
    BY <2>1, HeadingRouted
<1>3. /\ RouteMotion(m) /\ captured # <<>>
      /\ UNCHANGED <<scene, wire, desktop, swap>>
  BY DEF PollAndRoute, peer
<1>4. q \in Pictures
  <2>1. commands \in Seq(Commanded) /\ Walks(SentSteps(scene.to), c, commands)
    BY KeysFlow DEF Underway
  <2> QED
    BY <2>1, WalkEnds
<1>5. /\ away => q = SwapPicture(swap, p)
      /\ ~ away => q.keys = {} /\ q.caps = p.caps
  <2>1. ~ Apart
    BY DEF Apart, IsCapsLock
  <2> QED
    BY <2>1 DEF Joined
<1>6. PICK x \in Int : AdvanceCursor(m, x) /\ ClampToScreen(x) \in Int
  <2>1. PICK x \in Int : AdvanceCursor(m, x) /\ ClampToScreen(x) \in 0..Width
    BY <1>1, <1>3, RouteFrom DEF InputTypes
  <2> QED
    BY <2>1, WidthAssumption
<1>7. ASSUME NEW d \in Seq(Pictures), Underway(d, w)', EndOf(d) = q, Joined(p, q)'
      PROVE  KeysTracked'
  <2>1. Joined(g[1], EndOf(d))'
    <3>1. g[1] = p /\ EndOf(d) = q
      BY <1>2, <1>7
    <3> HIDE DEF p, q
    <3>2. Joined(g[1], EndOf(d))' <=> Joined(p, q)'
      BY <3>1
    <3> QED
      BY <1>7, <3>2 DEF p, q
  <2> QED
    BY <1>2, <1>7, <2>1 DEF KeysTracked
<1>8. (~ away /\ x > Width) \/ (away /\ x < 0) => p.keys = {} /\ faults' = faults \cup Carried
  <2>1. (~ away /\ x > Width) \/ (away /\ x < 0) => faults' = faults \cup Carried
    BY <1>6 DEF AdvanceCursor
  <2>2. "carried" \notin Carried => ~ m.holding
    BY <1>3 DEF Carried
  <2>3. ~ m.holding => p.keys = {}
    BY <1>1 DEF HeldBefore, IsCapsLock
  <2> QED
    BY <2>1, <2>2, <2>3
<1>9. CASE ~ away /\ x > Width
  <2>1. away' = TRUE /\ commands' = Append(commands, WarpTo(0))
    BY <1>6, <1>9 DEF AdvanceCursor
  <2>2. WarpTo(0) \in Commanded /\ WarpTo(0).type # "Input"
    BY DEF Commanded, Others, WarpTo, InputTypes, HereTypes
  <2>3. PICK d \in Seq(Pictures) : Underway(d, w)' /\ EndOf(d) = q
    BY <1>3, <2>1, <2>2, UnderwayOther
  <2>4. q = SwapPicture(swap, p)
    <3>1. p.keys = {} /\ q.keys = {} /\ q.caps = p.caps
      BY <1>5, <1>8, <1>9
    <3> DEFINE with == swap
    <3> HIDE DEF p, q, with
    <3>2. q = SwapPicture(with, p)
      BY <1>1, <1>4, <3>1, NothingHeld
    <3> QED
      BY <3>2 DEF with
  <2>5. Joined(p, q)'
    BY <1>3, <2>1, <2>4 DEF Joined
  <2> QED
    BY <1>7, <2>3, <2>5
<1>10. CASE away /\ x < 0
  <2>1. away' = FALSE /\ commands' = Append(commands, Returned)
    BY <1>6, <1>10 DEF AdvanceCursor
  <2>2. Returned \in Commanded /\ Returned.type # "Input"
    BY DEF Commanded, Others, Returned
  <2>3. PICK d \in Seq(Pictures) : Underway(d, w)' /\ EndOf(d) = q
    BY <1>3, <2>1, <2>2, UnderwayOther
  <2>4. q.keys = {} /\ q.caps = p.caps
    <3> DEFINE with == swap
    <3>1. p.keys = {} /\ q = SwapPicture(with, p)
      BY <1>5, <1>8, <1>10
    <3> HIDE DEF p, q, with
    <3> QED
      BY <1>1, <1>4, <3>1, NothingHeld
  <2>5. Joined(p, q)'
    BY <2>1, <2>4 DEF Joined
  <2> QED
    BY <1>7, <2>3, <2>5
<1>11. CASE ~ (~ away /\ x > Width) /\ ~ (away /\ x < 0)
  <2>1. /\ away' = away
        /\ IF away THEN ForwardPointer(ClampToScreen(x), m) ELSE UNCHANGED commands
    BY <1>6, <1>11 DEF AdvanceCursor
  <2>2. Joined(p, q)'
    BY <1>3, <1>5, <2>1 DEF Joined
  <2>3. CASE away
    <3> DEFINE y == Input(PointerEvent(ClampToScreen(x)), m)
    <3>1. commands' = Append(commands, y)
      BY <2>1, <2>3 DEF ForwardPointer
    <3>2. y \in Commanded
      BY <1>1, <1>6, PointerIsEvent, InputTyped DEF InputTypes, Commanded
    <3>3. y.event.type # "Key"
      <4>1. y.event = ApplySwap(swap, PointerEvent(ClampToScreen(x)))
        BY DEF Input
      <4> QED
        BY <4>1 DEF ApplySwap, PointerEvent
    <3> HIDE DEF y
    <3>4. PICK d \in Seq(Pictures) : Underway(d, w)' /\ EndOf(d) = q
      BY <1>3, <3>1, <3>2, <3>3, UnderwayOther
    <3> QED
      BY <1>7, <2>2, <3>4
  <2>4. CASE ~ away
    <3>1. Underway(c, w)'
      BY <1>3, <2>1, <2>4, UnderwayStays
    <3> QED
      BY <1>7, <2>2, <3>1
  <2> QED
    BY <2>3, <2>4
<1> QED
  BY <1>9, <1>10, <1>11

\* Anything else is routed: on the peer's side it is relabelled, on this one it is
\* no key that the peer would have to know of.
LEMMA KeysForwarded ==
  ASSUME InputTypes, NEW h \in Seq(Pictures), NEW c \in Seq(Pictures), NEW w \in Seq(Pictures),
         Heading(h), Underway(c, w), Joined(h[1], EndOf(c)),
         PollAndRoute, Head(captured).event.type # "Motion", "apart" \notin faults'
  PROVE  KeysTracked'
<1> DEFINE m    == Head(captured)
           p    == h[1]
           q    == EndOf(c)
           to   == scene.to
           with == swap
           r    == KeyPast(p, m.event)
<1>1. /\ m \in CapturedSet /\ p \in Pictures /\ Suits(to, p, m.event) /\ m.event \in RawEvents
      /\ m.event \in Events /\ with \in Swap
  BY HeadingRouted, CapturedIsEvent DEF CapturedSet, InputTypes, HereTypes
<1>2. PICK g \in Seq(Pictures) : Heading(g)' /\ g[1] = r
  BY HeadingRouted
<1>3. /\ commands' = IF away THEN Append(commands, Input(m.event, m)) ELSE commands
      /\ faults' = faults \cup (IF ~ away /\ IsCapsLock(m.event) THEN {"apart"} ELSE {})
      /\ UNCHANGED <<scene, wire, desktop, swap, away>>
  BY DEF PollAndRoute, peer
<1>4. CASE away
  <2> DEFINE x == Input(m.event, m)
             s == KeyPast(q, x.event)
  <2>1. q = SwapPicture(with, p)
    BY <1>4 DEF Joined
  <2>2. x \in InputSet /\ x \in Commanded /\ x.type = "Input" /\ x.event = ApplySwap(with, m.event)
    <3>1. x \in InputSet
      BY <1>1, InputTyped DEF InputTypes
    <3> QED
      BY <3>1 DEF Input, Commanded
  <2>3. q \in Pictures /\ s = SwapPicture(with, r) /\ Suits(to, q, x.event)
    <3> DEFINE e == m.event
               y == x.event
    <3>1. y = ApplySwap(with, e) /\ e \in RawEvents /\ Suits(to, p, e) /\ r = KeyPast(p, e)
      BY <1>1, <2>2
    <3> HIDE DEF e, y, p, to, with, r, x, q, m
    <3>2. SwapPicture(with, p) \in Pictures /\ KeyPast(SwapPicture(with, p), y) = SwapPicture(with, r)
          /\ Suits(to, SwapPicture(with, p), y)
      BY <1>1, <3>1, RoutedPast
    <3>3. q \in Pictures /\ KeyPast(q, y) = SwapPicture(with, r) /\ Suits(to, q, y)
      BY <2>1, <3>2
    <3> QED
      BY <3>3 DEF y
  <2>4. s \in Pictures /\ Leads(SentSteps(to), q, x, s)
    <3> HIDE DEF x, q, to, m
    <3> QED
      BY <2>2, <2>3, SentStep
  <2>5. Leads(SentSteps(scene.to), EndOf(c), x, s)
    BY <2>4 DEF to, q
  <2>6. commands' = Append(commands, x)
    BY <1>3, <1>4
  <2> HIDE DEF x, s
  <2>7. PICK d \in Seq(Pictures) : Underway(d, w)' /\ EndOf(d) = s
    BY <1>3, <2>2, <2>4, <2>5, <2>6, UnderwayAppend
  <2>8. Joined(g[1], EndOf(d))'
    <3>1. EndOf(d) = SwapPicture(swap', g[1]) /\ away'
      BY <1>2, <1>3, <1>4, <2>3, <2>7 DEF with, s
    <3> QED
      BY <3>1 DEF Joined
  <2> QED
    BY <1>2, <2>7, <2>8 DEF KeysTracked
<1>5. CASE ~ away
  <2>1. ~ IsCapsLock(m.event)
    BY <1>3, <1>5
  <2>2. q.keys = {} /\ q.caps = p.caps
    BY <1>5, <2>1 DEF Joined, Apart
  <2>3. r.caps = p.caps
    BY <2>1 DEF KeyPast, CapsPast, IsCapsLock
  <2>4. Underway(c, w)'
    BY <1>3, <1>5, UnderwayStays
  <2>5. Joined(g[1], EndOf(c))'
    <3>1. EndOf(c).keys = {} /\ EndOf(c).caps = g[1].caps /\ ~ away'
      BY <1>2, <1>3, <1>5, <2>2, <2>3
    <3> QED
      BY <3>1 DEF Joined
  <2> QED
    BY <1>2, <2>4, <2>5 DEF KeysTracked
<1> QED
  BY <1>4, <1>5

LEMMA KeysRouted ==
  ASSUME InputTypes, SourceTracks, KeysTracked, PollAndRoute,
         faults' \intersect {"apart", "carried"} = {}
  PROVE  SourceTracks' /\ KeysTracked'
<1>1. PICK h \in Seq(Pictures), c \in Seq(Pictures), w \in Seq(Pictures) :
        Heading(h) /\ Underway(c, w) /\ Joined(h[1], EndOf(c))
  BY DEF KeysTracked
<1>2. SourceTracks'
  BY DEF SourceTracks, PollAndRoute
<1> QED
  BY <1>1, <1>2, KeysMoved, KeysForwarded

\* The session ends with nothing on the way and nothing held down.
LEMMA KeysEnd ==
  ASSUME InputTypes, SourceTracks, KeysTracked, SessionEnds,
         faults' \intersect {"lost", "carried"} = {}
  PROVE  SourceTracks' /\ KeysTracked'
<1>1. PICK h \in Seq(Pictures), c \in Seq(Pictures), w \in Seq(Pictures) :
        Heading(h) /\ Underway(c, w) /\ Joined(h[1], EndOf(c))
  BY DEF KeysTracked
<1> DEFINE p == h[1]
           q == EndOf(c)
           R == CapturedSteps(scene.to)
<1>2. /\ away = TRUE /\ away' = FALSE /\ wire' = <<>> /\ commands' = <<>>
      /\ faults' = faults \cup Carried \cup (IF commands \o wire # <<>> THEN {"lost"} ELSE {})
      /\ UNCHANGED <<scene, hands, source, captured, desktop>>
  BY DEF SessionEnds, here, peer, InputTypes, HereTypes
<1>3. /\ captured \in Seq(CapturedSet) /\ commands \in Seq(Commanded) /\ wire \in Seq(Commanded)
      /\ Taken(hands) \in Pictures
  BY KeysFlow
<1>4. commands = <<>> /\ wire = <<>>
  <2>1. Len(commands \o wire) = 0
    BY <1>2
  <2>2. Len(commands) = 0 /\ Len(wire) = 0
    BY <1>3, <2>1
  <2> QED
    BY <1>3, <2>2
<1>5. Heading(h)' /\ Underway(c, w)'
  <2>1. Taken(hands)' = Taken(hands) /\ CapturedSteps(scene.to)' = CapturedSteps(scene.to)
    BY <1>2 DEF Taken, CapturedSteps
  <2> QED
    BY <1>1, <1>2, <1>4, <2>1 DEF Heading, Underway
<1>6. Walks(R, h, captured) /\ EndOf(h) = Taken(hands) /\ p \in Pictures /\ q \in Pictures
  <2>1. Walks(R, h, captured) /\ EndOf(h) = Taken(hands)
    BY <1>1 DEF Heading
  <2>2. p \in Pictures
    BY <1>3, <2>1, WalkEnds
  <2>3. q \in Pictures
    <3>1. Walks(SentSteps(scene.to), c, commands)
      BY <1>1 DEF Underway
    <3> QED
      BY <1>3, <3>1, WalkEnds
  <2> QED
    BY <2>1, <2>2, <2>3
<1>7. Carried = {}
  <2>1. "carried" \notin Carried
    BY <1>2
  <2> QED
    BY <2>1 DEF Carried
<1>8. p.keys = {} \/ Apart'
  <2>1. CASE captured = <<>>
    <3>1. Len(h) = 1
      BY <1>6, <2>1 DEF Walks
    <3>2. p = Taken(hands)
      BY <1>6, <3>1 DEF EndOf
    <3>3. hands.keys = {}
      BY <1>7, <2>1 DEF Carried, Holding
    <3> QED
      BY <3>2, <3>3 DEF Taken
  <2>2. CASE captured # <<>>
    <3>1. ~ Head(captured).holding
      BY <1>7, <2>2 DEF Carried
    <3>2. HeldBefore(p, Head(captured))
      <4>1. 1 \in 1..Len(captured) /\ Head(captured) = captured[1] /\ captured[1] \in CapturedSet
        BY <1>3, <2>2
      <4>2. Leads(R, h[1], captured[1], h[1 + 1])
        BY <1>6, <4>1 DEF Walks
      <4> DEFINE to == scene.to
                 m  == captured[1]
                 g  == h[1 + 1]
      <4>3. Leads(CapturedSteps(to), p, m, g) /\ m \in CapturedSet
        BY <4>1, <4>2
      <4> HIDE DEF to, m, g, p
      <4>4. HeldBefore(p, m)
        BY <1>6, <4>3, CapturedStep
      <4> QED
        BY <4>1, <4>4 DEF m
    <3>3. IsCapsLock(Head(captured).event) => Apart'
      BY <1>2, <2>2 DEF Apart, IsCapsLock
    <3> QED
      BY <3>1, <3>2, <3>3 DEF HeldBefore
  <2> QED
    BY <2>1, <2>2
<1>9. p.keys = {} => q.keys = {} /\ q.caps = p.caps
  <2> DEFINE with == swap
  <2>1. q = SwapPicture(with, p)
    BY <1>1, <1>2 DEF Joined
  <2> HIDE DEF p, q, with
  <2> QED
    BY <1>6, <2>1, NothingHeld
<1>10. Joined(h[1], EndOf(c))'
  <2>1. ~ away' /\ (Apart' \/ (q.keys = {} /\ q.caps = p.caps))
    BY <1>2, <1>8, <1>9
  <2> QED
    BY <2>1 DEF Joined
<1>11. SourceTracks'
  BY <1>2 DEF SourceTracks
<1> QED
  BY <1>5, <1>10, <1>11 DEF KeysTracked

\* The person does something.
LEMMA KeysTouched ==
  ASSUME TypedInv, SourceTracks, KeysTracked, NEW raw \in Strokes, Touch(raw),
         "missed" \notin faults', scene.to = "Windows" => Heard'
  PROVE  SourceTracks' /\ KeysTracked'
<1>1. PICK h \in Seq(Pictures), c \in Seq(Pictures), w \in Seq(Pictures) :
        Heading(h) /\ Underway(c, w) /\ Joined(h[1], EndOf(c))
  BY DEF KeysTracked
<1>2. SourceTracks' /\ \E g \in Seq(Pictures) : Heading(g)' /\ g[1] = h[1]
  BY <1>1, HeadingTouched
<1>3. PICK g \in Seq(Pictures) : Heading(g)' /\ g[1] = h[1]
  BY <1>2
<1>4. UNCHANGED <<scene, away, swap, commands, wire, desktop>>
  BY DEF Touch, state, net, peer
<1>5. Underway(c, w)'
  BY <1>1, <1>4, UnderwayStays
<1>6. Joined(g[1], EndOf(c))'
  <2>1. Apart => Apart'
    <3> DEFINE new == [i \in DOMAIN ReadOf(raw).events |-> Fresh(raw, ReadOf(raw).events[i])]
    <3>1. captured' = captured \o new
      BY DEF Touch, Fresh
    <3>2. captured \in Seq(CapturedSet) /\ captured' \in Seq(CapturedSet)
      <4>1. InputTypes /\ InputTypes'
        <5>1. [Next]_vars
          BY DEF Next
        <5> QED
          BY <5>1, InputTypesStep DEF TypedInv
      <4> QED
        BY <4>1 DEF InputTypes, Flows
    <3>3. new \in Seq(CapturedSet)
      <4>1. InputTypes /\ HereTypes
        BY DEF TypedInv, InputTypes
      <4>2. \A i \in DOMAIN ReadOf(raw).events : Fresh(raw, ReadOf(raw).events[i]) \in CapturedSet
        BY <4>1, FreshTyped
      <4> DEFINE k == Len(ReadOf(raw).events)
      <4>3. ReadOf(raw).events \in Seq(RawEvents)
        BY <4>1, ReadTyped
      <4>4. new \in [1..k -> CapturedSet] /\ k \in Nat
        BY <4>2, <4>3
      <4> HIDE DEF new, k
      <4> QED
        BY <4>4
    <3> HIDE DEF new
    <3>4. captured # <<>> => captured' # <<>> /\ Head(captured') = Head(captured)
      BY <3>1, <3>2, <3>3
    <3> QED
      BY <1>4, <3>4 DEF Apart, IsCapsLock
  <2> QED
    BY <1>1, <1>3, <1>4, <2>1 DEF Joined
<1> QED
  BY <1>2, <1>3, <1>5, <1>6 DEF KeysTracked

\* Nothing happens to the keys.
LEMMA KeysElsewhere ==
  ASSUME KeysTracked, UNCHANGED <<scene, hands, captured, away, swap, commands, wire>>,
         desktop'.keys = desktop.keys, desktop'.caps = desktop.caps
  PROVE  KeysTracked'
<1>1. PICK h \in Seq(Pictures), c \in Seq(Pictures), w \in Seq(Pictures) :
        Heading(h) /\ Underway(c, w) /\ Joined(h[1], EndOf(c))
  BY DEF KeysTracked
<1>2. Heading(h)'
  <2>1. Taken(hands)' = Taken(hands) /\ CapturedSteps(scene.to)' = CapturedSteps(scene.to)
    BY DEF Taken, CapturedSteps
  <2> QED
    BY <1>1, <2>1 DEF Heading
<1>3. Underway(c, w)'
  BY <1>1, UnderwayStays
<1>4. Joined(h[1], EndOf(c))'
  BY <1>1 DEF Joined, Apart, IsCapsLock
<1> QED
  BY <1>2, <1>3, <1>4 DEF KeysTracked

\* The batch goes out, or the next datagram comes in.
LEMMA KeysOnTheWay ==
  ASSUME KeysTracked, UNCHANGED <<scene, hands, captured, away, swap>>,
         \A c, w \in Seq(Pictures) : Underway(c, w) =>
           \E d, v \in Seq(Pictures) : Underway(d, v)' /\ EndOf(d) = EndOf(c)
  PROVE  KeysTracked'
<1>1. PICK h \in Seq(Pictures), c \in Seq(Pictures), w \in Seq(Pictures) :
        Heading(h) /\ Underway(c, w) /\ Joined(h[1], EndOf(c))
  BY DEF KeysTracked
<1>2. PICK d \in Seq(Pictures), v \in Seq(Pictures) : Underway(d, v)' /\ EndOf(d) = EndOf(c)
  BY <1>1
<1>3. Heading(h)'
  <2>1. Taken(hands)' = Taken(hands) /\ CapturedSteps(scene.to)' = CapturedSteps(scene.to)
    BY DEF Taken, CapturedSteps
  <2> QED
    BY <1>1, <2>1 DEF Heading
<1>4. Joined(h[1], EndOf(d))'
  BY <1>1, <1>2 DEF Joined, Apart, IsCapsLock
<1> QED
  BY <1>2, <1>3, <1>4 DEF KeysTracked

\* No other step but a stroke touches what the macOS adapter keeps of the keys.
LEMMA SourceStaysTrue ==
  ASSUME InputTypes, SourceTracks, ReaderTurns \/ SourceMishap \/ SourceRecovers \/ ApplySuppression
  PROVE  SourceTracks' /\ UNCHANGED <<scene, hands, captured, away, swap, commands, wire, desktop>>
<1>1. UNCHANGED <<scene, hands, captured, away, swap, commands, wire, desktop>>
  BY DEF ReaderTurns, SourceMishap, SourceRecovers, ApplySuppression, person, state, net, peer
<1>2. ASSUME scene.from = "Mac"
      PROVE  source'.caps = source.caps /\ source'.held = source.held
  <2>1. source \in MacSources
    BY <1>2 DEF InputTypes, HereTypes, SourceTypes
  <2>2. \/ source' = source \/ source' = Mac!TapDisabled(source) \/ source' = Mac!TapEnabled(source)
        \/ source' = Mac!SetSuppressed(source, away)
    BY <1>2 DEF ReaderTurns, SourceMishap, SourceRecovers, ApplySuppression
  <2> QED
    BY <2>1, <2>2 DEF MacSources, Mac!TapDisabled, Mac!TapEnabled, Mac!SetSuppressed
<1> QED
  BY <1>1, <1>2 DEF SourceTracks

\* Nothing but an overtaken movement of the cursor has gone wrong; two keys for one
\* modifier are told apart by every peer but Windows.
Undisturbed == faults \subseteq {"overtaken"} \cup (IF scene.to = "Windows" THEN {} ELSE {"right"})

\* As long as that is so, what is on the way leads from the keys the peer's desktop
\* takes to be down to those the person holds down.
KeysInv == TypedInv /\ RateInv /\ (Undisturbed => SourceTracks /\ KeysTracked)

LEMMA KeysInvInit == Init => KeysInv
BY TypedInit, RateInit, KeysInit DEF KeysInv

LEMMA KeysInvStep == KeysInv /\ [Next]_vars => KeysInv'
<1> SUFFICES ASSUME KeysInv, [Next]_vars PROVE KeysInv'
  OBVIOUS
<1>1. TypedInv /\ RateInv /\ TypedInv' /\ RateInv' /\ InputTypes
  BY TypedStep, RateStep DEF KeysInv, TypedInv
<1>2. scene' = scene /\ faults \subseteq faults'
  BY SceneStays, FaultsStay
<1>3. ASSUME Undisturbed' PROVE SourceTracks' /\ KeysTracked'
  <2>1. /\ faults' \intersect {"missed", "lost", "limited", "reordered", "relabelled", "apart", "carried"} = {}
        /\ scene.to = "Windows" => Heard'
    BY <1>2, <1>3 DEF Undisturbed, Heard
  <2>2. Undisturbed /\ (scene.to = "Windows" => Heard)
    BY <1>2, <1>3 DEF Undisturbed, Heard
  <2>3. SourceTracks /\ KeysTracked
    BY <2>2 DEF KeysInv
  <2>4. ASSUME NEW raw \in Strokes, Touch(raw) PROVE SourceTracks' /\ KeysTracked'
    BY <1>1, <2>1, <2>3, <2>4, KeysTouched
  <2>5. CASE ReaderTurns \/ SourceMishap \/ SourceRecovers \/ ApplySuppression
    <3>1. SourceTracks' /\ UNCHANGED <<scene, hands, captured, away, swap, commands, wire, desktop>>
      BY <1>1, <2>3, <2>5, SourceStaysTrue
    <3> QED
      BY <2>3, <3>1, KeysElsewhere
  <2>6. CASE PollAndRoute
    BY <1>1, <2>1, <2>3, <2>6, KeysRouted
  <2>7. CASE SessionEnds
    BY <1>1, <2>1, <2>3, <2>7, KeysEnd
  <2>8. ASSUME UNCHANGED <<scene, hands, source, captured, away, swap, commands, wire>>,
               desktop'.keys = desktop.keys, desktop'.caps = desktop.caps
        PROVE  SourceTracks' /\ KeysTracked'
    <3>1. SourceTracks'
      BY <2>3, <2>8 DEF SourceTracks
    <3> QED
      BY <2>3, <2>8, <3>1, KeysElsewhere
  <2>9. ASSUME UNCHANGED <<scene, hands, source, captured, away, swap>>,
               \A c, w \in Seq(Pictures) : Underway(c, w) =>
                 \E d, v \in Seq(Pictures) : Underway(d, v)' /\ EndOf(d) = EndOf(c)
        PROVE  SourceTracks' /\ KeysTracked'
    <3>1. SourceTracks'
      BY <2>3, <2>9 DEF SourceTracks
    <3> QED
      BY <2>3, <2>9, <3>1, KeysOnTheWay
  <2>10. CASE SendBatch
    <3>1. UNCHANGED <<scene, hands, source, captured, away, swap>>
      BY <2>10 DEF SendBatch, person, here, state
    <3>2. \A c, w \in Seq(Pictures) : Underway(c, w) =>
            \E d, v \in Seq(Pictures) : Underway(d, v)' /\ EndOf(d) = EndOf(c)
      BY <1>1, <2>10, UnderwaySent
    <3> QED
      BY <2>9, <3>1, <3>2
  <2>11. ASSUME NEW i \in DOMAIN wire, NEW soon \in BOOLEAN, RecvDatagram(i, soon)
         PROVE  SourceTracks' /\ KeysTracked'
    <3>1. UNCHANGED <<scene, hands, source, captured, away, swap>> /\ faults' = faults \cup RecvFaults(i)
      BY <2>11 DEF RecvDatagram, person, here, state
    <3>2. RecvFaults(i) \intersect {"limited", "reordered"} = {}
      BY <2>1, <3>1
    <3>3. \A c, w \in Seq(Pictures) : Underway(c, w) =>
            \E d, v \in Seq(Pictures) : Underway(d, v)' /\ EndOf(d) = EndOf(c)
      BY <1>1, <2>2, <2>11, <3>2, UnderwayReceived
    <3> QED
      BY <2>9, <3>1, <3>3
  <2>12. ASSUME NEW i \in DOMAIN wire, LoseDatagram(i) PROVE FALSE
    BY <2>1, <2>12 DEF LoseDatagram
  <2>13. CASE SetModifierSwap
    BY <2>1, <2>13 DEF SetModifierSwap
  <2>14. CASE RecvControl
    <3>1. /\ UNCHANGED <<scene, hands, source, captured, away, swap, commands, wire>>
          /\ desktop' = IF Head(control).type = "Warp" THEN PlaceCursor(desktop, Head(control).x) ELSE desktop
      BY <2>14 DEF RecvControl, person, here, state
    <3>2. desktop'.keys = desktop.keys /\ desktop'.caps = desktop.caps
      <4>1. desktop \in DesktopSet
        BY <1>1 DEF TypedInv, ThereTypes
      <4>2. \A x : PlaceCursor(desktop, x).keys = desktop.keys /\ PlaceCursor(desktop, x).caps = desktop.caps
        BY <4>1 DEF PlaceCursor, DesktopSet
      <4> QED
        BY <3>1, <4>2
    <3> QED
      BY <2>8, <3>1, <3>2
  <2>15. CASE Tick \/ PollIdle
    BY <2>8, <2>15 DEF Tick, PollIdle, person, here, state, net, peer
  <2>16. CASE UNCHANGED vars
    BY <2>8, <2>16 DEF vars, person, here, state, net, peer
  <2> QED
    BY <2>4, <2>5, <2>6, <2>7, <2>10, <2>11, <2>12, <2>13, <2>14, <2>15, <2>16 DEF Next
<1> QED
  BY <1>1, <1>3 DEF KeysInv

\* Once nothing is on the way, the peer's desktop agrees with the person's hands.
LEMMA KeysArrived ==
  ASSUME InputTypes, KeysTracked, Drained, away
  PROVE  /\ desktop.keys = {IF swap = "None" THEN key ELSE SwapKey(key) :
                              key \in {k \in hands.keys : Carry(k)}}
         /\ desktop.caps = hands.locked
<1>1. PICK h \in Seq(Pictures), c \in Seq(Pictures), w \in Seq(Pictures) :
        Heading(h) /\ Underway(c, w) /\ Joined(h[1], EndOf(c))
  BY DEF KeysTracked
<1>2. Len(h) = 1 /\ Len(c) = 1 /\ Len(w) = 1
  BY <1>1 DEF Drained, Heading, Underway, Walks
<1>3. h[1] = Taken(hands) /\ w[1] = SwapPicture(swap, Taken(hands))
  <2>1. h[1] = Taken(hands) /\ w[1] = c[1] /\ EndOf(c) = c[1]
    BY <1>1, <1>2 DEF Heading, Underway, EndOf
  <2> QED
    BY <1>1, <2>1 DEF Joined
<1>4. /\ desktop.keys = Known(scene.to, {Label(swap, key) : key \in Taken(hands).keys})
      /\ desktop.caps = hands.locked
  <2>1. desktop.keys = Known(scene.to, w[1].keys) /\ desktop.caps = w[1].caps
    BY <1>1 DEF Underway
  <2> QED
    BY <1>3, <2>1 DEF SwapPicture, Taken
<1>5. hands.keys \subseteq Key /\ swap \in Swap
  BY SceneKeys DEF InputTypes, HereTypes
<1>6. \A key \in hands.keys : Mac!Carried(Label(swap, key)) <=> Mac!Carried(key)
  <2> SUFFICES ASSUME NEW key \in hands.keys
               PROVE  Mac!Carried(Label(swap, key)) <=> Mac!Carried(key)
    OBVIOUS
  <2>1. Label(swap, key) = Plain("Pause") <=> key = Plain("Pause")
    BY <1>5, LabelPlain
  <2>2. Mac!Pause = Plain("Pause")
    BY DEF Mac!Pause, Mac!Plain, Plain
  <2> QED
    BY <2>1, <2>2 DEF Mac!Carried
<1>7. Taken(hands).keys = {key \in hands.keys : scene.from = "Mac" => Mac!Carried(key) /\ key # CapsLock}
  BY DEF Taken
<1>8. Known(scene.to, {Label(swap, key) : key \in Taken(hands).keys})
        = {Label(swap, key) : key \in {k \in hands.keys : Carry(k)}}
  BY <1>6, <1>7 DEF Known, Carry
<1> QED
  BY <1>4, <1>8 DEF Label

\* When everything has arrived and nothing was lost, held across a crossing or
\* routed past the peer, the peer's desktop takes those keys to be down that are
\* down on the controller, under the names the swap gives them, and has Caps Lock
\* as the controller has it, whatever the two systems and however the events were
\* batched: no key is stuck and none is missing (convert_event, inject_key and the
\* key tables of the three systems, ApplySwap).
THEOREM KeysAlwaysBalance == Spec => []KeysBalance
<1>1. KeysInv => KeysBalance
  BY KeysArrived DEF KeysInv, KeysBalance, Undisturbed, TypedInv
<1> QED
  BY KeysInvInit, KeysInvStep, <1>1, PTL DEF Spec
=============================================================================
