------------------------------- MODULE Scroll --------------------------------
(***************************************************************************)
(* Scaled and its users (scroll.rs): turning one unit of scrolling into a  *)
(* coarser one, keeping what does not divide evenly for the next event.    *)
(*                                                                         *)
(* The wire carries milli-lines, of which PerLine make a line.  Limit is   *)
(* i32::MAX: what is pending is clamped to 32 bits and never wraps.        *)
(***************************************************************************)
EXTENDS Integers

CONSTANTS PerLine,   \* MILLILINES_PER_LINE
          Limit      \* i32::MAX

ASSUME PerLineAssumption == PerLine \in Nat \ {0}
ASSUME LimitAssumption == Limit \in Nat

\* i64::clamp to the range of an i32, saturating_mul
ToI32(n) == IF n > Limit THEN Limit ELSE IF n < -Limit - 1 THEN -Limit - 1 ELSE n

\* Rust's division, which truncates towards zero.
Quotient(n, d) == IF n >= 0 THEN n \div d ELSE -((-n) \div d)

\* Mutant: what does not divide evenly is thrown away.
TakeLossy(pending, value, numerator, denominator) ==
  IF denominator <= 0 THEN [whole |-> 0, pending |-> pending]
  ELSE [whole   |-> Quotient(ToI32(pending + value * numerator), denominator),
        pending |-> 0]

\* Scaled::take: the whole units, and what stays pending.
Take(pending, value, numerator, denominator) ==
  IF denominator <= 0 THEN [whole |-> 0, pending |-> pending]
  ELSE LET sum   == ToI32(pending + value * numerator)
           whole == Quotient(sum, denominator) IN
       [whole |-> whole, pending |-> sum - whole * denominator]

\* ScrollAccumulator::take_lines, for one axis
TakeLines(pending, millilines) == Take(pending, millilines, 1, PerLine)

\* millilines_from_lines, of a number of half milli-lines: halves round away
\* from zero, and no movement rounds to nothing.
FromHalves(halves) ==
  IF halves >= 0 THEN (halves + 1) \div 2 ELSE -((1 - halves) \div 2)
=============================================================================
