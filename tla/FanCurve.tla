------------------------------ MODULE FanCurve ------------------------------
(***************************************************************************)
(* core/FanCurve.cpp: from a temperature to a fan speed.  A curve is the     *)
(* function from the temperatures of its points to their percentages, which  *)
(* is what setPoints keeps of a valid list: sorted, no temperature twice.    *)
(***************************************************************************)
EXTENDS Integers, FiniteSets

Hysteresis == 3      \* hysteresisC

\* valid(): at least two points, percentages in range.
Valid(c) ==
  /\ Cardinality(DOMAIN c) >= 2
  /\ \A t \in DOMAIN c : c[t] \in 0 .. 100

Lowest(S)  == CHOOSE x \in S : \A y \in S : x <= y
Highest(S) == CHOOSE x \in S : \A y \in S : y <= x

\* Division of C++, which truncates towards zero.
Quotient(n, d) == IF n >= 0 THEN n \div d ELSE -((-n) \div d)

\* Rounded to nearest on a rising segment; a falling one rounds towards zero.
Interpolate(dx, dy, x) == Quotient(dy * x + dx \div 2, dx)

\* The points on both sides of t, when t is inside the curve.
Above(c, t) == Lowest({x \in DOMAIN c : t <= x})
Below(c, t) == Highest({x \in DOMAIN c : x < Above(c, t)})

EffectiveColder(temp, falling) ==                                  \* mutant
  IF falling THEN temp - Hysteresis ELSE temp
Effective(temp, falling) == IF falling THEN temp + Hysteresis ELSE temp

\* percentFor: a broken curve runs the fan at full speed.
PercentFor(c, temp, falling) ==
  LET t  == Effective(temp, falling)
      hi == Above(c, t)
      lo == Below(c, t)
  IN IF ~Valid(c) THEN 100
     ELSE IF t <= Lowest(DOMAIN c) THEN c[Lowest(DOMAIN c)]
     ELSE IF t > Highest(DOMAIN c) THEN c[Highest(DOMAIN c)]
     ELSE c[lo] + Interpolate(hi - lo, c[hi] - c[lo], t - lo)

\* Speeds do not drop as the temperature rises.
NonDecreasing(c) == \A s, t \in DOMAIN c : s <= t => c[s] <= c[t]
=============================================================================
