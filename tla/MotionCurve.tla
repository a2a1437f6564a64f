----------------------------- MODULE MotionCurve -----------------------------
(***************************************************************************)
(* MotionEngine::EvaluateProgress over exact fractions: how much of an      *)
(* impulse has been scrolled after `elapsed` of its `duration`.  The code   *)
(* works in doubles; here the quintic is evaluated as one fraction and      *)
(* rounded down to 1/Unit, the grain of every position in MotionEngine.     *)
(***************************************************************************)
EXTENDS Integers

CONSTANT Unit    \* sub-units of one wheel-delta unit

ASSUME UnitAssumption == Unit \in Nat /\ Unit >= 1

Clamp(x, low, high) == IF x < low THEN low ELSE IF x > high THEN high ELSE x

\* std::clamp(ratio, 0.1, 10.0) of the fraction head / tail.
ClampRatio(ratio) ==
  IF ratio.head > 10 * ratio.tail THEN [head |-> 10, tail |-> 1]
  ELSE IF 10 * ratio.head < ratio.tail THEN [head |-> 1, tail |-> 10]
  ELSE ratio

\* Mutant: the quintic without its linear term is not monotone.
Smoothstep_NoLinear(p, q) == p * p * p * (10 * q * q - 9 * p * p)

\* warped^3 (6 warped^2 - 15 warped + 10) for warped = p / q, over q^5.
Smoothstep(p, q) == p * p * p * (6 * p * p - 15 * p * q + 10 * q * q)

\* Mutant: time before the start or after the end is not clamped.
UnitTime_Unclamped(elapsed, duration) == elapsed

UnitTime(elapsed, duration) == Clamp(elapsed, 0, duration)

\* The share of an impulse scrolled, in sub-units: 0 .. Unit.
EvaluateProgress(elapsed, duration, ratio, easing) ==
  LET time == UnitTime(elapsed, duration)
      r == ClampRatio(ratio)
      \* time warped by the tail-to-head ratio, p / q
      p == r.head * time
      q == r.tail * duration + (r.head - r.tail) * time
  IN  IF easing THEN (Unit * Smoothstep(p, q)) \div (q * q * q * q * q)
                ELSE (Unit * time) \div duration
=============================================================================
