-------------------------------- MODULE Doubles --------------------------------
(***************************************************************************)
(* The values of type double, as far as the engine tells them apart: a     *)
(* finite value is an integer of magnitude at most MaxFinite, and a result *)
(* beyond that is an infinity.  Rounding is left out: arithmetic that does *)
(* not overflow is exact.  No operation of the engine has two infinite     *)
(* operands, and none multiplies an infinity, so there is no NaN here; the *)
(* constructors reject a NaN argument with the test that rejects Infinity. *)
(***************************************************************************)
EXTENDS Integers, SequencesExt

CONSTANT MaxFinite \* the largest finite value

ASSUME MaxFiniteAssumption == MaxFinite \in Nat \ {0}

Infinity == MaxFinite + 1

FiniteValues == -MaxFinite .. MaxFinite

\* std::isfinite
IsFinite(x) == x \in FiniteValues

\* A result that leaves the finite range is infinite.
Saturate(x) ==
    IF x > MaxFinite THEN Infinity ELSE IF x < -MaxFinite THEN -Infinity ELSE x

Times(x, y) == Saturate(x * y)
Minus(x, y) == Saturate(x - y)

\* An accumulator that has overflowed stays infinite.
Plus(sum, x) == IF IsFinite(sum) THEN Saturate(sum + x) ELSE sum

\* Values added to 0.0 from left to right.
Total(values) == FoldLeft(Plus, 0, values)
================================================================================
