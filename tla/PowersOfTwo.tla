------------------------------ MODULE PowersOfTwo ------------------------------
(***************************************************************************)
(* Powers of two, which scale the significand of a double: std::ldexp.  A  *)
(* recursive function, so that proofs can use its equation.                *)
(***************************************************************************)
EXTENDS Naturals

PowerOf2[k \in Nat] == IF k = 0 THEN 1 ELSE 2 * PowerOf2[k - 1]
================================================================================
