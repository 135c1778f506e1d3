---------------------------- MODULE ScenarioRanges ----------------------------
(***************************************************************************)
(* How MonteCarloScenarioGenerator::generate splits the scenario ids       *)
(* 0 .. n-1 of one request among k workers: every worker gets n \div k     *)
(* consecutive ids and the first n % k workers get one more.               *)
(*                                                                         *)
(* The code computes in std::size_t.  No intermediate value exceeds n (the *)
(* theorems of ArithmeticProofs), so no operation wraps around and the *)
(* operators below use plain integers.                                     *)
(***************************************************************************)
EXTENDS Integers

\* std::min on the two operands the code compares.
Lesser(a, b) == IF a < b THEN a ELSE b

\* worker_count: never more workers than scenarios.
WorkerCount(n, threads) == Lesser(threads, n)

\* Mutant of RangeBegin: the earlier workers' extra ids are not skipped.
RangeBeginNoRemainder(n, k, w) == (n \div k) * w

\* begin: the first id of worker w among k workers.
RangeBegin(n, k, w) == (n \div k) * w + Lesser(w, n % k)

\* end: one past the last id of worker w.
RangeEnd(n, k, w) ==
    RangeBegin(n, k, w) + n \div k + (IF w < n % k THEN 1 ELSE 0)

\* The ids worker w iterates over.
RangeOf(n, k, w) == RangeBegin(n, k, w) .. (RangeEnd(n, k, w) - 1)
===============================================================================
