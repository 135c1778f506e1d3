------------------------------ MODULE RiskMetrics ------------------------------
(***************************************************************************)
(* RiskCalculator::calculate as a function of the scenario results, which  *)
(* are records with the fields scenario_id, scenario_name and pnl.  The    *)
(* confidence level is a fraction [num, den], den = 0 if it is not finite. *)
(* Its product with the number of results is rounded to Precision bits,    *)
(* which may carry it down to a whole number and so to another rank.  CVaR *)
(* is kept as the pair of tail_sum and tail_count it is the quotient of,   *)
(* because quotients are not integers.                                     *)
(***************************************************************************)
EXTENDS Doubles, PowersOfTwo

CONSTANT Precision \* bits of the significand of a double

ASSUME SignificandAssumption == Precision \in Nat \ {0}

\* `std::isfinite(c) && c > 0.0 && c < 1.0`
ValidConfidence(c) == c.den > 0 /\ 0 < c.num /\ c.num < c.den

Loss(result) == -result.pnl

\* std::ranges::sort with the order Before
Sorted(seq, Before(_, _)) ==
    LET order == CHOOSE p \in Bijection(DOMAIN seq, DOMAIN seq) :
                     \A i, j \in DOMAIN seq :
                         i < j => ~Before(seq[p[j]], seq[p[i]])
    IN  [i \in DOMAIN seq |-> seq[order[i]]]

SortedLosses(results) ==
    Sorted([i \in DOMAIN results |-> Loss(results[i])], LAMBDA a, b : a < b)

\* The fraction num / den rounded to the nearest number of Precision bits, of
\* two equally near ones to the even one.
Rounded(num, den) ==
    LET e == CHOOSE k \in 0 .. (Precision + den) :
                 /\ PowerOf2[Precision - 1] * den <= num * PowerOf2[k]
                 /\ num * PowerOf2[k] < PowerOf2[Precision] * den
        q == (num * PowerOf2[e]) \div den
        r == (num * PowerOf2[e]) % den
    IN  [num |-> IF 2 * r > den \/ (2 * r = den /\ q % 2 = 1) THEN q + 1 ELSE q,
         den |-> PowerOf2[e]]

\* confidence_level * static_cast<double>(n)
Share(c, n) == Rounded(c.num * n, c.den)

\* Mutant of Rank: the product is truncated.
RankTruncated(c, n) == Share(c, n).num \div Share(c, n).den

\* std::ceil(confidence_level * static_cast<double>(n))
Rank(c, n) == (Share(c, n).num + Share(c, n).den - 1) \div Share(c, n).den

\* The position, counted from 0, of the VaR observation among n sorted losses.
VarIndex(c, n) == (IF Rank(c, n) > 1 THEN Rank(c, n) ELSE 1) - 1

ValueAtRisk(results, c) ==
    SortedLosses(results)[VarIndex(c, Len(results)) + 1]

\* Mutant of RiskTail: the VaR observation itself is left out.
RiskTailExclusive(results, c) ==
    SubSeq(SortedLosses(results), VarIndex(c, Len(results)) + 2, Len(results))

\* The losses from the VaR observation through the worst.
RiskTail(results, c) ==
    SubSeq(SortedLosses(results), VarIndex(c, Len(results)) + 1, Len(results))

\* Mutant of Worse: the best scenarios come first.
Better(a, b) == a.pnl > b.pnl \/ (a.pnl = b.pnl /\ a.scenario_id < b.scenario_id)

\* The order of the worst scenarios: lower P&L first, then lower id.
Worse(a, b) ==
    a.pnl < b.pnl \/ (a.pnl = b.pnl /\ a.scenario_id < b.scenario_id)

WorstScenario(result) ==
    [scenario_id   |-> result.scenario_id,
     scenario_name |-> result.scenario_name,
     pnl           |-> result.pnl]

WorstScenarios(results, count) ==
    LET ordered == Sorted(results, Worse)
        retained == IF count < Len(results) THEN count ELSE Len(results)
    IN  [i \in 1 .. retained |-> WorstScenario(ordered[i])]

\* The arguments calculate rejects with invalid_argument.
CalculateRejects(results, c) ==
    \/ results = <<>>
    \/ ~ValidConfidence(c)
    \/ \E i \in DOMAIN results : ~IsFinite(results[i].pnl)

Metrics(results, c, count) ==
    [confidence_level |-> c,
     value_at_risk    |-> ValueAtRisk(results, c),
     tail_sum         |-> Total(RiskTail(results, c)),
     tail_count       |-> Len(RiskTail(results, c)),
     worst_scenarios  |-> WorstScenarios(results, count)]
================================================================================
