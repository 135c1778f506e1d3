---------------------------- MODULE RiskCalculator ----------------------------
(***************************************************************************)
(* One call of RiskCalculator::calculate with any arguments, and what the  *)
(* metrics mean: definitions that do not sort are the reference the        *)
(* computation is compared with.                                           *)
(***************************************************************************)
EXTENDS RiskMetrics

CONSTANTS
    PnlValues,    \* the P&L a scenario result may have
    MaxResults,   \* bound on the number of results
    Confidences,  \* the confidence levels
    WorstCounts   \* the values worst_scenario_count may take

ASSUME ArgumentAssumption ==
    /\ PnlValues \subseteq -MaxFinite .. MaxFinite
    /\ MaxResults \in Nat
    /\ WorstCounts \subseteq Nat

\* static_cast<double>(n) is exact for every number n of results.
ASSUME CountsAssumption ==
    /\ MaxResults <= PowerOf2[Precision]
    /\ \A c \in Confidences : c.num \in Int /\ c.den \in Int

VARIABLES scenario_results, confidence_level, worst_scenario_count, outcome

arguments == <<scenario_results, confidence_level, worst_scenario_count>>
vars      == <<arguments, outcome>>

\* The engine numbers the results 0, 1, 2, ... in order.
Results ==
    UNION {{[i \in 1 .. n |-> [scenario_id |-> i - 1, scenario_name |-> "named",
                               pnl |-> pnls[i]]] :
               pnls \in [1 .. n -> PnlValues]} : n \in 0 .. MaxResults}

Init ==
    /\ scenario_results \in Results
    /\ confidence_level \in Confidences
    /\ worst_scenario_count \in WorstCounts
    /\ outcome = [status |-> "pending"]

Reject ==
    /\ outcome.status = "pending"
    /\ CalculateRejects(scenario_results, confidence_level)
    /\ outcome' = [status |-> "invalid_argument"]
    /\ UNCHANGED arguments

Calculate ==
    /\ outcome.status = "pending"
    /\ ~CalculateRejects(scenario_results, confidence_level)
    /\ outcome' = [status |-> "returned",
                   metrics |-> Metrics(scenario_results, confidence_level,
                                       worst_scenario_count)]
    /\ UNCHANGED arguments

Next == Reject \/ Calculate

Spec == Init /\ [][Next]_vars

-----------------------------------------------------------------------------
(* Properties.                                                             *)

Returned == outcome.status = "returned"
Metric   == outcome.metrics
Indices  == DOMAIN scenario_results
LossOf(i) == Loss(scenario_results[i])

\* The share of n results the confidence level asks for, in units of 1/den.
Asked == confidence_level.num * Len(scenario_results)

\* k results are that share; and they are but for the rounding of the
\* product, a relative error of 1/2^Precision.
Suffice(k)       == k * confidence_level.den >= Asked
NearlySuffice(k) ==
    LET scale == PowerOf2[Precision]
    IN  k * confidence_level.den * (scale + 1) >= Asked * scale

AtMost(x) == Cardinality({i \in Indices : LossOf(i) <= x})

\* VaR is the nearest-rank quantile: the least loss such that the losses up to
\* it are the share of the confidence level; rounding may choose the next
\* lower one only where that misses the share by the rounding error.
VarIsQuantile ==
    Returned =>
        /\ \E i \in Indices : LossOf(i) = Metric.value_at_risk
        /\ NearlySuffice(AtMost(Metric.value_at_risk))
        /\ \A i \in Indices :
               LossOf(i) < Metric.value_at_risk => ~Suffice(AtMost(LossOf(i)))

\* CVaR is the mean of the VaR observation and of everything at least as bad:
\* a set of results that is worse than the rest, whose best one is at VaR, and
\* without which too few results remain for the confidence level.
CvarIsTailMean ==
    Returned =>
        \E worst \in SUBSET Indices :
            LET below == Len(scenario_results) - Cardinality(worst) IN
            /\ \A i \in worst : LossOf(i) >= Metric.value_at_risk
            /\ \E i \in worst : LossOf(i) = Metric.value_at_risk
            /\ \A i \in Indices \ worst : LossOf(i) <= Metric.value_at_risk
            /\ ~Suffice(below) /\ NearlySuffice(below + 1)
            /\ Metric.tail_count = Cardinality(worst)
            /\ Metric.tail_sum = SumFunction([i \in worst |-> LossOf(i)])

\* The worst scenarios are distinct results, worst first, none of them better
\* than a result left out, and the first of them has the largest loss.
WorstAreWorst ==
    Returned =>
        LET list == Metric.worst_scenarios
            retained == ToSet(list)
            all      == {WorstScenario(r) : r \in ToSet(scenario_results)}
        IN  /\ retained \subseteq all
            /\ Cardinality(retained) = Len(list)
            /\ \/ Len(list) = worst_scenario_count
               \/ Len(list) < worst_scenario_count /\ retained = all
            /\ \A i, j \in DOMAIN list : i < j =>
                   /\ list[i].pnl <= list[j].pnl
                   /\ list[i].pnl = list[j].pnl =>
                          list[i].scenario_id < list[j].scenario_id
            /\ \A kept \in retained, out \in all \ retained :
                   kept.pnl <= out.pnl
===============================================================================
