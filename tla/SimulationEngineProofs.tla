------------------------ MODULE SimulationEngineProofs ------------------------
(***************************************************************************)
(* What holds of SimulationEngine::run for all inputs: the validator is    *)
(* complete, so no phase after it meets an input it cannot handle; the     *)
(* figures of a report add up over positions and scenarios; and its risk   *)
(* metrics are the ones that are proved of the calculator, about the       *)
(* results in the same report.  Last, a caller that stresses a portfolio   *)
(* with the historical scenarios.                                          *)
(***************************************************************************)
EXTENDS SimulationEngine, DeterministicScenarios, ArithmeticProofs

-----------------------------------------------------------------------------
(* What is proved of the calculation of the metrics holds here too.        *)

Risk == INSTANCE RiskCalculatorProofs
            WITH PnlValues <- {}, MaxResults <- 0, Confidences <- {},
                 WorstCounts <- {},
                 confidence_level <- settings.confidence_level,
                 worst_scenario_count <- settings.worst_scenario_count,
                 outcome <- [status  |-> IF Returned THEN "returned" ELSE "pending",
                             metrics |-> risk_metrics]

\* Nothing of what is cited depends on the parameters given here.
LEMMA RiskAssumptions == Risk!ArgumentAssumption /\ Risk!CountsAssumption
  <1>1. Risk!PowerOf2 = PowerOf2
    BY Zenon DEF Risk!PowerOf2, PowerOf2
  <1>2. PowerOf2[Precision] \in Nat
    BY PowerOf2Def, SignificandAssumption
  <1> QED
    BY <1>1, <1>2 DEF Risk!ArgumentAssumption, Risk!CountsAssumption

\* The names of both modules mean the same.
LEMMA SameRisk ==
    /\ \A values : Risk!Total(values) = Total(values)
    /\ \A x : Risk!IsFinite(x) <=> IsFinite(x)
    /\ \A results : Risk!SortedLosses(results) = SortedLosses(results)
    /\ \A results : Risk!Sorted(results, Risk!Worse) = Sorted(results, Worse)
  <1> USE DEF Risk!Bijection, Bijection, Risk!Injection, Injection,
              Risk!Surjection, Surjection, Risk!IsInjective, IsInjective
  <1>1. \A values : Risk!Total(values) = Total(values)
    BY Zenon DEF Risk!Total, Total, Risk!Plus, Plus, Risk!IsFinite, IsFinite,
       Risk!Saturate, Saturate, Risk!FiniteValues, FiniteValues,
       Risk!Infinity, Infinity, Risk!FoldLeft, FoldLeft,
       Risk!MapThenFoldSet, MapThenFoldSet, Risk!Max, Max
  <1>2. \A x : Risk!IsFinite(x) <=> IsFinite(x)
    BY DEF Risk!IsFinite, IsFinite, Risk!FiniteValues, FiniteValues
  <1>3. \A results : Risk!SortedLosses(results) = SortedLosses(results)
    BY Zenon DEF Risk!SortedLosses, SortedLosses, Risk!Sorted, Sorted,
       Risk!Loss, Loss
  <1>4. \A results : Risk!Sorted(results, Risk!Worse) = Sorted(results, Worse)
    BY Zenon DEF Risk!Sorted, Sorted, Risk!Worse, Worse
  <1> QED
    BY <1>1, <1>2, <1>3, <1>4

\* An accumulator that ends with a finite value has never overflowed.
LEMMA FiniteTotalIsExact ==
    ASSUME NEW values \in Seq(Int), IsFinite(Total(values))
    PROVE  \E p : PartialSums(p, values) /\ p[Len(values)] = Total(values)
  <1>1. Risk!IsFinite(Risk!Total(values))
    BY SameRisk
  <1>2. PICK p : Risk!PartialSums(p, values) /\ p[Len(values)] = Risk!Total(values)
    BY <1>1, Risk!FiniteTotalIsExact, RiskAssumptions, MaxFiniteAssumption,
       SignificandAssumption
  <1>3. PartialSums(p, values)
    BY <1>2 DEF Risk!PartialSums, PartialSums
  <1> QED
    BY <1>2, <1>3, SameRisk

IsResultList(results) ==
    /\ results \in Seq(Range(results))
    /\ \A i \in DOMAIN results :
          results[i].pnl \in Int /\ results[i].scenario_id \in Int

\* The sorted losses are the losses, in ascending order.
LEMMA OrderOfLosses ==
    ASSUME NEW results, IsResultList(results)
    PROVE  \E p \in Bijection(DOMAIN results, DOMAIN results) :
              /\ SortedLosses(results)
                   = [i \in DOMAIN results |-> Loss(results[p[i]])]
              /\ \A i, j \in DOMAIN results :
                    i < j => Loss(results[p[i]]) <= Loss(results[p[j]])
  <1>1. Risk!IsResultList(results)
    BY DEF IsResultList, Risk!IsResultList, Risk!Range, Range
  <1>2. PICK p \in Risk!Bijection(DOMAIN results, DOMAIN results) :
           /\ Risk!SortedLosses(results)
                = [i \in DOMAIN results |-> Risk!Loss(results[p[i]])]
           /\ \A i, j \in DOMAIN results :
                 i < j => Risk!Loss(results[p[i]]) <= Risk!Loss(results[p[j]])
    BY <1>1, Risk!OrderOfLosses, RiskAssumptions, MaxFiniteAssumption,
       SignificandAssumption
  <1>3. p \in Bijection(DOMAIN results, DOMAIN results)
    BY DEF Risk!Bijection, Bijection, Risk!Injection, Injection,
           Risk!Surjection, Surjection, Risk!IsInjective, IsInjective
  <1>4. \A result : Risk!Loss(result) = Loss(result)
    BY DEF Risk!Loss, Loss
  <1> QED
    BY <1>2, <1>3, <1>4, SameRisk

\* The sorted results are the results, none after a better one.
LEMMA OrderOfResults ==
    ASSUME NEW results, IsResultList(results)
    PROVE  \E p \in Bijection(DOMAIN results, DOMAIN results) :
              /\ Sorted(results, Worse) = [i \in DOMAIN results |-> results[p[i]]]
              /\ \A i, j \in DOMAIN results :
                    i < j => ~Worse(results[p[j]], results[p[i]])
  <1>1. Risk!IsResultList(results)
    BY DEF IsResultList, Risk!IsResultList, Risk!Range, Range
  <1>2. PICK p \in Risk!Bijection(DOMAIN results, DOMAIN results) :
           /\ Risk!Sorted(results, Risk!Worse)
                = [i \in DOMAIN results |-> results[p[i]]]
           /\ \A i, j \in DOMAIN results :
                 i < j => ~Risk!Worse(results[p[j]], results[p[i]])
    BY <1>1, Risk!OrderOfResults, RiskAssumptions, MaxFiniteAssumption,
       SignificandAssumption
  <1>3. p \in Bijection(DOMAIN results, DOMAIN results)
    BY DEF Risk!Bijection, Bijection, Risk!Injection, Injection,
           Risk!Surjection, Surjection, Risk!IsInjective, IsInjective
  <1>4. \A a, b : Risk!Worse(a, b) <=> Worse(a, b)
    BY DEF Risk!Worse, Worse
  <1> QED
    BY <1>2, <1>3, <1>4, SameRisk

-----------------------------------------------------------------------------
(* Sums.                                                                   *)

\* ExactTotal is the last of the partial sums.
LEMMA ExactTotalByPrefixes ==
    ASSUME NEW values \in Seq(Int)
    PROVE  \E p : PartialSums(p, values) /\ p[Len(values)] = ExactTotal(values)
  <1> DEFINE n == Len(values)
             D == SUBSET (1 .. n)
             step == [x \in Int \X (1 .. n) |-> x[1] + values[x[2]]]
  <1>1. n \in Nat /\ DOMAIN values = 1 .. n /\ \A i \in 1 .. n : values[i] \in Int
    OBVIOUS
  <1> HIDE DEF n
  <1>3. step \in [Int \X (1 .. n) -> Int]
    BY <1>1
  <1>4. PICK g : IsFold(g, n, Int, 0, step)
    <2>1. n \in Nat /\ 0 \in Int
      BY <1>1
    <2> HIDE DEF step
    <2> QED
      BY <1>3, <2>1, FoldExists
  <1>5. g = [s \in D |-> IF s = {} THEN 0
                         ELSE g[s \ {Max(s)}] + values[Max(s)]]
    <2>1. ASSUME NEW s \in D, s # {}
          PROVE  step[<<g[s \ {Max(s)}], Max(s)>>]
                   = g[s \ {Max(s)}] + values[Max(s)]
      <3>1. Max(s) \in 1 .. n
        BY <1>1, <2>1, MaxOf
      <3>2. <<g[s \ {Max(s)}], Max(s)>> \in Int \X (1 .. n)
        BY <1>4, <3>1 DEF IsFold
      <3> QED
        BY <3>2
    <2> HIDE DEF step
    <2> QED
      BY <1>4, <2>1 DEF IsFold
  <1>6. PICK h : /\ h = [s \in D |-> IF s = {} THEN 0
                                     ELSE h[s \ {Max(s)}] + values[Max(s)]]
                 /\ ExactTotal(values) = h[1 .. n]
    BY <1>1, <1>5, Zenon DEF ExactTotal, FoldLeft, MapThenFoldSet
  <1> DEFINE p == [i \in 0 .. n |-> h[1 .. i]]
  <1>7. p[0] = 0
    <2>1. h[{}] = 0
      BY <1>6
    <2> QED
      BY <1>1, <2>1
  <1>8. \A i \in 1 .. n : p[i] = p[i - 1] + values[i]
    <2> TAKE i \in 1 .. n
    <2>1. 1 .. i \in D /\ i \in Nat \ {0} /\ i - 1 \in 0 .. n /\ i \in 0 .. n
      BY <1>1
    <2>2. h[1 .. i] = h[1 .. (i - 1)] + values[i]
      BY <1>6, <2>1, FirstPositions
    <2> QED
      BY <2>1, <2>2
  <1> HIDE DEF p
  <1>9. \A i \in Nat : i \in 0 .. n => p[i] \in Int
    <2> DEFINE T == {i \in Nat : i \in 0 .. n => p[i] \in Int}
    <2>1. 0 \in T
      BY <1>7
    <2>2. \A i \in Nat : i \in T => i + 1 \in T
      <3> TAKE i \in Nat
      <3> SUFFICES ASSUME i \in T, i + 1 \in 0 .. n PROVE p[i + 1] \in Int
        OBVIOUS
      <3>1. i + 1 \in 1 .. n /\ (i + 1) - 1 = i /\ i \in 0 .. n
        BY <1>1
      <3> QED
        BY <1>1, <1>8, <3>1
    <2> HIDE DEF T
    <2>3. Nat \subseteq T
      BY <2>1, <2>2, SetInduction
    <2> QED
      BY <2>3 DEF T
  <1>10. p \in [0 .. n -> Int] /\ p[n] = ExactTotal(values)
    <2>1. \A i \in 0 .. n : p[i] \in Int
      BY <1>1, <1>9
    <2>2. n \in 0 .. n
      BY <1>1
    <2> QED
      BY <1>6, <2>1, <2>2 DEF p
  <1> QED
    BY <1>7, <1>8, <1>10 DEF n, PartialSums

-----------------------------------------------------------------------------
(* The rank of the VaR observation.                                        *)

\* sorted_losses[var_index] is in bounds for every list of scenarios run may
\* get: rounding up a share of n losses that is no more than n, rounded as it
\* is, never passes the last of them.
THEOREM VarIndexInBounds ==
    ASSUME NEW s \in SettingsValues, ValidConfidence(s.confidence_level),
           NEW list \in ScenarioLists, list # <<>>
    PROVE  VarIndex(s.confidence_level, Len(list)) \in 0 .. (Len(list) - 1)
  <1> DEFINE c == s.confidence_level
             n == Len(list)
  <1>1. n \in Nat \ {0}
    <2>1. list \in Seq(Range(list))
      BY SequencesAssumption
    <2> QED
      BY <2>1
  <1>2. /\ Risk!PowerOf2 = PowerOf2
        /\ \A x : Risk!ValidConfidence(x) <=> ValidConfidence(x)
        /\ \A x, k : Risk!VarIndex(x, k) = VarIndex(x, k)
    <2>1. Risk!PowerOf2 = PowerOf2
      BY Zenon DEF Risk!PowerOf2, PowerOf2
    <2>2. \A x, k : Risk!Share(x, k) = Share(x, k)
      BY <2>1 DEF Risk!Share, Share, Risk!Rounded, Rounded
    <2>3. \A x, k : Risk!VarIndex(x, k) = VarIndex(x, k)
      BY <2>2, Zenon DEF Risk!VarIndex, VarIndex, Risk!Rank, Rank
    <2> QED
      BY <2>1, <2>3 DEF Risk!ValidConfidence, ValidConfidence
  <1>3. c.num \in Int /\ c.den \in Int /\ n <= PowerOf2[Precision]
    BY SettingsAssumption, CountsAssumption
  <1> HIDE DEF c, n
  <1>4. Risk!ValidConfidence(c) /\ n <= Risk!PowerOf2[Precision]
    BY <1>2, <1>3 DEF c
  <1>5. Risk!VarIndex(c, n) \in 0 .. (n - 1)
    BY <1>1, <1>3, <1>4, Risk!VarIndexOfShare, RiskAssumptions,
       MaxFiniteAssumption, SignificandAssumption
  <1> QED
    BY <1>2, <1>5 DEF c, n

-----------------------------------------------------------------------------
(* The exceptions of the loops over the positions.                         *)

\* A position of accepted inputs is priced at a finite value that is not
\* negative: the constructor of MarketState has seen it.
LEMMA PositionsHavePrices ==
    ASSUME Constructible, ValidInputs, NEW i \in DOMAIN portfolio
    PROVE  /\ HasPrice(market_state, portfolio[i].symbol)
           /\ ValidPrice(market_state[portfolio[i].symbol])
  BY DEF Constructible, ValidMarketState, ValidInputs, AcceptsInputs, HasPrice

\* Where every position has a price, valuation throws only overflow_error.
LEMMA ValueThrowsOverflow ==
    ASSUME Constructible, ValidInputs, NEW sums, NEW e \in Throws(ValueLoop, sums)
    PROVE  e = "overflow_error"
  <1>1. DOMAIN ValueLoop = DOMAIN portfolio
    BY DEF ValueLoop, ValueOutcomes, Fields
  <1>2. \A i \in DOMAIN portfolio : ValueLoop[i] \in {"none", "overflow_error"}
    BY PositionsHavePrices DEF ValueLoop, ValueOutcomes, Fields, PositionThrows
  <1> QED
    BY <1>1, <1>2 DEF Throws

\* Where the scenario has a shock for every position, repricing throws only
\* overflow_error: the prices it stresses are those of the market state.
LEMMA RepriceThrowsOverflow ==
    ASSUME Constructible, ValidInputs, current_portfolio = Valued,
           index + 1 \in DOMAIN scenarios, NEW sums,
           NEW e \in Throws(RepriceLoop, sums)
    PROVE  e = "overflow_error"
  <1>1. /\ DOMAIN current_portfolio.positions = DOMAIN portfolio
        /\ \A i \in DOMAIN portfolio :
              /\ current_portfolio.positions[i].position = portfolio[i]
              /\ current_portfolio.positions[i].current_price
                   = market_state[portfolio[i].symbol]
    BY DEF Valued, Valuation, PortfolioValuation, PositionValuation, Fields
  <1>2. DOMAIN RepriceLoop = DOMAIN portfolio
    BY <1>1 DEF RepriceLoop, RepriceOutcomes, Fields
  <1>3. \A i \in DOMAIN portfolio : HasShock(scenario, portfolio[i].symbol)
    BY DEF ValidInputs, AcceptsInputs, scenario
  <1>4. \A i \in DOMAIN portfolio : RepriceLoop[i] \in {"none", "overflow_error"}
    <2> TAKE i \in DOMAIN portfolio
    <2> DEFINE v == current_portfolio.positions[i]
    <2>1. ValidPrice(v.current_price)
      BY <1>1, PositionsHavePrices
    <2>2. StressingThrows(v, scenario) \in {"none", "overflow_error"}
      BY <2>1 DEF StressingThrows, StressedPriceThrows
    <2>3. HasShock(scenario, v.position.symbol)
      BY <1>1, <1>3
    <2>4. RepriceLoop[i] = RepricingThrows(v, scenario)
      BY <1>1 DEF RepriceLoop, RepriceOutcomes, Fields
    <2> HIDE DEF v
    <2> QED
      BY <2>2, <2>3, <2>4 DEF RepricingThrows
  <1> QED
    BY <1>2, <1>4 DEF Throws

-----------------------------------------------------------------------------
(* The invariant.                                                          *)

\* What is computed from the inputs stays what it is.
LEMMA InputsKept ==
    ASSUME UNCHANGED inputs
    PROVE  /\ Valued' = Valued /\ ValueLoop' = ValueLoop
           /\ (ValidInputs' <=> ValidInputs)
           /\ (Constructible' <=> Constructible)
  BY DEF inputs, Valued, ValueLoop, ValidInputs, Constructible

\* The results stay those of the inputs.
LEMMA ComputedKept ==
    ASSUME Computed, UNCHANGED <<inputs, current_portfolio, scenario_results>>
    PROVE  Computed'
  BY DEF inputs, Computed, Valued, ValueLoop, ValidInputs, ResultOf

LEMMA InitInvariant == Init => IInv
  <1> SUFFICES ASSUME Init PROVE IInv
    OBVIOUS
  <1>1. scenarios \in Seq(Range(scenarios))
    BY SequencesAssumption DEF Init
  <1>2. Len(scenarios) \in Nat /\ Len(scenario_results) = 0
    BY <1>1 DEF Init
  <1>3. TypeOK
    BY <1>2 DEF Init, TypeOK, index
  <1> QED
    BY <1>3 DEF Init, IInv, ValidationIsComplete, Returned

\* A phase that throws ends the call; only the phases before the valuation may
\* throw something else than overflow_error.
LEMMA ThrowStep ==
    ASSUME IInv, NEW e \in {"invalid_argument", "overflow_error"}, Throw(e),
           phase \in {"construct", "validate"} \/ e = "overflow_error"
    PROVE  IInv'
  <1> USE DEF Throw, inputs, report
  <1>1. TypeOK'
    BY DEF IInv, TypeOK, index
  <1>2. ValidationIsComplete'
    BY DEF IInv, ValidationIsComplete
  <1>3. phase' = "exit" /\ ~Returned'
    BY DEF Returned
  <1> QED
    BY <1>1, <1>2, <1>3 DEF IInv

LEMMA NextInvariant ==
    ASSUME IInv, [Next]_vars
    PROVE  IInv'
  <1>1. TypeOK /\ scenarios \in Seq(Range(scenarios))
    BY SequencesAssumption DEF IInv
  <1>2. Len(scenarios) \in Nat /\ DOMAIN scenarios = 1 .. Len(scenarios)
        /\ index \in Nat
    BY <1>1 DEF TypeOK, index
  <1>3. CASE Construct
    <2>1. /\ phase = "construct" /\ phase' = "validate" /\ Constructible
          /\ UNCHANGED <<inputs, report, thrown>>
      BY <1>3 DEF Construct
    <2>2. Constructible' /\ ~Returned'
      BY <2>1, InputsKept DEF Returned
    <2> QED
      BY <2>1, <2>2 DEF inputs, report, IInv, TypeOK, ValidationIsComplete, index
  <1>4. CASE ConstructThrows
    BY <1>4, ThrowStep DEF ConstructThrows
  <1>5. CASE Validate
    <2>1. /\ phase = "validate" /\ phase' = "value" /\ ValidInputs
          /\ UNCHANGED <<inputs, report, thrown>>
      BY <1>5 DEF Validate
    <2>2. Constructible' /\ ValidInputs' /\ ~Returned'
      BY <2>1, InputsKept DEF Returned, IInv
    <2> QED
      BY <2>1, <2>2 DEF inputs, report, IInv, TypeOK, ValidationIsComplete, index
  <1>6. CASE ValidateThrows
    BY <1>6, ThrowStep DEF ValidateThrows
  <1>7. CASE Value
    <2>1. /\ phase = "value" /\ phase' = "reprice"
          /\ Succeeds(ValueLoop, ValueSums(Valued))
          /\ current_portfolio' = Valued
          /\ UNCHANGED <<inputs, scenario_results, risk_metrics, thrown>>
      BY <1>7 DEF Value
    <2>2. IsFinite(current_portfolio'.total_value)
      BY <2>1 DEF Succeeds, ValueSums
    <2>3. Constructible' /\ ~Returned'
      BY <2>1, InputsKept DEF Returned, IInv
    <2>4. Computed'
      <3>1. scenario_results' = <<>> /\ ValidInputs'
        BY <2>1, InputsKept DEF IInv
      <3>2. DOMAIN scenario_results' = {}
        BY <3>1
      <3>3. current_portfolio' = Valued' /\ Succeeds(ValueLoop, ValueSums(Valued))'
        BY <2>1, InputsKept DEF Succeeds, ValueSums
      <3> QED
        BY <3>1, <3>2, <3>3 DEF Computed
    <2> QED
      BY <2>1, <2>2, <2>3, <2>4
      DEF inputs, IInv, TypeOK, ValidationIsComplete, index
  <1>8. CASE ValueFails
    <2>1. PICK e \in Throws(ValueLoop, ValueSums(Valued)) : Throw(e)
      BY <1>8 DEF ValueFails
    <2>2. e = "overflow_error"
      BY <1>8, <2>1, ValueThrowsOverflow DEF ValueFails, IInv
    <2> QED
      BY <2>1, <2>2, ThrowStep
  <1>9. CASE Reprice
    <2>1. /\ phase = "reprice" /\ phase' = "reprice"
          /\ index < Len(scenarios)
          /\ Succeeds(RepriceLoop, ResultSums(Repriced))
          /\ scenario_results' = Append(scenario_results, Repriced)
          /\ UNCHANGED <<inputs, current_portfolio, risk_metrics, thrown>>
      BY <1>9 DEF Reprice
    <2>2. /\ Repriced.scenario_id = index
          /\ IsFinite(Repriced.stressed_portfolio_value)
          /\ IsFinite(Repriced.pnl)
      BY <2>1 DEF Succeeds, ResultSums, Repriced, Repricing, Result
    <2>3. /\ scenario_results' \in Seq(Range(scenario_results) \cup {Repriced})
          /\ Len(scenario_results') = index + 1
          /\ \A i \in DOMAIN scenario_results' :
                scenario_results'[i] = IF i = index + 1 THEN Repriced
                                       ELSE scenario_results[i]
          /\ DOMAIN scenario_results' = 1 .. (index + 1)
          /\ DOMAIN scenario_results = 1 .. index
      BY <1>1, <2>1 DEF TypeOK, index
    <2>4. TypeOK'
      <3>1. scenario_results' \in Seq(Range(scenario_results'))
        BY <2>3 DEF Range
      <3>2. \A i \in DOMAIN scenario_results' :
               /\ scenario_results'[i].scenario_id = i - 1
               /\ IsFinite(scenario_results'[i].stressed_portfolio_value)
               /\ IsFinite(scenario_results'[i].pnl)
        BY <1>1, <1>2, <2>2, <2>3 DEF TypeOK, index
      <3> QED
        BY <1>1, <1>2, <2>1, <2>3, <3>1, <3>2 DEF inputs, TypeOK, index
    <2>5. Constructible' /\ ~Returned'
      BY <2>1, InputsKept DEF Returned, IInv
    <2>6. Computed'
      <3>1. Computed
        BY <2>1 DEF IInv
      <3>2. Repriced = ResultOf(index + 1)
        BY <1>2 DEF Repriced, ResultOf, scenario
      <3>3. Succeeds(RepriceOutcomes(current_portfolio, scenarios[index + 1]),
                     ResultSums(ResultOf(index + 1)))
        BY <2>1, <3>2 DEF RepriceLoop, scenario
      <3>4. ASSUME NEW i \in DOMAIN scenario_results'
            PROVE  /\ scenario_results'[i] = ResultOf(i)
                   /\ Succeeds(RepriceOutcomes(current_portfolio, scenarios[i]),
                               ResultSums(ResultOf(i)))
        <4>1. CASE i = index + 1
          BY <2>3, <3>2, <3>3, <4>1
        <4>2. CASE i # index + 1
          <5>1. i \in DOMAIN scenario_results
            BY <1>2, <2>3, <4>2
          <5> QED
            BY <2>3, <3>1, <4>2, <5>1 DEF Computed
        <4> QED
          BY <4>1, <4>2
      <3>5. scenarios' = scenarios
        BY <2>1 DEF inputs
      <3>6. \A i : ResultOf(i)' = ResultOf(i)
        BY <2>1, <3>5 DEF ResultOf
      <3>7. /\ ValidInputs' /\ current_portfolio' = Valued'
            /\ Succeeds(ValueLoop, ValueSums(Valued))'
        BY <2>1, <3>1, InputsKept DEF Computed, Succeeds, ValueSums
      <3> QED
        BY <2>1, <3>4, <3>5, <3>6, <3>7 DEF Computed
    <2> QED
      BY <2>1, <2>4, <2>5, <2>6 DEF inputs, IInv, ValidationIsComplete
  <1>10. CASE RepriceFails
    <2>1. PICK e \in Throws(RepriceLoop, ResultSums(Repriced)) : Throw(e)
      BY <1>10 DEF RepriceFails
    <2>2. index + 1 \in DOMAIN scenarios
      BY <1>2, <1>10 DEF RepriceFails
    <2>3. e = "overflow_error"
      BY <1>10, <2>1, <2>2, RepriceThrowsOverflow DEF RepriceFails, IInv, Computed
    <2> QED
      BY <2>1, <2>3, ThrowStep
  <1>11. CASE Calculate
    <2>1. phase = "reprice" /\ index = Len(scenarios) /\ Computed /\ Constructible
      BY <1>11 DEF Calculate, IInv
    <2>2. scenario_results # <<>>
      BY <1>1, <1>2, <2>1 DEF Computed, ValidInputs, AcceptsInputs, index
    <2>3. \A i \in DOMAIN scenario_results : IsFinite(scenario_results[i].pnl)
      BY <1>1 DEF TypeOK
    <2>4. ~CalculateRejects(scenario_results, settings.confidence_level)
      BY <2>1, <2>2, <2>3 DEF CalculateRejects, Constructible
    <2>5. /\ phase' = "exit"
          /\ risk_metrics' = Metrics(scenario_results, settings.confidence_level,
                                     settings.worst_scenario_count)
          /\ UNCHANGED <<inputs, current_portfolio, scenario_results, thrown>>
      BY <1>11, <2>4 DEF Calculate
    <2>6. Computed' /\ Constructible'
      BY <2>1, <2>5, InputsKept, ComputedKept
    <2> QED
      BY <1>1, <2>1, <2>5, <2>6
      DEF inputs, IInv, TypeOK, index, ValidationIsComplete
  <1>12. CASE UNCHANGED vars
    <2>1. /\ UNCHANGED <<inputs, phase, current_portfolio, scenario_results,
                         risk_metrics, thrown>>
      BY <1>12 DEF vars, report
    <2>2. Returned' <=> Returned
      BY <2>1 DEF Returned
    <2>3. (Returned \/ phase = "reprice") => Computed'
      BY <2>1, ComputedKept DEF IInv
    <2> QED
      BY <2>1, <2>2, <2>3, InputsKept
      DEF inputs, IInv, TypeOK, index, ValidationIsComplete
  <1> QED
    BY <1>3, <1>4, <1>5, <1>6, <1>7, <1>8, <1>9, <1>10, <1>11, <1>12 DEF Next

\* IInv holds in every state of every call.
THEOREM Invariance == Spec => []IInv
  <1>1. Init => IInv
    BY InitInvariant
  <1>2. IInv /\ [Next]_vars => IInv'
    BY NextInvariant
  <1> QED
    BY <1>1, <1>2, PTL DEF Spec

\* Results are numbered from 0 in the order of their scenarios, and every sum
\* the call keeps is finite.
THEOREM TypeCorrect == Spec => []TypeOK
  <1>1. IInv => TypeOK
    BY DEF IInv
  <1> QED
    BY <1>1, Invariance, PTL

\* Whatever the caller passes, a call that gets past the validator throws
\* nothing but overflow_error.
THEOREM CompleteValidation == Spec => []ValidationIsComplete
  <1>1. IInv => ValidationIsComplete
    BY DEF IInv
  <1> QED
    BY <1>1, Invariance, PTL
-----------------------------------------------------------------------------
(* What the valuation and the results of a returned call are made of.      *)

\* The positions' values.
Worth == [k \in DOMAIN portfolio |->
             portfolio[k].quantity * market_state[portfolio[k].symbol]]

\* What the shocks of the i-th scenario do to them.
Moves(i) == [k \in DOMAIN portfolio |->
                portfolio[k].quantity * market_state[portfolio[k].symbol]
                * scenarios[i].price_shocks[portfolio[k].symbol]]

\* A result that is finite has not been saturated.
LEMMA Unsaturated ==
    ASSUME NEW x \in Int, IsFinite(Saturate(x))
    PROVE  Saturate(x) = x
  BY MaxFiniteAssumption DEF Saturate, IsFinite, FiniteValues, Infinity

LEMMA FiniteType ==
    /\ \A x : IsFinite(x) => x \in Int
    /\ IsFinite(1) /\ IsFinite(0)
  BY MaxFiniteAssumption DEF IsFinite, FiniteValues

\* The value of a shocked position, and what the shock does to it.
LEMMA ShockedValue ==
    ASSUME NEW q \in Int, NEW price \in Int, NEW shock \in Int
    PROVE  /\ q * (price * (1 + shock)) = q * price + q * price * shock
           /\ q * price * shock \in Int
  <1>1. price * (1 + shock) = price + price * shock
    OBVIOUS
  <1>2. price * shock \in Int /\ q * price \in Int
    OBVIOUS
  <1>3. q * (price + price * shock) = q * price + q * (price * shock)
    BY <1>2
  <1>4. q * (price * shock) = q * price * shock
    OBVIOUS
  <1> QED
    BY <1>1, <1>2, <1>3, <1>4

\* The portfolio is a sequence of positions with a price.
LEMMA PortfolioType ==
    ASSUME IInv, Constructible, Computed
    PROVE  /\ Len(portfolio) \in Nat /\ DOMAIN portfolio = 1 .. Len(portfolio)
           /\ Len(scenarios) \in Nat /\ DOMAIN scenarios = 1 .. Len(scenarios)
           /\ Len(scenario_results) <= Len(scenarios)
           /\ DOMAIN scenario_results = 1 .. Len(scenario_results)
           /\ \A k \in DOMAIN portfolio :
                 /\ portfolio[k].quantity \in Int
                 /\ market_state[portfolio[k].symbol] \in Nat
                 /\ HasPrice(market_state, portfolio[k].symbol)
  <1>1. portfolio \in Seq(Range(portfolio)) /\ scenarios \in Seq(Range(scenarios))
    BY SequencesAssumption DEF IInv
  <1>2. scenario_results \in Seq(Range(scenario_results))
        /\ Len(scenario_results) <= Len(scenarios)
    BY DEF IInv, TypeOK, index
  <1>3. ASSUME NEW k \in DOMAIN portfolio
        PROVE  /\ portfolio[k].quantity \in Int
               /\ market_state[portfolio[k].symbol] \in Nat
               /\ HasPrice(market_state, portfolio[k].symbol)
    <2>1. HasPrice(market_state, portfolio[k].symbol)
      BY DEF Computed, ValidInputs, AcceptsInputs
    <2>2. IsFinite(portfolio[k].quantity)
      BY DEF Constructible, ValidPosition
    <2>3. IsFinite(market_state[portfolio[k].symbol])
          /\ market_state[portfolio[k].symbol] >= 0
      BY <2>1 DEF Constructible, ValidMarketState, ValidPrice, HasPrice
    <2> QED
      BY <2>1, <2>2, <2>3, FiniteType
  <1> QED
    BY <1>1, <1>2, <1>3

\* The valuation has not saturated a product.
LEMMA ValuationOfWorth ==
    ASSUME IInv, Constructible, Computed
    PROVE  /\ Worth \in Seq(Int) /\ Len(Worth) = Len(portfolio)
           /\ DOMAIN current_portfolio.positions = DOMAIN portfolio
           /\ \A k \in DOMAIN portfolio :
                 /\ current_portfolio.positions[k]
                      = PositionValuation(portfolio[k], market_state)
                 /\ MarketValue(current_portfolio.positions[k]) = Worth[k]
           /\ current_portfolio.total_value = Total(Worth)
           /\ current_portfolio.long_exposure
                = Total([k \in DOMAIN portfolio |-> Positive(Worth[k])])
           /\ current_portfolio.short_exposure
                = Total([k \in DOMAIN portfolio |-> Positive(-Worth[k])])
           /\ IsFinite(current_portfolio.total_value)
           /\ IsFinite(current_portfolio.long_exposure)
           /\ IsFinite(current_portfolio.short_exposure)
  <1> DEFINE v == current_portfolio.positions
  <1>1. v = Fields(portfolio, LAMBDA p : PositionValuation(p, market_state))
    BY DEF Computed, Valued, Valuation, PortfolioValuation
  <1>2. /\ DOMAIN v = DOMAIN portfolio
        /\ \A k \in DOMAIN portfolio : v[k] = PositionValuation(portfolio[k], market_state)
    BY <1>1 DEF Fields
  <1>3. ASSUME NEW k \in DOMAIN portfolio
        PROVE  MarketValue(v[k]) = Worth[k] /\ Worth[k] \in Int
    <2>1. ValueLoop[k] = PositionThrows(portfolio[k], market_state)
          /\ k \in DOMAIN ValueLoop
      BY DEF ValueLoop, ValueOutcomes, Fields
    <2>2. ValueLoop[k] = "none"
      BY <2>1 DEF Computed, Succeeds
    <2>3. IsFinite(MarketValue(PositionValuation(portfolio[k], market_state)))
      BY <2>1, <2>2, PortfolioType DEF PositionThrows
    <2>4. MarketValue(PositionValuation(portfolio[k], market_state))
             = Saturate(portfolio[k].quantity * market_state[portfolio[k].symbol])
      BY DEF MarketValue, PositionValuation, Times
    <2>5. portfolio[k].quantity * market_state[portfolio[k].symbol] \in Int
      BY PortfolioType
    <2> QED
      BY <1>2, <2>3, <2>4, <2>5, Unsaturated DEF Worth
  <1>4. Worth \in Seq(Int) /\ Len(Worth) = Len(portfolio)
    <2>1. Worth \in [1 .. Len(portfolio) -> Int]
      BY <1>3, PortfolioType DEF Worth
    <2> QED
      BY <2>1, PortfolioType, FunctionIsSequence
  <1>5. Fields(v, MarketValue) = Worth
    BY <1>2, <1>3 DEF Fields, Worth
  <1>6. DOMAIN Worth = DOMAIN portfolio
    BY DEF Worth
  <1>7. Fields(Worth, Positive) = [k \in DOMAIN portfolio |-> Positive(Worth[k])]
    BY <1>6 DEF Fields
  <1>8. Fields(Worth, LAMBDA x : Positive(-x))
           = [k \in DOMAIN portfolio |-> Positive(-Worth[k])]
    BY <1>6 DEF Fields
  <1>9. current_portfolio = PortfolioValuation(v)
    BY <1>1 DEF Computed, Valued, Valuation
  <1>10. /\ current_portfolio.total_value = Total(Fields(v, MarketValue))
         /\ current_portfolio.long_exposure
              = Total(Fields(Fields(v, MarketValue), Positive))
         /\ current_portfolio.short_exposure
              = Total(Fields(Fields(v, MarketValue), LAMBDA x : Positive(-x)))
    <2> HIDE DEF v
    <2> QED
      BY <1>9 DEF PortfolioValuation
  <1>11. /\ IsFinite(current_portfolio.total_value)
         /\ IsFinite(current_portfolio.long_exposure)
         /\ IsFinite(current_portfolio.short_exposure)
    BY DEF Computed, Succeeds, ValueSums
  <1> QED
    BY <1>2, <1>3, <1>4, <1>5, <1>7, <1>8, <1>10, <1>11

\* Neither has a result.
LEMMA ResultOfMoves ==
    ASSUME IInv, Constructible, Computed, NEW i \in DOMAIN scenario_results
    PROVE  /\ Moves(i) \in Seq(Int) /\ Len(Moves(i)) = Len(portfolio)
           /\ \A k \in DOMAIN portfolio :
                 /\ scenario_results[i].positions[k].pnl = Moves(i)[k]
                 /\ 0 <= 1 + scenarios[i].price_shocks[portfolio[k].symbol]
                 /\ Moves(i)[k] = Worth[k]
                       * scenarios[i].price_shocks[portfolio[k].symbol]
                 /\ scenarios[i].price_shocks[portfolio[k].symbol] \in Int
           /\ scenario_results[i].current_portfolio_value
                = current_portfolio.total_value
           /\ scenario_results[i].pnl = Total(Moves(i))
           /\ scenario_results[i].stressed_portfolio_value
                = Total([k \in DOMAIN portfolio |-> Worth[k] + Moves(i)[k]])
           /\ IsFinite(scenario_results[i].pnl)
           /\ IsFinite(scenario_results[i].stressed_portfolio_value)
  <1> DEFINE v == current_portfolio.positions
             r == Fields(v, LAMBDA x : PositionRepricing(x, scenarios[i]))
             shock(k) == scenarios[i].price_shocks[portfolio[k].symbol]
  <1>1. /\ i \in DOMAIN scenarios
        /\ scenario_results[i] = ResultOf(i)
        /\ Succeeds(RepriceOutcomes(current_portfolio, scenarios[i]),
                    ResultSums(ResultOf(i)))
    BY PortfolioType DEF Computed
  <1>2. ValidScenario(scenarios[i])
    BY <1>1 DEF Constructible, Computed, ValidInputs, AcceptsInputs
  <1>3. /\ DOMAIN r = DOMAIN portfolio
        /\ \A k \in DOMAIN portfolio :
              r[k] = PositionRepricing(PositionValuation(portfolio[k], market_state),
                                       scenarios[i])
    BY ValuationOfWorth DEF Fields
  <1>4. ASSUME NEW k \in DOMAIN portfolio
        PROVE  /\ shock(k) \in Int /\ 0 <= 1 + shock(k)
               /\ Moves(i)[k] = Worth[k] * shock(k)
               /\ Moves(i)[k] \in Int
               /\ r[k].stressed_value = Worth[k] + Moves(i)[k]
               /\ r[k].pnl = Moves(i)[k]
    <2> DEFINE q     == portfolio[k].quantity
               price == market_state[portfolio[k].symbol]
    <2>1. q \in Int /\ price \in Int /\ Worth[k] = q * price /\ Worth[k] \in Int
      BY PortfolioType, ValuationOfWorth DEF Worth
    <2>2. RepricingThrows(PositionValuation(portfolio[k], market_state), scenarios[i])
             = "none"
      <3>1. /\ k \in DOMAIN RepriceOutcomes(current_portfolio, scenarios[i])
            /\ RepriceOutcomes(current_portfolio, scenarios[i])[k]
                 = RepricingThrows(v[k], scenarios[i])
        BY ValuationOfWorth DEF RepriceOutcomes, Fields
      <3> QED
        BY <1>1, <3>1, ValuationOfWorth DEF Succeeds
    <2>3. /\ HasShock(scenarios[i], portfolio[k].symbol)
          /\ IsFinite(r[k].stressed_price)
          /\ IsFinite(r[k].stressed_value)
          /\ IsFinite(r[k].pnl)
      <3> DEFINE x == PositionValuation(portfolio[k], market_state)
      <3>1. /\ r[k] = PositionRepricing(x, scenarios[i])
            /\ RepricingThrows(x, scenarios[i]) = "none"
            /\ x.position = portfolio[k]
        BY <1>3, <2>2 DEF PositionValuation
      <3> HIDE DEF x, r
      <3>2. /\ HasShock(scenarios[i], x.position.symbol)
            /\ StressingThrows(x, scenarios[i]) = "none"
            /\ IsFinite(r[k].stressed_value) /\ IsFinite(r[k].pnl)
        BY <3>1 DEF RepricingThrows
      <3>3. r[k].stressed_price
               = StressedPrice(scenarios[i], x.position.symbol, x.current_price)
        BY <3>1 DEF PositionRepricing
      <3>4. IsFinite(r[k].stressed_price)
        BY <3>2, <3>3 DEF StressingThrows, StressedPriceThrows
      <3> QED
        BY <3>1, <3>2, <3>4
    <2>4. IsFinite(shock(k)) /\ shock(k) >= -1
      BY <1>2, <2>3 DEF ValidScenario, HasShock
    <2>5. shock(k) \in Int /\ 0 <= 1 + shock(k)
      BY <2>4, FiniteType
    <2>6. Plus(1, shock(k)) = 1 + shock(k)
      BY <2>4, <2>5, FiniteType, MaxFiniteAssumption
      DEF Plus, Saturate, IsFinite, FiniteValues, Infinity
    <2>7. /\ r[k].stressed_price = Saturate(price * (1 + shock(k)))
          /\ r[k].stressed_value = Saturate(q * r[k].stressed_price)
          /\ r[k].pnl = Saturate(r[k].stressed_value - Worth[k])
      <3>1. MarketValue(PositionValuation(portfolio[k], market_state)) = Worth[k]
        BY ValuationOfWorth
      <3>2. /\ PositionValuation(portfolio[k], market_state).position = portfolio[k]
            /\ PositionValuation(portfolio[k], market_state).current_price = price
        BY DEF PositionValuation
      <3>3. r[k] = PositionRepricing(PositionValuation(portfolio[k], market_state),
                                     scenarios[i])
        BY <1>3
      <3> HIDE DEF r
      <3>4. /\ r[k].stressed_price = StressedPrice(scenarios[i], portfolio[k].symbol, price)
            /\ r[k].stressed_value = Times(q, r[k].stressed_price)
            /\ r[k].pnl = Minus(r[k].stressed_value, Worth[k])
        BY <3>1, <3>2, <3>3 DEF PositionRepricing
      <3> QED
        BY <2>6, <3>4 DEF StressedPrice, Times, Minus
    <2> HIDE DEF q, price, shock, r
    <2>8. r[k].stressed_price = price * (1 + shock(k))
      <3>1. price * (1 + shock(k)) \in Int
        BY <2>1, <2>5
      <3> QED
        BY <2>3, <2>7, <3>1, Unsaturated
    <2>9. r[k].stressed_value = q * (price * (1 + shock(k)))
      <3>1. q * (price * (1 + shock(k))) \in Int
        BY <2>1, <2>5
      <3> QED
        BY <2>3, <2>7, <2>8, <3>1, Unsaturated
    <2>10. /\ r[k].stressed_value = Worth[k] + Worth[k] * shock(k)
           /\ Worth[k] * shock(k) \in Int
      BY <2>1, <2>5, <2>9, ShockedValue
    <2>11. r[k].pnl = Worth[k] * shock(k)
      <3>1. r[k].stressed_value - Worth[k] = Worth[k] * shock(k)
        BY <2>1, <2>10
      <3> QED
        BY <2>3, <2>7, <2>10, <3>1, Unsaturated
    <2>12. Moves(i)[k] = Worth[k] * shock(k)
      BY <2>1 DEF Moves, q, price, shock
    <2> QED
      BY <2>5, <2>10, <2>11, <2>12
  <1>5. Moves(i) \in Seq(Int) /\ Len(Moves(i)) = Len(portfolio)
    <2>1. Moves(i) \in [1 .. Len(portfolio) -> Int]
      BY <1>4, PortfolioType DEF Moves
    <2> QED
      BY <2>1, PortfolioType, FunctionIsSequence
  <1>6. scenario_results[i] = Result(i - 1, scenarios[i].name,
                                     current_portfolio.total_value, r)
    BY <1>1 DEF ResultOf, Repricing
  <1> HIDE DEF r
  <1>7. Fields(r, LAMBDA x : x.pnl) = Moves(i)
    BY <1>3, <1>4 DEF Fields, Moves
  <1>8. Fields(r, LAMBDA x : x.stressed_value)
           = [k \in DOMAIN portfolio |-> Worth[k] + Moves(i)[k]]
    BY <1>3, <1>4 DEF Fields
  <1>9. /\ scenario_results[i].positions = r
        /\ scenario_results[i].current_portfolio_value = current_portfolio.total_value
        /\ scenario_results[i].pnl = Total(Fields(r, LAMBDA x : x.pnl))
        /\ scenario_results[i].stressed_portfolio_value
             = Total(Fields(r, LAMBDA x : x.stressed_value))
    BY <1>6 DEF Result
  <1>10. /\ IsFinite(scenario_results[i].pnl)
         /\ IsFinite(scenario_results[i].stressed_portfolio_value)
    BY DEF IInv, TypeOK
  <1> QED
    BY <1>4, <1>5, <1>7, <1>8, <1>9, <1>10

\* Long less short exposure is the value of the portfolio.
LEMMA ExposuresReconcile ==
    ASSUME IInv, Constructible, Computed
    PROVE  current_portfolio.total_value
             = current_portfolio.long_exposure - current_portfolio.short_exposure
  <1> DEFINE n == Len(portfolio)
             long  == [k \in DOMAIN portfolio |-> Positive(Worth[k])]
             short == [k \in DOMAIN portfolio |-> Positive(-Worth[k])]
  <1>1. Worth \in Seq(Int) /\ Len(Worth) = n /\ n \in Nat /\ DOMAIN portfolio = 1 .. n
        /\ \A k \in 1 .. n : Worth[k] \in Int
    BY ValuationOfWorth, PortfolioType
  <1>2. long \in [1 .. n -> Int] /\ short \in [1 .. n -> Int]
    BY <1>1 DEF Positive
  <1>3. long \in Seq(Int) /\ Len(long) = n /\ short \in Seq(Int) /\ Len(short) = n
    BY <1>1, <1>2, FunctionIsSequence
  <1>4. \A k \in 1 .. n : long[k] = Worth[k] + short[k]
    BY <1>1 DEF Positive
  <1>5. /\ current_portfolio.total_value = Total(Worth) /\ IsFinite(Total(Worth))
        /\ current_portfolio.long_exposure = Total(long) /\ IsFinite(Total(long))
        /\ current_portfolio.short_exposure = Total(short) /\ IsFinite(Total(short))
    BY ValuationOfWorth
  <1> HIDE DEF long, short, n
  <1>6. PICK p : PartialSums(p, Worth) /\ p[n] = Total(Worth)
    BY <1>1, <1>5, FiniteTotalIsExact
  <1>7. PICK l : PartialSums(l, long) /\ l[n] = Total(long)
    BY <1>3, <1>5, FiniteTotalIsExact
  <1>8. PICK s : PartialSums(s, short) /\ s[n] = Total(short)
    BY <1>3, <1>5, FiniteTotalIsExact
  <1>9. Adds(n, long, Worth, short)
    BY <1>1, <1>3, <1>4 DEF Adds
  <1>10. l[n] = p[n] + s[n]
    BY <1>1, <1>6, <1>7, <1>8, <1>9, SumsAdd
  <1> QED
    BY <1>5, <1>6, <1>7, <1>8, <1>10, FiniteType

\* A result moves the portfolio from its value by the sum of the moves.
LEMMA ResultReconciles ==
    ASSUME IInv, Constructible, Computed, NEW i \in DOMAIN scenario_results
    PROVE  /\ scenario_results[i].pnl = ExactTotal(Moves(i))
           /\ scenario_results[i].stressed_portfolio_value
                = current_portfolio.total_value + scenario_results[i].pnl
  <1> DEFINE n == Len(portfolio)
             m == Moves(i)
             stressed == [k \in DOMAIN portfolio |-> Worth[k] + m[k]]
  <1>1. /\ Worth \in Seq(Int) /\ Len(Worth) = n /\ n \in Nat
        /\ DOMAIN portfolio = 1 .. n
        /\ \A k \in 1 .. n : Worth[k] \in Int
        /\ current_portfolio.total_value = Total(Worth) /\ IsFinite(Total(Worth))
    BY ValuationOfWorth, PortfolioType
  <1>2. /\ m \in Seq(Int) /\ Len(m) = n
        /\ scenario_results[i].pnl = Total(m) /\ IsFinite(Total(m))
        /\ scenario_results[i].stressed_portfolio_value = Total(stressed)
        /\ IsFinite(Total(stressed))
    BY ResultOfMoves
  <1> HIDE DEF m, n
  <1>3. \A k \in 1 .. n : m[k] \in Int
    BY <1>2
  <1>4. stressed \in [1 .. n -> Int]
    BY <1>1, <1>3
  <1>5. stressed \in Seq(Int) /\ Len(stressed) = n
    BY <1>1, <1>4, FunctionIsSequence
  <1>6. \A k \in 1 .. n : stressed[k] = Worth[k] + m[k] /\ m[k] <= m[k]
    BY <1>1, <1>3
  <1> HIDE DEF stressed
  <1>7. PICK p : PartialSums(p, Worth) /\ p[n] = Total(Worth)
    BY <1>1, FiniteTotalIsExact
  <1>8. PICK l : PartialSums(l, m) /\ l[n] = Total(m)
    BY <1>2, FiniteTotalIsExact
  <1>9. PICK s : PartialSums(s, stressed) /\ s[n] = Total(stressed)
    BY <1>2, <1>5, FiniteTotalIsExact
  <1>10. PICK x : PartialSums(x, m) /\ x[n] = ExactTotal(m)
    BY <1>2, ExactTotalByPrefixes
  <1>11. s[n] = p[n] + l[n]
    <2>1. Adds(n, stressed, Worth, m)
      BY <1>1, <1>2, <1>5, <1>6 DEF Adds
    <2> QED
      BY <1>1, <1>7, <1>8, <1>9, <2>1, SumsAdd
  <1>12. l[n] = x[n]
    <2>1. l[n] <= x[n] /\ x[n] <= l[n]
      BY <1>2, <1>6, <1>8, <1>10, SumsMonotone
    <2>2. l[n] \in Int /\ x[n] \in Int
      BY <1>1, <1>2, <1>8, <1>10 DEF PartialSums
    <2> QED
      BY <2>1, <2>2
  <1> QED
    BY <1>1, <1>2, <1>7, <1>8, <1>9, <1>10, <1>11, <1>12 DEF m

\* A call that returns has computed everything it reports.
LEMMA ReturnedIsComputed ==
    ASSUME IInv, Returned
    PROVE  Constructible /\ Computed
  BY DEF IInv

\* The report of every call that returns adds up: no position, scenario or
\* exposure is lost, however many there are and in whatever order they are
\* added, because a sum that has been checked at its end has not overflowed on
\* the way.
THEOREM ReportsReconcile == Spec => []ReportReconciles
  <1>1. ASSUME IInv, Returned
        PROVE  /\ Len(scenario_results) = Len(scenarios)
               /\ \A i \in DOMAIN scenario_results :
                     /\ scenario_results[i].current_portfolio_value
                          = current_portfolio.total_value
                     /\ scenario_results[i].stressed_portfolio_value
                          = current_portfolio.total_value + scenario_results[i].pnl
                     /\ \A k \in DOMAIN portfolio :
                           scenario_results[i].positions[k].pnl = Moves(i)[k]
                     /\ scenario_results[i].pnl = ExactTotal(Moves(i))
               /\ current_portfolio.total_value
                    = current_portfolio.long_exposure
                        - current_portfolio.short_exposure
    <2>1. Constructible /\ Computed
      BY <1>1, ReturnedIsComputed
    <2>2. Len(scenario_results) = Len(scenarios)
      BY <1>1 DEF IInv, index
    <2> QED
      BY <1>1, <2>1, <2>2, ResultOfMoves, ResultReconciles, ExposuresReconcile
  <1>2. IInv => ReportReconciles
    BY <1>1 DEF ReportReconciles, Moves
  <1> QED
    BY <1>2, Invariance, PTL

\* A long-only portfolio cannot lose more than it is worth, whatever the
\* positions, the prices and the scenarios.
THEOREM LongLossesAreBounded == Spec => []LongLossBounded
  <1>1. ASSUME IInv, Returned,
               \A k \in DOMAIN portfolio : portfolio[k].quantity > 0,
               NEW i \in DOMAIN scenario_results
        PROVE  -scenario_results[i].pnl <= current_portfolio.long_exposure
    <2> DEFINE n == Len(portfolio)
               m == Moves(i)
               losses == [k \in 1 .. n |-> -m[k]]
               long == [k \in DOMAIN portfolio |-> Positive(Worth[k])]
               zero == [k \in 1 .. n |-> 0]
    <2>1. Constructible /\ Computed
      BY <1>1, ReturnedIsComputed
    <2>2. /\ Worth \in Seq(Int) /\ Len(Worth) = n /\ n \in Nat
          /\ DOMAIN portfolio = 1 .. n
          /\ current_portfolio.long_exposure = Total(long) /\ IsFinite(Total(long))
      BY <2>1, <1>1, ValuationOfWorth, PortfolioType
    <2>3. /\ m \in Seq(Int) /\ Len(m) = n
          /\ scenario_results[i].pnl = Total(m) /\ IsFinite(Total(m))
      BY <2>1, <1>1, ResultOfMoves
    <2>4. ASSUME NEW k \in 1 .. n
          PROVE  /\ Worth[k] \in Nat /\ m[k] \in Int /\ -m[k] <= long[k]
                 /\ long[k] \in Int
      <3> DEFINE shock == scenarios[i].price_shocks[portfolio[k].symbol]
                 q     == portfolio[k].quantity
                 price == market_state[portfolio[k].symbol]
      <3>1. q \in Int /\ q > 0 /\ price \in Nat /\ Worth[k] = q * price
        BY <1>1, <2>1, <2>2, PortfolioType DEF Worth
      <3>2. shock \in Int /\ 0 <= 1 + shock /\ m[k] = Worth[k] * shock
        BY <1>1, <2>1, <2>2, ResultOfMoves
      <3>3. k \in DOMAIN portfolio
        BY <2>2
      <3> HIDE DEF shock, q, price, m
      <3>4. Worth[k] \in Nat
        <4>1. q \in Nat
          BY <3>1
        <4> QED
          BY <3>1, <4>1
      <3>5. Worth[k] * (1 + shock) \in Nat
        <4>1. 1 + shock \in Nat
          BY <3>2
        <4> QED
          BY <3>4, <4>1
      <3>6. Worth[k] * (1 + shock) = Worth[k] + Worth[k] * shock
            /\ Worth[k] * shock \in Int
        BY <3>2, <3>4
      <3>7. long[k] = Worth[k]
        BY <3>3, <3>4 DEF Positive
      <3> QED
        BY <3>2, <3>4, <3>5, <3>6, <3>7
    <2> HIDE DEF m, n, long
    <2>5. losses \in [1 .. n -> Int] /\ zero \in [1 .. n -> Int]
      BY <2>4
    <2>6. /\ losses \in Seq(Int) /\ Len(losses) = n
          /\ zero \in Seq(Int) /\ Len(zero) = n
      BY <2>2, <2>5, FunctionIsSequence
    <2>7. long \in Seq(Int) /\ Len(long) = n
      <3>1. long \in [1 .. n -> Int]
        BY <2>2, <2>4 DEF long
      <3> QED
        BY <2>2, <3>1, FunctionIsSequence
    <2>8. Adds(n, zero, losses, m)
      BY <2>3, <2>4, <2>6 DEF Adds
    <2>9. \A k \in 1 .. n : losses[k] <= long[k]
      BY <2>4
    <2> HIDE DEF losses, zero
    <2>10. PICK p : PartialSums(p, m) /\ p[n] = Total(m)
      BY <2>3, FiniteTotalIsExact
    <2>11. PICK l : PartialSums(l, long) /\ l[n] = Total(long)
      BY <2>2, <2>7, FiniteTotalIsExact
    <2>12. PICK x : PartialSums(x, losses)
      BY <2>6, ExactTotalByPrefixes
    <2>13. PICK z : PartialSums(z, zero)
      BY <2>6, ExactTotalByPrefixes
    <2>14. z[n] = x[n] + p[n]
      BY <2>2, <2>8, <2>10, <2>12, <2>13, SumsAdd
    <2>15. x[n] <= l[n]
      BY <2>6, <2>7, <2>9, <2>11, <2>12, SumsMonotone
    <2>16. z[n] = 0
      <3> DEFINE T == {k \in Nat : k \in 0 .. n => z[k] = 0}
      <3>1. z[0] = 0 /\ \A k \in 1 .. n : z[k] = z[k - 1] + 0
        BY <2>6, <2>13 DEF PartialSums, zero
      <3>2. 0 \in T
        BY <3>1
      <3>3. \A k \in Nat : k \in T => k + 1 \in T
        <4> TAKE k \in Nat
        <4> SUFFICES ASSUME k \in T, k + 1 \in 0 .. n PROVE z[k + 1] = 0
          OBVIOUS
        <4>1. k + 1 \in 1 .. n /\ (k + 1) - 1 = k /\ k \in 0 .. n
          BY <2>2
        <4> QED
          BY <3>1, <4>1
      <3> HIDE DEF T
      <3>4. n \in T
        BY <2>2, <3>2, <3>3, SetInduction
      <3> QED
        BY <2>2, <3>4 DEF T
    <2>17. x[n] \in Int /\ p[n] \in Int /\ l[n] \in Int
      BY <2>2, <2>3, <2>6, <2>7, <2>10, <2>11, <2>12 DEF PartialSums
    <2> QED
      BY <2>2, <2>3, <2>10, <2>11, <2>14, <2>15, <2>16, <2>17
  <1>2. IInv => LongLossBounded
    BY <1>1 DEF LongLossBounded
  <1> QED
    BY <1>2, Invariance, PTL

\* The results have a P&L and a number.
LEMMA ResultsType ==
    ASSUME IInv, Returned
    PROVE  /\ IsResultList(scenario_results)
           /\ DOMAIN scenario_results = 1 .. Len(scenario_results)
           /\ Len(scenario_results) \in Nat \ {0}
           /\ Len(scenario_results) = Len(scenarios)
           /\ \A i \in DOMAIN scenario_results :
                 /\ scenario_results[i].scenario_id = i - 1
                 /\ i \in DOMAIN scenarios
                 /\ scenario_results[i].scenario_name = scenarios[i].name
                 /\ Loss(scenario_results[i]) \in Int
  <1>1. Constructible /\ Computed
    BY ReturnedIsComputed
  <1>2. /\ scenario_results \in Seq(Range(scenario_results))
        /\ Len(scenario_results) = Len(scenarios)
        /\ \A i \in DOMAIN scenario_results :
              /\ scenario_results[i].scenario_id = i - 1
              /\ IsFinite(scenario_results[i].pnl)
    BY DEF IInv, TypeOK, index
  <1>3. /\ DOMAIN scenario_results = 1 .. Len(scenario_results)
        /\ Len(scenario_results) \in Nat
        /\ DOMAIN scenarios = 1 .. Len(scenarios)
    BY <1>1, <1>2, PortfolioType
  <1>4. Len(scenario_results) # 0
    <2>1. scenarios # <<>> /\ scenarios \in Seq(Range(scenarios))
      BY <1>1, SequencesAssumption DEF Computed, ValidInputs, AcceptsInputs, IInv
    <2> QED
      BY <1>2, <2>1
  <1>5. \A i \in DOMAIN scenario_results :
           scenario_results[i].scenario_name = scenarios[i].name
    <2>1. \A i : ResultOf(i).scenario_name = scenarios[i].name
      BY Zenon DEF ResultOf, Repricing, Result
    <2> QED
      BY <1>1, <2>1 DEF Computed
  <1>6. \A i \in DOMAIN scenario_results :
           /\ scenario_results[i].pnl \in Int /\ Loss(scenario_results[i]) \in Int
           /\ scenario_results[i].scenario_id \in Int
    BY <1>2, <1>3, FiniteType DEF Loss
  <1>7. IsResultList(scenario_results)
    BY <1>2, <1>6 DEF IsResultList
  <1> QED
    BY <1>2, <1>3, <1>4, <1>5, <1>6, <1>7

\* The risk figures describe the results of the call: VaR is the loss of one of
\* them, the worst scenarios carry the number and the name of theirs, and the
\* first of them is the scenario with the largest loss, however many there are
\* and however they tie.
THEOREM RiskMatches == Spec => []RiskMatchesResults
  <1>1. ASSUME IInv, Returned PROVE RiskMatchesResults
    <2> DEFINE results == scenario_results
               D == DOMAIN scenario_results
               n == Len(scenario_results)
               c == settings.confidence_level
               count == settings.worst_scenario_count
               worst == risk_metrics.worst_scenarios
               var == risk_metrics.value_at_risk
               retained == IF count < n THEN count ELSE n
    <2>1. /\ IsResultList(results) /\ D = 1 .. n /\ n \in Nat \ {0}
          /\ \A i \in D : /\ results[i].scenario_id = i - 1 /\ i \in DOMAIN scenarios
                          /\ results[i].scenario_name = scenarios[i].name
                          /\ Loss(results[i]) \in Int
      BY <1>1, ResultsType
    <2>2. /\ var = ValueAtRisk(results, c)
          /\ worst = WorstScenarios(results, count)
      BY <1>1 DEF IInv, Metrics
    <2>3. VarIndex(c, n) \in 0 .. (n - 1)
      <3>1. settings \in SettingsValues /\ ValidConfidence(c)
        BY <1>1, ReturnedIsComputed DEF IInv, Constructible
      <3>2. scenarios \in ScenarioLists /\ Len(scenarios) = n
        BY <1>1 DEF IInv, index
      <3>3. scenarios # <<>>
        BY <2>1, <3>2
      <3> QED
        BY <3>1, <3>2, <3>3, VarIndexInBounds
    <2>4. PICK p \in Bijection(D, D) :
             /\ SortedLosses(results) = [i \in D |-> Loss(results[p[i]])]
             /\ \A i, j \in D : i < j => Loss(results[p[i]]) <= Loss(results[p[j]])
      BY <2>1, OrderOfLosses
    <2>5. PICK q \in Bijection(D, D) :
             /\ Sorted(results, Worse) = [i \in D |-> results[q[i]]]
             /\ \A i, j \in D : i < j => ~Worse(results[q[j]], results[q[i]])
      BY <2>1, OrderOfResults
    <2>6. /\ \A i \in D : p[i] \in D /\ q[i] \in D
          /\ \A i \in D : \E j \in D : q[j] = i
      BY DEF Bijection, Injection, Surjection
    <2>7. \E i \in D : Loss(results[i]) = var
      <3>1. VarIndex(c, n) + 1 \in D
        BY <2>1, <2>3
      <3>2. var = Loss(results[p[VarIndex(c, n) + 1]])
        BY <2>2, <2>4, <3>1 DEF ValueAtRisk
      <3> QED
        BY <2>6, <3>1, <3>2
    <2>8. retained \in 0 .. n /\ count \in Nat
      BY <1>1, <2>1, SettingsAssumption DEF IInv
    <2>9. worst = [i \in 1 .. retained |-> WorstScenario(results[q[i]])]
      <3>1. \A i \in 1 .. retained : i \in D
        BY <2>1, <2>8
      <3>2. worst = [i \in 1 .. retained |-> WorstScenario(Sorted(results, Worse)[i])]
        BY <2>2 DEF WorstScenarios
      <3> HIDE DEF retained, worst
      <3> QED
        BY <2>5, <3>1, <3>2
    <2> HIDE DEF worst, retained, var
    <2>10. ASSUME NEW k \in DOMAIN worst
           PROVE  \E i \in DOMAIN scenarios :
                     worst[k] = [scenario_id   |-> i - 1,
                                 scenario_name |-> scenarios[i].name,
                                 pnl           |-> results[i].pnl]
      <3>1. k \in D /\ q[k] \in D /\ worst[k] = WorstScenario(results[q[k]])
        <4>1. k \in 1 .. retained
          BY <2>9
        <4>2. k \in D
          BY <2>1, <2>8, <4>1
        <4> HIDE DEF D
        <4> QED
          BY <2>6, <2>9, <4>1, <4>2
      <3>2. /\ results[q[k]].scenario_id = q[k] - 1 /\ q[k] \in DOMAIN scenarios
            /\ results[q[k]].scenario_name = scenarios[q[k]].name
        BY <2>1, <3>1
      <3> QED
        BY <3>1, <3>2 DEF WorstScenario
    <2>11. ASSUME worst # <<>>
           PROVE  /\ var <= Loss(worst[1])
                  /\ \A i \in D : Loss(results[i]) <= Loss(worst[1])
      <3>1. 1 \in D /\ 1 \in 1 .. retained
        <4>1. retained # 0
          <5> SUFFICES ASSUME retained = 0 PROVE FALSE
            OBVIOUS
          <5>1. 1 .. retained = {}
            OBVIOUS
          <5>2. worst = [i \in {} |-> WorstScenario(results[q[i]])]
            BY <2>9, <5>1
          <5> QED
            BY <2>11, <5>2
        <4> QED
          BY <2>1, <2>8, <4>1
      <3>2. Loss(worst[1]) = Loss(results[q[1]])
        BY <2>9, <3>1 DEF WorstScenario, Loss
      <3>3. ASSUME NEW i \in D
            PROVE  Loss(results[i]) <= Loss(results[q[1]])
        <4>1. PICK j \in D : q[j] = i
          BY <2>6
        <4>2. results[i].pnl \in Int /\ results[q[1]].pnl \in Int /\ q[1] \in D
          BY <2>1, <2>6, <3>1 DEF IsResultList
        <4>3. CASE j = 1
          BY <4>1, <4>2, <4>3 DEF Loss
        <4>4. CASE j # 1
          <5>1. 1 < j
            BY <2>1, <4>4
          <5>2. ~Worse(results[i], results[q[1]])
            BY <2>5, <3>1, <4>1, <5>1
          <5> QED
            BY <4>2, <5>2 DEF Worse, Loss
        <4> QED
          BY <4>3, <4>4
      <3> QED
        BY <2>7, <3>2, <3>3
    <2> QED
      BY <2>7, <2>10, <2>11 DEF RiskMatchesResults, worst, var
  <1>2. IInv => RiskMatchesResults
    BY <1>1 DEF RiskMatchesResults
  <1> QED
    BY <1>2, Invariance, PTL
-----------------------------------------------------------------------------
(* The metrics of a report.                                                *)

\* The engine and the calculator compute the same metrics.
LEMMA SameMetrics ==
    ASSUME NEW results, NEW c, NEW count
    PROVE  Risk!Metrics(results, c, count) = Metrics(results, c, count)
  <1>1. Risk!PowerOf2 = PowerOf2
    BY Zenon DEF Risk!PowerOf2, PowerOf2
  <1>2. \A x, k : Risk!Share(x, k) = Share(x, k)
    BY <1>1 DEF Risk!Share, Share, Risk!Rounded, Rounded
  <1>3. \A x, k : Risk!VarIndex(x, k) = VarIndex(x, k)
    BY <1>2, Zenon DEF Risk!VarIndex, VarIndex, Risk!Rank, Rank
  <1>4. Risk!ValueAtRisk(results, c) = ValueAtRisk(results, c)
    BY <1>3, SameRisk, Zenon DEF Risk!ValueAtRisk, ValueAtRisk
  <1>5. Risk!RiskTail(results, c) = RiskTail(results, c)
    BY <1>3, SameRisk, Zenon DEF Risk!RiskTail, RiskTail
  <1>6. \A r : Risk!WorstScenario(r) = WorstScenario(r)
    BY Zenon DEF Risk!WorstScenario, WorstScenario
  <1>7. Risk!WorstScenarios(results, count) = WorstScenarios(results, count)
    BY <1>6, SameRisk, Zenon DEF Risk!WorstScenarios, WorstScenarios
  <1> QED
    BY <1>4, <1>5, <1>7, SameRisk, Zenon DEF Risk!Metrics, Metrics

\* The call of calculate behind a report is one that the calculator's theorems
\* are about.
LEMMA ReportIsCalculated ==
    ASSUME IInv, Returned
    PROVE  Risk!Calculated
  <1> DEFINE n == Len(scenario_results)
             c == settings.confidence_level
  <1>1. /\ n = Len(scenarios) /\ scenarios \in ScenarioLists
        /\ settings \in SettingsValues
        /\ scenario_results \in Seq(Range(scenario_results))
        /\ \A i \in DOMAIN scenario_results :
              /\ scenario_results[i].scenario_id = i - 1
              /\ IsFinite(scenario_results[i].pnl)
        /\ risk_metrics = Metrics(scenario_results, c, settings.worst_scenario_count)
        /\ ValidConfidence(c)
    BY DEF IInv, TypeOK, index, Constructible
  <1>2. scenario_results # <<>>
    BY ResultsType DEF Nothing
  <1>3. c.num \in Int /\ c.den \in Int /\ settings.worst_scenario_count \in Nat
    BY <1>1, SettingsAssumption
  <1>4. n <= PowerOf2[Precision]
    BY <1>1, CountsAssumption
  <1>5. \A i \in DOMAIN scenario_results : scenario_results[i].pnl \in Int
    BY <1>1, FiniteType
  <1>6. /\ Risk!PowerOf2 = PowerOf2
        /\ \A x : Risk!Range(x) = Range(x)
        /\ \A x : Risk!ValidConfidence(x) <=> ValidConfidence(x)
        /\ Risk!Indices = DOMAIN scenario_results
        /\ Risk!Metric = risk_metrics
    <2>1. Risk!PowerOf2 = PowerOf2
      BY Zenon DEF Risk!PowerOf2, PowerOf2
    <2>2. \A x : Risk!Range(x) = Range(x)
      BY Zenon DEF Risk!Range, Range
    <2> QED
      BY <2>1, <2>2 DEF Risk!ValidConfidence, ValidConfidence, Risk!Indices, Risk!Metric
  <1>7. ~Risk!CalculateRejects(scenario_results, c)
    BY <1>1, <1>2, <1>6, SameRisk DEF Risk!CalculateRejects
  <1>8. Risk!Metric = Risk!Metrics(scenario_results, c, settings.worst_scenario_count)
    BY <1>1, <1>6, SameMetrics
  <1> QED
    BY <1>1, <1>3, <1>4, <1>5, <1>6, <1>7, <1>8 DEF Risk!Calculated

\* What is proved of the calculator is true of the figures the engine reports
\* for the portfolio: VaR is the quantile of the losses over the scenarios, the
\* list holds the worst of them, and CVaR is the mean of the tail, if the sum
\* over it is finite.
THEOREM ReportedRisk ==
    Spec => [](/\ Risk!VarIsQuantile
               /\ Risk!WorstAreWorst
               /\ (Returned => IsFinite(risk_metrics.tail_sum)) => Risk!CvarIsTailMean)
  <1>1. Risk!Returned <=> Returned
    BY DEF Risk!Returned, Returned
  <1>2. ASSUME Risk!Calculated
        PROVE  /\ Risk!VarIsQuantile /\ Risk!WorstAreWorst
               /\ IsFinite(risk_metrics.tail_sum) => Risk!CvarIsTailMean
    <2>1. Risk!VarIsQuantile
      BY <1>2, Risk!QuantileFollows, RiskAssumptions, MaxFiniteAssumption,
         SignificandAssumption
    <2>2. Risk!WorstAreWorst
      BY <1>2, Risk!WorstFollow, RiskAssumptions, MaxFiniteAssumption,
         SignificandAssumption
    <2>3. ASSUME IsFinite(risk_metrics.tail_sum) PROVE Risk!CvarIsTailMean
      <3>1. Risk!IsFinite(Risk!Metric.tail_sum)
        BY <2>3, SameRisk DEF Risk!Metric
      <3> QED
        BY <1>2, <3>1, Risk!TailMeanFollows, RiskAssumptions, MaxFiniteAssumption,
           SignificandAssumption
    <2> QED
      BY <2>1, <2>2, <2>3
  <1>3. ~Risk!Returned => Risk!VarIsQuantile /\ Risk!WorstAreWorst /\ Risk!CvarIsTailMean
    BY DEF Risk!VarIsQuantile, Risk!WorstAreWorst, Risk!CvarIsTailMean
  <1>4. IInv => /\ Risk!VarIsQuantile
                /\ Risk!WorstAreWorst
                /\ (Returned => IsFinite(risk_metrics.tail_sum)) => Risk!CvarIsTailMean
    BY <1>1, <1>2, <1>3, ReportIsCalculated
  <1> QED
    BY <1>4, Invariance, PTL

-----------------------------------------------------------------------------
(* The other program of the library: one that stresses a portfolio with    *)
(* the six historical scenarios, StressSpec.  Nothing is assumed of its    *)
(* symbols, quantities, prices and parameters, of which there may be any   *)
(* number: the caller makes positions and a market state of them, and what *)
(* the constructors refuse ends the program.                               *)

\* The rows of the table of shocks, one per instrument.
Rows == 1 .. 21

\* The name in a row and its shocks.
LEMMA TableRows ==
    /\ DOMAIN ShockTable = Rows
    /\ Instruments = {ShockTable[r][1] : r \in Rows}
  BY DEF ShockTable, Instruments, Rows

LEMMA TableShocks ==
    \A r \in Rows, c \in 1 .. 6 : ShockTable[r][1 + c] \in -85 .. 8
  BY DEF ShockTable, Rows

LEMMA TableNames ==
    \A r, s \in Rows : ShockTable[r][1] = ShockTable[s][1] => r = s
  BY SMTT(60) DEF ShockTable, Rows

LEMMA FundRow ==
    /\ ShockTable[18][1] = "VOO" /\ ShockTable[21][1] = "SPX"
    /\ \A c \in 1 .. 6 : ShockTable[18][1 + c] = ShockTable[21][1 + c]
  BY DEF ShockTable, Rows

\* The six listings are the columns of the table.
LEMMA ListingsAreColumns ==
    /\ Len(Listings) = 6 /\ DOMAIN Listings = 1 .. 6
    /\ \A k \in 1 .. 6 :
          /\ Listings[k].shocks = ShockList(k)
          /\ Listings[k].parameter_shifts
                \in {<<>>, [name \in {"risk_free_rate"} |-> 3]}
  <1> DEFINE L == Listings
             Fits(k) == /\ L[k].shocks = ShockList(k)
                        /\ L[k].parameter_shifts
                              \in {<<>>, [name \in {"risk_free_rate"} |-> 3]}
  <1> USE DEF Listings, Listing, NoShifts
  <1>1. Len(L) = 6 /\ DOMAIN L = 1 .. 6
    OBVIOUS
  <1>2. Fits(1)
    BY DEF CovidCrash
  <1>3. Fits(2)
    BY DEF GlobalFinancialCrisis
  <1>4. Fits(3)
    BY DEF DotComCrash
  <1>5. Fits(4)
    BY DEF RateShock
  <1>6. Fits(5)
    BY DEF OilCollapse
  <1>7. Fits(6)
    BY DEF FlashCrash
  <1> HIDE DEF L, Listings, Fits
  <1>8. \A k \in 1 .. 6 : Fits(k)
    BY <1>2, <1>3, <1>4, <1>5, <1>6, <1>7
  <1> QED
    BY <1>1, <1>8 DEF Fits, L

\* A line of a list: the name and the shock of its row.
LEMMA LinesOfList ==
    ASSUME NEW k \in 1 .. 6
    PROVE  /\ DOMAIN ShockList(k) = Rows
           /\ Len(ShockList(k)) = 21
           /\ \A r \in Rows :
                 /\ ShockList(k)[r][1] = ShockTable[r][1]
                 /\ ShockList(k)[r][2] = ShockTable[r][1 + k]
  <1>1. DOMAIN ShockList(k) = Rows
    BY TableRows DEF ShockList
  <1>2. Len(ShockList(k)) = 21
    BY <1>1, 21 \in Nat DEF Rows
  <1> QED
    BY <1>1, <1>2, TableRows DEF ShockList

\* No line of a list is lost in the map made of it.
LEMMA ShocksOfList ==
    ASSUME NEW k \in 1 .. 6
    PROVE  LET shocks == MakePriceShocks(ShockList(k))
           IN  /\ DOMAIN shocks = Instruments
               /\ \A r \in Rows :
                     shocks[ShockTable[r][1]] = ShockTable[r][1 + k]
  <1> DEFINE list   == ShockList(k)
             shocks == MakePriceShocks(list)
             name(r) == ShockTable[r][1]
             shock(r) == ShockTable[r][1 + k]
             First(symbol, i) == /\ list[i][1] = symbol
                                 /\ \A j \in 1 .. (i - 1) : list[j][1] # symbol
  <1>1. /\ DOMAIN list = Rows
        /\ \A r \in Rows : list[r][1] = name(r) /\ list[r][2] = shock(r)
    BY LinesOfList
  <1>2. \A r, s \in Rows : name(r) = name(s) => r = s
    BY TableNames
  <1>3. Instruments = {name(r) : r \in Rows}
    BY TableRows
  <1>4. shocks = [symbol \in {list[i][1] : i \in DOMAIN list} |->
                     list[CHOOSE i \in DOMAIN list : First(symbol, i)][2]]
    BY Zenon DEF MakePriceShocks
  <1> HIDE DEF list, shocks, name, shock
  <1>5. \A r \in Rows : (CHOOSE i \in DOMAIN list : First(name(r), i)) = r
    <2> SUFFICES ASSUME NEW r \in Rows
                 PROVE  (CHOOSE i \in DOMAIN list : First(name(r), i)) = r
      OBVIOUS
    <2>1. First(name(r), r)
      BY <1>1, <1>2 DEF Rows
    <2>2. \A i \in Rows : First(name(r), i) => i = r
      BY <1>1, <1>2
    <2> HIDE DEF First
    <2> QED
      BY <1>1, <2>1, <2>2
  <1> HIDE DEF First
  <1>6. \A x : x \in {list[i][1] : i \in DOMAIN list} <=> x \in Instruments
    BY <1>1, <1>3
  <1>7. DOMAIN shocks = Instruments
    BY <1>4, <1>6
  <1>8. \A r \in Rows : shocks[name(r)] = shock(r)
    BY <1>1, <1>4, <1>5
  <1> QED
    BY <1>7, <1>8 DEF shocks, list, name, shock

\* There are as many instruments as rows.
LEMMA NumberOfInstruments == Cardinality(Instruments) = 21
  <1> DEFINE f == [r \in Rows |-> ShockTable[r][1]]
  <1>1. f \in Bijection(Rows, Instruments)
    <2>1. f \in [Rows -> Instruments]
      BY TableRows
    <2>2. \A r, s \in Rows : f[r] = f[s] => r = s
      BY TableNames
    <2>3. \A x \in Instruments : \E r \in Rows : f[r] = x
      BY TableRows
    <2> HIDE DEF f
    <2> QED
      BY <2>1, <2>2, <2>3 DEF Bijection, Injection, Surjection, IsInjective
  <1>2. ExistsBijection(1 .. 21, Instruments)
    BY <1>1 DEF ExistsBijection, Rows
  <1> QED
    BY <1>2, 21 \in Nat, FS_NatBijection, FS_CardinalityType, FS_CountingElements

\* The constructors of the six scenarios throw nothing.
LEMMA ListingsAreAccepted ==
    ASSUME NEW k \in 1 .. 6
    PROVE  AcceptsListing(Listings[k])
  <1> DEFINE listing == Listings[k]
             shocks == MakePriceShocks(listing.shocks)
  <1>1. /\ DOMAIN shocks = Instruments
        /\ \A r \in Rows :
              shocks[ShockTable[r][1]] = ShockTable[r][1 + k]
    BY ListingsAreColumns, ShocksOfList
  <1>2. \A symbol \in DOMAIN shocks : symbol # Blank /\ shocks[symbol] >= -100
    <2> SUFFICES ASSUME NEW symbol \in DOMAIN shocks
                 PROVE  symbol # Blank /\ shocks[symbol] >= -100
      OBVIOUS
    <2>1. symbol # Blank
      BY <1>1, TableAssumption
    <2>2. PICK r \in Rows : symbol = ShockTable[r][1]
      BY <1>1, TableRows
    <2>3. shocks[symbol] \in -85 .. 8
      BY <1>1, <2>2, TableShocks
    <2> QED
      BY <2>1, <2>3
  <1>3. ValidParameters(listing.parameter_shifts)
    <2>1. listing.parameter_shifts \in {<<>>, [name \in {"risk_free_rate"} |-> 3]}
      BY ListingsAreColumns
    <2>2. 3 \in -MaxFinite .. MaxFinite /\ "risk_free_rate" # Blank
      BY MaxFiniteAssumption, TableAssumption
    <2> HIDE DEF listing
    <2> QED
      BY <2>1, <2>2 DEF ValidParameters, IsFinite, FiniteValues
  <1> QED
    BY <1>2, <1>3, Zenon DEF AcceptsListing

\* A scenario of the list has a shock for every instrument, and for no other.
LEMMA ScenariosMade ==
    ASSUME StressInv, NEW k \in DOMAIN historical
    PROVE  /\ k \in 1 .. 6 /\ k <= Len(historical)
           /\ historical[k] = Made(Listings[k])
           /\ historical[k].price_shocks = MakePriceShocks(ShockList(k))
           /\ DOMAIN historical[k].price_shocks = Instruments
  <1>1. /\ Len(historical) <= 6
        /\ historical = [j \in 1 .. Len(historical) |-> Made(Listings[j])]
    BY ListingsAreColumns DEF StressInv
  <1>2. k \in 1 .. Len(historical)
    BY <1>1
  <1>3. k \in 1 .. 6 /\ k <= Len(historical)
    BY <1>1, <1>2
  <1>4. historical[k] = Made(Listings[k])
    BY <1>1, <1>2
  <1>5. historical[k].price_shocks = MakePriceShocks(ShockList(k))
    BY <1>3, <1>4, ListingsAreColumns DEF Made
  <1> QED
    BY <1>3, <1>4, <1>5, ShocksOfList

\* The validator finds nothing wrong with the scenarios.
LEMMA OnlyPortfolioRejected ==
    ASSUME StressInv, held # <<>>, historical # <<>>,
           \A i \in DOMAIN held : held[i].symbol \in Instruments \cap DOMAIN quotes
    PROVE  AcceptsInputs(held, quotes, historical)
  <1>1. \A k \in DOMAIN historical :
           /\ historical[k] # NullScenario
           /\ historical[k].name # Blank
           /\ DOMAIN historical[k].price_shocks = Instruments
    <2> SUFFICES ASSUME NEW k \in DOMAIN historical
                 PROVE  /\ historical[k] # NullScenario
                        /\ historical[k].name # Blank
                        /\ DOMAIN historical[k].price_shocks = Instruments
      OBVIOUS
    <2>1. historical[k] = Made(Listings[k]) /\ k \in 1 .. 6
      BY ScenariosMade
    <2>2. historical[k] # NullScenario
      BY <2>1 DEF Made, NullScenario
    <2>3. historical[k].name # Blank
      BY <2>1, ListingsAreColumns, TableAssumption DEF Made
    <2> QED
      BY <2>2, <2>3, ScenariosMade
  <1> QED
    BY <1>1 DEF AcceptsInputs, HasPrice, HasShock

\* Each step of the caller keeps the invariant.
LEMMA StressInvariant ==
    ASSUME StressInv, [StressNext]_stress_vars
    PROVE  StressInv'
  <1> DEFINE Positions == [symbol : Symbols, quantity : Quantities]
  <1>1. ASSUME NEW thrower \in {"Position", "MarketState"},
               stage = "portfolio", StressThrow(thrower)
        PROVE  StressInv'
    BY <1>1 DEF StressThrow, StressInv, UniverseIsCovered
  <1>2. CASE AddPosition
    <2>1. PICK symbol \in Symbols, quantity \in Quantities :
             LET position == [symbol |-> symbol, quantity |-> quantity]
             IN  IF ValidPosition(position)
                 THEN /\ held' = Append(held, position)
                      /\ UNCHANGED <<quotes, historical, stage, refused_by, pnls>>
                 ELSE StressThrow("Position")
      BY <1>2 DEF AddPosition
    <2> DEFINE position == [symbol |-> symbol, quantity |-> quantity]
    <2>2. stage = "portfolio"
      BY <1>2 DEF AddPosition
    <2>3. CASE ValidPosition(position)
      <3>1. /\ held' = Append(held, position)
            /\ UNCHANGED <<quotes, historical, stage, refused_by, pnls>>
        BY <2>1, <2>3
      <3>2. held' \in Seq(Positions)
        BY <3>1 DEF StressInv
      <3>3. \A i \in DOMAIN held' : ValidPosition(held'[i])
        <4>1. held \in Seq(Positions)
          BY DEF StressInv
        <4>2. \A i \in DOMAIN held' :
                 \/ i \in DOMAIN held /\ held'[i] = held[i]
                 \/ held'[i] = position
          BY <3>1, <4>1
        <4> HIDE DEF position, Positions
        <4> QED
          BY <2>3, <4>2 DEF StressInv
      <3> QED
        BY <2>2, <3>1, <3>2, <3>3 DEF StressInv, UniverseIsCovered
    <2>4. CASE ~ValidPosition(position)
      BY <1>1, <2>1, <2>2, <2>4
    <2> QED
      BY <2>3, <2>4
  <1>3. CASE MakeMarketState
    <2>1. PICK prices \in PriceMaps, parameters \in ParameterMaps :
             IF ValidMarketState(prices) /\ ValidParameters(parameters)
             THEN /\ quotes' = prices
                  /\ stage' = "scenarios"
                  /\ UNCHANGED <<held, historical, refused_by, pnls>>
             ELSE StressThrow("MarketState")
      BY <1>3 DEF MakeMarketState
    <2>2. stage = "portfolio"
      BY <1>3 DEF MakeMarketState
    <2>3. CASE ValidMarketState(prices) /\ ValidParameters(parameters)
      BY <2>1, <2>2, <2>3 DEF StressInv, UniverseIsCovered
    <2> QED
      BY <1>1, <2>1, <2>2, <2>3
  <1>4. CASE MakeScenario
    <2> DEFINE n == Len(historical)
               listing == Listings[n + 1]
    <2>1. n \in Nat /\ n + 1 \in 1 .. 6 /\ stage = "scenarios"
      <3>1. n \in Nat
        BY DEF StressInv
      <3> QED
        BY <1>4, <3>1, ListingsAreColumns DEF MakeScenario
    <2>2. AcceptsListing(listing)
      BY <2>1, ListingsAreAccepted
    <2>3. /\ historical' = Append(historical, Made(listing))
          /\ UNCHANGED <<held, quotes, stage, refused_by, pnls>>
      BY <1>4, <2>2 DEF MakeScenario, Made
    <2>4. historical = [k \in 1 .. n |-> Made(Listings[k])]
      BY DEF StressInv
    <2>5. /\ Len(historical') = n + 1
          /\ historical' = [k \in 1 .. (n + 1) |-> Made(Listings[k])]
      BY <2>1, <2>3, <2>4
    <2> QED
      BY <2>1, <2>3, <2>5, ListingsAreColumns DEF StressInv, UniverseIsCovered
  <1>5. CASE Stress
    <2>1. stage = "scenarios"
      BY <1>5 DEF Stress
    <2>2. CASE AcceptsInputs(held, quotes, historical)
      <3>1. /\ pnls' =
                  [k \in DOMAIN historical |->
                      [i \in DOMAIN held |-> Pnl(held[i], historical[k])]]
            /\ stage' = "done"
            /\ UNCHANGED <<held, quotes, historical, refused_by>>
        BY <1>5, <2>2 DEF Stress
      <3>2. \A i \in DOMAIN held : held[i].symbol \in Instruments
        <4>1. 1 \in DOMAIN historical
          <5>1. historical # <<>>
            BY <2>2 DEF AcceptsInputs
          <5> QED
            BY <5>1 DEF StressInv
        <4>2. DOMAIN historical[1].price_shocks = Instruments
          BY <4>1, ScenariosMade
        <4> QED
          BY <2>2, <4>1, <4>2 DEF AcceptsInputs, HasShock
      <3>3. pnls' =
                  [k \in DOMAIN historical |->
                      [i \in DOMAIN held |-> Pnl(held[i], historical[k])]]'
        BY <3>1 DEF Pnl
      <3> QED
        BY <2>1, <2>2, <3>1, <3>2, <3>3 DEF StressInv, UniverseIsCovered
    <2>3. CASE ~AcceptsInputs(held, quotes, historical)
      <3>1. StressThrow("SimulationEngine")
        BY <1>5, <2>3 DEF Stress
      <3>2. \/ held = <<>> \/ historical = <<>>
            \/ \E i \in DOMAIN held :
                  held[i].symbol \notin Instruments \cap DOMAIN quotes
        BY <2>3, OnlyPortfolioRejected
      <3> QED
        BY <2>1, <3>1, <3>2 DEF StressThrow, StressInv, UniverseIsCovered
    <2> QED
      BY <2>2, <2>3
  <1>6. CASE UNCHANGED stress_vars
    BY <1>6 DEF stress_vars, StressInv, UniverseIsCovered, Pnl
  <1> QED
    BY <1>2, <1>3, <1>4, <1>5, <1>6 DEF StressNext

\* The caller's state and the six scenarios agree at any time.
THEOREM StressInvariance == StressSpec => []StressInv
  <1>1. StressInit => StressInv
    BY DEF StressInit, StressInv, UniverseIsCovered
  <1>2. StressInv /\ [StressNext]_stress_vars => StressInv'
    BY StressInvariant
  <1> QED
    BY <1>1, <1>2, PTL DEF StressSpec

\* Whatever symbols, quantities, prices and parameters a caller has: the scenarios
\* can be constructed, and a portfolio of instruments of the universe that have a
\* price is stressed, and no other.
THEOREM UniverseCovered == StressSpec => []UniverseIsCovered
  <1>1. StressInv => UniverseIsCovered
    BY DEF StressInv
  <1> QED
    BY <1>1, StressInvariance, PTL

\* The P&L of a position in an instrument, from the line of its name.
LEMMA StressedByLine ==
    ASSUME StressInv, NEW k \in DOMAIN pnls, NEW i \in DOMAIN held, NEW r \in Rows,
           held[i].symbol = ShockTable[r][1]
    PROVE  /\ k \in 1 .. 6
           /\ pnls[k][i] = held[i].quantity * quotes[held[i].symbol]
                  * ShockTable[r][1 + k]
  <1>1. /\ k \in DOMAIN historical
        /\ pnls[k][i] = Pnl(held[i], historical[k])
    BY DEF StressInv
  <1>2. historical[k].price_shocks[held[i].symbol] = ShockTable[r][1 + k]
    BY <1>1, ScenariosMade, ShocksOfList
  <1> QED
    BY <1>1, <1>2, ScenariosMade DEF Pnl

\* No scenario hides a line of its list, and every position that is stressed moves
\* by what each line for its symbol says.
THEOREM EveryLineIsUsed == StressSpec => []EveryLineCounts
  <1>1. ASSUME StressInv PROVE EveryLineCounts
    <2>1. ASSUME NEW k \in DOMAIN historical
          PROVE  Cardinality(DOMAIN historical[k].price_shocks)
                     = Len(Listings[k].shocks)
      BY <1>1, ScenariosMade, ListingsAreColumns, LinesOfList, NumberOfInstruments
    <2>2. ASSUME NEW k \in DOMAIN pnls, NEW i \in DOMAIN held,
                 NEW line \in Range(Listings[k].shocks), line[1] = held[i].symbol
          PROVE  pnls[k][i] = held[i].quantity * quotes[held[i].symbol] * line[2]
      <3>1. k \in DOMAIN historical
        BY <1>1 DEF StressInv
      <3>2. k \in 1 .. 6 /\ Listings[k].shocks = ShockList(k)
        BY <1>1, <3>1, ScenariosMade, ListingsAreColumns
      <3>3. PICK r \in Rows : line = ShockList(k)[r]
        BY <3>2, LinesOfList DEF Range
      <3>4. /\ line[1] = ShockTable[r][1]
            /\ line[2] = ShockTable[r][1 + k]
        BY <3>2, <3>3, LinesOfList
      <3>5. held[i].symbol = ShockTable[r][1]
        BY <2>2, <3>4
      <3>6. pnls[k][i] = held[i].quantity * quotes[held[i].symbol]
                * ShockTable[r][1 + k]
        BY <1>1, <3>5, StressedByLine
      <3> QED
        BY <3>4, <3>6
    <2>3. \A k \in DOMAIN pnls, i \in DOMAIN held :
             \A line \in Range(Listings[k].shocks) :
                 line[1] = held[i].symbol =>
                     pnls[k][i] = held[i].quantity * quotes[held[i].symbol] * line[2]
      BY <2>2
    <2> QED
      BY <2>1, <2>3 DEF EveryLineCounts
  <1> QED
    BY <1>1, StressInvariance, PTL

\* For any quantities and prices, a position in the fund and one in its index gain
\* or lose the same share of what they are worth, in each of the six scenarios.
THEOREM FundAndIndexMoveAlike == StressSpec => []FundFollowsIndex
  <1>1. ASSUME StressInv, NEW k \in DOMAIN pnls,
               NEW i \in DOMAIN held, NEW j \in DOMAIN held,
               held[i].symbol = "VOO", held[j].symbol = "SPX"
        PROVE  pnls[k][i] * held[j].quantity * quotes["SPX"]
                   = pnls[k][j] * held[i].quantity * quotes["VOO"]
    <2> DEFINE s == ShockTable[18][1 + k]
               q(h) == held[h].quantity
    <2>1. k \in 1 .. 6 /\ pnls[k][i] = q(i) * quotes["VOO"] * s
      BY <1>1, FundRow, StressedByLine DEF Rows
    <2>2. pnls[k][j] = q(j) * quotes["SPX"] * s
      BY <1>1, <2>1, FundRow, StressedByLine DEF Rows
    <2>3. s \in Int
      <3>1. 18 \in Rows
        BY DEF Rows
      <3>2. s \in -85 .. 8
        BY <2>1, <3>1, TableShocks
      <3> HIDE DEF s
      <3> QED
        BY <3>2
    <2>4. q(i) \in Int /\ q(j) \in Int
      <3>1. ValidPosition(held[i]) /\ ValidPosition(held[j])
        BY <1>1 DEF StressInv
      <3>2. -MaxFinite .. MaxFinite \subseteq Int
        BY MaxFiniteAssumption
      <3> QED
        BY <3>1, <3>2 DEF ValidPosition, IsFinite, FiniteValues
    <2>5. quotes["VOO"] \in Int /\ quotes["SPX"] \in Int
      <3>1. /\ ValidMarketState(quotes)
            /\ {"VOO", "SPX"} \subseteq DOMAIN quotes
        BY <1>1 DEF StressInv, AcceptsInputs, HasPrice
      <3> QED
        BY <3>1, MaxFiniteAssumption
           DEF ValidMarketState, ValidPrice, IsFinite, FiniteValues
    <2>6. \A a, b, c, d, e \in Int : (a * b * e) * c * d = (c * d * e) * a * b
      OBVIOUS
    <2> HIDE DEF s, q
    <2>7. pnls[k][i] * q(j) * quotes["SPX"]
              = pnls[k][j] * q(i) * quotes["VOO"]
      BY <2>1, <2>2, <2>3, <2>4, <2>5, <2>6
    <2> QED
      BY <2>7 DEF q
  <1>2. StressInv => FundFollowsIndex
    BY <1>1 DEF FundFollowsIndex
  <1> QED
    BY <1>2, StressInvariance, PTL
===============================================================================
