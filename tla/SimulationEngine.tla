--------------------------- MODULE SimulationEngine ---------------------------
(***************************************************************************)
(* A caller of the engine: it constructs the inputs, whose constructors    *)
(* may reject them, and calls SimulationEngine::run, which validates them, *)
(* values the portfolio, reprices it under one scenario after the other    *)
(* and computes the risk metrics.  Everything runs on one thread and an    *)
(* exception ends the call at the point where it is thrown.                *)
(***************************************************************************)
EXTENDS Pricing, RiskMetrics, SimulationValidator

CONSTANTS
    Portfolios,    \* sequences of positions
    MarketStates,  \* price maps
    ScenarioLists, \* sequences of scenarios and null pointers
    SettingsValues \* [confidence_level, worst_scenario_count]

ASSUME SequencesAssumption ==
    \A list \in Portfolios \cup ScenarioLists : list \in Seq(Range(list))

\* static_cast<double>(n) is exact for every number n of scenarios.
ASSUME CountsAssumption ==
    \A list \in ScenarioLists : Len(list) <= PowerOf2[Precision]

\* A confidence level is a fraction, the count a std::size_t.
ASSUME SettingsAssumption ==
    \A s \in SettingsValues :
        /\ s.confidence_level.num \in Int /\ s.confidence_level.den \in Int
        /\ s.worst_scenario_count \in Nat

VARIABLES
    portfolio, market_state, scenarios, settings,
    phase,             \* the next phase of the call
    current_portfolio, \* its valuation, once computed
    scenario_results,
    risk_metrics,
    thrown             \* the exception and the phase that threw it

inputs == <<portfolio, market_state, scenarios, settings>>
report == <<current_portfolio, scenario_results, risk_metrics>>
vars   == <<inputs, phase, report, thrown>>

Nothing == <<>>

Init ==
    /\ portfolio \in Portfolios
    /\ market_state \in MarketStates
    /\ scenarios \in ScenarioLists
    /\ settings \in SettingsValues
    /\ phase = "construct"
    /\ current_portfolio = Nothing /\ scenario_results = <<>>
    /\ risk_metrics = Nothing
    /\ thrown = [what |-> "none", in |-> "none"]

\* The phase throws what.
Throw(what) ==
    /\ thrown' = [what |-> what, in |-> phase]
    /\ phase' = "exit"
    /\ UNCHANGED <<inputs, report>>

-----------------------------------------------------------------------------

Constructible ==
    /\ \A i \in DOMAIN portfolio : ValidPosition(portfolio[i])
    /\ ValidMarketState(market_state)
    /\ \A i \in DOMAIN scenarios :
           scenarios[i] # NullScenario => ValidScenario(scenarios[i])
    /\ ValidConfidence(settings.confidence_level)

Construct ==
    /\ phase = "construct"
    /\ Constructible
    /\ phase' = "validate"
    /\ UNCHANGED <<inputs, report, thrown>>

ConstructThrows ==
    /\ phase = "construct"
    /\ ~Constructible
    /\ Throw("invalid_argument")

\* validateSimulationInputs(portfolio, market_state, scenarios) returns.
ValidInputs == AcceptsInputs(portfolio, market_state, scenarios)

Validate ==
    /\ phase = "validate"
    /\ ValidInputs
    /\ phase' = "value"
    /\ UNCHANGED <<inputs, report, thrown>>

ValidateThrows ==
    /\ phase = "validate"
    /\ ~ValidInputs
    /\ Throw("invalid_argument")

\* PortfolioValuator::value(portfolio, market_state)
Valued     == Valuation(portfolio, market_state)
ValueLoop  == ValueOutcomes(portfolio, market_state)

Value ==
    /\ phase = "value"
    /\ Succeeds(ValueLoop, ValueSums(Valued))
    /\ current_portfolio' = Valued
    /\ phase' = "reprice"
    /\ UNCHANGED <<inputs, scenario_results, risk_metrics, thrown>>

ValueFails ==
    /\ phase = "value"
    /\ \E e \in Throws(ValueLoop, ValueSums(Valued)) : Throw(e)

\* The loop counter of run, and the scenario it selects.
index    == Len(scenario_results)
scenario == scenarios[index + 1]

\* ScenarioRepricer::reprice(current_portfolio, *scenarios[index], index)
Repriced    == Repricing(current_portfolio, scenario, index)
RepriceLoop == RepriceOutcomes(current_portfolio, scenario)

Reprice ==
    /\ phase = "reprice"
    /\ index < Len(scenarios)
    /\ Succeeds(RepriceLoop, ResultSums(Repriced))
    /\ scenario_results' = Append(scenario_results, Repriced)
    /\ UNCHANGED <<inputs, phase, current_portfolio, risk_metrics, thrown>>

RepriceFails ==
    /\ phase = "reprice"
    /\ index < Len(scenarios)
    /\ \E e \in Throws(RepriceLoop, ResultSums(Repriced)) : Throw(e)

Calculate ==
    /\ phase = "reprice"
    /\ index = Len(scenarios)
    /\ IF CalculateRejects(scenario_results, settings.confidence_level)
       THEN Throw("invalid_argument")
       ELSE /\ risk_metrics' = Metrics(scenario_results,
                                       settings.confidence_level,
                                       settings.worst_scenario_count)
            /\ phase' = "exit"
            /\ UNCHANGED <<inputs, current_portfolio, scenario_results, thrown>>

-----------------------------------------------------------------------------

Next ==
    \/ Construct \/ ConstructThrows
    \/ Validate \/ ValidateThrows
    \/ Value \/ ValueFails
    \/ Reprice \/ RepriceFails
    \/ Calculate

Spec == Init /\ [][Next]_vars

-----------------------------------------------------------------------------
(* Properties.                                                             *)

Returned == phase = "exit" /\ thrown.what = "none"

\* The phases follow each other, and every sum the call keeps is finite.
TypeOK ==
    /\ phase \in {"construct", "validate", "value", "reprice", "exit"}
    /\ thrown.what \in {"none", "invalid_argument", "overflow_error"}
    /\ scenario_results \in Seq(Range(scenario_results))
    /\ \A i \in DOMAIN scenario_results :
          /\ scenario_results[i].scenario_id = i - 1
          /\ IsFinite(scenario_results[i].stressed_portfolio_value)
          /\ IsFinite(scenario_results[i].pnl)
    /\ index <= Len(scenarios)
    /\ phase = "reprice" => IsFinite(current_portfolio.total_value)

\* Validation is complete: whatever it accepts, the rest of the call throws
\* nothing but overflow_error, so an invalid input is never found half-way.
ValidationIsComplete ==
    thrown.in \notin {"none", "construct", "validate"} =>
        thrown.what = "overflow_error"

\* A sum without a limit.
ExactTotal(values) == FoldLeft(+, 0, values)

\* The report adds up: one result per scenario, which moves the portfolio from
\* the same current value by its P&L; a position's P&L is what its own shock
\* does to its own value, whatever other position has the same symbol; the
\* exposures make up the current value.
ReportReconciles ==
    Returned =>
        /\ Len(scenario_results) = Len(scenarios)
        /\ \A i \in DOMAIN scenario_results :
               LET r == scenario_results[i]
                   moves == [k \in DOMAIN portfolio |->
                                portfolio[k].quantity
                                * market_state[portfolio[k].symbol]
                                * scenarios[i].price_shocks[portfolio[k].symbol]]
               IN  /\ r.current_portfolio_value = current_portfolio.total_value
                   /\ r.stressed_portfolio_value
                        = current_portfolio.total_value + r.pnl
                   /\ \A k \in DOMAIN portfolio : r.positions[k].pnl = moves[k]
                   /\ r.pnl = ExactTotal(moves)
        /\ current_portfolio.total_value
             = current_portfolio.long_exposure - current_portfolio.short_exposure

\* Shocks of at least -100% cannot cost a scenario more than the long
\* positions are worth where no position is short.
LongLossBounded ==
    Returned /\ (\A i \in DOMAIN portfolio : portfolio[i].quantity > 0) =>
        \A i \in DOMAIN scenario_results :
            -scenario_results[i].pnl <= current_portfolio.long_exposure

\* The risk figures and the list of worst scenarios describe the same results,
\* each under the number and the name of its scenario: VaR is the loss of one
\* of them, and the loss of the first worst scenario is the largest.
RiskMatchesResults ==
    Returned =>
        LET worst == risk_metrics.worst_scenarios
        IN  /\ \E i \in DOMAIN scenario_results :
                   Loss(scenario_results[i]) = risk_metrics.value_at_risk
            /\ \A k \in DOMAIN worst : \E i \in DOMAIN scenarios :
                   worst[k] = [scenario_id   |-> i - 1,
                               scenario_name |-> scenarios[i].name,
                               pnl           |-> scenario_results[i].pnl]
            /\ worst # <<>> =>
                   /\ risk_metrics.value_at_risk <= Loss(worst[1])
                   /\ \A i \in DOMAIN scenario_results :
                          Loss(scenario_results[i]) <= Loss(worst[1])

\* What the result of the i-th scenario is computed from.
ResultOf(i) == Repricing(current_portfolio, scenarios[i], i - 1)

\* The valuation and the results so far are those of the inputs, and none of
\* the loops and sums behind them threw.
Computed ==
    /\ ValidInputs
    /\ current_portfolio = Valued
    /\ Succeeds(ValueLoop, ValueSums(Valued))
    /\ \A i \in DOMAIN scenario_results :
          /\ scenario_results[i] = ResultOf(i)
          /\ Succeeds(RepriceOutcomes(current_portfolio, scenarios[i]),
                      ResultSums(ResultOf(i)))

\* The inductive invariant: what construction and validation have established
\* is still true in the phases that rely on it, and what a call returns is what
\* its phases have computed, for all scenarios.
IInv ==
    /\ TypeOK
    /\ portfolio \in Portfolios /\ scenarios \in ScenarioLists
    /\ settings \in SettingsValues
    /\ phase # "exit" => thrown.in = "none"
    /\ phase \in {"validate", "value", "reprice"} \/ Returned => Constructible
    /\ phase = "value" => ValidInputs
    /\ phase = "reprice" \/ Returned => Computed
    /\ phase \in {"construct", "validate", "value"} => scenario_results = <<>>
    /\ Returned =>
          /\ index = Len(scenarios)
          /\ risk_metrics = Metrics(scenario_results, settings.confidence_level,
                                    settings.worst_scenario_count)
    /\ ValidationIsComplete
===============================================================================
