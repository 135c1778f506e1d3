-------------------------------- MODULE Pricing --------------------------------
(***************************************************************************)
(* PortfolioValuator::value and ScenarioRepricer::reprice as functions.    *)
(* Each goes through the positions in order and throws at the first one it *)
(* cannot price, then adds up and throws if a sum is not finite.  "none"   *)
(* stands for no exception.                                                *)
(***************************************************************************)
EXTENDS Domain

\* A loop over outcomes and the sums after it: no exception.
Succeeds(outcomes, sums) ==
    /\ \A i \in DOMAIN outcomes : outcomes[i] = "none"
    /\ \A x \in sums : IsFinite(x)

\* The exception it throws otherwise: the one of the first position that has
\* one, or the overflow of a sum.
Throws(outcomes, sums) ==
    {outcomes[i] : i \in
        {k \in DOMAIN outcomes : /\ outcomes[k] # "none"
                                /\ \A j \in 1 .. (k - 1) : outcomes[j] = "none"}}
    \cup {e \in {"overflow_error"} :
             /\ \A i \in DOMAIN outcomes : outcomes[i] = "none"
             /\ \E x \in sums : ~IsFinite(x)}

Fields(positions, Field(_)) == [i \in DOMAIN positions |-> Field(positions[i])]

-----------------------------------------------------------------------------
(* Valuation at current prices.                                            *)

PositionValuation(p, prices) ==
    [position |-> p, current_price |-> prices[p.symbol]]

MarketValue(v) == Times(v.position.quantity, v.current_price)

\* One iteration: the lookup and the constructor of PositionValuation.
PositionThrows(p, prices) ==
    IF ~HasPrice(prices, p.symbol) \/ ~ValidPrice(prices[p.symbol])
    THEN "invalid_argument"
    ELSE IF ~IsFinite(MarketValue(PositionValuation(p, prices)))
    THEN "overflow_error"
    ELSE "none"

Positive(x) == IF x > 0 THEN x ELSE 0

\* Mutant of PortfolioValuation: the exposures are net of each other.
PortfolioValuationNet(valuations) ==
    LET values == Fields(valuations, MarketValue)
    IN  [positions      |-> valuations,
         total_value    |-> Total(values),
         long_exposure  |-> Positive(Total(values)),
         short_exposure |-> Total(Fields(values, LAMBDA x : Positive(-x)))]

\* PortfolioValuation::PortfolioValuation
PortfolioValuation(valuations) ==
    LET values == Fields(valuations, MarketValue)
    IN  [positions      |-> valuations,
         total_value    |-> Total(values),
         long_exposure  |-> Total(Fields(values, Positive)),
         short_exposure |-> Total(Fields(values, LAMBDA x : Positive(-x)))]

Valuation(portfolio, prices) ==
    PortfolioValuation(Fields(portfolio, LAMBDA p : PositionValuation(p, prices)))

ValueOutcomes(portfolio, prices) ==
    Fields(portfolio, LAMBDA p : PositionThrows(p, prices))

ValueSums(v) == {v.total_value, v.long_exposure, v.short_exposure}

-----------------------------------------------------------------------------
(* Repricing of the valuations v of a portfolio under a scenario.          *)

PositionRepricing(v, scenario) ==
    LET symbol == v.position.symbol
        price  == StressedPrice(scenario, symbol, v.current_price)
        value  == Times(v.position.quantity, price)
    IN  [symbol         |-> symbol,
         quantity       |-> v.position.quantity,
         current_price  |-> v.current_price,
         relative_shock |-> scenario.price_shocks[symbol],
         stressed_price |-> price,
         current_value  |-> MarketValue(v),
         stressed_value |-> value,
         pnl            |-> Minus(value, MarketValue(v))]

\* What stressing the price of a valuation throws.
StressingThrows(v, scenario) ==
    StressedPriceThrows(scenario, v.position.symbol, v.current_price)

\* One iteration: the lookup, the stressed price and the test of the value and
\* the P&L.
RepricingThrows(v, scenario) ==
    IF ~HasShock(scenario, v.position.symbol) THEN "invalid_argument"
    ELSE IF StressingThrows(v, scenario) # "none" THEN StressingThrows(v, scenario)
    ELSE LET r == PositionRepricing(v, scenario)
         IN  IF IsFinite(r.stressed_value) /\ IsFinite(r.pnl)
             THEN "none" ELSE "overflow_error"

\* ScenarioResult::ScenarioResult
Result(id, name, current_portfolio_value, repricings) ==
    [scenario_id              |-> id,
     scenario_name            |-> name,
     current_portfolio_value  |-> current_portfolio_value,
     stressed_portfolio_value |->
         Total(Fields(repricings, LAMBDA r : r.stressed_value)),
     pnl                      |-> Total(Fields(repricings, LAMBDA r : r.pnl)),
     positions                |-> repricings]

Repricing(current, scenario, id) ==
    Result(id, scenario.name, current.total_value,
           Fields(current.positions, LAMBDA v : PositionRepricing(v, scenario)))

RepriceOutcomes(current, scenario) ==
    Fields(current.positions, LAMBDA v : RepricingThrows(v, scenario))

\* Mutant of ResultSums: the sum of the stressed values is not checked.
ResultSumsPnlOnly(r) == {r.pnl}

ResultSums(r) == {r.stressed_portfolio_value, r.pnl}
================================================================================
