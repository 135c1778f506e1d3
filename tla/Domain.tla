--------------------------------- MODULE Domain ---------------------------------
(***************************************************************************)
(* The inputs of the engine and what their constructors accept.            *)
(*   position      [symbol, quantity]                                      *)
(*   portfolio     a sequence of positions; a symbol may occur repeatedly  *)
(*   market state  a function from the symbols that have a price to it     *)
(*   scenario      [name, price_shocks], the latter a function from        *)
(*                 symbols to relative shocks, or NullScenario             *)
(* Model parameters and parameter shifts are carried by the code and read  *)
(* by none of the engine; they are left out.                               *)
(***************************************************************************)
EXTENDS Doubles

CONSTANT Blank \* a symbol or a name without a visible character

\* A null pointer in a list of scenarios.
NullScenario == [null |-> TRUE]

\* Position::Position
ValidPosition(p) ==
    p.symbol # Blank /\ IsFinite(p.quantity) /\ p.quantity # 0

\* The test of a price in MarketState, PositionValuation and Scenario.
ValidPrice(price) == IsFinite(price) /\ price >= 0

\* MarketState::MarketState
ValidMarketState(prices) ==
    \A s \in DOMAIN prices : s # Blank /\ ValidPrice(prices[s])

\* Mutant of ValidScenario: a shock may be lower than -1.
ValidScenarioAnyShock(scenario) ==
    \A s \in DOMAIN scenario.price_shocks :
        s # Blank /\ IsFinite(scenario.price_shocks[s])

\* Scenario::Scenario
ValidScenario(scenario) ==
    \A s \in DOMAIN scenario.price_shocks :
        /\ s # Blank
        /\ IsFinite(scenario.price_shocks[s])
        /\ scenario.price_shocks[s] >= -1

\* priceFor and priceShockFor have a value for the symbols of the map.
HasPrice(prices, symbol) == symbol \in DOMAIN prices
HasShock(scenario, symbol) == symbol \in DOMAIN scenario.price_shocks

\* Scenario::stressedPriceFor, where the symbol has a shock
StressedPrice(scenario, symbol, current_price) ==
    Times(current_price, Plus(1, scenario.price_shocks[symbol]))

\* What it throws there, if anything.
StressedPriceThrows(scenario, symbol, current_price) ==
    IF ~ValidPrice(current_price) THEN "invalid_argument"
    ELSE IF ~IsFinite(StressedPrice(scenario, symbol, current_price))
    THEN "overflow_error"
    ELSE "none"
=================================================================================
