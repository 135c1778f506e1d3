------------------------- MODULE DeterministicScenarios -------------------------
(***************************************************************************)
(* The six historical scenarios, and a caller that stresses with them a    *)
(* portfolio it has put together position by position.                     *)
(*                                                                         *)
(* Shocks are in percent, and so are the P&Ls of a stress test: the shock  *)
(* of -1 that is the least a scenario may have is -100 here.  Rounding and *)
(* overflow of the repricing are the matter of Pricing.                    *)
(***************************************************************************)
EXTENDS SimulationValidator

CONSTANTS
    Symbols, Quantities,   \* what a caller makes positions of
    PriceMaps,             \* the prices it has
    ParameterMaps,         \* the model parameters it has
    MaxPositions

\* instrument_symbols::all
Instruments ==
    {"XAU", "NVDA", "AAPL", "GOOGL", "MSFT", "XAG", "AMZN", "TSM", "AVGO",
     "2222.SR", "SPACEX", "META", "BTC-USD", "TSLA", "005930.KS", "BRK.B",
     "LLY", "VOO", "JPM", "MU", "SPX"}

\* The shocks of an instrument in the six scenarios, which all list the
\* instruments in this order.
ShockTable ==
    <<<<"XAU",         8,   5,   2, -12,   5,  -2>>,
      <<"NVDA",      -30, -55, -70, -25,  -8, -18>>,
      <<"AAPL",      -28, -50, -65, -18, -10, -12>>,
      <<"GOOGL",     -25, -45, -70, -20,  -8, -12>>,
      <<"MSFT",      -22, -40, -60, -15,  -7, -10>>,
      <<"XAG",       -20, -30, -10, -15, -12,  -7>>,
      <<"AMZN",      -12, -55, -85, -22,  -6, -14>>,
      <<"TSM",       -25, -50, -60, -18, -10, -15>>,
      <<"AVGO",      -32, -55, -65, -20, -10, -16>>,
      <<"2222.SR",   -35, -45, -15,  -8, -45,  -8>>,
      <<"SPACEX",    -30, -50, -65, -30, -12, -15>>,
      <<"META",      -28, -50, -70, -20,  -8, -14>>,
      <<"BTC-USD",   -45, -60, -65, -30, -15, -25>>,
      <<"TSLA",      -40, -55, -60, -28, -18, -22>>,
      <<"005930.KS", -24, -45, -50, -15, -12, -12>>,
      <<"BRK.B",     -30, -35, -10, -10, -12,  -9>>,
      <<"LLY",       -18, -25,  -8, -12,  -4,  -8>>,
      <<"VOO",       -30, -45, -40, -15, -12, -10>>,
      <<"JPM",       -38, -60, -20,   5, -18, -15>>,
      <<"MU",        -35, -60, -70, -22, -14, -18>>,
      <<"SPX",       -30, -45, -40, -15, -12, -10>>>>

\* The list of pairs a scenario passes to makePriceShocks.
ShockList(column) ==
    [row \in DOMAIN ShockTable |-> <<ShockTable[row][1], ShockTable[row][1 + column]>>]

NoShifts == <<>>

Listing(name, shocks, shifts) ==
    [name |-> name, shocks |-> shocks, parameter_shifts |-> shifts]

\* Mutant of CovidCrash: the row of NVDA was pasted and edited in its shock only.
CovidCrashPasted ==
    Listing("COVID crash", [ShockList(1) EXCEPT ![3] = <<"NVDA", -28>>], NoShifts)

CovidCrash            == Listing("COVID crash", ShockList(1), NoShifts)
GlobalFinancialCrisis == Listing("Global Financial Crisis", ShockList(2), NoShifts)

\* Mutant of DotComCrash: one instrument was forgotten.
DotComCrashIncomplete == Listing("Dot-com crash", Tail(ShockList(3)), NoShifts)

DotComCrash == Listing("Dot-com crash", ShockList(3), NoShifts)
RateShock   ==
    Listing("Rate shock (+300 bps)", ShockList(4),
            [name \in {"risk_free_rate"} |-> 3])
OilCollapse == Listing("Oil collapse", ShockList(5), NoShifts)

\* Mutant of FlashCrash: two digits of one shock are swapped.
FlashCrashMistyped ==
    Listing("Flash crash", [ShockList(6) EXCEPT ![18] = <<"VOO", -1>>], NoShifts)

FlashCrash  == Listing("Flash crash", ShockList(6), NoShifts)

Listings == <<CovidCrash, GlobalFinancialCrisis, DotComCrash, RateShock,
              OilCollapse, FlashCrash>>

\* makePriceShocks: emplace keeps the first shock of a symbol.
MakePriceShocks(shocks) ==
    [symbol \in {shocks[i][1] : i \in DOMAIN shocks} |->
        shocks[CHOOSE i \in DOMAIN shocks :
                   /\ shocks[i][1] = symbol
                   /\ \A j \in 1 .. (i - 1) : shocks[j][1] # symbol][2]]

\* None of these texts is blank, and none of these numbers beyond a double.
ASSUME TableAssumption ==
    /\ MaxFinite >= 100
    /\ Blank \notin Instruments \cup {"risk_free_rate"}
    /\ \A k \in DOMAIN Listings : Listings[k].name # Blank

\* validateParameters and validateParameterShifts
ValidParameters(parameters) ==
    \A name \in DOMAIN parameters : name # Blank /\ IsFinite(parameters[name])

\* Scenario::Scenario, in percent
AcceptsListing(listing) ==
    /\ \A symbol \in DOMAIN MakePriceShocks(listing.shocks) :
           /\ symbol # Blank
           /\ MakePriceShocks(listing.shocks)[symbol] >= -100
    /\ ValidParameters(listing.parameter_shifts)

-----------------------------------------------------------------------------

VARIABLES
    held,        \* the portfolio
    quotes,      \* the market state
    historical,  \* the scenarios
    stage,       \* what the caller is putting together, "done" or "failed"
    refused_by,  \* what threw an exception, if anything did
    pnls         \* of each scenario, the P&L of each position in percent

stress_vars == <<held, quotes, historical, stage, refused_by, pnls>>

StressInit ==
    /\ held = <<>> /\ quotes = <<>> /\ historical = <<>>
    /\ stage = "portfolio" /\ refused_by = "none" /\ pnls = <<>>

StressThrow(thrower) ==
    /\ stage' = "failed" /\ refused_by' = thrower
    /\ UNCHANGED <<held, quotes, historical, pnls>>

\* Position::Position and Portfolio::addPosition
AddPosition ==
    /\ stage = "portfolio"
    /\ Len(held) < MaxPositions
    /\ \E symbol \in Symbols, quantity \in Quantities :
          LET position == [symbol |-> symbol, quantity |-> quantity]
          IN  IF ValidPosition(position)
              THEN /\ held' = Append(held, position)
                   /\ UNCHANGED <<quotes, historical, stage, refused_by, pnls>>
              ELSE StressThrow("Position")

\* MarketState::MarketState
MakeMarketState ==
    /\ stage = "portfolio"
    /\ \E prices \in PriceMaps, parameters \in ParameterMaps :
          IF ValidMarketState(prices) /\ ValidParameters(parameters)
          THEN /\ quotes' = prices
               /\ stage' = "scenarios"
               /\ UNCHANGED <<held, historical, refused_by, pnls>>
          ELSE StressThrow("MarketState")

\* The constructor of the next of the six scenarios.
MakeScenario ==
    /\ stage = "scenarios"
    /\ Len(historical) < Len(Listings)
    /\ LET listing == Listings[Len(historical) + 1]
       IN  IF AcceptsListing(listing)
           THEN /\ historical' = Append(historical,
                      [name |-> listing.name,
                       price_shocks |-> MakePriceShocks(listing.shocks)])
                /\ UNCHANGED <<held, quotes, stage, refused_by, pnls>>
           ELSE StressThrow("Scenario")

\* The P&L of a position: what ScenarioRepricer computes, times 100.
Pnl(position, scenario) ==
    position.quantity * quotes[position.symbol]
        * scenario.price_shocks[position.symbol]

\* SimulationEngine::run with the scenarios there are.
Stress ==
    /\ stage = "scenarios"
    /\ IF AcceptsInputs(held, quotes, historical)
       THEN /\ pnls' = [k \in DOMAIN historical |->
                              [i \in DOMAIN held |-> Pnl(held[i], historical[k])]]
            /\ stage' = "done"
            /\ UNCHANGED <<held, quotes, historical, refused_by>>
       ELSE StressThrow("SimulationEngine")

StressNext == AddPosition \/ MakeMarketState \/ MakeScenario \/ Stress

StressSpec == StressInit /\ [][StressNext]_stress_vars

-----------------------------------------------------------------------------
(* Properties.                                                             *)

\* A portfolio of instruments of the universe that have a price is stressed,
\* whichever of the six scenarios are used: the constructors of the scenarios
\* throw nothing, and the validator rejects a portfolio only because of one of
\* its positions, or an empty portfolio or list.
UniverseIsCovered ==
    /\ refused_by # "Scenario"
    /\ refused_by = "SimulationEngine" =>
           \/ held = <<>> \/ historical = <<>>
           \/ \E i \in DOMAIN held :
                  held[i].symbol \notin Instruments \cap DOMAIN quotes
    /\ stage = "done" =>
           \A i \in DOMAIN held : held[i].symbol \in Instruments

\* Every shock a scenario lists is one it applies: no later line is shadowed by
\* an earlier one for the same symbol, so that a position moves by what any line
\* for its symbol says, and as many symbols have a shock as there are lines.
EveryLineCounts ==
    /\ \A k \in DOMAIN historical :
           Cardinality(DOMAIN historical[k].price_shocks)
               = Len(Listings[k].shocks)
    /\ \A k \in DOMAIN pnls, i \in DOMAIN held :
           \A line \in Range(Listings[k].shocks) :
               line[1] = held[i].symbol =>
                   pnls[k][i] = held[i].quantity
                       * quotes[held[i].symbol] * line[2]

\* The fund on the S&P 500 moves like the index: in every scenario a position in
\* VOO and one in SPX gain or lose the same share of what they are worth, so that
\* one hedges the other.
FundFollowsIndex ==
    \A k \in DOMAIN pnls, i, j \in DOMAIN held :
        held[i].symbol = "VOO" /\ held[j].symbol = "SPX" =>
            pnls[k][i] * held[j].quantity * quotes["SPX"]
                = pnls[k][j] * held[i].quantity * quotes["VOO"]

\* The scenario a listing makes.
Made(listing) ==
    [name |-> listing.name, price_shocks |-> MakePriceShocks(listing.shocks)]

\* The inductive invariant behind the three: what the caller has put together so
\* far is legal, the scenarios are those listed, and the results are theirs.
StressInv ==
    /\ stage \in {"portfolio", "scenarios", "done", "failed"}
    /\ held \in Seq([symbol : Symbols, quantity : Quantities])
    /\ \A i \in DOMAIN held : ValidPosition(held[i])
    /\ Len(historical) <= Len(Listings)
    /\ historical = [k \in 1 .. Len(historical) |-> Made(Listings[k])]
    /\ stage = "portfolio" => historical = <<>>
    /\ stage \in {"scenarios", "done"} => ValidMarketState(quotes)
    /\ stage # "failed" => refused_by = "none"
    /\ stage = "done" => AcceptsInputs(held, quotes, historical)
    /\ IF stage = "done"
       THEN pnls = [k \in DOMAIN historical |->
                          [i \in DOMAIN held |-> Pnl(held[i], historical[k])]]
       ELSE pnls = <<>>
    /\ UniverseIsCovered
=================================================================================
