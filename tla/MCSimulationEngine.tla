-------------------------- MODULE MCSimulationEngine --------------------------
(***************************************************************************)
(* Instance of SimulationEngine: two symbols with prices, a third that may *)
(* miss one; portfolios of up to two positions, long, short, hedged, on    *)
(* one symbol or two; lists of up to two scenarios; and values small       *)
(* enough that products and sums overflow MaxFinite.                       *)
(***************************************************************************)
EXTENDS SimulationEngine

CONSTANTS a, b

MCPositions ==
    {[symbol |-> s, quantity |-> q] : s \in {a, b}, q \in {-2, 1, 3}}
    \cup {[symbol |-> Blank, quantity |-> 1], [symbol |-> a, quantity |-> 0],
          [symbol |-> a, quantity |-> Infinity]}
MCPortfolios == UNION {[1 .. n -> MCPositions] : n \in 0 .. 2}

MCMarketStates ==
    [{a, b} -> {0, 1, 4}] \cup [{a} -> {2}]
    \cup {[s \in {a, b} |-> -1], [s \in {a, b} |-> Infinity],
          [s \in {a, b, Blank} |-> 1]}

MCScenarios ==
    {[name |-> IF shocks[a] = -1 THEN "crash" ELSE "named",
      price_shocks |-> shocks] : shocks \in [{a, b} -> {-1, 0, 2}]}
    \cup {NullScenario,
          [name |-> Blank, price_shocks |-> [s \in {a, b} |-> 0]],
          [name |-> "named", price_shocks |-> [s \in {b} |-> 0]],
          [name |-> "named", price_shocks |-> [s \in {a, b} |-> -2]],
          [name |-> "named", price_shocks |-> [s \in {a, b} |-> Infinity]]}
MCScenarioLists == UNION {[1 .. n -> MCScenarios] : n \in 0 .. 2}

MCSettingsValues ==
    {[confidence_level |-> [num |-> 1, den |-> 2], worst_scenario_count |-> 1],
     [confidence_level |-> [num |-> 15, den |-> 16], worst_scenario_count |-> 3]}
===============================================================================
