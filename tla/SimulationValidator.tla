-------------------------- MODULE SimulationValidator --------------------------
(***************************************************************************)
(* validateSimulationInputs as a predicate: what it returns from without   *)
(* an invalid_argument.                                                    *)
(***************************************************************************)
EXTENDS Domain

\* Mutant of AcceptsInputs: only the shocks of the first scenario are looked
\* at.
AcceptsInputsFirstScenario(positions, prices, scenario_list) ==
    /\ positions # <<>>
    /\ scenario_list # <<>>
    /\ \A i \in DOMAIN positions : HasPrice(prices, positions[i].symbol)
    /\ \A k \in DOMAIN scenario_list :
           scenario_list[k] # NullScenario /\ scenario_list[k].name # Blank
    /\ \A i \in DOMAIN positions : HasShock(scenario_list[1], positions[i].symbol)

\* There is a position and a scenario, no scenario is null or without a name,
\* and each position has a price and a shock in every scenario.
AcceptsInputs(positions, prices, scenario_list) ==
    /\ positions # <<>>
    /\ scenario_list # <<>>
    /\ \A i \in DOMAIN positions : HasPrice(prices, positions[i].symbol)
    /\ \A k \in DOMAIN scenario_list :
           /\ scenario_list[k] # NullScenario
           /\ scenario_list[k].name # Blank
           /\ \A i \in DOMAIN positions :
                  HasShock(scenario_list[k], positions[i].symbol)
================================================================================
