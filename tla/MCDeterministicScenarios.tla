------------------------ MODULE MCDeterministicScenarios ------------------------
(***************************************************************************)
(* Instance of DeterministicScenarios: portfolios of up to two positions,  *)
(* long and short, in the whole universe, in a stock that none of the      *)
(* scenarios knows and in a blank symbol; prices for everything, for all   *)
(* but one instrument, and an illegal one.                                 *)
(***************************************************************************)
EXTENDS DeterministicScenarios

MCSymbols    == Instruments \cup {"XOM", Blank}
MCQuantities == {0, 2, -3}

MCPriceMaps ==
    {[s \in Instruments \cup {"XOM"} |-> IF s = "VOO" THEN 2 ELSE 5],
     [s \in Instruments \ {"MU"} |-> 1],
     [s \in {"SPX"} |-> -1]}

MCParameterMaps ==
    {[p \in {"risk_free_rate"} |-> 4], [p \in {"volatility"} |-> Infinity]}
=================================================================================
