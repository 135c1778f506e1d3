--------------------------- MODULE MCRiskCalculator ---------------------------
(***************************************************************************)
(* Instance of RiskCalculator: up to 4 results with 4 values, hence every  *)
(* pattern of ties, and confidence levels on both sides of every rank that *)
(* 4 results have, with the ones calculate rejects.  With significands of  *)
(* 4 bits 3 * 11/16 = 2 + 1/16 is rounded to 2, which changes the rank.    *)
(***************************************************************************)
EXTENDS RiskCalculator

MCPnlValues   == {-2, -1, 0, 3}
MCWorstCounts == {0, 3, 5}
MCConfidences ==
    {[num |-> 1, den |-> 4], [num |-> 1, den |-> 2], [num |-> 11, den |-> 16],
     [num |-> 15, den |-> 16], [num |-> 0, den |-> 1], [num |-> 1, den |-> 1],
     [num |-> 1, den |-> 0]}
===============================================================================
