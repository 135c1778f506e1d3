------------------------- MODULE MCScenarioGenerator -------------------------
(***************************************************************************)
(* Instance of ScenarioGenerator: up to 5 scenarios on up to 3 threads,    *)
(* which gives ranges of equal and of unequal length, more threads than    *)
(* scenarios, and the degenerate requests (0 scenarios, 0 and 1 threads).  *)
(* With WordBase 3 the scenario ids need both words of a stream's seed.    *)
(***************************************************************************)
EXTENDS ScenarioGenerator

MCScenarioCounts == 0 .. 5
MCThreadCounts   == 0 .. 3
MCSeeds          == {7}
=============================================================================
