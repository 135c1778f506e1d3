------------------------------ MODULE MCProcess ------------------------------
(***************************************************************************)
(* Instance of Process: jobs of 2 and 3 scenarios on 1 to 3 threads, two   *)
(* signals, and a seed of which the second job wraps around.               *)
(***************************************************************************)
EXTENDS Process

MCSeeds          == 0 .. (WideBase - 1)
MCBaseSeeds      == {3}
MCScenarioCounts == {2, 3}
MCThreadCounts   == 1 .. 3
=============================================================================
