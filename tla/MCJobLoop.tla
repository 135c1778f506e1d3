------------------------------- MODULE MCJobLoop -------------------------------
(***************************************************************************)
(* Instance of JobLoop: words of two values, so that seeds have four and   *)
(* four jobs use each of them once; one of the seeds is the last one and   *)
(* the seed of the second job wraps around.                                *)
(***************************************************************************)
EXTENDS JobLoop

MCSeeds == {0, 3}
=============================================================================
