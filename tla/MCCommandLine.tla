----------------------------- MODULE MCCommandLine -----------------------------
(***************************************************************************)
(* Instance of CommandLine: every command line of up to 4 arguments from   *)
(* the options, a zero, a positive number and another text, so that an     *)
(* option can occur twice and can be taken for the value of another.  -h   *)
(* is left out: the code treats it as --help.                              *)
(***************************************************************************)
EXTENDS CommandLine

MCArguments ==
    {"--market-model", "--scenarios", "--seed", "--threads", "--repeat", "--help",
     "0", "8", "text"}
MCNumberOf == [a \in {"0", "8"} |-> IF a = "0" THEN 0 ELSE 8]
================================================================================
