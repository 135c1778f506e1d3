------------------------------ MODULE CommandLine ------------------------------
(***************************************************************************)
(* parseOptions of apps/main.cpp: one iteration of its loop per step.  An  *)
(* argument is a string; NumberOf maps the ones that std::from_chars reads *)
(* as an integer of the option's type, to their last character, to the     *)
(* number.                                                                 *)
(***************************************************************************)
EXTENDS Integers, Sequences

CONSTANTS
    Arguments,       \* the command-line arguments that may occur
    NumberOf,        \* the numbers among them
    MaxArguments,    \* bound on the length of the command line
    HardwareThreads  \* std::thread::hardware_concurrency(), 0 if unknown

ASSUME CommandLineAssumption ==
    /\ DOMAIN NumberOf \subseteq Arguments
    /\ \A a \in DOMAIN NumberOf : NumberOf[a] \in Nat
    /\ MaxArguments \in Nat
    /\ HardwareThreads \in Nat

VARIABLES
    arguments, \* without the name of the executable
    index,     \* of the argument looked at next
    options,
    status     \* "parsing", "parsed" or the exception

vars == <<arguments, index, options, status>>

NumericOptions == {"--scenarios", "--seed", "--threads"}
ValueOptions   == NumericOptions \cup {"--market-model"}
HelpOptions    == {"--help", "-h"}
Flags          == HelpOptions \cup {"--repeat"}

DefaultOptions ==
    [market_model_path |-> "python/market_model.json",
     scenario_count    |-> 10000,
     seed              |-> 42,
     thread_count      |-> IF HardwareThreads > 1 THEN HardwareThreads ELSE 1,
     repeat            |-> FALSE,
     show_help         |-> FALSE]

FieldOf(option) ==
    CASE option = "--market-model" -> "market_model_path"
      [] option = "--scenarios"    -> "scenario_count"
      [] option = "--seed"         -> "seed"
      [] option = "--threads"      -> "thread_count"

Init ==
    /\ arguments \in UNION {[1 .. n -> Arguments] : n \in 0 .. MaxArguments}
    /\ index = 1
    /\ options = DefaultOptions
    /\ status = "parsing"

\* Mutant of Accepts: only --scenarios must not be zero.
AcceptsZeroThreads(option, value) ==
    /\ option \in NumericOptions => value \in DOMAIN NumberOf
    /\ option = "--scenarios" => NumberOf[value] # 0

\* parseInteger and the check after it
Accepts(option, value) ==
    /\ option \in NumericOptions => value \in DOMAIN NumberOf
    /\ option \in {"--scenarios", "--threads"} => NumberOf[value] # 0

Read(option, value) ==
    IF option \in NumericOptions THEN NumberOf[value] ELSE value

-----------------------------------------------------------------------------

More     == status = "parsing" /\ index <= Len(arguments)
argument == arguments[index]

\* Mutant of ParseFlag: a later flag undoes --help.
ParseFlagOnce ==
    /\ More
    /\ argument \in Flags
    /\ options' = [options EXCEPT !.repeat = @ \/ argument = "--repeat",
                                  !.show_help = argument \in HelpOptions]
    /\ index' = index + 1
    /\ UNCHANGED <<arguments, status>>

ParseFlag ==
    /\ More
    /\ argument \in Flags
    /\ options' = [options EXCEPT !.repeat = @ \/ argument = "--repeat",
                                  !.show_help = @ \/ argument \in HelpOptions]
    /\ index' = index + 1
    /\ UNCHANGED <<arguments, status>>

\* requireValue takes the next argument, whatever it is.
ParseValue ==
    /\ More
    /\ argument \in ValueOptions
    /\ index < Len(arguments)
    /\ Accepts(argument, arguments[index + 1])
    /\ options' = [options EXCEPT ![FieldOf(argument)] =
                                      Read(argument, arguments[index + 1])]
    /\ index' = index + 2
    /\ UNCHANGED <<arguments, status>>

Reject ==
    /\ More
    /\ \/ argument \notin ValueOptions \cup Flags
       \/ argument \in ValueOptions /\ index = Len(arguments)
       \/ /\ argument \in ValueOptions
          /\ index < Len(arguments)
          /\ ~Accepts(argument, arguments[index + 1])
    /\ status' = "invalid_argument"
    /\ UNCHANGED <<arguments, index, options>>

ReturnOptions ==
    /\ status = "parsing"
    /\ index > Len(arguments)
    /\ status' = "parsed"
    /\ UNCHANGED <<arguments, index, options>>

Next == ParseFlag \/ ParseValue \/ Reject \/ ReturnOptions

Spec == Init /\ [][Next]_vars

-----------------------------------------------------------------------------
(* Properties.  `starts` is a way to read the command line as a sequence   *)
(* of flags and of options each followed by a value: the positions of the  *)
(* flags and the options.                                                  *)

TilesPrefix(starts, n) ==
    \A i \in 1 .. n :
        /\ i \notin starts =>
              i - 1 \in starts /\ arguments[i - 1] \in ValueOptions
        /\ i \in starts =>
              /\ i - 1 \in starts => arguments[i - 1] \in Flags
              /\ arguments[i] \in Flags \/ /\ arguments[i] \in ValueOptions
                                           /\ i + 1 \in 1 .. n
                                           /\ i + 1 \notin starts
                                           /\ Accepts(arguments[i], arguments[i + 1])

Tiles(starts) == TilesPrefix(starts, Len(arguments))

Readings == {starts \in SUBSET DOMAIN arguments : Tiles(starts)}

\* The value the command line gives to an option: its last occurrence, or the
\* default.
Given(starts, option) ==
    LET uses == {i \in starts : arguments[i] = option}
    IN  IF uses = {} THEN DefaultOptions[FieldOf(option)]
        ELSE Read(option, arguments[1 + CHOOSE i \in uses : \A j \in uses : j <= i])

\* Each option has its last value, and a flag counts wherever it stands.
OptionsFollow(starts) ==
    /\ \A option \in ValueOptions : options[FieldOf(option)] = Given(starts, option)
    /\ options.repeat <=> \E i \in starts : arguments[i] = "--repeat"
    /\ options.show_help <=> \E i \in starts : arguments[i] \in HelpOptions

\* Exactly the command lines that can be read as flags and options with legal
\* values are accepted, and the options returned are what they say.
ParsesCommandLine ==
    status # "parsing" =>
        /\ status = "parsed" <=> Readings # {}
        /\ status = "parsed" => \A starts \in Readings : OptionsFollow(starts)

\* Options that are returned can be passed to generate, which accepts neither
\* zero threads nor, from main, zero scenarios.
OptionsAreUsable ==
    status = "parsed" => options.scenario_count > 0 /\ options.thread_count > 0

\* What has been consumed is a reading of its own, the options follow it, and
\* every reading of the whole command line begins with it and goes on at index.
Consumed(starts) ==
    /\ TilesPrefix(starts, index - 1)
    /\ index - 1 \in starts => arguments[index - 1] \in Flags
    /\ OptionsFollow(starts)
    /\ \A reading \in Readings :
          /\ reading \cap (1 .. (index - 1)) = starts
          /\ index <= Len(arguments) => index \in reading

\* The inductive invariant behind the two: the loop has no choice.
IInv ==
    /\ arguments \in Seq(Arguments)
    /\ index \in 1 .. Len(arguments) + 1
    /\ DOMAIN options = DOMAIN DefaultOptions
    /\ \E starts \in SUBSET (1 .. (index - 1)) : Consumed(starts)
    /\ options.scenario_count \in Nat \ {0} /\ options.thread_count \in Nat \ {0}
    /\ status \in {"parsing", "parsed", "invalid_argument"}
    /\ status = "parsed" => index = Len(arguments) + 1
    /\ status = "invalid_argument" => Readings = {}
================================================================================
