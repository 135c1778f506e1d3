--------------------------- MODULE CommandLineProofs ---------------------------
(***************************************************************************)
(* What parseOptions makes of a command line of any length over any        *)
(* arguments.  The argument: a flag is never an option with a value, so    *)
(* there is at most one way to read a command line, and the loop follows   *)
(* it from the left: it stops with an exception exactly where that way     *)
(* ends.                                                                   *)
(***************************************************************************)
EXTENDS CommandLine, TLAPS

-----------------------------------------------------------------------------
(* Options.                                                                *)

\* An option with a value is not a flag.
LEMMA FlagsTakeNoValue == Flags \cap ValueOptions = {}
  BY DEF Flags, HelpOptions, ValueOptions, NumericOptions

\* Every option has a field of its own.
LEMMA Fields ==
    /\ FieldOf("--market-model") = "market_model_path"
    /\ FieldOf("--scenarios") = "scenario_count"
    /\ FieldOf("--seed") = "seed"
    /\ FieldOf("--threads") = "thread_count"
    /\ \A option \in ValueOptions :
           FieldOf(option) \in {"market_model_path", "scenario_count", "seed",
                                "thread_count"}
    /\ \A option1, option2 \in ValueOptions :
           FieldOf(option1) = FieldOf(option2) => option1 = option2
  <1>1. /\ FieldOf("--market-model") = "market_model_path"
        /\ FieldOf("--scenarios") = "scenario_count"
        /\ FieldOf("--seed") = "seed"
        /\ FieldOf("--threads") = "thread_count"
    BY DEF FieldOf
  <1>2. ValueOptions = {"--market-model", "--scenarios", "--seed", "--threads"}
    BY DEF ValueOptions, NumericOptions
  <1> QED
    BY <1>1, <1>2

\* The fields options have.
LEMMA OptionFields ==
    DOMAIN DefaultOptions = {"market_model_path", "scenario_count", "seed",
                             "thread_count", "repeat", "show_help"}
  BY DEF DefaultOptions

\* The default counts can be passed to generate.
LEMMA DefaultsUsable ==
    DefaultOptions.scenario_count \in Nat \ {0} /\ DefaultOptions.thread_count \in Nat \ {0}
  BY CommandLineAssumption DEF DefaultOptions

\* A value that is accepted for a count is a positive number.
LEMMA AcceptedCounts ==
    ASSUME NEW option \in {"--scenarios", "--threads"}, NEW value, Accepts(option, value)
    PROVE  Read(option, value) \in Nat \ {0}
  BY CommandLineAssumption DEF Accepts, Read, NumericOptions

-----------------------------------------------------------------------------
(* Readings.                                                               *)

\* An option that occurs at the end has the value that follows it there.
LEMMA LastGiven ==
    ASSUME NEW n \in Nat, NEW starts \in SUBSET (1 .. n), NEW k \in Nat, k > n
    PROVE  Given(starts \cup {k}, arguments[k]) = Read(arguments[k], arguments[1 + k])
  <1> DEFINE option == arguments[k]
             uses == {i \in starts \cup {k} : arguments[i] = option}
  <1>1. k \in uses /\ \A j \in uses : j <= k
    OBVIOUS
  <1>2. (CHOOSE i \in uses : \A j \in uses : j <= i) = k
    <2>1. \A i \in uses : i \in Nat
      OBVIOUS
    <2>2. ASSUME NEW i \in uses, \A j \in uses : j <= i
          PROVE  i = k
      BY <1>1, <2>1, <2>2
    <2> HIDE DEF uses
    <2> QED
      BY <1>1, <2>2
  <1> HIDE DEF uses
  <1>3. uses # {}
    BY <1>1
  <1> QED
    BY <1>2, <1>3 DEF Given, uses

\* What does not occur at the end is given as before.
LEMMA OthersGiven ==
    ASSUME NEW starts, NEW k, NEW option, arguments[k] # option
    PROVE  Given(starts \cup {k}, option) = Given(starts, option)
  <1> DEFINE Uses(S) == {i \in S : arguments[i] = option}
             Last(uses) == IF uses = {} THEN DefaultOptions[FieldOf(option)]
                           ELSE Read(option, arguments[1 + CHOOSE i \in uses :
                                                              \A j \in uses : j <= i])
  <1>1. Uses(starts \cup {k}) = Uses(starts)
    OBVIOUS
  <1>2. \A S : Given(S, option) = Last(Uses(S))
    BY Zenon DEF Given
  <1> HIDE DEF Uses, Last
  <1> QED
    BY <1>1, <1>2

\* What a command line can be read as does not change.
LEMMA ReadingsStay ==
    ASSUME UNCHANGED arguments
    PROVE  /\ Readings' = Readings
           /\ \A starts, n : TilesPrefix(starts, n)' = TilesPrefix(starts, n)
           /\ \A starts, option : Given(starts, option)' = Given(starts, option)
  BY DEF Readings, Tiles, TilesPrefix, Given

\* A prefix followed by a flag.
LEMMA FlagExtends ==
    ASSUME NEW n \in Nat, NEW starts \in SUBSET (1 .. n), TilesPrefix(starts, n),
           n \in starts => arguments[n] \in Flags,
           arguments[n + 1] \in Flags
    PROVE  TilesPrefix(starts \cup {n + 1}, n + 1)
  <1> SUFFICES ASSUME NEW i \in 1 .. (n + 1)
               PROVE  LET longer == starts \cup {n + 1} IN
                  /\ i \notin longer =>
                        i - 1 \in longer /\ arguments[i - 1] \in ValueOptions
                  /\ i \in longer =>
                        /\ i - 1 \in longer => arguments[i - 1] \in Flags
                        /\ arguments[i] \in Flags \/ /\ arguments[i] \in ValueOptions
                                                     /\ i + 1 \in 1 .. (n + 1)
                                                     /\ i + 1 \notin longer
                                                     /\ Accepts(arguments[i], arguments[i + 1])
    BY DEF TilesPrefix
  <1>1. CASE i = n + 1
    BY <1>1
  <1>2. CASE i \in 1 .. n
    BY <1>2 DEF TilesPrefix
  <1> QED
    BY <1>1, <1>2

\* A prefix followed by an option and its value.
LEMMA ValueExtends ==
    ASSUME NEW n \in Nat, NEW starts \in SUBSET (1 .. n), TilesPrefix(starts, n),
           n \in starts => arguments[n] \in Flags,
           arguments[n + 1] \in ValueOptions,
           Accepts(arguments[n + 1], arguments[n + 2])
    PROVE  TilesPrefix(starts \cup {n + 1}, n + 2)
  <1> SUFFICES ASSUME NEW i \in 1 .. (n + 2)
               PROVE  LET longer == starts \cup {n + 1} IN
                  /\ i \notin longer =>
                        i - 1 \in longer /\ arguments[i - 1] \in ValueOptions
                  /\ i \in longer =>
                        /\ i - 1 \in longer => arguments[i - 1] \in Flags
                        /\ arguments[i] \in Flags \/ /\ arguments[i] \in ValueOptions
                                                     /\ i + 1 \in 1 .. (n + 2)
                                                     /\ i + 1 \notin longer
                                                     /\ Accepts(arguments[i], arguments[i + 1])
    BY DEF TilesPrefix
  <1>1. CASE i = n + 1
    <2>1. i + 1 \notin starts \cup {n + 1}
      BY <1>1
    <2>2. i + 1 = n + 2 /\ i - 1 = n
      BY <1>1
    <2> QED
      BY <1>1, <2>1, <2>2
  <1>2. CASE i = n + 2
    <2>1. i \notin starts \cup {n + 1} /\ i - 1 = n + 1
      BY <1>2
    <2> QED
      BY <2>1
  <1>3. CASE i \in 1 .. n
    BY <1>3 DEF TilesPrefix
  <1> QED
    BY <1>1, <1>2, <1>3

-----------------------------------------------------------------------------
(* The invariant.                                                          *)

LEMMA InitHolds == Init => IInv
  <1> SUFFICES ASSUME Init PROVE IInv
    OBVIOUS
  <1>1. PICK n \in 0 .. MaxArguments : arguments \in [1 .. n -> Arguments]
    BY DEF Init
  <1>2. n \in Nat /\ arguments \in Seq(Arguments) /\ Len(arguments) = n
    <2>1. n \in Nat
      BY CommandLineAssumption
    <2> QED
      BY <1>1, <2>1
  <1>3. index = 1 /\ options = DefaultOptions /\ status = "parsing"
    BY DEF Init
  <1>4. TilesPrefix({}, index - 1)
    BY <1>3 DEF TilesPrefix
  <1>5. OptionsFollow({})
    <2>1. \A option : Given({}, option) = DefaultOptions[FieldOf(option)]
      BY DEF Given
    <2>2. options.repeat = FALSE /\ options.show_help = FALSE
      BY <1>3 DEF DefaultOptions
    <2> QED
      BY <1>3, <2>1, <2>2 DEF OptionsFollow
  <1>6. ASSUME NEW reading \in Readings
        PROVE  /\ reading \cap (1 .. (index - 1)) = {}
               /\ index <= Len(arguments) => index \in reading
    <2>1. Tiles(reading) /\ reading \subseteq 1 .. Len(arguments)
      BY <1>2 DEF Readings
    <2>2. 0 \notin reading
      BY <1>2, <2>1
    <2>3. 1 <= Len(arguments) => 1 \in reading
      BY <1>2, <2>1, <2>2 DEF Tiles, TilesPrefix
    <2> QED
      BY <1>3, <2>3
  <1>7. Consumed({})
    BY <1>4, <1>5, <1>6 DEF Consumed
  <1> QED
    BY <1>2, <1>3, <1>7, DefaultsUsable DEF IInv

\* The next argument of every reading starts a flag or an option with a value.
LEMMA ReadingGoesOn ==
    ASSUME IInv, More, NEW reading \in Readings
    PROVE  /\ index \in reading
           /\ \/ argument \in Flags
              \/ /\ argument \in ValueOptions
                 /\ index < Len(arguments)
                 /\ index + 1 \notin reading
                 /\ Accepts(argument, arguments[index + 1])
  <1>1. index \in 1 .. Len(arguments) /\ Len(arguments) \in Nat
    BY DEF IInv, More
  <1>2. index \in reading
    BY <1>1 DEF IInv, Consumed
  <1>3. Tiles(reading)
    BY DEF Readings
  <1> QED
    BY <1>1, <1>2, <1>3 DEF Tiles, TilesPrefix, argument

LEMMA ParseFlagKeepsIInv == ASSUME IInv, ParseFlag PROVE IInv'
  <1>1. PICK starts \in SUBSET (1 .. (index - 1)) : Consumed(starts)
    BY DEF IInv
  <1>2. /\ index \in 1 .. Len(arguments) /\ Len(arguments) \in Nat
        /\ arguments[index] \in Flags
        /\ index' = index + 1
        /\ UNCHANGED <<arguments, status>>
        /\ status = "parsing"
    BY DEF IInv, ParseFlag, More, argument
  <1>3. /\ options' = [options EXCEPT !.repeat = @ \/ arguments[index] = "--repeat",
                                      !.show_help = @ \/ arguments[index] \in HelpOptions]
        /\ DOMAIN options = {"market_model_path", "scenario_count", "seed",
                             "thread_count", "repeat", "show_help"}
    BY OptionFields DEF ParseFlag, argument, IInv
  <1>4. /\ DOMAIN options' = DOMAIN options
        /\ \A field \in DOMAIN options \ {"repeat", "show_help"} :
               options'[field] = options[field]
        /\ options'.repeat = (options.repeat \/ arguments[index] = "--repeat")
        /\ options'.show_help = (options.show_help \/ arguments[index] \in HelpOptions)
    BY <1>3
  <1>0. PICK longer : longer = starts \cup {index}
    OBVIOUS
  <1>5. longer \in SUBSET (1 .. (index' - 1))
    BY <1>0, <1>2
  <1>6. TilesPrefix(longer, index - 1)'
    <2>1. TilesPrefix(longer, index)
      <3>1. /\ index - 1 \in Nat /\ (index - 1) + 1 = index
            /\ TilesPrefix(starts, index - 1)
            /\ index - 1 \in starts => arguments[index - 1] \in Flags
        BY <1>1, <1>2 DEF Consumed
      <3> QED
        BY <1>0, <1>2, <3>1, FlagExtends
    <2>2. index' - 1 = index
      BY <1>2
    <2> QED
      BY <1>2, <2>1, <2>2 DEF TilesPrefix
  <1>7. OptionsFollow(longer)'
    <2>1. ASSUME NEW option \in ValueOptions
          PROVE  options'[FieldOf(option)] = Given(longer, option)
      <3>1. arguments[index] # option
        BY <1>2, FlagsTakeNoValue
      <3>2. Given(longer, option) = Given(starts, option)
        BY <1>0, <3>1, OthersGiven
      <3>3. options[FieldOf(option)] = Given(starts, option)
        BY <1>1 DEF Consumed, OptionsFollow
      <3>4. FieldOf(option) \in DOMAIN options \ {"repeat", "show_help"}
        BY <1>3, Fields
      <3> QED
        BY <1>4, <3>2, <3>3, <3>4
    <2>2. options'.repeat <=> \E i \in longer : arguments[i] = "--repeat"
      <3>1. options.repeat <=> \E i \in starts : arguments[i] = "--repeat"
        BY <1>1 DEF Consumed, OptionsFollow
      <3> QED
        BY <1>0, <1>4, <3>1
    <2>3. options'.show_help <=> \E i \in longer : arguments[i] \in HelpOptions
      <3>1. options.show_help <=> \E i \in starts : arguments[i] \in HelpOptions
        BY <1>1 DEF Consumed, OptionsFollow
      <3> QED
        BY <1>0, <1>4, <3>1
    <2> QED
      BY <1>2, <2>1, <2>2, <2>3, ReadingsStay DEF OptionsFollow
  <1>8. ASSUME NEW reading \in Readings
        PROVE  /\ reading \cap (1 .. index) = longer
               /\ index + 1 <= Len(arguments) => index + 1 \in reading
    <2>1. index \in reading
      BY ReadingGoesOn DEF ParseFlag
    <2>2. reading \cap (1 .. (index - 1)) = starts
      BY <1>1 DEF Consumed
    <2>3. Tiles(reading)
      BY DEF Readings
    <2>4. ASSUME index + 1 <= Len(arguments), index + 1 \notin reading PROVE FALSE
      <3>1. index + 1 \in 1 .. Len(arguments) /\ (index + 1) - 1 = index
        BY <1>2, <2>4
      <3>2. arguments[index] \in ValueOptions
        BY <2>3, <2>4, <3>1 DEF Tiles, TilesPrefix
      <3> QED
        BY <1>2, <3>2, FlagsTakeNoValue
    <2> QED
      BY <1>0, <1>2, <2>1, <2>2, <2>4
  <1>9. Consumed(longer)'
    <2>1. index' - 1 = index
      BY <1>2
    <2>2. index' - 1 \in longer => arguments'[index' - 1] \in Flags
      BY <1>2, <2>1
    <2>3. \A reading \in Readings' :
              /\ reading \cap (1 .. (index' - 1)) = longer
              /\ index' <= Len(arguments') => index' \in reading
      BY <1>2, <1>8, <2>1, ReadingsStay
    <2> QED
      BY <1>6, <1>7, <2>2, <2>3 DEF Consumed
  <1> QED
    BY <1>2, <1>3, <1>4, <1>5, <1>9, ReadingsStay DEF IInv

LEMMA ParseValueKeepsIInv == ASSUME IInv, ParseValue PROVE IInv'
  <1>1. PICK starts \in SUBSET (1 .. (index - 1)) : Consumed(starts)
    BY DEF IInv
  <1>2. /\ index \in 1 .. Len(arguments) /\ Len(arguments) \in Nat
        /\ index < Len(arguments)
        /\ arguments[index] \in ValueOptions
        /\ Accepts(arguments[index], arguments[index + 1])
        /\ index' = index + 2
        /\ UNCHANGED <<arguments, status>>
        /\ status = "parsing"
    BY DEF IInv, ParseValue, More, argument
  <1>3. PICK value : value = Read(arguments[index], arguments[index + 1])
    OBVIOUS
  <1>4. /\ DOMAIN options' = DOMAIN options
        /\ options'[FieldOf(arguments[index])] = value
        /\ \A field \in DOMAIN options \ {FieldOf(arguments[index])} :
               options'[field] = options[field]
    <2>1. FieldOf(arguments[index]) \in DOMAIN options
      BY <1>2, Fields, OptionFields DEF IInv
    <2>2. options' = [options EXCEPT ![FieldOf(arguments[index])] = value]
      BY <1>3 DEF ParseValue, argument
    <2> QED
      BY <2>1, <2>2
  <1>5. PICK longer : longer = starts \cup {index}
    OBVIOUS
  <1>6. longer \in SUBSET (1 .. (index' - 1))
    BY <1>2, <1>5
  <1>7. TilesPrefix(longer, index - 1)'
    <2>1. TilesPrefix(longer, index + 1)
      <3>1. /\ index - 1 \in Nat /\ (index - 1) + 1 = index /\ (index - 1) + 2 = index + 1
            /\ TilesPrefix(starts, index - 1)
            /\ index - 1 \in starts => arguments[index - 1] \in Flags
        BY <1>1, <1>2 DEF Consumed
      <3> QED
        BY <1>2, <1>5, <3>1, ValueExtends
    <2>2. index' - 1 = index + 1
      BY <1>2
    <2> QED
      BY <1>2, <2>1, <2>2 DEF TilesPrefix
  <1>8. OptionsFollow(longer)'
    <2>1. ASSUME NEW option \in ValueOptions
          PROVE  options'[FieldOf(option)] = Given(longer, option)
      <3>1. CASE option = arguments[index]
        <4>1. /\ index - 1 \in Nat /\ index \in Nat /\ index > index - 1
              /\ 1 + index = index + 1
          BY <1>2
        <4>2. Given(longer, arguments[index]) = value
          BY <1>3, <1>5, <4>1, LastGiven
        <4> QED
          BY <1>4, <3>1, <4>2
      <3>2. CASE option # arguments[index]
        <4>1. Given(longer, option) = Given(starts, option)
          BY <1>5, <3>2, OthersGiven
        <4>2. options[FieldOf(option)] = Given(starts, option)
          BY <1>1 DEF Consumed, OptionsFollow
        <4>3. /\ FieldOf(option) \in DOMAIN options
              /\ FieldOf(option) # FieldOf(arguments[index])
          BY <1>2, <3>2, Fields, OptionFields DEF IInv
        <4> QED
          BY <1>4, <4>1, <4>2, <4>3
      <3> QED
        BY <3>1, <3>2
    <2>2. /\ "repeat" \in DOMAIN options /\ "show_help" \in DOMAIN options
          /\ FieldOf(arguments[index]) \notin {"repeat", "show_help"}
      BY <1>2, Fields, OptionFields DEF IInv
    <2>3. options'.repeat = options.repeat /\ options'.show_help = options.show_help
      BY <1>4, <2>2
    <2>4. arguments[index] # "--repeat" /\ arguments[index] \notin HelpOptions
      BY <1>2, FlagsTakeNoValue DEF Flags
    <2>5. options'.repeat <=> \E i \in longer : arguments[i] = "--repeat"
      <3>1. options.repeat <=> \E i \in starts : arguments[i] = "--repeat"
        BY <1>1 DEF Consumed, OptionsFollow
      <3> QED
        BY <1>5, <2>3, <2>4, <3>1
    <2>6. options'.show_help <=> \E i \in longer : arguments[i] \in HelpOptions
      <3>1. options.show_help <=> \E i \in starts : arguments[i] \in HelpOptions
        BY <1>1 DEF Consumed, OptionsFollow
      <3> QED
        BY <1>5, <2>3, <2>4, <3>1
    <2> QED
      BY <1>2, <2>1, <2>5, <2>6, ReadingsStay DEF OptionsFollow
  <1>9. ASSUME NEW reading \in Readings
        PROVE  /\ reading \cap (1 .. (index + 1)) = longer
               /\ index + 2 <= Len(arguments) => index + 2 \in reading
    <2>1. index \in reading /\ index + 1 \notin reading
      BY <1>2, ReadingGoesOn, FlagsTakeNoValue DEF ParseValue, argument
    <2>2. reading \cap (1 .. (index - 1)) = starts
      BY <1>1 DEF Consumed
    <2>3. Tiles(reading)
      BY DEF Readings
    <2>4. ASSUME index + 2 <= Len(arguments), index + 2 \notin reading PROVE FALSE
      <3>1. index + 2 \in 1 .. Len(arguments) /\ (index + 2) - 1 = index + 1
        BY <1>2, <2>4
      <3>2. index + 1 \in reading
        BY <2>3, <2>4, <3>1 DEF Tiles, TilesPrefix
      <3> QED
        BY <2>1, <3>2
    <2>5. reading \cap (1 .. (index + 1)) = longer
      <3>1. 1 .. (index + 1) = (1 .. (index - 1)) \cup {index, index + 1}
        BY <1>2
      <3> QED
        BY <1>5, <2>1, <2>2, <3>1
    <2> QED
      BY <2>4, <2>5
  <1>10. Consumed(longer)'
    <2>1. index' - 1 = index + 1 /\ index + 1 \notin longer
      BY <1>2, <1>5
    <2>2. index' - 1 \in longer => arguments'[index' - 1] \in Flags
      BY <2>1
    <2>3. \A reading \in Readings' :
              /\ reading \cap (1 .. (index' - 1)) = longer
              /\ index' <= Len(arguments') => index' \in reading
      BY <1>2, <1>9, <2>1, ReadingsStay
    <2> QED
      BY <1>7, <1>8, <2>2, <2>3 DEF Consumed
  <1>11. options'.scenario_count \in Nat \ {0} /\ options'.thread_count \in Nat \ {0}
    <2>1. arguments[index] \in {"--scenarios", "--threads"} => value \in Nat \ {0}
      BY <1>2, <1>3, AcceptedCounts
    <2>2. /\ options.scenario_count \in Nat \ {0} /\ options.thread_count \in Nat \ {0}
          /\ {"scenario_count", "thread_count"} \subseteq DOMAIN options
      BY OptionFields DEF IInv
    <2>3. /\ FieldOf(arguments[index]) = "scenario_count" => arguments[index] = "--scenarios"
          /\ FieldOf(arguments[index]) = "thread_count" => arguments[index] = "--threads"
      BY <1>2, Fields DEF ValueOptions, NumericOptions
    <2>4. options'.scenario_count \in Nat \ {0}
      BY <1>4, <2>1, <2>2, <2>3
    <2>5. options'.thread_count \in Nat \ {0}
      BY <1>4, <2>1, <2>2, <2>3
    <2> QED
      BY <2>4, <2>5
  <1>12. index' \in 1 .. Len(arguments') + 1 /\ status' = "parsing"
    BY <1>2
  <1>13. arguments' \in Seq(Arguments) /\ DOMAIN options' = DOMAIN DefaultOptions'
    BY <1>2, <1>4 DEF IInv, DefaultOptions
  <1> QED
    BY <1>6, <1>10, <1>11, <1>12, <1>13 DEF IInv

\* What follows the flags and options consumed does not change.
LEMMA ConsumedStays ==
    ASSUME UNCHANGED <<arguments, index, options>>
    PROVE  \A starts : Consumed(starts)' = Consumed(starts)
  BY ReadingsStay DEF Consumed, OptionsFollow, TilesPrefix

\* An exception is thrown only where no reading goes on.
LEMMA RejectKeepsIInv == ASSUME IInv, Reject PROVE IInv'
  <1>1. /\ status' = "invalid_argument"
        /\ UNCHANGED <<arguments, index, options>>
    BY DEF Reject
  <1>2. Readings = {}
    <2> SUFFICES ASSUME NEW reading \in Readings PROVE FALSE
      OBVIOUS
    <2>1. \/ argument \in Flags
          \/ /\ argument \in ValueOptions
             /\ index < Len(arguments)
             /\ Accepts(argument, arguments[index + 1])
      BY ReadingGoesOn DEF Reject
    <2>2. index \in Int /\ Len(arguments) \in Int
      BY DEF IInv
    <2> QED
      BY <2>1, <2>2, FlagsTakeNoValue DEF Reject
  <1>3. Readings' = {}
    BY <1>1, <1>2, ReadingsStay
  <1> QED
    BY <1>1, <1>3, ConsumedStays DEF IInv

LEMMA ReturnOptionsKeepsIInv == ASSUME IInv, ReturnOptions PROVE IInv'
  <1>1. /\ status' = "parsed" /\ index > Len(arguments)
        /\ UNCHANGED <<arguments, index, options>>
    BY DEF ReturnOptions
  <1>2. index = Len(arguments) + 1
    BY <1>1 DEF IInv
  <1> QED
    BY <1>1, <1>2, ConsumedStays DEF IInv

\* The loop follows the only way the command line can be read.
THEOREM Invariance == Spec => []IInv
  <1>1. Init => IInv
    BY InitHolds
  <1>2. IInv /\ [Next]_vars => IInv'
    <2> SUFFICES ASSUME IInv, [Next]_vars PROVE IInv'
      OBVIOUS
    <2>1. CASE Next
      BY <2>1, ParseFlagKeepsIInv, ParseValueKeepsIInv, RejectKeepsIInv,
         ReturnOptionsKeepsIInv DEF Next
    <2>2. CASE UNCHANGED vars
      <3>1. UNCHANGED <<arguments, index, options, status>>
        BY <2>2 DEF vars
      <3> QED
        BY <3>1, ConsumedStays, ReadingsStay DEF IInv
    <2> QED
      BY <2>1, <2>2
  <1> QED
    BY <1>1, <1>2, PTL DEF Spec

\* parseOptions accepts exactly the command lines that can be read as flags and
\* options with legal values, and returns the last value of each option and
\* every flag.
THEOREM CommandLinesParsed == Spec => []ParsesCommandLine
  <1>1. IInv => ParsesCommandLine
    <2> SUFFICES ASSUME IInv, status # "parsing" PROVE ParsesCommandLine
      BY DEF ParsesCommandLine
    <2>1. CASE status = "invalid_argument"
      BY <2>1 DEF IInv, ParsesCommandLine
    <2>2. CASE status = "parsed"
      <3>1. PICK starts \in SUBSET (1 .. (index - 1)) : Consumed(starts)
        BY DEF IInv
      <3>2. index - 1 = Len(arguments) /\ DOMAIN arguments = 1 .. Len(arguments)
        BY <2>2 DEF IInv
      <3>3. starts \in Readings
        BY <3>1, <3>2 DEF Consumed, Readings, Tiles
      <3>4. ASSUME NEW reading \in Readings PROVE OptionsFollow(reading)
        <4>1. reading = starts
          BY <3>1, <3>2 DEF Consumed, Readings
        <4> QED
          BY <3>1, <4>1 DEF Consumed
      <3> QED
        BY <2>2, <3>3, <3>4 DEF ParsesCommandLine
    <2> QED
      BY <2>1, <2>2 DEF IInv
  <1> QED
    BY <1>1, Invariance, PTL

\* Neither count that parseOptions returns is zero, the default number of
\* threads included.
THEOREM UsableOptions == Spec => []OptionsAreUsable
  <1>1. IInv => OptionsAreUsable
    BY DEF IInv, OptionsAreUsable
  <1> QED
    BY <1>1, Invariance, PTL
================================================================================
