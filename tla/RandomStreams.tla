----------------------------- MODULE RandomStreams -----------------------------
(***************************************************************************)
(* How the engine derives random streams.  Job number j of a run uses the  *)
(* job seed options.seed + j (main), and generatePriceShocks seeds the     *)
(* generator of one scenario from four 32-bit words: the two halves of the *)
(* job seed and the two halves of the scenario id.  A stream is identified *)
(* with the words that seed it; std::seed_seq, std::mt19937_64 and the     *)
(* normal distribution are deterministic functions of those words.         *)
(***************************************************************************)
EXTENDS Integers

CONSTANT WordBase \* the number of values of std::uint32_t

ASSUME WordBaseAssumption == WordBase \in Nat \ {0}

\* The number of values of std::uint64_t.
WideBase == WordBase * WordBase

\* static_cast<std::uint32_t>(value)
LowWord(x) == x % WordBase

\* static_cast<std::uint32_t>(value >> 32U) of a 64-bit value
HighWord(x) == (x \div WordBase) % WordBase

\* Mutant of SeedWords: the upper half of the scenario id is left out.
SeedWordsShortId(seed, id) ==
    <<LowWord(seed), HighWord(seed), LowWord(id)>>

\* The words handed to std::seed_seq for one scenario of one job.
SeedWords(seed, id) ==
    <<LowWord(seed), HighWord(seed), LowWord(id), HighWord(id)>>

\* Mutant of JobSeed: the sum is not a 64-bit value.
JobSeedWide(base, job) == base + job

\* The seed of a job; unsigned 64-bit addition wraps around.
JobSeed(base, job) == (base + job) % WideBase
===============================================================================
