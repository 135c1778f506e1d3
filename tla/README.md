# HTPSTE in TLA+

TLA+ models of the High-Throughput Portfolio Stress Testing Engine, the TLC
configurations that check them, and TLAPS proofs about them. Paths below are
relative to the root of the repository; `generator.cpp` stands for
`src/scenarios/monte_carlo_scenario_generator.cpp`.

## 1. The system

One process (`apps/main.cpp`) reads its options, loads a market model from a
JSON file, and runs one job, or one after the other until SIGINT or SIGTERM.
A job generates Monte Carlo scenarios on several threads, reprices a portfolio
under each of them and prints risk figures.

    main ── parseOptions ── MarketModelLoader ─> MarketModel ─> MarketState, Portfolio
      │                                              └────────> MonteCarloScenarioGenerator
      └─ runJob (per job) ── generate ── workers (std::jthread), shared buffers
                          └─ SimulationEngine::run ── validateSimulationInputs
                                                   ── PortfolioValuator::value
                                                   ── ScenarioRepricer::reprice (per scenario)
                                                   └─ RiskCalculator::calculate

| component | state | operations | what makes it correct |
|---|---|---|---|
| Scenario generator (`generator.cpp`) | the model and its Cholesky factor; during a call two buffers shared with workers | `generate` | no race, no dangling buffer, the same result for every thread count, all or nothing, the call ends |
| Job loop (`main.cpp:232-311`) | the stop flag, the job index | `main`, `runJob`, `handleSignal` | a stop is prompt and not lost, the exit status is honest, jobs use different streams |
| Command line (`main.cpp:29-144`) | the options | `parseOptions` | it accepts what it should, and only options the rest can work with |
| Validator (`simulation_validator.cpp`) | none | `validateSimulationInputs` | nothing it accepts is found invalid later |
| Valuation and repricing (`src/pricing`) | none | `value`, `reprice` | sums reconcile, nothing infinite gets through |
| Risk calculator (`risk_metrics.cpp`) | none | `calculate` | VaR is the quantile, CVaR the tail mean, the worst scenarios are the worst |
| Engine (`simulation_engine.cpp`) | the report under construction | `run` | the report is consistent across the phases |
| Positions, market state, scenarios (`src/domain`, `scenario.cpp`) | immutable values; a portfolio grows | constructors, lookups, `addPosition` | only legal values exist |
| Market model and loader (`src/market`) | immutable values | constructor, `load`, `loadFromFile` | the model is the one the file states, and is never rejected downstream |
| Deterministic scenarios (`deterministic_scenarios.cpp`) | six constant tables, used by tests and by programs that link the library | constructors | they cover one universe, hide no line, agree with each other |
| `python/download_assets.py` | the market model file | downloads prices, estimates the model, replaces the file | what it writes can be loaded, and describes one-day returns; a failure does not cost the old file |

What is hard to test here: the interleavings of workers that write one vector
without a lock; a thread that cannot be started while others run; several
failures at once; a signal at any point, also before its handler is installed;
a job seed that wraps around; ranks, ties and overflow at their boundaries;
an input that is invalid in one scenario of many; a document that is malformed in
one field after others were read; a signal handler that runs on a worker thread;
a file that is half written when its writer dies; a day without a price in the
middle of a history. `PROJECT.json` lists each
under `hazards` with its line and the properties that cover it.

## 2. Modules

| module | models | checked by | proofs |
|---|---|---|---|
| `ScenarioRanges` | the split of the ids among workers | (used below) | `ArithmeticProofs` |
| `RandomStreams` | job seeds and the words that seed a scenario's stream | (used below) | `JobLoopProofs` |
| `GenerationContract` | what `generate` promises, without threads | through the refinement | `ProcessProofs` |
| `ScenarioGenerator` | `generate` with its threads and exceptions | `MCScenarioGenerator` | `ProcessProofs` |
| `JobLoop` | `main`, `runJob`, `handleSignal` | `MCJobLoop` | `JobLoopProofs` |
| `Process` | the job loop, the generator's threads in each job, and handlers on any of them | `MCProcess` | `ProcessProofs` |
| `CommandLine` | `parseOptions` | `MCCommandLine` | `CommandLineProofs` |
| `Doubles` | finite values and infinity (external: IEEE 754) | (used below) | (used below) |
| `PowersOfTwo` | the powers of 2 that scale a significand | (used below) | `ArithmeticProofs` |
| `RiskMetrics` | `calculate` as a function | (used below) | `RiskCalculatorProofs` |
| `RiskCalculator` | one call of it with any arguments | `MCRiskCalculator` | `RiskCalculatorProofs` |
| `Domain`, `Pricing` | constructors, lookups, valuation, repricing | (used below) | `SimulationEngineProofs` |
| `MarketModel` | what the constructor of a market model accepts | (used below) | `StartupProofs` |
| `SimulationValidator` | what the validator accepts | (used below) | `StartupProofs`, `SimulationEngineProofs` |
| `Startup` | the loader, `main` up to the loop, the constructor of the generator, the first scenario and the validator | `MCStartup` | `StartupProofs` |
| `SimulationEngine` | a caller of `run`, and `run` phase by phase | `MCSimulationEngine` | `SimulationEngineProofs` |
| `DeterministicScenarios` | the six historical scenarios and a caller that stresses a portfolio with them | `MCDeterministicScenarios` | `SimulationEngineProofs` |
| `DownloadAssets` | the script that estimates and writes the market model | `MCDownloadAssets` | `DownloadAssetsProofs` |

### ScenarioGenerator

`main` is the position of the calling thread, `worker[w]` and `next[w]` those
of the workers. `generated_shocks` and `worker_exceptions` are the vectors of
the same name. A price shock map is identified with the four words that seed
its random engine (`SeedWords`): everything from `std::seed_seq` to `expm1` is
a deterministic function of them and of the immutable model. Whether a draw
overflows is therefore fixed by the request (`nonfinite`), and not chosen when a
worker gets there; that is what makes "independent of the thread count"
meaningful for failures too. `StepsLeft` is what a call has not done yet: the phases to
come, the ids whose iteration is not over, the threads to start, to end and to join.

One iteration of a worker's loop is one step: it reads only immutable data and
its effect is one write to a slot no one else uses (`NoSlotRace`, which the
property establishes from the ids in progress, not from the atomicity). The
single-worker case, a plain call, follows the same actions: the caller is
blocked until the only worker has ended. Starting a thread, joining one, the
destruction of the thread vector, the rethrow and the move into the result are
steps of their own. `std::bad_alloc` is possible at each allocation,
`std::length_error` at the sizing of the vectors, `std::system_error` at each
thread start.

The seed is an argument of the call like the thread count and the number of
scenarios; it is a variable because a process calls `generate` with another seed
in each job.

`GenerationContract` has no threads: from a request, in one step, to all of the
scenarios or to one exception that this request allows. `ImplementsContract`
checks the refinement with the outcome of the call as `result`.

### JobLoop

`pc` is the next statement. `jobs_at_stop` is a history variable: the number of
jobs reported when the flag was first set. Loading, generating and simulating
either go on or throw something `main` catches. `HandleSignal` sets the flag,
`DieOfSignal` is the default action as long as a handler is missing. With the C
library of the Docker image `std::signal` leaves a handler installed after it
has run, so there is no third case. Output is not modelled beyond which jobs
were reported; writing to `std::cout` does not throw here.

### Process

The composition: `Process` extends `ScenarioGenerator`, whose variables hold the
call of `generate` that is under way, and instantiates `JobLoop` for the
variables of `main`. Where `JobLoop` has one step for the generation of a job,
`Process` starts the call with the job's seed (`BeginGenerate`,
`CallGenerate`), runs the steps of the calling thread and of the workers
(`InGenerate`, `InWorker`) and goes on with what the call returned or threw
(`EndGenerate`). Threads are the main thread and the workers that have been started
and not joined. A signal is delivered to any thread that is not in the handler
(`EnterHandler`); the store into the flag and the return from the handler are
steps of their own, during which the interrupted thread does nothing else.
`storing` and `leaving` are the threads in the handler before and after the store.

`ImplementsJobLoop` is the refinement, liveness included: hidden behind one step
of `JobLoop` are all interleavings of a job's threads and handlers, and the call
always comes to its end. `FlagReadRaceFree` says that when the main thread is at a
statement that reads the flag no other thread is in the handler: the flag is a
`volatile std::sig_atomic_t`, which is fit for a handler of the same thread and for
no other. It holds because every worker is joined before `generate` is
left (`WorkersEndFirst`), and breaks as soon as one is not.

### CommandLine

One argument, or an option with its value, per step. Which texts
`std::from_chars` accepts is the constant `NumberOf`. The last occurrence of an
option counts and `--help` is honoured only if the whole line is legal; the
reference reading in `ParsesCommandLine` tiles the line with flags and options
that each own the next argument.

### MarketModel, SimulationValidator, Startup

`phase` is the step that is next. The loader's steps follow `parseMarketModel`
field by field, since an exception at one of them leaves with the type that
step gives it: the JSON library's for an absent field or a wrong element type,
`invalid_argument` for a wrong shape. `Translated` is what the two `catch` clauses
make of it. A document is a function from the names it has to values, or is not
JSON or no object; a number that does not fit a `double` and a text that ends too
early are errors of the JSON parser, so `NotJson`. Afterwards the model passes through
checks that were each written on their own: those of `MarketState`,
`Position`, the second Cholesky decomposition in the generator, `Scenario` and
`validateSimulationInputs`. `Emplaced` is `unordered_map::emplace` in a loop: the
first value of a key stays, which matters only if a symbol can repeat, and the
model keeps that rule. Whether Eigen decomposes a matrix is the operator
constant `Decomposable`, and a shock is any value of `expm1` of at least -1, or
an infinity. The shocks of the first scenario are kept in `relative_shocks`, a
history variable: in the code they go from the vector of log returns into the map
at once, and `PortfolioFollowsModel` compares the map with the rows they were drawn for.

Left out: memory running out in the loader (`loadFromFile` would report it as
`invalid_argument`), text after the JSON value, and fields nothing reads.

### Doubles, RiskMetrics, Domain, Pricing, SimulationEngine

A double is an integer up to `MaxFinite` in magnitude, or an infinity;
arithmetic that does not overflow is exact. So overflow is modelled where the
code tests for it, and the rounding of sums and products of money is not: the
equations of `ReportReconciles` hold of the program up to rounding. The one
rounding that decides between two results is modelled: the product
`confidence_level * n` is rounded to `Precision` bits before `std::ceil`, so that a
product slightly above a whole number may become that number and select the loss
before. `VarIsQuantile` and `CvarIsTailMean` therefore ask for the quantile up to
one rounding error of the product, and for no more. No NaN arises: no operation
of these modules has two infinite operands.

`Throws` gives the exception of the first position that has one, or the
overflow of a sum. `SimulationEngine` includes the construction of the inputs,
because that is where an illegal quantity, price, shock or confidence level is
rejected: `run` never sees one. A result keeps the record of every position,
computed from the valuation and not from the inputs, as in the code; the
properties go back to the inputs. Valuation and repricing test again what the
constructors and the validator have tested: `PositionThrows` has the missing price and
the test of the price in the constructor of `PositionValuation`, `StressedPriceThrows`
the same test in `stressedPriceFor`, `RepricingThrows` the missing shock, each
an `invalid_argument`. That none of them is ever thrown is not assumed but is
`ValidationIsComplete`. One exception is left out: `std::logic_error` in `reprice`
needs a shock that disappears between two lookups of an immutable map; the step has
no such outcome. Model parameters and parameter shifts are read by nothing in the engine
and are left out of these modules, with the timing figures.

### DeterministicScenarios

`ShockTable` holds the shocks of all six constructors, in percent; the six lists
name the instruments in one order, so a row is an instrument. `Listings` are the
arguments of the constructors and `MakePriceShocks` the map made of one, in
which the first of two lines for a symbol stays. `Instruments` is
`instrument_symbols::all`, written down separately: that the tables and the
universe agree is `UniverseIsCovered`. A caller adds positions one at a time,
makes a market state with parameters, constructs the scenarios and runs the
engine (`held`, `quotes`, `historical`, `pnls`); each may throw (`refused_by`).
XOM, JNJ and WMT, which the download script asks for, are not in the universe, so
that a portfolio of a downloaded model cannot be stressed with these scenarios: the
validator rejects it, as the run shows for XOM.

### DownloadAssets

One step per statement of `main` and `writeMarketModel`. Prices are powers of 2 and
logarithms to base 2, and mean and covariance are multiplied by `n` and
`n * (n - 1)` for `n` returns: integers, with the same sign and the same
definiteness. `LogReturns` takes differences of adjacent rows first and drops
incomplete ones afterwards. `ReturnsAreDaily` compares with the maximal stretches of
complete days, over which returns telescope. `Torn` is a proper prefix of a
document, which no JSON parser accepts; for the loader it is `NotJson`, in `Startup`.
`Kill` may strike anywhere, `OutputFails` from the opening of the file on, and
`RunAgain` starts the script over whatever file is left. `Decomposable` is one predicate
for numpy and Eigen: that they agree on matrices close to singular is assumed.
The symmetrisation of the covariance corrects rounding, and does nothing here.

## 3. Runs

| run | question | bounds | distinct states |
|---|---|---|---|
| `generator` | `generate` in every interleaving | 0-5 scenarios, 0-3 threads, every set of overflowing ids, words of 3 values, seed 7 | 21,104 |
| `job_loop` | signals and failures against the loop | words of 2 values (4 seeds), seeds 0 and 3, 3 scenarios, at most 4 jobs | 232 |
| `process` | the loop, the threads of its jobs and handlers on any thread | 2 jobs of 2 or 3 scenarios, 1-3 threads, at most 2 signals, words of 2 values, seed 3 | 159,312 |
| `risk_metrics` | VaR, CVaR, worst scenarios against definitions without sorting | up to 4 results with 4 values, 7 confidence levels, 4-bit products, 3 list lengths; no overflow | 14,322 |
| `risk_overflow` | the same with sums that overflow: expected to fail | as above, largest double 3 | |
| `engine` | validation, valuation, repricing and risk together | 2 symbols, up to 2 positions and 2 scenarios, valid and invalid, largest double 12 | 1,383,722 |
| `command_line` | `parseOptions` against a declarative reading | every line of up to 4 arguments from 9 | 18,890 |
| `stress` | the six historical scenarios on any portfolio | up to 2 positions in 21 instruments, XOM and a blank symbol, quantities 0, 2, -3, 3 price maps | 59,475 |
| `download` | the script, its failures and restarts | 2 tickers, up to 6 days, each of 5 kinds; wrong prices on 2 days; 2 runs | 143,518 |
| `startup` | a file, stream or values up to the first simulation | 54,509 sources: each field absent, of a wrong type, or one of its values, independently; up to 2 assets | 255,762 |

Why these are enough. Three workers and five scenarios give ranges of equal and
unequal length, a remainder of 0, 1 and 2, more threads than scenarios, a
failed start after 0, 1 and 2 started threads, two failed workers with a third
in between; the proofs take over beyond. Four jobs with four seeds visit each
seed once and wrap around from seed 3. Four results contain every pattern of
ties, and the levels 1/4, 1/2, 11/16 and 15/16 meet exact and inexact ranks, the first
and the last loss; with products of 4 bits, 3 * 11/16 = 2 + 1/16 is rounded to 2, which
changes the rank. In the engine, two positions on one symbol and on two, long
and short, show hedges and repeated symbols; with 12 as the largest double
single products, single sums and only the sums of several positions overflow.
A command line of four arguments holds an option taken for a value followed by
another option, or one option twice. In the start-up every field varies
independently of the others over absence, every wrong type, and lengths that fit
and do not fit; two assets give a repeated symbol, a blank one behind a legal
one, one bad price behind a good one, and asymmetric, indefinite and slightly
asymmetric matrices (the tolerance is 1/2, so that an asymmetry of 1 passes
beside an entry of 2). Two jobs with seed 3 of 4 let the second job wrap around; two
signals let a handler interrupt a worker while another is in the handler on the
main thread, and a second signal arrive after the first was stored. Two positions
hold the fund and its index together. With two tickers three returns are needed,
so six days are the least that keep enough returns around a gap in the middle, and the
five kinds of days are flat, up in one ticker or the other, with one price
missing and with both.

`CHECK_DEADLOCK FALSE` is set in all runs because each models one call or one
process, which ends. `GenerateTerminates` and `StopEndsProcess` say that it does.

Safety properties:

- `BuffersOutliveWorkers`: while a worker runs, the caller has not left the
  scope of the buffers, thread starts that fail included.
- `NoSlotRace`: no two workers have written or are writing one slot.
- `FailureIsSequential`: the exception rethrown is the one generating the ids
  in order would have met.
- `NoStepRepeats`: every step of a call takes something off what was left to do and adds
  nothing to it; no id is generated twice, by one worker or by two.
- `ImplementsContract`: the scenarios depend on count and seed alone, and a call
  delivers all of them or an exception that fits the request.
- `StopIsPrompt`, `SuccessIsReported`, `StreamsDistinct`: at most one more job
  after a stop; status 0 means a reported job or a requested stop; no two
  scenarios that a process reports, of one job or of two, share a stream.
- `FlagReadRaceFree`, `WorkersEndFirst`: the flag is read only when no other thread
  is in the handler; no thread of a job outlives the call that started it.
- `JobUsesOwnStreams`, `ProcessInv`: the scenarios of a job come from the job's own
  seed; the loop's position and the generator's agree.
- `ImplementsJobLoop`: the process with its threads implements the loop in which a
  job's generation is one step.
- `UniverseIsCovered`, `EveryLineCounts`, `FundFollowsIndex`: no scenario refuses an
  instrument of the universe or hides a line of its list; the fund on an index moves
  with it.
- `WrittenModelIsValid`, `FileIsReplacedByModel`, `ReturnsAreDaily`: a file that is a
  document is a valid model; the old file is given up only for a new model; returns
  and prices describe the complete days of the history.
- `ValidationIsComplete`: after the validator only `overflow_error` is thrown: no lookup
  fails, and none of the tests that valuation and repricing make once more.
- `ReportReconciles`, `RiskMatchesResults`, `LongLossBounded`: the parts of a
  report agree; the worst scenario bounds VaR; long positions lose at most their value.
- `LoaderIsFaithful`: the loader accepts exactly the documents that state a valid
  model, delivers that model, and throws `invalid_argument` otherwise,
  or `runtime_error` for a file it cannot open.
- `AcceptedModelIsUsable`: once the model is accepted, nothing is thrown but the
  overflow of a draw.
- `PortfolioFollowsModel`: each asset has one position, valued at the price of its own
  row and stressed by the shock drawn for that row.
- `VarIsQuantile`, `CvarIsTailMean`, `WorstAreWorst`: the metrics are what their names
  say, with any ties.
- `ParsesCommandLine`, `OptionsAreUsable`: a line is accepted if and only if it has a
  reading, which is the one acted upon; nobody divides by a count of 0 afterwards.
- `IInv`, in the runs of the components that have one: the inductive invariant of the proofs
  (section 4). TLC checks it so that a proof attempt never starts from a wrong one. In
  `generator`, `job_loop` and `engine` it contains `TypeOK`, in `startup` and
  `download` other properties. `StressInv` is that of `stress`.

Fairness. `ScenarioGenerator` assumes `WF_vars(Next)`: some thread that can run
does. No thread is favoured, and no more is needed, because no step can be repeated
(`NoStepRepeats`, proved in general): whichever threads run, they run out of steps. `JobLoop` assumes `WF_vars(MainStep)`: the process is not suspended
for ever. Nothing is assumed of signals; a handler may run any number of times.
In `JobLoop` a job is a few steps, so `StopEndsProcess` rests on `generate`
ending, which the generator's run checks. `Process` assumes weak fairness of
`Progress`, the steps of the threads and of handlers under way, and of no
single thread: none can step for ever while another waits. The number of signals is
bounded there by `MaxSignals`; a flood of signals that never lets a thread go
on is excluded with it.

The finding. `RiskCalculator::calculate` adds up the tail before it divides
and does not test the sum (`risk_metrics.cpp:100`), unlike the sums of a valuation
(`portfolio_valuation.cpp:60`) and of a scenario result (`scenario_repricing.cpp:75`).
When finite losses exceed the largest double together, CVaR is
infinite, while the mean that `risk_metrics.hpp:54` promises is finite.
`risk_overflow` shows two losses that do it. (`grossExposure()`, at
`portfolio_valuation.cpp:90`, adds two finite exposures without a test as well; it is
an accessor for programs that link the library, computes its sum when asked, and is not
modelled.)

## 4. Proofs

All are checked by TLAPS, from the definitions TLC runs on. Every parameter is
arbitrary but for the assumptions stated next to it in the module that declares
it, which TLC evaluates in the runs:

- numbers: the base of words is positive, seeds are 64-bit values, scenario count and job
  bound at most 2^64; the largest double and the bits of a significand are positive
  (the largest double at least 100 in `Startup`, whose demonstration portfolio holds that
  many, and in `DeterministicScenarios`, whose shocks are in percent); a number of scenarios is at most 2^`Precision`, so that its conversion to a
  `double` is exact; a confidence level is a fraction; `Log` of a finite positive
  price is an integer, NaN is not one, and shocks are at least -1;
- shapes: argument lists, portfolios, lists of scenarios and of values in a document are
  finite sequences, a download has finitely many days; the name of a Monte Carlo
  scenario is not blank, nor is the name of a historical scenario, a symbol of the universe or the symbol of a
  ticker, and no two tickers have the same;
- states: what is in the market model's place before the script's first run is nothing, a
  torn file or a valid model.

**`ArithmeticProofs`** holds what the others cite. For every number of scenarios
and workers the ranges are disjoint, cover all ids and differ by at most one in
length: an id is placed by comparing it with the first `(n % k) * (n \div k + 1)`
ids, which the longer ranges hold. About the operators the models are built from:
the folds over finite sets are sums, whatever the order of the elements; every
finite sequence can be sorted (so the `CHOOSE` in `Sorted` chooses a permutation);
powers of 2; a quotient that is rounded to nearest is off by at most one half, and does not
pass a whole number that is at least as large.

**`ProcessProofs`**, the generator. `IInv` of `ScenarioGenerator` is inductive, and
`TypeOK`, `BuffersOutliveWorkers`, `NoSlotRace` and `FailureIsSequential` follow.
`BuffersOutliveWorkers` alone is not inductive: it needs that the caller
leaves the join only when as many workers are joined as started (`PhaseInv`)
and that a joined worker is finished (`WorkerInv`). `NoSlotRace` follows from the
ranges' disjointness. `ContractSafety` is the safety part of the refinement: each
step is a step of the contract or a stutter; `SlotInv` gives that the slots hold
what the contract returns, and coverage of the ranges that all do.

`StepsCount` proves `NoStepRepeats`: that a worker passes an id no worker has passed is the
disjointness of the ranges again, and that a thread starts, ends and is joined once is what
`PhaseInv` and `WorkerInv` say of the counts. `CallIsBounded` draws the conclusion: at most
`4 + scenario_count + 3 * worker_count` steps are left at the beginning of a call, and
each step leaves fewer, so the call cannot go on for ever. Nor can it stand still before its
end: `NobodyWaitsInVain` says that in every state before that the guard of some step holds.
From the two `GenerateTerminates` would follow, but that an action is enabled where its
guard holds, and taken under fairness, is out of the prover's reach, and so it stays with TLC.

The same module then composes. `ProcessInv` adds to `IInv` that the call uses the seed of
the job, that `main` goes on only if it returned, with all the scenarios of that seed, and
that every thread is joined outside of it (`CallInv`); that both signals have their
handler once the loop is entered (`HandlersInv`), since a signal without one would end the
process in the middle of a call; and that only threads that exist are in a handler. It
is inductive: a step of the generator inside the process is one of the generator's own, so
the lemmas apply as they stand, and `CallGenerate` restores the generator's initial
condition. From it follow `FlagReadRaceFree`, `WorkersEndFirst` and `JobUsesOwnStreams`, and
that the generator's three safety properties hold in every job (`CallsAreSafe`).
`ImplementsJobLoopSafety` is the safety part of `ImplementsJobLoop`, and through it the
theorems of `JobLoopProofs`, instantiated, hold of the whole process (`JobLoopPropertiesHold`).

**`JobLoopProofs`**: `IInv` is inductive and gives `TypeOK`, `StopIsPrompt` and
`SuccessIsReported`. `StreamsDistinct` follows from the seeds reported and from
`SeedWords` being injective on 64-bit seeds and ids, and `JobSeed` on fewer than
2^64 jobs, wrap-around included.

**`CommandLineProofs`**: for lines of any length over any arguments, the line is accepted
if and only if it can be tiled with flags and options, and the options are those
of the tiling (`ParsesCommandLine`, `OptionsAreUsable`). `IInv` says that every reading
of the whole line begins with what the loop has consumed and goes on at `index`
(`Consumed`): no flag is an option with a value, so the loop has no choice, and where it
throws there is no reading.

**`StartupProofs`**: for all documents, tolerances, decompositions and draws. `IInv` has two
parts. `LoaderInv` says that the model under construction is what the document states in the
fields read so far, and that these are legible; it gives `LoaderIsFaithful`. `ProductInv`
says that the accepted model is valid and that market state, portfolio and scenario are
the functions of it that `main` computed; it gives `AcceptedModelIsUsable` and
`PortfolioFollowsModel`. The lemma `EmplacedAt` says that a map built from a row
gives every symbol its own value, be it a price or a shock, which is where the uniqueness
of symbols is used.

**`RiskCalculatorProofs`**: for any number of results with any ties. `VarIsQuantile` rests on
the results up to the VaR observation being the first `VarIndex + 1` of a permutation,
and on the rank being off by the rounding of the product and no more. `WorstAreWorst`
includes stability. For CVaR there are two theorems, because of the finding above.
`CvarIsTailMean` holds in a call whose tail has a finite sum, which the code does not
ensure (`FiniteCvarIsTailMean`); and it holds in all calls where no list of results is long
and large enough to overflow (`CvarIsTheTailMean`, whose hypothesis bounds the P&Ls,
as the run `risk_metrics` does).

**`SimulationEngineProofs`**: for arbitrary portfolios, market states, scenarios and settings.
`IInv` carries what construction and validation have established to the phases
that rely on it, so that `ValidationIsComplete`: after the validator nothing but
`overflow_error` is thrown. The validator gives that every position has a price and, in every
scenario, a shock; that the price passes the two tests made of it again comes from the
constructor of the market state (`PositionsHavePrices`). A sum that was tested for overflow is finite, so it is the
sum of the integers; from there `ReportReconciles` and `LongLossBounded` are
arithmetic over the positions. `RiskMatchesResults` says that the metrics are about the
results in the same report. `ReportedRisk` composes: it instantiates
`RiskCalculatorProofs` for the results of a run, and so what is proved of the
calculator holds of the figures in a report. `VarIndexInBounds` is the bounds check that the code leaves out:
`sorted_losses[var_index]` exists for every valid level, rounding included.

The last section of the module is about `DeterministicScenarios`, which it extends too: the
other program of the library, one that stresses a portfolio with the historical scenarios,
for any symbols, quantities, prices and parameters. The table itself has no parameters, and what is needed of it is stated in five
lemmas, from `TableRows` to `ListingsAreColumns`: a row per instrument, no name twice, shocks
from -85 to 8 percent, the same shocks for the fund as for its index, a list per column.
From these, `MakePriceShocks` keeps every line of a list, so that each scenario is legal and
knows every instrument. `StressInv` says that the scenarios made so far
are the listed ones and the results theirs; `UniverseIsCovered`, `EveryLineCounts` and
`FundFollowsIndex` follow for portfolios of any length.

**`DownloadAssetsProofs`**: whatever Yahoo returns, for any number of days, tickers and runs.
`IInv` follows the file through `open`, `dump` and `close`: it is torn in between, what
was there before until then, and the new model after. `WrittenModelIsValid` and
`FileIsReplacedByModel` follow; that the model is valid needs that the covariance is
symmetric, which follows from how it is computed, and that names and dimensions
agree, which follows from the list of tickers. `ReturnsAreDaily` is proved from the
telescoping of returns over a stretch of complete days, by which the sum and the
number of returns are those of the stretches.

`WrittenFilesAreLoaded` composes the script with the loader: `Startup` is instantiated with
the file in its present state as its source. Whenever that is a document at all, the loader
can read it, what it reads are the members of the model the script built, and the
constructor accepts them; `LegibleDocumentsLoad` of `StartupProofs` says that the loader
throws nothing then. It assumes of the values of JSON that an array is no value of
another type, and of the files there were before the first run that the script wrote them.

Only model-checked:

- liveness, since fairness and `ENABLED` are out of the prover's reach:
  `GenerateTerminates`, `StopEndsProcess`, and the fairness conjuncts that
  `ImplementsContract` and `ImplementsJobLoop` have beside the safety that is proved.

## 5. Not modelled, and what is left

Not modelled: rounding other than that of the rank, and the numerical algebra of
Eigen and numpy; memory running out in the loader; timing and throughput figures,
text formatting; a loader that reads the file while the script rewrites it
(listed under the hazards); what yfinance does; the hash for string views, which is
a pure function without a property of its own; the build, the container and CI.

What could be added: a loader that reads while the script writes, for which the file would
have to be modelled as the prefix that has been flushed; and the rounding of sums, for which
`ReportReconciles` would have to be stated with error bounds. Both need another model, not
another proof about this one.
