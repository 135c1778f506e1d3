----------------------------- MODULE DownloadAssets -----------------------------
(***************************************************************************)
(* The script that builds a market model from downloaded closing prices    *)
(* and writes the file the loader reads.  It may fail or be killed at any  *)
(* point, and be run again.                                                *)
(*                                                                         *)
(* What Yahoo returns is NoData, or a record of the tickers that have a    *)
(* column and of the days: a function from dates to functions from tickers *)
(* to a price or NaN.  Logarithms are rounded to integers.                 *)
(* The mean is kept multiplied by the number n of returns, the covariance  *)
(* by n * (n - 1), so that both are integers.                              *)
(***************************************************************************)
EXTENDS MarketModel

CONSTANTS
    YAHOO_TICKERS,
    ModelSymbol,     \* the symbol of a ticker, "BRK.B" for "BRK-B"
    Downloads,       \* what Yahoo may return to the first run
    LaterDownloads,  \* and to the runs after it
    MaxRuns,
    OldFiles,        \* the files there may be before the first run
    NaN, NoData, NoFile,
    Torn,            \* a file that ends before the end of the document
    Log(_)           \* np.log

ASSUME TickersAssumption ==
    /\ YAHOO_TICKERS \in Seq(DOMAIN ModelSymbol) \ {<<>>}
    /\ \A t \in DOMAIN YAHOO_TICKERS : ModelSymbol[YAHOO_TICKERS[t]] # Blank
    /\ \A t, u \in DOMAIN YAHOO_TICKERS :
          ModelSymbol[YAHOO_TICKERS[t]] = ModelSymbol[YAHOO_TICKERS[u]] => t = u

ASSUME NaNAssumption == NaN \notin Int

ASSUME LogAssumption == \A price \in 1 .. MaxFinite : Log(price) \in Int

ASSUME DownloadsAssumption ==
    \A data \in Downloads \cup LaterDownloads :
        data # NoData => IsFiniteSet(DOMAIN data.days)

\* What is there before the first run was written by an earlier one.
ASSUME OldFilesAssumption ==
    \A old \in OldFiles : old \in {NoFile, Torn} \/ ValidModel(old)

VARIABLES
    phase,     \* the step that is next, "done", "failed" or "killed"
    run,       \* the number of the run
    closes,    \* close_prices: days in order, [date, prices]
    model,     \* what was built in this run
    file,
    before     \* the file when the run started

vars == <<phase, run, closes, model, file, before>>

Nothing == <<>>
Tickers == DOMAIN YAHOO_TICKERS

Init ==
    /\ phase = "download" /\ run = 1
    /\ closes = Nothing /\ model = Nothing
    /\ file \in OldFiles /\ before = file

-----------------------------------------------------------------------------
(* buildMarketModel                                                        *)

\* A day that dropna keeps.
Complete(day) == NaN \notin Range(day.prices)

Observed(days) ==
    (UNION {Range(days[d].prices) : d \in DOMAIN days}) \ {NaN}

\* The rows of complete_prices, and the last of them.
CompletePrices(days) == {d \in DOMAIN days : Complete(days[d])}
Latest(days)         == days[Max(CompletePrices(days))]

\* The difference of a price to that of the row before, NaN if one is missing.
Diff(days, d, t) ==
    IF NaN \in {days[d - 1].prices[t], days[d].prices[t]} THEN NaN
    ELSE Log(days[d].prices[t]) - Log(days[d - 1].prices[t])

\* Mutant of LogReturns: incomplete days are dropped before the differences are
\* taken.
LogReturnsAcrossGaps(days) ==
    LET complete_prices == SelectSeq(days, Complete)
    IN  [d \in 2 .. Len(complete_prices) |->
            [t \in Tickers |-> Diff(complete_prices, d, t)]]

\* log_returns, by the row they end at
LogReturns(days) ==
    [d \in {d \in 2 .. Len(days) : \A t \in Tickers : Diff(days, d, t) # NaN} |->
        [t \in Tickers |-> Diff(days, d, t)]]

Count(returns) == Cardinality(DOMAIN returns)

SumOfReturns(returns, t) ==
    SumFunction([d \in DOMAIN returns |-> returns[d][t]])

SumOfProducts(returns, s, t) ==
    SumFunction([d \in DOMAIN returns |-> returns[d][s] * returns[d][t]])

MeanLogReturns(returns) == [t \in Tickers |-> SumOfReturns(returns, t)]

Covariance(returns) ==
    [s \in Tickers |-> [t \in Tickers |->
        Count(returns) * SumOfProducts(returns, s, t)
            - SumOfReturns(returns, s) * SumOfReturns(returns, t)]]

Finite(mean, covariance) ==
    /\ \A t \in Tickers : IsFinite(mean[t])
    /\ \A s, t \in Tickers : IsFinite(covariance[s][t])

\* Mutant of Estimable: whether the matrix can be decomposed is not tried.
EstimableUntested(days) ==
    /\ Observed(days) # {}
    /\ \A price \in Observed(days) : IsFinite(price) /\ price > 0
    /\ CompletePrices(days) # {}
    /\ Count(LogReturns(days)) > Len(YAHOO_TICKERS)

\* buildMarketModel raises no ValueError.
Estimable(days) ==
    /\ Observed(days) # {}
    /\ \A price \in Observed(days) : IsFinite(price) /\ price > 0
    /\ CompletePrices(days) # {}
    /\ Count(LogReturns(days)) > Len(YAHOO_TICKERS)
    /\ LET covariance == Covariance(LogReturns(days))
       IN  /\ Finite(MeanLogReturns(LogReturns(days)), covariance)
           /\ Decomposable(covariance)

\* What it returns then.
Estimated(days) ==
    [as_of            |-> Latest(days).date,
     symbols          |-> [t \in Tickers |-> ModelSymbol[YAHOO_TICKERS[t]]],
     prices           |-> Latest(days).prices,
     mean_log_returns |-> MeanLogReturns(LogReturns(days)),
     covariance       |-> Covariance(LogReturns(days)),
     observations     |-> Count(LogReturns(days))]

-----------------------------------------------------------------------------
(* The steps of main.                                                      *)

Fail == phase' = "failed" /\ UNCHANGED <<run, closes, model, file, before>>

\* The columns of YAHOO_TICKERS, and sort_index.
SortIndex(days) ==
    LET dates == [d \in 1 .. Cardinality(DOMAIN days) |->
                     CHOOSE date \in DOMAIN days :
                         Cardinality({e \in DOMAIN days : e <= date}) = d]
    IN  [d \in DOMAIN dates |->
            [date   |-> dates[d],
             prices |-> [t \in Tickers |-> days[dates[d]][YAHOO_TICKERS[t]]]]]

\* downloadClosePrices
Download ==
    /\ phase = "download"
    /\ \E data \in IF run = 1 THEN Downloads ELSE LaterDownloads :
          IF data = NoData \/ \E t \in Tickers : YAHOO_TICKERS[t] \notin data.tickers
          THEN Fail
          ELSE /\ closes' = SortIndex(data.days)
               /\ phase' = "build"
               /\ UNCHANGED <<run, model, file, before>>

\* Mutant of Build: the output file is opened first.
BuildIntoOpenFile ==
    /\ phase = "build"
    /\ file' = Torn
    /\ IF Estimable(closes)
       THEN phase' = "open" /\ model' = Estimated(closes)
       ELSE phase' = "failed" /\ UNCHANGED model
    /\ UNCHANGED <<run, closes, before>>

Build ==
    /\ phase = "build"
    /\ IF Estimable(closes)
       THEN /\ model' = Estimated(closes)
            /\ phase' = "open"
            /\ UNCHANGED <<run, closes, file, before>>
       ELSE Fail

\* mkdir and open: the file is empty from now on.
Open ==
    /\ phase = "open"
    /\ file' = Torn
    /\ phase' = "dump"
    /\ UNCHANGED <<run, closes, model, before>>

\* json.dump with allow_nan=False
Dump ==
    /\ phase = "dump"
    /\ IF Finite(model.mean_log_returns, model.covariance)
          /\ \A t \in Tickers : IsFinite(model.prices[t])
       THEN phase' = "close" /\ UNCHANGED <<run, closes, model, file, before>>
       ELSE Fail

\* The end of the with statement, which flushes what was written.
Close ==
    /\ phase = "close"
    /\ file' = model
    /\ phase' = "done"
    /\ UNCHANGED <<run, closes, model, before>>

\* What has reached the file when a step is cut short: in the last step perhaps
\* all but the newline.
Flushed == IF phase = "close" THEN {file, model} ELSE {file}

\* The directory, the file or a write to it fails with an OSError.
OutputFails ==
    /\ phase \in {"open", "dump", "close"}
    /\ phase' = "failed"
    /\ file' \in Flushed
    /\ UNCHANGED <<run, closes, model, before>>

\* The process is killed.
Kill ==
    /\ phase \notin {"done", "failed", "killed"}
    /\ phase' = "killed"
    /\ file' \in Flushed
    /\ UNCHANGED <<run, closes, model, before>>

\* The script is started again, whatever became of it.
RunAgain ==
    /\ phase \in {"done", "failed", "killed"}
    /\ run < MaxRuns
    /\ run' = run + 1
    /\ phase' = "download"
    /\ closes' = Nothing /\ model' = Nothing
    /\ before' = file
    /\ UNCHANGED file

Next ==
    Download \/ Build \/ Open \/ Dump \/ Close \/ OutputFails \/ Kill \/ RunAgain

Spec == Init /\ [][Next]_vars

-----------------------------------------------------------------------------
(* Properties.                                                             *)

\* A file that is a document at all, whenever the engine reads it, is one the
\* constructor of MarketModel accepts: the script checks before it writes what
\* the loader checks.
WrittenModelIsValid == file \notin {NoFile, Torn} => ValidModel(file)

\* The file of an earlier run is given up only for a model that has been built,
\* and a run that succeeds leaves exactly that model, also over what a killed or
\* failed run left behind.
FileIsReplacedByModel ==
    /\ file # before => model # Nothing /\ file \in {Torn, model}
    /\ phase = "done" => file = model

\* The days from a to b have all prices, and the days around them do not.
Stretch(a, b) ==
    /\ \A d \in a .. b : Complete(closes[d])
    /\ a = 1 \/ ~Complete(closes[a - 1])
    /\ b = Len(closes) \/ ~Complete(closes[b + 1])

Stretches == {s \in (DOMAIN closes) \X (DOMAIN closes) : s[1] <= s[2] /\ Stretch(s[1], s[2])}

\* The returns are those of one day, the horizon of the model: they add up to the
\* changes over the stretches of days that have all prices, and a return across
\* a gap counts nowhere.  The prices the simulation starts from are those at the
\* end of the last stretch, and there are more returns than symbols.
ReturnsAreDaily ==
    model # Nothing =>
        /\ \A t \in Tickers :
              model.mean_log_returns[t] =
                  SumFunction([s \in Stretches |->
                      Log(closes[s[2]].prices[t]) - Log(closes[s[1]].prices[t])])
        /\ model.observations = SumFunction([s \in Stretches |-> s[2] - s[1]])
        /\ model.observations > Len(model.symbols)
        /\ \E last \in Stretches :
              /\ \A s \in Stretches : s[2] <= last[2]
              /\ model.as_of = closes[last[2]].date
              /\ model.prices = closes[last[2]].prices

\* The rows of close_prices have a column for each ticker.
IsTable(days) ==
    /\ DOMAIN days = 1 .. Len(days) /\ Len(days) \in Nat
    /\ \A d \in DOMAIN days : days[d].prices \in [Tickers -> Range(days[d].prices)]

\* The inductive invariant behind the three: the file is given up only in the
\* steps that write a model that was built, and what is built is valid and
\* estimated from the prices at hand.
IInv ==
    /\ phase \in {"download", "build"} => file = before /\ model = Nothing
    /\ phase = "build" => IsTable(closes)
    /\ phase \in {"open", "dump", "close", "done"} => model # Nothing
    /\ phase = "open" => file = before
    /\ phase \in {"dump", "close"} => file = Torn
    /\ model # Nothing => ValidModel(model)
    /\ model # Nothing => IsTable(closes) /\ Estimable(closes)
                          /\ model = Estimated(closes)
    /\ WrittenModelIsValid
    /\ FileIsReplacedByModel
=================================================================================
