-------------------------- MODULE DownloadAssetsProofs --------------------------
(***************************************************************************)
(* The file the engine reads, whatever Yahoo returns, however long the     *)
(* table, and wherever the script fails or is killed: it is a valid model  *)
(* whenever it is a document, and is given up only for a model that has    *)
(* been built.  The script checks prices, means and the decomposition;     *)
(* that the covariance is symmetric follows from how it is computed, and   *)
(* that symbols and dimensions agree from the list of tickers.  The loader *)
(* of the engine accepts every such file.                                  *)
(***************************************************************************)
EXTENDS DownloadAssets, ArithmeticProofs, FiniteSetTheorems

-----------------------------------------------------------------------------
(* Numbers and sequences.                                                  *)

\* The tickers are numbered.
LEMMA TickersType ==
    /\ Len(YAHOO_TICKERS) \in Nat \ {0}
    /\ Tickers = 1 .. Len(YAHOO_TICKERS)
  BY TickersAssumption DEF Tickers

-----------------------------------------------------------------------------
(* What buildMarketModel computes.                                         *)

\* A price that was observed and passed the checks.
LEMMA ObservedPrice ==
    ASSUME NEW days, Estimable(days), NEW d \in DOMAIN days,
           NEW t \in DOMAIN days[d].prices, days[d].prices[t] # NaN
    PROVE  IsFinite(days[d].prices[t]) /\ days[d].prices[t] > 0
  <1>1. days[d].prices[t] \in Observed(days)
    BY DEF Observed, Range
  <1> QED
    BY <1>1 DEF Estimable

\* A positive finite price has a logarithm.
LEMMA LogType ==
    ASSUME NEW price, IsFinite(price), price > 0
    PROVE  Log(price) \in Int
  <1>1. price \in 1 .. MaxFinite
    BY MaxFiniteAssumption DEF IsFinite, FiniteValues
  <1> QED
    BY <1>1, LogAssumption

\* A log return is a number.
LEMMA ReturnType ==
    ASSUME NEW days, IsTable(days), Estimable(days),
           NEW d \in DOMAIN LogReturns(days), NEW t \in Tickers
    PROVE  LogReturns(days)[d][t] \in Int
  <1>1. /\ d \in 2 .. Len(days)
        /\ Diff(days, d, t) # NaN
        /\ LogReturns(days)[d][t] = Diff(days, d, t)
    BY DEF LogReturns
  <1>2. d \in DOMAIN days /\ d - 1 \in DOMAIN days
    BY <1>1 DEF IsTable
  <1>3. NaN \notin {days[d - 1].prices[t], days[d].prices[t]}
    BY <1>1 DEF Diff
  <1>4. t \in DOMAIN days[d].prices /\ t \in DOMAIN days[d - 1].prices
    BY <1>2 DEF IsTable
  <1>5. Log(days[d].prices[t]) \in Int
    BY <1>2, <1>3, <1>4, ObservedPrice, LogType
  <1>6. Log(days[d - 1].prices[t]) \in Int
    BY <1>2, <1>3, <1>4, ObservedPrice, LogType
  <1> QED
    BY <1>1, <1>3, <1>5, <1>6 DEF Diff

\* The products of two columns do not depend on the order of the columns.
LEMMA ProductsCommute ==
    ASSUME NEW days, IsTable(days), Estimable(days),
           NEW s \in Tickers, NEW t \in Tickers
    PROVE  SumOfProducts(LogReturns(days), s, t) = SumOfProducts(LogReturns(days), t, s)
  <1> DEFINE returns == LogReturns(days)
             Sum(f)  == SumFunction(f)
  <1>1. \A d \in DOMAIN returns : returns[d][s] * returns[d][t] = returns[d][t] * returns[d][s]
    BY ReturnType
  <1>2. /\ SumOfProducts(returns, s, t) =
              Sum([d \in DOMAIN returns |-> returns[d][s] * returns[d][t]])
        /\ SumOfProducts(returns, t, s) =
              Sum([d \in DOMAIN returns |-> returns[d][t] * returns[d][s]])
    BY DEF SumOfProducts
  <1> HIDE DEF returns, Sum
  <1>3. [d \in DOMAIN returns |-> returns[d][s] * returns[d][t]]
          = [d \in DOMAIN returns |-> returns[d][t] * returns[d][s]]
    BY <1>1
  <1>4. SumOfProducts(returns, s, t) = SumOfProducts(returns, t, s)
    BY <1>2, <1>3
  <1> QED
    BY <1>4 DEF returns

\* The estimated covariance is symmetric.
LEMMA CovarianceSymmetric ==
    ASSUME NEW days, IsTable(days), Estimable(days),
           NEW s \in Tickers, NEW t \in Tickers
    PROVE  LET covariance == Covariance(LogReturns(days))
           IN  covariance[s][t] \in FiniteValues /\ covariance[s][t] = covariance[t][s]
  <1> DEFINE returns == LogReturns(days)
  <1>1. /\ IsFinite(SumOfReturns(returns, s)) /\ IsFinite(SumOfReturns(returns, t))
        /\ IsFinite(Covariance(returns)[s][t])
    BY DEF Estimable, Finite, MeanLogReturns
  <1>2. SumOfReturns(returns, s) \in Int /\ SumOfReturns(returns, t) \in Int
    BY <1>1, MaxFiniteAssumption DEF IsFinite, FiniteValues
  <1>3. SumOfReturns(returns, s) * SumOfReturns(returns, t)
          = SumOfReturns(returns, t) * SumOfReturns(returns, s)
    BY <1>2
  <1>4. SumOfProducts(returns, s, t) = SumOfProducts(returns, t, s)
    BY ProductsCommute
  <1>5. Covariance(returns)[s][t] = Covariance(returns)[t][s]
    BY <1>3, <1>4 DEF Covariance
  <1> QED
    BY <1>1, <1>5 DEF IsFinite

\* No covariance is off by more than the tolerance if none is off at all.
LEMMA ExactlySymmetric ==
    ASSUME NEW m, \A i, j \in DOMAIN m : m[i][j] \in FiniteValues /\ m[i][j] = m[j][i]
    PROVE  Symmetric(m)
  <1> SUFFICES ASSUME NEW i \in DOMAIN m, NEW j \in DOMAIN m
               PROVE  Magnitude(m[i][j] - m[j][i]) * Precision <= 1
    BY DEF Symmetric
  <1>1. m[i][j] \in Int /\ m[j][i] = m[i][j]
    BY MaxFiniteAssumption DEF FiniteValues
  <1>2. m[i][j] - m[j][i] = 0
    BY <1>1
  <1>3. Magnitude(m[i][j] - m[j][i]) = 0
    BY <1>2 DEF Magnitude
  <1> QED
    BY <1>3, PrecisionAssumption

\* The prices of the model are those of a day on which every price was observed.
LEMMA LatestPrices ==
    ASSUME NEW days, IsTable(days), Estimable(days)
    PROVE  /\ Latest(days).prices \in [Tickers -> Range(Latest(days).prices)]
           /\ \A t \in Tickers : IsFinite(Latest(days).prices[t]) /\ Latest(days).prices[t] > 0
  <1> DEFINE last == Max(CompletePrices(days))
  <1>1. CompletePrices(days) \subseteq 1 .. Len(days) /\ Len(days) \in Nat
    BY DEF CompletePrices, IsTable
  <1>2. CompletePrices(days) # {}
    BY DEF Estimable
  <1>3. last \in CompletePrices(days)
    BY <1>1, <1>2, MaxOf
  <1>4. Latest(days) = days[last]
    BY DEF Latest
  <1> HIDE DEF last
  <1>5. last \in DOMAIN days /\ Complete(days[last])
    BY <1>3 DEF CompletePrices
  <1>6. days[last].prices \in [Tickers -> Range(days[last].prices)]
    BY <1>5 DEF IsTable
  <1>7. ASSUME NEW t \in Tickers
        PROVE  IsFinite(days[last].prices[t]) /\ days[last].prices[t] > 0
    <2>1. t \in DOMAIN days[last].prices
      BY <1>6
    <2>2. days[last].prices[t] # NaN
      BY <1>5, <2>1 DEF Complete, Range
    <2> QED
      BY <1>5, <2>1, <2>2, ObservedPrice
  <1> QED
    BY <1>4, <1>6, <1>7

\* What the script builds, the constructor of MarketModel accepts.
LEMMA EstimatedIsValid ==
    ASSUME NEW days, IsTable(days), Estimable(days)
    PROVE  ValidModel(Estimated(days))
  <1> DEFINE m == Estimated(days)
             covariance == Covariance(LogReturns(days))
             n == Len(YAHOO_TICKERS)
  <1>1. /\ m.symbols = [t \in Tickers |-> ModelSymbol[YAHOO_TICKERS[t]]]
        /\ m.prices = Latest(days).prices
        /\ m.mean_log_returns = MeanLogReturns(LogReturns(days))
        /\ m.covariance = covariance
    BY DEF Estimated
  <1> HIDE DEF m
  <1>2. n \in Nat \ {0} /\ Tickers = 1 .. n
    BY TickersType
  <1>3. ValidSymbols(m.symbols)
    <2>1. DOMAIN m.symbols = Tickers /\ 1 \in Tickers
      BY <1>1, <1>2
    <2>2. m.symbols # <<>>
      BY <2>1
    <2>3. \A t \in Tickers : m.symbols[t] = ModelSymbol[YAHOO_TICKERS[t]]
      BY <1>1
    <2> QED
      BY <2>1, <2>2, <2>3, TickersAssumption DEF ValidSymbols, Tickers
  <1>4. /\ \A t \in Tickers : covariance[t] \in [Tickers -> Range(covariance[t])]
        /\ covariance \in [Tickers -> Range(covariance)]
        /\ m.mean_log_returns \in [Tickers -> Range(m.mean_log_returns)]
        /\ m.symbols \in [Tickers -> Range(m.symbols)]
    BY <1>1 DEF Covariance, MeanLogReturns, Range
  <1>5. ValidDimensions(m)
    <2>1. Len(m.symbols) = n /\ Len(m.mean_log_returns) = n
      BY <1>2, <1>4, FunctionIsSequence
    <2>2. Len(m.prices) = n
      BY <1>1, <1>2, LatestPrices, FunctionIsSequence
    <2>3. Len(covariance) = n /\ DOMAIN covariance = Tickers
      BY <1>2, <1>4, FunctionIsSequence
    <2>4. \A t \in Tickers : Len(covariance[t]) = n
      BY <1>2, <1>4, FunctionIsSequence
    <2> HIDE DEF n, covariance
    <2> QED
      BY <1>1, <2>1, <2>2, <2>3, <2>4 DEF ValidDimensions
  <1>6. DOMAIN covariance = Tickers
    BY <1>4
  <1>7. ValidValues(m)
    <2>1. \A t \in DOMAIN m.prices : IsFinite(m.prices[t]) /\ m.prices[t] > 0
      BY <1>1, LatestPrices
    <2>2. \A t \in DOMAIN m.mean_log_returns : IsFinite(m.mean_log_returns[t])
      <3>1. DOMAIN m.mean_log_returns = Tickers
        BY <1>4
      <3> QED
        BY <1>1, <3>1 DEF Estimable, Finite
    <2>3. \A s, t \in DOMAIN covariance : IsFinite(covariance[s][t])
      BY <1>6 DEF Estimable, Finite
    <2>4. Decomposable(covariance)
      BY DEF Estimable
    <2>5. Symmetric(covariance)
      <3>1. \A s, t \in DOMAIN covariance :
                covariance[s][t] \in FiniteValues /\ covariance[s][t] = covariance[t][s]
        BY <1>6, CovarianceSymmetric
      <3> HIDE DEF covariance
      <3> QED
        BY <3>1, ExactlySymmetric
    <2> HIDE DEF covariance
    <2> QED
      BY <1>1, <2>1, <2>2, <2>3, <2>4, <2>5 DEF ValidValues
  <1>8. ValidModel(m)
    BY <1>3, <1>5, <1>7 DEF ValidModel
  <1> QED
    BY <1>8 DEF m

\* What is built is something.
LEMMA EstimatedIsSomething == \A days : Estimated(days) # Nothing
  <1> SUFFICES ASSUME NEW days PROVE Estimated(days) # Nothing
    OBVIOUS
  <1>1. "symbols" \in DOMAIN Estimated(days)
    BY DEF Estimated
  <1>2. DOMAIN Nothing = {}
    BY DEF Nothing
  <1> QED
    BY <1>1, <1>2

\* The sorted columns of the tickers are a table.
LEMMA SortedIsTable ==
    ASSUME NEW days, IsFiniteSet(DOMAIN days)
    PROVE  IsTable(SortIndex(days))
  <1> DEFINE n == Cardinality(DOMAIN days)
             dates == [d \in 1 .. n |->
                          CHOOSE date \in DOMAIN days :
                              Cardinality({e \in DOMAIN days : e <= date}) = d]
             table == [d \in DOMAIN dates |->
                          [date   |-> dates[d],
                           prices |-> [t \in Tickers |-> days[dates[d]][YAHOO_TICKERS[t]]]]]
  <1>1. n \in Nat
    BY FS_CardinalityType
  <1>2. SortIndex(days) = table
    BY Zenon DEF SortIndex
  <1>3. DOMAIN dates = 1 .. n
    OBVIOUS
  <1> HIDE DEF dates, n
  <1>4. table \in [1 .. n -> Range(table)]
    BY <1>3 DEF Range
  <1>5. Len(table) = n /\ DOMAIN table = 1 .. n
    BY <1>1, <1>4, FunctionIsSequence
  <1>6. ASSUME NEW d \in 1 .. n
        PROVE  table[d].prices \in [Tickers -> Range(table[d].prices)]
    <2>1. table[d].prices = [t \in Tickers |-> days[dates[d]][YAHOO_TICKERS[t]]]
      BY <1>3
    <2> QED
      BY <2>1 DEF Range
  <1> HIDE DEF table
  <1> QED
    BY <1>1, <1>2, <1>5, <1>6 DEF IsTable

-----------------------------------------------------------------------------
(* Stretches of days.  C is the set of the days that are complete.         *)

\* The days on which a return ends.
Adjacent(C) == {d \in C : d - 1 \in C}

\* The first and the last days of the stretches.
StretchesOf(C) ==
    {s \in C \X C : /\ s[1] <= s[2]
                    /\ \A d \in s[1] .. s[2] : d \in C
                    /\ s[1] - 1 \notin C /\ s[2] + 1 \notin C}

\* The stretch that ends at b is the only one that does.
LEMMA StretchEnds ==
    ASSUME NEW C, C \subseteq Nat, NEW a \in C, NEW b \in C, a <= b,
           \A d \in a .. b : d \in C, a - 1 \notin C, b + 1 \notin C
    PROVE  /\ <<a, b>> \in StretchesOf(C)
           /\ \A s \in StretchesOf(C) : s[2] = b => s = <<a, b>>
  <1>1. <<a, b>> \in StretchesOf(C)
    BY DEF StretchesOf
  <1>2. ASSUME NEW s \in StretchesOf(C), s[2] = b PROVE s[1] = a
    <2>1. /\ s[1] \in Nat /\ s[1] <= b /\ s[1] - 1 \notin C
          /\ \A d \in s[1] .. b : d \in C
      BY <1>2 DEF StretchesOf
    <2>2. a \in Nat /\ b \in Nat
      OBVIOUS
    <2>3. ~(s[1] < a)
      <3> SUFFICES ASSUME s[1] < a PROVE FALSE
        OBVIOUS
      <3>1. a - 1 \in s[1] .. b
        BY <2>1, <2>2
      <3> QED
        BY <2>1, <3>1
    <2>4. ~(a < s[1])
      <3> SUFFICES ASSUME a < s[1] PROVE FALSE
        OBVIOUS
      <3>1. s[1] - 1 \in a .. b
        BY <2>1, <2>2
      <3> QED
        BY <2>1, <3>1
    <2> QED
      BY <2>1, <2>2, <2>3, <2>4
  <1>3. \A s \in StretchesOf(C) : s = <<s[1], s[2]>>
    BY DEF StretchesOf
  <1> QED
    BY <1>1, <1>2, <1>3

\* g adds up the changes of level from day to day, h those over stretches.
Changes(g, h, C, level) ==
    /\ C \subseteq Nat \ {0}
    /\ \A d \in C : level[d] \in Int
    /\ \E rises : /\ IsSum(g, Adjacent(C), rises)
                  /\ \A d \in Adjacent(C) : rises[d] = level[d] - level[d - 1]
    /\ \E gains : /\ IsSum(h, StretchesOf(C), gains)
                  /\ \A s \in StretchesOf(C) : gains[s] = level[s[2]] - level[s[1]]

\* The changes up to day k, and those over the stretches that ended by then.
DaysTo(C, k)      == {d \in Adjacent(C) : d <= k}
StretchesTo(C, k) == {s \in StretchesOf(C) : s[2] <= k}

\* The sums are integers, and nothing is added up to day 0.
LEMMA SumsTo ==
    ASSUME NEW C, NEW level, NEW g, NEW h,
           Changes(g, h, C, level)
    PROVE  /\ \A k \in Nat : g[DaysTo(C, k)] \in Int /\ h[StretchesTo(C, k)] \in Int
           /\ g[DaysTo(C, 0)] = 0 /\ h[StretchesTo(C, 0)] = 0
  <1>0. C \subseteq Nat \ {0}
    BY DEF Changes
  <1>1. /\ g \in [SUBSET Adjacent(C) -> Int] /\ g[{}] = 0
        /\ h \in [SUBSET StretchesOf(C) -> Int] /\ h[{}] = 0
    BY DEF Changes, IsSum
  <1>2. \A k : DaysTo(C, k) \in SUBSET Adjacent(C) /\ StretchesTo(C, k) \in SUBSET StretchesOf(C)
    BY DEF DaysTo, StretchesTo
  <1>3. \A d \in DaysTo(C, 0) : FALSE
    BY <1>0 DEF DaysTo, Adjacent
  <1>4. \A s \in StretchesTo(C, 0) : FALSE
    <2>1. \A s \in StretchesOf(C) : s[1] \in C /\ s[2] \in C /\ s[1] <= s[2]
      BY DEF StretchesOf
    <2>2. \A d \in C : d \in Nat \ {0}
      BY <1>0
    <2>3. ASSUME NEW s \in StretchesOf(C) PROVE ~(s[2] <= 0)
      <3>1. s[1] \in Nat \ {0} /\ s[2] \in Nat \ {0}
        BY <2>1, <2>2
      <3> QED
        BY <3>1
    <2> QED
      BY <2>3 DEF StretchesTo
  <1>5. DaysTo(C, 0) = {} /\ StretchesTo(C, 0) = {}
    BY <1>3, <1>4
  <1> QED
    BY <1>1, <1>2, <1>5

\* A day that is complete like the one before it adds its change.
LEMMA DayAdds ==
    ASSUME NEW C, NEW level, NEW g, NEW h,
           Changes(g, h, C, level), NEW k \in Nat, k \in C, k + 1 \in C
    PROVE  g[DaysTo(C, k + 1)] = (level[k + 1] - level[k]) + g[DaysTo(C, k)]
  <1>0. C \subseteq Nat \ {0}
    BY DEF Changes
  <1>1. PICK rises : /\ IsSum(g, Adjacent(C), rises)
                     /\ \A d \in Adjacent(C) : rises[d] = level[d] - level[d - 1]
    BY DEF Changes
  <1>2. (k + 1) - 1 = k /\ k + 1 \in Adjacent(C)
    BY DEF Adjacent
  <1>3. \A d \in Adjacent(C) : d \in Nat
    BY <1>0 DEF Adjacent
  <1>4. k + 1 \in DaysTo(C, k + 1) /\ DaysTo(C, k + 1) \in SUBSET Adjacent(C)
    BY <1>2 DEF DaysTo
  <1>5. \A d : d \in DaysTo(C, k + 1) \ {k + 1} <=> d \in DaysTo(C, k)
    BY <1>3 DEF DaysTo
  <1>6. DaysTo(C, k + 1) \ {k + 1} = DaysTo(C, k)
    BY <1>5
  <1>7. g[DaysTo(C, k + 1)] = rises[k + 1] + g[DaysTo(C, k + 1) \ {k + 1}]
    BY <1>1, <1>4 DEF IsSum
  <1>8. rises[k + 1] = level[k + 1] - level[k]
    BY <1>1, <1>2
  <1> QED
    BY <1>6, <1>7, <1>8

\* Any other day adds nothing.
LEMMA DayAddsNothing ==
    ASSUME NEW C, C \subseteq Nat \ {0}, NEW g, NEW k \in Nat, ~(k \in C /\ k + 1 \in C)
    PROVE  g[DaysTo(C, k + 1)] = g[DaysTo(C, k)]
  <1>1. \A d \in Adjacent(C) : d \in Nat /\ d # k + 1
    <2>1. (k + 1) - 1 = k
      OBVIOUS
    <2> QED
      BY <2>1 DEF Adjacent
  <1>2. \A d : d \in DaysTo(C, k + 1) <=> d \in DaysTo(C, k)
    BY <1>1 DEF DaysTo
  <1>3. DaysTo(C, k + 1) = DaysTo(C, k)
    BY <1>2
  <1> QED
    BY <1>3

\* A stretch adds its change on the day it ends.
LEMMA StretchAdds ==
    ASSUME NEW C, NEW level, NEW g, NEW h,
           Changes(g, h, C, level), NEW k \in Nat
    PROVE  \A s \in StretchesOf(C) :
              s[2] = k + 1 => h[StretchesTo(C, k + 1)] =
                                 (level[k + 1] - level[s[1]]) + h[StretchesTo(C, k)]
  <1> SUFFICES ASSUME NEW s \in StretchesOf(C), s[2] = k + 1
               PROVE  h[StretchesTo(C, k + 1)] =
                         (level[k + 1] - level[s[1]]) + h[StretchesTo(C, k)]
    OBVIOUS
  <1>0. C \subseteq Nat \ {0}
    BY DEF Changes
  <1>1. PICK gains :
           /\ IsSum(h, StretchesOf(C), gains)
           /\ \A r \in StretchesOf(C) : gains[r] = level[r[2]] - level[r[1]]
    BY DEF Changes
  <1>2. \A r \in StretchesOf(C) : r[2] = k + 1 => r = s
    <2>1. /\ s[1] \in C /\ s[2] \in C /\ s[1] <= s[2]
          /\ \A d \in s[1] .. s[2] : d \in C
          /\ s[1] - 1 \notin C /\ s[2] + 1 \notin C /\ C \subseteq Nat
          /\ s = <<s[1], s[2]>>
      BY <1>0 DEF StretchesOf
    <2> QED
      BY <2>1, StretchEnds
  <1>3. \A r \in StretchesOf(C) : r[2] \in Nat
    BY <1>0 DEF StretchesOf
  <1>4. gains[s] = level[k + 1] - level[s[1]]
    BY <1>1
  <1>5. s \in StretchesTo(C, k + 1) /\ StretchesTo(C, k + 1) \in SUBSET StretchesOf(C)
    BY DEF StretchesTo
  <1>6. \A r : r \in StretchesTo(C, k + 1) \ {s} <=> r \in StretchesTo(C, k)
    BY <1>2, <1>3 DEF StretchesTo
  <1>7. StretchesTo(C, k + 1) \ {s} = StretchesTo(C, k)
    BY <1>6
  <1>8. h[StretchesTo(C, k + 1)] = gains[s] + h[StretchesTo(C, k + 1) \ {s}]
    BY <1>1, <1>5 DEF IsSum
  <1> QED
    BY <1>4, <1>7, <1>8

\* A day on which no stretch ends adds nothing.
LEMMA StretchAddsNothing ==
    ASSUME NEW C, C \subseteq Nat \ {0}, NEW h, NEW k \in Nat,
           k + 1 \notin C \/ k + 2 \in C
    PROVE  h[StretchesTo(C, k + 1)] = h[StretchesTo(C, k)]
  <1>1. \A s \in StretchesOf(C) : s[2] \in Nat /\ s[2] # k + 1
    <2> TAKE s \in StretchesOf(C)
    <2>1. s[2] \in C /\ s[2] + 1 \notin C
      BY DEF StretchesOf
    <2>2. s[2] = k + 1 => s[2] + 1 = k + 2
      OBVIOUS
    <2> QED
      BY <2>1, <2>2
  <1>2. \A s : s \in StretchesTo(C, k + 1) <=> s \in StretchesTo(C, k)
    BY <1>1 DEF StretchesTo
  <1>3. StretchesTo(C, k + 1) = StretchesTo(C, k)
    BY <1>2
  <1> QED
    BY <1>3

\* The changes from day to day add up to the changes over the stretches.
LEMMA StretchesAddUp ==
    ASSUME NEW n \in Nat, NEW C, C \subseteq 1 .. n, NEW level, NEW g, NEW h,
           Changes(g, h, C, level)
    PROVE  g[Adjacent(C)] = h[StretchesOf(C)]
  <1> DEFINE R(k)       == g[DaysTo(C, k)]
             S(k)       == h[StretchesTo(C, k)]
             Ongoing(k) == k \in C /\ k + 1 \in C
             From(a, k) == /\ a <= k /\ (\A d \in a .. k : d \in C) /\ a - 1 \notin C
                           /\ R(k) = (level[k] - level[a]) + S(k)
             P(k)       == /\ ~Ongoing(k) => R(k) = S(k)
                           /\ Ongoing(k) => \E a \in C : From(a, k)
             T          == {k \in Nat : P(k)}
  <1>1. C \subseteq Nat \ {0} /\ \A d \in C : level[d] \in Int
    BY DEF Changes
  <1>2. \A k \in Nat : R(k) \in Int /\ S(k) \in Int
    BY <1>1, SumsTo
  <1>3. P(0)
    <2>1. ~Ongoing(0)
      BY <1>1
    <2>2. R(0) = S(0)
      BY <1>1, SumsTo
    <2> HIDE DEF R, S, Ongoing, From
    <2> QED
      BY <2>1, <2>2
  <1>4. ASSUME NEW k \in Nat, P(k) PROVE P(k + 1)
    <2>1. /\ Ongoing(k) => R(k + 1) = (level[k + 1] - level[k]) + R(k)
          /\ ~Ongoing(k) => R(k + 1) = R(k)
      <3>1. ASSUME Ongoing(k) PROVE R(k + 1) = (level[k + 1] - level[k]) + R(k)
        BY <3>1, DayAdds
      <3>2. ASSUME ~Ongoing(k) PROVE R(k + 1) = R(k)
        BY <1>1, <3>2, DayAddsNothing, Zenon
      <3> QED
        BY <3>1, <3>2
    <2>2. \A s \in StretchesOf(C) :
             s[2] = k + 1 => S(k + 1) = (level[k + 1] - level[s[1]]) + S(k)
      BY StretchAdds
    <2>3. k + 1 \notin C \/ k + 2 \in C => S(k + 1) = S(k)
      BY <1>1, StretchAddsNothing
    <2>4. (k + 1) + 1 = k + 2 /\ (k + 1) - 1 = k /\ k + 1 \in Nat
      OBVIOUS
    <2>5. R(k) \in Int /\ S(k) \in Int /\ R(k + 1) \in Int /\ S(k + 1) \in Int
      BY <1>2, <2>4
    <2> HIDE DEF R, S
    <2>6. CASE k + 1 \notin C
      BY <1>4, <2>1, <2>3, <2>6
    <2>7. CASE k + 1 \in C
      <3>1. PICK a \in C : /\ a <= k + 1 /\ (\A d \in a .. (k + 1) : d \in C)
                           /\ a - 1 \notin C
                           /\ R(k + 1) = (level[k + 1] - level[a]) + S(k)
        <4>1. CASE k \in C
          <5>1. PICK a \in C : From(a, k)
            BY <1>4, <2>7, <4>1
          <5>2. a \in Nat /\ \A d \in a .. (k + 1) : d \in a .. k \/ d = k + 1
            BY <1>1
          <5>3. level[a] \in Int /\ level[k] \in Int /\ level[k + 1] \in Int
            BY <1>1, <2>7, <4>1
          <5>4. R(k + 1) = (level[k + 1] - level[a]) + S(k)
            BY <2>1, <2>5, <2>7, <4>1, <5>1, <5>3
          <5>5. a <= k + 1 /\ \A d \in a .. (k + 1) : d \in C
            BY <2>7, <5>1, <5>2
          <5> QED
            BY <5>1, <5>4, <5>5
        <4>2. CASE k \notin C
          <5>1. R(k + 1) = S(k)
            BY <1>4, <2>1, <4>2
          <5>2. level[k + 1] \in Int
            BY <1>1, <2>7
          <5>3. R(k + 1) = (level[k + 1] - level[k + 1]) + S(k)
            BY <2>5, <5>1, <5>2
          <5>4. \A d \in (k + 1) .. (k + 1) : d = k + 1
            OBVIOUS
          <5> QED
            BY <2>4, <2>7, <4>2, <5>3, <5>4
        <4> QED
          BY <4>1, <4>2
      <3>2. CASE k + 2 \in C
        <4>1. From(a, k + 1) /\ Ongoing(k + 1)
          BY <2>3, <2>4, <2>7, <3>1, <3>2
        <4> HIDE DEF From, Ongoing
        <4> QED
          BY <4>1
      <3>3. CASE k + 2 \notin C
        <4>1. <<a, k + 1>> \in StretchesOf(C)
          BY <1>1, <2>7, <3>1, <3>3 DEF StretchesOf
        <4>2. S(k + 1) = (level[k + 1] - level[a]) + S(k)
          BY <2>2, <4>1
        <4>3. S(k + 1) = R(k + 1) /\ ~Ongoing(k + 1)
          BY <2>4, <3>1, <3>3, <4>2
        <4> HIDE DEF From, Ongoing
        <4> QED
          BY <4>3
      <3> QED
        BY <3>2, <3>3
    <2> QED
      BY <2>6, <2>7
  <1> HIDE DEF P
  <1>5. n \in T
    <2>1. 0 \in T /\ \A k \in Nat : k \in T => k + 1 \in T
      BY <1>3, <1>4
    <2> HIDE DEF T
    <2> QED
      BY <2>1, SetInduction
  <1>6. P(n) /\ ~Ongoing(n)
    <2>1. n + 1 \notin C
      OBVIOUS
    <2> QED
      BY <1>5, <2>1
  <1>7. R(n) = S(n)
    <2> HIDE DEF R, S, Ongoing
    <2> QED
      BY <1>6 DEF P
  <1>8. DaysTo(C, n) = Adjacent(C) /\ StretchesTo(C, n) = StretchesOf(C)
    <2>1. \A d \in Adjacent(C) : d <= n
      BY DEF Adjacent
    <2>2. \A s \in StretchesOf(C) : s[2] \in C
      BY DEF StretchesOf
    <2>3. \A d \in C : d <= n
      OBVIOUS
    <2>4. \A s \in StretchesOf(C) : s[2] <= n
      BY <2>2, <2>3
    <2> QED
      BY <2>1, <2>4 DEF DaysTo, StretchesTo
  <1> QED
    BY <1>7, <1>8

\* Days and stretches are finitely many.
LEMMA FinitelyMany ==
    ASSUME NEW n \in Nat, NEW C, C \subseteq 1 .. n
    PROVE  IsFiniteSet(Adjacent(C)) /\ IsFiniteSet(StretchesOf(C))
  <1>1. IsFiniteSet(1 .. n)
    BY FS_Interval
  <1>2. IsFiniteSet((1 .. n) \X (1 .. n))
    BY <1>1, FS_Product
  <1>3. Adjacent(C) \in SUBSET (1 .. n)
    BY DEF Adjacent
  <1>4. StretchesOf(C) \in SUBSET ((1 .. n) \X (1 .. n))
    <2>1. \A s \in StretchesOf(C) : s \in (1 .. n) \X (1 .. n)
      BY DEF StretchesOf
    <2> QED
      BY <2>1
  <1> QED
    BY <1>1, <1>2, <1>3, <1>4, FS_Subset

\* rises are the changes from day to day, gains those over the stretches.
AreChanges(n, C, level, rises, gains) ==
    /\ n \in Nat /\ C \subseteq 1 .. n
    /\ \A d \in C : level[d] \in Int
    /\ DOMAIN rises = Adjacent(C)
    /\ \A d \in Adjacent(C) : rises[d] = level[d] - level[d - 1]
    /\ DOMAIN gains = StretchesOf(C)
    /\ \A s \in StretchesOf(C) : gains[s] = level[s[2]] - level[s[1]]

\* Both have the same sum, and it is the one that adds the rises one by one.
LEMMA ChangesAddUp ==
    ASSUME NEW n, NEW C, NEW level, NEW rises, NEW gains,
           AreChanges(n, C, level, rises, gains)
    PROVE  /\ SumFunction(rises) = SumFunction(gains)
           /\ \E g : IsSum(g, Adjacent(C), rises) /\ SumFunction(gains) = g[Adjacent(C)]
  <1>1. /\ n \in Nat /\ C \subseteq 1 .. n /\ \A d \in C : level[d] \in Int
        /\ DOMAIN rises = Adjacent(C) /\ DOMAIN gains = StretchesOf(C)
        /\ \A d \in Adjacent(C) : rises[d] = level[d] - level[d - 1]
        /\ \A s \in StretchesOf(C) : gains[s] = level[s[2]] - level[s[1]]
    BY DEF AreChanges
  <1>2. IsFiniteSet(Adjacent(C)) /\ IsFiniteSet(StretchesOf(C))
    BY <1>1, FinitelyMany
  <1> DEFINE byDay     == [d \in Adjacent(C) |-> level[d] - level[d - 1]]
             byStretch == [s \in StretchesOf(C) |-> level[s[2]] - level[s[1]]]
  <1>3. byDay \in [Adjacent(C) -> Int]
    <2>1. \A d \in Adjacent(C) : d \in C /\ d - 1 \in C
      BY DEF Adjacent
    <2>2. ASSUME NEW d \in Adjacent(C) PROVE level[d] - level[d - 1] \in Int
      <3>1. level[d] \in Int /\ level[d - 1] \in Int
        BY <1>1, <2>1
      <3> QED
        BY <3>1
    <2> QED
      BY <2>2
  <1>4. byStretch \in [StretchesOf(C) -> Int]
    <2>1. \A s \in StretchesOf(C) : s[1] \in C /\ s[2] \in C
      BY DEF StretchesOf
    <2>2. ASSUME NEW s \in StretchesOf(C) PROVE level[s[2]] - level[s[1]] \in Int
      <3>1. level[s[2]] \in Int /\ level[s[1]] \in Int
        BY <1>1, <2>1
      <3> QED
        BY <3>1
    <2> QED
      BY <2>2
  <1>5. \A d \in Adjacent(C) : byDay[d] = level[d] - level[d - 1]
    OBVIOUS
  <1>6. \A s \in StretchesOf(C) : byStretch[s] = level[s[2]] - level[s[1]]
    OBVIOUS
  <1> HIDE DEF byDay, byStretch
  <1>7. PICK g : IsSum(g, Adjacent(C), byDay)
    BY <1>2, <1>3, SumExists
  <1>8. PICK h : IsSum(h, StretchesOf(C), byStretch)
    BY <1>2, <1>4, SumExists
  <1>9. IsPart(rises, g, Adjacent(C), byDay) /\ IsPart(gains, h, StretchesOf(C), byStretch)
    BY <1>1, <1>5, <1>6, <1>7, <1>8 DEF IsPart
  <1>10. SumFunction(rises) = g[Adjacent(C)] /\ SumFunction(gains) = h[StretchesOf(C)]
    BY <1>1, <1>2, <1>9, SumOfFunction
  <1>11. Changes(g, h, C, level)
    BY <1>1, <1>5, <1>6, <1>7, <1>8 DEF Changes
  <1>12. g[Adjacent(C)] = h[StretchesOf(C)]
    BY <1>1, <1>11, StretchesAddUp
  <1>13. IsSum(g, Adjacent(C), rises)
    BY <1>1, <1>5, <1>7 DEF IsSum
  <1> QED
    BY <1>10, <1>12, <1>13

\* The lengths of the stretches add up to the number of returns.
LEMMA LengthsAddUp ==
    ASSUME NEW n \in Nat, NEW C, C \subseteq 1 .. n, NEW gains,
           DOMAIN gains = StretchesOf(C),
           \A s \in StretchesOf(C) : gains[s] = s[2] - s[1]
    PROVE  SumFunction(gains) = Cardinality(Adjacent(C))
  <1> DEFINE level == [d \in C |-> d]
             rises == [d \in Adjacent(C) |-> 1]
  <1>1. /\ \A d \in C : level[d] = d /\ level[d] \in Int
        /\ DOMAIN rises = Adjacent(C) /\ \A d \in Adjacent(C) : rises[d] = 1
    OBVIOUS
  <1> HIDE DEF level, rises
  <1>2. \A d \in Adjacent(C) : d \in C /\ d - 1 \in C /\ d - (d - 1) = 1
    BY DEF Adjacent
  <1>3. \A s \in StretchesOf(C) : s[1] \in C /\ s[2] \in C
    BY DEF StretchesOf
  <1>4. AreChanges(n, C, level, rises, gains)
    BY <1>1, <1>2, <1>3 DEF AreChanges
  <1>5. PICK g : IsSum(g, Adjacent(C), rises) /\ SumFunction(gains) = g[Adjacent(C)]
    BY <1>4, ChangesAddUp
  <1>6. g[Adjacent(C)] = Cardinality(Adjacent(C))
    BY <1>1, <1>5, FinitelyMany, SumOfOnes
  <1> QED
    BY <1>5, <1>6

-----------------------------------------------------------------------------
(* The returns and the stretches of a table.                               *)

\* A return ends on each complete day after a complete day, and is the change of
\* the logarithm since then.
LEMMA ReturnsOfDays ==
    ASSUME NEW days, IsTable(days), Estimable(days)
    PROVE  /\ \A d \in CompletePrices(days), t \in Tickers : Log(days[d].prices[t]) \in Int
           /\ DOMAIN LogReturns(days) = Adjacent(CompletePrices(days))
           /\ \A d \in DOMAIN LogReturns(days), t \in Tickers :
                 LogReturns(days)[d][t] =
                     Log(days[d].prices[t]) - Log(days[d - 1].prices[t])
  <1> DEFINE C == CompletePrices(days)
  <1>1. DOMAIN days = 1 .. Len(days) /\ Len(days) \in Nat
    BY DEF IsTable
  <1>2. \A d \in DOMAIN days : DOMAIN days[d].prices = Tickers
    BY DEF IsTable
  <1>3. \A d \in DOMAIN days : d \in C <=> \A t \in Tickers : days[d].prices[t] # NaN
    BY <1>2 DEF CompletePrices, Complete, Range
  <1>4. C \subseteq DOMAIN days
    BY DEF CompletePrices
  <1> HIDE DEF C
  <1>5. ASSUME NEW d \in C, NEW t \in Tickers PROVE Log(days[d].prices[t]) \in Int
    <2>1. d \in DOMAIN days /\ t \in DOMAIN days[d].prices /\ days[d].prices[t] # NaN
      BY <1>2, <1>3, <1>4
    <2> QED
      BY <2>1, ObservedPrice, LogType
  <1>6. ASSUME NEW d \in 2 .. Len(days)
        PROVE  /\ d \in DOMAIN LogReturns(days) <=> d \in C /\ d - 1 \in C
               /\ d \in DOMAIN LogReturns(days) => \A t \in Tickers :
                     LogReturns(days)[d][t] =
                         Log(days[d].prices[t]) - Log(days[d - 1].prices[t])
    <2>1. d \in DOMAIN days /\ d - 1 \in DOMAIN days
      BY <1>1
    <2>2. d \in DOMAIN LogReturns(days) <=> \A t \in Tickers : Diff(days, d, t) # NaN
      BY DEF LogReturns
    <2>3. \A t \in Tickers :
             NaN \in {days[d - 1].prices[t], days[d].prices[t]} => Diff(days, d, t) = NaN
      BY DEF Diff
    <2>4. \A t \in Tickers :
             NaN \notin {days[d - 1].prices[t], days[d].prices[t]} =>
             Diff(days, d, t) = Log(days[d].prices[t]) - Log(days[d - 1].prices[t])
      BY DEF Diff
    <2>5. ASSUME d \in C, d - 1 \in C, NEW t \in Tickers PROVE Diff(days, d, t) # NaN
      <3>1. days[d].prices[t] # NaN /\ days[d - 1].prices[t] # NaN
        BY <1>3, <2>1, <2>5
      <3>2. Log(days[d].prices[t]) \in Int /\ Log(days[d - 1].prices[t]) \in Int
        BY <1>5, <2>5
      <3>3. Diff(days, d, t) \in Int
        BY <2>4, <3>1, <3>2
      <3> QED
        BY <3>3, NaNAssumption
    <2>6. ASSUME \A t \in Tickers : Diff(days, d, t) # NaN PROVE d \in C /\ d - 1 \in C
      BY <1>3, <2>1, <2>3, <2>6
    <2>7. ASSUME d \in DOMAIN LogReturns(days), NEW t \in Tickers
          PROVE  LogReturns(days)[d][t] =
                    Log(days[d].prices[t]) - Log(days[d - 1].prices[t])
      <3>1. LogReturns(days)[d][t] = Diff(days, d, t)
        BY <2>7 DEF LogReturns
      <3>2. Diff(days, d, t) # NaN
        BY <2>2, <2>7
      <3> QED
        BY <2>3, <2>4, <3>1, <3>2
    <2> QED
      BY <2>2, <2>5, <2>6, <2>7
  <1>7. \A d : d \in DOMAIN LogReturns(days) => d \in 2 .. Len(days)
    BY DEF LogReturns
  <1>8. \A d : d \in Adjacent(C) <=> d \in 2 .. Len(days) /\ d \in C /\ d - 1 \in C
    <2>1. \A d \in C : d - 1 \in C => d \in 2 .. Len(days)
      BY <1>1, <1>4
    <2> QED
      BY <2>1 DEF Adjacent
  <1>9. \A d : d \in DOMAIN LogReturns(days) <=> d \in Adjacent(C)
    BY <1>6, <1>7, <1>8
  <1>10. DOMAIN LogReturns(days) = Adjacent(C)
    <2> DEFINE D == DOMAIN LogReturns(days)
               A == Adjacent(C)
    <2>1. \A d : d \in D <=> d \in A
      BY <1>9
    <2> HIDE DEF D, A
    <2>2. D = A
      BY <2>1
    <2> QED
      BY <2>2 DEF D, A
  <1> QED
    BY <1>5, <1>6, <1>7, <1>10 DEF C

\* The stretches are those of the complete days.
LEMMA StretchesOfCloses ==
    ASSUME IsTable(closes)
    PROVE  Stretches = StretchesOf(CompletePrices(closes))
  <1> DEFINE C == CompletePrices(closes)
             n == Len(closes)
  <1>1. DOMAIN closes = 1 .. n /\ n \in Nat
    BY DEF IsTable
  <1>2. \A d : d \in C <=> d \in 1 .. n /\ Complete(closes[d])
    BY <1>1 DEF CompletePrices
  <1> HIDE DEF C, n
  <1>3. ASSUME NEW a \in 1 .. n, NEW b \in 1 .. n, a <= b
        PROVE  Stretch(a, b) <=> /\ \A d \in a .. b : d \in C
                                 /\ a - 1 \notin C /\ b + 1 \notin C
    <2>1. \A d \in a .. b : d \in C <=> Complete(closes[d])
      BY <1>1, <1>2
    <2>2. a = 1 \/ ~Complete(closes[a - 1]) <=> a - 1 \notin C
      <3>1. a = 1 => a - 1 \notin 1 .. n
        OBVIOUS
      <3>2. a # 1 => a - 1 \in 1 .. n
        BY <1>1
      <3> QED
        BY <1>2, <3>1, <3>2
    <2>3. b = n \/ ~Complete(closes[b + 1]) <=> b + 1 \notin C
      <3>1. b = n => b + 1 \notin 1 .. n
        BY <1>1
      <3>2. b # n => b + 1 \in 1 .. n
        BY <1>1
      <3> QED
        BY <1>2, <3>1, <3>2
    <2> QED
      BY <2>1, <2>2, <2>3 DEF Stretch, n
  <1>4. ASSUME NEW s \in (1 .. n) \X (1 .. n)
        PROVE  s \in Stretches <=> s \in StretchesOf(C)
    <2>1. s[1] \in 1 .. n /\ s[2] \in 1 .. n /\ s = <<s[1], s[2]>>
      OBVIOUS
    <2>2. s \in Stretches <=> s[1] <= s[2] /\ Stretch(s[1], s[2])
      BY <1>1 DEF Stretches
    <2>3. ASSUME s[1] <= s[2], \A d \in s[1] .. s[2] : d \in C
          PROVE  s[1] \in C /\ s[2] \in C
      BY <2>1, <2>3
    <2>4. s \in C \X C <=> s[1] \in C /\ s[2] \in C
      BY <2>1
    <2>5. s \in StretchesOf(C) <=>
             /\ s[1] \in C /\ s[2] \in C /\ s[1] <= s[2]
             /\ \A d \in s[1] .. s[2] : d \in C
             /\ s[1] - 1 \notin C /\ s[2] + 1 \notin C
      BY <2>4 DEF StretchesOf
    <2>6. s[1] <= s[2] => (Stretch(s[1], s[2]) <=>
             /\ \A d \in s[1] .. s[2] : d \in C
             /\ s[1] - 1 \notin C /\ s[2] + 1 \notin C)
      BY <1>3, <2>1
    <2> QED
      BY <2>2, <2>3, <2>5, <2>6
  <1>5. \A s \in Stretches : s \in (1 .. n) \X (1 .. n)
    BY <1>1 DEF Stretches
  <1>6. \A s \in StretchesOf(C) : s \in (1 .. n) \X (1 .. n)
    BY <1>2 DEF StretchesOf
  <1>7. \A s : s \in Stretches <=> s \in StretchesOf(C)
    BY <1>4, <1>5, <1>6
  <1> DEFINE left == Stretches
             right == StretchesOf(C)
  <1>8. \A s : s \in left <=> s \in right
    BY <1>7
  <1> HIDE DEF left, right
  <1>9. left = right
    BY <1>8
  <1> QED
    BY <1>9 DEF left, right, C

\* The last complete day ends the last stretch.
LEMMA LastStretch ==
    ASSUME NEW n \in Nat, NEW C, C \subseteq 1 .. n, C # {}
    PROVE  \E last \in StretchesOf(C) :
              last[2] = Max(C) /\ \A s \in StretchesOf(C) : s[2] <= last[2]
  <1>1. Max(C) \in C /\ \A d \in C : d <= Max(C)
    <2>1. C \subseteq 1 .. n /\ C # {}
      OBVIOUS
    <2> QED
      BY <2>1, MaxOf
  <1> DEFINE b == Max(C)
             T == {a \in C : a <= b /\ \A d \in a .. b : d \in C}
  <1>2. b \in Nat /\ b \in C /\ b + 1 \notin C
    <2>1. b \in C /\ \A d \in C : d <= b
      BY <1>1
    <2> HIDE DEF b
    <2>2. \A d \in C : d \in Nat
      OBVIOUS
    <2>3. b \in Nat
      BY <2>1, <2>2
    <2>4. ~(b + 1 <= b)
      BY <2>3
    <2> QED
      BY <2>1, <2>3, <2>4
  <1> HIDE DEF b
  <1>3. b \in T /\ T \subseteq Nat
    <2>1. \A d \in b .. b : d = b
      BY <1>2
    <2>2. b <= b
      BY <1>2
    <2>3. \A a \in T : a \in C
      OBVIOUS
    <2>4. \A d \in C : d \in Nat
      OBVIOUS
    <2> QED
      BY <1>2, <2>1, <2>2, <2>3, <2>4
  <1>4. PICK a \in T : \A d \in T : a <= d
    BY <1>3, LeastNat
  <1>5. a - 1 \notin C
    <2> SUFFICES ASSUME a - 1 \in C PROVE FALSE
      OBVIOUS
    <2>1. a \in Nat /\ a - 1 \in Nat /\ a <= b
      BY <1>3
    <2>2. \A d \in (a - 1) .. b : d = a - 1 \/ d \in a .. b
      BY <1>2, <2>1
    <2>3. a - 1 \in T
      BY <1>2, <2>1, <2>2
    <2> QED
      BY <1>4, <2>1, <2>3
  <1>6. <<a, b>> \in StretchesOf(C)
    BY <1>2, <1>5 DEF StretchesOf
  <1>7. \A s \in StretchesOf(C) : s[2] \in C
    BY DEF StretchesOf
  <1> DEFINE last == <<a, b>>
  <1>8. last \in StretchesOf(C) /\ last[2] = b
    BY <1>6
  <1>9. \A s \in StretchesOf(C) : s[2] <= b
    BY <1>1, <1>7 DEF b
  <1> HIDE DEF last
  <1> QED
    BY <1>8, <1>9 DEF b

-----------------------------------------------------------------------------
(* The invariant.                                                          *)

LEMMA InitHolds == Init => IInv
  BY OldFilesAssumption DEF Init, IInv, WrittenModelIsValid, FileIsReplacedByModel

\* A step that gives up keeps the invariant if it leaves the file alone or, once
\* a model has been built, leaves that or a torn file.
LEMMA EndKeepsIInv ==
    ASSUME IInv, phase' \in {"failed", "killed"},
           UNCHANGED <<run, closes, model, before>>,
           file' = file \/ (phase = "close" /\ file' = model)
    PROVE  IInv'
  BY DEF IInv, WrittenModelIsValid, FileIsReplacedByModel

LEMMA DownloadKeepsIInv == ASSUME IInv, Download PROVE IInv'
  <1>1. CASE Fail
    BY <1>1, EndKeepsIInv DEF Fail
  <1>2. CASE ~Fail
    <2>1. PICK data \in Downloads \cup LaterDownloads :
              /\ data # NoData
              /\ closes' = SortIndex(data.days)
              /\ phase' = "build"
              /\ UNCHANGED <<run, model, file, before>>
      BY <1>2 DEF Download
    <2>2. IsTable(closes')
      BY <2>1, SortedIsTable, DownloadsAssumption
    <2>3. phase = "download"
      BY DEF Download
    <2> QED
      BY <2>1, <2>2, <2>3 DEF IInv, WrittenModelIsValid, FileIsReplacedByModel
  <1> QED
    BY <1>1, <1>2

LEMMA BuildKeepsIInv == ASSUME IInv, Build PROVE IInv'
  <1>1. CASE Estimable(closes)
    <2>1. /\ phase = "build" /\ phase' = "open"
          /\ model' = Estimated(closes)
          /\ UNCHANGED <<run, closes, file, before>>
      BY <1>1 DEF Build
    <2>2. model' # Nothing
      BY <2>1, EstimatedIsSomething
    <2>3. ValidModel(model')
      BY <1>1, <2>1, EstimatedIsValid DEF IInv
    <2>4. file' = before'
      BY <2>1 DEF IInv
    <2>5. IsTable(closes') /\ Estimable(closes') /\ model' = Estimated(closes')
      BY <1>1, <2>1 DEF IInv
    <2> QED
      BY <2>1, <2>2, <2>3, <2>4, <2>5 DEF IInv, WrittenModelIsValid, FileIsReplacedByModel
  <1>2. CASE ~Estimable(closes)
    BY <1>2, EndKeepsIInv DEF Build, Fail
  <1> QED
    BY <1>1, <1>2

LEMMA OpenKeepsIInv == ASSUME IInv, Open PROVE IInv'
  BY DEF Open, IInv, WrittenModelIsValid, FileIsReplacedByModel

LEMMA DumpKeepsIInv == ASSUME IInv, Dump PROVE IInv'
  <1>1. CASE Fail
    BY <1>1, EndKeepsIInv DEF Fail
  <1>2. CASE ~Fail
    <2>1. /\ phase = "dump" /\ phase' = "close"
          /\ UNCHANGED <<run, closes, model, file, before>>
      BY <1>2 DEF Dump
    <2> QED
      BY <2>1 DEF IInv, WrittenModelIsValid, FileIsReplacedByModel
  <1> QED
    BY <1>1, <1>2

LEMMA CloseKeepsIInv == ASSUME IInv, Close PROVE IInv'
  BY DEF Close, IInv, WrittenModelIsValid, FileIsReplacedByModel

LEMMA OutputFailsKeepsIInv == ASSUME IInv, OutputFails PROVE IInv'
  BY EndKeepsIInv DEF OutputFails, Flushed

LEMMA KillKeepsIInv == ASSUME IInv, Kill PROVE IInv'
  BY EndKeepsIInv DEF Kill, Flushed

LEMMA RunAgainKeepsIInv == ASSUME IInv, RunAgain PROVE IInv'
  BY DEF RunAgain, IInv, WrittenModelIsValid, FileIsReplacedByModel

\* The file is given up only in the steps that write a model that was built, and
\* what is built is valid.
THEOREM Invariance == Spec => []IInv
  <1>1. Init => IInv
    BY InitHolds
  <1>2. IInv /\ [Next]_vars => IInv'
    <2> SUFFICES ASSUME IInv, [Next]_vars PROVE IInv'
      OBVIOUS
    <2>1. CASE Next
      BY <2>1, DownloadKeepsIInv, BuildKeepsIInv, OpenKeepsIInv, DumpKeepsIInv,
         CloseKeepsIInv, OutputFailsKeepsIInv, KillKeepsIInv, RunAgainKeepsIInv
         DEF Next
    <2>2. CASE UNCHANGED vars
      <3>1. UNCHANGED <<phase, run, closes, model, file, before>>
        BY <2>2 DEF vars
      <3> QED
        BY <3>1 DEF IInv, WrittenModelIsValid, FileIsReplacedByModel
    <2> QED
      BY <2>1, <2>2
  <1> QED
    BY <1>1, <1>2, PTL DEF Spec

\* A file that is a document at all is one that the constructor of MarketModel
\* accepts, whatever Yahoo returned and whatever became of the runs.
THEOREM WrittenModelsAreValid == Spec => []WrittenModelIsValid
  <1>1. IInv => WrittenModelIsValid
    BY DEF IInv
  <1> QED
    BY <1>1, Invariance, PTL

\* The file of an earlier run is given up only for a model that has been built,
\* and a run that succeeds leaves exactly that model.
THEOREM FilesAreReplacedByModels == Spec => []FileIsReplacedByModel
  <1>1. IInv => FileIsReplacedByModel
    BY DEF IInv
  <1> QED
    BY <1>1, Invariance, PTL

\* The means add up the changes over the stretches.
LEMMA MeansAddUp ==
    ASSUME IsTable(closes), Estimable(closes), NEW t \in Tickers
    PROVE  MeanLogReturns(LogReturns(closes))[t] =
              SumFunction([s \in Stretches |->
                  Log(closes[s[2]].prices[t]) - Log(closes[s[1]].prices[t])])
  <1> DEFINE C       == CompletePrices(closes)
             n       == Len(closes)
             returns == LogReturns(closes)
             level   == [d \in C |-> Log(closes[d].prices[t])]
             rises   == [d \in DOMAIN returns |-> returns[d][t]]
             gains   == [s \in Stretches |->
                            Log(closes[s[2]].prices[t]) - Log(closes[s[1]].prices[t])]
  <1>1. n \in Nat /\ C \subseteq 1 .. n
    BY DEF IsTable, CompletePrices
  <1>2. /\ \A d \in C : Log(closes[d].prices[t]) \in Int
        /\ DOMAIN returns = Adjacent(C)
        /\ \A d \in Adjacent(C) :
              returns[d][t] = Log(closes[d].prices[t]) - Log(closes[d - 1].prices[t])
    BY ReturnsOfDays
  <1>3. Stretches = StretchesOf(C)
    BY StretchesOfCloses
  <1>4. \A d \in Adjacent(C) : d \in C /\ d - 1 \in C
    BY DEF Adjacent
  <1>5. \A s \in StretchesOf(C) : s[1] \in C /\ s[2] \in C
    BY DEF StretchesOf
  <1>6. \A d \in C : level[d] = Log(closes[d].prices[t])
    OBVIOUS
  <1>7. DOMAIN rises = Adjacent(C) /\ \A d \in Adjacent(C) : rises[d] = returns[d][t]
    BY <1>2
  <1>8. /\ DOMAIN gains = StretchesOf(C)
        /\ \A s \in StretchesOf(C) :
              gains[s] = Log(closes[s[2]].prices[t]) - Log(closes[s[1]].prices[t])
    BY <1>3
  <1>9. MeanLogReturns(returns)[t] = SumFunction(rises)
    BY DEF MeanLogReturns, SumOfReturns
  <1> HIDE DEF C, n, returns, level, rises, gains
  <1>10. AreChanges(n, C, level, rises, gains)
    BY <1>1, <1>2, <1>4, <1>5, <1>6, <1>7, <1>8 DEF AreChanges
  <1>11. SumFunction(rises) = SumFunction(gains)
    BY <1>10, ChangesAddUp
  <1> QED
    BY <1>9, <1>11 DEF gains, returns

\* Whatever is built has the returns of single days.
LEMMA BuiltReturnsAreDaily == IInv => ReturnsAreDaily
  <1> SUFFICES ASSUME IsTable(closes), Estimable(closes), model = Estimated(closes)
               PROVE  ReturnsAreDaily
    BY DEF IInv, ReturnsAreDaily
  <1> DEFINE C     == CompletePrices(closes)
             n     == Len(closes)
             gains == [s \in Stretches |-> s[2] - s[1]]
  <1>1. n \in Nat /\ C \subseteq 1 .. n /\ C # {}
    BY DEF IsTable, CompletePrices, Estimable
  <1>2. DOMAIN LogReturns(closes) = Adjacent(C)
    BY ReturnsOfDays
  <1>3. Stretches = StretchesOf(C)
    BY StretchesOfCloses
  <1>4. /\ model.as_of = closes[Max(C)].date /\ model.prices = closes[Max(C)].prices
        /\ model.mean_log_returns = MeanLogReturns(LogReturns(closes))
        /\ model.observations = Count(LogReturns(closes))
        /\ model.symbols = [t \in Tickers |-> ModelSymbol[YAHOO_TICKERS[t]]]
    BY DEF Estimated, Latest
  <1>5. DOMAIN gains = StretchesOf(C) /\ \A s \in StretchesOf(C) : gains[s] = s[2] - s[1]
    BY <1>3
  <1>6. Count(LogReturns(closes)) > Len(YAHOO_TICKERS)
    BY DEF Estimable
  <1> HIDE DEF C, n, gains
  <1>7. model.observations = SumFunction(gains)
    <2>1. SumFunction(gains) = Cardinality(Adjacent(C))
      BY <1>1, <1>5, LengthsAddUp
    <2> QED
      BY <1>2, <1>4, <2>1 DEF Count
  <1>8. model.observations > Len(model.symbols)
    <2>1. model.symbols \in [1 .. Len(YAHOO_TICKERS) -> Range(model.symbols)]
      BY <1>4, TickersType DEF Range
    <2>2. Len(model.symbols) = Len(YAHOO_TICKERS)
      BY <2>1, TickersType, FunctionIsSequence
    <2> QED
      BY <1>4, <1>6, <2>2
  <1>9. \E last \in Stretches :
           /\ \A s \in Stretches : s[2] <= last[2]
           /\ model.as_of = closes[last[2]].date
           /\ model.prices = closes[last[2]].prices
    <2>1. PICK last \in StretchesOf(C) :
             last[2] = Max(C) /\ \A s \in StretchesOf(C) : s[2] <= last[2]
      BY <1>1, LastStretch
    <2> QED
      BY <1>3, <1>4, <2>1
  <1>10. \A t \in Tickers :
            model.mean_log_returns[t] =
                SumFunction([s \in Stretches |->
                    Log(closes[s[2]].prices[t]) - Log(closes[s[1]].prices[t])])
    <2> TAKE t \in Tickers
    <2>1. MeanLogReturns(LogReturns(closes))[t] =
              SumFunction([s \in Stretches |->
                  Log(closes[s[2]].prices[t]) - Log(closes[s[1]].prices[t])])
      BY MeansAddUp
    <2> QED
      BY <1>4, <2>1
  <1> QED
    BY <1>7, <1>8, <1>9, <1>10 DEF ReturnsAreDaily, gains

\* The returns are those of single days, whichever days have gaps: they add up to
\* the changes over the stretches of complete days, and the prices are those at
\* the end of the last of them.
THEOREM ReturnsAreThoseOfDays == Spec => []ReturnsAreDaily
  BY BuiltReturnsAreDaily, Invariance, PTL

-----------------------------------------------------------------------------
(* The script and the loader, which reads the file between two steps of    *)
(* the script: between two runs, during one, or after one was killed.      *)

CONSTANTS NotJson, NotObject, NotArray, NotString, NotNumber

\* The document that states m: the loader reads four of its fields, the others
\* are no arrays.
Document(m) ==
    [schema_version   |-> NotArray,
     as_of            |-> NotArray,
     horizon_days     |-> NotArray,
     return_model     |-> NotArray,
     symbols          |-> m.symbols,
     prices           |-> m.prices,
     mean_log_returns |-> m.mean_log_returns,
     covariance       |-> m.covariance,
     observations     |-> NotArray]

\* What the loader is given.
Given == [entry    |-> "file",
          readable |-> file # NoFile,
          document |-> IF file \in {NoFile, Torn} THEN NotJson ELSE Document(file)]

\* The steps after the file was read have no part in this.
Loader == INSTANCE Startup
             WITH source <- Given, phase <- "open", model <- Nothing,
                  market_state <- Nothing, portfolio <- Nothing,
                  relative_shocks <- Nothing, scenario <- Nothing,
                  thrown <- "none",
                  Sources <- {}, Shocks <- {}

\* An array is none of the values of other types, and neither is a document.
JsonAssumption ==
    /\ \A m : Document(m) \notin {NotJson, NotObject}
    /\ \A S : NotArray \notin Seq(S)
    /\ NotString \notin Range(ModelSymbol)
    /\ NotNumber \notin Int

\* m was built by the script.
Written(m) == \E days : IsTable(days) /\ Estimable(days) /\ m = Estimated(days)

\* The file is one the loader can open and read, what it reads are the members of
\* the model that was written, and the constructor of MarketModel accepts them.
LoaderAccepts ==
    /\ Given.readable /\ Loader!Legible
    /\ Loader!Described = [symbols          |-> file.symbols,
                           prices           |-> file.prices,
                           mean_log_returns |-> file.mean_log_returns,
                           covariance       |-> file.covariance]
    /\ Loader!ValidModel(Loader!Described)

\* The members of a model that was built are sequences of symbols and of numbers.
LEMMA WrittenMembers ==
    ASSUME NEW days, IsTable(days), Estimable(days)
    PROVE  LET m == Estimated(days)
               n == Len(YAHOO_TICKERS)
           IN  /\ m.symbols \in [1 .. n -> Range(ModelSymbol)]
               /\ m.prices \in [1 .. n -> FiniteValues]
               /\ m.mean_log_returns \in [1 .. n -> FiniteValues]
               /\ m.covariance \in [1 .. n -> [1 .. n -> FiniteValues]]
  <1> DEFINE m == Estimated(days)
             n == Len(YAHOO_TICKERS)
  <1>1. n \in Nat \ {0} /\ Tickers = 1 .. n
    BY TickersType
  <1>2. m.symbols \in [1 .. n -> Range(ModelSymbol)]
    <2>1. m.symbols = [t \in 1 .. n |-> ModelSymbol[YAHOO_TICKERS[t]]]
      BY <1>1 DEF Estimated
    <2>2. \A t \in 1 .. n : YAHOO_TICKERS[t] \in DOMAIN ModelSymbol
      BY <1>1, TickersAssumption
    <2> HIDE DEF m, n
    <2> QED
      BY <2>1, <2>2 DEF Range
  <1>3. m.prices \in [1 .. n -> FiniteValues]
    <2>1. m.prices = Latest(days).prices
      BY DEF Estimated
    <2> HIDE DEF m, n
    <2> QED
      BY <1>1, <2>1, LatestPrices DEF IsFinite
  <1>4. m.mean_log_returns \in [1 .. n -> FiniteValues]
    <2>1. m.mean_log_returns = [t \in 1 .. n |-> SumOfReturns(LogReturns(days), t)]
      BY <1>1 DEF Estimated, MeanLogReturns
    <2>2. \A t \in 1 .. n : SumOfReturns(LogReturns(days), t) \in FiniteValues
      BY <1>1 DEF Estimable, Finite, MeanLogReturns, IsFinite
    <2> HIDE DEF m, n
    <2> QED
      BY <2>1, <2>2
  <1>5. m.covariance \in [1 .. n -> [1 .. n -> FiniteValues]]
    <2> DEFINE c == Covariance(LogReturns(days))
    <2>1. m.covariance = c
      BY DEF Estimated
    <2>2. /\ c \in [1 .. n -> Range(c)]
          /\ \A s \in 1 .. n : c[s] \in [1 .. n -> Range(c[s])]
      BY <1>1 DEF Covariance, Range
    <2>3. \A s, t \in 1 .. n : c[s][t] \in FiniteValues
      BY <1>1 DEF Estimable, Finite, IsFinite
    <2> HIDE DEF m, n, c
    <2>4. \A s \in 1 .. n : c[s] \in [1 .. n -> FiniteValues]
      BY <2>2, <2>3
    <2> QED
      BY <2>1, <2>2, <2>4
  <1> QED
    BY <1>2, <1>3, <1>4, <1>5

\* Both modules mean the same by a valid model.
LEMMA SameValidity == \A m : Loader!ValidModel(m) <=> ValidModel(m)
  BY DEF Loader!ValidModel, ValidModel, Loader!ValidSymbols, ValidSymbols,
         Loader!ValidDimensions, ValidDimensions, Loader!ValidValues, ValidValues,
         Loader!Symmetric, Symmetric, Loader!Magnitude, Magnitude,
         Loader!IsFinite, IsFinite, Loader!FiniteValues, FiniteValues

LEMMA WrittenIsAccepted ==
    ASSUME JsonAssumption, file \notin {NoFile, Torn}, Written(file)
    PROVE  LoaderAccepts
  <1> DEFINE n == Len(YAHOO_TICKERS)
  <1>1. PICK days : IsTable(days) /\ Estimable(days) /\ file = Estimated(days)
    BY DEF Written
  <1>2. n \in Nat
    BY TickersType
  <1>3. /\ file.symbols \in [1 .. n -> Range(ModelSymbol)]
        /\ file.prices \in [1 .. n -> FiniteValues]
        /\ file.mean_log_returns \in [1 .. n -> FiniteValues]
        /\ file.covariance \in [1 .. n -> [1 .. n -> FiniteValues]]
    BY <1>1, WrittenMembers
  <1> HIDE DEF n
  <1>4. ValidModel(file)
    BY <1>1, EstimatedIsValid
  <1>5. /\ Given.entry = "file" /\ Given.readable
        /\ Loader!document = Document(file)
    BY DEF Given, Loader!document
  <1>6. Loader!Described = [symbols          |-> file.symbols,
                            prices           |-> file.prices,
                            mean_log_returns |-> file.mean_log_returns,
                            covariance       |-> file.covariance]
    BY <1>5 DEF Loader!Described, Loader!HasField, Document
  <1> DEFINE d == Loader!Described
  <1>7. /\ d.symbols = file.symbols /\ d.prices = file.prices
        /\ d.mean_log_returns = file.mean_log_returns
        /\ d.covariance = file.covariance
    BY <1>6
  <1>8. Loader!ValidModel(d)
    <2>1. ValidModel(d)
      BY <1>4, <1>7
         DEF ValidModel, ValidSymbols, ValidDimensions, ValidValues
    <2> QED
      BY <2>1, SameValidity
  <1>9. FiniteValues \subseteq Int
    BY MaxFiniteAssumption DEF FiniteValues
  <1>10. \A f : /\ Loader!Range(f) = {f[i] : i \in DOMAIN f}
                /\ Range(f) = {f[i] : i \in DOMAIN f}
    BY DEF Loader!Range, Range
  <1>11. ASSUME NEW S, NEW f \in [1 .. n -> S]
         PROVE  f # NotArray /\ Len(f) = n /\ Loader!Range(f) \subseteq S
    <2>1. f \in Seq(S) /\ Len(f) = n
      BY <1>2, <1>11, FunctionIsSequence
    <2>2. f # NotArray
      BY <2>1 DEF JsonAssumption
    <2>3. Loader!Range(f) \subseteq S
      BY <1>10, <1>11
    <2> QED
      BY <2>1, <2>2, <2>3
  <1>12. /\ d.symbols # NotArray /\ NotString \notin Loader!Range(d.symbols)
         /\ d.prices # NotArray /\ NotNumber \notin Loader!Range(d.prices)
         /\ d.mean_log_returns # NotArray
         /\ NotNumber \notin Loader!Range(d.mean_log_returns)
    BY <1>3, <1>7, <1>9, <1>11 DEF JsonAssumption
  <1>13. /\ d.covariance # NotArray
         /\ \A row \in Loader!Range(d.covariance) :
               /\ row # NotArray /\ Len(row) = Len(d.covariance)
               /\ NotNumber \notin Loader!Range(row)
    BY <1>3, <1>7, <1>9, <1>11 DEF JsonAssumption
  <1>14. /\ Loader!document \notin {NotJson, NotObject}
         /\ {"symbols", "name"} \cap DOMAIN Loader!document # {}
         /\ {"prices", "mean_log_returns", "covariance"} \subseteq DOMAIN Loader!document
    <2>1. Loader!document \notin {NotJson, NotObject}
      BY <1>5 DEF JsonAssumption
    <2>2. DOMAIN Document(file) =
              {"schema_version", "as_of", "horizon_days", "return_model", "symbols",
               "prices", "mean_log_returns", "covariance", "observations"}
      BY DEF Document
    <2> QED
      BY <1>5, <2>1, <2>2
  <1> HIDE DEF d
  <1>15. Loader!Legible
    BY <1>12, <1>13, <1>14 DEF Loader!Legible, d
  <1> QED
    BY <1>5, <1>6, <1>8, <1>15 DEF LoaderAccepts, d

\* Whatever Yahoo returned and wherever the script failed or was killed: if the file
\* is a document at all, the loader accepts it and delivers the model the script
\* built, provided that an earlier run of the script wrote the files there were
\* before the first one.  LegibleDocumentsLoad of StartupProofs says that the loader
\* throws nothing then.
THEOREM WrittenFilesAreLoaded ==
    ASSUME JsonAssumption, \A old \in OldFiles : old \in {NoFile, Torn} \/ Written(old)
    PROVE  Spec => [](file \notin {NoFile, Torn} => LoaderAccepts)
  <1> DEFINE FileIsWritten == file \notin {NoFile, Torn} => Written(file)
  <1>1. Init => FileIsWritten
    BY DEF Init
  <1>2. ASSUME IInv, FileIsWritten, [Next]_vars
        PROVE  FileIsWritten'
    <2>1. model # Nothing => Written(model)
      BY <1>2 DEF IInv, Written
    <2>2. file' \in {file, Torn} \/ (model # Nothing /\ file' = model)
      <3>1. CASE UNCHANGED vars
        BY <3>1 DEF vars
      <3>2. CASE Next
        BY <1>2, <3>2 DEF Next, Download, Build, Fail, Open, Dump, Close,
                          OutputFails, Kill, Flushed, RunAgain, IInv
      <3> QED
        BY <1>2, <3>1, <3>2
    <2>3. file' # Torn => Written(file') \/ file' = NoFile
      BY <1>2, <2>1, <2>2
    <2>4. Written(file)' <=> Written(file')
      BY DEF Written, IsTable, Estimable, Estimated
    <2> QED
      BY <2>3, <2>4
  <1>3. FileIsWritten => (file \notin {NoFile, Torn} => LoaderAccepts)
    BY WrittenIsAccepted
  <1> QED
    BY <1>1, <1>2, <1>3, Invariance, PTL DEF Spec
================================================================================
