---------------------------- MODULE MCDownloadAssets ----------------------------
(***************************************************************************)
(* Instance of DownloadAssets: two tickers and up to six trading days with *)
(* a weekend between them, on each of which prices may be missing.  Six    *)
(* days are the least that leave enough returns around a gap.  The second  *)
(* run downloads one of a few tables.                                      *)
(***************************************************************************)
EXTENDS DownloadAssets

MCTickers     == <<"BRK-B", "MU">>
MCModelSymbol == [ticker \in Range(MCTickers) |->
                     IF ticker = "BRK-B" THEN "BRK.B" ELSE ticker]

Row(first, second) == [ticker \in Range(MCTickers) |->
                          IF ticker = "MU" THEN second ELSE first]
Rows    == {Row(1, 1), Row(1, 2), Row(2, 1), Row(NaN, 1), Row(NaN, NaN)}
BadRows == {Row(0, 1), Row(1, -2), Row(1, Infinity)}

Data(tickers, days) == [tickers |-> tickers, days |-> days]
Tables(dates, rows) ==
    {Data(Range(MCTickers), days) : days \in [dates -> rows]}

\* A table whose model is accepted, and one with too few days.
Good  == [d \in {1, 4, 5, 6} |->
             CASE d = 1 -> Row(1, 1) [] d = 4 -> Row(1, 2) [] d = 5 -> Row(2, 2)
               [] d = 6 -> Row(1, 4)]
Short == [d \in {1, 4} |-> Row(d, 4)]

MCDownloads ==
    {NoData, Data({"MU"}, Good)}
    \cup Tables({1, 4, 5, 6, 7, 8}, Rows)
    \cup Tables({4, 5}, Rows \cup BadRows)

MCLaterDownloads == {Data(Range(MCTickers), days) : days \in {Good, Short}}

OldModel ==
    [as_of |-> 0, symbols |-> <<"BRK.B", "MU">>, prices |-> <<2, 2>>,
     mean_log_returns |-> <<0, 0>>, covariance |-> <<<<6, 0>>, <<0, 6>>>>,
     observations |-> 3]

MCOldFiles == {NoFile, OldModel}

\* The logarithm to base 2, rounded down.
MCLog(price) == CHOOSE k \in 0 .. price : 2 ^ k <= price /\ price < 2 ^ (k + 1)

\* Positive leading minors.
MCDecomposable(m) ==
    m[1][1] > 0 /\ m[1][1] * m[2][2] - m[2][1] * m[2][1] > 0
=================================================================================
