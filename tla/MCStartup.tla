------------------------------- MODULE MCStartup -------------------------------
(***************************************************************************)
(* Instance of Startup: documents with up to two assets, each field absent,*)
(* of a wrong type, of every length from 0 to 3 or with an illegal         *)
(* element, independently of the others; the same as values passed to the  *)
(* constructor, which may be infinite.  The tolerance admits an asymmetry  *)
(* of 1 where the largest entry is 2 or more.                              *)
(***************************************************************************)
EXTENDS Startup

CONSTANTS a, b

MCSymbols ==
    {<<>>, <<a>>, <<Blank>>, <<a, b>>, <<a, a>>, <<b, Blank>>}
MCPrices  == {<<>>, <<2>>, <<0>>, <<-1>>, <<2, 1>>, <<1, -1>>, <<1, 1, 1>>}
MCReturns == {<<0>>, <<0, 1>>}
MCCovariances ==
    {<<>>} \cup {<<<<x>>>> : x \in {0, 1}}
    \cup {<<<<x, y>>, <<z, w>>>> : x, w \in {1, 2}, y, z \in {0, 1, 2}}

\* The ways to give a field: no way, or one of the values.
Field(name, values) == {<<>>} \cup {name :> value : value \in values}

MCDocuments ==
    {symbols @@ older @@ prices @@ returns @@ covariance :
        symbols \in Field("symbols", MCSymbols \cup {NotArray, <<a, NotString>>}),
        older \in Field("name", {<<b>>}),
        prices \in Field("prices", MCPrices \cup {NotArray, <<1, NotNumber>>}),
        returns \in Field("mean_log_returns", MCReturns \cup {NotArray}),
        covariance \in Field("covariance",
            MCCovariances \cup {NotArray, <<NotArray>>, <<<<1, 0>>>>, <<<<NotNumber>>>>,
                                <<<<1, NotNumber>>, <<0>>>>})}

MCValues ==
    [symbols : MCSymbols, prices : MCPrices \cup {<<Infinity>>},
     mean_log_returns : MCReturns \cup {<<Infinity>>},
     covariance : MCCovariances \cup {<<<<Infinity>>>>, <<<<1, 0>>>>}]

MCSources ==
    [entry : {"stream"}, readable : {TRUE}, document : MCDocuments]
    \cup [entry : {"file"}, readable : {TRUE},
          document : {d \in MCDocuments : "name" \notin DOMAIN d}]
    \cup [entry : {"file"}, readable : {FALSE}, document : {<<>>}]
    \cup [entry : {"file", "stream"}, readable : {TRUE}, document : {NotJson, NotObject}]
    \cup [entry : {"values"}, readable : {TRUE}, document : MCValues]

MCShocks == {-1, 0, 2, Infinity}

\* A matrix of at most two rows is decomposed if its leading minors are
\* positive; only the lower triangle is read.
MCDecomposable(m) ==
    /\ m[1][1] > 0
    /\ Len(m) = 2 => m[1][1] * m[2][2] - m[2][1] * m[2][1] > 0
===============================================================================
