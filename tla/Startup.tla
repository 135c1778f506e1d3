-------------------------------- MODULE Startup --------------------------------
(***************************************************************************)
(* From a market model file to the inputs of the first simulation: the     *)
(* loader, the constructor of MarketModel, and what main and runJob make   *)
(* of an accepted model until the validator of the engine has passed it.   *)
(*                                                                         *)
(* A caller enters with a file (loadFromFile), a stream (load) or the      *)
(* values themselves (the constructor).  A document is NotJson, NotObject  *)
(* or a function from the names of its fields to their values; a value is  *)
(* a sequence or NotArray, and an element that is not of the type the      *)
(* loader asks for is NotString or NotNumber.  Numbers read from JSON are  *)
(* finite: the parser rejects others.                                      *)
(***************************************************************************)
EXTENDS MarketModel, SimulationValidator

CONSTANTS
    Sources,   \* [entry, readable, document]
    Shocks,    \* what expm1 of a log return may give; at least -1
    NotJson, NotObject, NotArray, NotString, NotNumber

ASSUME StartupAssumption ==
    /\ MaxFinite >= 100
    /\ Blank # "Monte Carlo scenario"
    /\ \A shock \in Shocks : shock \in Int /\ shock >= -1

Listed(x) == x \in Seq(Range(x))

\* A value that is not NotArray is a sequence.
ASSUME SourcesAssumption ==
    \A s \in Sources :
        /\ s.entry \in {"file", "stream", "values"}
        /\ s.entry = "values" => Listed(s.document.symbols) /\ Listed(s.document.prices)
        /\ s.entry # "values" /\ s.document \notin {NotJson, NotObject} =>
              \A name \in DOMAIN s.document :
                  s.document[name] # NotArray => Listed(s.document[name])

VARIABLES
    source,
    phase,        \* the step that is next, "ready" or "failed"
    model,        \* the members read so far, and the model once constructed
    market_state,
    portfolio,
    relative_shocks, \* history: the shock of each row in the first scenario
    scenario,     \* the first scenario generated
    thrown        \* the exception that left its step, and the step

products == <<market_state, portfolio, relative_shocks, scenario>>
vars     == <<source, phase, model, products, thrown>>

document == source.document
Absent   == <<>>

Init ==
    /\ source \in Sources
    /\ phase = CASE source.entry = "file"   -> "open"
                 [] source.entry = "stream" -> "parse"
                 [] source.entry = "values" -> "model"
    /\ model = IF source.entry = "values" THEN document ELSE Absent
    /\ market_state = Absent /\ portfolio = Absent
    /\ relative_shocks = Absent /\ scenario = Absent
    /\ thrown = [what |-> "none", in |-> "none"]

Throw(e) ==
    /\ thrown' = [what |-> e, in |-> phase]
    /\ phase' = "failed"
    /\ UNCHANGED <<source, model, products>>

-----------------------------------------------------------------------------
(* The loader.                                                             *)

\* Mutant of Translated: load passes the exceptions of the JSON library on.
TranslatedByFileOnly(e) ==
    IF source.entry = "file" THEN "invalid_argument" ELSE e

\* The exception that leaves the loader when e is thrown in it: load turns the
\* exceptions of the JSON library into invalid_argument, loadFromFile all.
Translated(e) ==
    IF source.entry = "file" \/ (source.entry = "stream" /\ e = "json_exception")
    THEN "invalid_argument" ELSE e

Open ==
    /\ phase = "open"
    /\ IF source.readable
       THEN phase' = "parse" /\ UNCHANGED <<source, model, products, thrown>>
       ELSE Throw("runtime_error")

\* The steps that read: the fields of model appear one after the other.
ReadField(name, value, following) ==
    /\ model' = [field \in DOMAIN model \cup {name} |->
                    IF field = name THEN value ELSE model[field]]
    /\ phase' = following
    /\ UNCHANGED <<source, products, thrown>>

Parse ==
    /\ phase = "parse"
    /\ CASE document = NotJson   -> Throw(Translated("json_exception"))
         [] document = NotObject -> Throw(Translated("invalid_argument"))
         [] OTHER -> /\ phase' = "symbols"
                     /\ UNCHANGED <<source, model, products, thrown>>

HasField(name) == name \in DOMAIN document

\* symbolsElement: the field the symbols are read from
SymbolsElement == IF HasField("symbols") THEN "symbols" ELSE "name"

ReadSymbols ==
    /\ phase = "symbols"
    /\ IF /\ HasField(SymbolsElement)
          /\ document[SymbolsElement] # NotArray
          /\ \A i \in DOMAIN document[SymbolsElement] :
                 document[SymbolsElement][i] # NotString
       THEN ReadField("symbols", document[SymbolsElement], "prices")
       ELSE Throw(Translated("json_exception"))

\* readVector
ReadVector(name, following) ==
    /\ phase = name
    /\ IF ~HasField(name) THEN Throw(Translated("json_exception"))
       ELSE IF document[name] = NotArray
       THEN Throw(Translated("invalid_argument"))
       ELSE IF \E i \in DOMAIN document[name] : document[name][i] = NotNumber
       THEN Throw(Translated("json_exception"))
       ELSE ReadField(name, document[name], following)

ReadPrices         == ReadVector("prices", "mean_log_returns")
ReadMeanLogReturns == ReadVector("mean_log_returns", "covariance")

\* A row that is an array of as many elements as there are rows.
FullRow(rows, i) == rows[i] # NotArray /\ Len(rows[i]) = Len(rows)

\* A row whose elements can be read.
NumericRow(rows, i) == \A j \in DOMAIN rows[i] : rows[i][j] # NotNumber

\* The first row in which reading stops, if there is one.
BadRow(rows, i) ==
    /\ ~(FullRow(rows, i) /\ NumericRow(rows, i))
    /\ \A j \in 1 .. (i - 1) : FullRow(rows, j) /\ NumericRow(rows, j)

\* readCovariance
ReadCovariance ==
    /\ phase = "covariance"
    /\ IF ~HasField("covariance") THEN Throw(Translated("json_exception"))
       ELSE IF document.covariance = NotArray
       THEN Throw(Translated("invalid_argument"))
       ELSE LET rows == document.covariance
                bad  == {i \in DOMAIN rows : BadRow(rows, i)}
            IN  IF bad = {} THEN ReadField("covariance", rows, "model")
                ELSE \E i \in bad :
                         Throw(Translated(IF FullRow(rows, i)
                                          THEN "json_exception"
                                          ELSE "invalid_argument"))

\* The constructor of MarketModel.
ConstructModel ==
    /\ phase = "model"
    /\ IF ValidModel(model)
       THEN phase' = "market_state" /\ UNCHANGED <<source, model, products, thrown>>
       ELSE Throw(Translated("invalid_argument"))

-----------------------------------------------------------------------------
(* main and runJob.                                                        *)

Assets == DOMAIN model.symbols

\* emplace into an unordered_map: the first value of a key stays.
Emplaced(values) ==
    [s \in {model.symbols[i] : i \in Assets} |->
        values[CHOOSE i \in Assets : /\ model.symbols[i] = s
                                     /\ \A j \in Assets : model.symbols[j] = s => i <= j]]

MakeMarketState ==
    /\ phase = "market_state"
    /\ IF ValidMarketState(Emplaced(model.prices))
       THEN /\ market_state' = Emplaced(model.prices)
            /\ phase' = "portfolio"
            /\ UNCHANGED <<source, model, portfolio, relative_shocks, scenario,
                           thrown>>
       ELSE Throw("invalid_argument")

\* Assets are long and short in turn, the first one long.
DemonstrationPosition(i) ==
    [symbol |-> model.symbols[i], quantity |-> IF i % 2 = 1 THEN 100 ELSE -50]

MakeDemonstrationPortfolio ==
    /\ phase = "portfolio"
    /\ IF \A i \in Assets : ValidPosition(DemonstrationPosition(i))
       THEN /\ portfolio' = [i \in Assets |-> DemonstrationPosition(i)]
            /\ phase' = "generator"
            /\ UNCHANGED <<source, model, market_state, relative_shocks, scenario,
                           thrown>>
       ELSE Throw("invalid_argument")

\* MonteCarloScenarioGenerator{std::move(market_model)}
ConstructGenerator ==
    /\ phase = "generator"
    /\ IF Decomposable(model.covariance)
       THEN phase' = "generate" /\ UNCHANGED <<source, model, products, thrown>>
       ELSE Throw("invalid_argument")

\* Mutant of Generated: every asset is given the shock of the first row.
GeneratedFirst(draws) ==
    [name |-> "Monte Carlo scenario",
     price_shocks |-> Emplaced([i \in Assets |-> draws[1]])]

\* The scenario of the shocks drawn for the rows.
Generated(draws) ==
    [name |-> "Monte Carlo scenario", price_shocks |-> Emplaced(draws)]

\* The first scenario: generatePriceShocks and the constructor of Scenario.
Generate ==
    /\ phase = "generate"
    /\ \E draws \in [Assets -> Shocks] :
          IF \E i \in Assets : ~IsFinite(draws[i]) THEN Throw("overflow_error")
          ELSE IF ~ValidScenario(Generated(draws)) THEN Throw("invalid_argument")
          ELSE /\ relative_shocks' = draws
               /\ scenario' = Generated(draws)
               /\ phase' = "validate"
               /\ UNCHANGED <<source, model, market_state, portfolio, thrown>>

\* The first thing SimulationEngine::run does.
Validate ==
    /\ phase = "validate"
    /\ IF AcceptsInputs(portfolio, market_state, <<scenario>>)
       THEN phase' = "ready" /\ UNCHANGED <<source, model, products, thrown>>
       ELSE Throw("invalid_argument")

-----------------------------------------------------------------------------

Next ==
    \/ Open \/ Parse \/ ReadSymbols \/ ReadPrices \/ ReadMeanLogReturns
    \/ ReadCovariance \/ ConstructModel
    \/ MakeMarketState \/ MakeDemonstrationPortfolio
    \/ ConstructGenerator \/ Generate \/ Validate

Spec == Init /\ [][Next]_vars

-----------------------------------------------------------------------------
(* Properties.                                                             *)

LoadPhases == {"parse", "symbols", "prices", "mean_log_returns", "covariance",
               "model"}

\* What the caller passed, read as a model: each member is the field of that
\* name; the symbols have an older name, which counts where the document has no
\* field of the newer one.
Described ==
    IF source.entry = "values" THEN document
    ELSE [symbols |-> IF HasField("symbols") THEN document.symbols
                      ELSE document.name,
          prices           |-> document.prices,
          mean_log_returns |-> document.mean_log_returns,
          covariance       |-> document.covariance]

\* A document can be read as a model: the fields are there and of their types.
Legible ==
    source.entry # "values" =>
        /\ document \notin {NotJson, NotObject}
        /\ {"symbols", "name"} \cap DOMAIN document # {}
        /\ {"prices", "mean_log_returns", "covariance"} \subseteq DOMAIN document
        /\ Described.symbols # NotArray
        /\ NotString \notin Range(Described.symbols)
        /\ \A vector \in {Described.prices, Described.mean_log_returns} :
               vector # NotArray /\ NotNumber \notin Range(vector)
        /\ Described.covariance # NotArray
        /\ \A row \in Range(Described.covariance) :
               /\ row # NotArray
               /\ Len(row) = Len(Described.covariance)
               /\ NotNumber \notin Range(row)

\* The loader accepts exactly the documents that state a valid model, and
\* delivers that model.  Nothing else leaves it than invalid_argument, or
\* runtime_error for a file that cannot be opened: no exception of the JSON
\* library reaches a caller.
LoaderIsFaithful ==
    /\ phase \notin LoadPhases \cup {"open", "failed"} =>
          Legible /\ model = Described /\ ValidModel(model)
    /\ thrown.in \in LoadPhases =>
          thrown.what = "invalid_argument" /\ ~(Legible /\ ValidModel(Described))
    /\ thrown.in = "open" => thrown.what = "runtime_error" /\ ~source.readable

\* A model that was accepted is good for a simulation: main, the generator and
\* the validator throw nothing after that but the overflow of a draw.
AcceptedModelIsUsable ==
    thrown.in \notin LoadPhases \cup {"none", "open"} =>
        thrown.what = "overflow_error" /\ thrown.in = "generate"

\* Every asset has one position, valued at the price of the asset's own row of
\* the model and stressed by the shock that was drawn for that row.
PortfolioFollowsModel ==
    phase = "ready" =>
        /\ Len(portfolio) = Len(model.symbols)
        /\ DOMAIN market_state = {model.symbols[i] : i \in Assets}
        /\ DOMAIN scenario.price_shocks = DOMAIN market_state
        /\ \A i \in Assets :
               /\ portfolio[i].symbol = model.symbols[i]
               /\ market_state[portfolio[i].symbol] = model.prices[i]
               /\ scenario.price_shocks[portfolio[i].symbol] = relative_shocks[i]
               /\ \A j \in Assets : portfolio[i].symbol = portfolio[j].symbol => i = j

\* The steps after the model was constructed.
Loaded == phase \in {"market_state", "portfolio", "generator", "generate",
                     "validate", "ready"}

\* The arrays of a document are sequences.
Arrays ==
    \A name \in DOMAIN document :
        document[name] # NotArray => Listed(document[name])

\* What has been read is a sequence, and so is what is left to be read.
ReadInv ==
    /\ phase \in {"open", "parse"} /\ document \notin {NotJson, NotObject} => Arrays
    /\ phase \in LoadPhases \ {"parse", "model"} => Arrays
    /\ phase \in {"prices", "mean_log_returns", "covariance"} =>
          "symbols" \in DOMAIN model /\ Listed(model.symbols)
    /\ phase \in {"mean_log_returns", "covariance"} =>
          "prices" \in DOMAIN model /\ Listed(model.prices)
    /\ phase = "model" \/ Loaded => Listed(model.symbols) /\ Listed(model.prices)

\* What has been made of an accepted model: the model is valid, and each product
\* is a function of it.
ProductInv ==
    /\ phase \in LoadPhases \cup {"open", "failed"} \/ Loaded
    /\ phase # "failed" => thrown.in = "none"
    /\ ReadInv
    /\ Loaded => ValidModel(model)
    /\ Loaded /\ phase # "market_state" => market_state = Emplaced(model.prices)
    /\ Loaded /\ phase \notin {"market_state", "portfolio"} =>
          portfolio = [i \in Assets |-> DemonstrationPosition(i)]
    /\ phase \in {"validate", "ready"} =>
          /\ relative_shocks \in [Assets -> Shocks]
          /\ scenario = Generated(relative_shocks)
    /\ AcceptedModelIsUsable

\* The field of the document a member is read from, and its value.
Element(member) == IF member = "symbols" THEN SymbolsElement ELSE member
Stated(member)  == document[Element(member)]

\* The field is there and of its type.
LegibleField(member) ==
    /\ HasField(Element(member))
    /\ Stated(member) # NotArray
    /\ member = "symbols" => NotString \notin Range(Stated(member))
    /\ member \in {"prices", "mean_log_returns"} => NotNumber \notin Range(Stated(member))
    /\ member = "covariance" =>
          \A i \in DOMAIN Stated(member) :
              FullRow(Stated(member), i) /\ NumericRow(Stated(member), i)

\* The members that have been read when a step is next.
MembersRead ==
    CASE phase \in {"open", "parse", "symbols"} -> {}
      [] phase = "prices"           -> {"symbols"}
      [] phase = "mean_log_returns" -> {"symbols", "prices"}
      [] phase = "covariance"       -> {"symbols", "prices", "mean_log_returns"}
      [] OTHER -> {"symbols", "prices", "mean_log_returns", "covariance"}

\* What has been read is what the document states, and could be read.
LoaderInv ==
    /\ source.entry \in {"file", "stream", "values"}
    /\ source.entry = "values" =>
          phase \in {"model", "failed"} \/ Loaded
    /\ phase = "open" => source.entry = "file"
    /\ source.entry = "values" /\ phase # "failed" => model = document
    /\ source.entry # "values" /\ phase # "failed" =>
          /\ model = [member \in MembersRead |-> Stated(member)]
          /\ \A member \in MembersRead : LegibleField(member)
    /\ source.entry # "values" /\ phase \notin {"open", "parse", "failed"} =>
          document \notin {NotJson, NotObject}
    /\ LoaderIsFaithful

\* The inductive invariant of the start-up.
IInv == ProductInv /\ LoaderInv
================================================================================
