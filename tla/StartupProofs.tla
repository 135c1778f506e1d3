----------------------------- MODULE StartupProofs -----------------------------
(***************************************************************************)
(* Whatever a market model file or a caller states, a model that has been  *)
(* accepted is good for a simulation.  The argument: what ValidModel says  *)
(* of symbols, prices and covariance is what the constructors of the       *)
(* market state, the portfolio, the generator and the scenarios and the    *)
(* validator ask for, because each of them is given a function of the      *)
(* model.                                                                  *)
(***************************************************************************)
EXTENDS Startup, ArithmeticProofs

\* The positions of a sequence are integers.
LEMMA ListedDomain ==
    ASSUME NEW x, Listed(x)
    PROVE  /\ Len(x) \in Nat
           /\ DOMAIN x = 1 .. Len(x)
  BY DEF Listed

\* The map main makes of a row of the model gives each symbol its own value.
LEMMA EmplacedAt ==
    ASSUME Listed(model.symbols), ValidSymbols(model.symbols), NEW values
    PROVE  /\ DOMAIN Emplaced(values) = {model.symbols[i] : i \in Assets}
           /\ \A i \in Assets : Emplaced(values)[model.symbols[i]] = values[i]
  <1>1. Assets \subseteq Int
    BY ListedDomain DEF Assets
  <1>2. ASSUME NEW i \in Assets
        PROVE  Emplaced(values)[model.symbols[i]] = values[i]
    <2> DEFINE First(k) ==
            /\ model.symbols[k] = model.symbols[i]
            /\ \A j \in Assets : model.symbols[j] = model.symbols[i] => k <= j
    <2>1. \A j \in Assets : model.symbols[j] = model.symbols[i] => j = i
      BY DEF ValidSymbols, Assets
    <2>2. First(i)
      BY <1>1, <2>1
    <2>3. (CHOOSE k \in Assets : First(k)) = i
      <3>1. \A k \in Assets : First(k) => k = i
        BY <2>1
      <3> QED
        BY <2>2, <3>1
    <2> QED
      BY <2>3 DEF Emplaced
  <1> QED
    BY <1>2 DEF Emplaced

\* A symbol of an accepted model is not blank.
LEMMA SymbolsNotBlank ==
    ASSUME ValidModel(model), NEW i \in Assets
    PROVE  model.symbols[i] # Blank
  BY DEF ValidModel, ValidSymbols, Assets

\* The market state main makes of an accepted model is accepted.
LEMMA PricesAccepted ==
    ASSUME Listed(model.symbols), Listed(model.prices), ValidModel(model)
    PROVE  ValidMarketState(Emplaced(model.prices))
  <1> SUFFICES ASSUME NEW s \in DOMAIN Emplaced(model.prices)
               PROVE  /\ s # Blank
                      /\ IsFinite(Emplaced(model.prices)[s])
                      /\ Emplaced(model.prices)[s] >= 0
    BY DEF ValidMarketState, ValidPrice
  <1>1. ValidSymbols(model.symbols)
    BY DEF ValidModel
  <1>2. /\ DOMAIN Emplaced(model.prices) = {model.symbols[i] : i \in Assets}
        /\ \A i \in Assets : Emplaced(model.prices)[model.symbols[i]] = model.prices[i]
    BY <1>1, EmplacedAt
  <1>3. PICK i \in Assets : s = model.symbols[i]
    BY <1>2
  <1>4. i \in DOMAIN model.prices
    BY ListedDomain DEF ValidModel, ValidDimensions, Assets
  <1>5. IsFinite(model.prices[i]) /\ model.prices[i] > 0
    BY <1>4 DEF ValidModel, ValidValues
  <1>6. model.prices[i] \in Int
    BY <1>5, MaxFiniteAssumption DEF IsFinite, FiniteValues
  <1> QED
    BY <1>2, <1>3, <1>5, <1>6, SymbolsNotBlank

\* Each position main makes of an accepted model is accepted.
LEMMA PositionsAccepted ==
    ASSUME ValidModel(model), NEW i \in Assets
    PROVE  ValidPosition(DemonstrationPosition(i))
  <1>1. DemonstrationPosition(i).symbol # Blank
    BY SymbolsNotBlank DEF DemonstrationPosition
  <1>2. DemonstrationPosition(i).quantity \in {100, -50}
    BY DEF DemonstrationPosition
  <1>3. MaxFinite \in Nat /\ MaxFinite >= 100
    BY Zenon, StartupAssumption, MaxFiniteAssumption
  <1>4. 100 \in FiniteValues /\ -50 \in FiniteValues
    BY <1>3 DEF FiniteValues
  <1> QED
    BY <1>1, <1>2, <1>4 DEF ValidPosition, IsFinite

\* A scenario of finite draws is accepted.
LEMMA ScenarioAccepted ==
    ASSUME Listed(model.symbols), ValidModel(model),
           NEW draws \in [Assets -> Shocks],
           \A i \in Assets : IsFinite(draws[i])
    PROVE  ValidScenario(Generated(draws))
  <1> DEFINE shocks == Generated(draws).price_shocks
  <1>0. shocks = Emplaced(draws)
    BY DEF Generated
  <1> SUFFICES ASSUME NEW s \in DOMAIN Emplaced(draws)
               PROVE  /\ s # Blank
                      /\ IsFinite(Emplaced(draws)[s])
                      /\ Emplaced(draws)[s] >= -1
    BY <1>0 DEF ValidScenario
  <1>1. ValidSymbols(model.symbols)
    BY DEF ValidModel
  <1>2. /\ DOMAIN Emplaced(draws) = {model.symbols[i] : i \in Assets}
        /\ \A i \in Assets : Emplaced(draws)[model.symbols[i]] = draws[i]
    BY <1>1, EmplacedAt
  <1>3. PICK i \in Assets : s = model.symbols[i]
    BY <1>2
  <1>4. draws[i] >= -1
    BY StartupAssumption
  <1> QED
    BY <1>2, <1>3, <1>4, SymbolsNotBlank

\* The validator accepts what main and the generator make of an accepted model.
LEMMA InputsAccepted ==
    ASSUME Listed(model.symbols), ValidModel(model),
           NEW draws \in [Assets -> Shocks]
    PROVE  AcceptsInputs([i \in Assets |-> DemonstrationPosition(i)],
                         Emplaced(model.prices), <<Generated(draws)>>)
  <1> DEFINE positions == [i \in Assets |-> DemonstrationPosition(i)]
             prices    == Emplaced(model.prices)
             generated == Generated(draws)
  <1>1. ValidSymbols(model.symbols)
    BY DEF ValidModel
  <1>2. positions # <<>>
    <2>1. model.symbols # <<>> /\ model.symbols \in Seq(Range(model.symbols))
      BY <1>1 DEF ValidSymbols, Listed
    <2>2. 1 \in Assets
      BY <2>1 DEF Assets
    <2> QED
      BY <2>2
  <1>3. ASSUME NEW i \in Assets
        PROVE  /\ positions[i].symbol \in DOMAIN prices
               /\ positions[i].symbol \in DOMAIN generated.price_shocks
    <2>1. positions[i].symbol = model.symbols[i]
      BY DEF DemonstrationPosition
    <2>2. generated.price_shocks = Emplaced(draws)
      BY DEF Generated
    <2> QED
      BY <1>1, <2>1, <2>2, EmplacedAt
  <1>4. generated # NullScenario /\ generated.name # Blank
    <2>1. DOMAIN generated = {"name", "price_shocks"}
      BY DEF Generated
    <2>2. DOMAIN NullScenario = {"null"}
      BY DEF NullScenario
    <2>3. generated.name = "Monte Carlo scenario"
      BY DEF Generated
    <2>4. generated # NullScenario
      BY <2>1, <2>2
    <2> QED
      BY <2>3, <2>4, StartupAssumption
  <1> HIDE DEF generated, prices
  <1>5. DOMAIN positions = Assets
    OBVIOUS
  <1> HIDE DEF positions
  <1>6. /\ <<generated>> # <<>>
        /\ \A k \in DOMAIN <<generated>> : <<generated>>[k] = generated
    OBVIOUS
  <1>7. AcceptsInputs(positions, prices, <<generated>>)
    BY <1>2, <1>3, <1>4, <1>5, <1>6 DEF AcceptsInputs, HasPrice, HasShock
  <1> QED
    BY <1>7 DEF positions, prices, generated

-----------------------------------------------------------------------------
(* The invariant.                                                          *)

LEMMA InitHolds == Init => ProductInv
  <1> SUFFICES ASSUME Init PROVE ProductInv
    OBVIOUS
  <1>1. CASE source.entry = "file"
    BY <1>1, SourcesAssumption
       DEF Init, ProductInv, ReadInv, Loaded, LoadPhases, AcceptedModelIsUsable, document, Arrays
  <1>2. CASE source.entry = "stream"
    BY <1>2, SourcesAssumption
       DEF Init, ProductInv, ReadInv, Loaded, LoadPhases, AcceptedModelIsUsable, document, Arrays
  <1>3. CASE source.entry = "values"
    BY <1>3, SourcesAssumption
       DEF Init, ProductInv, ReadInv, Loaded, LoadPhases, AcceptedModelIsUsable, document, Arrays
  <1> QED
    BY <1>1, <1>2, <1>3, SourcesAssumption DEF Init

\* A throw from the loader, or of an overflow from the generation, keeps the
\* invariant: nothing is left to be done.
LEMMA ThrowKeepsProductInv ==
    ASSUME NEW e, Throw(e), ProductInv,
           \/ phase \in LoadPhases \cup {"open"}
           \/ phase = "generate" /\ e = "overflow_error"
    PROVE  ProductInv'
  BY DEF Throw, ProductInv, ReadInv, Loaded, LoadPhases, AcceptedModelIsUsable

\* A step of the loader before the model is complete leaves what comes after it
\* alone.
LEMMA LoaderStepKeepsProductInv ==
    ASSUME ProductInv, ReadInv', phase \in LoadPhases \cup {"open"},
           phase' \in LoadPhases, UNCHANGED <<source, products, thrown>>
    PROVE  ProductInv'
  BY DEF ProductInv, Loaded, LoadPhases, AcceptedModelIsUsable

LEMMA OpenKeepsProductInv == ASSUME ProductInv, Open PROVE ProductInv'
  <1>1. CASE source.readable
    <2>1. phase = "open" /\ phase' = "parse"
          /\ UNCHANGED <<source, model, products, thrown>>
      BY <1>1 DEF Open
    <2>2. ReadInv'
      BY <2>1 DEF ProductInv, ReadInv, Loaded, LoadPhases, document, Arrays
    <2> QED
      BY <2>1, <2>2, LoaderStepKeepsProductInv DEF LoadPhases
  <1>2. CASE ~source.readable
    BY <1>2, ThrowKeepsProductInv DEF Open
  <1> QED
    BY <1>1, <1>2

LEMMA ParseKeepsProductInv == ASSUME ProductInv, Parse PROVE ProductInv'
  <1>0. phase \in LoadPhases
    BY DEF Parse, LoadPhases
  <1>1. CASE document = NotJson
    BY <1>0, <1>1, ThrowKeepsProductInv DEF Parse
  <1>2. CASE document = NotObject /\ document # NotJson
    BY <1>0, <1>2, ThrowKeepsProductInv DEF Parse
  <1>3. CASE document \notin {NotJson, NotObject}
    <2>1. phase = "parse" /\ phase' = "symbols"
          /\ UNCHANGED <<source, model, products, thrown>>
      BY <1>3 DEF Parse
    <2>2. ReadInv'
      BY <1>3, <2>1 DEF ProductInv, ReadInv, Loaded, LoadPhases, document, Arrays
    <2> QED
      BY <2>1, <2>2, LoaderStepKeepsProductInv DEF LoadPhases
  <1> QED
    BY <1>1, <1>2, <1>3

\* A field of the document that is not of a wrong type is a sequence.
LEMMA FieldListed ==
    ASSUME ProductInv, phase \in LoadPhases \ {"parse", "model"},
           NEW name \in DOMAIN document, document[name] # NotArray
    PROVE  Listed(document[name])
  BY DEF ProductInv, ReadInv, Arrays

\* ReadField adds one field and keeps the others.
LEMMA ReadFieldAdds ==
    ASSUME NEW name, NEW value, NEW following, ReadField(name, value, following)
    PROVE  /\ DOMAIN model' = DOMAIN model \cup {name}
           /\ model'[name] = value
           /\ \A field \in DOMAIN model : field # name => model'[field] = model[field]
           /\ phase' = following
           /\ UNCHANGED <<source, products, thrown>>
  BY DEF ReadField

LEMMA ReadSymbolsKeepsProductInv == ASSUME ProductInv, ReadSymbols PROVE ProductInv'
  <1>0. phase = "symbols" /\ phase \in LoadPhases \ {"parse", "model"}
    BY DEF ReadSymbols, LoadPhases
  <1>1. CASE ReadField("symbols", document[SymbolsElement], "prices")
             /\ HasField(SymbolsElement) /\ document[SymbolsElement] # NotArray
    <2>1. Listed(document[SymbolsElement])
      BY <1>0, <1>1, FieldListed DEF HasField
    <2>2. /\ "symbols" \in DOMAIN model'
          /\ Listed(model'.symbols)
          /\ phase' = "prices"
          /\ UNCHANGED <<source, products, thrown>>
      BY <1>1, <2>1, ReadFieldAdds
    <2>3. ReadInv'
      BY <1>0, <2>2 DEF ProductInv, ReadInv, Loaded, LoadPhases, document, Arrays
    <2> QED
      BY <1>0, <2>2, <2>3, LoaderStepKeepsProductInv DEF LoadPhases
  <1>2. CASE Throw(Translated("json_exception"))
    BY <1>0, <1>2, ThrowKeepsProductInv
  <1> QED
    BY <1>1, <1>2 DEF ReadSymbols

LEMMA ReadPricesKeepsProductInv == ASSUME ProductInv, ReadPrices PROVE ProductInv'
  <1>0. phase = "prices" /\ phase \in LoadPhases \ {"parse", "model"}
    BY DEF ReadPrices, ReadVector, LoadPhases
  <1>1. CASE ReadField("prices", document["prices"], "mean_log_returns")
             /\ HasField("prices") /\ document["prices"] # NotArray
    <2>1. Listed(document["prices"])
      BY <1>0, <1>1, FieldListed DEF HasField
    <2>2. /\ "symbols" \in DOMAIN model' /\ Listed(model'.symbols)
          /\ "prices" \in DOMAIN model' /\ Listed(model'.prices)
          /\ phase' = "mean_log_returns"
          /\ UNCHANGED <<source, products, thrown>>
      BY <1>0, <1>1, <2>1, ReadFieldAdds DEF ProductInv, ReadInv
    <2>3. ReadInv'
      BY <1>0, <2>2 DEF ProductInv, ReadInv, Loaded, LoadPhases, document, Arrays
    <2> QED
      BY <1>0, <2>2, <2>3, LoaderStepKeepsProductInv DEF LoadPhases
  <1>2. CASE \E e : Throw(e)
    BY <1>0, <1>2, ThrowKeepsProductInv
  <1> QED
    BY <1>1, <1>2 DEF ReadPrices, ReadVector

LEMMA ReadMeanLogReturnsKeepsProductInv == ASSUME ProductInv, ReadMeanLogReturns PROVE ProductInv'
  <1>0. phase = "mean_log_returns" /\ phase \in LoadPhases \ {"parse", "model"}
    BY DEF ReadMeanLogReturns, ReadVector, LoadPhases
  <1>1. CASE ReadField("mean_log_returns", document["mean_log_returns"], "covariance")
    <2>1. /\ "symbols" \in DOMAIN model' /\ Listed(model'.symbols)
          /\ "prices" \in DOMAIN model' /\ Listed(model'.prices)
          /\ phase' = "covariance"
          /\ UNCHANGED <<source, products, thrown>>
      BY <1>0, <1>1, ReadFieldAdds DEF ProductInv, ReadInv
    <2>2. ReadInv'
      BY <1>0, <2>1 DEF ProductInv, ReadInv, Loaded, LoadPhases, document, Arrays
    <2> QED
      BY <1>0, <2>1, <2>2, LoaderStepKeepsProductInv DEF LoadPhases
  <1>2. CASE \E e : Throw(e)
    BY <1>0, <1>2, ThrowKeepsProductInv
  <1> QED
    BY <1>1, <1>2 DEF ReadMeanLogReturns, ReadVector

LEMMA ReadCovarianceKeepsProductInv == ASSUME ProductInv, ReadCovariance PROVE ProductInv'
  <1>0. phase = "covariance" /\ phase \in LoadPhases \ {"parse", "model"}
    BY DEF ReadCovariance, LoadPhases
  <1>1. CASE ReadField("covariance", document.covariance, "model")
    <2>1. /\ Listed(model'.symbols) /\ Listed(model'.prices)
          /\ phase' = "model"
          /\ UNCHANGED <<source, products, thrown>>
      BY <1>0, <1>1, ReadFieldAdds DEF ProductInv, ReadInv
    <2>2. ReadInv'
      BY <1>0, <2>1 DEF ProductInv, ReadInv, Loaded, LoadPhases, document, Arrays
    <2> QED
      BY <1>0, <2>1, <2>2, LoaderStepKeepsProductInv DEF LoadPhases
  <1>2. CASE \E e : Throw(e)
    BY <1>0, <1>2, ThrowKeepsProductInv
  <1> QED
    BY <1>1, <1>2 DEF ReadCovariance

\* Only a valid model passes the constructor.
LEMMA ConstructModelKeepsProductInv == ASSUME ProductInv, ConstructModel PROVE ProductInv'
  <1>0. phase = "model" /\ phase \in LoadPhases
    BY DEF ConstructModel, LoadPhases
  <1>1. CASE ValidModel(model)
    <2>1. phase' = "market_state" /\ UNCHANGED <<source, model, products, thrown>>
      BY <1>1 DEF ConstructModel
    <2>2. ReadInv'
      BY <1>0, <2>1 DEF ProductInv, ReadInv, Loaded, LoadPhases, document, Arrays
    <2> QED
      BY <1>0, <1>1, <2>1, <2>2
         DEF ProductInv, Loaded, LoadPhases, AcceptedModelIsUsable
  <1>2. CASE ~ValidModel(model)
    BY <1>0, <1>2, ThrowKeepsProductInv DEF ConstructModel
  <1> QED
    BY <1>1, <1>2

\* What main and the generator make of a model changes only with the model.
LEMMA ModelStays ==
    ASSUME UNCHANGED model
    PROVE  /\ Assets' = Assets
           /\ Emplaced(model.prices)' = Emplaced(model.prices)
           /\ [i \in Assets |-> DemonstrationPosition(i)]'
                = [i \in Assets |-> DemonstrationPosition(i)]
  BY DEF Assets, Emplaced, DemonstrationPosition

\* A scenario generated from shocks stays the one generated from them.
LEMMA ScenarioStays ==
    ASSUME UNCHANGED model
    PROVE  Generated(relative_shocks)' = Generated(relative_shocks')
  <1>1. Assets' = Assets
    BY DEF Assets
  <1>2. Emplaced(relative_shocks)' = Emplaced(relative_shocks')
    BY <1>1 DEF Emplaced
  <1> QED
    BY <1>2 DEF Generated

\* A step after the model was constructed keeps the invariant when it keeps the
\* model and makes the next product from it.
LEMMA ProductStepKeepsProductInv ==
    ASSUME ProductInv, Loaded, UNCHANGED <<source, model, thrown>>,
           phase' \in {"portfolio", "generator", "generate", "validate", "ready"},
           market_state' = Emplaced(model.prices),
           phase' # "portfolio" =>
               portfolio' = [i \in Assets |-> DemonstrationPosition(i)],
           phase' \in {"validate", "ready"} =>
               /\ relative_shocks' \in [Assets -> Shocks]
               /\ scenario' = Generated(relative_shocks')
    PROVE  ProductInv'
  <1>1. /\ thrown'.in = "none"
        /\ phase' # "failed"
        /\ Loaded'
        /\ ReadInv'
    BY DEF ProductInv, ReadInv, Loaded, LoadPhases
  <1>2. ValidModel(model')
    BY DEF ProductInv
  <1>3. AcceptedModelIsUsable'
    BY <1>1 DEF AcceptedModelIsUsable
  <1>4. market_state' = Emplaced(model.prices)'
    BY ModelStays
  <1>5. phase' \notin {"market_state", "portfolio"} =>
            portfolio' = [i \in Assets |-> DemonstrationPosition(i)]'
    BY ModelStays
  <1>6. phase' \in {"validate", "ready"} =>
            /\ relative_shocks' \in [Assets' -> Shocks]
            /\ scenario' = Generated(relative_shocks)'
    BY ModelStays, ScenarioStays
  <1> QED
    BY <1>1, <1>2, <1>3, <1>4, <1>5, <1>6 DEF ProductInv

LEMMA MakeMarketStateKeepsProductInv == ASSUME ProductInv, MakeMarketState PROVE ProductInv'
  <1>1. phase = "market_state" /\ Loaded
    BY DEF MakeMarketState, Loaded
  <1>2. ValidMarketState(Emplaced(model.prices))
    BY <1>1, PricesAccepted DEF ProductInv, ReadInv
  <1>3. /\ market_state' = Emplaced(model.prices)
        /\ phase' = "portfolio"
        /\ UNCHANGED <<source, model, portfolio, relative_shocks, scenario,
                       thrown>>
    BY <1>2 DEF MakeMarketState
  <1> QED
    BY <1>1, <1>3, ProductStepKeepsProductInv

LEMMA MakeDemonstrationPortfolioKeepsProductInv ==
    ASSUME ProductInv, MakeDemonstrationPortfolio PROVE ProductInv'
  <1>1. phase = "portfolio" /\ Loaded
    BY DEF MakeDemonstrationPortfolio, Loaded
  <1>2. \A i \in Assets : ValidPosition(DemonstrationPosition(i))
    BY <1>1, PositionsAccepted DEF ProductInv
  <1>3. /\ portfolio' = [i \in Assets |-> DemonstrationPosition(i)]
        /\ phase' = "generator"
        /\ UNCHANGED <<source, model, market_state, relative_shocks, scenario,
                       thrown>>
    BY <1>2 DEF MakeDemonstrationPortfolio
  <1>4. market_state' = Emplaced(model.prices)
    BY <1>1, <1>3 DEF ProductInv
  <1> QED
    BY <1>1, <1>3, <1>4, ProductStepKeepsProductInv

LEMMA ConstructGeneratorKeepsProductInv == ASSUME ProductInv, ConstructGenerator PROVE ProductInv'
  <1>1. phase = "generator" /\ Loaded
    BY DEF ConstructGenerator, Loaded
  <1>2. Decomposable(model.covariance)
    BY <1>1 DEF ProductInv, ValidModel, ValidValues
  <1>3. phase' = "generate" /\ UNCHANGED <<source, model, products, thrown>>
    BY <1>2 DEF ConstructGenerator
  <1>4. /\ market_state' = Emplaced(model.prices)
        /\ portfolio' = [i \in Assets |-> DemonstrationPosition(i)]
    BY <1>1, <1>3 DEF ProductInv, products
  <1> QED
    BY <1>1, <1>3, <1>4, ProductStepKeepsProductInv

LEMMA GenerateKeepsProductInv == ASSUME ProductInv, Generate PROVE ProductInv'
  <1>1. phase = "generate" /\ Loaded
    BY DEF Generate, Loaded
  <1>2. PICK draws \in [Assets -> Shocks] :
            IF \E i \in Assets : ~IsFinite(draws[i]) THEN Throw("overflow_error")
            ELSE IF ~ValidScenario(Generated(draws)) THEN Throw("invalid_argument")
            ELSE /\ relative_shocks' = draws
                 /\ scenario' = Generated(draws)
                 /\ phase' = "validate"
                 /\ UNCHANGED <<source, model, market_state, portfolio, thrown>>
    BY DEF Generate
  <1>3. CASE \E i \in Assets : ~IsFinite(draws[i])
    BY <1>1, <1>2, <1>3, ThrowKeepsProductInv
  <1>4. CASE \A i \in Assets : IsFinite(draws[i])
    <2>1. ValidScenario(Generated(draws))
      BY <1>1, <1>4, ScenarioAccepted DEF ProductInv, ReadInv
    <2>2. /\ relative_shocks' = draws
          /\ scenario' = Generated(draws)
          /\ phase' = "validate"
          /\ UNCHANGED <<source, model, market_state, portfolio, thrown>>
      BY <1>2, <1>4, <2>1
    <2>3. /\ market_state' = Emplaced(model.prices)
          /\ portfolio' = [i \in Assets |-> DemonstrationPosition(i)]
      BY <1>1, <2>2 DEF ProductInv
    <2> QED
      BY <1>1, <2>2, <2>3, ProductStepKeepsProductInv
  <1> QED
    BY <1>3, <1>4

LEMMA ValidateKeepsProductInv == ASSUME ProductInv, Validate PROVE ProductInv'
  <1>1. phase = "validate" /\ Loaded
    BY DEF Validate, Loaded
  <1>2. relative_shocks \in [Assets -> Shocks] /\ scenario = Generated(relative_shocks)
    BY <1>1 DEF ProductInv
  <1>3. /\ market_state = Emplaced(model.prices)
        /\ portfolio = [i \in Assets |-> DemonstrationPosition(i)]
    BY <1>1 DEF ProductInv
  <1>4. ValidModel(model) /\ Listed(model.symbols)
    BY <1>1 DEF ProductInv, ReadInv
  <1>5. AcceptsInputs(portfolio, market_state, <<scenario>>)
    BY <1>2, <1>3, <1>4, InputsAccepted
  <1>6. phase' = "ready" /\ UNCHANGED <<source, model, products, thrown>>
    BY <1>5 DEF Validate
  <1> QED
    BY <1>1, <1>2, <1>3, <1>6, ProductStepKeepsProductInv DEF products

\* Every step of the start-up keeps the invariant.
LEMMA StepKeepsProductInv == ProductInv /\ [Next]_vars => ProductInv'
  <1> SUFFICES ASSUME ProductInv, [Next]_vars PROVE ProductInv'
    OBVIOUS
  <1>1. CASE Next
    BY <1>1, OpenKeepsProductInv, ParseKeepsProductInv, ReadSymbolsKeepsProductInv, ReadPricesKeepsProductInv,
       ReadMeanLogReturnsKeepsProductInv, ReadCovarianceKeepsProductInv, ConstructModelKeepsProductInv,
       MakeMarketStateKeepsProductInv, MakeDemonstrationPortfolioKeepsProductInv,
       ConstructGeneratorKeepsProductInv, GenerateKeepsProductInv, ValidateKeepsProductInv
       DEF Next
  <1>2. CASE UNCHANGED vars
    <2>1. UNCHANGED <<source, phase, model, market_state, portfolio,
                      relative_shocks, scenario, thrown>>
      BY <1>2 DEF vars, products
    <2>2. ReadInv' /\ (Loaded' <=> Loaded) /\ AcceptedModelIsUsable'
      BY <2>1 DEF ProductInv, ReadInv, Loaded, AcceptedModelIsUsable, LoadPhases, document, Arrays
    <2> QED
      <3>1. /\ ValidModel(model') = ValidModel(model)
            /\ relative_shocks' = relative_shocks
            /\ Generated(relative_shocks)' = Generated(relative_shocks)
        BY <2>1, ScenarioStays
      <3> QED
        BY <2>1, <2>2, <3>1, ModelStays DEF ProductInv
  <1> QED
    BY <1>1, <1>2

-----------------------------------------------------------------------------
(* What the loader has read is what the document states.                   *)

GoodRow(rows, i) == FullRow(rows, i) /\ NumericRow(rows, i)

\* Where no row stops the reading, each row is full and of numbers.
LEMMA NoBadRow ==
    ASSUME NEW rows, Listed(rows), \A i \in DOMAIN rows : ~BadRow(rows, i)
    PROVE  \A i \in DOMAIN rows : GoodRow(rows, i)
  <1> DEFINE T == {i \in DOMAIN rows : ~GoodRow(rows, i)}
  <1> SUFFICES ASSUME T # {} PROVE FALSE
    OBVIOUS
  <1>1. DOMAIN rows = 1 .. Len(rows) /\ Len(rows) \in Nat
    BY ListedDomain
  <1>2. T \subseteq Nat
    BY <1>1
  <1>3. PICK x \in T : \A y \in T : x <= y
    BY <1>2, LeastNat
  <1>4. \A j \in 1 .. (x - 1) : GoodRow(rows, j)
    BY <1>1, <1>3
  <1>5. x \in DOMAIN rows /\ ~GoodRow(rows, x)
    OBVIOUS
  <1>6. BadRow(rows, x)
    BY <1>4, <1>5 DEF BadRow, GoodRow
  <1> QED
    BY <1>5, <1>6

\* A document is legible if it is one and all of its fields are.
LEMMA LegibleByFields ==
    ASSUME source.entry # "values"
    PROVE  Legible <=>
              /\ document \notin {NotJson, NotObject}
              /\ \A member \in {"symbols", "prices", "mean_log_returns", "covariance"} :
                     LegibleField(member)
  <1>1. /\ Described.symbols = Stated("symbols")
        /\ Described.prices = Stated("prices")
        /\ Described.mean_log_returns = Stated("mean_log_returns")
        /\ Described.covariance = Stated("covariance")
    BY DEF Described, Stated, Element, SymbolsElement
  <1>2. HasField(Element("symbols")) <=> {"symbols", "name"} \cap DOMAIN document # {}
    BY DEF HasField, Element, SymbolsElement
  <1>3. \A member \in {"prices", "mean_log_returns", "covariance"} :
            HasField(Element(member)) <=> member \in DOMAIN document
    BY DEF HasField, Element
  <1>4. LegibleField("symbols") <=>
            /\ {"symbols", "name"} \cap DOMAIN document # {}
            /\ Described.symbols # NotArray
            /\ NotString \notin Range(Described.symbols)
    BY <1>1, <1>2 DEF LegibleField
  <1>5. LegibleField("prices") <=>
            /\ "prices" \in DOMAIN document
            /\ Described.prices # NotArray
            /\ NotNumber \notin Range(Described.prices)
    BY <1>1, <1>3 DEF LegibleField
  <1>6. LegibleField("mean_log_returns") <=>
            /\ "mean_log_returns" \in DOMAIN document
            /\ Described.mean_log_returns # NotArray
            /\ NotNumber \notin Range(Described.mean_log_returns)
    BY <1>1, <1>3 DEF LegibleField
  <1>7. LegibleField("covariance") <=>
            /\ "covariance" \in DOMAIN document
            /\ Described.covariance # NotArray
            /\ \A row \in Range(Described.covariance) :
                   /\ row # NotArray
                   /\ Len(row) = Len(Described.covariance)
                   /\ NotNumber \notin Range(row)
    <2> DEFINE rows == Stated("covariance")
    <2>1. (\A i \in DOMAIN rows : FullRow(rows, i) /\ NumericRow(rows, i)) <=>
          \A row \in Range(rows) :
              /\ row # NotArray
              /\ Len(row) = Len(rows)
              /\ NotNumber \notin Range(row)
      BY DEF Range, FullRow, NumericRow
    <2> HIDE DEF rows
    <2> QED
      BY <1>1, <1>3, <2>1 DEF LegibleField, rows
  <1> QED
    BY <1>4, <1>5, <1>6, <1>7 DEF Legible

\* Once all members have been read, they are the model described.
LEMMA AllRead ==
    ASSUME LoaderInv, ProductInv, phase = "model" \/ Loaded
    PROVE  Legible /\ model = Described
  <1>1. CASE source.entry = "values"
    BY <1>1 DEF LoaderInv, Legible, Described, Loaded
  <1>2. CASE source.entry # "values"
    <2>1. MembersRead = {"symbols", "prices", "mean_log_returns", "covariance"}
      BY DEF MembersRead, Loaded
    <2>2. /\ model = [member \in MembersRead |-> Stated(member)]
          /\ \A member \in MembersRead : LegibleField(member)
          /\ document \notin {NotJson, NotObject}
      BY <1>2 DEF LoaderInv, Loaded
    <2>3. Described = [member \in MembersRead |-> Stated(member)]
      BY <1>2, <2>1 DEF Described, Stated, Element, SymbolsElement
    <2> QED
      BY <1>2, <2>1, <2>2, <2>3, LegibleByFields
  <1> QED
    BY <1>1, <1>2

\* What a document states does not change.
LEMMA DocumentStays ==
    ASSUME UNCHANGED source
    PROVE  /\ document' = document
           /\ \A name : HasField(name)' = HasField(name)
           /\ SymbolsElement' = SymbolsElement
           /\ \A member : Stated(member)' = Stated(member)
           /\ \A member : LegibleField(member)' = LegibleField(member)
           /\ Legible' = Legible
           /\ Described' = Described
  <1>1. document' = document
    BY DEF document
  <1>2. \A name : HasField(name)' = HasField(name)
    BY <1>1 DEF HasField
  <1>3. SymbolsElement' = SymbolsElement
    BY <1>2 DEF SymbolsElement
  <1>4. \A member : Stated(member)' = Stated(member)
    BY <1>1, <1>3 DEF Stated, Element
  <1>5. \A member : LegibleField(member)' = LegibleField(member)
    BY <1>2, <1>3, <1>4 DEF LegibleField, Element
  <1>6. Described' = Described
    BY <1>1, <1>2 DEF Described
  <1>7. Legible' = Legible
    BY <1>1, <1>6 DEF Legible
  <1> QED
    BY <1>1, <1>2, <1>3, <1>4, <1>5, <1>6, <1>7

\* The loader is faithful when it throws what it should.
LEMMA ThrowKeepsLoaderInv ==
    ASSUME NEW e, Throw(e), ProductInv, LoaderInv,
           phase \in LoadPhases =>
               e = "invalid_argument" /\ ~(Legible /\ ValidModel(Described)),
           phase = "open" => e = "runtime_error" /\ ~source.readable
    PROVE  LoaderInv'
  <1>1. /\ phase' = "failed" /\ thrown'.what = e /\ thrown'.in = phase
        /\ UNCHANGED source
    BY DEF Throw
  <1>2. LoaderIsFaithful'
    BY <1>1, DocumentStays DEF LoaderIsFaithful
  <1> QED
    BY <1>1, <1>2 DEF LoaderInv

\* The readers work on a document.
LEMMA ReaderPhase ==
    ASSUME LoaderInv, phase \in LoadPhases \ {"model"}
    PROVE  /\ source.entry # "values"
           /\ phase # "parse" => document \notin {NotJson, NotObject}
  BY DEF LoaderInv, LoadPhases, Loaded

\* The JSON exceptions and the loader's own leave the loader as one type.
LEMMA LoaderTranslates ==
    ASSUME phase \in LoadPhases, LoaderInv
    PROVE  /\ Translated("invalid_argument") = "invalid_argument"
           /\ phase # "model" => Translated("json_exception") = "invalid_argument"
  <1>1. source.entry \in {"file", "stream", "values"}
    BY DEF LoaderInv
  <1> QED
    BY <1>1, ReaderPhase DEF Translated

\* A reader that finds its field illegible throws what it should.
LEMMA IllegibleKeepsLoaderInv ==
    ASSUME NEW member \in {"symbols", "prices", "mean_log_returns", "covariance"},
           ProductInv, LoaderInv, phase = member, ~LegibleField(member),
           \/ Throw(Translated("json_exception"))
           \/ Throw(Translated("invalid_argument"))
    PROVE  LoaderInv'
  <1>1. phase \in LoadPhases \ {"model"}
    BY DEF LoadPhases
  <1>2. ~Legible
    BY <1>1, ReaderPhase, LegibleByFields
  <1>3. Throw("invalid_argument")
    BY <1>1, LoaderTranslates
  <1> QED
    BY <1>1, <1>2, <1>3, ThrowKeepsLoaderInv DEF LoadPhases

\* A reader that finds its field legible adds it to what has been read.
LEMMA ReadKeepsLoaderInv ==
    ASSUME NEW member \in {"symbols", "prices", "mean_log_returns", "covariance"},
           NEW following \in LoadPhases \ {"parse"},
           ProductInv, LoaderInv, phase = member, LegibleField(member),
           ReadField(member, Stated(member), following),
           MembersRead' = MembersRead \cup {member}
    PROVE  LoaderInv'
  <1>1. /\ phase \in LoadPhases \ {"model", "parse"}
        /\ phase \notin {"open", "failed"}
    BY DEF LoadPhases
  <1>2. /\ source.entry # "values"
        /\ document \notin {NotJson, NotObject}
    BY <1>1, ReaderPhase
  <1>3. /\ model = [m \in MembersRead |-> Stated(m)]
        /\ \A m \in MembersRead : LegibleField(m)
    BY <1>1, <1>2 DEF LoaderInv
  <1>4. UNCHANGED <<source, thrown>> /\ phase' = following
    BY DEF ReadField
  <1>5. model' = [m \in MembersRead \cup {member} |-> Stated(m)]
    BY <1>3 DEF ReadField
  <1>6. model' = [m \in MembersRead' |-> Stated(m)']
    BY <1>4, <1>5, DocumentStays
  <1>7. \A m \in MembersRead' : LegibleField(m)'
    BY <1>3, <1>4, DocumentStays
  <1>8. thrown.in = "none"
    BY <1>1 DEF ProductInv
  <1>9. following # "open" /\ following # "failed"
    BY DEF LoadPhases
  <1>10. LoaderIsFaithful'
    BY <1>4, <1>8 DEF LoaderIsFaithful, LoadPhases
  <1> QED
    BY <1>2, <1>4, <1>6, <1>7, <1>9, <1>10, DocumentStays DEF LoaderInv

LEMMA OpenKeepsLoaderInv == ASSUME ProductInv, LoaderInv, Open PROVE LoaderInv'
  <1>1. phase = "open" /\ phase \notin LoadPhases
    BY DEF Open, LoadPhases
  <1>2. CASE source.readable
    <2>1. /\ phase' = "parse"
          /\ UNCHANGED <<source, model, products, thrown>>
      BY <1>2 DEF Open
    <2>2. MembersRead = {} /\ MembersRead' = {}
      BY <1>1, <2>1 DEF MembersRead
    <2>3. source.entry = "file" /\ thrown.in = "none"
      BY <1>1 DEF LoaderInv, ProductInv
    <2>4. LoaderIsFaithful'
      BY <2>1, <2>3 DEF LoaderIsFaithful, LoadPhases
    <2>5. model = [m \in {} |-> Stated(m)]
      BY <1>1, <2>2, <2>3 DEF LoaderInv
    <2>6. model' = [m \in MembersRead' |-> Stated(m)']
      BY <2>1, <2>2, <2>5
    <2> QED
      BY <2>1, <2>2, <2>3, <2>4, <2>6 DEF LoaderInv
  <1>3. CASE ~source.readable
    BY <1>1, <1>3, ThrowKeepsLoaderInv DEF Open
  <1> QED
    BY <1>2, <1>3

LEMMA ParseKeepsLoaderInv == ASSUME ProductInv, LoaderInv, Parse PROVE LoaderInv'
  <1>1. phase = "parse" /\ phase \in LoadPhases \ {"model"} /\ source.entry # "values"
    BY ReaderPhase DEF Parse, LoadPhases
  <1>2. CASE document \in {NotJson, NotObject}
    <2>1. Throw("invalid_argument")
      <3>1. CASE document = NotJson
        BY <1>1, <3>1, LoaderTranslates DEF Parse
      <3>2. CASE document # NotJson
        BY <1>1, <1>2, <3>2, LoaderTranslates DEF Parse
      <3> QED
        BY <3>1, <3>2
    <2>2. ~Legible
      BY <1>1, <1>2, LegibleByFields
    <2> QED
      BY <1>1, <2>1, <2>2, ThrowKeepsLoaderInv
  <1>3. CASE document \notin {NotJson, NotObject}
    <2>1. phase' = "symbols" /\ UNCHANGED <<source, model, products, thrown>>
      BY <1>3 DEF Parse
    <2>2. MembersRead = {} /\ MembersRead' = {}
      BY <1>1, <2>1 DEF MembersRead
    <2>3. thrown.in = "none"
      BY <1>1 DEF ProductInv
    <2>4. LoaderIsFaithful'
      BY <2>1, <2>3 DEF LoaderIsFaithful, LoadPhases
    <2>5. model = [m \in {} |-> Stated(m)]
      BY <1>1, <2>2 DEF LoaderInv
    <2>6. model' = [m \in MembersRead' |-> Stated(m)']
      BY <2>1, <2>2, <2>5
    <2> QED
      BY <1>1, <1>3, <2>1, <2>2, <2>4, <2>6, DocumentStays DEF LoaderInv
  <1> QED
    BY <1>2, <1>3

LEMMA ReadSymbolsKeepsLoaderInv ==
    ASSUME ProductInv, LoaderInv, ReadSymbols PROVE LoaderInv'
  <1>1. phase = "symbols"
    BY DEF ReadSymbols
  <1>2. LegibleField("symbols") <=>
            /\ HasField(SymbolsElement)
            /\ document[SymbolsElement] # NotArray
            /\ \A i \in DOMAIN document[SymbolsElement] :
                   document[SymbolsElement][i] # NotString
    BY DEF LegibleField, Element, Stated, Range
  <1>3. CASE LegibleField("symbols")
    <2>1. ReadField("symbols", Stated("symbols"), "prices")
      BY <1>2, <1>3 DEF ReadSymbols, Stated, Element
    <2>2. MembersRead = {} /\ MembersRead' = {"symbols"}
      BY <1>1, <2>1 DEF MembersRead, ReadField
    <2> QED
      BY <1>1, <1>3, <2>1, <2>2, ReadKeepsLoaderInv DEF LoadPhases
  <1>4. CASE ~LegibleField("symbols")
    <2>1. Throw(Translated("json_exception"))
      BY <1>2, <1>4 DEF ReadSymbols
    <2> QED
      BY <1>1, <1>4, <2>1, IllegibleKeepsLoaderInv
  <1> QED
    BY <1>3, <1>4

\* readVector, of the two members it reads.
LEMMA ReadVectorKeepsLoaderInv ==
    ASSUME ProductInv, LoaderInv,
           NEW member \in {"prices", "mean_log_returns"},
           NEW following \in LoadPhases \ {"parse"},
           ReadVector(member, following),
           phase' = following => MembersRead' = MembersRead \cup {member}
    PROVE  LoaderInv'
  <1>1. phase = member
    BY DEF ReadVector
  <1>2. LegibleField(member) <=>
            /\ HasField(member)
            /\ document[member] # NotArray
            /\ ~ \E i \in DOMAIN document[member] : document[member][i] = NotNumber
    BY DEF LegibleField, Element, Stated, Range
  <1>3. CASE LegibleField(member)
    <2>1. ReadField(member, Stated(member), following)
      BY <1>2, <1>3 DEF ReadVector, Stated, Element
    <2>2. MembersRead' = MembersRead \cup {member}
      BY <2>1 DEF ReadField
    <2> QED
      BY <1>1, <1>3, <2>1, <2>2, ReadKeepsLoaderInv
  <1>4. CASE ~LegibleField(member)
    <2>1. \/ Throw(Translated("json_exception"))
          \/ Throw(Translated("invalid_argument"))
      BY <1>2, <1>4 DEF ReadVector
    <2> QED
      BY <1>1, <1>4, <2>1, IllegibleKeepsLoaderInv
  <1> QED
    BY <1>3, <1>4

LEMMA ReadPricesKeepsLoaderInv ==
    ASSUME ProductInv, LoaderInv, ReadPrices PROVE LoaderInv'
  <1>1. phase = "prices"
    BY DEF ReadPrices, ReadVector
  <1>2. phase' = "mean_log_returns" => MembersRead' = MembersRead \cup {"prices"}
    BY <1>1 DEF MembersRead
  <1> QED
    BY <1>2, ReadVectorKeepsLoaderInv DEF ReadPrices, LoadPhases

LEMMA ReadMeanLogReturnsKeepsLoaderInv ==
    ASSUME ProductInv, LoaderInv, ReadMeanLogReturns PROVE LoaderInv'
  <1>1. phase = "mean_log_returns"
    BY DEF ReadMeanLogReturns, ReadVector
  <1>2. phase' = "covariance" => MembersRead' = MembersRead \cup {"mean_log_returns"}
    BY <1>1 DEF MembersRead
  <1> QED
    BY <1>2, ReadVectorKeepsLoaderInv DEF ReadMeanLogReturns, LoadPhases

\* readCovariance stops at the first bad row, if there is a bad row at all.
LEMMA ReadCovarianceKeepsLoaderInv ==
    ASSUME ProductInv, LoaderInv, ReadCovariance PROVE LoaderInv'
  <1> DEFINE rows == document["covariance"]
             bad  == {i \in DOMAIN rows : BadRow(rows, i)}
  <1>1. phase = "covariance" /\ phase \in LoadPhases \ {"parse", "model"}
    BY DEF ReadCovariance, LoadPhases
  <1>2. Element("covariance") = "covariance" /\ Stated("covariance") = rows
    BY DEF Element, Stated
  <1>3. CASE ~HasField("covariance") \/ rows = NotArray
    <2>1. ~LegibleField("covariance")
      BY <1>2, <1>3 DEF LegibleField
    <2>2. \/ Throw(Translated("json_exception"))
          \/ Throw(Translated("invalid_argument"))
      BY <1>3 DEF ReadCovariance
    <2> QED
      BY <1>1, <2>1, <2>2, IllegibleKeepsLoaderInv
  <1>4. CASE HasField("covariance") /\ rows # NotArray /\ bad = {}
    <2>1. Listed(rows)
      BY <1>1, <1>4, FieldListed DEF HasField
    <2>2. \A i \in DOMAIN rows : FullRow(rows, i) /\ NumericRow(rows, i)
      BY <1>4, <2>1, NoBadRow DEF GoodRow
    <2>3. LegibleField("covariance")
      BY <1>2, <1>4, <2>2 DEF LegibleField
    <2>4. ReadField("covariance", Stated("covariance"), "model")
      BY <1>2, <1>4 DEF ReadCovariance
    <2>5. MembersRead' = MembersRead \cup {"covariance"}
      BY <1>1, <2>4 DEF MembersRead, ReadField
    <2> QED
      BY <1>1, <2>3, <2>4, <2>5, ReadKeepsLoaderInv DEF LoadPhases
  <1>5. CASE HasField("covariance") /\ rows # NotArray /\ bad # {}
    <2>1. \/ Throw(Translated("json_exception"))
          \/ Throw(Translated("invalid_argument"))
      <3>1. \E i \in bad : Throw(Translated(IF FullRow(rows, i)
                                            THEN "json_exception"
                                            ELSE "invalid_argument"))
        BY <1>5 DEF ReadCovariance
      <3> QED
        BY <3>1
    <2>2. ~LegibleField("covariance")
      BY <1>2, <1>5 DEF LegibleField, BadRow
    <2> QED
      BY <1>1, <2>1, <2>2, IllegibleKeepsLoaderInv
  <1> QED
    BY <1>3, <1>4, <1>5

\* The constructor decides on the model described.
LEMMA ConstructModelKeepsLoaderInv ==
    ASSUME ProductInv, LoaderInv, ConstructModel PROVE LoaderInv'
  <1>1. phase = "model" /\ phase \in LoadPhases
    BY DEF ConstructModel, LoadPhases
  <1>2. Legible /\ model = Described
    BY <1>1, AllRead
  <1>3. CASE ValidModel(model)
    <2>1. phase' = "market_state" /\ UNCHANGED <<source, model, products, thrown>>
      BY <1>3 DEF ConstructModel
    <2>2. MembersRead' = MembersRead
      BY <1>1, <2>1 DEF MembersRead
    <2>3. thrown.in = "none"
      BY <1>1 DEF ProductInv
    <2>4. LoaderIsFaithful'
      BY <1>2, <1>3, <2>1, <2>3, DocumentStays DEF LoaderIsFaithful, LoadPhases
    <2>5. Loaded'
      BY <2>1 DEF Loaded
    <2> QED
      BY <1>1, <2>1, <2>2, <2>4, <2>5, DocumentStays DEF LoaderInv
  <1>4. CASE ~ValidModel(model)
    <2>1. Throw("invalid_argument")
      BY <1>1, <1>4, LoaderTranslates DEF ConstructModel
    <2> QED
      BY <1>1, <1>2, <1>4, <2>1, ThrowKeepsLoaderInv
  <1> QED
    BY <1>3, <1>4

\* What happens to an accepted model does not concern the loader.
LEMMA LoadedKeepsLoaderInv ==
    ASSUME ProductInv, LoaderInv, Loaded, UNCHANGED <<source, model>>,
           \/ Loaded' /\ UNCHANGED thrown
           \/ phase' = "failed" /\ thrown'.in = phase
    PROVE  LoaderInv'
  <1>1. Legible /\ model = Described /\ ValidModel(model)
    BY AllRead DEF ProductInv
  <1>2. thrown'.in \notin LoadPhases \cup {"open"}
    BY DEF ProductInv, Loaded, LoadPhases
  <1>3. LoaderIsFaithful'
    BY <1>1, <1>2, DocumentStays DEF LoaderIsFaithful
  <1>4. phase \notin {"open", "parse", "failed", "model"}
    BY DEF Loaded
  <1>5. Loaded' => MembersRead' = MembersRead
    BY DEF MembersRead, Loaded
  <1>6. Loaded' => phase' \notin {"open", "parse", "failed", "model"}
    BY DEF Loaded
  <1> QED
    BY <1>3, <1>4, <1>5, <1>6, DocumentStays DEF LoaderInv

\* main, the generator and the validator take an accepted model on, or throw.
LEMMA LaterSteps ==
    ASSUME \/ MakeMarketState \/ MakeDemonstrationPortfolio
           \/ ConstructGenerator \/ Generate \/ Validate
    PROVE  /\ Loaded
           /\ UNCHANGED <<source, model>>
           /\ \/ Loaded' /\ UNCHANGED thrown
              \/ phase' = "failed" /\ thrown'.in = phase
  <1>1. CASE MakeMarketState
    BY <1>1 DEF MakeMarketState, Throw, Loaded
  <1>2. CASE MakeDemonstrationPortfolio
    BY <1>2 DEF MakeDemonstrationPortfolio, Throw, Loaded
  <1>3. CASE ConstructGenerator
    BY <1>3 DEF ConstructGenerator, Throw, Loaded
  <1>4. CASE Generate
    BY <1>4 DEF Generate, Throw, Loaded
  <1>5. CASE Validate
    BY <1>5 DEF Validate, Throw, Loaded
  <1> QED
    BY <1>1, <1>2, <1>3, <1>4, <1>5

LEMMA InitLoaderInv == Init => LoaderInv
  <1> SUFFICES ASSUME Init PROVE LoaderInv
    OBVIOUS
  <1>1. source.entry \in {"file", "stream", "values"}
    BY SourcesAssumption DEF Init
  <1>2. /\ thrown.in = "none"
        /\ source.entry = "file" => phase = "open"
        /\ source.entry = "stream" => phase = "parse"
        /\ source.entry = "values" => phase = "model"
        /\ model = IF source.entry = "values" THEN document ELSE <<>>
    BY DEF Init, Absent
  <1>3. LoaderIsFaithful
    BY <1>1, <1>2 DEF LoaderIsFaithful, LoadPhases
  <1>4. CASE source.entry = "values"
    BY <1>2, <1>3, <1>4 DEF LoaderInv
  <1>5. CASE source.entry \in {"file", "stream"}
    <2>1. MembersRead = {}
      BY <1>2, <1>5 DEF MembersRead
    <2>2. <<>> = [member \in MembersRead |-> Stated(member)]
      BY <2>1
    <2> QED
      BY <1>2, <1>3, <1>5, <2>1, <2>2 DEF LoaderInv
  <1> QED
    BY <1>1, <1>4, <1>5

\* Every step of the start-up keeps what is known of the loader.
LEMMA StepKeepsLoaderInv == ProductInv /\ LoaderInv /\ [Next]_vars => LoaderInv'
  <1> SUFFICES ASSUME ProductInv, LoaderInv, [Next]_vars PROVE LoaderInv'
    OBVIOUS
  <1>1. CASE Next
    BY <1>1, OpenKeepsLoaderInv, ParseKeepsLoaderInv, ReadSymbolsKeepsLoaderInv,
       ReadPricesKeepsLoaderInv, ReadMeanLogReturnsKeepsLoaderInv,
       ReadCovarianceKeepsLoaderInv, ConstructModelKeepsLoaderInv,
       LaterSteps, LoadedKeepsLoaderInv
       DEF Next
  <1>2. CASE UNCHANGED vars
    <2>1. UNCHANGED <<source, phase, model, thrown>>
      BY <1>2 DEF vars
    <2>2. MembersRead' = MembersRead /\ (Loaded' <=> Loaded)
      BY <2>1 DEF MembersRead, Loaded
    <2>3. LoaderIsFaithful'
      <3>1. LoaderIsFaithful
        BY DEF LoaderInv
      <3> QED
        BY <2>1, <3>1, DocumentStays DEF LoaderIsFaithful
    <2> QED
      BY <2>1, <2>2, <2>3, DocumentStays DEF LoaderInv
  <1> QED
    BY <1>1, <1>2

\* The model that main, the generator and the validator work on is the one that
\* was described and is valid, and what they have made of it is a function of it.
THEOREM Invariance == Spec => []IInv
  <1>1. Init => IInv
    BY InitHolds, InitLoaderInv DEF IInv
  <1>2. IInv /\ [Next]_vars => IInv'
    BY StepKeepsProductInv, StepKeepsLoaderInv DEF IInv
  <1> QED
    BY <1>1, <1>2, PTL DEF Spec

\* The loader accepts exactly the documents that state a valid model, and
\* delivers the model they state; all that leaves it otherwise is
\* invalid_argument, or runtime_error where the file cannot be opened.
THEOREM FaithfulLoader == Spec => []LoaderIsFaithful
  <1>1. IInv => LoaderIsFaithful
    BY DEF IInv, LoaderInv
  <1> QED
    BY <1>1, Invariance, PTL

\* A file that can be opened and states a valid model is loaded: neither opening nor
\* reading it throws, and no step of the constructor.
THEOREM LegibleDocumentsLoad ==
    Spec => [](source.readable /\ Legible /\ ValidModel(Described) =>
                   thrown.in \notin LoadPhases \cup {"open"})
  <1>1. LoaderIsFaithful =>
            (source.readable /\ Legible /\ ValidModel(Described) =>
                 thrown.in \notin LoadPhases \cup {"open"})
    BY DEF LoaderIsFaithful
  <1> QED
    BY <1>1, FaithfulLoader, PTL

\* After the model was accepted, runJob reaches the tasks of the engine, or
\* fails with the overflow of a draw: no constructor and no check of the
\* validator rejects anything that was made of it.
THEOREM UsableModels == Spec => []AcceptedModelIsUsable
  <1>1. IInv => AcceptedModelIsUsable
    BY DEF IInv, ProductInv
  <1> QED
    BY <1>1, Invariance, PTL

\* When the engine starts, each asset has one position, at the price of its own
\* row of the model and with the shock that was drawn for that row.
THEOREM PortfolioOfModel == Spec => []PortfolioFollowsModel
  <1>1. IInv => PortfolioFollowsModel
    <2> SUFFICES ASSUME ProductInv, phase = "ready" PROVE PortfolioFollowsModel
      BY DEF PortfolioFollowsModel, IInv
    <2>1. /\ Listed(model.symbols)
          /\ ValidSymbols(model.symbols)
          /\ market_state = Emplaced(model.prices)
          /\ portfolio = [i \in Assets |-> DemonstrationPosition(i)]
          /\ scenario = Generated(relative_shocks)
      BY DEF ProductInv, ReadInv, Loaded, ValidModel
    <2>6. scenario.price_shocks = Emplaced(relative_shocks)
      BY <2>1 DEF Generated
    <2>2. /\ DOMAIN market_state = {model.symbols[i] : i \in Assets}
          /\ DOMAIN scenario.price_shocks = DOMAIN market_state
          /\ \A i \in Assets :
                /\ market_state[model.symbols[i]] = model.prices[i]
                /\ scenario.price_shocks[model.symbols[i]] = relative_shocks[i]
      BY <2>1, <2>6, EmplacedAt
    <2>3. \A i \in Assets : portfolio[i].symbol = model.symbols[i]
      BY <2>1 DEF DemonstrationPosition
    <2>4. Len(portfolio) = Len(model.symbols)
      <3>1. DOMAIN portfolio = 1 .. Len(model.symbols) /\ Len(model.symbols) \in Nat
        BY <2>1, ListedDomain DEF Assets
      <3>2. portfolio \in Seq(Range(portfolio))
        <4>1. \A i \in DOMAIN portfolio : portfolio[i] \in Range(portfolio)
          BY DEF Range
        <4>2. portfolio = [i \in 1 .. Len(model.symbols) |-> portfolio[i]]
          BY <2>1, <3>1
        <4> QED
          BY <3>1, <4>1, <4>2
      <3> QED
        BY <3>1, <3>2
    <2>5. \A i, j \in Assets : portfolio[i].symbol = portfolio[j].symbol => i = j
      BY <2>1, <2>3 DEF ValidSymbols, Assets
    <2> QED
      BY <2>2, <2>3, <2>4, <2>5 DEF PortfolioFollowsModel
  <1> QED
    BY <1>1, Invariance, PTL
================================================================================
