CONSTANTS
    MaxFinite = 12
    Precision = 6
    Blank = Blank
    a = a
    b = b
    Portfolios <- MCPortfolios
    MarketStates <- MCMarketStates
    ScenarioLists <- MCScenarioLists
    SettingsValues <- MCSettingsValues
SPECIFICATION Spec
INVARIANTS
    IInv
    ValidationIsComplete
    ReportReconciles
    LongLossBounded
    RiskMatchesResults
CHECK_DEADLOCK FALSE
