CONSTANTS
    MaxFinite = 100
    Blank = Blank
    MaxPositions = 2
    Symbols <- MCSymbols
    Quantities <- MCQuantities
    PriceMaps <- MCPriceMaps
    ParameterMaps <- MCParameterMaps
SPECIFICATION StressSpec
INVARIANTS
    StressInv
    UniverseIsCovered
    EveryLineCounts
    FundFollowsIndex
CHECK_DEADLOCK FALSE
