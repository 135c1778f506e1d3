CONSTANTS
    MaxFinite = 100
    Precision = 4
    MaxResults = 4
    PnlValues <- MCPnlValues
    WorstCounts <- MCWorstCounts
    Confidences <- MCConfidences
SPECIFICATION Spec
INVARIANTS
    VarIsQuantile
    CvarIsTailMean
    WorstAreWorst
CHECK_DEADLOCK FALSE
