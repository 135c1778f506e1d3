CONSTANTS
    MaxFinite = 3
    Precision = 4
    MaxResults = 4
    PnlValues <- MCPnlValues
    WorstCounts <- MCWorstCounts
    Confidences <- MCConfidences
SPECIFICATION Spec
INVARIANTS
    CvarIsTailMean
CHECK_DEADLOCK FALSE
