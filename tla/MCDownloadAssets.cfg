CONSTANTS
    MaxFinite = 100
    Precision = 1000
    Blank = Blank
    NaN = NaN
    NoData = NoData
    NoFile = NoFile
    Torn = Torn
    Log <- MCLog
    Decomposable <- MCDecomposable
    YAHOO_TICKERS <- MCTickers
    ModelSymbol <- MCModelSymbol
    Downloads <- MCDownloads
    LaterDownloads <- MCLaterDownloads
    MaxRuns = 2
    OldFiles <- MCOldFiles
SPECIFICATION Spec
INVARIANTS
    IInv
    WrittenModelIsValid
    FileIsReplacedByModel
    ReturnsAreDaily
CHECK_DEADLOCK FALSE
