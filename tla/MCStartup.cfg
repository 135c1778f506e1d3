CONSTANTS
    MaxFinite = 100
    Precision = 2
    Blank = Blank
    NotJson = NotJson
    NotObject = NotObject
    NotArray = NotArray
    NotString = NotString
    NotNumber = NotNumber
    a = a
    b = b
    Decomposable <- MCDecomposable
    Sources <- MCSources
    Shocks <- MCShocks
SPECIFICATION Spec
INVARIANTS
    IInv
    LoaderIsFaithful
    AcceptedModelIsUsable
    PortfolioFollowsModel
CHECK_DEADLOCK FALSE
