CONSTANTS
    Arguments <- MCArguments
    NumberOf <- MCNumberOf
    MaxArguments = 4
    HardwareThreads = 0
SPECIFICATION Spec
INVARIANTS
    IInv
    ParsesCommandLine
    OptionsAreUsable
CHECK_DEADLOCK FALSE
