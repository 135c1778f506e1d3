CONSTANTS
    WordBase = 2
    Seeds <- MCSeeds
    ScenarioCount = 3
    MaxJobs = 4
SPECIFICATION Spec
INVARIANTS
    StopIsPrompt
    SuccessIsReported
    StreamsDistinct
    IInv
PROPERTIES
    StopEndsProcess
CHECK_DEADLOCK FALSE
