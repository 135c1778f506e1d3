CONSTANTS
    WordBase = 2
    Seeds <- MCSeeds
    BaseSeeds <- MCBaseSeeds
    ScenarioCounts <- MCScenarioCounts
    ThreadCounts <- MCThreadCounts
    MaxJobs = 2
    MaxSignals = 2
SPECIFICATION ProcessSpec
INVARIANTS
    FlagReadRaceFree
    WorkersEndFirst
    JobUsesOwnStreams
    ProcessInv
PROPERTIES
    ImplementsJobLoop
CHECK_DEADLOCK FALSE
