CONSTANTS
    WordBase = 3
    Seeds <- MCSeeds
    ScenarioCounts <- MCScenarioCounts
    ThreadCounts <- MCThreadCounts
SPECIFICATION Spec
INVARIANTS
    BuffersOutliveWorkers
    NoSlotRace
    FailureIsSequential
    IInv
PROPERTIES
    NoStepRepeats
    ImplementsContract
    GenerateTerminates
CHECK_DEADLOCK FALSE
