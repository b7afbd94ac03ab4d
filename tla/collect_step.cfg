CONSTANTS
    Tasks <- StepTasks
    FaultyDocker = {1}
    LateBound = 1
    Attempts = 1
    MaxTurns = 2
    MaxInFlight = 2
    PoolSize = 3
    PatchedTasks <- SecondTask
    StepStages <- BothStages
    StepIndex = 1
    BatchSize = 3
    WorldSize = 2
    MicroBatch = 1
    RequestedBatch = 6
SPECIFICATION FairSpec
INVARIANTS
    SelectedRowsAreVerified
    BatchIsTheStep
    NothingLeftBehind
    WholeBatches
    TimedOutRunNeverDuplicates
PROPERTY CollectEnds
