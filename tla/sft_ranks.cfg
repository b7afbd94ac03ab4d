CONSTANTS
    Words = {"a", "b", "c", "p", "t", "u"}
    Histories <- FiveHistories
    Prompt <- Problem
    MaxSelected = 3
    LengthLimit = 32
    WorldSize = 2
    MicroBatch = 1
    RequestedBatch = 4
    Epochs = 2
    BucketFactor = 1
    MaxFailures = 1
SPECIFICATION FairSpec
INVARIANTS
    LossIsOnAssistantTurns
    EpochsCoverTheRows
    TrainedMeansSaved
PROPERTIES
    SftEnds
    TrainsAsOne
CHECK_DEADLOCK FALSE
