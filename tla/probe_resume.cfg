SPECIFICATION FairSpec
CONSTANTS
    TaskCount = 4
    Configs <- TwoModels
    Window = 2
    Workers = 2
    modelA = modelA
    modelB = modelB
INVARIANTS CacheIsOfItsConfig RecordedOnce
PROPERTIES EventuallyServed
