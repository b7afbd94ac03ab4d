SPECIFICATION Spec
CONSTANTS
    Launches = 4
    MaxKills = 1
    MaxInterrupts = 1
    Lingers = TRUE
INVARIANTS
    CollectsFromItsModel
    TrainerHasTheGpus
    NothingOutlivesTheLoop
PROPERTIES
    StartAndStopEnd
CHECK_DEADLOCK FALSE
