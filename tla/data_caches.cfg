CONSTANTS
    Dataset <- EightRows
    Bandings <- FourBandings
    Splits <- ThreeSplits
    BatchSize = 2
    Stage = "positive_rft"
    Steps = 3
    MaxSessions = 3
    MaxImages = None
    Transient <- FewTimeOut
    MaxPreflights = 2
    Preloaders = {p1, p2}
    Chunk = 1
    MaxStops = 1
    None = None
    Torn = Torn
SPECIFICATION Spec
INVARIANTS
    HeldOutStaysHeldOut
    TasksAreDrawnEvenly
    ServedPairIsTheSplit
CHECK_DEADLOCK FALSE
CONSTRAINT OneKindOfReader
SYMMETRY Jobs
