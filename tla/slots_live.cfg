SPECIFICATION FairSpec
CONSTANTS
    Workers <- OneWorker
    Loops <- ThreeLoops
    WorkerOf <- OnThree
    MaxInFlight = 2
    Threads = 2
    SlotCount = 1
    WaitBounds = {TRUE, FALSE}
    NoLoop = noLoop
    w1 = w1
    a1 = a1
    a2 = a2
    a3 = a3
INVARIANTS ContainerUnderLease SlotsComeBack SlotWaitSparesBudget
PROPERTIES EveryLoopEnds
