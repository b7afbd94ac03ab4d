SPECIFICATION Spec
CONSTANTS
    RftSteps = 3
    Limits = {3}
    KeepLasts = {1}
    Stages <- OnlyStageA
    EvalPools <- EvalOff
    NoEval = noEval
    MaxOrphans = 1
    stageA = stageA
    stageB = stageB
    poolA = poolA
    poolB = poolB
INVARIANTS RestartCanResume
