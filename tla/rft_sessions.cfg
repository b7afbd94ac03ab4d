SPECIFICATION Spec
CONSTANTS
    RftSteps = 2
    Limits = {1, 2}
    KeepLasts = {1}
    Stages <- TwoStages
    EvalPools <- ThreePools
    NoEval = noEval
    MaxOrphans = 1
    stageA = stageA
    stageB = stageB
    poolA = poolA
    poolB = poolB
INVARIANTS OneCurve ModelStaysOnDisk
