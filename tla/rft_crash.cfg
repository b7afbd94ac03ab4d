SPECIFICATION LaunchSpec
CONSTANTS
    RftSteps = 3
    Limits = {3}
    KeepLasts = {2}
    Stages <- OnlyStageA
    EvalPools <- EvalOff
    NoEval = noEval
    MaxOrphans = 1
    stageA = stageA
    InitialIsPath = TRUE
INVARIANTS
    ResumeTargetExists
    OnPolicyRollouts
    ManifestAgrees
    RetentionBounded
    NoStaleTrees
    SdpoStartsFromTheCommit
PROPERTIES ImplementsContract EventuallyDone
CONSTRAINT LaunchOrOrphans
