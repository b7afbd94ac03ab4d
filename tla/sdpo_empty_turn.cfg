CONSTANTS
    ResponseLength = 5
    MaxAssistantTurns = 0
    MaxUserTurns = 3
    MaxGenerated = 2
    MaxFeedback = 2
    Policy = "feedback_present"
    VerifierFeedback = TRUE
    WorldSize = 2
    Steps = 2
    MaxRaises = 2
SPECIFICATION Spec
INVARIANT TurnsAreTaughtTheirOwn
CHECK_DEADLOCK FALSE
