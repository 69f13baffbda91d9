\* Two turns are enough to call the model after a question.
SPECIFICATION Spec
CONSTANTS
    read = read
    deploy = deploy
    Tools <- BothTools
    Gated <- OnlyDeploy
    Decisions <- AnyDecision
    MaxIterations = 2
    RepeatThreshold = 2
    PatternWindow = 2
    CompactAt = 3
    KeepTurns = 1
    MaxPerReply = 2
    MaxCalls = 3
    MaxTurns = 2
INVARIANT NextCallWellShaped
CHECK_DEADLOCK FALSE
