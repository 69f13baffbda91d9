\* Two or three turns with up to three calls; histories of three messages are compacted.
SPECIFICATION FairSpec
CONSTANTS
    read = read
    deploy = deploy
    Tools <- BothTools
    Gated <- OnlyDeploy
    Decisions <- AnyDecision
    MaxIterations = 2
    RepeatThreshold = 2
    PatternWindow = 2
    CompactAt = 3
    KeepTurns = 1
    MaxPerReply = 2
    MaxCalls = 3
    MaxTurns = 3
INVARIANT TypeOK
INVARIANT ResultsFollowCalls
INVARIANT QuestionHasSentinel
INVARIANT SentinelIsPending
INVARIANT GatedCallsAreApproved
INVARIANT RepeatsAreStopped
PROPERTY PendingIsNotSummarised
PROPERTY EveryTurnEnds
CHECK_DEADLOCK FALSE
