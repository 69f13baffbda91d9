SPECIFICATION Spec
CONSTANTS
    s1 = s1
    s2 = s2
    w1 = w1
    w2 = w2
    i1 = i1
    Nil = Nil
    RecoveryMaxRequests = 3
    RecoveryMaxInFlight = 1
    CronMinutes = 2
    CronHours = 2
    CronWeekdays = 3
    CronMonthsPerYear = 3
    CronCalendar <- Calendar
    CronExpressions <- Schedules
    CronMaxScan = 36
    CronMaxTime = 20
    EventSources = {"kafka", "redis", "webhook", "cron"}
    EventResets = {"earliest", "latest"}
    EventPoison = {3}
    EventMaxAttempts = 2
    EventMaxEvents = 3
    EventMaxRestarts = 1
    AccountSessions = {s1, s2}
    AccountLimits <- Limits
    AccountMaxRequests = 3
    AccountMaxInFlight = 2
    AccountMaxCalls = 1
    HistorySessions = {s1, s2}
    HistoryMaxRequests = 2
    HistoryMaxCalls = 3
    SqliteItems = {i1}
    SqliteActors = {s1, s2}
    SqliteNoActor = Nil
    SqliteWorkers = {w1, w2}
    SqliteDurations = {0}
    SqliteMaxTime = 1
    GateTokens <- Tokens
    GateSetups <- Setups
    GateInputs <- Asks
    GateTTLs = {1, 4}
    GateMargin = 2
    GateCacheTTLCap = 1
    GateLeeway = 1
    GateFetchTimeout = 1
    GateSlots = {1, 2}
    GateMaxArrivals = 3
    GateMaxTime = 4
    StreamMaxLines = 4
    StreamUploads <- Uploads
    StreamMaxBytes = 3
    FlowNames = {"plan", "work", "repair"}
    FlowBuilds <- Graphs
    FlowMaxSteps = 4
    ChainServers = {"a", "b"}
    ChainAgents = {"a", "b", "c"}
    ChainSubagents <- Subagents
    ChainSpawnMax = 2
    ChainMaxFrames = 4
    ChainMaxOutside = 2
    SkillNames = {"triage", "greet"}
    SkillBundled = {"greet"}
    SkillDomains = {"mail", "bank"}
    SkillConfigs <- Autonomies
    SkillThresholds <- Thresholds
    SkillCompletion = 1
    SkillFailure = 2
    SkillMaxScore = 5
    SkillMaxWrites = 3
    McpConfigs <- Connected
    McpTools = {"search", "run"}
    McpPrompts = {"brief"}
    McpCalls = {w1, w2}
    McpMaxTokens = 2
    McpMaxClients = 3
    WordTurns <- Turns
    WordOpenTag <- OpenTag
    WordCloseTag <- CloseTag
    WordMaxChunks = 4
    WordMaxRounds = 2
    TraceBackends = {"sqlite", "postgres"}
    TraceSessions = {s1, s2}
    TraceRequests = {1, 2}
    TraceCalls = {w1, w2}
    TraceMaxSpans = 7
    TraceMaxRounds = 2
    FeedbackBackends = {"sqlite", "postgres"}
    FeedbackRecords = {s1, s2}
    FeedbackUsers = {"ann"}
    FeedbackPatches = {w1, w2}
    FeedbackHoursPerDay = 2
    FeedbackDaysPerWeek = 3
    FeedbackMaxHour = 3
    ChunkDocuments <- Texts
    ChunkLimits <- Sizes
INVARIANTS
    TypeOK
    SessionsAgree
    EventsAreAccountedFor
    OverspendingIsBounded
    PoolIsSound
    TextsAreWhole
    CallersAreVouchedFor
    TransportsAreSound
    WorkflowsKeepToTheirGraph
    CountedChainsAreCapped
    AutonomyIsAccountedFor
    RecordsAreTrue
SYMMETRY Symmetry
\* A behaviour has a bounded number of requests, calls and minutes.
CHECK_DEADLOCK FALSE
