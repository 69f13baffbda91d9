------------------------------ MODULE Services ------------------------------
(***************************************************************************)
(* The components that share no state, side by side: a behaviour is one of *)
(* the component `part', in which the others do not move.  The parameters  *)
(* and variables are those of the components, with the component's name.   *)
(***************************************************************************)
EXTENDS Stores, Agents

CONSTANTS
    CronMinutes, CronHours, CronWeekdays, CronMonthsPerYear, CronCalendar, CronExpressions,
    CronMaxScan, CronMaxTime,
    EventSources, EventResets, EventPoison, EventMaxAttempts, EventMaxEvents, EventMaxRestarts,
    GateTokens, GateSetups, GateInputs, GateTTLs, GateMargin, GateCacheTTLCap, GateLeeway,
    GateFetchTimeout, GateSlots, GateMaxArrivals, GateMaxTime,
    StreamMaxLines, StreamUploads, StreamMaxBytes,
    McpConfigs, McpTools, McpPrompts, McpCalls, McpMaxTokens, McpMaxClients,
    WordTurns, WordOpenTag, WordCloseTag, WordMaxChunks, WordMaxRounds,
    FeedbackBackends, FeedbackRecords, FeedbackUsers, FeedbackPatches, FeedbackHoursPerDay,
    FeedbackDaysPerWeek, FeedbackMaxHour

VARIABLES
    part,        \* the component this behaviour is of
    cronFields, cronNow, cronSource, cronFired,
    eventSource, eventArrived, eventBroker, eventPosition, eventLoop, eventOutcome, eventTurns,
    eventLost, eventRestarts,
    gateSetup, gateRequest, gateCache, gateNow, gateArrivals,
    streamLines, streamReader, streamRelay, streamUpload, streamCopier, streamAgent,
    streamAnswer,
    mcpCfg, mcpTodo, mcpEnv, mcpIdp, mcpRef, mcpOpen, mcpOwner, mcpCall, mcpHistory,
    wordTurn, wordAgent, wordClient, wordHeard,
    feedbackBackend, feedbackRows, feedbackPatch, feedbackHour

-----------------------------------------------------------------------------
Cron == INSTANCE CronSchedule WITH
    Minutes <- CronMinutes, Hours <- CronHours, Weekdays <- CronWeekdays,
    MonthsPerYear <- CronMonthsPerYear, Calendar <- CronCalendar,
    Expressions <- CronExpressions, MaxScan <- CronMaxScan, MaxTime <- CronMaxTime,
    cron <- cronFields, now <- cronNow, source <- cronSource, fired <- cronFired
Pipeline == INSTANCE EventPipeline WITH
    Sources <- EventSources, Resets <- EventResets, Poison <- EventPoison,
    MaxAttempts <- EventMaxAttempts, MaxEvents <- EventMaxEvents,
    MaxRestarts <- EventMaxRestarts, source <- eventSource, arrived <- eventArrived,
    broker <- eventBroker, position <- eventPosition, loop <- eventLoop,
    outcome <- eventOutcome, turns <- eventTurns, lost <- eventLost, restarts <- eventRestarts
Gate == INSTANCE Gateway WITH
    Tokens <- GateTokens, Setups <- GateSetups, Inputs <- GateInputs, TTLs <- GateTTLs,
    Margin <- GateMargin, CacheTTLCap <- GateCacheTTLCap, Leeway <- GateLeeway,
    FetchTimeout <- GateFetchTimeout, Slots <- GateSlots, MaxArrivals <- GateMaxArrivals,
    MaxTime <- GateMaxTime, setup <- gateSetup, request <- gateRequest, cache <- gateCache,
    now <- gateNow, arrivals <- gateArrivals
Streams == INSTANCE GatewayStreams WITH
    MaxLines <- StreamMaxLines, Uploads <- StreamUploads, MaxBytes <- StreamMaxBytes,
    stream <- streamLines, reader <- streamReader, relay <- streamRelay,
    upload <- streamUpload, copier <- streamCopier, agent <- streamAgent,
    answer <- streamAnswer
Mcp == INSTANCE McpConnectionsProofs WITH
    Configs <- McpConfigs, Tools <- McpTools, Prompts <- McpPrompts, Calls <- McpCalls,
    MaxTokens <- McpMaxTokens, MaxClients <- McpMaxClients, cfg <- mcpCfg, todo <- mcpTodo,
    env <- mcpEnv, idp <- mcpIdp, ref <- mcpRef, open <- mcpOpen, owner <- mcpOwner,
    call <- mcpCall, history <- mcpHistory
Words == INSTANCE ModelStream WITH
    Turns <- WordTurns, OpenTag <- WordOpenTag, CloseTag <- WordCloseTag,
    MaxChunks <- WordMaxChunks, MaxRounds <- WordMaxRounds, turn <- wordTurn,
    agent <- wordAgent, client <- wordClient, heard <- wordHeard
Feedback == INSTANCE FeedbackStore WITH
    Backends <- FeedbackBackends, Records <- FeedbackRecords, Users <- FeedbackUsers,
    Patches <- FeedbackPatches, HoursPerDay <- FeedbackHoursPerDay,
    DaysPerWeek <- FeedbackDaysPerWeek, MaxHour <- FeedbackMaxHour, backend <- feedbackBackend,
    rows <- feedbackRows, patch <- feedbackPatch, hour <- feedbackHour

-----------------------------------------------------------------------------
(* What the proofs assume of the parameters.                               *)

GateParameters ==
    /\ GateTTLs \subseteq Nat
    /\ GateMargin \in Nat /\ GateCacheTTLCap \in Nat /\ GateLeeway \in Nat /\ GateFetchTimeout \in Nat
    /\ GateMaxTime \in Nat /\ GateMaxArrivals \in Nat
    /\ \A s \in GateSetups : s.exchange => s.mode = "jwt"
    /\ GateInputs \subseteq [route : Gate!Routes, token : Gate!Bearers, user : Gate!People, subject : Gate!People]

ASSUME GateAssumption == GateParameters
ASSUME McpAssumption == Mcp!Parameters

\* The calendar begins on day 0 and goes on beyond what a scan can reach.
ASSUME CronAssumption ==
    /\ CronMinutes \in Nat \ {0} /\ CronHours \in Nat \ {0} /\ CronMaxScan \in Nat /\ CronMaxTime \in Nat
    /\ CronCalendar \in Seq(Nat) /\ CronCalendar # << >> /\ CronCalendar[1] = 0
    /\ \A i, j \in DOMAIN CronCalendar : i < j => CronCalendar[i] < CronCalendar[j]
    /\ CronMaxTime + CronMaxScan < CronCalendar[Len(CronCalendar)] * Cron!Day
    /\ CronWeekdays \in Nat \ {0} /\ CronMonthsPerYear \in Nat
    /\ \A fields \in CronExpressions : \A f \in Cron!Fields : \A t \in fields[f] : t.kind \in {"any", "range", "value"}

ASSUME FeedbackAssumption ==
    /\ IsFiniteSet(FeedbackRecords)
    /\ FeedbackHoursPerDay \in Nat \ {0} /\ FeedbackDaysPerWeek \in Nat \ {0} /\ FeedbackMaxHour \in Nat

ASSUME StreamAssumption ==
    /\ StreamMaxLines \in Nat
    /\ \A u \in StreamUploads : u.parts \in Seq([file : BOOLEAN, allowed : BOOLEAN, size : Nat])

\* retry.max_attempts is at least 1 (ge=1).
ASSUME EventAssumption ==
    EventMaxAttempts \in Nat \ {0} /\ EventMaxEvents \in Nat /\ EventMaxRestarts \in Nat

-----------------------------------------------------------------------------
cronVars ==
    << cronFields, cronNow, cronSource, cronFired >>
eventVars ==
    << eventSource, eventArrived, eventBroker, eventPosition, eventLoop, eventOutcome,
       eventTurns, eventLost, eventRestarts >>
gateVars ==
    << gateSetup, gateRequest, gateCache, gateNow, gateArrivals >>
streamVars ==
    << streamLines, streamReader, streamRelay, streamUpload, streamCopier, streamAgent,
       streamAnswer >>
mcpVars ==
    << mcpCfg, mcpTodo, mcpEnv, mcpIdp, mcpRef, mcpOpen, mcpOwner, mcpCall, mcpHistory >>
wordVars ==
    << wordTurn, wordAgent, wordClient, wordHeard >>
feedbackVars ==
    << feedbackBackend, feedbackRows, feedbackPatch, feedbackHour >>

all ==
    << part, recoveryVars, cronVars, eventVars, accountVars, historyVars, sqliteVars, gateVars,
       streamVars, flowVars, chainVars, skillVars, mcpVars, wordVars, traceVars, feedbackVars,
       chunkVars >>
Parts ==
    {"recovery", "cron", "events", "accounts", "history", "sqlite", "gateway", "streams",
     "workflow", "delegation", "skills", "mcp", "words", "traces", "feedback",
     "chunks"}

Init ==
    /\ part \in Parts
    /\ IF part = "recovery" THEN Recovery!Init
       ELSE recoveryReq = 0 /\ recoveryHolder = 0 /\ recoveryState = 0 /\ recoveryRow = 0 /\
            recoveryTraces = 0 /\ recoveryHistory = 0
    /\ IF part = "cron" THEN Cron!Init
       ELSE cronFields = 0 /\ cronNow = 0 /\ cronSource = 0 /\ cronFired = 0
    /\ IF part = "events" THEN Pipeline!Init
       ELSE eventSource = 0 /\ eventArrived = 0 /\ eventBroker = 0 /\ eventPosition = 0 /\
            eventLoop = 0 /\ eventOutcome = 0 /\ eventTurns = 0 /\ eventLost = 0 /\ eventRestarts = 0
    /\ IF part = "accounts" THEN Accounts!Init
       ELSE accountLimits = 0 /\ accountRequest = 0 /\ accountLock = 0 /\ accountRows = 0 /\
            accountEnforcer = 0 /\ accountCalls = 0 /\ accountSpent = 0 /\ accountExplained = 0
    /\ IF part = "history" THEN History!Init
       ELSE historyTurn = 0 /\ historySession = 0 /\ historyCall = 0 /\ historyCalls = 0 /\
            historyReverted = 0 /\ historyOverlapped = 0 /\ historyVersions = 0
    /\ IF part = "sqlite" THEN Sqlite!Init
       ELSE sqliteDisk = 0 /\ sqliteMem = 0 /\ sqliteTx = 0 /\ sqliteTask = 0 /\ sqliteSweep = 0 /\
            sqliteNow = 0 /\ sqliteBroken = 0
    /\ IF part = "gateway" THEN Gate!Init
       ELSE gateSetup = 0 /\ gateRequest = 0 /\ gateCache = 0 /\ gateNow = 0 /\ gateArrivals = 0
    /\ IF part = "streams" THEN Streams!Init
       ELSE streamLines = 0 /\ streamReader = 0 /\ streamRelay = 0 /\ streamUpload = 0 /\
            streamCopier = 0 /\ streamAgent = 0 /\ streamAnswer = 0
    /\ IF part = "workflow" THEN Flow!Init
       ELSE flowGraph = 0 /\ flowLives = 0 /\ flowRun = 0 /\ flowState = 0 /\ flowPath = 0 /\
            flowPosts = 0
    /\ IF part = "delegation" THEN Chain!Init
       ELSE chainFrame = 0 /\ chainQueue = 0 /\ chainDepth = 0
    /\ IF part = "skills" THEN Learning!Init
       ELSE skillCfg = 0 /\ skillTrust = 0 /\ skillTold = 0 /\ skillFile = 0 /\ skillArchive = 0 /\
            skillLoaded = 0 /\ skillWrites = 0 /\ skillHistory = 0
    /\ IF part = "mcp" THEN Mcp!Init
       ELSE mcpCfg = 0 /\ mcpTodo = 0 /\ mcpEnv = 0 /\ mcpIdp = 0 /\ mcpRef = 0 /\ mcpOpen = 0 /\
            mcpOwner = 0 /\ mcpCall = 0 /\ mcpHistory = 0
    /\ IF part = "words" THEN Words!Init
       ELSE wordTurn = 0 /\ wordAgent = 0 /\ wordClient = 0 /\ wordHeard = 0
    /\ IF part = "traces" THEN Traces!Init
       ELSE traceBackend = 0 /\ traceTurn = 0 /\ traceTable = 0
    /\ IF part = "feedback" THEN Feedback!Init
       ELSE feedbackBackend = 0 /\ feedbackRows = 0 /\ feedbackPatch = 0 /\ feedbackHour = 0
    /\ IF part = "chunks" THEN Chunks!Init
       ELSE chunkDoc = 0 /\ chunkLimit = 0 /\ chunkKind = 0 /\ chunkSection = 0 /\ chunkPath = 0 /\
            chunkPc = 0 /\ chunkUnits = 0 /\ chunkPos = 0 /\ chunkCurrent = 0 /\ chunkTail = 0 /\
            chunkList = 0

Next ==
    /\ UNCHANGED part
    /\ IF part = "recovery" THEN Recovery!Next ELSE UNCHANGED recoveryVars
    /\ IF part = "cron" THEN Cron!Next ELSE UNCHANGED cronVars
    /\ IF part = "events" THEN Pipeline!Next ELSE UNCHANGED eventVars
    /\ IF part = "accounts" THEN Accounts!Next ELSE UNCHANGED accountVars
    /\ IF part = "history" THEN History!Next ELSE UNCHANGED historyVars
    /\ IF part = "sqlite" THEN Sqlite!Next ELSE UNCHANGED sqliteVars
    /\ IF part = "gateway" THEN Gate!Next ELSE UNCHANGED gateVars
    /\ IF part = "streams" THEN Streams!Next ELSE UNCHANGED streamVars
    /\ IF part = "workflow" THEN Flow!Next ELSE UNCHANGED flowVars
    /\ IF part = "delegation" THEN Chain!Next ELSE UNCHANGED chainVars
    /\ IF part = "skills" THEN Learning!Next ELSE UNCHANGED skillVars
    /\ IF part = "mcp" THEN Mcp!Next ELSE UNCHANGED mcpVars
    /\ IF part = "words" THEN Words!Next ELSE UNCHANGED wordVars
    /\ IF part = "traces" THEN Traces!Next ELSE UNCHANGED traceVars
    /\ IF part = "feedback" THEN Feedback!Next ELSE UNCHANGED feedbackVars
    /\ IF part = "chunks" THEN Chunks!Next ELSE UNCHANGED chunkVars

Spec == Init /\ [][Next]_all

-----------------------------------------------------------------------------
\* Every component's state has the types its module declares.
TypeOK ==
    /\ part = "recovery" => Recovery!TypeOK
    /\ part = "cron"     => Cron!TypeOK
    /\ part = "events"   => Pipeline!TypeOK
    /\ part = "accounts" => Accounts!TypeOK
    /\ part = "history"  => History!TypeOK
    /\ part = "sqlite" => Sqlite!TypeOK
    /\ part = "gateway" => Gate!TypeOK
    /\ part = "streams" => Streams!TypeOK
    /\ part = "workflow" => Flow!TypeOK
    /\ part = "delegation" => Chain!TypeOK
    /\ part = "skills" => Learning!TypeOK
    /\ part = "mcp" => Mcp!TypeOK
    /\ part = "words" => Words!TypeOK
    /\ part = "traces" => Traces!TypeOK
    /\ part = "feedback" => Feedback!TypeOK
    /\ part = "chunks" => Chunks!TypeOK

\* What the columns and tables of a session say agrees: its checkpoint with its history
\* (StateRecovery), its history with what was reverted and forked (SessionHistory).
SessionsAgree ==
    /\ part = "recovery" => Recovery!StateFollowsHistory
    /\ part = "history"  => History!HistoriesStayCut

\* A scan for the next time of a schedule passes no minute at which all its fields match
\* (CronSchedule), and what a source is told of an event has happened (EventPipeline).
EventsAreAccountedFor ==
    /\ part = "cron"   => Cron!NothingIsSkipped
    /\ part = "events" => Pipeline!OutcomesAreTrue

\* Budgets are exceeded by what was in flight at most (SessionAccounts).
OverspendingIsBounded == part = "accounts" => Accounts!OverspendingIsBounded

\* A checked-out row of the SQLite store has an actor, a lease and a version, and no other row
\* has one; and a checkout that no other statement disturbed was atomic (SqliteWorkItemStore).
PoolIsSound == part = "sqlite" => Sqlite!HeldRowsWellFormed /\ Sqlite!CheckoutIsAtomicAlone

\* The chunks of a text hold all of it, in order, under its headings (Chunker).
TextsAreWhole == part = "chunks" => Chunks!ChunksHoldTheText

\* Who a request comes from, and with which token it goes on (Gateway).
CallersAreVouchedFor == part = "gateway" => Gate!CallersAreVouchedFor

\* Neither a stream nor an upload arrives in part, or out of order (GatewayStreams); the
\* connections to tools survive their reconnections (McpConnections).
TransportsAreSound ==
    /\ part = "streams" => Streams!StreamsAreWhole
    /\ part = "mcp"     => Mcp!ConnectionsAreSound

\* A workflow takes no way that is not in its graph (Workflow).
WorkflowsKeepToTheirGraph == part = "workflow" => Flow!WorkflowsKeepToTheirGraph

\* The depth of delegation is counted right where turns do not meet (Delegation).
CountedChainsAreCapped == part = "delegation" => Chain!CountedChainsAreCapped

\* Trust, stages and learned skills agree (LearnedSkills).
AutonomyIsAccountedFor == part = "skills" => Learning!AutonomyIsAccountedFor

\* Words, traces and ratings: the words of the model are taken apart and put together right
\* (ModelStream), traces tell what happened in a turn (TurnTraces), and feedback is answered
\* and counted as it was given (FeedbackStore).
RecordsAreTrue ==
    /\ part = "words"    => Words!WordsArrive
    /\ part = "traces"   => Traces!TracesAreWhole
    /\ part = "feedback" => Feedback!FeedbackIsTrue
=============================================================================
