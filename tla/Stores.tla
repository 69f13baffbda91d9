------------------------------- MODULE Stores -------------------------------
(***************************************************************************)
(* What is kept of sessions, work items and files: the history, the costs  *)
(* and the checkpoint of a session, the work items of the SQLite store,    *)
(* and the chunks of a text.  They are side by side here, and share no     *)
(* state.                                                                  *)
(***************************************************************************)
EXTENDS Integers, Sequences, FiniteSets

CONSTANTS
    RecoveryMaxRequests, RecoveryMaxInFlight,
    AccountSessions, AccountLimits, AccountMaxRequests, AccountMaxInFlight, AccountMaxCalls,
    HistorySessions, HistoryMaxRequests, HistoryMaxCalls,
    SqliteItems, SqliteActors, SqliteNoActor, SqliteWorkers, SqliteDurations, SqliteMaxTime,
    ChunkDocuments, ChunkLimits

VARIABLES
    recoveryReq, recoveryHolder, recoveryState, recoveryRow, recoveryTraces, recoveryHistory,
    accountLimits, accountRequest, accountLock, accountRows, accountEnforcer, accountCalls,
    accountSpent, accountExplained,
    historyTurn, historySession, historyCall, historyCalls, historyReverted, historyOverlapped,
    historyVersions,
    sqliteDisk, sqliteMem, sqliteTx, sqliteTask, sqliteSweep, sqliteNow, sqliteBroken,
    chunkDoc, chunkLimit, chunkKind, chunkSection, chunkPath, chunkPc, chunkUnits, chunkPos,
    chunkCurrent, chunkTail, chunkList

Recovery == INSTANCE StateRecovery WITH
    MaxRequests <- RecoveryMaxRequests, MaxInFlight <- RecoveryMaxInFlight, req <- recoveryReq,
    holder <- recoveryHolder, state <- recoveryState, row <- recoveryRow,
    traces <- recoveryTraces, history <- recoveryHistory
Accounts == INSTANCE SessionAccounts WITH
    Sessions <- AccountSessions, Limits <- AccountLimits, MaxRequests <- AccountMaxRequests,
    MaxInFlight <- AccountMaxInFlight, MaxCalls <- AccountMaxCalls, limits <- accountLimits,
    request <- accountRequest, lock <- accountLock, rows <- accountRows,
    enforcer <- accountEnforcer, calls <- accountCalls, spent <- accountSpent,
    explained <- accountExplained
History == INSTANCE SessionHistory WITH
    Sessions <- HistorySessions, MaxRequests <- HistoryMaxRequests,
    MaxCalls <- HistoryMaxCalls, turn <- historyTurn, session <- historySession,
    call <- historyCall, calls <- historyCalls, reverted <- historyReverted,
    overlapped <- historyOverlapped, versions <- historyVersions
Sqlite == INSTANCE SqliteWorkItemStore WITH
    Items <- SqliteItems, Actors <- SqliteActors, NoActor <- SqliteNoActor,
    Workers <- SqliteWorkers, Durations <- SqliteDurations, MaxTime <- SqliteMaxTime,
    disk <- sqliteDisk, mem <- sqliteMem, tx <- sqliteTx, task <- sqliteTask,
    sweep <- sqliteSweep, now <- sqliteNow, broken <- sqliteBroken
Chunks == INSTANCE Chunker WITH
    Documents <- ChunkDocuments, Limits <- ChunkLimits, doc <- chunkDoc, limit <- chunkLimit,
    chunker <- chunkKind, section <- chunkSection, path <- chunkPath, pc <- chunkPc,
    units <- chunkUnits, pos <- chunkPos, current <- chunkCurrent, tail <- chunkTail,
    chunks <- chunkList

-----------------------------------------------------------------------------
(* What the proofs assume of the parameters.                               *)

ASSUME AccountAssumption ==
    /\ AccountMaxRequests \in Nat /\ AccountMaxInFlight \in Nat /\ AccountMaxCalls \in Nat
    /\ AccountLimits \subseteq [session : Nat, tenant : Nat]

ASSUME HistoryAssumption == HistoryMaxCalls \in Nat

ASSUME SqliteAssumption ==
    SqliteNoActor \notin SqliteActors /\ SqliteDurations \subseteq Nat /\ SqliteMaxTime \in Nat

ASSUME ChunkAssumption == Chunks!Parameters

-----------------------------------------------------------------------------
recoveryVars ==
    << recoveryReq, recoveryHolder, recoveryState, recoveryRow, recoveryTraces, recoveryHistory >>
accountVars ==
    << accountLimits, accountRequest, accountLock, accountRows, accountEnforcer, accountCalls,
       accountSpent, accountExplained >>
historyVars ==
    << historyTurn, historySession, historyCall, historyCalls, historyReverted,
       historyOverlapped, historyVersions >>
sqliteVars ==
    << sqliteDisk, sqliteMem, sqliteTx, sqliteTask, sqliteSweep, sqliteNow, sqliteBroken >>
chunkVars ==
    << chunkDoc, chunkLimit, chunkKind, chunkSection, chunkPath, chunkPc, chunkUnits, chunkPos,
       chunkCurrent, chunkTail, chunkList >>
=============================================================================
