------------------------------- MODULE Agents -------------------------------
(***************************************************************************)
(* Agents beyond one turn: workflows of agents, delegation between them,   *)
(* what an agent may do on its own, and the traces its turns leave.  They  *)
(* are side by side here, and share no state.                              *)
(***************************************************************************)
EXTENDS Integers, Sequences, FiniteSets

CONSTANTS
    FlowNames, FlowBuilds, FlowMaxSteps,
    ChainServers, ChainAgents, ChainSubagents, ChainSpawnMax, ChainMaxFrames, ChainMaxOutside,
    SkillNames, SkillBundled, SkillDomains, SkillConfigs, SkillThresholds, SkillCompletion,
    SkillFailure, SkillMaxScore, SkillMaxWrites,
    TraceBackends, TraceSessions, TraceRequests, TraceCalls, TraceMaxSpans, TraceMaxRounds

VARIABLES
    flowGraph, flowLives, flowRun, flowState, flowPath, flowPosts,
    chainFrame, chainQueue, chainDepth,
    skillCfg, skillTrust, skillTold, skillFile, skillArchive, skillLoaded, skillWrites,
    skillHistory,
    traceBackend, traceTurn, traceTable

Flow == INSTANCE Workflow WITH
    Names <- FlowNames, Builds <- FlowBuilds, MaxSteps <- FlowMaxSteps, graph <- flowGraph,
    lives <- flowLives, run <- flowRun, state <- flowState, path <- flowPath,
    posts <- flowPosts
Chain == INSTANCE Delegation WITH
    Servers <- ChainServers, Agents <- ChainAgents, Subagents <- ChainSubagents,
    SpawnMax <- ChainSpawnMax, MaxFrames <- ChainMaxFrames, MaxOutside <- ChainMaxOutside,
    frame <- chainFrame, queue <- chainQueue, depth <- chainDepth
Learning == INSTANCE LearnedSkills WITH
    Skills <- SkillNames, Bundled <- SkillBundled, Domains <- SkillDomains,
    Configs <- SkillConfigs, Thresholds <- SkillThresholds, Completion <- SkillCompletion,
    Failure <- SkillFailure, MaxScore <- SkillMaxScore, MaxWrites <- SkillMaxWrites,
    cfg <- skillCfg, trust <- skillTrust, told <- skillTold, file <- skillFile,
    archive <- skillArchive, loaded <- skillLoaded, writes <- skillWrites,
    history <- skillHistory
Traces == INSTANCE TurnTraces WITH
    Backends <- TraceBackends, Sessions <- TraceSessions, Requests <- TraceRequests,
    Calls <- TraceCalls, MaxSpans <- TraceMaxSpans, MaxRounds <- TraceMaxRounds,
    backend <- traceBackend, turn <- traceTurn, table <- traceTable

-----------------------------------------------------------------------------
(* What the proofs assume of the parameters.                               *)

\* Only agents behind a server are asked over HTTP.
ASSUME ChainAssumption ==
    /\ ChainServers \subseteq ChainAgents /\ ChainSpawnMax \in Nat /\ ChainMaxFrames \in Nat
    /\ ChainSubagents \in [ChainAgents -> SUBSET [to : ChainAgents, kind : {"http", "inprocess"}, max : Nat]]
    /\ \A a \in ChainAgents : \A sub \in ChainSubagents[a] : sub.kind = "http" => sub.to \in ChainServers

\* agent.yaml has numbers where it is read as such; the bound on scores leaves the levels in reach.
ASSUME SkillAssumption ==
    /\ \A c \in SkillConfigs :
          c.seed \in Int /\ c.specialistMin \in Int /\ c.apprenticeMax \in Int /\ c.placed \in BOOLEAN
    /\ SkillMaxScore \in Nat /\ SkillThresholds \in [1..4 -> 0..SkillMaxScore]
    /\ SkillCompletion \in Nat /\ SkillFailure \in Nat /\ SkillMaxWrites \in Nat

\* RunnerConfig and NodeConfig have numbers.
ASSUME FlowAssumption ==
    FlowMaxSteps \in Nat /\ \A g \in FlowBuilds : g.nodeRetries \in Nat /\ g.remoteRetries \in Nat

-----------------------------------------------------------------------------
flowVars ==
    << flowGraph, flowLives, flowRun, flowState, flowPath, flowPosts >>
chainVars ==
    << chainFrame, chainQueue, chainDepth >>
skillVars ==
    << skillCfg, skillTrust, skillTold, skillFile, skillArchive, skillLoaded, skillWrites,
       skillHistory >>
traceVars ==
    << traceBackend, traceTurn, traceTable >>
=============================================================================
