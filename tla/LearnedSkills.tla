--------------------------- MODULE LearnedSkills ---------------------------
(***************************************************************************)
(* What an agent may learn and what it keeps of it: the trust score that   *)
(* finished and released work items move, the stage derived from it, and   *)
(* the learned skills on disk, with their versions and their quarantine.   *)
(***************************************************************************)
EXTENDS Integers, Sequences, FiniteSets

CONSTANTS
    Skills,        \* names of learned skills
    Bundled,       \* those of them a skill of the image has too
    Domains,
    Configs,       \* self_healing and maturation of agent.yaml: see Setup and the tools;
                   \* `placed' if learned_skills_dir is absolute or the agent has a base_dir
    Thresholds,    \* [1..4 -> Nat], trust_thresholds
    Completion,    \* COMPLETION_BASE
    Failure,       \* - FAILURE_BASE
    MaxScore,      \* bound
    MaxWrites      \* bound: files a behaviour writes

VARIABLES
    cfg,
    trust,     \* TrustManager: level, score, events not drained yet
    told,      \* what the events said: the last stage, the last transition
    file,      \* per skill: its SKILL.md, or Absent
    archive,   \* per skill: .versions, [versions -> files]
    loaded,    \* SkillLoader: per skill of this session its text, 0 as long as it is not activated
    writes,    \* number of texts so far
    history    \* not in the code: per skill whether a version number was lost or reused, and
               \* whether it was written since the last quarantine that went through

vars == << cfg, trust, told, file, archive, loaded, writes, history >>

-----------------------------------------------------------------------------
Absent == [text |-> 0, version |-> 0, domain |-> "none", quarantined |-> FALSE, readable |-> FALSE]
Files == [text : Nat, version : Nat, domain : Domains \cup {"none"}, quarantined : BOOLEAN, readable : BOOLEAN]
Stages == {"proto_agent", "apprentice", "journeyman", "specialist"}
Rank == [s \in Stages |-> CASE s = "proto_agent" -> 0 [] s = "apprentice" -> 1 [] s = "journeyman" -> 2 [] OTHER -> 3]

\* MaturationManager.current_stage
Stage(level) ==
    CASE level >= cfg.specialistMin -> "specialist"
      [] level < cfg.specialistMin /\ level > cfg.apprenticeMax -> "journeyman"
      [] level < cfg.specialistMin /\ level <= cfg.apprenticeMax /\ level >= 1 -> "apprentice"
      [] OTHER -> "proto_agent"

TypeOK ==
    /\ cfg \in Configs
    /\ trust.level \in 0..4 /\ trust.score \in 0..MaxScore
    /\ \A i \in DOMAIN trust.pending : trust.pending[i] \in [from : 0..4, to : 0..4]
    /\ told \in [stage : Stages, from : Stages, up : BOOLEAN, level : 0..4]
    /\ file \in [Skills -> Files]
    /\ \A s \in Skills : DOMAIN archive[s] \subseteq 1..MaxWrites /\ \A v \in DOMAIN archive[s] : archive[s][v] \in Files
    /\ \A s \in DOMAIN loaded : s \in Skills /\ loaded[s] \in 0..writes
    /\ writes \in 0..MaxWrites
    /\ history \in [Skills -> [reused : BOOLEAN, rewritten : BOOLEAN]]

-----------------------------------------------------------------------------
(* BaseAgent.setup, 6a to 6c                                               *)

\* TrustManager.seed_from_parent: the level to start with.
Seed ==
    IF cfg.parent < 0 THEN 0
    ELSE IF cfg.seed >= 0 THEN IF cfg.seed > 4 THEN 4 ELSE cfg.seed
    ELSE IF cfg.parent >= 3 /\ cfg.overlap THEN 1 ELSE 0

\* Trust starts anew with every process.  A level that is seeded is told with the next event.
Setup ==
    /\ trust' = [level |-> Seed, score |-> IF Seed = 0 THEN 0 ELSE Thresholds[Seed],
                 pending |-> IF Seed = 0 THEN << >> ELSE << [from |-> 0, to |-> Seed] >>]
    /\ told' = [stage |-> Stage(Seed), from |-> Stage(Seed), up |-> TRUE, level |-> 0]

\* SkillLoader.load_learned, after load_all of the skills of the image.
Loadable == {s \in Skills \ Bundled : file[s] # Absent /\ file[s].readable /\ ~file[s].quarantined}

Init ==
    /\ cfg \in Configs
    /\ trust = [level |-> Seed, score |-> IF Seed = 0 THEN 0 ELSE Thresholds[Seed],
                pending |-> IF Seed = 0 THEN << >> ELSE << [from |-> 0, to |-> Seed] >>]
    /\ told = [stage |-> Stage(Seed), from |-> Stage(Seed), up |-> TRUE, level |-> 0]
    /\ file = [s \in Skills |-> Absent]
    /\ archive = [s \in Skills |-> << >>]
    /\ loaded = << >>
    /\ writes = 0
    /\ history = [s \in Skills |-> [reused |-> FALSE, rewritten |-> FALSE]]

Restart ==
    /\ Setup
    /\ loaded' = [s \in Loadable |-> 0]
    /\ UNCHANGED << cfg, file, archive, writes, history >>

\* SkillLoader.get: the text is read at the first use.
Activate(s) ==
    /\ s \in DOMAIN loaded
    /\ loaded[s] = 0
    /\ file[s].readable
    /\ loaded' = [loaded EXCEPT ![s] = file[s].text]
    /\ UNCHANGED << cfg, trust, told, file, archive, writes, history >>

Deactivate(s) ==
    /\ s \in DOMAIN loaded
    /\ loaded' = [loaded EXCEPT ![s] = 0]
    /\ UNCHANGED << cfg, trust, told, file, archive, writes, history >>

-----------------------------------------------------------------------------
(* Trust                                                                   *)

Larger(x, y) == IF x > y THEN x ELSE y

\* _check_promotion and _check_demotion: one level at a time.
Level(score, up) ==
    LET level == trust.level
    IN  CASE up /\ level < 4 /\ score >= Thresholds[level + 1] -> level + 1
          [] ~up /\ level > 0 /\ 2 * score < Thresholds[level] -> level - 1
          [] OTHER -> level

\* (A variant, used by no specification: the level the agent is configured with decides.)
OutOfConfiguredScope(s, level) ==
    /\ level < 4 /\ cfg.level < 4
    /\ file[s] # Absent /\ file[s].readable /\ ~file[s].quarantined
    /\ file[s].domain \notin cfg.domains /\ cfg.domains # {}

\* quarantine_out_of_scope_skills
OutOfScope(s, level) ==
    /\ level < 4
    /\ file[s] # Absent /\ file[s].readable /\ ~file[s].quarantined
    /\ file[s].domain \notin cfg.domains /\ cfg.domains # {}

\* record_completion or record_failure with _drain_trust_events: the level changes, then the
\* stage is told, then skills are quarantined.  The quarantine raises before the first skill
\* where its directory cannot be put together, and after any where a file cannot be written;
\* a demotion is not told again.
Record(score, up) ==
    LET level == Level(score, up)
        events == IF level = trust.level THEN trust.pending
                  ELSE Append(trust.pending, [from |-> trust.level, to |-> level])
        before == Stage(trust.level)
        after == Stage(level)
        last == events[Len(events)]
        demotions == {i \in DOMAIN events : events[i].to < events[i].from}
        condemned == {s \in Skills : \E i \in demotions : OutOfScope(s, events[i].to)}
    IN \E reached \in SUBSET condemned :
        /\ ~cfg.placed => reached = {}
        /\ trust' = [level |-> level, score |-> score, pending |-> << >>]
        /\ told' = [told EXCEPT
                      !.stage = IF cfg.maturation /\ events # << >> /\ after # before THEN after ELSE @,
                      !.from = IF cfg.maturation /\ events # << >> /\ after # before THEN before ELSE @,
                      !.up = IF cfg.maturation /\ events # << >> /\ after # before THEN last.to > last.from ELSE @,
                      !.level = IF events # << >> THEN last.to ELSE @]
        /\ file' = [s \in Skills |-> IF s \in reached THEN [file[s] EXCEPT !.quarantined = TRUE] ELSE file[s]]
        /\ history' = IF cfg.placed /\ reached = condemned /\ demotions # {} /\ level < 4
                        THEN [s \in Skills |-> [history[s] EXCEPT !.rewritten = FALSE]] ELSE history
        /\ UNCHANGED << cfg, archive, loaded, writes >>

\* complete_work_item, release_work_item
Complete == trust.score + Completion <= MaxScore /\ Record(trust.score + Completion, TRUE)
Release == Record(Larger(0, trust.score - Failure), FALSE)

-----------------------------------------------------------------------------
(* learn_skill, rollback_skill                                             *)

MayLearn(s, domain) ==
    /\ cfg.level >= 1
    /\ cfg.maturation => Stage(trust.level) # "proto_agent"
    /\ domain \in cfg.domains \/ cfg.level >= 4
    /\ file[s] # Absent \/ Cardinality({t \in Skills : file[t] # Absent}) < cfg.maxSkills

\* The version of a file whose header cannot be parsed is taken to be 1.
VersionOf(s) == IF file[s].readable THEN file[s].version ELSE 1

With(s, v, f) == [w \in DOMAIN archive[s] \cup {v} |-> IF w = v THEN f ELSE archive[s][w]]

\* The current file is archived under its version, and the new one has the next.
Replace(s, f) ==
    LET v == VersionOf(s)
    IN  /\ archive' = [archive EXCEPT ![s] = With(s, v, file[s])]
        /\ file' = [file EXCEPT ![s] = [f EXCEPT !.version = v + 1]]
        /\ history' = [history EXCEPT ![s] = [reused |-> @.reused \/ v # file[s].version, rewritten |-> TRUE]]

\* The header is put together from the arguments as they are: it may not parse.
Learn(s, domain, readable) ==
    /\ MayLearn(s, domain)
    /\ writes < MaxWrites
    /\ writes' = writes + 1
    /\ LET new == [text |-> writes + 1, version |-> 1, domain |-> domain, quarantined |-> FALSE, readable |-> readable]
       IN  IF file[s] # Absent THEN Replace(s, new)
           ELSE /\ file' = [file EXCEPT ![s] = new]
                /\ history' = [history EXCEPT ![s].rewritten = TRUE]
                /\ UNCHANGED archive
    /\ UNCHANGED << cfg, trust, told, loaded >>

\* The current file is archived first, so that an archived version that is 1 by mistake is
\* gone before it is read; the archived file has to parse.
Rollback(s, v) ==
    /\ cfg.level >= 3
    /\ v \in DOMAIN archive[s]
    /\ file[s] # Absent
    /\ writes < MaxWrites
    /\ LET old == With(s, VersionOf(s), file[s])[v]
       IN  IF old.readable
             THEN Replace(s, old) /\ writes' = writes + 1
             ELSE /\ archive' = [archive EXCEPT ![s] = With(s, VersionOf(s), file[s])]
                  /\ history' = [history EXCEPT ![s].reused = @ \/ VersionOf(s) # file[s].version]
                  /\ UNCHANGED << file, writes >>
    /\ UNCHANGED << cfg, trust, told, loaded >>

-----------------------------------------------------------------------------
Next ==
    \/ Restart \/ Complete \/ Release
    \/ \E s \in Skills : Activate(s) \/ Deactivate(s)
    \/ \E s \in Skills, domain \in Domains, readable \in BOOLEAN : Learn(s, domain, readable)
    \/ \E s \in Skills, v \in 1..MaxWrites : Rollback(s, v)

Spec == Init /\ [][Next]_vars

-----------------------------------------------------------------------------
(* Properties.                                                             *)

\* The stage that was told last is the stage the agent is in, and the direction that was told
\* is the direction it went, also when the quarantine after it fails.  A skill outside the
\* agent's domains is quarantined, unless it was written after the last demotion whose
\* quarantine went through.  The versions of a skill are numbered without
\* a gap, and each is kept, unless a header did not parse.
AutonomyIsAccountedFor ==
    /\ cfg.maturation => /\ told.stage = Stage(trust.level)
                         /\ told.from # told.stage => told.up = (Rank[told.stage] > Rank[told.from])
    /\ trust.pending = << >> => told.level = trust.level
    /\ \A s \in Skills :
        /\ file[s] # Absent /\ file[s].readable /\ ~history[s].rewritten
            /\ cfg.domains # {} /\ file[s].domain \notin cfg.domains => file[s].quarantined
        /\ ~history[s].reused =>
            /\ 1..(file[s].version - 1) \subseteq DOMAIN archive[s]
            /\ DOMAIN archive[s] \subseteq 1..file[s].version
            /\ \A v \in DOMAIN archive[s] : archive[s][v].version = v
=============================================================================
