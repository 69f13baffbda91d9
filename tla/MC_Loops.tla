------------------------------ MODULE MC_Loops ------------------------------
(***************************************************************************)
(* The loops and waits of the system, one at a time: requests that wait    *)
(* for the agent lock, the lease sweep, the loop of an event source, the   *)
(* gateway's relay of a stream, agents that wait for each other, tool      *)
(* calls that wait for a reconnection.  A behaviour is one of the loop     *)
(* `part'; the loops use the same variables, under their own names.        *)
(***************************************************************************)
EXTENDS Integers, Sequences, FiniteSets, TLC

CONSTANTS r1, r2, s1, s2, i1, a1, a2, w1, Nobody

VARIABLES part, v1, v2, v3, v4, v5, v6, v7, v8, v9

all == << part, v1, v2, v3, v4, v5, v6, v7, v8, v9 >>

-----------------------------------------------------------------------------
Chat == INSTANCE ChatServer
    WITH Requests <- {r1, r2}, Sessions <- {s1},
         req <- v1, agent <- v2, queue <- v3, store <- v4, executed <- v5, overlapped <- v6

Sqlite == INSTANCE SqliteWorkItemStore
    WITH Items <- {i1}, Actors <- {a1, a2}, NoActor <- Nobody,
         Workers <- {w1}, Durations <- {0}, MaxTime <- 2,
         disk <- v1, mem <- v2, tx <- v3, task <- v4, sweep <- v5, now <- v6, broken <- v7

Pipeline == INSTANCE EventPipeline
    WITH Sources <- {"kafka", "redis", "webhook", "cron"}, Resets <- {"earliest", "latest"},
         Poison <- {2}, MaxAttempts <- 2, MaxEvents <- 2, MaxRestarts <- 2,
         source <- v1, arrived <- v2, broker <- v3, position <- v4, loop <- v5,
         outcome <- v6, turns <- v7, lost <- v8, restarts <- v9

Streams == INSTANCE GatewayStreams
    WITH MaxLines <- 3, MaxBytes <- 1,
         Uploads <- {[parts |-> << [file |-> TRUE, allowed |-> FALSE, size |-> 1] >>, known |-> TRUE]},
         stream <- v1, reader <- v2, relay <- v3, upload <- v4, copier <- v5, agent <- v6, answer <- v7

Sub(to) == {[to |-> to, kind |-> "http", max |-> 2]}
Chain == INSTANCE Delegation
    WITH Servers <- {"a", "b"}, Agents <- {"a", "b"}, Subagents <- "a" :> Sub("b") @@ "b" :> Sub("a"),
         SpawnMax <- 1, MaxFrames <- 4, MaxOutside <- 2,
         frame <- v1, queue <- v2, depth <- v3

Broker == [name |-> "broker", http |-> TRUE, keyed |-> TRUE, template |-> TRUE, offers |-> {"search"}]
Mcp == INSTANCE McpConnections
    WITH Configs <- {[hooks |-> TRUE, servers |-> {Broker}, order |-> << "broker" >>]},
         Tools <- {"search"}, Prompts <- {}, Calls <- {r1, r2}, MaxTokens <- 2, MaxClients <- 2,
         cfg <- v1, todo <- v2, env <- v3, idp <- v4, ref <- v5, open <- v6, owner <- v7, call <- v8,
         history <- v9

-----------------------------------------------------------------------------
Init ==
    \/ part = "chat"   /\ Chat!Init     /\ v7 = 0 /\ v8 = 0 /\ v9 = 0
    \/ part = "sqlite" /\ Sqlite!Init   /\ v8 = 0 /\ v9 = 0
    \/ part = "events" /\ Pipeline!Init
    \/ part = "mcp" /\ Mcp!Init
    \/ part = "streams" /\ Streams!Init /\ v8 = 0 /\ v9 = 0
    \/ part = "delegation" /\ Chain!Init /\ v4 = 0 /\ v5 = 0 /\ v6 = 0 /\ v7 = 0 /\ v8 = 0 /\ v9 = 0

Next ==
    \/ part = "chat"   /\ Chat!Next     /\ UNCHANGED << part, v7, v8, v9 >>
    \/ part = "sqlite" /\ Sqlite!Next   /\ UNCHANGED << part, v8, v9 >>
    \/ part = "events" /\ Pipeline!Next /\ UNCHANGED part
    \/ part = "mcp" /\ Mcp!Next /\ UNCHANGED part
    \/ part = "streams" /\ Streams!Next /\ UNCHANGED << part, v8, v9 >>
    \/ part = "delegation" /\ Chain!Next /\ UNCHANGED << part, v4, v5, v6, v7, v8, v9 >>

Spec == Init /\ [][Next]_all

\* The fairness of each loop.
FairSpec ==
    /\ Spec
    /\ \A r \in {r1, r2} : WF_(Chat!vars)(part = "chat" /\ Chat!Progress(r))
    /\ WF_(Sqlite!vars)(part = "sqlite" /\ Sqlite!SweepSelect)
    /\ SF_(Sqlite!vars)(part = "sqlite" /\ Sqlite!SweepUpdate)
    /\ SF_(Sqlite!vars)(part = "sqlite" /\ Sqlite!SweepCommit)
    /\ WF_(Pipeline!vars)(part = "events" /\ Pipeline!Take)
    /\ WF_(Pipeline!vars)(part = "events" /\ Pipeline!Handle)
    /\ WF_(Streams!vars)(part = "streams" /\ \E how \in {"closed", "broken"} : Streams!EndStream(how))
    /\ WF_(Streams!vars)(part = "streams" /\ (Streams!Scan \/ Streams!Relay \/ Streams!Abandon))
    /\ WF_(Streams!vars)(part = "streams" /\ Streams!RelayEnds)
    /\ \A c \in {r1, r2} : WF_(Mcp!vars)(part = "mcp" /\ Mcp!Progress(c))
    /\ \A f \in Chain!Frames :
          /\ WF_(Chain!vars)(part = "delegation" /\ Chain!Run(f))
          /\ WF_(Chain!vars)(part = "delegation" /\ Chain!Return(f))
          /\ WF_(Chain!vars)(part = "delegation" /\ Chain!GiveUp(f))

-----------------------------------------------------------------------------
\* A request ends whatever the requests before it do, fail, lose their client or wait for the
\* operator (ChatServer); the relay of a stream ends, and its goroutine with it
\* (GatewayStreams); agents that delegate to each other do not wait for each other for good
\* (Delegation); a tool call ends though it waits for others to reconnect its server
\* (McpConnections).
EveryRequestEnds ==
    /\ \A r \in {r1, r2} : (part = "chat" /\ Chat!At(r, "load")) ~> (part = "chat" /\ Chat!At(r, "done"))
    /\ <>(part = "streams" => v3.pc = "returned" /\ v2.pc = "ended")
    /\ \A c \in {r1, r2} :
          (part = "mcp" /\ Mcp!At(c, "sent")) ~> (part = "mcp" /\ v8[c].at \in {"done", "failed"})
    /\ \A f \in Chain!Frames :
          (part = "delegation" /\ Chain!At(f, "waiting")) ~> (part = "delegation" /\ Chain!At(f, "over"))

\* The shared transaction of the SQLite store is released after each use, and a lease that
\* has expired comes back once the workers stop (SqliteWorkItemStore).
LeasesComeBack ==
    /\ (part = "sqlite" /\ v3) ~> (part = "sqlite" /\ ~v3)
    /\ (<>[](part = "sqlite" /\ v4[w1] = Sqlite!Idle)) =>
           (part = "sqlite" /\ Sqlite!Expired(v1[i1], v6)) ~> (part = "sqlite" /\ ~Sqlite!Expired(v1[i1], v6))

\* An event that arrives is handled, or given up and told to the sink, or known to be lost,
\* as long as the loop of its source lives (EventPipeline).
EventsAreHandled ==
    \A e \in 1..2 : (part = "events" /\ v2 >= e) ~>
                    (part = "events" /\ (e \in Pipeline!Handled \cup v8 \/ Pipeline!At("dead")))
=============================================================================
