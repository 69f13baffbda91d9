----------------------------- MODULE Delegation -----------------------------
(***************************************************************************)
(* Agents that hand tasks to other agents (delegate_to_agent) and to       *)
(* ephemeral ones (spawn_agent).  A frame is one agent's work on one task: *)
(* a turn of a server that was asked over HTTP, a turn of a child in the   *)
(* same process, a turn of a spawned child.  Each counts how deep it is,   *)
(* and the tools refuse to go deeper than a limit.                         *)
(***************************************************************************)
EXTENDS Integers, Sequences, FiniteSets

CONSTANTS
    Servers,     \* agents behind an OpenAIChatServer
    Agents,      \* all agents with a configuration of their own
    Subagents,   \* [Agents -> sets of [to, kind, max]]: subagents: of agent.yaml
    SpawnMax,    \* spawn.max_depth, 0 where spawn.enabled is false
    MaxFrames,   \* bound: frames of a behaviour
    MaxOutside   \* bound: requests from outside

VARIABLES
    frame,   \* the frames
    queue,   \* per server: the turns in flight, the one with the agent lock first
    depth    \* per server: _delegation_depth of its one agent

vars == << frame, queue, depth >>

-----------------------------------------------------------------------------
Frames == 1..MaxFrames
Outside == 0

\* owner: the frame whose agent the tools of this one belong to; depth: that agent's count,
\* where it is not a server's; child: the frame it waits for.  chain, cap and sure are not in
\* the code: how deep the frame is, under which limit, and that nothing disturbed the count.
Unused == [kind |-> "unused", agent |-> "none", parent |-> Outside, owner |-> 0, depth |-> 0, child |-> 0,
           pc |-> "unused", chain |-> 0, cap |-> 0, sure |-> TRUE]

TypeOK ==
    /\ \A f \in Frames :
        /\ frame[f].kind \in {"unused", "http", "inprocess", "spawn"}
        /\ frame[f].agent \in Agents \cup {"none"}
        /\ frame[f].parent \in {Outside} \cup 1..(f - 1)
        /\ frame[f].owner \in 0..f /\ frame[f].child \in {0} \cup (f + 1)..MaxFrames
        /\ frame[f].pc \in {"unused", "waiting", "running", "calling", "over"}
        /\ (frame[f].pc = "calling") = (frame[f].child # 0)
    /\ queue \in [Servers -> Seq(Frames)]
    /\ depth \in [Servers -> Nat]

Init ==
    /\ frame = [f \in Frames |-> Unused]
    /\ queue = [s \in Servers |-> << >>]
    /\ depth = [s \in Servers |-> 0]

Next1(f) == frame[f].kind = "unused" /\ \A g \in 1..(f - 1) : frame[g].kind # "unused"
Live(f) == frame[f].pc \in {"waiting", "running", "calling"}
At(f, pc) == frame[f].pc = pc

\* What the depth checks of `_delegate' and `_spawn' read.  A spawned child has its parent's
\* tools, which are closures over the parent.
Seen(f) ==
    LET o == frame[f].owner
    IN  IF frame[o].kind = "http" THEN depth[frame[o].agent] ELSE frame[o].depth

-----------------------------------------------------------------------------
(* A server's turn.                                                        *)

\* The count comes with the request and is written at once, whoever has the lock; without a
\* header it stays.
Receives(s, f, header) ==
    /\ queue' = [queue EXCEPT ![s] = Append(@, f)]
    /\ depth' = IF header = 0 THEN depth ELSE [depth EXCEPT ![s] = header]

\* A turn that shares its server with another is not sure of its count any more.
Disturb(frames, s) ==
    [g \in Frames |-> IF frames[g].kind = "http" /\ frames[g].agent = s /\ frames[g].pc # "over"
                        THEN [frames[g] EXCEPT !.sure = @ /\ queue[s] = << >>] ELSE frames[g]]

Request(f, s) ==
    /\ Next1(f)
    /\ Cardinality({g \in Frames : frame[g].kind = "http" /\ frame[g].parent = Outside}) < MaxOutside
    /\ frame' = Disturb([frame EXCEPT ![f] = [Unused EXCEPT !.kind = "http", !.agent = s, !.owner = f, !.pc = "waiting"]], s)
    /\ Receives(s, f, 0)

Run(f) ==
    /\ At(f, "waiting")
    /\ Head(queue[frame[f].agent]) = f
    /\ frame' = [frame EXCEPT ![f].pc = "running"]
    /\ UNCHANGED << queue, depth >>

-----------------------------------------------------------------------------
(* The tools.                                                              *)

\* The child of a frame that is still sure of its count is sure of its own, but for the
\* children of a spawned frame, whose tools count for the frame that spawned it.
Child(f, kind, agent, cap) ==
    [Unused EXCEPT !.kind = kind, !.agent = agent, !.parent = f, !.depth = Seen(f) + 1,
                   !.chain = frame[f].chain + 1, !.cap = cap,
                   !.sure = frame[f].sure /\ frame[f].kind # "spawn"]

\* (A variant, used by no specification: the limit can be exceeded by one.)
WithinOrAt(f, max) == Seen(f) <= max

Within(f, max) == Seen(f) + 1 <= max

Delegate(f, c, sub) ==
    /\ At(f, "running") /\ Next1(c)
    /\ sub \in Subagents[frame[f].agent]
    /\ Within(f, sub.max)
    /\ LET child == [Child(f, sub.kind, sub.to, sub.max) EXCEPT
                        !.owner = c, !.pc = IF sub.kind = "http" THEN "waiting" ELSE "running"]
           called == [frame EXCEPT ![f].pc = "calling", ![f].child = c, ![c] = child]
       IN  IF sub.kind = "http"
             THEN frame' = Disturb(called, sub.to) /\ Receives(sub.to, c, Seen(f) + 1)
             ELSE frame' = called /\ UNCHANGED << queue, depth >>

Spawn(f, c) ==
    /\ At(f, "running") /\ Next1(c)
    /\ Within(f, SpawnMax)
    /\ LET o == frame[f].owner
       IN  frame' = [frame EXCEPT ![f].pc = "calling", ![f].child = c,
                         ![c] = [Child(f, "spawn", frame[o].agent, SpawnMax) EXCEPT !.owner = o, !.pc = "running"]]
    /\ UNCHANGED << queue, depth >>

-----------------------------------------------------------------------------
(* The end of a frame.                                                     *)

Over(frames, F) == [g \in Frames |-> IF g \in F THEN [frames[g] EXCEPT !.pc = "over", !.child = 0] ELSE frames[g]]
Resume(frames, f) == [frames EXCEPT ![f].pc = "running", ![f].child = 0]

\* The frame answers, with a result or an error; the parent goes on if it still waits.  At
\* the end of a turn the server's count is set to zero.
Return(f) ==
    /\ At(f, "running")
    /\ LET p == frame[f].parent
           over == Over(frame, {f})
       IN  frame' = IF p # Outside /\ frame[p].child = f THEN Resume(over, p) ELSE over
    /\ IF frame[f].kind = "http"
         THEN /\ queue' = [queue EXCEPT ![frame[f].agent] = Tail(@)]
              /\ depth' = [depth EXCEPT ![frame[f].agent] = 0]
         ELSE UNCHANGED << queue, depth >>

\* The frames that are cancelled with f: those in its process.  A turn on a server goes on
\* without anybody to answer to.
InProcess(f) ==
    {S \in SUBSET Frames : f \in S /\ \A g \in Frames : frame[g].kind # "http" /\ frame[g].parent \in S => g \in S}
Cancelled(f) ==
    {g \in Frames : frame[f].kind # "http" /\ Live(g) /\ \A S \in InProcess(f) : g \in S}

\* The parent's timeout.
GiveUp(f) ==
    /\ At(f, "calling")
    /\ frame' = Resume(Over(frame, Cancelled(frame[f].child)), f)
    /\ UNCHANGED << queue, depth >>

-----------------------------------------------------------------------------
Next ==
    \/ \E f \in Frames, s \in Servers : Request(f, s)
    \/ \E f \in Frames : Run(f) \/ Return(f) \/ GiveUp(f)
    \/ \E f, c \in Frames : Spawn(f, c)
    \/ \E f, c \in Frames : \E sub \in UNION {Subagents[a] : a \in Agents} : Delegate(f, c, sub)

Spec == Init /\ [][Next]_vars

\* asyncio.wait_for ends every wait of a parent; a turn that has the lock ends.
Progress(f) == Run(f) \/ Return(f) \/ GiveUp(f)
Fairness == \A f \in Frames : WF_vars(Run(f)) /\ WF_vars(Return(f)) /\ WF_vars(GiveUp(f))

-----------------------------------------------------------------------------
(* Properties.                                                             *)

\* A chain of agents is no longer than the limit of its last call.
ChainsAreCapped == \A f \in Frames : frame[f].chain <= frame[f].cap

\* As long as the turns of a chain shared no server with other turns, and nobody spawned in
\* it delegates, the chain is counted right and is no longer than the limit of each call.
\* The turns of a server run one at a time, and nobody waits for a frame that is over.
CountedChainsAreCapped ==
    /\ \A f \in Frames :
        frame[f].sure /\ Live(f) =>
            /\ frame[f].chain <= frame[f].cap
            /\ frame[f].kind # "spawn" => Seen(f) = frame[f].chain
    /\ \A f, g \in Frames :
        f # g /\ frame[f].kind = "http" /\ frame[g].kind = "http" /\ frame[f].agent = frame[g].agent =>
            ~(frame[f].pc \in {"running", "calling"} /\ frame[g].pc \in {"running", "calling"})
    /\ \A f \in Frames : At(f, "calling") => Live(frame[f].child)

\* Agents that delegate to each other do not wait for each other for good.
TurnsEnd == \A f \in Frames : At(f, "waiting") ~> At(f, "over")
=============================================================================
