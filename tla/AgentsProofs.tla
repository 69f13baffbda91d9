----------------------------- MODULE AgentsProofs -----------------------------
(***************************************************************************)
(* What the components of Agents promise, for any agents and skills.       *)
(***************************************************************************)
EXTENDS Agents, TLAPS, SequenceTheorems, FiniteSetTheorems

-----------------------------------------------------------------------------
(***************************************************************************)
(* Delegation.                                                             *)
(*                                                                         *)
(* The limit of a chain holds because the count a tool reads is the depth  *)
(* of the frame that calls it.  For a turn of a server this is so while    *)
(* the turn is alone in the queue of its server: only the turn itself, at  *)
(* its end, and another turn that comes change the count.  The invariant   *)
(* says which frames the queues hold, that a frame that waits has a child  *)
(* to wait for, and that the certain counts are right.                     *)
(***************************************************************************)

ChainFrameType ==
    [kind : {"unused", "http", "inprocess", "spawn"}, agent : ChainAgents \cup {"none"}, parent : Nat, owner : Nat,
     depth : Nat, child : Nat, pc : {"unused", "waiting", "running", "calling", "over"}, chain : Nat, cap : Nat,
     sure : BOOLEAN]

ChainTyped ==
    /\ chainFrame \in [Chain!Frames -> ChainFrameType]
    /\ chainQueue \in [ChainServers -> Seq(Chain!Frames)]
    /\ chainDepth \in [ChainServers -> Nat]
    /\ \A f \in Chain!Frames :
          /\ chainFrame[f].kind = "unused" <=> chainFrame[f].pc = "unused"
          /\ chainFrame[f].kind # "unused" => chainFrame[f].owner \in Chain!Frames /\ chainFrame[f].agent \in ChainAgents
          /\ chainFrame[f].kind \in {"http", "inprocess"} => chainFrame[f].owner = f
          /\ chainFrame[f].kind = "http" => chainFrame[f].agent \in ChainServers
          /\ chainFrame[f].parent < f
          /\ chainFrame[f].pc = "waiting" => chainFrame[f].kind = "http"
          /\ \A g \in Chain!Frames : g < f /\ chainFrame[g].kind = "unused" => chainFrame[f].kind = "unused"

\* The tools of a frame are those of a frame in use.
ChainOwned ==
    \A f \in Chain!Frames : chainFrame[f].kind # "unused" => chainFrame[chainFrame[f].owner].kind # "unused"

ChainQueued ==
    /\ \A s \in ChainServers : \A i \in 1..Len(chainQueue[s]) :
          /\ chainFrame[chainQueue[s][i]].kind = "http" /\ chainFrame[chainQueue[s][i]].agent = s
          /\ Chain!Live(chainQueue[s][i])
          /\ i # 1 => chainFrame[chainQueue[s][i]].pc = "waiting"
          /\ \A j \in 1..Len(chainQueue[s]) : i # j => chainQueue[s][i] # chainQueue[s][j]
    /\ \A f \in Chain!Frames :
          chainFrame[f].kind = "http" /\ Chain!Live(f) =>
              \E i \in 1..Len(chainQueue[chainFrame[f].agent]) : chainQueue[chainFrame[f].agent][i] = f

ChainCalls ==
    /\ \A f \in Chain!Frames : chainFrame[f].pc = "calling" =>
          /\ chainFrame[f].child \in Chain!Frames /\ chainFrame[chainFrame[f].child].parent = f
          /\ Chain!Live(chainFrame[f].child)
    /\ \A f \in Chain!Frames : chainFrame[f].child # 0 => chainFrame[f].pc = "calling"

ChainCounted ==
    /\ \A s \in ChainServers : chainQueue[s] = << >> => chainDepth[s] = 0
    /\ \A f \in Chain!Frames : chainFrame[f].sure /\ Chain!Live(f) =>
          /\ chainFrame[f].chain <= chainFrame[f].cap
          /\ chainFrame[f].kind = "inprocess" => chainFrame[f].depth = chainFrame[f].chain
          /\ chainFrame[f].kind = "http" => /\ chainDepth[chainFrame[f].agent] = chainFrame[f].chain
                                            /\ chainQueue[chainFrame[f].agent] = << f >>

ChainInv == ChainTyped /\ ChainOwned /\ ChainQueued /\ ChainCalls /\ ChainCounted

\* Queues: who joins is last, who leaves was first.
LEMMA Joined ==
    ASSUME NEW S, NEW q \in Seq(S), NEW e \in S
    PROVE  /\ Append(q, e) \in Seq(S) /\ Append(q, e) # << >> /\ Len(q) \in Nat
           /\ Len(Append(q, e)) = Len(q) + 1 /\ Append(q, e)[Len(q) + 1] = e
           /\ \A i \in 1..Len(q) : Append(q, e)[i] = q[i]
           /\ q = << >> => Append(q, e) = << e >>
<1>1. /\ Append(q, e) \in Seq(S) /\ Len(Append(q, e)) = Len(q) + 1 /\ Append(q, e)[Len(q) + 1] = e
      /\ \A i \in 1..Len(q) : Append(q, e)[i] = q[i]
  BY AppendProperties
<1>2. Len(q) \in Nat
  BY LenProperties
<1>3. Append(q, e) # << >>
  BY <1>1, <1>2
<1>4. q = << >> => Append(q, e) = << e >>
  OBVIOUS
<1> QED
  BY <1>1, <1>2, <1>3, <1>4

LEMMA Left ==
    ASSUME NEW S, NEW q \in Seq(S), q # << >>
    PROVE  /\ Tail(q) \in Seq(S) /\ Len(q) \in Nat \ {0} /\ Len(Tail(q)) = Len(q) - 1 /\ Head(q) = q[1]
           /\ \A i \in 1..Len(q) - 1 : Tail(q)[i] = q[i + 1]
<1>1. Len(q) \in Nat \ {0}
  BY EmptySeq, LenProperties
<1>2. Tail(q) \in Seq(S) /\ Len(Tail(q)) = Len(q) - 1 /\ \A i \in 1..Len(q) - 1 : Tail(q)[i] = q[i + 1]
  BY <1>1, HeadTailProperties
<1>3. Head(q) = q[1]
  BY HeadTailProperties
<1> QED
  BY <1>1, <1>2, <1>3

LEMMA ChainFramesAreNumbers == \A f \in Chain!Frames : f \in Nat /\ f > 0
BY ChainAssumption DEF Chain!Frames

LEMMA ChainInit == Chain!Init => ChainInv
<1> SUFFICES ASSUME Chain!Init PROVE ChainInv
  OBVIOUS
<1>1. Chain!Unused \in ChainFrameType /\ Chain!Unused.kind = "unused" /\ Chain!Unused.pc = "unused"
      /\ Chain!Unused.parent = 0 /\ Chain!Unused.child = 0
  BY DEF Chain!Unused, Chain!Outside, ChainFrameType
<1>2. \A f \in Chain!Frames : chainFrame[f] = Chain!Unused /\ f > 0
  BY DEF Chain!Init, Chain!Frames
<1>3. chainFrame \in [Chain!Frames -> ChainFrameType]
  BY <1>1 DEF Chain!Init
<1>4. chainQueue \in [ChainServers -> Seq(Chain!Frames)] /\ \A s \in ChainServers : chainQueue[s] = << >> /\ chainDepth[s] = 0
  BY DEF Chain!Init
<1>5. chainDepth \in [ChainServers -> Nat]
  BY DEF Chain!Init
<1>6. ChainTyped
  BY <1>1, <1>2, <1>3, <1>4, <1>5 DEF ChainTyped
<1> QED
  BY <1>1, <1>2, <1>4, <1>6 DEF ChainInv, ChainOwned, ChainQueued, ChainCalls, ChainCounted, Chain!Live

\* What Seen reads.
LEMMA ChainSeen ==
    ASSUME ChainInv, NEW f \in Chain!Frames, chainFrame[f].kind # "unused"
    PROVE  /\ Chain!Seen(f) \in Nat
           /\ chainFrame[f].sure /\ Chain!Live(f) /\ chainFrame[f].kind # "spawn" => Chain!Seen(f) = chainFrame[f].chain
<1>1. chainFrame[f] \in ChainFrameType /\ chainFrame[f].owner \in Chain!Frames
  BY DEF ChainInv, ChainTyped
<1> DEFINE o == chainFrame[f].owner
<1>2. chainFrame[o] \in ChainFrameType /\ (chainFrame[o].kind = "http" => chainFrame[o].agent \in ChainServers)
  BY <1>1 DEF ChainInv, ChainTyped
<1>3. chainDepth \in [ChainServers -> Nat]
  BY DEF ChainInv, ChainTyped
<1>4. Chain!Seen(f) = IF chainFrame[o].kind = "http" THEN chainDepth[chainFrame[o].agent] ELSE chainFrame[o].depth
  BY DEF Chain!Seen
<1>5. Chain!Seen(f) \in Nat
  BY <1>2, <1>3, <1>4 DEF ChainFrameType
<1>6. ASSUME chainFrame[f].sure, Chain!Live(f), chainFrame[f].kind # "spawn" PROVE Chain!Seen(f) = chainFrame[f].chain
  <2>1. chainFrame[f].kind \in {"http", "inprocess"} /\ o = f
    BY <1>1, <1>6 DEF ChainInv, ChainTyped, ChainFrameType
  <2> QED
    BY <1>4, <1>6, <2>1 DEF ChainInv, ChainCounted
<1> QED
  BY <1>5, <1>6

\* What a frame keeps while others come, go and disturb its count.
ChainKept(old, new) ==
    /\ new.kind = old.kind /\ new.agent = old.agent /\ new.parent = old.parent /\ new.owner = old.owner
    /\ new.depth = old.depth /\ new.chain = old.chain /\ new.cap = old.cap
    /\ new.sure => old.sure

\* A turn f of the server s is new; who asked for it, if it was a frame, waits for it.
LEMMA ChainReceives ==
    ASSUME ChainInv, NEW f \in Chain!Frames, NEW s \in ChainServers, Chain!Next1(f),
           NEW header \in Nat, Chain!Receives(s, f, header),
           chainFrame' \in [Chain!Frames -> ChainFrameType],
           /\ chainFrame'[f].kind = "http" /\ chainFrame'[f].agent = s /\ chainFrame'[f].owner = f
           /\ chainFrame'[f].pc = "waiting" /\ chainFrame'[f].parent < f /\ chainFrame'[f].child = 0,
           chainFrame'[f].sure =>
               /\ chainFrame'[f].chain <= chainFrame'[f].cap /\ chainFrame'[f].chain = header
               /\ chainQueue[s] = << >>,
           \A g \in Chain!Frames \ {f} :
               /\ ChainKept(chainFrame[g], chainFrame'[g])
               /\ \/ chainFrame'[g].pc = chainFrame[g].pc /\ chainFrame'[g].child = chainFrame[g].child
                  \/ /\ chainFrame[g].pc = "running" /\ chainFrame'[g].pc = "calling" /\ chainFrame'[g].child = f
                     /\ chainFrame'[f].parent = g
               /\ chainFrame'[g].sure /\ chainFrame[g].kind = "http" /\ chainFrame[g].agent = s /\ Chain!Live(g) =>
                      chainQueue[s] = << >>
    PROVE  ChainInv'
<1> DEFINE fr == chainFrame
           gr == chainFrame'
           q == chainQueue[s]
<1>0. /\ fr \in [Chain!Frames -> ChainFrameType] /\ fr[f].pc = "unused" /\ fr[f].kind = "unused"
      /\ chainQueue \in [ChainServers -> Seq(Chain!Frames)] /\ chainDepth \in [ChainServers -> Nat]
      /\ q \in Seq(Chain!Frames) /\ Len(q) \in Nat
  BY DEF ChainInv, ChainTyped, Chain!Next1
<1>1. /\ chainQueue' \in [ChainServers -> Seq(Chain!Frames)]
      /\ chainQueue'[s] = Append(q, f) /\ chainQueue'[s] # << >>
      /\ Len(chainQueue'[s]) = Len(q) + 1 /\ chainQueue'[s][Len(q) + 1] = f
      /\ \A i \in 1..Len(q) : chainQueue'[s][i] = q[i]
      /\ \A t \in ChainServers \ {s} : chainQueue'[t] = chainQueue[t]
      /\ q = << >> => chainQueue'[s] = << f >>
  <2>1. chainQueue' = [chainQueue EXCEPT ![s] = Append(q, f)]
    BY DEF Chain!Receives
  <2>2. chainQueue' \in [ChainServers -> Seq(Chain!Frames)] /\ chainQueue'[s] = Append(q, f)
    BY <1>0, <2>1, Joined
  <2>3. \A t \in ChainServers \ {s} : chainQueue'[t] = chainQueue[t]
    BY <1>0, <2>1
  <2> QED
    BY <1>0, <2>2, <2>3, Joined
<1>2. /\ chainDepth' \in [ChainServers -> Nat]
      /\ \A t \in ChainServers \ {s} : chainDepth'[t] = chainDepth[t]
      /\ q = << >> => chainDepth'[s] = header
  BY <1>0 DEF Chain!Receives, ChainInv, ChainCounted
<1>3. \A g \in Chain!Frames \ {f} : Chain!Live(g)' <=> Chain!Live(g)
  BY DEF Chain!Live
<1>4. Chain!Live(f)' /\ ~Chain!Live(f)
  BY <1>0 DEF Chain!Live
<1>5. ChainTyped'
  <2>1. ASSUME NEW g \in Chain!Frames
        PROVE  /\ gr[g].kind = "unused" <=> gr[g].pc = "unused"
               /\ gr[g].kind # "unused" => gr[g].owner \in Chain!Frames /\ gr[g].agent \in ChainAgents
               /\ gr[g].kind \in {"http", "inprocess"} => gr[g].owner = g
               /\ gr[g].kind = "http" => gr[g].agent \in ChainServers
               /\ gr[g].parent < g
               /\ gr[g].pc = "waiting" => gr[g].kind = "http"
               /\ \A h \in Chain!Frames : h < g /\ gr[h].kind = "unused" => gr[g].kind = "unused"
    <3>0. \A h \in Chain!Frames : gr[h].kind = "unused" => h # f /\ fr[h].kind = "unused"
      BY DEF ChainKept
    <3>1. CASE g = f
      <4>1. \A h \in Chain!Frames : h < g => fr[h].kind # "unused"
        BY <3>1, ChainFramesAreNumbers DEF Chain!Next1
      <4> QED
        BY <3>0, <3>1, <4>1, ChainAssumption
    <3>2. CASE g # f
      <4>1. /\ fr[g].kind = "unused" <=> fr[g].pc = "unused"
            /\ fr[g].kind # "unused" => fr[g].owner \in Chain!Frames /\ fr[g].agent \in ChainAgents
            /\ fr[g].kind \in {"http", "inprocess"} => fr[g].owner = g
            /\ fr[g].kind = "http" => fr[g].agent \in ChainServers
            /\ fr[g].parent < g
            /\ fr[g].pc = "waiting" => fr[g].kind = "http"
            /\ \A h \in Chain!Frames : h < g /\ fr[h].kind = "unused" => fr[g].kind = "unused"
        BY DEF ChainInv, ChainTyped
      <4>2. ChainKept(fr[g], gr[g]) /\ (gr[g].pc = fr[g].pc \/ (fr[g].pc = "running" /\ gr[g].pc = "calling"))
        BY <3>2
      <4> QED
        BY <3>0, <4>1, <4>2 DEF ChainKept
    <3> QED
      BY <3>1, <3>2
  <2> QED
    BY <1>1, <1>2, <2>1 DEF ChainTyped
<1>6. ASSUME NEW t \in ChainServers, NEW i \in 1..Len(chainQueue[t])
      PROVE  /\ chainQueue[t][i] \in Chain!Frames \ {f} /\ fr[chainQueue[t][i]].kind = "http" /\ fr[chainQueue[t][i]].agent = t
             /\ Chain!Live(chainQueue[t][i])
             /\ i # 1 => fr[chainQueue[t][i]].pc = "waiting"
             /\ \A j \in 1..Len(chainQueue[t]) : i # j => chainQueue[t][i] # chainQueue[t][j]
  BY <1>0, <1>4 DEF ChainInv, ChainQueued, ChainTyped
<1>7. ChainQueued'
  <2>1. ASSUME NEW t \in ChainServers, NEW i \in 1..Len(chainQueue'[t])
        PROVE  /\ gr[chainQueue'[t][i]].kind = "http" /\ gr[chainQueue'[t][i]].agent = t
               /\ gr[chainQueue'[t][i]].pc \in {"waiting", "running", "calling"}
               /\ i # 1 => gr[chainQueue'[t][i]].pc = "waiting"
               /\ \A j \in 1..Len(chainQueue'[t]) : i # j => chainQueue'[t][i] # chainQueue'[t][j]
    <3>1. CASE t # s \/ i \in 1..Len(q)
      <4>1. i \in 1..Len(chainQueue[t]) /\ chainQueue'[t][i] = chainQueue[t][i]
        BY <1>1, <3>1
      <4>g. PICK g \in Chain!Frames : g = chainQueue[t][i]
        BY <1>6, <4>1
      <4>2. /\ g \in Chain!Frames \ {f} /\ fr[g].kind = "http" /\ fr[g].agent = t /\ Chain!Live(g)
            /\ i # 1 => fr[g].pc = "waiting"
        BY <1>6, <4>1, <4>g
      <4>3. ASSUME NEW j \in 1..Len(chainQueue'[t]), i # j PROVE g # chainQueue'[t][j]
        <5>1. (j \in 1..Len(chainQueue[t]) /\ chainQueue'[t][j] = chainQueue[t][j]) \/ chainQueue'[t][j] = f
          <6>1. CASE t = s
            <7>1. j \in 1..Len(q) \/ j = Len(q) + 1
              BY <1>0, <1>1, <6>1
            <7> QED
              BY <1>1, <6>1, <7>1
          <6>2. CASE t # s
            BY <1>1, <6>2
          <6> QED
            BY <6>1, <6>2
        <5> QED
          BY <1>6, <4>1, <4>2, <4>3, <4>g, <5>1
      <4>4. ChainKept(fr[g], gr[g]) /\ gr[g].pc \in {"waiting", "running", "calling"} /\ (i # 1 => gr[g].pc = "waiting")
        BY <1>3, <4>2 DEF Chain!Live
      <4> QED
        BY <4>1, <4>2, <4>3, <4>4, <4>g DEF ChainKept
    <3>2. CASE t = s /\ i = Len(q) + 1
      <4>1. chainQueue'[t][i] = f
        BY <1>1, <3>2
      <4>2. ASSUME NEW j \in 1..Len(chainQueue'[t]), i # j PROVE chainQueue'[t][i] # chainQueue'[t][j]
        <5>1. j \in 1..Len(q)
          BY <1>0, <1>1, <3>2, <4>2
        <5>2. chainQueue'[t][j] = q[j] /\ q[j] # f
          BY <1>1, <1>6, <3>2, <5>1
        <5> QED
          BY <4>1, <5>2
      <4>3. i # 1 => gr[f].pc = "waiting"
        OBVIOUS
      <4> QED
        BY <3>2, <4>1, <4>2, <4>3
    <3> QED
      BY <1>0, <1>1, <3>1, <3>2
  <2>2. ASSUME NEW g \in Chain!Frames, gr[g].kind = "http", Chain!Live(g)'
        PROVE  \E i \in 1..Len(chainQueue'[gr[g].agent]) : chainQueue'[gr[g].agent][i] = g
    <3>1. CASE g = f
      BY <1>0, <1>1, <3>1
    <3>2. CASE g # f
      <4>1. fr[g].kind = "http" /\ Chain!Live(g) /\ gr[g].agent = fr[g].agent /\ fr[g].agent \in ChainServers
        BY <1>0, <1>3, <2>2, <3>2 DEF ChainKept, ChainInv, ChainTyped
      <4>2. PICK i \in 1..Len(chainQueue[fr[g].agent]) : chainQueue[fr[g].agent][i] = g
        BY <4>1 DEF ChainInv, ChainQueued
      <4>3. i \in 1..Len(chainQueue'[fr[g].agent]) /\ chainQueue'[fr[g].agent][i] = g
        <5>1. CASE fr[g].agent = s
          <6>1. i \in 1..Len(q) /\ q[i] = g
            BY <4>2, <5>1
          <6>2. i \in 1..Len(q) + 1 /\ chainQueue'[s][i] = g
            BY <1>0, <1>1, <6>1
          <6> QED
            BY <1>1, <5>1, <6>2
        <5>2. CASE fr[g].agent # s
          BY <1>1, <4>1, <4>2, <5>2
        <5> QED
          BY <5>1, <5>2
      <4> QED
        BY <4>1, <4>3
    <3> QED
      BY <3>1, <3>2
  <2> QED
    BY <2>1, <2>2 DEF ChainQueued, Chain!Live
<1>8. ChainCalls'
  <2>1. ASSUME NEW g \in Chain!Frames, gr[g].pc = "calling"
        PROVE  /\ gr[g].child \in Chain!Frames /\ gr[gr[g].child].parent = g
               /\ gr[gr[g].child].pc \in {"waiting", "running", "calling"}
    <3>1. CASE fr[g].pc = "calling" /\ g # f /\ gr[g].child = fr[g].child
      <4>1. PICK h \in Chain!Frames : h = fr[g].child /\ fr[h].parent = g /\ Chain!Live(h)
        BY <3>1 DEF ChainInv, ChainCalls
      <4>2. h # f /\ gr[h].pc \in {"waiting", "running", "calling"}
        BY <1>3, <1>4, <4>1 DEF Chain!Live
      <4> QED
        BY <3>1, <4>1, <4>2 DEF ChainKept
    <3>2. CASE g # f /\ gr[g].child = f /\ gr[f].parent = g
      BY <3>2
    <3> QED
      BY <2>1, <3>1, <3>2
  <2>2. ASSUME NEW g \in Chain!Frames, gr[g].child # 0 PROVE gr[g].pc = "calling"
    BY <2>2 DEF ChainInv, ChainCalls
  <2> QED
    BY <2>1, <2>2 DEF ChainCalls, Chain!Live
<1>9. ChainCounted'
  <2>1. ASSUME NEW t \in ChainServers, chainQueue'[t] = << >> PROVE chainDepth'[t] = 0
    <3>1. t # s /\ chainQueue[t] = << >> /\ chainDepth'[t] = chainDepth[t]
      BY <1>1, <1>2, <2>1
    <3> QED
      BY <3>1 DEF ChainInv, ChainCounted
  <2>2. ASSUME NEW g \in Chain!Frames, gr[g].sure, Chain!Live(g)'
        PROVE  /\ gr[g].chain <= gr[g].cap
               /\ gr[g].kind = "inprocess" => gr[g].depth = gr[g].chain
               /\ gr[g].kind = "http" => chainDepth'[gr[g].agent] = gr[g].chain /\ chainQueue'[gr[g].agent] = << g >>
    <3>1. CASE g = f
      BY <1>1, <1>2, <2>2, <3>1
    <3>2. CASE g # f
      <4>1. ChainKept(fr[g], gr[g]) /\ fr[g].sure /\ Chain!Live(g)
        BY <1>3, <2>2, <3>2 DEF ChainKept
      <4>2. /\ fr[g].chain <= fr[g].cap /\ (fr[g].kind = "inprocess" => fr[g].depth = fr[g].chain)
            /\ fr[g].kind = "http" => /\ fr[g].agent \in ChainServers /\ chainDepth[fr[g].agent] = fr[g].chain
                                      /\ chainQueue[fr[g].agent] = << g >>
        BY <4>1 DEF ChainInv, ChainCounted, ChainTyped
      <4>3. fr[g].kind = "http" => fr[g].agent # s
        <5>1. fr[g].kind = "http" /\ fr[g].agent = s => chainQueue[s] = << >>
          BY <2>2, <3>2, <4>1
        <5>2. << g >> # << >>
          OBVIOUS
        <5> QED
          BY <4>2, <5>1, <5>2
      <4> QED
        BY <1>1, <1>2, <4>1, <4>2, <4>3 DEF ChainKept
    <3> QED
      BY <3>1, <3>2
  <2> QED
    BY <2>1, <2>2 DEF ChainCounted
<1>10. ChainOwned'
  <2>1. ASSUME NEW g \in Chain!Frames, gr[g].kind # "unused" PROVE gr[gr[g].owner].kind # "unused"
    <3>1. CASE g # f
      <4>1. /\ gr[g].owner = fr[g].owner /\ fr[g].kind # "unused"
            /\ fr[g].owner \in Chain!Frames /\ fr[fr[g].owner].kind # "unused"
        BY <2>1, <3>1 DEF ChainInv, ChainTyped, ChainOwned, ChainKept
      <4> QED
        BY <4>1 DEF ChainKept
    <3> QED
      BY <3>1
  <2> QED
    BY <2>1 DEF ChainOwned
<1> QED
  BY <1>5, <1>7, <1>8, <1>9, <1>10 DEF ChainInv

\* No turn of a server comes or goes; a frame within a process may be new.
LEMMA ChainStays ==
    ASSUME ChainInv, UNCHANGED << chainQueue, chainDepth >>,
           chainFrame' \in [Chain!Frames -> ChainFrameType],
           NEW f \in Chain!Frames \cup {0},
           f # 0 =>
               /\ Chain!Next1(f) /\ chainFrame'[f].kind \in {"inprocess", "spawn"}
               /\ chainFrame'[f].agent \in ChainAgents /\ chainFrame'[f].owner \in Chain!Frames
               /\ chainFrame'[f].parent < f /\ chainFrame'[f].pc = "running"
               /\ chainFrame'[f].kind = "inprocess" => chainFrame'[f].owner = f
               /\ chainFrame'[chainFrame'[f].owner].kind # "unused"
               /\ chainFrame'[f].sure => /\ chainFrame'[f].chain <= chainFrame'[f].cap
                                         /\ chainFrame'[f].depth = chainFrame'[f].chain,
           \A g \in Chain!Frames \ {f} :
               /\ ChainKept(chainFrame[g], chainFrame'[g])
               /\ chainFrame'[g].pc = "unused" <=> chainFrame[g].pc = "unused"
               /\ chainFrame[g].pc = "over" => chainFrame'[g].pc = "over"
               /\ chainFrame'[g].pc = "waiting" => chainFrame[g].pc = "waiting"
               /\ chainFrame[g].kind = "http" =>
                      /\ chainFrame'[g].pc = "over" => chainFrame[g].pc = "over"
                      /\ chainFrame[g].pc = "waiting" /\ chainFrame'[g].pc # "waiting" =>
                             chainQueue[chainFrame[g].agent][1] = g,
           ChainCalls'
    PROVE  ChainInv'
<1> DEFINE fr == chainFrame
           gr == chainFrame'
           Alive == {"waiting", "running", "calling"}
<1>0. /\ fr \in [Chain!Frames -> ChainFrameType]
      /\ chainQueue \in [ChainServers -> Seq(Chain!Frames)] /\ chainDepth \in [ChainServers -> Nat]
      /\ chainQueue' = chainQueue /\ chainDepth' = chainDepth
      /\ f # 0 => fr[f].kind = "unused"
  BY DEF ChainInv, ChainTyped, Chain!Next1
<1>1. ASSUME NEW g \in Chain!Frames
      PROVE  /\ fr[g].kind = "unused" <=> fr[g].pc = "unused"
             /\ fr[g].kind # "unused" => fr[g].owner \in Chain!Frames /\ fr[g].agent \in ChainAgents
             /\ fr[g].kind \in {"http", "inprocess"} => fr[g].owner = g
             /\ fr[g].kind = "http" => fr[g].agent \in ChainServers
             /\ fr[g].parent < g
             /\ fr[g].pc = "waiting" => fr[g].kind = "http"
             /\ \A h \in Chain!Frames : h < g /\ fr[h].kind = "unused" => fr[g].kind = "unused"
             /\ fr[g] \in ChainFrameType /\ gr[g] \in ChainFrameType
  BY <1>0 DEF ChainInv, ChainTyped
<1>2. ChainTyped'
  <2>1. ASSUME NEW g \in Chain!Frames
        PROVE  /\ gr[g].kind = "unused" <=> gr[g].pc = "unused"
               /\ gr[g].kind # "unused" => gr[g].owner \in Chain!Frames /\ gr[g].agent \in ChainAgents
               /\ gr[g].kind \in {"http", "inprocess"} => gr[g].owner = g
               /\ gr[g].kind = "http" => gr[g].agent \in ChainServers
               /\ gr[g].parent < g
               /\ gr[g].pc = "waiting" => gr[g].kind = "http"
               /\ \A h \in Chain!Frames : h < g /\ gr[h].kind = "unused" => gr[g].kind = "unused"
    <3>0. \A h \in Chain!Frames : gr[h].kind = "unused" => h # f /\ fr[h].kind = "unused"
      BY DEF ChainKept, Chain!Frames
    <3>1. CASE g = f
      <4>1. f # 0
        BY <3>1, ChainFramesAreNumbers
      <4>2. \A h \in Chain!Frames : h < g => fr[h].kind # "unused"
        BY <3>1, <4>1, ChainFramesAreNumbers DEF Chain!Next1
      <4> QED
        BY <3>0, <3>1, <4>1, <4>2
    <3>2. CASE g # f
      BY <3>0, <3>2, <1>1 DEF ChainKept
    <3> QED
      BY <3>1, <3>2
  <2> QED
    BY <1>0, <2>1 DEF ChainTyped
<1>3. ASSUME NEW g \in Chain!Frames, fr[g].kind = "http", fr[g].pc \in Alive
      PROVE  g # f /\ gr[g].kind = "http" /\ gr[g].agent = fr[g].agent /\ gr[g].pc \in Alive
             /\ (fr[g].pc = "waiting" => gr[g].pc = "waiting" \/ chainQueue[fr[g].agent][1] = g)
  <2>1. g # f
    BY <1>0, <1>3, ChainFramesAreNumbers
  <2>2. fr[g].pc \notin {"unused", "over"}
    BY <1>3
  <2>3. gr[g].pc \in Alive
    BY <1>1, <1>3, <2>1, <2>2 DEF ChainFrameType
  <2> QED
    BY <1>3, <2>1, <2>3 DEF ChainKept
<1>4. ChainQueued'
  <2>1. ASSUME NEW t \in ChainServers, NEW i \in 1..Len(chainQueue[t])
        PROVE  /\ gr[chainQueue[t][i]].kind = "http" /\ gr[chainQueue[t][i]].agent = t
               /\ gr[chainQueue[t][i]].pc \in Alive
               /\ i # 1 => gr[chainQueue[t][i]].pc = "waiting"
               /\ \A j \in 1..Len(chainQueue[t]) : i # j => chainQueue[t][i] # chainQueue[t][j]
    <3>1. PICK g \in Chain!Frames : g = chainQueue[t][i]
      BY <1>0
    <3>2. /\ fr[g].kind = "http" /\ fr[g].agent = t /\ fr[g].pc \in Alive
          /\ i # 1 => fr[g].pc = "waiting"
          /\ \A j \in 1..Len(chainQueue[t]) : i # j => g # chainQueue[t][j]
      BY <3>1 DEF ChainInv, ChainQueued, Chain!Live
    <3>3. i # 1 => chainQueue[t][1] # g
      <4>1. i # 1 => 1 \in 1..Len(chainQueue[t])
        OBVIOUS
      <4> QED
        BY <3>2, <4>1
    <3> QED
      BY <1>3, <3>1, <3>2, <3>3
  <2>2. ASSUME NEW g \in Chain!Frames, gr[g].kind = "http", gr[g].pc \in Alive
        PROVE  \E i \in 1..Len(chainQueue[gr[g].agent]) : chainQueue[gr[g].agent][i] = g
    <3>1. g # f
      BY <2>2 DEF Chain!Frames
    <3>2. fr[g].kind = "http" /\ gr[g].agent = fr[g].agent /\ fr[g].pc \in Alive
      BY <1>1, <2>2, <3>1 DEF ChainKept, ChainFrameType
    <3> QED
      BY <3>2 DEF ChainInv, ChainQueued, Chain!Live
  <2>3. chainQueue' = chainQueue
    OBVIOUS
  <2> QED
    BY <2>1, <2>2, <2>3 DEF ChainQueued, Chain!Live
<1>5. ChainCounted'
  <2>1. ASSUME NEW g \in Chain!Frames, gr[g].sure, gr[g].pc \in Alive
        PROVE  /\ gr[g].chain <= gr[g].cap
               /\ gr[g].kind = "inprocess" => gr[g].depth = gr[g].chain
               /\ gr[g].kind = "http" => chainDepth[gr[g].agent] = gr[g].chain /\ chainQueue[gr[g].agent] = << g >>
    <3>1. CASE g = f
      <4>1. f # 0
        BY <3>1 DEF Chain!Frames
      <4> QED
        BY <2>1, <3>1, <4>1
    <3>2. CASE g # f
      <4>1. ChainKept(fr[g], gr[g]) /\ fr[g].sure /\ fr[g].pc \in Alive
        BY <1>1, <2>1, <3>2 DEF ChainKept, ChainFrameType
      <4>2. /\ fr[g].chain <= fr[g].cap /\ (fr[g].kind = "inprocess" => fr[g].depth = fr[g].chain)
            /\ fr[g].kind = "http" => chainDepth[fr[g].agent] = fr[g].chain /\ chainQueue[fr[g].agent] = << g >>
        BY <4>1 DEF ChainInv, ChainCounted, Chain!Live
      <4> QED
        BY <4>1, <4>2 DEF ChainKept
    <3> QED
      BY <3>1, <3>2
  <2>2. \A t \in ChainServers : chainQueue[t] = << >> => chainDepth[t] = 0
    BY DEF ChainInv, ChainCounted
  <2> QED
    BY <1>0, <2>1, <2>2 DEF ChainCounted, Chain!Live
<1>6. ChainOwned'
  <2>1. ASSUME NEW g \in Chain!Frames, gr[g].kind # "unused" PROVE gr[gr[g].owner].kind # "unused"
    <3>1. CASE g # f
      <4>1. /\ gr[g].owner = fr[g].owner /\ fr[g].kind # "unused"
            /\ fr[g].owner \in Chain!Frames /\ fr[fr[g].owner].kind # "unused"
        BY <1>1, <2>1, <3>1 DEF ChainInv, ChainOwned, ChainKept
      <4>2. fr[g].owner # f
        BY <1>0, <4>1, ChainFramesAreNumbers
      <4> QED
        BY <4>1, <4>2 DEF ChainKept
    <3>2. CASE g = f
      <4>1. f # 0
        BY <3>2, ChainFramesAreNumbers
      <4> QED
        BY <3>2, <4>1
    <3> QED
      BY <3>1, <3>2
  <2> QED
    BY <2>1 DEF ChainOwned
<1> QED
  BY <1>2, <1>4, <1>5, <1>6 DEF ChainInv

LEMMA ChainUnused ==
    ASSUME ChainInv, NEW f \in Chain!Frames, Chain!Next1(f)
    PROVE  /\ chainFrame[f].kind = "unused" /\ chainFrame[f].pc = "unused"
           /\ \A g \in Chain!Frames : chainFrame[g].pc = "calling" => chainFrame[g].child # f
           /\ \A g \in Chain!Frames : chainFrame[g].kind # "unused" => g # f
<1>1. chainFrame[f].kind = "unused" /\ chainFrame[f].pc = "unused"
  BY DEF Chain!Next1, ChainInv, ChainTyped
<1> QED
  BY <1>1 DEF ChainInv, ChainCalls, Chain!Live

\* Disturb touches nothing but the certainty of a count.
ChainDisturbed(old, new, s) ==
    /\ ChainKept(old, new) /\ new.pc = old.pc /\ new.child = old.child
    /\ new.sure /\ old.kind = "http" /\ old.agent = s /\ old.pc # "over" => chainQueue[s] = << >>

LEMMA ChainDisturbs ==
    ASSUME NEW s, NEW frames \in [Chain!Frames -> ChainFrameType], chainFrame' = Chain!Disturb(frames, s)
    PROVE  /\ chainFrame' \in [Chain!Frames -> ChainFrameType]
           /\ \A g \in Chain!Frames : ChainDisturbed(frames[g], chainFrame'[g], s)
<1> DEFINE d == chainFrame'
<1>1. ASSUME NEW g \in Chain!Frames PROVE d[g] \in ChainFrameType /\ ChainDisturbed(frames[g], d[g], s)
  <2>1. frames[g] \in ChainFrameType
    OBVIOUS
  <2>2. CASE frames[g].kind = "http" /\ frames[g].agent = s /\ frames[g].pc # "over"
    <3>1. d[g] = [frames[g] EXCEPT !.sure = @ /\ chainQueue[s] = << >>]
      BY <2>2 DEF Chain!Disturb
    <3> QED
      BY <2>1, <3>1 DEF ChainFrameType, ChainDisturbed, ChainKept
  <2>3. CASE ~(frames[g].kind = "http" /\ frames[g].agent = s /\ frames[g].pc # "over")
    <3>1. d[g] = frames[g]
      BY <2>3 DEF Chain!Disturb
    <3> QED
      BY <2>1, <2>3, <3>1 DEF ChainDisturbed, ChainKept
  <2> QED
    BY <2>2, <2>3
<1>2. d = [h \in Chain!Frames |-> d[h]]
  BY DEF Chain!Disturb
<1> QED
  BY <1>1, <1>2

LEMMA ChainRequest ==
    ASSUME ChainInv, NEW f \in Chain!Frames, NEW s \in ChainServers, Chain!Request(f, s)
    PROVE  ChainInv'
<1> DEFINE new == [Chain!Unused EXCEPT !.kind = "http", !.agent = s, !.owner = f, !.pc = "waiting"]
           asked == [chainFrame EXCEPT ![f] = new]
<1>1. chainFrame' = Chain!Disturb(asked, s) /\ Chain!Receives(s, f, 0) /\ Chain!Next1(f)
  BY DEF Chain!Request
<1>2. /\ new \in ChainFrameType /\ new.kind = "http" /\ new.agent = s /\ new.owner = f /\ new.pc = "waiting"
      /\ new.parent = 0 /\ new.chain = 0 /\ new.cap = 0 /\ new.child = 0
  <2>1. s \in ChainAgents /\ f \in Nat
    BY ChainAssumption, ChainFramesAreNumbers
  <2> QED
    BY <2>1 DEF Chain!Unused, Chain!Outside, ChainFrameType
<1>3. chainFrame \in [Chain!Frames -> ChainFrameType]
  BY DEF ChainInv, ChainTyped
<1> HIDE DEF new
<1>4. asked \in [Chain!Frames -> ChainFrameType] /\ asked[f] = new /\ \A g \in Chain!Frames \ {f} : asked[g] = chainFrame[g]
  BY <1>2, <1>3
<1> HIDE DEF asked
<1>5. /\ chainFrame' \in [Chain!Frames -> ChainFrameType]
      /\ \A g \in Chain!Frames : ChainDisturbed(asked[g], chainFrame'[g], s)
  BY <1>1, <1>4, ChainDisturbs
<1>6. /\ chainFrame'[f].kind = "http" /\ chainFrame'[f].agent = s /\ chainFrame'[f].owner = f
      /\ chainFrame'[f].pc = "waiting" /\ chainFrame'[f].parent = 0 /\ chainFrame'[f].child = 0
      /\ chainFrame'[f].chain = 0 /\ chainFrame'[f].cap = 0 /\ (chainFrame'[f].sure => chainQueue[s] = << >>)
  BY <1>2, <1>4, <1>5 DEF ChainDisturbed, ChainKept
<1>7. ASSUME NEW g \in Chain!Frames \ {f}
      PROVE  /\ ChainKept(chainFrame[g], chainFrame'[g])
             /\ chainFrame'[g].pc = chainFrame[g].pc /\ chainFrame'[g].child = chainFrame[g].child
             /\ chainFrame'[g].sure /\ chainFrame[g].kind = "http" /\ chainFrame[g].agent = s /\ Chain!Live(g) =>
                    chainQueue[s] = << >>
  BY <1>4, <1>5 DEF ChainDisturbed, Chain!Live
<1>8. chainFrame[f].kind = "unused" /\ f > 0
  BY <1>1, ChainUnused, ChainFramesAreNumbers
<1> QED
  BY <1>1, <1>5, <1>6, <1>7, <1>8, ChainReceives

\* What the tools know of the frame they make, and of the one that makes it.
ChainNew(f, kind, agent, cap, owner, pc) == [Chain!Child(f, kind, agent, cap) EXCEPT !.owner = owner, !.pc = pc]

LEMMA ChainChild ==
    ASSUME ChainInv, NEW f \in Chain!Frames, Chain!At(f, "running"), NEW kind \in {"http", "inprocess", "spawn"},
           NEW agent \in ChainAgents, NEW cap \in Nat, Chain!Within(f, cap), NEW owner \in Chain!Frames,
           NEW pc \in {"waiting", "running"}, NEW new, new = ChainNew(f, kind, agent, cap, owner, pc)
    PROVE  /\ new \in ChainFrameType /\ new.kind = kind /\ new.agent = agent /\ new.parent = f /\ new.owner = owner
           /\ new.pc = pc /\ new.child = 0 /\ new.cap = cap /\ new.depth = Chain!Seen(f) + 1 /\ Chain!Seen(f) \in Nat
           /\ new.sure => new.chain <= cap /\ new.chain = Chain!Seen(f) + 1
<1>1. chainFrame[f] \in ChainFrameType /\ chainFrame[f].kind # "unused" /\ chainFrame[f].pc = "running"
  BY DEF ChainInv, ChainTyped, Chain!At
<1>2. Chain!Seen(f) \in Nat /\ (chainFrame[f].sure /\ chainFrame[f].kind # "spawn" => Chain!Seen(f) = chainFrame[f].chain)
  BY <1>1, ChainSeen DEF Chain!Live
<1>3. /\ new.kind = kind /\ new.agent = agent /\ new.parent = f /\ new.owner = owner /\ new.pc = pc /\ new.cap = cap
      /\ new.child = 0 /\ new.depth = Chain!Seen(f) + 1 /\ new.chain = chainFrame[f].chain + 1
      /\ new.sure = (chainFrame[f].sure /\ chainFrame[f].kind # "spawn")
  BY DEF ChainNew, Chain!Child, Chain!Unused
<1>4. new \in ChainFrameType
  <2>1. f \in Nat /\ owner \in Nat /\ chainFrame[f].chain + 1 \in Nat /\ Chain!Seen(f) + 1 \in Nat
    BY <1>1, <1>2, ChainFramesAreNumbers DEF ChainFrameType
  <2> QED
    BY <2>1, <1>3 DEF ChainFrameType, ChainNew, Chain!Child, Chain!Unused
<1>5. Chain!Seen(f) + 1 <= cap
  BY DEF Chain!Within
<1> QED
  <2>1. new.sure => Chain!Seen(f) = chainFrame[f].chain
    BY <1>2, <1>3 DEF Chain!Live, Chain!At
  <2>2. new.sure => new.chain = Chain!Seen(f) + 1 /\ new.chain <= cap
    BY <1>3, <1>5, <2>1
  <2> QED
    BY <1>2, <1>3, <1>4, <2>2

\* The caller waits for the child, the others do not notice.
ChainCalled(f, c, new) == [chainFrame EXCEPT ![f].pc = "calling", ![f].child = c, ![c] = new]

LEMMA ChainCalls1 ==
    ASSUME ChainInv, NEW f \in Chain!Frames, NEW c \in Chain!Frames, Chain!At(f, "running"), Chain!Next1(c),
           NEW new \in ChainFrameType
    PROVE  /\ f # c /\ f < c
           /\ ChainCalled(f, c, new) \in [Chain!Frames -> ChainFrameType]
           /\ ChainCalled(f, c, new)[c] = new
           /\ ChainKept(chainFrame[f], ChainCalled(f, c, new)[f])
           /\ ChainCalled(f, c, new)[f].pc = "calling" /\ ChainCalled(f, c, new)[f].child = c
           /\ \A g \in Chain!Frames \ {f, c} : ChainCalled(f, c, new)[g] = chainFrame[g]
<1>1. chainFrame \in [Chain!Frames -> ChainFrameType] /\ chainFrame[f].pc = "running"
  BY DEF ChainInv, ChainTyped, Chain!At
<1>2. f # c
  BY <1>1, ChainUnused
<1>3. f < c
  <2>1. chainFrame[f].kind # "unused" /\ chainFrame[c].kind = "unused"
    BY <1>1, ChainUnused DEF ChainInv, ChainTyped
  <2>2. ~(c < f)
    BY <2>1 DEF ChainInv, ChainTyped
  <2> QED
    BY <1>2, <2>2, ChainFramesAreNumbers
<1> DEFINE called == [chainFrame[f] EXCEPT !.pc = "calling", !.child = c]
<1>4. called \in ChainFrameType /\ called.pc = "calling" /\ called.child = c /\ ChainKept(chainFrame[f], called)
  <2>1. chainFrame[f] \in ChainFrameType /\ c \in Nat
    BY <1>1, ChainFramesAreNumbers
  <2> QED
    BY <2>1 DEF ChainFrameType, ChainKept
<1>5. ChainCalled(f, c, new) = [chainFrame EXCEPT ![f] = called, ![c] = new]
  BY <1>1, <1>2 DEF ChainCalled, ChainFrameType
<1> HIDE DEF called
<1> QED
  BY <1>1, <1>2, <1>3, <1>4, <1>5

LEMMA ChainNested ==
    ASSUME ChainInv, NEW f \in Chain!Frames, NEW c \in Chain!Frames, Chain!At(f, "running"), Chain!Next1(c),
           NEW new \in ChainFrameType, new.kind \in {"inprocess", "spawn"}, new.agent \in ChainAgents,
           new.owner \in Chain!Frames, new.owner = c \/ chainFrame[new.owner].kind # "unused", new.kind = "inprocess" => new.owner = c, new.parent = f, new.pc = "running",
           new.child = 0, new.sure => new.chain <= new.cap /\ new.depth = new.chain,
           chainFrame' = ChainCalled(f, c, new), UNCHANGED << chainQueue, chainDepth >>
    PROVE  ChainInv'
<1> DEFINE fr == chainFrame
           gr == chainFrame'
<1>1. /\ f # c /\ f < c /\ gr \in [Chain!Frames -> ChainFrameType] /\ gr[c] = new
      /\ ChainKept(fr[f], gr[f]) /\ gr[f].pc = "calling" /\ gr[f].child = c
      /\ \A g \in Chain!Frames \ {f, c} : gr[g] = fr[g]
  BY ChainCalls1
<1>2. fr[f].pc = "running"
  BY DEF Chain!At
<1>3. ASSUME NEW g \in Chain!Frames \ {c}
      PROVE  /\ ChainKept(fr[g], gr[g])
             /\ gr[g].pc = "unused" <=> fr[g].pc = "unused"
             /\ fr[g].pc = "over" => gr[g].pc = "over"
             /\ gr[g].pc = "waiting" => fr[g].pc = "waiting"
             /\ gr[g].pc = "over" => fr[g].pc = "over"
             /\ fr[g].pc = "waiting" => gr[g].pc = "waiting"
  BY <1>1, <1>2 DEF ChainKept
<1>4. ChainCalls'
  <2>1. ASSUME NEW g \in Chain!Frames, gr[g].pc = "calling"
        PROVE  /\ gr[g].child \in Chain!Frames /\ gr[gr[g].child].parent = g
               /\ gr[gr[g].child].pc \in {"waiting", "running", "calling"}
    <3>1. CASE g = f
      BY <1>1, <3>1
    <3>2. CASE g # f
      <4>1. g # c /\ fr[g].pc = "calling" /\ gr[g] = fr[g]
        BY <1>1, <2>1, <3>2
      <4>2. PICK h \in Chain!Frames : h = fr[g].child /\ h # c
        BY <4>1, ChainUnused DEF ChainInv, ChainCalls
      <4>3. fr[h].parent = g /\ fr[h].pc \in {"waiting", "running", "calling"}
        BY <4>1, <4>2 DEF ChainInv, ChainCalls, Chain!Live
      <4>4. gr[h].parent = g /\ gr[h].pc \in {"waiting", "running", "calling"}
        BY <1>1, <4>2, <4>3 DEF ChainKept
      <4> QED
        BY <4>1, <4>2, <4>4
    <3> QED
      BY <3>1, <3>2
  <2>2. ASSUME NEW g \in Chain!Frames, gr[g].child # 0 PROVE gr[g].pc = "calling"
    <3>1. CASE g = f
      BY <1>1, <3>1
    <3>2. CASE g # f
      BY <1>1, <2>2, <3>2 DEF ChainInv, ChainCalls
    <3> QED
      BY <3>1, <3>2
  <2> QED
    BY <2>1, <2>2 DEF ChainCalls, Chain!Live
<1>5. gr[gr[c].owner].kind # "unused"
  BY <1>1 DEF ChainKept
<1> QED
  BY <1>1, <1>3, <1>4, <1>5, ChainStays

LEMMA ChainSpawn ==
    ASSUME ChainInv, NEW f \in Chain!Frames, NEW c \in Chain!Frames, Chain!Spawn(f, c)
    PROVE  ChainInv'
<1> DEFINE o == chainFrame[f].owner
           new == ChainNew(f, "spawn", chainFrame[o].agent, ChainSpawnMax, o, "running")
<1>1. /\ Chain!At(f, "running") /\ Chain!Next1(c) /\ Chain!Within(f, ChainSpawnMax)
      /\ chainFrame' = ChainCalled(f, c, new) /\ UNCHANGED << chainQueue, chainDepth >>
  BY DEF Chain!Spawn, ChainCalled, ChainNew
<1>2. o \in Chain!Frames /\ chainFrame[o].kind # "unused" /\ chainFrame[o].agent \in ChainAgents
  BY <1>1 DEF ChainInv, ChainTyped, ChainOwned, Chain!At
<1>3. /\ new \in ChainFrameType /\ new.kind = "spawn" /\ new.agent \in ChainAgents /\ new.parent = f /\ new.owner = o
      /\ new.pc = "running" /\ new.child = 0 /\ new.cap = ChainSpawnMax /\ new.depth = Chain!Seen(f) + 1
      /\ new.sure => new.chain <= new.cap /\ new.chain = new.depth
  <2> HIDE DEF o
  <2>1. ChainSpawnMax \in Nat
    BY ChainAssumption
  <2> QED
    BY <1>1, <1>2, <2>1, ChainChild
<1> HIDE DEF new
<1> QED
  BY <1>1, <1>2, <1>3, ChainNested

LEMMA ChainDelegate ==
    ASSUME ChainInv, NEW f \in Chain!Frames, NEW c \in Chain!Frames,
           NEW sub \in UNION {ChainSubagents[a] : a \in ChainAgents}, Chain!Delegate(f, c, sub)
    PROVE  ChainInv'
<1> DEFINE pc == IF sub.kind = "http" THEN "waiting" ELSE "running"
           new == ChainNew(f, sub.kind, sub.to, sub.max, c, pc)
           called == ChainCalled(f, c, new)
<1>1. /\ Chain!At(f, "running") /\ Chain!Next1(c) /\ Chain!Within(f, sub.max)
      /\ sub.kind = "http" => chainFrame' = Chain!Disturb(called, sub.to) /\ Chain!Receives(sub.to, c, Chain!Seen(f) + 1)
      /\ sub.kind # "http" => chainFrame' = called /\ UNCHANGED << chainQueue, chainDepth >>
  BY DEF Chain!Delegate, ChainCalled, ChainNew
<1>2. /\ sub.to \in ChainAgents /\ sub.kind \in {"http", "inprocess"} /\ sub.max \in Nat
      /\ sub.kind = "http" => sub.to \in ChainServers
  BY ChainAssumption
<1>3. /\ new \in ChainFrameType /\ new.kind = sub.kind /\ new.agent = sub.to /\ new.parent = f /\ new.owner = c
      /\ new.pc = pc /\ new.child = 0 /\ new.cap = sub.max
      /\ new.depth = Chain!Seen(f) + 1 /\ Chain!Seen(f) \in Nat
      /\ new.sure => new.chain <= sub.max /\ new.chain = Chain!Seen(f) + 1
  <2>1. pc \in {"waiting", "running"}
    OBVIOUS
  <2> HIDE DEF pc
  <2> QED
    BY <1>1, <1>2, <2>1, ChainChild
<1> HIDE DEF new
<1>4. CASE sub.kind # "http"
  BY <1>1, <1>2, <1>3, <1>4, ChainNested
<1>5. CASE sub.kind = "http"
  <2> DEFINE s == sub.to
  <2>1. /\ f # c /\ f < c /\ called \in [Chain!Frames -> ChainFrameType] /\ called[c] = new
        /\ ChainKept(chainFrame[f], called[f]) /\ called[f].pc = "calling" /\ called[f].child = c
        /\ \A g \in Chain!Frames \ {f, c} : called[g] = chainFrame[g]
    BY <1>1, <1>3, ChainCalls1
  <2> HIDE DEF called
  <2>2. /\ chainFrame' \in [Chain!Frames -> ChainFrameType]
        /\ \A g \in Chain!Frames : ChainDisturbed(called[g], chainFrame'[g], s)
    BY <1>1, <1>5, <2>1, ChainDisturbs
  <2>3. /\ chainFrame'[c].kind = "http" /\ chainFrame'[c].agent = s /\ chainFrame'[c].owner = c
        /\ chainFrame'[c].pc = "waiting" /\ chainFrame'[c].parent = f /\ chainFrame'[c].child = 0
        /\ chainFrame'[c].sure => /\ chainFrame'[c].chain <= chainFrame'[c].cap
                                  /\ chainFrame'[c].chain = Chain!Seen(f) + 1 /\ chainQueue[s] = << >>
    BY <1>3, <1>5, <2>1, <2>2 DEF ChainDisturbed, ChainKept
  <2>4. ASSUME NEW g \in Chain!Frames \ {c}
        PROVE  /\ ChainKept(chainFrame[g], chainFrame'[g])
               /\ \/ chainFrame'[g].pc = chainFrame[g].pc /\ chainFrame'[g].child = chainFrame[g].child
                  \/ /\ chainFrame[g].pc = "running" /\ chainFrame'[g].pc = "calling" /\ chainFrame'[g].child = c
                     /\ chainFrame'[c].parent = g
               /\ chainFrame'[g].sure /\ chainFrame[g].kind = "http" /\ chainFrame[g].agent = s /\ Chain!Live(g) =>
                      chainQueue[s] = << >>
    <3>1. CASE g = f
      <4>1. chainFrame[f].pc = "running"
        BY <1>1 DEF Chain!At
      <4>2. ChainDisturbed(called[f], chainFrame'[f], s)
        BY <2>2
      <4> QED
        BY <2>1, <2>3, <3>1, <4>1, <4>2 DEF ChainDisturbed, ChainKept
    <3>2. CASE g # f
      BY <2>1, <2>2, <3>2 DEF ChainDisturbed, Chain!Live
    <3> QED
      BY <3>1, <3>2
  <2>5. s \in ChainServers /\ Chain!Seen(f) + 1 \in Nat
    BY <1>2, <1>3, <1>5
  <2> HIDE DEF s
  <2>6. Chain!Receives(s, c, Chain!Seen(f) + 1)
    BY <1>1, <1>5 DEF s
  <2> QED
    BY <1>1, <2>1, <2>2, <2>3, <2>4, <2>5, <2>6, ChainReceives
<1> QED
  BY <1>2, <1>4, <1>5

-----------------------------------------------------------------------------
LEMMA ChainRun ==
    ASSUME ChainInv, NEW f \in Chain!Frames, Chain!Run(f)
    PROVE  ChainInv'
<1> DEFINE fr == chainFrame
           gr == chainFrame'
<1>1. /\ fr \in [Chain!Frames -> ChainFrameType] /\ fr[f].pc = "waiting" /\ fr[f].kind = "http"
      /\ fr[f].agent \in ChainServers /\ chainQueue \in [ChainServers -> Seq(Chain!Frames)]
  BY DEF ChainInv, ChainTyped, Chain!Run, Chain!At
<1>2. /\ gr \in [Chain!Frames -> ChainFrameType] /\ ChainKept(fr[f], gr[f]) /\ gr[f].pc = "running" /\ gr[f].child = fr[f].child
      /\ \A g \in Chain!Frames \ {f} : gr[g] = fr[g]
      /\ UNCHANGED << chainQueue, chainDepth >>
  BY <1>1 DEF Chain!Run, ChainFrameType, ChainKept
<1>3. chainQueue[fr[f].agent][1] = f
  <2>1. chainQueue[fr[f].agent] \in Seq(Chain!Frames) /\ chainQueue[fr[f].agent] # << >>
    BY <1>1 DEF ChainInv, ChainQueued, Chain!Live
  <2> QED
    BY <2>1, Left DEF Chain!Run
<1>4. ChainCalls'
  <2>1. \A g \in Chain!Frames : fr[g].pc \in {"waiting", "running", "calling"} <=> gr[g].pc \in {"waiting", "running", "calling"}
    BY <1>1, <1>2
  <2>2. \A g \in Chain!Frames : gr[g].parent = fr[g].parent /\ gr[g].child = fr[g].child
    BY <1>2 DEF ChainKept
  <2>3. fr[f].child = 0
    BY <1>1 DEF ChainInv, ChainCalls
  <2> QED
    BY <1>1, <1>2, <2>1, <2>2, <2>3 DEF ChainInv, ChainCalls, Chain!Live
<1>5. ASSUME NEW g \in Chain!Frames \ {0}
      PROVE  /\ ChainKept(fr[g], gr[g])
             /\ gr[g].pc = "unused" <=> fr[g].pc = "unused"
             /\ fr[g].pc = "over" => gr[g].pc = "over"
             /\ gr[g].pc = "waiting" => fr[g].pc = "waiting"
             /\ gr[g].pc = "over" => fr[g].pc = "over"
             /\ fr[g].pc = "waiting" /\ gr[g].pc # "waiting" => chainQueue[fr[g].agent][1] = g
  BY <1>1, <1>2, <1>3 DEF ChainKept
<1> QED
  BY <1>2, <1>4, <1>5, ChainStays

LEMMA ChainResumes ==
    ASSUME NEW frames \in [Chain!Frames -> ChainFrameType], NEW f \in Chain!Frames
    PROVE  /\ Chain!Resume(frames, f) \in [Chain!Frames -> ChainFrameType]
           /\ Chain!Resume(frames, f)[f].pc = "running" /\ Chain!Resume(frames, f)[f].child = 0
           /\ ChainKept(frames[f], Chain!Resume(frames, f)[f])
           /\ \A g \in Chain!Frames \ {f} : Chain!Resume(frames, f)[g] = frames[g]
<1> DEFINE new == [frames[f] EXCEPT !.pc = "running", !.child = 0]
<1>1. frames[f] \in ChainFrameType
  OBVIOUS
<1>2. new \in ChainFrameType /\ new.pc = "running" /\ new.child = 0 /\ ChainKept(frames[f], new)
  BY <1>1 DEF ChainFrameType, ChainKept
<1>3. Chain!Resume(frames, f) = [frames EXCEPT ![f] = new]
  BY <1>1 DEF Chain!Resume, ChainFrameType
<1> HIDE DEF new
<1> QED
  BY <1>2, <1>3

\* The frame is over; the one that waits for it goes on.
LEMMA ChainEnds ==
    ASSUME ChainInv, NEW f \in Chain!Frames, Chain!Return(f)
    PROVE  /\ chainFrame' \in [Chain!Frames -> ChainFrameType]
           /\ \A g \in Chain!Frames : ChainKept(chainFrame[g], chainFrame'[g])
           /\ chainFrame[f].pc = "running" /\ chainFrame'[f].pc = "over" /\ chainFrame'[f].child = 0
           /\ \A g \in Chain!Frames \ {f} :
                 \/ chainFrame'[g] = chainFrame[g] /\ ~(chainFrame[g].pc = "calling" /\ chainFrame[g].child = f)
                 \/ /\ chainFrame[g].pc = "calling" /\ chainFrame[g].child = f
                    /\ chainFrame'[g].pc = "running" /\ chainFrame'[g].child = 0
           /\ ChainCalls'
<1> DEFINE fr == chainFrame
           gr == chainFrame'
           p == fr[f].parent
           over == Chain!Over(fr, {f})
<1>1. /\ fr \in [Chain!Frames -> ChainFrameType] /\ fr[f].pc = "running" /\ p \in Nat /\ p < f
  BY DEF ChainInv, ChainTyped, Chain!Return, Chain!At, ChainFrameType
<1>2. p # 0 => p \in Chain!Frames /\ p # f
  BY <1>1, ChainAssumption DEF Chain!Frames
<1>3. /\ over \in [Chain!Frames -> ChainFrameType] /\ over[f].pc = "over" /\ over[f].child = 0 /\ ChainKept(fr[f], over[f])
      /\ \A g \in Chain!Frames \ {f} : over[g] = fr[g]
  <2> DEFINE new == [fr[f] EXCEPT !.pc = "over", !.child = 0]
  <2>1. new \in ChainFrameType /\ new.pc = "over" /\ new.child = 0 /\ ChainKept(fr[f], new)
    <3>1. fr[f] \in ChainFrameType
      BY <1>1
    <3> QED
      BY <3>1 DEF ChainFrameType, ChainKept
  <2>2. over = [g \in Chain!Frames |-> IF g = f THEN new ELSE fr[g]]
    BY DEF Chain!Over
  <2> HIDE DEF new, over
  <2> QED
    BY <1>1, <2>1, <2>2
<1>4. gr = IF p # 0 /\ fr[p].child = f THEN Chain!Resume(over, p) ELSE over
  BY DEF Chain!Return, Chain!Outside
<1> HIDE DEF over
<1>5. p # 0 => /\ Chain!Resume(over, p) \in [Chain!Frames -> ChainFrameType]
               /\ Chain!Resume(over, p)[p].pc = "running" /\ Chain!Resume(over, p)[p].child = 0
               /\ ChainKept(over[p], Chain!Resume(over, p)[p])
               /\ \A g \in Chain!Frames \ {p} : Chain!Resume(over, p)[g] = over[g]
  BY <1>2, <1>3, ChainResumes
<1>6. \A g \in Chain!Frames : fr[g].pc = "calling" /\ fr[g].child = f => g = p
  BY DEF ChainInv, ChainCalls
<1>7. p # 0 /\ fr[p].child = f => fr[p].pc = "calling"
  BY <1>2, ChainFramesAreNumbers DEF ChainInv, ChainCalls
<1>8. \A g \in Chain!Frames \ {f} :
          \/ gr[g] = fr[g] /\ ~(fr[g].pc = "calling" /\ fr[g].child = f)
          \/ fr[g].pc = "calling" /\ fr[g].child = f /\ gr[g].pc = "running" /\ gr[g].child = 0
  <2>1. CASE p # 0 /\ fr[p].child = f
    BY <1>2, <1>3, <1>4, <1>5, <1>6, <1>7, <2>1
  <2>2. CASE ~(p # 0 /\ fr[p].child = f)
    BY <1>3, <1>4, <1>6, <2>2, ChainFramesAreNumbers
  <2> QED
    BY <2>1, <2>2
<1>9. gr \in [Chain!Frames -> ChainFrameType] /\ gr[f].pc = "over" /\ gr[f].child = 0
  BY <1>2, <1>3, <1>4, <1>5
<1>10. \A g \in Chain!Frames : ChainKept(fr[g], gr[g])
  <2> SUFFICES ASSUME NEW g \in Chain!Frames PROVE ChainKept(fr[g], gr[g])
    OBVIOUS
  <2>1. ChainKept(fr[g], over[g])
    BY <1>3 DEF ChainKept
  <2>2. gr = over \/ (g # p /\ p # 0 /\ gr[g] = over[g]) \/ (g = p /\ ChainKept(over[g], gr[g]))
    BY <1>4, <1>5
  <2> QED
    BY <2>1, <2>2 DEF ChainKept
<1>11. ChainCalls'
  <2>1. ASSUME NEW g \in Chain!Frames, gr[g].pc = "calling"
        PROVE  /\ gr[g].child \in Chain!Frames /\ gr[gr[g].child].parent = g
               /\ gr[gr[g].child].pc \in {"waiting", "running", "calling"}
    <3>1. g # f /\ gr[g] = fr[g] /\ fr[g].pc = "calling" /\ fr[g].child # f
      BY <1>8, <1>9, <2>1
    <3>2. PICK h \in Chain!Frames : h = fr[g].child /\ h # f /\ fr[h].parent = g /\ fr[h].pc \in {"waiting", "running", "calling"}
      BY <3>1 DEF ChainInv, ChainCalls, Chain!Live
    <3>3. gr[h].parent = g /\ gr[h].pc \in {"waiting", "running", "calling"}
      BY <1>8, <1>10, <3>2 DEF ChainKept
    <3> QED
      BY <3>1, <3>2, <3>3
  <2>2. ASSUME NEW g \in Chain!Frames, gr[g].child # 0 PROVE gr[g].pc = "calling"
    BY <1>8, <1>9, <2>2 DEF ChainInv, ChainCalls
  <2> QED
    BY <2>1, <2>2 DEF ChainCalls, Chain!Live
<1> QED
  BY <1>1, <1>8, <1>9, <1>10, <1>11

\* A turn of a server is over: the next in its queue is first.
LEMMA ChainLeaves ==
    ASSUME ChainInv, NEW f \in Chain!Frames, Chain!Return(f), chainFrame[f].kind = "http"
    PROVE  ChainInv'
<1> DEFINE fr == chainFrame
           gr == chainFrame'
           s == fr[f].agent
           q == chainQueue[s]
           r == chainQueue'[s]
           Alive == {"waiting", "running", "calling"}
<1>1. /\ gr \in [Chain!Frames -> ChainFrameType]
      /\ \A g \in Chain!Frames : ChainKept(fr[g], gr[g])
      /\ fr[f].pc = "running" /\ gr[f].pc = "over"
      /\ \A g \in Chain!Frames \ {f} :
            \/ gr[g].pc = fr[g].pc
            \/ fr[g].pc = "calling" /\ gr[g].pc = "running"
      /\ ChainCalls'
  BY ChainEnds
<1>2. /\ s \in ChainServers /\ q \in Seq(Chain!Frames) /\ chainQueue \in [ChainServers -> Seq(Chain!Frames)]
      /\ chainDepth \in [ChainServers -> Nat]
  BY DEF ChainInv, ChainTyped
<1>3. ASSUME NEW t \in ChainServers, NEW i \in 1..Len(chainQueue[t])
      PROVE  /\ chainQueue[t][i] \in Chain!Frames /\ fr[chainQueue[t][i]].kind = "http" /\ fr[chainQueue[t][i]].agent = t
             /\ fr[chainQueue[t][i]].pc \in Alive
             /\ i # 1 => fr[chainQueue[t][i]].pc = "waiting"
             /\ \A j \in 1..Len(chainQueue[t]) : i # j => chainQueue[t][i] # chainQueue[t][j]
  BY <1>2 DEF ChainInv, ChainQueued, ChainTyped, Chain!Live
<1>4. PICK k \in 1..Len(q) : q[k] = f
  BY <1>1 DEF ChainInv, ChainQueued, Chain!Live
<1>5. k = 1 /\ q # << >>
  <2>1. k = 1
    BY <1>1, <1>2, <1>3, <1>4
  <2> QED
    BY <1>4, <2>1
<1>6. /\ chainQueue' \in [ChainServers -> Seq(Chain!Frames)] /\ chainDepth' \in [ChainServers -> Nat]
      /\ r = Tail(q) /\ chainDepth'[s] = 0
      /\ \A t \in ChainServers \ {s} : chainQueue'[t] = chainQueue[t] /\ chainDepth'[t] = chainDepth[t]
  <2>1. chainQueue' = [chainQueue EXCEPT ![s] = Tail(q)] /\ chainDepth' = [chainDepth EXCEPT ![s] = 0]
    BY DEF Chain!Return
  <2>2. Tail(q) \in Seq(Chain!Frames)
    BY <1>2, <1>5, Left
  <2> QED
    BY <1>2, <2>1, <2>2
<1>7. /\ Len(q) \in Nat \ {0} /\ Len(r) = Len(q) - 1 /\ \A i \in 1..Len(q) - 1 : r[i] = q[i + 1]
  BY <1>2, <1>5, <1>6, Left
<1>8. ChainTyped'
  <2>1. ASSUME NEW g \in Chain!Frames
        PROVE  /\ fr[g].kind = "unused" <=> fr[g].pc = "unused"
               /\ fr[g].kind # "unused" => fr[g].owner \in Chain!Frames /\ fr[g].agent \in ChainAgents
               /\ fr[g].kind \in {"http", "inprocess"} => fr[g].owner = g
               /\ fr[g].kind = "http" => fr[g].agent \in ChainServers
               /\ fr[g].parent < g
               /\ fr[g].pc = "waiting" => fr[g].kind = "http"
               /\ \A h \in Chain!Frames : h < g /\ fr[h].kind = "unused" => fr[g].kind = "unused"
    BY DEF ChainInv, ChainTyped
  <2>2. ASSUME NEW g \in Chain!Frames
        PROVE  /\ gr[g].kind = fr[g].kind /\ gr[g].agent = fr[g].agent /\ gr[g].owner = fr[g].owner /\ gr[g].parent = fr[g].parent
               /\ gr[g].pc = "unused" <=> fr[g].pc = "unused"
               /\ gr[g].pc = "waiting" => fr[g].pc = "waiting"
    BY <1>1 DEF ChainKept
  <2>3. ASSUME NEW g \in Chain!Frames
        PROVE  /\ gr[g].kind = "unused" <=> gr[g].pc = "unused"
               /\ gr[g].kind # "unused" => gr[g].owner \in Chain!Frames /\ gr[g].agent \in ChainAgents
               /\ gr[g].kind \in {"http", "inprocess"} => gr[g].owner = g
               /\ gr[g].kind = "http" => gr[g].agent \in ChainServers
               /\ gr[g].parent < g
               /\ gr[g].pc = "waiting" => gr[g].kind = "http"
               /\ \A h \in Chain!Frames : h < g /\ gr[h].kind = "unused" => gr[g].kind = "unused"
    BY <2>1, <2>2
  <2> QED
    BY <1>1, <1>6, <2>3 DEF ChainTyped
<1>9. ChainOwned'
  BY <1>1 DEF ChainInv, ChainTyped, ChainOwned, ChainKept
<1>10. \A g \in Chain!Frames \ {f} : fr[g].pc \in Alive <=> gr[g].pc \in Alive
  BY <1>1
<1>11. ChainQueued'
  <2>1. ASSUME NEW t \in ChainServers, NEW i \in 1..Len(chainQueue'[t])
        PROVE  /\ gr[chainQueue'[t][i]].kind = "http" /\ gr[chainQueue'[t][i]].agent = t
               /\ gr[chainQueue'[t][i]].pc \in Alive
               /\ i # 1 => gr[chainQueue'[t][i]].pc = "waiting"
               /\ \A j \in 1..Len(chainQueue'[t]) : i # j => chainQueue'[t][i] # chainQueue'[t][j]
    <3>1. PICK m \in 1..Len(chainQueue[t]) : /\ chainQueue'[t][i] = chainQueue[t][m] /\ (i # 1 => m # 1)
                                             /\ m = IF t = s THEN i + 1 ELSE i
      <4>1. CASE t = s
        <5>1. i + 1 \in 1..Len(q) /\ r[i] = q[i + 1] /\ i + 1 # 1
          BY <1>7, <4>1
        <5> QED
          BY <4>1, <5>1
      <4>2. CASE t # s
        BY <1>6, <4>2
      <4> QED
        BY <4>1, <4>2
    <3>2. PICK g \in Chain!Frames : g = chainQueue[t][m]
      BY <1>3
    <3>3. /\ fr[g].kind = "http" /\ fr[g].agent = t /\ fr[g].pc \in Alive
          /\ m # 1 => fr[g].pc = "waiting"
      BY <1>3, <3>2
    <3>4. g # f
      <4>1. CASE t = s
        <5>1. m # 1
          BY <1>7, <3>1, <4>1
        <5> QED
          BY <1>3, <1>4, <1>5, <3>2, <4>1, <5>1
      <4>2. CASE t # s
        BY <3>3, <4>2
      <4> QED
        BY <4>1, <4>2
    <3>5. gr[g].kind = "http" /\ gr[g].agent = t /\ gr[g].pc \in Alive /\ (i # 1 => gr[g].pc = "waiting")
      BY <1>1, <1>10, <3>1, <3>3, <3>4 DEF ChainKept
    <3>6. ASSUME NEW j \in 1..Len(chainQueue'[t]), i # j PROVE g # chainQueue'[t][j]
      <4>1. CASE t = s
        <5>1. j + 1 \in 1..Len(q) /\ r[j] = q[j + 1] /\ j + 1 # i + 1
          BY <1>7, <3>6, <4>1
        <5>2. q[m] # q[j + 1]
          BY <1>3, <3>1, <4>1, <5>1
        <5> QED
          BY <3>2, <4>1, <5>1, <5>2
      <4>2. CASE t # s
        BY <1>3, <1>6, <3>1, <3>2, <3>6, <4>2
      <4> QED
        BY <4>1, <4>2
    <3> QED
      BY <3>1, <3>2, <3>5, <3>6
  <2>2. ASSUME NEW g \in Chain!Frames, gr[g].kind = "http", gr[g].pc \in Alive
        PROVE  \E i \in 1..Len(chainQueue'[gr[g].agent]) : chainQueue'[gr[g].agent][i] = g
    <3>1. g # f /\ fr[g].kind = "http" /\ fr[g].agent = gr[g].agent /\ fr[g].pc \in Alive
      BY <1>1, <1>10, <2>2 DEF ChainKept
    <3> DEFINE t == gr[g].agent
    <3>2. t \in ChainServers
      BY <3>1 DEF ChainInv, ChainTyped
    <3>3. PICK i \in 1..Len(chainQueue[t]) : chainQueue[t][i] = g
      BY <3>1 DEF ChainInv, ChainQueued, Chain!Live
    <3> HIDE DEF t
    <3>4. CASE t = s
      <4>1. i # 1
        BY <1>4, <1>5, <3>1, <3>3, <3>4
      <4>2. i - 1 \in 1..Len(r) /\ r[i - 1] = q[i - 1 + 1] /\ i - 1 + 1 = i
        BY <1>7, <3>3, <3>4, <4>1
      <4>3. i - 1 \in 1..Len(chainQueue'[t]) /\ chainQueue'[t][i - 1] = g
        BY <3>3, <3>4, <4>2
      <4> QED
        BY <4>3 DEF t
    <3>5. CASE t # s
      <4>1. i \in 1..Len(chainQueue'[t]) /\ chainQueue'[t][i] = g
        BY <1>6, <3>2, <3>3, <3>5
      <4> QED
        BY <4>1 DEF t
    <3> QED
      BY <3>4, <3>5
  <2> QED
    BY <2>1, <2>2 DEF ChainQueued, Chain!Live
<1>12. ChainCounted'
  <2>1. ASSUME NEW t \in ChainServers, chainQueue'[t] = << >> PROVE chainDepth'[t] = 0
    BY <1>6, <2>1 DEF ChainInv, ChainCounted
  <2>2. ASSUME NEW g \in Chain!Frames, gr[g].sure, gr[g].pc \in Alive
        PROVE  /\ gr[g].chain <= gr[g].cap
               /\ gr[g].kind = "inprocess" => gr[g].depth = gr[g].chain
               /\ gr[g].kind = "http" => chainDepth'[gr[g].agent] = gr[g].chain /\ chainQueue'[gr[g].agent] = << g >>
    <3>1. g # f /\ ChainKept(fr[g], gr[g]) /\ fr[g].sure /\ fr[g].pc \in Alive
      BY <1>1, <1>10, <2>2 DEF ChainKept
    <3>2. /\ fr[g].chain <= fr[g].cap /\ (fr[g].kind = "inprocess" => fr[g].depth = fr[g].chain)
          /\ fr[g].kind = "http" => /\ fr[g].agent \in ChainServers /\ chainDepth[fr[g].agent] = fr[g].chain
                                    /\ chainQueue[fr[g].agent] = << g >>
      BY <3>1 DEF ChainInv, ChainTyped, ChainCounted, Chain!Live
    <3>3. fr[g].kind = "http" => fr[g].agent # s
      <4>1. << g >>[1] = g
        OBVIOUS
      <4> QED
        BY <1>4, <1>5, <3>1, <3>2, <4>1
    <3> QED
      BY <1>6, <3>1, <3>2, <3>3 DEF ChainKept
  <2> QED
    BY <2>1, <2>2 DEF ChainCounted, Chain!Live
<1> QED
  BY <1>1, <1>8, <1>9, <1>11, <1>12 DEF ChainInv

LEMMA ChainReturn ==
    ASSUME ChainInv, NEW f \in Chain!Frames, Chain!Return(f)
    PROVE  ChainInv'
<1>1. CASE chainFrame[f].kind = "http"
  BY <1>1, ChainLeaves
<1>2. CASE chainFrame[f].kind # "http"
  <2>1. UNCHANGED << chainQueue, chainDepth >>
    BY <1>2 DEF Chain!Return
  <2>2. /\ chainFrame' \in [Chain!Frames -> ChainFrameType] /\ ChainCalls'
        /\ chainFrame[f].pc = "running" /\ chainFrame'[f].pc = "over" /\ ChainKept(chainFrame[f], chainFrame'[f])
    BY ChainEnds
  <2>3. ASSUME NEW g \in Chain!Frames \ {0}
        PROVE  /\ ChainKept(chainFrame[g], chainFrame'[g])
               /\ chainFrame'[g].pc = "unused" <=> chainFrame[g].pc = "unused"
               /\ chainFrame[g].pc = "over" => chainFrame'[g].pc = "over"
               /\ chainFrame'[g].pc = "waiting" => chainFrame[g].pc = "waiting"
               /\ chainFrame[g].kind = "http" =>
                     /\ chainFrame'[g].pc = "over" => chainFrame[g].pc = "over"
                     /\ chainFrame[g].pc = "waiting" /\ chainFrame'[g].pc # "waiting" =>
                            chainQueue[chainFrame[g].agent][1] = g
    <3>1. CASE g = f
      BY <1>2, <2>2, <3>1
    <3>2. CASE g # f
      <4>1. ChainKept(chainFrame[g], chainFrame'[g]) /\ (chainFrame'[g].pc = chainFrame[g].pc \/ (chainFrame[g].pc = "calling" /\ chainFrame'[g].pc = "running"))
        BY <3>2, ChainEnds
      <4> QED
        BY <4>1
    <3> QED
      BY <3>1, <3>2
  <2> QED
    BY <2>1, <2>2, <2>3, ChainStays
<1> QED
  BY <1>1, <1>2

\* No turn of a server is cancelled, and who waits for a cancelled frame is cancelled with it.
LEMMA ChainCancelled ==
    ASSUME ChainInv, NEW f \in Chain!Frames, chainFrame[f].pc = "calling"
    PROVE  /\ chainFrame[f].child \in Chain!Frames
           /\ \A g \in Chain!Cancelled(chainFrame[f].child) :
                 g \in Chain!Frames /\ chainFrame[g].kind # "http" /\ chainFrame[g].pc \in {"waiting", "running", "calling"}
           /\ \A g \in Chain!Frames \ {f} : chainFrame[g].pc = "calling" /\ chainFrame[g].child \in Chain!Cancelled(chainFrame[f].child) =>
                 g \in Chain!Cancelled(chainFrame[f].child)
<1> DEFINE fr == chainFrame
           c == fr[f].child
<1>1. c \in Chain!Frames /\ fr[c].parent = f
  BY DEF ChainInv, ChainCalls
<1> HIDE DEF c
<1>2. ASSUME NEW g \in Chain!Cancelled(c)
      PROVE  g \in Chain!Frames /\ fr[g].kind # "http" /\ fr[g].pc \in {"waiting", "running", "calling"} /\ fr[c].kind # "http"
  <2>1. g \in Chain!Frames /\ fr[c].kind # "http" /\ Chain!Live(g) /\ \A S \in Chain!InProcess(c) : g \in S
    BY DEF Chain!Cancelled
  <2>2. {h \in Chain!Frames : fr[h].kind # "http"} \in Chain!InProcess(c)
    BY <1>1, <2>1 DEF Chain!InProcess
  <2> QED
    BY <2>1, <2>2 DEF Chain!Live
<1>3. ASSUME NEW g \in Chain!Frames \ {f}, fr[g].pc = "calling", fr[g].child \in Chain!Cancelled(c)
      PROVE  g \in Chain!Cancelled(c)
  <2> DEFINE h == fr[g].child
  <2>1. h \in Chain!Frames /\ fr[h].parent = g /\ fr[c].kind # "http"
    BY <1>2, <1>3 DEF ChainInv, ChainCalls
  <2>2. h # c
    BY <1>1, <2>1
  <2>3. ASSUME NEW S \in Chain!InProcess(c) PROVE g \in S
    <3> SUFFICES ASSUME g \notin S PROVE FALSE
      OBVIOUS
    <3>1. S \in SUBSET Chain!Frames /\ c \in S /\ \A k \in Chain!Frames : fr[k].kind # "http" /\ fr[k].parent \in S => k \in S
      BY DEF Chain!InProcess
    <3> HIDE DEF h
    <3>2. S \ {h} \in Chain!InProcess(c)
      BY <2>1, <2>2, <3>1 DEF Chain!InProcess
    <3>3. h \in S \ {h}
      BY <1>3, <3>2 DEF Chain!Cancelled, h
    <3> QED
      BY <3>3
  <2> QED
    BY <1>3, <2>1, <2>3 DEF Chain!Cancelled, Chain!Live
<1> QED
  BY <1>1, <1>2, <1>3 DEF c

LEMMA ChainGiveUp ==
    ASSUME ChainInv, NEW f \in Chain!Frames, Chain!GiveUp(f)
    PROVE  ChainInv'
<1> DEFINE fr == chainFrame
           gr == chainFrame'
           C == Chain!Cancelled(fr[f].child)
           over == Chain!Over(fr, C)
<1>1. /\ fr \in [Chain!Frames -> ChainFrameType] /\ fr[f].pc = "calling" /\ fr[f].child \in Chain!Frames
      /\ fr[fr[f].child].parent = f
      /\ gr = Chain!Resume(over, f) /\ UNCHANGED << chainQueue, chainDepth >>
  BY DEF ChainInv, ChainTyped, ChainCalls, Chain!GiveUp, Chain!At
<1>2. \A g \in C : g \in Chain!Frames /\ fr[g].kind # "http" /\ fr[g].pc \in {"waiting", "running", "calling"}
  BY <1>1, ChainCancelled
<1>3. \A g \in Chain!Frames \ {f} : fr[g].pc = "calling" /\ fr[g].child \in C => g \in C
  BY <1>1, ChainCancelled
<1> HIDE DEF C
<1>4. ASSUME NEW g \in Chain!Frames
      PROVE  /\ over[g] \in ChainFrameType /\ ChainKept(fr[g], over[g])
             /\ g \in C => over[g].pc = "over" /\ over[g].child = 0
             /\ g \notin C => over[g] = fr[g]
  <2>0. fr[g] \in ChainFrameType
    BY <1>1
  <2>1. CASE g \in C
    <3> DEFINE new == [fr[g] EXCEPT !.pc = "over", !.child = 0]
    <3>1. over[g] = new
      BY <2>1 DEF Chain!Over
    <3>2. new \in ChainFrameType /\ new.pc = "over" /\ new.child = 0 /\ ChainKept(fr[g], new)
      BY <2>0 DEF ChainFrameType, ChainKept
    <3> HIDE DEF over, new
    <3> QED
      BY <2>1, <3>1, <3>2
  <2>2. CASE g \notin C
    <3>1. over[g] = fr[g]
      BY <2>2 DEF Chain!Over
    <3> QED
      BY <2>0, <2>2, <3>1 DEF ChainKept
  <2> QED
    BY <2>1, <2>2
<1>5. over \in [Chain!Frames -> ChainFrameType]
  <2>1. over = [g \in Chain!Frames |-> over[g]]
    BY DEF Chain!Over
  <2> HIDE DEF over
  <2> QED
    BY <1>4, <2>1
<1> HIDE DEF over
<1>6. /\ gr \in [Chain!Frames -> ChainFrameType] /\ gr[f].pc = "running" /\ gr[f].child = 0 /\ ChainKept(over[f], gr[f])
      /\ \A g \in Chain!Frames \ {f} : gr[g] = over[g]
  BY <1>1, <1>5, ChainResumes
<1>7. \A g \in Chain!Frames : ChainKept(fr[g], gr[g])
  BY <1>4, <1>6 DEF ChainKept
<1>8. ASSUME NEW g \in Chain!Frames \ {0}
      PROVE  /\ ChainKept(fr[g], gr[g])
             /\ gr[g].pc = "unused" <=> fr[g].pc = "unused"
             /\ fr[g].pc = "over" => gr[g].pc = "over"
             /\ gr[g].pc = "waiting" => fr[g].pc = "waiting"
             /\ fr[g].kind = "http" =>
                   /\ gr[g].pc = "over" => fr[g].pc = "over"
                   /\ fr[g].pc = "waiting" /\ gr[g].pc # "waiting" => chainQueue[fr[g].agent][1] = g
  <2>1. CASE g = f
    BY <1>1, <1>6, <1>7, <2>1
  <2>2. CASE g # f /\ g \in C
    BY <1>2, <1>4, <1>6, <1>7, <2>2
  <2>3. CASE g # f /\ g \notin C
    BY <1>4, <1>6, <1>7, <2>3
  <2> QED
    BY <2>1, <2>2, <2>3
<1>9. ChainCalls'
  <2>1. ASSUME NEW g \in Chain!Frames, gr[g].pc = "calling"
        PROVE  /\ gr[g].child \in Chain!Frames /\ gr[gr[g].child].parent = g
               /\ gr[gr[g].child].pc \in {"waiting", "running", "calling"}
    <3>1. g # f /\ g \notin C /\ gr[g] = fr[g]
      BY <1>4, <1>6, <2>1
    <3>2. PICK h \in Chain!Frames : h = fr[g].child /\ fr[h].parent = g /\ fr[h].pc \in {"waiting", "running", "calling"}
      BY <2>1, <3>1 DEF ChainInv, ChainCalls, Chain!Live
    <3>3. h \notin C
      BY <1>3, <2>1, <3>1, <3>2
    <3>4. gr[h].parent = g /\ gr[h].pc \in {"waiting", "running", "calling"}
      BY <1>4, <1>6, <1>7, <3>2, <3>3 DEF ChainKept
    <3> QED
      BY <3>1, <3>2, <3>4
  <2>2. ASSUME NEW g \in Chain!Frames, gr[g].child # 0 PROVE gr[g].pc = "calling"
    BY <1>4, <1>6, <2>2 DEF ChainInv, ChainCalls
  <2> QED
    BY <2>1, <2>2 DEF ChainCalls, Chain!Live
<1> QED
  BY <1>1, <1>6, <1>8, <1>9, ChainStays

LEMMA ChainNext == ChainInv /\ [Chain!Next]_(Chain!vars) => ChainInv'
<1> SUFFICES ASSUME ChainInv, [Chain!Next]_(Chain!vars) PROVE ChainInv'
  OBVIOUS
<1>1. ASSUME UNCHANGED Chain!vars PROVE ChainInv'
  BY <1>1 DEF ChainInv, ChainTyped, ChainOwned, ChainQueued, ChainCalls, ChainCounted, Chain!Live, Chain!vars
<1>2. ASSUME NEW f \in Chain!Frames, NEW s \in ChainServers, Chain!Request(f, s) PROVE ChainInv'
  BY <1>2, ChainRequest
<1>3. ASSUME NEW f \in Chain!Frames, Chain!Run(f) \/ Chain!Return(f) \/ Chain!GiveUp(f) PROVE ChainInv'
  BY <1>3, ChainRun, ChainReturn, ChainGiveUp
<1>4. ASSUME NEW f \in Chain!Frames, NEW c \in Chain!Frames, Chain!Spawn(f, c) PROVE ChainInv'
  BY <1>4, ChainSpawn
<1>5. ASSUME NEW f \in Chain!Frames, NEW c \in Chain!Frames,
             NEW sub \in UNION {ChainSubagents[a] : a \in ChainAgents}, Chain!Delegate(f, c, sub)
      PROVE  ChainInv'
  BY <1>5, ChainDelegate
<1> QED
  BY <1>1, <1>2, <1>3, <1>4, <1>5 DEF Chain!Next

LEMMA ChainCapped == ChainInv => Chain!CountedChainsAreCapped
<1> SUFFICES ASSUME ChainInv PROVE Chain!CountedChainsAreCapped
  OBVIOUS
<1>1. ASSUME NEW f \in Chain!Frames, chainFrame[f].sure, Chain!Live(f)
      PROVE  /\ chainFrame[f].chain <= chainFrame[f].cap
             /\ chainFrame[f].kind # "spawn" => Chain!Seen(f) = chainFrame[f].chain
  <2>1. chainFrame[f].kind # "unused"
    BY <1>1 DEF ChainInv, ChainTyped, Chain!Live
  <2> QED
    BY <1>1, <2>1, ChainSeen DEF ChainInv, ChainCounted
<1>2. ASSUME NEW f \in Chain!Frames, chainFrame[f].kind = "http", chainFrame[f].pc \in {"running", "calling"}
      PROVE  chainQueue[chainFrame[f].agent][1] = f
  <2>1. chainFrame[f].agent \in ChainServers /\ Chain!Live(f)
    BY <1>2 DEF ChainInv, ChainTyped, Chain!Live
  <2>2. PICK i \in 1..Len(chainQueue[chainFrame[f].agent]) : chainQueue[chainFrame[f].agent][i] = f
    BY <1>2, <2>1 DEF ChainInv, ChainQueued
  <2> QED
    BY <1>2, <2>1, <2>2 DEF ChainInv, ChainQueued
<1>3. ASSUME NEW f \in Chain!Frames, Chain!At(f, "calling") PROVE Chain!Live(chainFrame[f].child)
  BY <1>3 DEF ChainInv, ChainCalls, Chain!At
<1> QED
  BY <1>1, <1>2, <1>3 DEF Chain!CountedChainsAreCapped

-----------------------------------------------------------------------------
(***************************************************************************)
(* Learned skills.                                                         *)
(*                                                                         *)
(* What is told of a level is the last event, and a level moves by one: so *)
(* the stage and the direction told are those there were.  A demotion      *)
(* looks at all skills and at nothing else.  Versions are numbered without *)
(* a gap as long as the header of the file that is archived could be read: *)
(* the archive then has the versions before the one of the file, and       *)
(* perhaps that one from an attempt to roll back.                          *)
(***************************************************************************)
SkillTyped ==
    /\ skillTrust.level \in 0..4
    /\ \/ skillTrust.pending = << >>
       \/ skillTrust.pending = << [from |-> 0, to |-> skillTrust.level] >>
    /\ skillFile \in [SkillNames -> Learning!Files]
    /\ skillArchive = [s \in SkillNames |-> skillArchive[s]]
    /\ \A s \in SkillNames : \A v \in DOMAIN skillArchive[s] : skillArchive[s][v] \in Learning!Files
    /\ \A s \in SkillNames : skillFile[s] # Learning!Absent => skillFile[s].version >= 1
    /\ skillWrites \in Nat
    /\ skillHistory \in [SkillNames -> [reused : BOOLEAN, rewritten : BOOLEAN]]

SkillTold ==
    /\ skillCfg \in SkillConfigs
    /\ skillCfg.maturation =>
          /\ skillTold.stage = Learning!Stage(skillTrust.level)
          /\ skillTold.from # skillTold.stage =>
                skillTold.up = (Learning!Rank[skillTold.stage] > Learning!Rank[skillTold.from])
    /\ skillTrust.pending = << >> => skillTold.level = skillTrust.level
    /\ skillTold = [stage |-> skillTold.stage, from |-> skillTold.from, up |-> skillTold.up, level |-> skillTold.level]

SkillScoped(s) ==
    skillFile[s] # Learning!Absent /\ skillFile[s].readable /\ ~skillHistory[s].rewritten
      /\ skillCfg.domains # {} /\ skillFile[s].domain \notin skillCfg.domains => skillFile[s].quarantined

SkillNumbered(s) ==
    ~skillHistory[s].reused =>
        /\ 1..(skillFile[s].version - 1) \subseteq DOMAIN skillArchive[s]
        /\ DOMAIN skillArchive[s] \subseteq 1..skillFile[s].version
        /\ \A v \in DOMAIN skillArchive[s] : skillArchive[s][v].version = v

SkillInv == SkillTyped /\ SkillTold /\ \A s \in SkillNames : SkillScoped(s) /\ SkillNumbered(s)

\* What rewriting a field of a skill's file leaves alone.
LEMMA SkillFileWith ==
    ASSUME NEW f \in Learning!Files, NEW v \in Nat
    PROVE  /\ [f EXCEPT !.version = v] \in Learning!Files /\ [f EXCEPT !.version = v].version = v
           /\ [f EXCEPT !.quarantined = TRUE] \in Learning!Files
           /\ [f EXCEPT !.quarantined = TRUE].quarantined
           /\ [f EXCEPT !.quarantined = TRUE].version = f.version
           /\ f.version \in Nat
  BY DEF Learning!Files

LEMMA SkillAbsent == Learning!Absent \in Learning!Files /\ Learning!Absent.version = 0
  BY DEF Learning!Files, Learning!Absent

\* A process starts with one of the levels.
LEMMA SkillSeed ==
    ASSUME skillCfg \in SkillConfigs
    PROVE  Learning!Seed \in 0..4
  BY SkillAssumption DEF Learning!Seed

\* With the level the stage never goes down, nor with a level lost does it go up.
LEMMA SkillStages ==
    ASSUME skillCfg \in SkillConfigs, NEW level \in 0..3
    PROVE  Learning!Rank[Learning!Stage(level)] <= Learning!Rank[Learning!Stage(level + 1)]
<1>1. /\ Learning!Rank["proto_agent"] = 0 /\ Learning!Rank["apprentice"] = 1
      /\ Learning!Rank["journeyman"] = 2 /\ Learning!Rank["specialist"] = 3
  BY DEF Learning!Rank, Learning!Stages
<1>2. skillCfg.specialistMin \in Int /\ skillCfg.apprenticeMax \in Int
  BY SkillAssumption
<1> DEFINE S == skillCfg.specialistMin
           A == skillCfg.apprenticeMax
<1>3. ASSUME NEW l \in 0..4
      PROVE  /\ l >= S => Learning!Stage(l) = "specialist"
             /\ l < S /\ l > A => Learning!Stage(l) = "journeyman"
             /\ l < S /\ l <= A /\ l >= 1 => Learning!Stage(l) = "apprentice"
             /\ l < S /\ l <= A /\ l < 1 => Learning!Stage(l) = "proto_agent"
  BY <1>2 DEF Learning!Stage
<1>4. level \in 0..4 /\ level + 1 \in 0..4
  OBVIOUS
<1>5. CASE level >= S
  <2>1. Learning!Stage(level) = "specialist" /\ Learning!Stage(level + 1) = "specialist"
    BY <1>2, <1>3, <1>4, <1>5
  <2> QED
    BY <2>1, <1>1
<1>6. CASE level < S
  <2>1. CASE level > A
    <3>1. Learning!Stage(level) = "journeyman" /\ Learning!Stage(level + 1) \in {"journeyman", "specialist"}
      BY <1>2, <1>3, <1>4, <1>6, <2>1
    <3> QED
      BY <3>1, <1>1
  <2>2. CASE level <= A /\ level >= 1
    <3>1. /\ Learning!Stage(level) = "apprentice"
          /\ Learning!Stage(level + 1) \in {"apprentice", "journeyman", "specialist"}
      BY <1>2, <1>3, <1>4, <1>6, <2>2
    <3> QED
      BY <3>1, <1>1
  <2>3. CASE level <= A /\ level < 1
    <3>1. /\ Learning!Stage(level) = "proto_agent"
          /\ Learning!Stage(level + 1) \in {"proto_agent", "apprentice", "journeyman", "specialist"}
      BY <1>2, <1>3, <1>4, <1>6, <2>3
    <3> QED
      BY <3>1, <1>1
  <2> QED
    BY <1>2, <2>1, <2>2, <2>3
<1> QED
  BY <1>2, <1>5, <1>6

\* The stages differ in their rank.
LEMMA SkillRanks ==
    ASSUME NEW k, NEW l
    PROVE  /\ Learning!Rank[Learning!Stage(k)] \in Nat
           /\ Learning!Rank[Learning!Stage(k)] = Learning!Rank[Learning!Stage(l)] => Learning!Stage(k) = Learning!Stage(l)
<1>1. /\ Learning!Rank["proto_agent"] = 0 /\ Learning!Rank["apprentice"] = 1
      /\ Learning!Rank["journeyman"] = 2 /\ Learning!Rank["specialist"] = 3
  BY DEF Learning!Rank, Learning!Stages
<1>2. Learning!Stage(k) \in Learning!Stages
  BY DEF Learning!Stage, Learning!Stages
<1>3. Learning!Stage(l) \in Learning!Stages
  BY DEF Learning!Stage, Learning!Stages
<1> QED
  BY <1>1, <1>2, <1>3 DEF Learning!Stages

LEMMA SkillSome == \A a : << a >> # << >>
  OBVIOUS

LEMMA SkillTwo == \A a, b : Append(<< a >>, b) = << a, b >>
<1> SUFFICES ASSUME NEW a, NEW b PROVE Append(<< a >>, b) = << a, b >>
  OBVIOUS
<1>1. << a >> \in Seq({a, b}) /\ Len(<< a >>) = 1 /\ << a >>[1] = a
  OBVIOUS
<1>2. /\ Append(<< a >>, b) \in Seq({a, b}) /\ Len(Append(<< a >>, b)) = 2
      /\ Append(<< a >>, b)[1] = a /\ Append(<< a >>, b)[2] = b
  BY <1>1, AppendProperties
<1>3. << a, b >> \in Seq({a, b}) /\ Len(<< a, b >>) = 2 /\ << a, b >>[1] = a /\ << a, b >>[2] = b
  OBVIOUS
<1> DEFINE p == Append(<< a >>, b)
           q == << a, b >>
<1> HIDE DEF p, q
<1>4. p \in Seq({a, b}) /\ q \in Seq({a, b}) /\ Len(p) = Len(q) /\ \A i \in 1..Len(p) : p[i] = q[i]
  BY <1>2, <1>3 DEF p, q
<1>5. p = q
  BY <1>4, SeqEqual
<1> QED
  BY <1>5 DEF p, q

LEMMA SkillStarts == Learning!Init => SkillInv
<1> SUFFICES ASSUME Learning!Init PROVE SkillInv
  OBVIOUS
<1>1. skillCfg \in SkillConfigs /\ Learning!Seed \in 0..4
  BY SkillSeed DEF Learning!Init
<1>2. /\ skillTrust.level = Learning!Seed
      /\ skillTrust.pending = IF Learning!Seed = 0 THEN << >> ELSE << [from |-> 0, to |-> Learning!Seed] >>
      /\ skillTold = [stage |-> Learning!Stage(Learning!Seed), from |-> Learning!Stage(Learning!Seed), up |-> TRUE, level |-> 0]
  BY DEF Learning!Init
<1>3. \A s \in SkillNames :
        /\ skillFile[s] = Learning!Absent /\ skillArchive[s] = << >>
        /\ skillHistory[s] = [reused |-> FALSE, rewritten |-> FALSE]
  BY DEF Learning!Init
<1>4. SkillTyped
  <2>1. skillTrust.level \in 0..4 /\ (skillTrust.pending = << >> \/ skillTrust.pending = << [from |-> 0, to |-> skillTrust.level] >>)
    BY <1>1, <1>2
  <2>2. /\ skillFile \in [SkillNames -> Learning!Files]
        /\ skillHistory \in [SkillNames -> [reused : BOOLEAN, rewritten : BOOLEAN]] /\ skillWrites \in Nat
    BY SkillAbsent DEF Learning!Init
  <2>3. skillArchive = [s \in SkillNames |-> skillArchive[s]]
    BY <1>3 DEF Learning!Init
  <2>4. \A s \in SkillNames : DOMAIN skillArchive[s] = {}
    BY <1>3
  <2> QED
    BY <1>3, <2>1, <2>2, <2>3, <2>4 DEF SkillTyped
<1>5. SkillTold
  <2>1. skillTrust.pending = << >> => Learning!Seed = 0
    BY <1>2, SkillSome
  <2> QED
    BY <1>1, <1>2, <2>1 DEF SkillTold
<1>6. ASSUME NEW s \in SkillNames PROVE SkillScoped(s) /\ SkillNumbered(s)
  <2>1. SkillScoped(s)
    BY <1>3 DEF SkillScoped
  <2>2. 1..(skillFile[s].version - 1) = {} /\ DOMAIN skillArchive[s] = {}
    BY <1>3, SkillAbsent
  <2> QED
    BY <2>1, <2>2 DEF SkillNumbered
<1> QED
  BY <1>4, <1>5, <1>6 DEF SkillInv

\* As long as the files, the archive and the history of the skills stay.
LEMMA SkillFilesStay ==
    ASSUME SkillInv, UNCHANGED << skillCfg, skillFile, skillArchive, skillHistory >>
    PROVE  \A s \in SkillNames : SkillScoped(s)' /\ SkillNumbered(s)'
  BY DEF SkillInv, SkillScoped, SkillNumbered

LEMMA SkillRestarts ==
    ASSUME SkillInv, Learning!Restart
    PROVE  SkillInv'
<1>1. UNCHANGED << skillCfg, skillFile, skillArchive, skillWrites, skillHistory >>
  BY DEF Learning!Restart
<1>2. skillCfg \in SkillConfigs /\ Learning!Seed \in 0..4
  BY SkillSeed DEF SkillInv, SkillTold
<1>3. /\ skillTrust'.level = Learning!Seed
      /\ skillTrust'.pending = IF Learning!Seed = 0 THEN << >> ELSE << [from |-> 0, to |-> Learning!Seed] >>
      /\ skillTold' = [stage |-> Learning!Stage(Learning!Seed), from |-> Learning!Stage(Learning!Seed), up |-> TRUE, level |-> 0]
  BY DEF Learning!Restart, Learning!Setup
<1>4. SkillTyped'
  <2>1. skillTrust'.level \in 0..4 /\ (skillTrust'.pending = << >> \/ skillTrust'.pending = << [from |-> 0, to |-> skillTrust'.level] >>)
    BY <1>2, <1>3
  <2> QED
    BY <1>1, <2>1 DEF SkillInv, SkillTyped
<1>5. SkillTold'
  <2>1. Learning!Stage(skillTrust.level)' = Learning!Stage(Learning!Seed)
    BY <1>1, <1>3 DEF Learning!Stage
  <2>2. skillTrust'.pending = << >> => Learning!Seed = 0
    BY <1>3, SkillSome
  <2> QED
    BY <1>1, <1>2, <1>3, <2>1, <2>2 DEF SkillTold
<1> QED
  BY <1>1, <1>4, <1>5, SkillFilesStay DEF SkillInv

\* An outcome is recorded: the level moves by one at most, and what is told is the last
\* event, which is the move if there is one; a demotion leads to this level.
LEMMA SkillRecords ==
    ASSUME SkillInv, NEW score, NEW up \in BOOLEAN, Learning!Record(score, up)
    PROVE  SkillInv'
<1> DEFINE level == Learning!Level(score, up)
           events == IF level = skillTrust.level THEN skillTrust.pending
                     ELSE Append(skillTrust.pending, [from |-> skillTrust.level, to |-> level])
           before == Learning!Stage(skillTrust.level)
           after == Learning!Stage(level)
           last == events[Len(events)]
           demotions == {i \in DOMAIN events : events[i].to < events[i].from}
           condemned == {s \in SkillNames : \E i \in demotions : Learning!OutOfScope(s, events[i].to)}
           told == skillCfg.maturation /\ events # << >> /\ after # before
<1>1. PICK reached \in SUBSET condemned :
      /\ skillTrust' = [level |-> level, score |-> score, pending |-> << >>]
      /\ skillTold' = [skillTold EXCEPT
                          !.stage = IF told THEN after ELSE @, !.from = IF told THEN before ELSE @,
                          !.up = IF told THEN last.to > last.from ELSE @,
                          !.level = IF events # << >> THEN last.to ELSE @]
      /\ skillFile' = [s \in SkillNames |-> IF s \in reached THEN [skillFile[s] EXCEPT !.quarantined = TRUE] ELSE skillFile[s]]
      /\ skillHistory' = IF skillCfg.placed /\ reached = condemned /\ demotions # {} /\ level < 4
                           THEN [s \in SkillNames |-> [skillHistory[s] EXCEPT !.rewritten = FALSE]] ELSE skillHistory
      /\ UNCHANGED << skillCfg, skillArchive, skillWrites >>
  BY DEF Learning!Record
<1>2. skillTrust.level \in 0..4
  BY DEF SkillInv, SkillTyped
<1>3. level \in 0..4 /\ (level = skillTrust.level \/ level = skillTrust.level + 1 \/ level = skillTrust.level - 1)
  <2>1. CASE up /\ skillTrust.level < 4 /\ score >= SkillThresholds[skillTrust.level + 1]
    BY <1>2, <2>1 DEF Learning!Level
  <2>2. CASE ~up /\ skillTrust.level > 0 /\ 2 * score < SkillThresholds[skillTrust.level]
    BY <1>2, <2>2 DEF Learning!Level
  <2>3. CASE /\ ~(up /\ skillTrust.level < 4 /\ score >= SkillThresholds[skillTrust.level + 1])
             /\ ~(~up /\ skillTrust.level > 0 /\ 2 * score < SkillThresholds[skillTrust.level])
    BY <1>2, <2>3 DEF Learning!Level
  <2> QED
    BY <2>1, <2>2, <2>3
<1> HIDE DEF level
<1>4. \/ level = skillTrust.level /\ events = << >> /\ skillTrust.pending = << >>
      \/ level = skillTrust.level /\ events = << [from |-> 0, to |-> level] >>
      \/ level # skillTrust.level /\ events = << [from |-> skillTrust.level, to |-> level] >>
      \/ /\ level # skillTrust.level
         /\ events = << [from |-> 0, to |-> skillTrust.level], [from |-> skillTrust.level, to |-> level] >>
  <2>1. CASE skillTrust.pending = << >>
    BY <2>1
  <2>2. CASE skillTrust.pending = << [from |-> 0, to |-> skillTrust.level] >>
    <3> DEFINE seeded == [from |-> 0, to |-> skillTrust.level]
               moved == [from |-> skillTrust.level, to |-> level]
    <3>1. Append(<< seeded >>, moved) = << seeded, moved >>
      BY SkillTwo
    <3> QED
      BY <2>2, <3>1
  <2> QED
    BY <2>1, <2>2 DEF SkillInv, SkillTyped
<1> HIDE DEF events
<1>5. /\ events # << >> => last.to = level
      /\ events = << >> => level = skillTrust.level /\ skillTrust.pending = << >>
      /\ level # skillTrust.level => events # << >> /\ last.from = skillTrust.level
  <2>1. CASE level = skillTrust.level /\ events = << >> /\ skillTrust.pending = << >>
    BY <2>1
  <2>2. CASE level = skillTrust.level /\ events = << [from |-> 0, to |-> level] >>
    <3>1. Len(events) = 1 /\ events # << >> /\ events[1].to = level
      BY <2>2
    <3> QED
      BY <2>2, <3>1
  <2>3. CASE level # skillTrust.level /\ events = << [from |-> skillTrust.level, to |-> level] >>
    <3>1. Len(events) = 1 /\ events # << >> /\ events[1].to = level /\ events[1].from = skillTrust.level
      BY <2>3
    <3> QED
      BY <2>3, <3>1
  <2>4. CASE /\ level # skillTrust.level
             /\ events = << [from |-> 0, to |-> skillTrust.level], [from |-> skillTrust.level, to |-> level] >>
    <3>1. Len(events) = 2 /\ events # << >> /\ events[2].to = level /\ events[2].from = skillTrust.level
      BY <2>4
    <3> QED
      BY <2>4, <3>1
  <2> QED
    BY <1>4, <2>1, <2>2, <2>3, <2>4
<1>6. \A i \in demotions : events[i].to = level /\ level < skillTrust.level
  BY <1>2, <1>3, <1>4
<1> HIDE DEF demotions, last
<1>7. \A s \in SkillNames : skillFile[s] \in Learning!Files
  BY DEF SkillInv, SkillTyped
<1>8. \A s \in SkillNames :
        /\ skillFile'[s] \in Learning!Files /\ skillFile'[s].version = skillFile[s].version
        /\ skillFile'[s].version \in Nat
        /\ skillFile'[s].readable = skillFile[s].readable /\ skillFile'[s].domain = skillFile[s].domain
        /\ skillFile[s] = Learning!Absent => skillFile'[s] = Learning!Absent
        /\ skillFile[s].quarantined => skillFile'[s].quarantined
        /\ s \in reached => skillFile'[s].quarantined
  <2> SUFFICES ASSUME NEW s \in SkillNames
               PROVE  /\ skillFile'[s] \in Learning!Files /\ skillFile'[s].version = skillFile[s].version
                      /\ skillFile'[s].version \in Nat
                      /\ skillFile'[s].readable = skillFile[s].readable /\ skillFile'[s].domain = skillFile[s].domain
                      /\ skillFile[s] = Learning!Absent => skillFile'[s] = Learning!Absent
                      /\ skillFile[s].quarantined => skillFile'[s].quarantined
                      /\ s \in reached => skillFile'[s].quarantined
    OBVIOUS
  <2>1. s \in reached => skillFile[s] # Learning!Absent
    BY DEF Learning!OutOfScope
  <2>2. skillFile'[s] = IF s \in reached THEN [skillFile[s] EXCEPT !.quarantined = TRUE] ELSE skillFile[s]
    BY <1>1
  <2>3. /\ skillFile[s].version \in Nat
        /\ [skillFile[s] EXCEPT !.quarantined = TRUE] \in Learning!Files
        /\ [skillFile[s] EXCEPT !.quarantined = TRUE].quarantined
        /\ [skillFile[s] EXCEPT !.quarantined = TRUE].version = skillFile[s].version
        /\ [skillFile[s] EXCEPT !.quarantined = TRUE].readable = skillFile[s].readable
        /\ [skillFile[s] EXCEPT !.quarantined = TRUE].domain = skillFile[s].domain
    BY <1>7 DEF Learning!Files
  <2> QED
    BY <1>7, <2>1, <2>2, <2>3
<1>9. /\ skillHistory' \in [SkillNames -> [reused : BOOLEAN, rewritten : BOOLEAN]]
      /\ \A s \in SkillNames :
            /\ skillHistory'[s].reused = skillHistory[s].reused
            /\ skillHistory[s].rewritten /\ ~skillHistory'[s].rewritten =>
                  demotions # {} /\ level < 4 /\ reached = condemned
  <2>1. skillHistory \in [SkillNames -> [reused : BOOLEAN, rewritten : BOOLEAN]]
    BY DEF SkillInv, SkillTyped
  <2>2. CASE skillCfg.placed /\ reached = condemned /\ demotions # {} /\ level < 4
    BY <1>1, <2>1, <2>2
  <2>3. CASE ~(skillCfg.placed /\ reached = condemned /\ demotions # {} /\ level < 4)
    BY <1>1, <2>1, <2>3
  <2> QED
    BY <2>2, <2>3
<1>10. SkillTyped'
  <2>1. skillFile' \in [SkillNames -> Learning!Files]
    BY <1>1, <1>8
  <2>2. \A s \in SkillNames : skillFile'[s] # Learning!Absent => skillFile'[s].version >= 1
    BY <1>8 DEF SkillInv, SkillTyped
  <2>3. skillTrust'.level \in 0..4 /\ skillTrust'.pending = << >>
    BY <1>1, <1>3
  <2> QED
    BY <1>1, <1>9, <2>1, <2>2, <2>3 DEF SkillInv, SkillTyped
<1>11. SkillTold'
  <2>1. Learning!Stage(skillTrust.level)' = after
    BY <1>1 DEF Learning!Stage
  <2>2. /\ skillTold'.stage = IF told THEN after ELSE skillTold.stage
        /\ skillTold'.from = IF told THEN before ELSE skillTold.from
        /\ skillTold'.up = IF told THEN last.to > last.from ELSE skillTold.up
        /\ skillTold'.level = IF events # << >> THEN last.to ELSE skillTold.level
        /\ skillTold' = [stage |-> skillTold'.stage, from |-> skillTold'.from, up |-> skillTold'.up, level |-> skillTold'.level]
    BY <1>1, Zenon DEF SkillInv, SkillTold
  <2>3. after # before => level # skillTrust.level
    OBVIOUS
  <2>4. after # before => (level > skillTrust.level) = (Learning!Rank[after] > Learning!Rank[before])
    <3> HIDE DEF after, before
    <3> SUFFICES ASSUME after # before
                 PROVE  (level > skillTrust.level) = (Learning!Rank[after] > Learning!Rank[before])
      OBVIOUS
    <3>1. Learning!Rank[after] \in Nat /\ Learning!Rank[before] \in Nat /\ Learning!Rank[after] # Learning!Rank[before]
      BY SkillRanks DEF after, before
    <3>2. CASE level = skillTrust.level + 1
      <4>1. Learning!Rank[before] <= Learning!Rank[after]
        BY <1>2, <1>3, <3>2, SkillStages DEF after, before, SkillInv, SkillTold
      <4> QED
        BY <1>2, <3>1, <3>2, <4>1
    <3>3. CASE level = skillTrust.level - 1
      <4>1. level \in 0..3 /\ skillTrust.level = level + 1
        BY <1>2, <1>3, <3>3
      <4>2. Learning!Rank[after] <= Learning!Rank[before]
        BY <4>1, SkillStages DEF after, before, SkillInv, SkillTold
      <4> QED
        BY <1>2, <3>1, <3>3, <4>2
    <3> QED
      BY <1>3, <2>3, <3>2, <3>3
  <2> QED
    BY <1>1, <1>5, <2>1, <2>2, <2>3, <2>4 DEF SkillInv, SkillTold
<1>12. ASSUME NEW s \in SkillNames PROVE SkillScoped(s)'
  <2>1. SkillScoped(s) /\ skillTrust.level \in 0..4
    BY DEF SkillInv, SkillTyped
  <2>2. CASE skillHistory[s].rewritten /\ ~skillHistory'[s].rewritten
    <3>1. PICK i \in demotions : TRUE
      BY <1>9, <2>2
    <3>2. events[i].to = level /\ level < 4 /\ reached = condemned
      BY <1>9, <1>6, <2>2
    <3>3. Learning!OutOfScope(s, level) => skillFile'[s].quarantined
      BY <1>8, <3>1, <3>2
    <3> QED
      BY <1>1, <1>8, <3>2, <3>3 DEF SkillScoped, Learning!OutOfScope
  <2>3. CASE ~(skillHistory[s].rewritten /\ ~skillHistory'[s].rewritten)
    BY <1>1, <1>8, <2>1, <2>3 DEF SkillScoped
  <2> QED
    BY <2>2, <2>3
<1>13. ASSUME NEW s \in SkillNames PROVE SkillNumbered(s)'
  BY <1>1, <1>8, <1>9 DEF SkillInv, SkillNumbered
<1> QED
  BY <1>10, <1>11, <1>12, <1>13 DEF SkillInv

\* What learn_skill and rollback_skill make of one skill, the others stay.
SkillOnly(s) ==
    /\ UNCHANGED << skillCfg, skillTrust, skillTold >>
    /\ skillWrites' \in Nat
    /\ skillFile' \in [SkillNames -> Learning!Files]
    /\ skillArchive' = [t \in SkillNames |-> skillArchive'[t]]
    /\ skillHistory' \in [SkillNames -> [reused : BOOLEAN, rewritten : BOOLEAN]]
    /\ \A t \in SkillNames \ {s} :
          skillFile'[t] = skillFile[t] /\ skillArchive'[t] = skillArchive[t] /\ skillHistory'[t] = skillHistory[t]

\* That is all right if it is right for that skill.
LEMMA SkillOneMoves ==
    ASSUME SkillInv, NEW s \in SkillNames, SkillOnly(s),
           \A v \in DOMAIN skillArchive'[s] : skillArchive'[s][v] \in Learning!Files,
           skillFile'[s] # Learning!Absent => skillFile'[s].version >= 1,
           SkillScoped(s)', SkillNumbered(s)'
    PROVE  SkillInv'
<1>1. SkillTyped'
  BY DEF SkillInv, SkillTyped, SkillOnly
<1>2. SkillTold'
  <2>1. Learning!Stage(skillTrust.level)' = Learning!Stage(skillTrust.level)
    BY DEF SkillOnly, Learning!Stage
  <2> QED
    BY <2>1 DEF SkillInv, SkillTold, SkillOnly
<1>3. ASSUME NEW t \in SkillNames, t # s PROVE SkillScoped(t)' /\ SkillNumbered(t)'
  <2>1. SkillScoped(t) /\ SkillNumbered(t)
    BY DEF SkillInv
  <2>2. /\ skillFile'[t] = skillFile[t] /\ skillArchive'[t] = skillArchive[t]
        /\ skillHistory'[t] = skillHistory[t] /\ skillCfg' = skillCfg
    BY <1>3 DEF SkillOnly
  <2> QED
    BY <2>1, <2>2 DEF SkillScoped, SkillNumbered
<1> QED
  BY <1>1, <1>2, <1>3 DEF SkillInv

\* A file in the archive under the version it has: the numbering stays as long as that
\* version is the file's.
LEMMA SkillArchives ==
    ASSUME SkillInv, NEW s \in SkillNames, skillFile[s] # Learning!Absent
    PROVE  LET v == Learning!VersionOf(s)
               new == Learning!With(s, v, skillFile[s])
           IN  /\ v \in Nat
               /\ DOMAIN new = DOMAIN skillArchive[s] \cup {v}
               /\ \A w \in DOMAIN new : new[w] \in Learning!Files
               /\ v = skillFile[s].version => v >= 1
               /\ ~skillHistory[s].reused /\ v = skillFile[s].version =>
                     /\ 1..v \subseteq DOMAIN new /\ DOMAIN new \subseteq 1..v
                     /\ \A w \in DOMAIN new : new[w].version = w
<1> DEFINE v == Learning!VersionOf(s)
           new == Learning!With(s, v, skillFile[s])
<1>1. skillFile[s] \in Learning!Files /\ skillFile[s].version \in Nat /\ skillFile[s].version >= 1
  BY SkillFileWith DEF SkillInv, SkillTyped
<1>2. v \in Nat
  BY <1>1 DEF Learning!VersionOf
<1>3. /\ DOMAIN new = DOMAIN skillArchive[s] \cup {v} /\ new[v] = skillFile[s]
      /\ \A w \in DOMAIN skillArchive[s] : w # v => new[w] = skillArchive[s][w]
  BY DEF Learning!With
<1>4. \A w \in DOMAIN skillArchive[s] : skillArchive[s][w] \in Learning!Files
  BY DEF SkillInv, SkillTyped
<1>5. SkillNumbered(s)
  BY DEF SkillInv
<1> HIDE DEF v, new
<1>6. \A w \in DOMAIN new : new[w] \in Learning!Files
  BY <1>1, <1>3, <1>4
<1>7. ASSUME ~skillHistory[s].reused, v = skillFile[s].version
      PROVE  /\ 1..v \subseteq DOMAIN new /\ DOMAIN new \subseteq 1..v
             /\ \A w \in DOMAIN new : new[w].version = w
  <2>1. /\ 1..(v - 1) \subseteq DOMAIN skillArchive[s] /\ DOMAIN skillArchive[s] \subseteq 1..v
        /\ \A w \in DOMAIN skillArchive[s] : skillArchive[s][w].version = w
    BY <1>5, <1>7 DEF SkillNumbered
  <2>2. 1..v = 1..(v - 1) \cup {v}
    BY <1>1, <1>2, <1>7
  <2>3. \A w \in DOMAIN new : new[w].version = w
    BY <1>3, <1>7, <2>1
  <2> QED
    BY <1>3, <2>1, <2>2, <2>3
<1> QED
  BY <1>1, <1>2, <1>3, <1>6, <1>7 DEF v, new

\* A new text over an old one.
LEMMA SkillReplaces ==
    ASSUME SkillInv, NEW s \in SkillNames, NEW f \in Learning!Files, skillFile[s] # Learning!Absent,
           Learning!Replace(s, f), UNCHANGED << skillCfg, skillTrust, skillTold >>, skillWrites' \in Nat
    PROVE  SkillInv'
<1> DEFINE v == Learning!VersionOf(s)
           new == Learning!With(s, v, skillFile[s])
           g == [f EXCEPT !.version = v + 1]
           h == [reused |-> skillHistory[s].reused \/ v # skillFile[s].version, rewritten |-> TRUE]
<1>1. /\ v \in Nat /\ DOMAIN new = DOMAIN skillArchive[s] \cup {v}
      /\ \A w \in DOMAIN new : new[w] \in Learning!Files
      /\ v = skillFile[s].version => v >= 1
      /\ ~skillHistory[s].reused /\ v = skillFile[s].version =>
            /\ 1..v \subseteq DOMAIN new /\ DOMAIN new \subseteq 1..v
            /\ \A w \in DOMAIN new : new[w].version = w
  BY SkillArchives
<1>2. /\ skillArchive' = [skillArchive EXCEPT ![s] = new]
      /\ skillFile' = [skillFile EXCEPT ![s] = g]
      /\ skillHistory' = [skillHistory EXCEPT ![s] = h]
  BY DEF Learning!Replace
<1>3. /\ skillFile \in [SkillNames -> Learning!Files]
      /\ skillArchive = [t \in SkillNames |-> skillArchive[t]]
      /\ skillHistory \in [SkillNames -> [reused : BOOLEAN, rewritten : BOOLEAN]]
  BY DEF SkillInv, SkillTyped
<1>4. h \in [reused : BOOLEAN, rewritten : BOOLEAN] /\ h.rewritten = TRUE
      /\ h.reused = (skillHistory[s].reused \/ v # skillFile[s].version)
  BY <1>3
<1> HIDE DEF v, new, h
<1>5. g \in Learning!Files /\ g.version = v + 1
  <2>1. v + 1 \in Nat
    BY <1>1
  <2> QED
    BY <2>1, SkillFileWith
<1> HIDE DEF g
<1>6. skillFile'[s] = g /\ skillArchive'[s] = new /\ skillHistory'[s] = h
  BY <1>2, <1>3
<1>7. SkillOnly(s)
  BY <1>2, <1>3, <1>4, <1>5 DEF SkillOnly
<1>8. SkillScoped(s)'
  BY <1>4, <1>6 DEF SkillScoped
<1>9. SkillNumbered(s)'
  <2>1. SUFFICES ASSUME ~skillHistory[s].reused, v = skillFile[s].version
                 PROVE  /\ 1..(g.version - 1) \subseteq DOMAIN new /\ DOMAIN new \subseteq 1..g.version
                        /\ \A w \in DOMAIN new : new[w].version = w
    BY <1>4, <1>6 DEF SkillNumbered
  <2>2. 1..(g.version - 1) = 1..v /\ 1..v \subseteq 1..g.version
    BY <1>1, <1>5
  <2> QED
    BY <1>1, <2>1, <2>2
<1>10. skillFile'[s].version >= 1
  BY <1>1, <1>5, <1>6
<1> QED
  BY <1>1, <1>6, <1>7, <1>8, <1>9, <1>10, SkillOneMoves

LEMMA SkillLearns ==
    ASSUME SkillInv, NEW s \in SkillNames, NEW domain \in SkillDomains, NEW readable \in BOOLEAN,
           Learning!Learn(s, domain, readable)
    PROVE  SkillInv'
<1> DEFINE new == [text |-> skillWrites + 1, version |-> 1, domain |-> domain, quarantined |-> FALSE, readable |-> readable]
<1>1. /\ skillWrites' = skillWrites + 1 /\ UNCHANGED << skillCfg, skillTrust, skillTold >>
      /\ IF skillFile[s] # Learning!Absent THEN Learning!Replace(s, new)
         ELSE /\ skillFile' = [skillFile EXCEPT ![s] = new]
              /\ skillHistory' = [skillHistory EXCEPT ![s].rewritten = TRUE]
              /\ UNCHANGED skillArchive
  BY DEF Learning!Learn
<1>2. skillWrites \in Nat
  BY DEF SkillInv, SkillTyped
<1>3. new \in Learning!Files /\ new.version = 1
  BY <1>2 DEF Learning!Files
<1> HIDE DEF new
<1>4. CASE skillFile[s] # Learning!Absent
  <2>1. skillWrites' \in Nat
    BY <1>1, <1>2
  <2> QED
    BY <1>1, <1>3, <1>4, <2>1, SkillReplaces
<1>5. CASE skillFile[s] = Learning!Absent
  <2>1. /\ skillFile' = [skillFile EXCEPT ![s] = new]
        /\ skillHistory' = [skillHistory EXCEPT ![s].rewritten = TRUE]
        /\ skillArchive' = skillArchive
    BY <1>1, <1>5
  <2>2. /\ skillFile \in [SkillNames -> Learning!Files]
        /\ skillArchive = [t \in SkillNames |-> skillArchive[t]]
        /\ skillHistory \in [SkillNames -> [reused : BOOLEAN, rewritten : BOOLEAN]]
        /\ \A v \in DOMAIN skillArchive[s] : skillArchive[s][v] \in Learning!Files
    BY DEF SkillInv, SkillTyped
  <2>3. skillFile'[s] = new /\ skillHistory'[s].rewritten = TRUE /\ skillHistory'[s].reused = skillHistory[s].reused
    BY <2>1, <2>2
  <2>4. SkillOnly(s)
    <3>1. skillFile' \in [SkillNames -> Learning!Files] /\ \A t \in SkillNames \ {s} : skillFile'[t] = skillFile[t]
      BY <1>3, <2>1, <2>2
    <3>2. /\ skillHistory' \in [SkillNames -> [reused : BOOLEAN, rewritten : BOOLEAN]]
          /\ \A t \in SkillNames \ {s} : skillHistory'[t] = skillHistory[t]
      BY <2>1, <2>2
    <3>3. UNCHANGED << skillCfg, skillTrust, skillTold, skillArchive >> /\ skillWrites' \in Nat
      BY <1>1, <1>2, <2>1
    <3>4. skillArchive' = [t \in SkillNames |-> skillArchive'[t]]
      BY <2>1, <2>2
    <3> QED
      BY <3>1, <3>2, <3>3, <3>4 DEF SkillOnly
  <2>5. SkillScoped(s)'
    BY <2>3 DEF SkillScoped
  <2>6. SkillNumbered(s)'
    <3>1. SUFFICES ASSUME ~skillHistory[s].reused
                   PROVE  /\ 1..(new.version - 1) \subseteq DOMAIN skillArchive[s]
                          /\ DOMAIN skillArchive[s] \subseteq 1..new.version
                          /\ \A w \in DOMAIN skillArchive[s] : skillArchive[s][w].version = w
      BY <2>1, <2>3 DEF SkillNumbered
    <3>2. 1..(new.version - 1) = {} /\ 1..skillFile[s].version = {}
      BY <1>3, <1>5, SkillAbsent
    <3>3. DOMAIN skillArchive[s] = {}
      BY <3>1, <3>2 DEF SkillInv, SkillNumbered
    <3> QED
      BY <3>2, <3>3
  <2> QED
    BY <1>3, <2>1, <2>2, <2>3, <2>4, <2>5, <2>6, SkillOneMoves
<1> QED
  BY <1>4, <1>5

LEMMA SkillRollsBack ==
    ASSUME SkillInv, NEW s \in SkillNames, NEW v \in 1..SkillMaxWrites, Learning!Rollback(s, v)
    PROVE  SkillInv'
<1> DEFINE u == Learning!VersionOf(s)
           new == Learning!With(s, u, skillFile[s])
           old == new[v]
<1>1. /\ v \in DOMAIN skillArchive[s] /\ skillFile[s] # Learning!Absent
      /\ UNCHANGED << skillCfg, skillTrust, skillTold >>
      /\ IF old.readable THEN Learning!Replace(s, old) /\ skillWrites' = skillWrites + 1
         ELSE /\ skillArchive' = [skillArchive EXCEPT ![s] = new]
              /\ skillHistory' = [skillHistory EXCEPT ![s].reused = @ \/ u # skillFile[s].version]
              /\ UNCHANGED << skillFile, skillWrites >>
  BY DEF Learning!Rollback
<1>2. skillWrites \in Nat
  BY DEF SkillInv, SkillTyped
<1>3. /\ DOMAIN new = DOMAIN skillArchive[s] \cup {u}
      /\ \A w \in DOMAIN new : new[w] \in Learning!Files
      /\ ~skillHistory[s].reused /\ u = skillFile[s].version =>
            /\ 1..u \subseteq DOMAIN new /\ DOMAIN new \subseteq 1..u
            /\ \A w \in DOMAIN new : new[w].version = w
  BY <1>1, SkillArchives
<1> HIDE DEF u, new
<1>4. old \in Learning!Files
  BY <1>1, <1>3
<1> HIDE DEF old
<1>5. CASE old.readable
  <2>1. skillWrites' \in Nat
    BY <1>1, <1>2, <1>5
  <2> QED
    BY <1>1, <1>4, <1>5, <2>1, SkillReplaces
<1>6. CASE ~old.readable
  <2>1. /\ skillArchive' = [skillArchive EXCEPT ![s] = new]
        /\ skillHistory' = [skillHistory EXCEPT ![s].reused = @ \/ u # skillFile[s].version]
        /\ skillFile' = skillFile /\ skillWrites' = skillWrites
    BY <1>1, <1>6
  <2>2. /\ skillFile \in [SkillNames -> Learning!Files]
        /\ skillArchive = [t \in SkillNames |-> skillArchive[t]]
        /\ skillHistory \in [SkillNames -> [reused : BOOLEAN, rewritten : BOOLEAN]]
        /\ skillFile[s] # Learning!Absent => skillFile[s].version >= 1
    BY DEF SkillInv, SkillTyped
  <2>3. skillHistory'[s].rewritten = skillHistory[s].rewritten /\ skillArchive'[s] = new
    BY <2>1, <2>2
  <2>4. skillHistory'[s].reused = (skillHistory[s].reused \/ u # skillFile[s].version)
    BY <2>1, <2>2
  <2>5. SkillOnly(s)
    <3>1. (skillHistory[s].reused \/ u # skillFile[s].version) \in BOOLEAN
      BY <2>2
    <3>2. skillHistory' \in [SkillNames -> [reused : BOOLEAN, rewritten : BOOLEAN]]
      BY <2>1, <2>2, <3>1
    <3>3. \A t \in SkillNames \ {s} : skillArchive'[t] = skillArchive[t] /\ skillHistory'[t] = skillHistory[t]
      BY <2>1, <2>2
    <3>4. skillArchive' = [t \in SkillNames |-> skillArchive'[t]]
      BY <2>1, <2>2
    <3>5. skillFile' \in [SkillNames -> Learning!Files] /\ skillFile' = skillFile /\ skillWrites' \in Nat
      BY <1>2, <2>1, <2>2
    <3>6. UNCHANGED << skillCfg, skillTrust, skillTold >>
      BY <1>1
    <3> QED
      BY <3>2, <3>3, <3>4, <3>5, <3>6 DEF SkillOnly
  <2>6. SkillScoped(s)'
    BY <1>1, <2>1, <2>3 DEF SkillInv, SkillScoped
  <2>7. SkillNumbered(s)'
    <3>1. SUFFICES ASSUME ~skillHistory[s].reused, u = skillFile[s].version
                   PROVE  /\ 1..(skillFile[s].version - 1) \subseteq DOMAIN new
                          /\ DOMAIN new \subseteq 1..skillFile[s].version
                          /\ \A w \in DOMAIN new : new[w].version = w
      BY <2>1, <2>3, <2>4 DEF SkillNumbered
    <3>2. 1..(u - 1) \subseteq 1..u
      BY <3>1, <2>2, SkillFileWith DEF Learning!Files
    <3> QED
      BY <1>3, <3>1, <3>2
  <2> QED
    BY <1>3, <2>1, <2>2, <2>3, <2>5, <2>6, <2>7, SkillOneMoves
<1> QED
  BY <1>5, <1>6

LEMMA SkillSteps == SkillInv /\ [Learning!Next]_(Learning!vars) => SkillInv'
<1> SUFFICES ASSUME SkillInv, [Learning!Next]_(Learning!vars) PROVE SkillInv'
  OBVIOUS
<1>1. ASSUME UNCHANGED << skillCfg, skillTrust, skillTold, skillFile, skillArchive, skillWrites, skillHistory >>
      PROVE  SkillInv'
  <2>1. Learning!Stage(skillTrust.level)' = Learning!Stage(skillTrust.level)
    BY <1>1 DEF Learning!Stage
  <2> QED
    BY <1>1, <2>1, SkillFilesStay DEF SkillInv, SkillTyped, SkillTold
<1>2. CASE Learning!Restart
  BY <1>2, SkillRestarts
<1>3. CASE Learning!Complete
  BY <1>3, SkillRecords DEF Learning!Complete
<1>4. CASE Learning!Release
  BY <1>4, SkillRecords DEF Learning!Release
<1>5. CASE \E s \in SkillNames : Learning!Activate(s) \/ Learning!Deactivate(s)
  BY <1>1, <1>5 DEF Learning!Activate, Learning!Deactivate
<1>6. CASE \E s \in SkillNames, domain \in SkillDomains, readable \in BOOLEAN : Learning!Learn(s, domain, readable)
  BY <1>6, SkillLearns
<1>7. CASE \E s \in SkillNames, v \in 1..SkillMaxWrites : Learning!Rollback(s, v)
  BY <1>7, SkillRollsBack
<1>8. CASE UNCHANGED Learning!vars
  BY <1>1, <1>8 DEF Learning!vars
<1> QED
  BY <1>2, <1>3, <1>4, <1>5, <1>6, <1>7, <1>8 DEF Learning!Next

-----------------------------------------------------------------------------
(***************************************************************************)
(* Workflows.                                                              *)
(*                                                                         *)
(* The last node of the path leads to where the run is, until the run is   *)
(* over; a node in hand is not on the path yet, which is why the path is   *)
(* shorter than the steps.  What was posted for a node is bounded by its   *)
(* attempts before this one, each with all its requests, and the requests  *)
(* of this one.                                                            *)
(***************************************************************************)

\* A node is being executed; it is a remote one.
FlowAsks == flowRun.pc \in {"post", "backoff"}
FlowWorks == flowRun.pc = "process" \/ FlowAsks

FlowWrite == [by : flowGraph.nodes, whole : BOOLEAN]
FlowLeft == [node : flowGraph.nodes, ok : BOOLEAN, attempts : Nat]

FlowTyped ==
    /\ flowGraph \in FlowBuilds /\ Flow!Accepts(flowGraph)
    /\ flowLives \in [flowGraph.nodes -> {"new", "ready", "failed", "down"}]
    /\ flowRun \in [pc : Flow!PCs, at : flowGraph.nodes \cup {Flow!END, Flow!Unset}, step : 0..FlowMaxSteps,
                    attempt : Nat, try : Nat, outcome : Flow!Outcomes]
    /\ flowState \in Seq(FlowWrite) /\ flowPath \in Seq(FlowLeft) /\ flowPosts \in Nat

\* Where the path leads.
FlowLeads(n) == IF flowPath = << >> THEN n = flowGraph.entry ELSE Flow!Follows(Len(flowPath), n)

FlowWalked ==
    /\ \A i \in 1..(Len(flowPath) - 1) : Flow!Follows(i, flowPath[i + 1].node)
    /\ flowPath # << >> => flowPath[1].node = flowGraph.entry
    /\ flowRun.pc = "setup" => flowPath = << >>
    /\ flowRun.pc = "loop" \/ FlowWorks => FlowLeads(flowRun.at)
    /\ flowRun.pc = "loop" => flowRun.at \in flowGraph.nodes \cup {Flow!END}
    /\ Len(flowPath) <= flowRun.step
    /\ FlowWorks => Len(flowPath) < flowRun.step /\ flowRun.at \in flowGraph.nodes
    /\ flowRun.outcome = "result" =>
         /\ flowRun.pc \in {"shutdown", "ended"} /\ flowRun.at = Flow!END
         /\ flowPath # << >> => Flow!Follows(Len(flowPath), Flow!END)

FlowWrote ==
    /\ \A i \in DOMAIN flowState : flowState[i].whole \/ flowState[i].by \notin flowGraph.remote
    /\ flowRun.pc = "process" => flowRun.at \notin flowGraph.remote
    /\ FlowAsks => flowRun.at \in flowGraph.remote
    /\ \E places \in [Flow!Succeeded -> Flow!Returned] : Flow!InOrder(places)

FlowRounds == flowGraph.remoteRetries + 1
FlowBefore == (flowRun.attempt - 1) * FlowRounds

FlowPosted ==
    /\ flowPosts <= flowGraph.nodeRetries * FlowRounds
    /\ FlowWorks => flowRun.attempt \in 1..flowGraph.nodeRetries
    /\ FlowAsks => flowRun.try \in 1..FlowRounds
    /\ flowRun.pc = "post" => flowPosts <= FlowBefore + flowRun.try - 1
    /\ flowRun.pc = "backoff" => flowRun.try < FlowRounds /\ flowPosts <= FlowBefore + flowRun.try

FlowShut ==
    flowRun.pc = "ended" => flowRun.outcome = "interrupted" \/ \A n \in flowGraph.agents : flowLives[n] = "down"

FlowInv == FlowTyped /\ FlowWalked /\ FlowWrote /\ FlowPosted /\ FlowShut

LEMMA FlowTypes ==
    ASSUME FlowInv
    PROVE  /\ Len(flowPath) \in Nat /\ DOMAIN flowPath = 1..Len(flowPath)
           /\ \A i \in 1..Len(flowPath) : flowPath[i] \in FlowLeft
           /\ flowPath = << >> <=> Len(flowPath) = 0
           /\ Len(flowState) \in Nat /\ DOMAIN flowState = 1..Len(flowState)
           /\ \A i \in 1..Len(flowState) : flowState[i] \in FlowWrite
           /\ flowGraph.nodeRetries \in Nat /\ flowGraph.remoteRetries \in Nat /\ FlowRounds \in Nat
           /\ FlowMaxSteps \in Nat /\ flowRun.step \in 0..FlowMaxSteps
           /\ flowRun.attempt \in Nat /\ flowRun.try \in Nat /\ flowPosts \in Nat
BY FlowAssumption DEF FlowInv, FlowTyped, FlowRounds

\* Requests of so many attempts.
LEMMA FlowProducts ==
    ASSUME NEW a \in Nat, NEW n \in Nat, NEW r \in Nat, 1 <= a, a <= n
    PROVE  /\ (a - 1) * r \in Nat /\ a * r \in Nat /\ (a - 1) * r + r = a * r /\ a * r <= n * r
           /\ (1 - 1) * r = 0
<1>1. (a - 1) * r + r = a * r /\ (1 - 1) * r = 0
  OBVIOUS
<1>2. (a - 1) * r \in Nat /\ a * r \in Nat /\ (n - a) * r \in Nat
  OBVIOUS
<1>3. n * r = a * r + (n - a) * r
  OBVIOUS
<1> QED
  BY <1>1, <1>2, <1>3

LEMMA FlowSamePath ==
    ASSUME UNCHANGED << flowGraph, flowPath >>, NEW i, NEW n
    PROVE  /\ Flow!Follows(i, n) => Flow!Follows(i, n)'
           /\ FlowLeads(n) => FlowLeads(n)'
BY DEF Flow!Follows, Flow!Targets, FlowLeads

\* A node is added to the path.
LEMMA FlowLongerPath ==
    ASSUME FlowInv, UNCHANGED flowGraph, NEW e \in FlowLeft,
           flowPath' = Append(flowPath, e), FlowLeads(e.node)
    PROVE  /\ flowPath' \in Seq(FlowLeft) /\ flowPath' # << >> /\ Len(flowPath') = Len(flowPath) + 1
           /\ \A i \in 1..Len(flowPath) : flowPath'[i] = flowPath[i]
           /\ flowPath'[Len(flowPath) + 1] = e
           /\ \A i \in 1..(Len(flowPath') - 1) : Flow!Follows(i, flowPath[i + 1].node)'
           /\ flowPath'[1].node = flowGraph.entry
<1>1. /\ flowPath \in Seq(FlowLeft) /\ Len(flowPath) \in Nat
      /\ flowPath = << >> <=> Len(flowPath) = 0
  BY FlowTypes DEF FlowInv, FlowTyped
<1>2. /\ flowPath' \in Seq(FlowLeft) /\ flowPath' # << >> /\ Len(flowPath') = Len(flowPath) + 1
      /\ \A i \in 1..Len(flowPath) : flowPath'[i] = flowPath[i]
      /\ flowPath'[Len(flowPath) + 1] = e
  BY <1>1, AppendProperties
<1>3. \A i \in 1..Len(flowPath) : \A n : Flow!Follows(i, n) => Flow!Follows(i, n)'
  BY <1>2 DEF Flow!Follows, Flow!Targets
<1>4. ASSUME NEW i \in 1..(Len(flowPath') - 1) PROVE Flow!Follows(i, flowPath[i + 1].node)'
  <2>1. i \in 1..Len(flowPath) /\ flowPath # << >>
    BY <1>1, <1>2
  <2>2. CASE i < Len(flowPath)
    <3>1. i \in 1..(Len(flowPath) - 1) /\ i + 1 \in 1..Len(flowPath)
      BY <1>1, <2>1, <2>2
    <3>2. Flow!Follows(i, flowPath[i + 1].node) /\ flowPath'[i + 1] = flowPath[i + 1]
      BY <1>2, <3>1 DEF FlowInv, FlowWalked
    <3>3. PICK n : n = flowPath[i + 1].node
      OBVIOUS
    <3>4. Flow!Follows(i, n)' /\ n = flowPath'[i + 1].node
      BY <1>3, <2>1, <3>2, <3>3
    <3> QED
      BY <3>4 DEF Flow!Follows, Flow!Targets
  <2>3. CASE i = Len(flowPath)
    <3>1. Flow!Follows(i, e.node) /\ flowPath'[i + 1] = e
      BY <1>2, <2>1, <2>3 DEF FlowLeads
    <3>2. PICK n : n = e.node
      OBVIOUS
    <3>3. Flow!Follows(i, n)' /\ n = flowPath'[i + 1].node
      BY <1>3, <2>1, <3>1, <3>2
    <3> QED
      BY <3>3 DEF Flow!Follows, Flow!Targets
  <2> QED
    BY <1>1, <2>1, <2>2, <2>3
<1>5. flowPath'[1].node = flowGraph.entry
  <2>1. CASE flowPath = << >>
    BY <1>1, <1>2, <2>1 DEF FlowLeads
  <2>2. CASE flowPath # << >>
    <3>1. 1 \in 1..Len(flowPath)
      BY <1>1, <2>2
    <3> QED
      BY <1>2, <2>2, <3>1 DEF FlowInv, FlowWalked
  <2> QED
    BY <2>1, <2>2
<1> QED
  BY <1>2, <1>4, <1>5

\* A place in the state for what each node returned, after a step that returned nothing.
LEMMA FlowNothingReturned ==
    ASSUME FlowInv, UNCHANGED flowGraph,
           NEW written \in Seq(FlowWrite), \A i \in DOMAIN written : ~written[i].whole,
           flowState' = flowState \o written,
           flowPath' = flowPath \/ \E e \in FlowLeft : flowPath' = Append(flowPath, e) /\ ~e.ok
    PROVE  /\ flowState' \in Seq(FlowWrite)
           /\ \A i \in DOMAIN flowState' : \/ i \in DOMAIN flowState /\ flowState'[i] = flowState[i]
                                           \/ \E k \in DOMAIN written : flowState'[i] = written[k]
           /\ (\E places \in [Flow!Succeeded -> Flow!Returned] : Flow!InOrder(places))'
<1>1. /\ Len(flowState) \in Nat /\ DOMAIN flowState = 1..Len(flowState) /\ flowState \in Seq(FlowWrite)
      /\ flowPath \in Seq(FlowLeft) /\ Len(flowPath) \in Nat /\ DOMAIN flowPath = 1..Len(flowPath)
      /\ \A i \in 1..Len(flowPath) : flowPath[i] \in FlowLeft
  BY FlowTypes DEF FlowInv, FlowTyped
<1>2. Len(written) \in Nat /\ DOMAIN written = 1..Len(written)
  OBVIOUS
<1>3. /\ flowState' \in Seq(FlowWrite) /\ Len(flowState') = Len(flowState) + Len(written)
      /\ \A i \in 1..Len(flowState) : flowState'[i] = flowState[i]
      /\ \A i \in (Len(flowState) + 1)..(Len(flowState) + Len(written)) : flowState'[i] = written[i - Len(flowState)]
  BY <1>1, ConcatProperties
<1>4. DOMAIN flowState' = 1..(Len(flowState) + Len(written))
  BY <1>3
<1>5. ASSUME NEW i \in DOMAIN flowState', i \notin DOMAIN flowState
      PROVE  \E k \in DOMAIN written : flowState'[i] = written[k]
  <2>1. i \in (Len(flowState) + 1)..(Len(flowState) + Len(written)) /\ i - Len(flowState) \in DOMAIN written
    BY <1>1, <1>2, <1>4, <1>5
  <2> QED
    BY <1>3, <2>1
<1>6. Flow!Returned' = Flow!Returned
  <2>1. \A i \in DOMAIN flowState : i \in DOMAIN flowState' /\ flowState'[i] = flowState[i]
    BY <1>1, <1>2, <1>3, <1>4
  <2>2. \A i \in DOMAIN flowState' : flowState'[i].whole => i \in DOMAIN flowState
    BY <1>5
  <2> QED
    BY <2>1, <2>2 DEF Flow!Returned
<1>7. Flow!Succeeded' = Flow!Succeeded /\ \A i \in Flow!Succeeded : flowPath'[i] = flowPath[i]
  <2>1. CASE flowPath' = flowPath
    BY <2>1 DEF Flow!Succeeded
  <2>2. CASE \E e \in FlowLeft : flowPath' = Append(flowPath, e) /\ ~e.ok
    <3>1. PICK e \in FlowLeft : flowPath' = Append(flowPath, e) /\ ~e.ok
      BY <2>2
    <3>2. /\ flowPath' \in Seq(FlowLeft) /\ Len(flowPath') = Len(flowPath) + 1
          /\ \A i \in 1..Len(flowPath) : flowPath'[i] = flowPath[i]
          /\ flowPath'[Len(flowPath) + 1] = e
      <4>1. flowPath' = Append(flowPath, e) /\ flowPath \in Seq(FlowLeft) /\ e \in FlowLeft
        BY <1>1, <3>1
      <4> QED
        BY <4>1, AppendProperties
    <3>3. DOMAIN flowPath' = 1..(Len(flowPath) + 1)
      BY <3>2
    <3>4. \A i \in DOMAIN flowPath' : i \in DOMAIN flowPath \/ i = Len(flowPath) + 1
      BY <1>1, <3>3
    <3>5. DOMAIN flowPath \subseteq DOMAIN flowPath'
      BY <1>1, <3>3
    <3>6. \A i \in DOMAIN flowPath : flowPath'[i] = flowPath[i]
      BY <1>1, <3>2
    <3>7. \A i : i \in Flow!Succeeded' <=> i \in Flow!Succeeded
      BY <3>1, <3>2, <3>4, <3>5, <3>6 DEF Flow!Succeeded
    <3>8. Flow!Succeeded \subseteq DOMAIN flowPath
      BY DEF Flow!Succeeded
    <3> QED
      BY <3>6, <3>7, <3>8
  <2> QED
    BY <2>1, <2>2
<1>8. PICK places \in [Flow!Succeeded -> Flow!Returned] : Flow!InOrder(places)
  BY DEF FlowInv, FlowWrote
<1>9. Flow!InOrder(places)'
  <2>1. \A j \in Flow!Returned : flowState'[j] = flowState[j]
    BY <1>1, <1>3 DEF Flow!Returned
  <2>2. ASSUME NEW i \in Flow!Succeeded
        PROVE  flowState'[places[i]].by = flowPath'[i].node
    <3>1. flowState[places[i]].by = flowPath[i].node
      BY <1>8 DEF Flow!InOrder
    <3>2. flowPath'[i] = flowPath[i]
      BY <1>7
    <3>3. places[i] \in Flow!Returned
      BY <1>8
    <3>4. flowState'[places[i]] = flowState[places[i]]
      BY <2>1, <3>3
    <3> QED
      BY <3>1, <3>2, <3>4
  <2> QED
    BY <1>6, <1>7, <1>8, <2>2 DEF Flow!InOrder
<1>10. places \in [Flow!Succeeded -> Flow!Returned]'
  BY <1>6, <1>7, <1>8
<1> QED
  BY <1>1, <1>3, <1>5, <1>9, <1>10

\* After one that returned something.
LEMMA FlowNodeReturned ==
    ASSUME FlowInv, UNCHANGED flowGraph, NEW w \in FlowWrite, NEW e \in FlowLeft,
           w.whole, e.ok, w.by = e.node,
           flowState' = Append(flowState, w), flowPath' = Append(flowPath, e)
    PROVE  /\ flowState' \in Seq(FlowWrite)
           /\ \A i \in DOMAIN flowState' : (i \in DOMAIN flowState /\ flowState'[i] = flowState[i]) \/ flowState'[i] = w
           /\ (\E places \in [Flow!Succeeded -> Flow!Returned] : Flow!InOrder(places))'
<1> DEFINE p == Len(flowPath) + 1
           s == Len(flowState) + 1
<1>1. /\ Len(flowState) \in Nat /\ DOMAIN flowState = 1..Len(flowState) /\ flowState \in Seq(FlowWrite)
      /\ flowPath \in Seq(FlowLeft) /\ Len(flowPath) \in Nat /\ DOMAIN flowPath = 1..Len(flowPath)
  BY FlowTypes DEF FlowInv, FlowTyped
<1>2. /\ flowState' \in Seq(FlowWrite) /\ Len(flowState') = s /\ flowState'[s] = w
      /\ \A i \in 1..Len(flowState) : flowState'[i] = flowState[i]
  BY <1>1, AppendProperties
<1>3. /\ flowPath' \in Seq(FlowLeft) /\ Len(flowPath') = p /\ flowPath'[p] = e
      /\ \A i \in 1..Len(flowPath) : flowPath'[i] = flowPath[i]
  BY <1>1, AppendProperties
<1>4. /\ DOMAIN flowState' = DOMAIN flowState \cup {s} /\ s \notin DOMAIN flowState /\ s \in Nat
      /\ DOMAIN flowPath' = DOMAIN flowPath \cup {p} /\ p \notin DOMAIN flowPath /\ p \in Nat
      /\ \A i \in DOMAIN flowPath : i < p
      /\ \A j \in DOMAIN flowState : j < s
  BY <1>1, <1>2, <1>3
<1> HIDE DEF p, s
<1>5. Flow!Returned' = Flow!Returned \cup {s} /\ Flow!Returned \subseteq DOMAIN flowState
  BY <1>1, <1>2, <1>4 DEF Flow!Returned
<1>6. Flow!Succeeded' = Flow!Succeeded \cup {p} /\ Flow!Succeeded \subseteq DOMAIN flowPath
  BY <1>1, <1>3, <1>4 DEF Flow!Succeeded
<1>7. PICK places \in [Flow!Succeeded -> Flow!Returned] : Flow!InOrder(places)
  BY DEF FlowInv, FlowWrote
<1>8. PICK more : more = [i \in Flow!Succeeded' |-> IF i = p THEN s ELSE places[i]]
  OBVIOUS
<1>9. /\ more[p] = s /\ \A i \in Flow!Succeeded : i # p /\ more[i] = places[i] /\ places[i] \in Flow!Returned
      /\ more \in [Flow!Succeeded' -> Flow!Returned']
  BY <1>4, <1>5, <1>6, <1>7, <1>8
<1>10. \A j \in Flow!Returned' : \E i \in Flow!Succeeded' : more[i] = j
  BY <1>5, <1>6, <1>7, <1>9 DEF Flow!InOrder
<1>11. \A i, k \in Flow!Succeeded' : i < k => more[i] < more[k]
  <2> SUFFICES ASSUME NEW i \in Flow!Succeeded', NEW k \in Flow!Succeeded', i < k PROVE more[i] < more[k]
    OBVIOUS
  <2>1. CASE i \in Flow!Succeeded /\ k \in Flow!Succeeded
    BY <1>7, <1>9, <2>1 DEF Flow!InOrder
  <2>2. CASE i \in Flow!Succeeded /\ k = p
    BY <1>4, <1>5, <1>9, <2>2
  <2>3. CASE i = p
    <3>1. k \in DOMAIN flowPath \/ k = p
      BY <1>6
    <3>2. \A x \in DOMAIN flowPath : x \in Nat
      BY <1>1
    <3> QED
      BY <1>4, <2>3, <3>1, <3>2
  <2> QED
    BY <1>6, <2>1, <2>2, <2>3
<1>12. \A i \in Flow!Succeeded' : flowState'[more[i]].by = flowPath'[i].node
  <2> SUFFICES ASSUME NEW i \in Flow!Succeeded' PROVE flowState'[more[i]].by = flowPath'[i].node
    OBVIOUS
  <2>1. CASE i = p
    BY <1>2, <1>3, <1>9, <2>1
  <2>2. CASE i \in Flow!Succeeded
    <3>1. flowState'[places[i]] = flowState[places[i]] /\ flowPath'[i] = flowPath[i]
      BY <1>1, <1>2, <1>3, <1>5, <1>6, <1>9, <2>2
    <3>2. flowState[places[i]].by = flowPath[i].node /\ more[i] = places[i]
      BY <1>7, <1>9, <2>2 DEF Flow!InOrder
    <3> QED
      BY <3>1, <3>2
  <2> QED
    BY <1>6, <2>1, <2>2
<1>13. Flow!InOrder(more)'
  BY <1>10, <1>11, <1>12 DEF Flow!InOrder
<1> QED
  BY <1>2, <1>4, <1>1, <1>9, <1>13

FlowRunType ==
    [pc : Flow!PCs, at : flowGraph.nodes \cup {Flow!END, Flow!Unset}, step : 0..FlowMaxSteps,
     attempt : Nat, try : Nat, outcome : Flow!Outcomes]

\* A step of the run that neither adds to the path nor writes to the state.
LEMMA FlowMoves ==
    ASSUME FlowInv, UNCHANGED << flowGraph, flowState, flowPath >>,
           flowRun' \in FlowRunType,
           flowLives' \in [flowGraph.nodes -> {"new", "ready", "failed", "down"}], flowPosts' \in Nat,
           flowRun'.pc = "setup" => flowRun.pc = "setup",
           flowRun'.pc = "loop" \/ FlowWorks' => FlowLeads(flowRun'.at),
           flowRun'.pc = "loop" => flowRun'.at \in flowGraph.nodes \cup {Flow!END},
           flowRun.step <= flowRun'.step,
           FlowWorks' => Len(flowPath) < flowRun'.step /\ flowRun'.at \in flowGraph.nodes,
           flowRun'.outcome = "result" =>
               flowRun'.pc \in {"shutdown", "ended"} /\ flowRun'.at = Flow!END /\ (flowPath # << >> => FlowLeads(Flow!END)),
           flowRun'.pc = "process" => flowRun'.at \notin flowGraph.remote,
           FlowAsks' => flowRun'.at \in flowGraph.remote,
           FlowPosted', FlowShut'
    PROVE  FlowInv'
<1>1. FlowTyped'
  BY DEF FlowInv, FlowTyped, FlowRunType, FlowWrite, FlowLeft, Flow!Accepts
<1>2. FlowWalked'
  <2>1. \A i, n : Flow!Follows(i, n) <=> Flow!Follows(i, n)'
    BY DEF Flow!Follows, Flow!Targets
  <2>2. \A n : FlowLeads(n) <=> FlowLeads(n)'
    BY <2>1 DEF FlowLeads
  <2>3. /\ (\A i \in 1..(Len(flowPath) - 1) : Flow!Follows(i, flowPath[i + 1].node))'
        /\ (flowPath # << >> => flowPath[1].node = flowGraph.entry)'
        /\ (flowRun.pc = "setup" => flowPath = << >>)'
    BY DEF FlowInv, FlowWalked, Flow!Follows, Flow!Targets
  <2>4. (flowRun.pc = "loop" \/ FlowWorks => FlowLeads(flowRun.at))'
    <3>1. PICK n : n = flowRun'.at
      OBVIOUS
    <3>2. ASSUME (flowRun.pc = "loop" \/ FlowWorks)' PROVE FlowLeads(n)'
      BY <2>2, <3>1, <3>2
    <3> QED
      BY <3>1, <3>2 DEF FlowLeads, Flow!Follows, Flow!Targets
  <2>5. (Len(flowPath) <= flowRun.step)'
    <3>1. Len(flowPath) \in Nat /\ flowRun.step \in Nat /\ flowRun'.step \in Nat /\ Len(flowPath) <= flowRun.step
      BY FlowTypes, FlowAssumption DEF FlowInv, FlowWalked, FlowRunType
    <3> QED
      BY <3>1
  <2>6. (flowRun.outcome = "result" =>
           /\ flowRun.pc \in {"shutdown", "ended"} /\ flowRun.at = Flow!END
           /\ flowPath # << >> => Flow!Follows(Len(flowPath), Flow!END))'
    BY DEF FlowLeads, Flow!Follows, Flow!Targets, Flow!END
  <2> QED
    BY <2>3, <2>4, <2>5, <2>6 DEF FlowWalked
<1>3. FlowWrote'
  <2>1. (\E places \in [Flow!Succeeded -> Flow!Returned] : Flow!InOrder(places))'
    <3>1. PICK places \in [Flow!Succeeded -> Flow!Returned] : Flow!InOrder(places)
      BY DEF FlowInv, FlowWrote
    <3>2. Flow!Succeeded' = Flow!Succeeded /\ Flow!Returned' = Flow!Returned
      BY DEF Flow!Succeeded, Flow!Returned
    <3>3. Flow!InOrder(places)'
      BY <3>1, <3>2 DEF Flow!InOrder
    <3> QED
      BY <3>1, <3>2, <3>3
  <2>2. (\A i \in DOMAIN flowState : flowState[i].whole \/ flowState[i].by \notin flowGraph.remote)'
    BY DEF FlowInv, FlowWrote
  <2>3. (flowRun.pc = "process" => flowRun.at \notin flowGraph.remote)' /\ (FlowAsks => flowRun.at \in flowGraph.remote)'
    BY DEF FlowAsks
  <2> QED
    BY <2>1, <2>2, <2>3 DEF FlowWrote
<1> QED
  BY <1>1, <1>2, <1>3 DEF FlowInv

\* A node has returned.
LEMMA FlowSucceeds ==
    ASSUME FlowInv, FlowWorks, NEW target \in Flow!Targets(flowRun.at), Flow!Succeed(target),
           UNCHANGED << flowGraph, flowLives >>, flowPosts' \in Nat,
           flowPosts' <= flowGraph.nodeRetries * FlowRounds
    PROVE  FlowInv'
<1> DEFINE e == [node |-> flowRun.at, ok |-> TRUE, attempts |-> flowRun.attempt]
           w == [by |-> flowRun.at, whole |-> TRUE]
           ends == target \notin flowGraph.nodes \cup {Flow!END}
<1>1. /\ flowRun \in FlowRunType /\ flowRun.at \in flowGraph.nodes /\ flowRun.outcome # "result"
      /\ FlowLeads(flowRun.at) /\ Len(flowPath) < flowRun.step /\ Len(flowPath) \in Nat /\ flowRun.step \in Nat
      /\ flowRun.attempt \in Nat
  BY FlowTypes DEF FlowInv, FlowTyped, FlowWalked, FlowRunType, FlowWorks, FlowAsks
<1>2. /\ flowPath' = Append(flowPath, e) /\ flowState' = Append(flowState, w)
      /\ ~ends => flowRun' = [flowRun EXCEPT !.pc = "loop", !.at = target]
      /\ ends => flowRun' = [flowRun EXCEPT !.pc = "shutdown", !.outcome = "edge"]
  BY DEF Flow!Succeed
<1>3. e \in FlowLeft /\ w \in FlowWrite /\ w.whole /\ e.ok /\ w.by = e.node /\ e.node = flowRun.at
  BY <1>1 DEF FlowLeft, FlowWrite
<1> HIDE DEF e, w
<1>4. /\ flowRun' \in FlowRunType /\ flowRun'.step = flowRun.step /\ flowRun'.pc \in {"loop", "shutdown"}
      /\ flowRun'.pc = "loop" => flowRun'.at = target /\ target \in flowGraph.nodes \cup {Flow!END}
      /\ flowRun'.outcome # "result"
  BY <1>1, <1>2 DEF FlowRunType, Flow!PCs, Flow!Outcomes
<1>5. ~FlowWorks' /\ ~FlowAsks'
  BY <1>4 DEF FlowWorks, FlowAsks
<1>6. /\ flowPath' \in Seq(FlowLeft) /\ flowPath' # << >> /\ Len(flowPath') = Len(flowPath) + 1
      /\ flowPath'[Len(flowPath) + 1] = e
      /\ \A i \in 1..(Len(flowPath') - 1) : Flow!Follows(i, flowPath[i + 1].node)'
      /\ flowPath'[1].node = flowGraph.entry
  BY <1>1, <1>2, <1>3, FlowLongerPath
<1>7. /\ flowState' \in Seq(FlowWrite)
      /\ \A i \in DOMAIN flowState' : (i \in DOMAIN flowState /\ flowState'[i] = flowState[i]) \/ flowState'[i] = w
      /\ (\E places \in [Flow!Succeeded -> Flow!Returned] : Flow!InOrder(places))'
  BY <1>2, <1>3, FlowNodeReturned
<1>8. FlowTyped'
  BY <1>4, <1>6, <1>7 DEF FlowInv, FlowTyped, FlowRunType, FlowWrite, FlowLeft, Flow!Accepts
<1>9. FlowWalked'
  <2>1. flowRun'.pc = "loop" => FlowLeads(flowRun.at)'
    BY <1>3, <1>4, <1>6 DEF FlowLeads, Flow!Follows, Flow!Targets
  <2>2. Len(flowPath') <= flowRun'.step
    BY <1>1, <1>4, <1>6
  <2>3. (\A i \in 1..(Len(flowPath) - 1) : Flow!Follows(i, flowPath[i + 1].node))'
    BY <1>6
  <2>4. (flowRun.pc = "setup" => flowPath = << >>)' /\ flowPath'[1].node = flowGraph'.entry
    BY <1>4, <1>6
  <2> QED
    BY <1>4, <1>5, <2>1, <2>2, <2>3, <2>4 DEF FlowWalked
<1>10. FlowWrote'
  <2>1. \A i \in DOMAIN flowState : flowState[i].whole \/ flowState[i].by \notin flowGraph.remote
    BY DEF FlowInv, FlowWrote
  <2>2. \A i \in DOMAIN flowState' : flowState'[i].whole \/ flowState'[i].by \notin flowGraph'.remote
    BY <1>3, <1>7, <2>1
  <2> QED
    BY <1>4, <1>5, <1>7, <2>2 DEF FlowWrote
<1>11. FlowPosted' /\ FlowShut'
  BY <1>4, <1>5 DEF FlowPosted, FlowShut, FlowRounds, FlowAsks, FlowWorks
<1> QED
  BY <1>8, <1>9, <1>10, <1>11 DEF FlowInv

\* An attempt of a node has failed: it is tried again, left by its error edge, or the end.
LEMMA FlowFails ==
    ASSUME FlowInv, FlowWorks, NEW written \in Seq(FlowWrite),
           \A i \in DOMAIN written : ~written[i].whole /\ written[i].by \notin flowGraph.remote,
           Flow!Fail(written), UNCHANGED << flowGraph, flowLives >>, flowPosts' \in Nat,
           flowPosts' <= flowGraph.nodeRetries * FlowRounds,
           FlowAsks => flowPosts' <= flowRun.attempt * FlowRounds
    PROVE  FlowInv'
<1> DEFINE e == [node |-> flowRun.at, ok |-> FALSE, attempts |-> flowRun.attempt]
           again == flowRun.attempt < flowGraph.nodeRetries
           remote == flowRun.at \in flowGraph.remote
<1>1. /\ flowRun \in FlowRunType /\ flowRun.at \in flowGraph.nodes /\ flowRun.outcome # "result"
      /\ FlowLeads(flowRun.at) /\ Len(flowPath) < flowRun.step /\ Len(flowPath) \in Nat /\ flowRun.step \in Nat
      /\ flowRun.attempt \in 1..flowGraph.nodeRetries /\ flowGraph.nodeRetries \in Nat /\ FlowRounds \in Nat
      /\ FlowRounds >= 1
  BY FlowTypes DEF FlowInv, FlowTyped, FlowWalked, FlowRunType, FlowWorks, FlowAsks, FlowPosted, FlowRounds
<1>2. flowState' = flowState \o written
  BY DEF Flow!Fail
<1>3. e \in FlowLeft /\ ~e.ok /\ e.node = flowRun.at /\ e.attempts = flowRun.attempt
  BY <1>1 DEF FlowLeft
<1>4. CASE again
  <2>1. /\ flowRun' = [flowRun EXCEPT !.pc = IF remote THEN "post" ELSE "process", !.attempt = @ + 1, !.try = 1]
        /\ flowPath' = flowPath
    BY <1>4 DEF Flow!Fail
  <2>2. /\ flowRun' \in FlowRunType /\ flowRun'.step = flowRun.step /\ flowRun'.at = flowRun.at
        /\ flowRun'.pc = (IF remote THEN "post" ELSE "process") /\ flowRun'.attempt = flowRun.attempt + 1
        /\ flowRun'.try = 1 /\ flowRun'.outcome # "result"
    <3>1. PICK pc \in Flow!PCs : pc = (IF remote THEN "post" ELSE "process")
      BY DEF Flow!PCs
    <3>2. PICK more \in Nat : more = flowRun.attempt + 1
      BY <1>1
    <3>3. flowRun' = [flowRun EXCEPT !.pc = pc, !.attempt = more, !.try = 1]
      BY <1>1, <2>1, <3>1, <3>2 DEF FlowRunType
    <3>4. flowRun' \in FlowRunType /\ flowRun'.step = flowRun.step /\ flowRun'.at = flowRun.at
      BY <1>1, <3>3 DEF FlowRunType
    <3>5. /\ flowRun'.pc = pc /\ flowRun'.attempt = more
          /\ flowRun'.try = 1 /\ flowRun'.outcome # "result"
      BY <1>1, <3>3 DEF FlowRunType
    <3> QED
      BY <3>1, <3>2, <3>4, <3>5
  <2>3. /\ flowState' \in Seq(FlowWrite)
        /\ \A i \in DOMAIN flowState' : \/ i \in DOMAIN flowState /\ flowState'[i] = flowState[i]
                                        \/ \E k \in DOMAIN written : flowState'[i] = written[k]
        /\ (\E places \in [Flow!Succeeded -> Flow!Returned] : Flow!InOrder(places))'
    BY <1>2, <2>1, FlowNothingReturned
  <2>4. FlowTyped'
    BY <2>1, <2>2, <2>3 DEF FlowInv, FlowTyped, FlowRunType, FlowWrite, FlowLeft, Flow!Accepts
  <2>5. FlowWalked'
    <3>1. /\ (\A i \in 1..(Len(flowPath) - 1) : Flow!Follows(i, flowPath[i + 1].node))'
          /\ (flowPath # << >> => flowPath[1].node = flowGraph.entry)'
      BY <2>1 DEF FlowInv, FlowWalked, Flow!Follows, Flow!Targets
    <3>2. (FlowLeads(flowRun.at))'
      BY <1>1, <2>1, <2>2 DEF FlowLeads, Flow!Follows, Flow!Targets
    <3>3. Len(flowPath') < flowRun'.step /\ flowRun'.at \in flowGraph'.nodes
      BY <1>1, <2>1, <2>2
    <3>4. flowRun'.pc \notin {"setup", "loop"} /\ (Len(flowPath) <= flowRun.step)'
      BY <1>1, <2>1, <2>2, <3>3
    <3> QED
      BY <2>2, <3>1, <3>2, <3>3, <3>4 DEF FlowWalked
  <2>6. FlowWrote'
    <3>1. \A i \in DOMAIN flowState : flowState[i].whole \/ flowState[i].by \notin flowGraph.remote
      BY DEF FlowInv, FlowWrote
    <3>2. \A i \in DOMAIN flowState' : flowState'[i].whole \/ flowState'[i].by \notin flowGraph'.remote
      BY <2>3, <3>1
    <3> QED
      BY <2>2, <2>3, <3>2 DEF FlowWrote, FlowAsks
  <2>7. FlowPosted'
    <3>1. FlowBefore' = flowRun.attempt * FlowRounds
      <4>1. FlowBefore' = ((flowRun.attempt + 1) - 1) * FlowRounds
        BY <2>2 DEF FlowBefore, FlowRounds
      <4>2. (flowRun.attempt + 1) - 1 = flowRun.attempt
        BY <1>1
      <4> QED
        BY <4>1, <4>2
    <3>2. FlowAsks' => FlowAsks
      BY <2>2 DEF FlowAsks, FlowInv, FlowWrote, FlowWorks
    <3>3. PICK before : before = flowRun.attempt * FlowRounds
      OBVIOUS
    <3>4. before \in Nat
      BY <1>1, <3>3, FlowProducts
    <3>5. flowRun'.pc = "post" => flowPosts' <= FlowBefore' + flowRun'.try - 1
      <4>1. FlowBefore' = before
        BY <3>1, <3>3
      <4>2. ASSUME flowRun'.pc = "post" PROVE flowPosts' <= before
        BY <3>2, <3>3, <4>2 DEF FlowAsks
      <4> QED
        BY <2>2, <3>4, <4>1, <4>2
    <3>6. flowRun'.attempt \in 1..flowGraph'.nodeRetries
      BY <1>1, <1>4, <2>2
    <3>7. flowRun'.try \in 1..FlowRounds' /\ flowRun'.pc # "backoff"
      BY <1>1, <2>2 DEF FlowRounds
    <3>8. (flowPosts <= flowGraph.nodeRetries * FlowRounds)'
      BY DEF FlowRounds
    <3> QED
      BY <3>5, <3>6, <3>7, <3>8 DEF FlowPosted
  <2>8. FlowShut'
    BY <2>2 DEF FlowShut
  <2> QED
    BY <2>4, <2>5, <2>6, <2>7, <2>8 DEF FlowInv
<1>5. CASE ~again
  <2>1. /\ flowPath' = Append(flowPath, e)
        /\ flowRun.at \in DOMAIN flowGraph.error =>
             flowRun' = [flowRun EXCEPT !.pc = "loop", !.at = flowGraph.error[flowRun.at]]
        /\ flowRun.at \notin DOMAIN flowGraph.error => flowRun' = [flowRun EXCEPT !.pc = "shutdown", !.outcome = "node"]
    BY <1>5 DEF Flow!Fail
  <2>2. flowRun.at \in DOMAIN flowGraph.error => flowGraph.error[flowRun.at] \in flowGraph.nodes
    BY DEF FlowInv, FlowTyped, Flow!Accepts
  <2> HIDE DEF e
  <2>3. /\ flowRun' \in FlowRunType /\ flowRun'.step = flowRun.step /\ flowRun'.pc \in {"loop", "shutdown"}
        /\ flowRun'.pc = "loop" => /\ flowRun.at \in DOMAIN flowGraph.error /\ flowRun'.at = flowGraph.error[flowRun.at]
                                   /\ flowRun'.at \in flowGraph.nodes \cup {Flow!END}
        /\ flowRun'.outcome # "result"
    BY <1>1, <2>1, <2>2 DEF FlowRunType, Flow!PCs, Flow!Outcomes
  <2>4. ~FlowWorks' /\ ~FlowAsks'
    BY <2>3 DEF FlowWorks, FlowAsks
  <2>5. /\ flowPath' \in Seq(FlowLeft) /\ flowPath' # << >> /\ Len(flowPath') = Len(flowPath) + 1
        /\ flowPath'[Len(flowPath) + 1] = e
        /\ \A i \in 1..(Len(flowPath') - 1) : Flow!Follows(i, flowPath[i + 1].node)'
        /\ flowPath'[1].node = flowGraph.entry
    BY <1>1, <1>3, <2>1, FlowLongerPath
  <2>6. /\ flowState' \in Seq(FlowWrite)
        /\ \A i \in DOMAIN flowState' : \/ i \in DOMAIN flowState /\ flowState'[i] = flowState[i]
                                        \/ \E k \in DOMAIN written : flowState'[i] = written[k]
        /\ (\E places \in [Flow!Succeeded -> Flow!Returned] : Flow!InOrder(places))'
    BY <1>2, <1>3, <2>1, FlowNothingReturned
  <2>7. FlowTyped'
    BY <2>3, <2>5, <2>6 DEF FlowInv, FlowTyped, FlowRunType, FlowWrite, FlowLeft, Flow!Accepts
  <2>8. FlowWalked'
    <3>1. flowRun.attempt = flowGraph.nodeRetries
      BY <1>1, <1>5
    <3>2. flowRun'.pc = "loop" => FlowLeads(flowRun.at)'
      BY <1>3, <2>3, <2>5, <3>1 DEF FlowLeads, Flow!Follows, Flow!Targets
    <3>3. Len(flowPath') <= flowRun'.step
      BY <1>1, <2>3, <2>5
    <3>4. (\A i \in 1..(Len(flowPath) - 1) : Flow!Follows(i, flowPath[i + 1].node))'
      BY <2>5
    <3>5. (flowRun.pc = "setup" => flowPath = << >>)' /\ flowPath'[1].node = flowGraph'.entry
      BY <2>3, <2>5
    <3> QED
      BY <2>3, <2>4, <3>2, <3>3, <3>4, <3>5 DEF FlowWalked
  <2>9. FlowWrote'
    <3>1. \A i \in DOMAIN flowState : flowState[i].whole \/ flowState[i].by \notin flowGraph.remote
      BY DEF FlowInv, FlowWrote
    <3>2. \A i \in DOMAIN flowState' : flowState'[i].whole \/ flowState'[i].by \notin flowGraph'.remote
      BY <2>6, <3>1
    <3> QED
      BY <2>3, <2>4, <2>6, <3>2 DEF FlowWrote
  <2>10. FlowPosted' /\ FlowShut'
    BY <2>3, <2>4 DEF FlowPosted, FlowShut, FlowRounds, FlowAsks, FlowWorks
  <2> QED
    BY <2>7, <2>8, <2>9, <2>10 DEF FlowInv
<1> QED
  BY <1>4, <1>5

\* What holds wherever the run is.
LEMMA FlowHolds ==
    ASSUME FlowInv
    PROVE  /\ flowRun \in FlowRunType /\ flowRun.step \in 0..FlowMaxSteps /\ flowRun.step \in Nat /\ FlowMaxSteps \in Nat
           /\ flowLives \in [flowGraph.nodes -> {"new", "ready", "failed", "down"}]
           /\ flowGraph.agents \subseteq flowGraph.nodes
           /\ flowPosts \in Nat /\ flowPosts <= flowGraph.nodeRetries * FlowRounds
           /\ flowGraph.nodeRetries \in Nat /\ flowGraph.remoteRetries \in Nat
           /\ FlowRounds = flowGraph.remoteRetries + 1
           /\ Len(flowPath) \in Nat /\ Len(flowPath) <= flowRun.step
           /\ flowGraph.nodeRetries * FlowRounds \in Nat
           /\ flowRun.outcome = "result" => flowRun.pc \in {"shutdown", "ended"}
<1>1. flowGraph.nodeRetries \in Nat /\ FlowRounds \in Nat
  BY FlowTypes
<1>2. flowGraph.nodeRetries * FlowRounds \in Nat
  BY <1>1
<1> QED
  BY <1>1, <1>2, FlowTypes, FlowAssumption
  DEF FlowInv, FlowTyped, FlowWalked, FlowPosted, FlowRunType, FlowRounds, Flow!Accepts

\* The run ends here: its nodes are to be shut down.
LEMMA FlowEnds ==
    ASSUME FlowInv, UNCHANGED << flowGraph, flowState, flowPath >>,
           flowRun' \in FlowRunType, flowRun'.pc = "shutdown", flowRun'.step = flowRun.step,
           flowRun'.outcome = "result" =>
               flowRun'.at = Flow!END /\ (flowPath # << >> => FlowLeads(Flow!END)),
           flowLives' \in [flowGraph.nodes -> {"new", "ready", "failed", "down"}],
           flowPosts' \in {0, flowPosts}
    PROVE  FlowInv'
<1>1. ~FlowWorks' /\ ~FlowAsks'
  BY DEF FlowWorks, FlowAsks
<1>2. flowPosts' \in Nat /\ flowPosts' <= flowGraph.nodeRetries * FlowRounds
  BY FlowHolds
<1>3. FlowPosted' /\ FlowShut'
  BY <1>1, <1>2 DEF FlowPosted, FlowShut, FlowRounds
<1>4. flowRun.step <= flowRun'.step
  BY FlowHolds
<1> QED
  BY <1>1, <1>2, <1>3, <1>4, FlowMoves

LEMMA FlowSetsUp ==
    ASSUME FlowInv, NEW n \in flowGraph.nodes, NEW ok \in BOOLEAN, Flow!SetUp(n, ok)
    PROVE  FlowInv'
<1>1. flowLives' \in [flowGraph.nodes -> {"new", "ready", "failed", "down"}]
  BY FlowHolds DEF Flow!SetUp
<1>2. CASE ok
  <2>1. UNCHANGED << flowGraph, flowRun, flowState, flowPath, flowPosts >> /\ flowRun.pc = "setup"
    BY <1>2 DEF Flow!SetUp, Flow!At
  <2>2. ~FlowWorks' /\ ~FlowAsks' /\ flowRun'.outcome # "result" /\ flowRun.step <= flowRun'.step
    BY <2>1, FlowHolds DEF FlowWorks, FlowAsks
  <2>3. FlowPosted' /\ FlowShut'
    BY <2>1, <2>2, FlowHolds DEF FlowPosted, FlowShut, FlowRounds
  <2> QED
    BY <1>1, <2>1, <2>2, <2>3, FlowMoves, FlowHolds
<1>3. CASE ~ok
  <2>1. /\ UNCHANGED << flowGraph, flowState, flowPath, flowPosts >>
        /\ flowRun' = [flowRun EXCEPT !.pc = "shutdown", !.outcome = "setup"]
    BY <1>3 DEF Flow!SetUp, Flow!End
  <2>2. flowRun' \in FlowRunType /\ flowRun'.pc = "shutdown" /\ flowRun'.step = flowRun.step /\ flowRun'.outcome # "result"
    BY <2>1, FlowHolds DEF FlowRunType, Flow!PCs, Flow!Outcomes
  <2> QED
    BY <1>1, <2>1, <2>2, FlowEnds
<1> QED
  BY <1>2, <1>3

LEMMA FlowStarts ==
    ASSUME FlowInv, Flow!Start
    PROVE  FlowInv'
<1>1. /\ UNCHANGED << flowGraph, flowLives, flowState, flowPath, flowPosts >> /\ flowRun.pc = "setup"
      /\ flowPath = << >>
  BY DEF Flow!Start, Flow!At, FlowInv, FlowWalked
<1>2. CASE Flow!Valid(flowGraph)
  <2>1. flowRun' = [flowRun EXCEPT !.pc = "loop", !.at = flowGraph.entry]
    BY <1>2 DEF Flow!Start
  <2>2. flowGraph.entry \in flowGraph.nodes
    BY <1>2 DEF Flow!Valid, FlowInv, FlowTyped, Flow!Accepts
  <2>3. /\ flowRun' \in FlowRunType /\ flowRun'.pc = "loop" /\ flowRun'.step = flowRun.step /\ flowRun'.at = flowGraph.entry
        /\ flowRun'.outcome = flowRun.outcome
    BY <2>1, <2>2, FlowHolds DEF FlowRunType, Flow!PCs
  <2>4. ~FlowWorks' /\ ~FlowAsks' /\ flowRun'.outcome # "result" /\ flowRun.step <= flowRun'.step
    BY <1>1, <2>3, FlowHolds DEF FlowWorks, FlowAsks
  <2>5. FlowPosted' /\ FlowShut'
    BY <1>1, <2>3, <2>4, FlowHolds DEF FlowPosted, FlowShut, FlowRounds
  <2>6. FlowLeads(flowRun'.at)
    BY <1>1, <2>3 DEF FlowLeads
  <2> QED
    BY <1>1, <2>2, <2>3, <2>4, <2>5, <2>6, FlowMoves, FlowHolds
<1>3. CASE ~Flow!Valid(flowGraph)
  <2>1. flowRun' = [flowRun EXCEPT !.pc = "shutdown", !.outcome = "invalid"]
    BY <1>3 DEF Flow!Start, Flow!End
  <2>2. flowRun' \in FlowRunType /\ flowRun'.pc = "shutdown" /\ flowRun'.step = flowRun.step /\ flowRun'.outcome # "result"
    BY <2>1, FlowHolds DEF FlowRunType, Flow!PCs, Flow!Outcomes
  <2> QED
    BY <1>1, <2>2, FlowEnds, FlowHolds
<1> QED
  BY <1>2, <1>3

LEMMA FlowLoops ==
    ASSUME FlowInv, Flow!Loop
    PROVE  FlowInv'
<1> DEFINE ends(o) == flowRun' = [flowRun EXCEPT !.pc = "shutdown", !.outcome = o]
           work == flowRun' = [flowRun EXCEPT !.pc = IF flowRun.at \in flowGraph.remote THEN "post" ELSE "process",
                                              !.step = @ + 1, !.attempt = 1, !.try = 1]
<1>1. /\ UNCHANGED << flowGraph, flowLives, flowState, flowPath >> /\ flowPosts' = 0 /\ flowRun.pc = "loop"
      /\ FlowLeads(flowRun.at) /\ flowRun.at \in flowGraph.nodes \cup {Flow!END}
  BY DEF Flow!Loop, Flow!At, FlowInv, FlowWalked
<1>2. \/ ends("steps") \/ ends("assertion")
      \/ ends("result") /\ flowRun.at = Flow!END
      \/ /\ work /\ flowRun.step < FlowMaxSteps /\ flowRun.at # Flow!END /\ flowGraph.nodeRetries # 0
  BY FlowHolds DEF Flow!Loop, Flow!End
<1>3. CASE ends("steps") \/ ends("assertion")
  <2>1. flowRun' \in FlowRunType /\ flowRun'.pc = "shutdown" /\ flowRun'.step = flowRun.step /\ flowRun'.outcome # "result"
    BY <1>3, FlowHolds DEF FlowRunType, Flow!PCs, Flow!Outcomes
  <2> QED
    BY <1>1, <2>1, FlowEnds, FlowHolds
<1>4. CASE ends("result") /\ flowRun.at = Flow!END
  <2>1. flowRun' \in FlowRunType /\ flowRun'.pc = "shutdown" /\ flowRun'.step = flowRun.step /\ flowRun'.at = Flow!END
    BY <1>4, FlowHolds DEF FlowRunType, Flow!PCs, Flow!Outcomes
  <2> QED
    BY <1>1, <1>4, <2>1, FlowEnds, FlowHolds
<1>5. CASE work /\ flowRun.step < FlowMaxSteps /\ flowRun.at # Flow!END /\ flowGraph.nodeRetries # 0
  <2>1. PICK pc \in Flow!PCs : pc = (IF flowRun.at \in flowGraph.remote THEN "post" ELSE "process")
    BY DEF Flow!PCs
  <2>2. PICK more \in 0..FlowMaxSteps : more = flowRun.step + 1
    BY <1>5, FlowHolds
  <2>3. flowRun' = [flowRun EXCEPT !.pc = pc, !.step = more, !.attempt = 1, !.try = 1]
    BY <1>5, <2>1, <2>2, FlowHolds DEF FlowRunType
  <2>4. flowRun' \in FlowRunType
    BY <2>3, FlowHolds DEF FlowRunType
  <2>5. /\ flowRun'.pc = pc /\ flowRun'.step = more /\ flowRun'.attempt = 1 /\ flowRun'.try = 1
        /\ flowRun'.at = flowRun.at /\ flowRun'.outcome # "result"
    BY <1>1, <2>3, FlowHolds DEF FlowRunType
  <2>6. /\ flowRun'.pc = "process" => flowRun'.at \notin flowGraph.remote
        /\ FlowAsks' => flowRun'.at \in flowGraph.remote
        /\ flowRun'.pc \notin {"setup", "loop", "ended", "backoff"}
    BY <2>1, <2>5 DEF FlowAsks
  <2>7. flowRun'.at \in flowGraph.nodes /\ FlowLeads(flowRun'.at) /\ Len(flowPath) < flowRun'.step /\ flowRun.step <= flowRun'.step
    BY <1>1, <1>5, <2>2, <2>5, FlowHolds
  <2>8. FlowPosted'
    <3>1. FlowBefore' = 0
      <4>1. FlowBefore' = (1 - 1) * FlowRounds
        BY <1>1, <2>5 DEF FlowBefore, FlowRounds
      <4>2. FlowRounds \in Nat
        BY FlowHolds
      <4> QED
        BY <4>1, <4>2
    <3>2. flowRun'.attempt \in 1..flowGraph'.nodeRetries
      BY <1>1, <1>5, <2>5, FlowHolds
    <3>3. flowRun'.try \in 1..FlowRounds'
      BY <1>1, <2>5, FlowHolds DEF FlowRounds
    <3>4. flowPosts' <= FlowBefore' + flowRun'.try - 1
      BY <1>1, <2>5, <3>1
    <3>5. (flowPosts <= flowGraph.nodeRetries * FlowRounds)'
      <4>1. 0 <= flowGraph.nodeRetries * FlowRounds
        BY FlowHolds
      <4> QED
        BY <1>1, <4>1 DEF FlowRounds
    <3> QED
      BY <2>6, <3>2, <3>3, <3>4, <3>5 DEF FlowPosted
  <2>9. FlowShut'
    BY <2>6 DEF FlowShut
  <2> QED
    BY <1>1, <2>4, <2>5, <2>6, <2>7, <2>8, <2>9, FlowMoves, FlowHolds
<1> QED
  BY <1>2, <1>3, <1>4, <1>5

LEMMA FlowShutsDown ==
    ASSUME FlowInv, NEW n \in flowGraph.nodes, Flow!ShutDown(n)
    PROVE  FlowInv'
<1>1. UNCHANGED << flowGraph, flowRun, flowState, flowPath, flowPosts >> /\ flowRun.pc = "shutdown"
  BY DEF Flow!ShutDown, Flow!At
<1>2. flowLives' \in [flowGraph.nodes -> {"new", "ready", "failed", "down"}]
  BY FlowHolds DEF Flow!ShutDown
<1>3. flowRun.outcome = "result" => flowRun.at = Flow!END /\ (flowPath # << >> => FlowLeads(Flow!END))
  BY DEF FlowInv, FlowWalked, FlowLeads
<1> QED
  BY <1>1, <1>2, <1>3, FlowEnds, FlowHolds

LEMMA FlowEnded ==
    ASSUME FlowInv, Flow!Ended
    PROVE  FlowInv'
<1>1. /\ UNCHANGED << flowGraph, flowLives, flowState, flowPath, flowPosts >> /\ flowRun.pc = "shutdown"
      /\ flowRun' = [flowRun EXCEPT !.pc = "ended"] /\ \A n \in flowGraph.agents : flowLives[n] = "down"
  BY DEF Flow!Ended, Flow!At
<1>2. /\ flowRun' \in FlowRunType /\ flowRun'.pc = "ended" /\ flowRun'.step = flowRun.step /\ flowRun'.at = flowRun.at
      /\ flowRun'.outcome = flowRun.outcome
  BY <1>1, FlowHolds DEF FlowRunType, Flow!PCs
<1>3. flowRun.outcome = "result" => flowRun.at = Flow!END /\ (flowPath # << >> => FlowLeads(Flow!END))
  BY DEF FlowInv, FlowWalked, FlowLeads
<1>4. ~FlowWorks' /\ ~FlowAsks' /\ flowRun.step <= flowRun'.step
  BY <1>2, FlowHolds DEF FlowWorks, FlowAsks
<1>5. FlowPosted' /\ FlowShut'
  BY <1>1, <1>4, FlowHolds DEF FlowPosted, FlowShut, FlowRounds
<1> QED
  BY <1>1, <1>2, <1>3, <1>4, <1>5, FlowMoves, FlowHolds

LEMMA FlowCancelled ==
    ASSUME FlowInv, Flow!Cancel
    PROVE  FlowInv'
<1>1. UNCHANGED << flowGraph, flowLives, flowState, flowPath, flowPosts >> /\ flowRun.pc # "ended"
  BY DEF Flow!Cancel, Flow!At
<1>2. CASE flowRun.pc = "shutdown"
  <2>1. flowRun' = [flowRun EXCEPT !.pc = "ended", !.outcome = "interrupted"]
    BY <1>2 DEF Flow!Cancel, Flow!At
  <2>2. /\ flowRun' \in FlowRunType /\ flowRun'.pc = "ended" /\ flowRun'.step = flowRun.step
        /\ flowRun'.outcome = "interrupted"
    BY <2>1, FlowHolds DEF FlowRunType, Flow!PCs, Flow!Outcomes
  <2>3. ~FlowWorks' /\ ~FlowAsks' /\ flowRun.step <= flowRun'.step
    BY <2>2, FlowHolds DEF FlowWorks, FlowAsks
  <2>4. FlowPosted' /\ FlowShut'
    BY <1>1, <2>2, <2>3, FlowHolds DEF FlowPosted, FlowShut, FlowRounds
  <2> QED
    BY <1>1, <2>2, <2>3, <2>4, FlowMoves, FlowHolds
<1>3. CASE flowRun.pc # "shutdown"
  <2>1. flowRun' = [flowRun EXCEPT !.pc = "shutdown", !.outcome = "cancelled"]
    BY <1>3 DEF Flow!Cancel, Flow!At
  <2>2. flowRun' \in FlowRunType /\ flowRun'.pc = "shutdown" /\ flowRun'.step = flowRun.step /\ flowRun'.outcome # "result"
    BY <2>1, FlowHolds DEF FlowRunType, Flow!PCs, Flow!Outcomes
  <2> QED
    BY <1>1, <2>2, FlowEnds, FlowHolds
<1> QED
  BY <1>2, <1>3

LEMMA FlowProcesses ==
    ASSUME FlowInv, Flow!Process
    PROVE  FlowInv'
<1>1. /\ UNCHANGED << flowGraph, flowLives, flowPosts >> /\ flowRun.pc = "process" /\ FlowWorks /\ ~FlowAsks
      /\ flowRun.at \in flowGraph.nodes /\ flowRun.at \notin flowGraph.remote
  BY DEF Flow!Process, Flow!At, FlowWorks, FlowAsks, FlowInv, FlowWalked, FlowWrote
<1>2. flowPosts' \in Nat /\ flowPosts' <= flowGraph.nodeRetries * FlowRounds
  BY <1>1, FlowHolds
<1>3. ASSUME NEW target \in Flow!Targets(flowRun.at), Flow!Succeed(target) PROVE FlowInv'
  BY <1>1, <1>2, <1>3, FlowSucceeds
<1>4. ASSUME NEW written \in {<< >>, << [by |-> flowRun.at, whole |-> FALSE] >>}, Flow!Fail(written) PROVE FlowInv'
  <2>1. /\ written \in Seq(FlowWrite)
        /\ \A i \in DOMAIN written : ~written[i].whole /\ written[i].by \notin flowGraph.remote
    <3>1. CASE written = << >>
      BY <3>1
    <3>2. CASE written = << [by |-> flowRun.at, whole |-> FALSE] >>
      BY <1>1, <3>2 DEF FlowWrite
    <3> QED
      BY <1>4, <3>1, <3>2
  <2> QED
    BY <1>1, <1>2, <1>4, <2>1, FlowFails
<1> QED
  BY <1>3, <1>4 DEF Flow!Process

LEMMA FlowPosts ==
    ASSUME FlowInv, NEW answer \in {"state", "unreadable", "error"}, Flow!Post(answer)
    PROVE  FlowInv'
<1>1. /\ UNCHANGED << flowGraph, flowLives >> /\ flowPosts' = flowPosts + 1 /\ flowRun.pc = "post" /\ FlowWorks /\ FlowAsks
  BY DEF Flow!Post, Flow!At, FlowWorks, FlowAsks
<1>2. /\ flowPosts <= FlowBefore + flowRun.try - 1 /\ flowRun.attempt \in 1..flowGraph.nodeRetries
      /\ flowRun.try \in 1..FlowRounds /\ flowRun.at \in flowGraph.remote /\ flowRun.at \in flowGraph.nodes
      /\ FlowLeads(flowRun.at) /\ Len(flowPath) < flowRun.step /\ flowRun.outcome # "result"
  BY <1>1 DEF FlowInv, FlowPosted, FlowWrote, FlowWalked
<1>3. /\ FlowBefore \in Nat /\ FlowBefore + FlowRounds = flowRun.attempt * FlowRounds /\ flowRun.attempt * FlowRounds \in Nat
      /\ flowRun.attempt * FlowRounds <= flowGraph.nodeRetries * FlowRounds
  <2>1. flowRun.attempt \in Nat /\ flowGraph.nodeRetries \in Nat /\ FlowRounds \in Nat /\ 1 <= flowRun.attempt
        /\ flowRun.attempt <= flowGraph.nodeRetries
    BY <1>2, FlowTypes
  <2> QED
    BY <2>1, FlowProducts DEF FlowBefore
<1>4. flowPosts' \in Nat /\ flowPosts' <= flowRun.attempt * FlowRounds /\ flowPosts' <= flowGraph.nodeRetries * FlowRounds
  <2>1. PICK most \in Nat : most = flowRun.attempt * FlowRounds
    BY <1>3
  <2>2. PICK all \in Nat : all = flowGraph.nodeRetries * FlowRounds
    BY FlowHolds
  <2>3. flowPosts \in Nat /\ FlowRounds \in Nat
    BY FlowHolds
  <2>4. flowPosts + 1 <= most /\ most <= all
    BY <1>2, <1>3, <2>1, <2>2, <2>3
  <2> QED
    BY <1>1, <2>1, <2>2, <2>3, <2>4
<1>5. ASSUME NEW target \in Flow!Targets(flowRun.at), Flow!Succeed(target) PROVE FlowInv'
  BY <1>1, <1>4, <1>5, FlowSucceeds
<1>6. ASSUME Flow!Fail(<< >>) PROVE FlowInv'
  <2>1. PICK written : written = << >>
    OBVIOUS
  <2>2. written \in Seq(FlowWrite)
    BY <2>1
  <2>3. (\A i \in DOMAIN written : ~written[i].whole /\ written[i].by \notin flowGraph.remote) /\ Flow!Fail(written)
    BY <1>6, <2>1
  <2> QED
    BY <1>1, <1>4, <2>2, <2>3, FlowFails
<1>7. ASSUME flowRun.try <= flowGraph.remoteRetries, flowRun' = [flowRun EXCEPT !.pc = "backoff"],
             UNCHANGED << flowState, flowPath >>
      PROVE  FlowInv'
  <2>1. /\ flowRun' \in FlowRunType /\ flowRun'.pc = "backoff" /\ flowRun'.step = flowRun.step /\ flowRun'.at = flowRun.at
        /\ flowRun'.outcome = flowRun.outcome /\ flowRun'.attempt = flowRun.attempt /\ flowRun'.try = flowRun.try
    BY <1>7, FlowHolds DEF FlowRunType, Flow!PCs
  <2>2. flowRun.step <= flowRun'.step /\ flowRun.try < FlowRounds
    BY <1>2, <1>7, <2>1, FlowHolds
  <2>3. FlowBefore' = FlowBefore /\ FlowRounds' = FlowRounds
    BY <1>1, <2>1 DEF FlowBefore, FlowRounds
  <2>4. flowPosts' <= FlowBefore' + flowRun'.try
    BY <1>1, <1>2, <1>3, <2>1, <2>3, FlowHolds
  <2>5. (flowPosts <= flowGraph.nodeRetries * FlowRounds)'
    BY <1>1, <1>4, <2>3
  <2>6. FlowPosted' /\ FlowShut'
    BY <1>1, <1>2, <2>1, <2>2, <2>3, <2>4, <2>5 DEF FlowPosted, FlowShut
  <2> QED
    BY <1>1, <1>2, <1>4, <1>7, <2>1, <2>2, <2>6, FlowMoves, FlowHolds
<1>8. CASE answer = "state"
  BY <1>5, <1>8 DEF Flow!Post
<1>9. CASE answer = "unreadable"
  BY <1>6, <1>9 DEF Flow!Post
<1>10. CASE answer = "error"
  <2>1. flowRun.try <= flowGraph.remoteRetries \/ flowRun.try > flowGraph.remoteRetries
    BY <1>2, FlowHolds
  <2> QED
    BY <1>6, <1>7, <1>10, <2>1 DEF Flow!Post
<1> QED
  BY <1>8, <1>9, <1>10

LEMMA FlowBacksOff ==
    ASSUME FlowInv, Flow!Backoff
    PROVE  FlowInv'
<1>1. /\ UNCHANGED << flowGraph, flowLives, flowState, flowPath, flowPosts >> /\ flowRun.pc = "backoff"
      /\ flowRun' = [flowRun EXCEPT !.pc = "post", !.try = @ + 1] /\ FlowWorks /\ FlowAsks
  BY DEF Flow!Backoff, Flow!At, FlowWorks, FlowAsks
<1>2. /\ flowPosts <= FlowBefore + flowRun.try /\ flowRun.attempt \in 1..flowGraph.nodeRetries
      /\ flowRun.try \in 1..FlowRounds /\ flowRun.try < FlowRounds
      /\ flowRun.at \in flowGraph.remote /\ flowRun.at \in flowGraph.nodes
      /\ FlowLeads(flowRun.at) /\ Len(flowPath) < flowRun.step /\ flowRun.outcome # "result"
  BY <1>1 DEF FlowInv, FlowPosted, FlowWrote, FlowWalked
<1>3. PICK more \in Nat : more = flowRun.try + 1
  BY FlowTypes
<1>4. flowRun' = [flowRun EXCEPT !.pc = "post", !.try = more]
  BY <1>1, <1>3, FlowHolds DEF FlowRunType
<1>5. /\ flowRun' \in FlowRunType /\ flowRun'.pc = "post" /\ flowRun'.step = flowRun.step /\ flowRun'.at = flowRun.at
      /\ flowRun'.outcome = flowRun.outcome /\ flowRun'.attempt = flowRun.attempt /\ flowRun'.try = more
  BY <1>4, FlowHolds DEF FlowRunType, Flow!PCs
<1>6. flowRun.step <= flowRun'.step /\ flowRun'.try \in 1..FlowRounds
  BY <1>2, <1>3, <1>5, FlowHolds
<1>7. FlowBefore' = FlowBefore /\ FlowRounds' = FlowRounds /\ FlowBefore \in Int
  <2>1. FlowBefore' = FlowBefore /\ FlowRounds' = FlowRounds
    BY <1>1, <1>5 DEF FlowBefore, FlowRounds
  <2>2. flowRun.attempt \in Nat /\ flowGraph.nodeRetries \in Nat /\ FlowRounds \in Nat /\ 1 <= flowRun.attempt
        /\ flowRun.attempt <= flowGraph.nodeRetries
    BY <1>2, FlowTypes
  <2>3. FlowBefore \in Nat
    BY <2>2, FlowProducts DEF FlowBefore
  <2> QED
    BY <2>1, <2>3
<1>8. flowPosts' <= FlowBefore' + flowRun'.try - 1
  BY <1>1, <1>2, <1>3, <1>5, <1>7, FlowHolds
<1>9. (flowPosts <= flowGraph.nodeRetries * FlowRounds)'
  BY <1>1, <1>7, FlowHolds
<1>10. FlowPosted' /\ FlowShut'
  BY <1>1, <1>2, <1>5, <1>6, <1>7, <1>8, <1>9 DEF FlowPosted, FlowShut
<1> QED
  BY <1>1, <1>2, <1>5, <1>6, <1>10, FlowMoves, FlowHolds

LEMMA FlowInit ==
    ASSUME Flow!Init
    PROVE  FlowInv
<1>1. /\ flowGraph \in FlowBuilds /\ Flow!Accepts(flowGraph) /\ flowPath = << >> /\ flowState = << >> /\ flowPosts = 0
      /\ flowLives = [n \in flowGraph.nodes |-> "new"]
      /\ flowRun = [pc |-> "setup", at |-> Flow!Unset, step |-> 0, attempt |-> 0, try |-> 0, outcome |-> "none"]
  BY DEF Flow!Init
<1>2. FlowTyped
  BY <1>1, FlowAssumption DEF FlowTyped, Flow!PCs, Flow!Outcomes
<1>3. ~FlowWorks /\ ~FlowAsks /\ flowRun.pc = "setup" /\ flowRun.outcome = "none" /\ flowRun.step = 0
  BY <1>1 DEF FlowWorks, FlowAsks
<1>4. FlowWalked
  BY <1>1, <1>3 DEF FlowWalked
<1>5. FlowWrote
  <2>1. Flow!Succeeded = {} /\ Flow!Returned = {}
    BY <1>1 DEF Flow!Succeeded, Flow!Returned
  <2>2. PICK places : places = [i \in Flow!Succeeded |-> 0]
    OBVIOUS
  <2>3. places \in [Flow!Succeeded -> Flow!Returned] /\ Flow!InOrder(places)
    BY <2>1, <2>2 DEF Flow!InOrder
  <2> QED
    BY <1>1, <1>3, <2>3 DEF FlowWrote
<1>6. FlowPosted
  <2>1. flowGraph.nodeRetries \in Nat /\ FlowRounds \in Nat
    BY <1>1, FlowAssumption DEF FlowRounds
  <2>2. flowGraph.nodeRetries * FlowRounds \in Nat
    BY <2>1
  <2> QED
    BY <1>1, <1>3, <2>2 DEF FlowPosted
<1> QED
  BY <1>2, <1>3, <1>4, <1>5, <1>6 DEF FlowInv, FlowShut

LEMMA FlowNext ==
    ASSUME FlowInv, [Flow!Next]_(Flow!vars)
    PROVE  FlowInv'
<1>1. CASE UNCHANGED Flow!vars
  <2>1. UNCHANGED << flowGraph, flowLives, flowRun, flowState, flowPath, flowPosts >>
    BY <1>1 DEF Flow!vars
  <2>2. FlowWorks' = FlowWorks /\ FlowAsks' = FlowAsks
    BY <2>1 DEF FlowWorks, FlowAsks
  <2>3. FlowPosted' /\ FlowShut'
    BY <2>1, <2>2 DEF FlowInv, FlowPosted, FlowShut, FlowRounds, FlowBefore
  <2>4. /\ flowRun.pc = "loop" \/ FlowWorks => FlowLeads(flowRun.at)
        /\ flowRun.pc = "loop" => flowRun.at \in flowGraph.nodes \cup {Flow!END}
        /\ FlowWorks => Len(flowPath) < flowRun.step /\ flowRun.at \in flowGraph.nodes
        /\ flowRun.outcome = "result" =>
             /\ flowRun.pc \in {"shutdown", "ended"} /\ flowRun.at = Flow!END
             /\ flowPath # << >> => FlowLeads(Flow!END)
    BY DEF FlowInv, FlowWalked, FlowLeads
  <2>5. /\ flowRun.pc = "process" => flowRun.at \notin flowGraph.remote
        /\ FlowAsks => flowRun.at \in flowGraph.remote
    BY DEF FlowInv, FlowWrote
  <2>6. flowRun.step <= flowRun'.step
    BY <2>1, FlowHolds
  <2> QED
    BY <2>1, <2>2, <2>3, <2>4, <2>5, <2>6, FlowMoves, FlowHolds
<1>2. CASE Flow!Next
  BY <1>2, FlowSetsUp, FlowShutsDown, FlowStarts, FlowLoops, FlowEnded, FlowCancelled, FlowProcesses, FlowBacksOff, FlowPosts
  DEF Flow!Next
<1> QED
  BY <1>1, <1>2

LEMMA FlowKept ==
    ASSUME FlowInv
    PROVE  Flow!WorkflowsKeepToTheirGraph
<1>1. flowPath # << >> => (Flow!At("loop") => Flow!Follows(Len(flowPath), flowRun.at))
  BY DEF FlowInv, FlowWalked, FlowLeads, Flow!At
<1>2. flowPosts <= flowGraph.nodeRetries * (flowGraph.remoteRetries + 1)
  BY DEF FlowInv, FlowPosted, FlowRounds
<1> QED
  BY <1>1, <1>2 DEF FlowInv, FlowWalked, FlowWrote, FlowShut, Flow!WorkflowsKeepToTheirGraph, Flow!At

\* Of its own behaviours, whatever the graph.
THEOREM WorkflowsAlwaysKeepToTheirGraphAlone == Flow!Spec => []Flow!WorkflowsKeepToTheirGraph
<1>1. Flow!Init => FlowInv
  BY FlowInit
<1>2. FlowInv /\ [Flow!Next]_(Flow!vars) => FlowInv'
  BY FlowNext
<1>3. FlowInv => Flow!WorkflowsKeepToTheirGraph
  BY FlowKept
<1> QED
  BY <1>1, <1>2, <1>3, PTL DEF Flow!Spec

-----------------------------------------------------------------------------
(***************************************************************************)
(* Traces.                                                                 *)
(*                                                                         *)
(* What is open in a collector is the request, the step, its model call    *)
(* and the calls that wait for their answers, and all of those but the     *)
(* request are in the one step (TraceNest).  While the agent is at work    *)
(* there is such a step (TraceBusy), or the next output begins one, in a   *)
(* round that no step is in (TraceFresh).  The step is that of the round,  *)
(* or it has a call of an earlier round that was skipped (TraceFits); what *)
(* is waited for is what is being executed, or was skipped (TraceWaits).   *)
(***************************************************************************)

TraceSpan == [name : {"request", "step", "model", "tool"}, parent : Nat, open : BOOLEAN, round : Nat]

TraceLive ==
    [at : {"queued", "model", "tools", "ending", "collected"}, session : TraceSessions, trace : Traces!Traces,
     stream : BOOLEAN, spans : Seq(TraceSpan), step : Nat, model : Nat, pending : SUBSET [call : TraceCalls, span : Nat],
     fresh : BOOLEAN, said : SUBSET TraceCalls, skipped : SUBSET Nat, rounds : Nat, failed : BOOLEAN]

\* Whether what begins in a round is in its place below the span `up'.
TraceFits(c, up, round) ==
    c.spans[up].round = round \/ \E j \in c.skipped : c.spans[j].parent = up /\ c.spans[j].round < round

TraceTree(c) ==
    /\ 1 \in DOMAIN c.spans /\ c.spans[1].parent = 0 /\ c.skipped \subseteq DOMAIN c.spans
    /\ \A i \in DOMAIN c.spans :
         /\ c.spans[i].name = "request" <=> i = 1
         /\ c.spans[i].name = "step" => c.spans[i].parent = 1
         /\ c.spans[i].round <= c.rounds
         /\ c.spans[i].name \in {"model", "tool"} =>
              /\ c.spans[i].parent \in Traces!Named(c, "step")
              /\ TraceFits(c, c.spans[i].parent, c.spans[i].round)
    /\ \A i, j \in Traces!Named(c, "step") : i # j => c.spans[i].round # c.spans[j].round

TraceOpen(c) ==
    /\ \A i \in DOMAIN c.spans :
         c.spans[i].open => i = 1 \/ i = c.step \/ i = c.model \/ \E p \in c.pending : p.span = i
    /\ c.step # 0 => c.step \in Traces!Named(c, "step") /\ c.spans[c.step].open /\ TraceFits(c, c.step, c.rounds)
    /\ c.model # 0 => c.step # 0 /\ c.model \in Traces!Named(c, "model") /\ c.spans[c.model].parent = c.step
    /\ \A p \in c.pending :
         c.step # 0 /\ p.span \in Traces!Named(c, "tool") /\ c.spans[p.span].parent = c.step /\ c.spans[p.span].open
    /\ \A p, q \in c.pending : p.span = q.span => p.call = q.call

TraceNest(c) == TraceTree(c) /\ TraceOpen(c)

TraceShut(c) == c.step = 0 /\ c.model = 0 /\ c.pending = {}
TraceBehind(c) == \A i \in Traces!Named(c, "step") : c.spans[i].round < c.rounds
TraceBusy(c) == c.step # 0 /\ ~c.fresh
TraceFresh(c) == c.fresh /\ TraceShut(c) /\ TraceBehind(c)
TraceWaits(c) ==
    /\ \A p \in c.pending : p.call \in c.said \/ p.span \in c.skipped
    /\ \A call \in c.said : \E p \in c.pending : p.call = call

\* Whether c and d are the same but for their spans and marks.
TraceAlike(c, d) ==
    /\ d.at = c.at /\ d.session = c.session /\ d.trace = c.trace /\ d.stream = c.stream
    /\ d.said = c.said /\ d.skipped = c.skipped /\ d.rounds = c.rounds /\ d.failed = c.failed

LEMMA TraceSpans ==
    ASSUME NEW c \in TraceLive
    PROVE  /\ Len(c.spans) \in Nat /\ DOMAIN c.spans = 1..Len(c.spans) /\ c.spans \in Seq(TraceSpan)
           /\ \A i \in DOMAIN c.spans : c.spans[i] \in TraceSpan
BY DEF TraceLive

\* Ending spans changes nothing else of them.
LEMMA TraceEnding ==
    ASSUME NEW c \in TraceLive, NEW S, NEW d, d = Traces!Ending(c, S)
    PROVE  /\ d \in TraceLive /\ TraceAlike(c, d) /\ DOMAIN d.spans = DOMAIN c.spans
           /\ d.step = c.step /\ d.model = c.model /\ d.pending = c.pending /\ d.fresh = c.fresh
           /\ \A i \in DOMAIN c.spans :
                /\ d.spans[i].name = c.spans[i].name /\ d.spans[i].parent = c.spans[i].parent
                /\ d.spans[i].round = c.spans[i].round
                /\ d.spans[i].open <=> c.spans[i].open /\ i \notin S
<1>1. PICK spans : spans = [i \in DOMAIN c.spans |-> IF i \in S THEN [c.spans[i] EXCEPT !.open = FALSE] ELSE c.spans[i]]
  OBVIOUS
<1>2. d = [c EXCEPT !.spans = spans]
  BY <1>1 DEF Traces!Ending
<1>3. \A i \in DOMAIN c.spans :
        /\ spans[i] \in TraceSpan
        /\ spans[i].name = c.spans[i].name /\ spans[i].parent = c.spans[i].parent /\ spans[i].round = c.spans[i].round
        /\ spans[i].open <=> c.spans[i].open /\ i \notin S
  <2> SUFFICES ASSUME NEW i \in DOMAIN c.spans
               PROVE  /\ spans[i] \in TraceSpan
                      /\ spans[i].name = c.spans[i].name /\ spans[i].parent = c.spans[i].parent
                      /\ spans[i].round = c.spans[i].round
                      /\ spans[i].open <=> c.spans[i].open /\ i \notin S
    OBVIOUS
  <2>1. c.spans[i] \in TraceSpan
    BY TraceSpans
  <2>2. spans[i] = IF i \in S THEN [c.spans[i] EXCEPT !.open = FALSE] ELSE c.spans[i]
    BY <1>1
  <2> QED
    BY <2>1, <2>2 DEF TraceSpan
<1>4. spans \in Seq(TraceSpan) /\ DOMAIN spans = DOMAIN c.spans
  <2>1. DOMAIN spans = 1..Len(c.spans) /\ Len(c.spans) \in Nat
    BY <1>1, TraceSpans
  <2>2. spans \in [1..Len(c.spans) -> TraceSpan]
    BY <1>1, <1>3, <2>1
  <2>3. spans \in Seq(TraceSpan)
    BY <2>1, <2>2, SeqDef
  <2>4. DOMAIN spans = DOMAIN c.spans
    BY <1>1
  <2> QED
    BY <2>3, <2>4
<1>5. d \in TraceLive /\ d.spans = spans
  BY <1>2, <1>4 DEF TraceLive
<1>6. TraceAlike(c, d) /\ d.step = c.step /\ d.model = c.model /\ d.pending = c.pending /\ d.fresh = c.fresh
  BY <1>2 DEF TraceLive, TraceAlike
<1> QED
  BY <1>3, <1>4, <1>5, <1>6

\* Whether c and d have the same spans, but for which of them are open.
TraceSame(c, d) ==
    /\ DOMAIN d.spans = DOMAIN c.spans
    /\ \A i \in DOMAIN c.spans :
         d.spans[i].name = c.spans[i].name /\ d.spans[i].parent = c.spans[i].parent /\ d.spans[i].round = c.spans[i].round

LEMMA TraceSameNames ==
    ASSUME NEW c, NEW d, TraceSame(c, d)
    PROVE  \A name \in {"step", "model", "tool"} : Traces!Named(d, name) = Traces!Named(c, name)
BY DEF TraceSame, Traces!Named

\* What is in its place stays there.
LEMMA TraceFitsStill ==
    ASSUME NEW c, NEW d, c.skipped \subseteq DOMAIN c.spans, c.skipped \subseteq d.skipped,
           \A i \in DOMAIN c.spans : d.spans[i].parent = c.spans[i].parent /\ d.spans[i].round = c.spans[i].round,
           NEW up \in DOMAIN c.spans, NEW round, TraceFits(c, up, round)
    PROVE  TraceFits(d, up, round)
BY DEF TraceFits

\* The tree of spans is what it was when some have ended.
LEMMA TraceSameTree ==
    ASSUME NEW c, NEW d, c \in TraceLive, d \in TraceLive, TraceTree(c), TraceSame(c, d), c.rounds <= d.rounds,
           c.skipped \subseteq d.skipped, d.skipped \subseteq DOMAIN c.spans
    PROVE  TraceTree(d)
<1>1. \A i \in DOMAIN c.spans : c.spans[i].round \in Nat
  BY TraceSpans DEF TraceSpan
<1>2. \A name : \A i \in Traces!Named(c, name) : i \in DOMAIN c.spans
  BY DEF Traces!Named
<1>3. c.rounds \in Nat /\ d.rounds \in Nat
  BY DEF TraceLive
<1>4. Traces!Named(d, "step") = Traces!Named(c, "step")
  BY TraceSameNames
<1>5. ASSUME NEW up \in DOMAIN c.spans, NEW round, TraceFits(c, up, round) PROVE TraceFits(d, up, round)
  BY <1>5, TraceFitsStill DEF TraceTree, TraceSame
<1> QED
  BY <1>1, <1>2, <1>3, <1>4, <1>5 DEF TraceTree, TraceSame

\* A step begins where none is open.
LEMMA TraceBegins ==
    ASSUME NEW c \in TraceLive, TraceTree(c), TraceShut(c), TraceBehind(c),
           \A i \in DOMAIN c.spans : c.spans[i].open => i = 1,
           NEW d, d = Traces!BeginStep(c)
    PROVE  d \in TraceLive /\ TraceNest(d) /\ TraceBusy(d) /\ TraceAlike(c, d) /\ d.pending = {}
<1> DEFINE n == Len(c.spans)
           s == [name |-> "step", parent |-> 1, open |-> TRUE, round |-> c.rounds]
           m == [name |-> "model", parent |-> n + 1, open |-> TRUE, round |-> c.rounds]
<1>1. n \in Nat /\ DOMAIN c.spans = 1..n /\ c.spans \in Seq(TraceSpan) /\ c.rounds \in Nat /\ n >= 1
      /\ \A i \in 1..n : c.spans[i] \in TraceSpan
  BY TraceSpans DEF TraceLive, TraceTree
<1>2. s \in TraceSpan /\ m \in TraceSpan
  BY <1>1 DEF TraceSpan
<1> DEFINE spans == c.spans \o << s, m >>
<1>3. << s, m >> \in Seq(TraceSpan) /\ Len(<< s, m >>) = 2 /\ << s, m >>[1] = s /\ << s, m >>[2] = m
  BY <1>2
<1>4. /\ spans \in Seq(TraceSpan) /\ Len(spans) = n + 2 /\ spans[n + 1] = s /\ spans[n + 2] = m
      /\ \A i \in 1..n : spans[i] = c.spans[i]
  BY <1>1, <1>3, ConcatProperties
<1>5. DOMAIN spans = 1..(n + 2)
  BY <1>4
<1>6. d = [c EXCEPT !.spans = spans, !.step = n + 1, !.model = n + 2, !.fresh = FALSE]
  <2>1. (n + 1) + 1 = n + 2
    BY <1>1
  <2> QED
    BY <2>1 DEF Traces!BeginStep, Traces!Span
<1>7. s.name = "step" /\ s.parent = 1 /\ s.open /\ s.round = c.rounds
      /\ m.name = "model" /\ m.parent = n + 1 /\ m.open /\ m.round = c.rounds
  OBVIOUS
<1> HIDE DEF s, m, spans
<1>8. PICK step \in Nat : step = n + 1
  BY <1>1
<1>9. PICK model \in Nat : model = n + 2
  BY <1>1
<1> HIDE DEF n
<1>10. d = [c EXCEPT !.spans = spans, !.step = step, !.model = model, !.fresh = FALSE]
  BY <1>6, <1>8, <1>9
<1>11. /\ d \in TraceLive /\ TraceAlike(c, d) /\ d.spans = spans /\ d.step = step /\ d.model = model /\ ~d.fresh
       /\ d.pending = c.pending /\ d.rounds = c.rounds
  <2>1. d \in TraceLive
    BY <1>4, <1>10 DEF TraceLive
  <2>2. /\ d.spans = spans /\ d.step = step /\ d.model = model /\ ~d.fresh
        /\ d.pending = c.pending /\ d.rounds = c.rounds
    BY <1>10 DEF TraceLive
  <2>3. TraceAlike(c, d)
    BY <1>10 DEF TraceLive, TraceAlike
  <2> QED
    BY <2>1, <2>2, <2>3
<1>12. \A i \in DOMAIN spans : i \in DOMAIN c.spans \/ i = step \/ i = model
  BY <1>1, <1>5, <1>8, <1>9
<1>13. /\ step \in DOMAIN spans /\ model \in DOMAIN spans /\ step \notin DOMAIN c.spans /\ model \notin DOMAIN c.spans
       /\ DOMAIN c.spans \subseteq DOMAIN spans /\ step # 1 /\ model # 1 /\ step # 0 /\ step # model
       /\ \A i \in DOMAIN c.spans : spans[i] = c.spans[i]
       /\ spans[step] = s /\ spans[model] = m
  BY <1>1, <1>4, <1>5, <1>8, <1>9
<1>14. /\ Traces!Named(d, "step") = Traces!Named(c, "step") \cup {step}
       /\ Traces!Named(d, "model") = Traces!Named(c, "model") \cup {model}
  BY <1>7, <1>11, <1>12, <1>13 DEF Traces!Named
<1>15. \A i \in Traces!Named(c, "step") : i \in DOMAIN c.spans /\ c.spans[i].round \in Nat /\ c.spans[i].round < c.rounds
  BY <1>1 DEF Traces!Named, TraceBehind, TraceSpan
<1>16. TraceTree(d)
  <2>0. c.skipped \subseteq DOMAIN c.spans /\ d.skipped = c.skipped
    BY <1>11 DEF TraceTree, TraceAlike
  <2>a. ASSUME NEW up \in DOMAIN c.spans, NEW round, TraceFits(c, up, round) PROVE TraceFits(d, up, round)
    BY <1>11, <1>13, <2>0, <2>a, TraceFitsStill
  <2>1. 1 \in DOMAIN d.spans /\ d.spans[1].parent = 0 /\ d.skipped \subseteq DOMAIN d.spans
    BY <1>11, <1>13, <2>0 DEF TraceTree
  <2>2. ASSUME NEW i \in DOMAIN d.spans
        PROVE  /\ d.spans[i].name = "request" <=> i = 1
               /\ d.spans[i].name = "step" => d.spans[i].parent = 1
               /\ d.spans[i].round <= d.rounds
               /\ d.spans[i].name \in {"model", "tool"} =>
                    /\ d.spans[i].parent \in Traces!Named(d, "step")
                    /\ TraceFits(d, d.spans[i].parent, d.spans[i].round)
    <3>1. CASE i \in DOMAIN c.spans
      BY <1>11, <1>13, <1>14, <1>15, <2>a, <3>1 DEF TraceTree
    <3>2. CASE i = step
      BY <1>1, <1>7, <1>11, <1>13, <3>2
    <3>3. CASE i = model
      BY <1>1, <1>7, <1>8, <1>11, <1>13, <1>14, <3>3 DEF TraceFits
    <3> QED
      BY <1>11, <1>12, <3>1, <3>2, <3>3
  <2>3. \A i, j \in Traces!Named(d, "step") : i # j => d.spans[i].round # d.spans[j].round
    <3>1. \A i \in Traces!Named(c, "step") : d.spans[i].round < d.spans[step].round
      BY <1>7, <1>11, <1>13, <1>15
    <3>2. \A i, j \in Traces!Named(c, "step") : i # j => d.spans[i].round # d.spans[j].round
      BY <1>11, <1>13, <1>15 DEF TraceTree
    <3>3. \A i \in Traces!Named(c, "step") : d.spans[i].round # d.spans[step].round
      BY <1>1, <1>7, <1>11, <1>13, <1>15, <3>1
    <3> QED
      BY <1>14, <3>2, <3>3
  <2> QED
    BY <2>1, <2>2, <2>3 DEF TraceTree
<1>17. TraceOpen(d)
  <2>1. \A i \in DOMAIN d.spans : d.spans[i].open => i = 1 \/ i = d.step \/ i = d.model
    BY <1>11, <1>12, <1>13
  <2>2. d.pending = {}
    BY <1>11 DEF TraceShut
  <2>3. d.step \in Traces!Named(d, "step") /\ d.spans[d.step].open /\ TraceFits(d, d.step, d.rounds) /\ d.step # 0
    BY <1>7, <1>11, <1>13, <1>14 DEF TraceFits
  <2>4. d.model \in Traces!Named(d, "model") /\ d.spans[d.model].parent = d.step
    BY <1>7, <1>8, <1>11, <1>13, <1>14
  <2> QED
    BY <2>1, <2>2, <2>3, <2>4 DEF TraceOpen
<1> QED
  BY <1>11, <1>13, <1>16, <1>17 DEF TraceNest, TraceBusy, TraceShut

\* A step that is waited for begins with the next output.
LEMMA TraceHears ==
    ASSUME NEW c \in TraceLive, TraceNest(c), TraceBusy(c) \/ TraceFresh(c), NEW d, d = Traces!Heard(c)
    PROVE  d \in TraceLive /\ TraceNest(d) /\ TraceBusy(d) /\ TraceAlike(c, d) /\ d.pending = c.pending
<1>1. CASE TraceBusy(c)
  <2>1. d = c
    BY <1>1 DEF TraceBusy, Traces!Heard
  <2> QED
    BY <1>1, <2>1 DEF TraceAlike
<1>2. CASE TraceFresh(c)
  <2>1. d = Traces!BeginStep(c) /\ c.pending = {}
    BY <1>2 DEF TraceFresh, TraceShut, Traces!Heard
  <2>2. \A i \in DOMAIN c.spans : i # 0
    BY TraceSpans
  <2>3. \A i \in DOMAIN c.spans : c.spans[i].open => i = 1
    BY <1>2, <2>2 DEF TraceFresh, TraceShut, TraceNest, TraceOpen
  <2> QED
    BY <1>2, <2>1, <2>3, TraceBegins DEF TraceFresh, TraceNest
<1> QED
  BY <1>1, <1>2

\* A call of the model that is not waited for yet is recorded in the step.
LEMMA TraceCalledAnew ==
    ASSUME NEW b \in TraceLive, TraceNest(b), TraceBusy(b) \/ TraceFresh(b), NEW call \in TraceCalls,
           \A p \in b.pending : p.call # call, NEW d, d = Traces!ToolCallDelta(b, call)
    PROVE  /\ d \in TraceLive /\ TraceNest(d) /\ TraceBusy(d) /\ TraceAlike(b, d)
           /\ \E p0 : p0.call = call /\ d.pending = b.pending \cup {p0}
<1>1. PICK c : c = Traces!Heard(b)
  OBVIOUS
<1>2. c \in TraceLive /\ TraceNest(c) /\ TraceBusy(c) /\ TraceAlike(b, c) /\ c.pending = b.pending
  BY <1>1, TraceHears
<1> DEFINE n == Len(c.spans)
           t == [name |-> "tool", parent |-> c.step, open |-> TRUE, round |-> c.rounds]
           p0 == [call |-> call, span |-> n + 1]
<1>3. n \in Nat /\ DOMAIN c.spans = 1..n /\ c.spans \in Seq(TraceSpan) /\ c.rounds \in Nat /\ c.rounds = b.rounds
      /\ \A i \in 1..n : c.spans[i] \in TraceSpan
  BY <1>2, TraceSpans DEF TraceLive, TraceAlike
<1>4. t \in TraceSpan /\ p0 \in [call : TraceCalls, span : Nat]
  BY <1>2, <1>3 DEF TraceSpan, TraceLive
<1> DEFINE spans == Append(c.spans, t)
<1>5. /\ spans \in Seq(TraceSpan) /\ Len(spans) = n + 1 /\ spans[n + 1] = t /\ \A i \in 1..n : spans[i] = c.spans[i]
  BY <1>3, <1>4, AppendProperties
<1>6. DOMAIN spans = 1..(n + 1)
  BY <1>5
<1>7. Traces!Positions(c, {call}) = {}
  BY <1>2 DEF Traces!Positions
<1>8. d = [c EXCEPT !.spans = spans, !.pending = @ \cup {p0}]
  BY <1>1, <1>3, <1>7 DEF Traces!ToolCallDelta, Traces!Span
<1>9. /\ t.name = "tool" /\ t.parent = c.step /\ t.open /\ t.round = c.rounds
      /\ p0.call = call /\ p0.span = n + 1
  OBVIOUS
<1> HIDE DEF t, p0, spans
<1>10. PICK more : more = c.pending \cup {p0}
  OBVIOUS
<1>11. more \in SUBSET [call : TraceCalls, span : Nat]
  BY <1>2, <1>4, <1>10 DEF TraceLive
<1>12. d = [c EXCEPT !.spans = spans, !.pending = more]
  BY <1>2, <1>8, <1>10 DEF TraceLive
<1>13. /\ d \in TraceLive /\ d.spans = spans /\ d.pending = more /\ d.step = c.step /\ d.model = c.model /\ d.fresh = c.fresh
       /\ TraceAlike(c, d) /\ d.rounds = c.rounds
  BY <1>2, <1>5, <1>11, <1>12 DEF TraceLive, TraceAlike
<1>14. PICK new \in Nat : new = n + 1
  BY <1>3
<1>15. /\ new \in DOMAIN spans /\ new \notin DOMAIN c.spans /\ DOMAIN c.spans \subseteq DOMAIN spans
       /\ \A i \in DOMAIN spans : i \in DOMAIN c.spans \/ i = new
       /\ \A i \in DOMAIN c.spans : spans[i] = c.spans[i]
       /\ spans[new] = t
  BY <1>3, <1>5, <1>6, <1>14
<1> HIDE DEF n
<1>16. \A name : name # "tool" => Traces!Named(d, name) = Traces!Named(c, name)
  BY <1>9, <1>13, <1>15 DEF Traces!Named
<1>17. Traces!Named(d, "tool") = Traces!Named(c, "tool") \cup {new}
  BY <1>9, <1>13, <1>15 DEF Traces!Named
<1>18. Traces!Named(c, "step") \subseteq DOMAIN c.spans /\ Traces!Named(c, "model") \subseteq DOMAIN c.spans
       /\ Traces!Named(c, "tool") \subseteq DOMAIN c.spans
  BY DEF Traces!Named
<1>19. c.step \in Traces!Named(c, "step") /\ c.spans[c.step].open /\ TraceFits(c, c.step, c.rounds) /\ c.step # 0
  BY <1>2 DEF TraceNest, TraceOpen, TraceBusy
<1>a. c.skipped \subseteq DOMAIN c.spans /\ d.skipped = c.skipped
  BY <1>2, <1>13 DEF TraceNest, TraceTree, TraceAlike
<1>b. ASSUME NEW up \in DOMAIN c.spans, NEW round, TraceFits(c, up, round) PROVE TraceFits(d, up, round)
  BY <1>13, <1>15, <1>a, <1>b, TraceFitsStill
<1>20. TraceTree(d)
  <2>1. 1 \in DOMAIN c.spans /\ 1 # new /\ c.spans[1].parent = 0
    BY <1>2, <1>15 DEF TraceNest, TraceTree
  <2>2. ASSUME NEW i \in DOMAIN d.spans
        PROVE  /\ d.spans[i].name = "request" <=> i = 1
               /\ d.spans[i].name = "step" => d.spans[i].parent = 1
               /\ d.spans[i].round <= d.rounds
               /\ d.spans[i].name \in {"model", "tool"} =>
                    /\ d.spans[i].parent \in Traces!Named(d, "step")
                    /\ TraceFits(d, d.spans[i].parent, d.spans[i].round)
    <3>1. CASE i \in DOMAIN c.spans
      BY <1>2, <1>13, <1>15, <1>16, <1>18, <1>b, <3>1 DEF TraceNest, TraceTree
    <3>2. CASE i = new
      BY <1>3, <1>9, <1>13, <1>15, <1>16, <1>18, <1>19, <1>b, <2>1, <3>2
    <3> QED
      BY <1>13, <1>15, <3>1, <3>2
  <2>3. \A i, j \in Traces!Named(d, "step") : i # j => d.spans[i].round # d.spans[j].round
    BY <1>2, <1>13, <1>15, <1>16, <1>18 DEF TraceNest, TraceTree
  <2> QED
    BY <1>13, <1>15, <1>a, <2>1, <2>2, <2>3 DEF TraceTree
<1>21. TraceOpen(d)
  <2>1. ASSUME NEW i \in DOMAIN d.spans, d.spans[i].open
        PROVE  i = 1 \/ i = d.step \/ i = d.model \/ \E p \in d.pending : p.span = i
    <3>1. CASE i \in DOMAIN c.spans
      BY <1>2, <1>10, <1>13, <1>15, <2>1, <3>1 DEF TraceNest, TraceOpen
    <3>2. CASE i = new
      BY <1>9, <1>10, <1>13, <1>14, <3>2
    <3> QED
      BY <1>13, <1>15, <3>1, <3>2
  <2>2. d.step # 0 => d.step \in Traces!Named(d, "step") /\ d.spans[d.step].open /\ TraceFits(d, d.step, d.rounds)
    BY <1>13, <1>15, <1>16, <1>18, <1>19, <1>b
  <2>3. d.model # 0 => d.step # 0 /\ d.model \in Traces!Named(d, "model") /\ d.spans[d.model].parent = d.step
    BY <1>2, <1>13, <1>15, <1>16, <1>18 DEF TraceNest, TraceOpen
  <2>4. ASSUME NEW p \in d.pending
        PROVE  d.step # 0 /\ p.span \in Traces!Named(d, "tool") /\ d.spans[p.span].parent = d.step /\ d.spans[p.span].open
    <3>1. CASE p \in c.pending
      BY <1>2, <1>13, <1>15, <1>17, <1>18, <3>1 DEF TraceNest, TraceOpen
    <3>2. CASE p = p0
      BY <1>9, <1>13, <1>14, <1>15, <1>17, <1>19, <3>2
    <3> QED
      BY <1>10, <1>13, <3>1, <3>2
  <2>5. ASSUME NEW p \in d.pending, NEW q \in d.pending, p.span = q.span PROVE p.call = q.call
    <3>1. \A x \in c.pending : x.span \in DOMAIN c.spans
      BY <1>2, <1>18 DEF TraceNest, TraceOpen
    <3>2. \A x \in c.pending : x.span # p0.span
      BY <1>9, <1>14, <1>15, <3>1
    <3>3. \A x, y \in c.pending : x.span = y.span => x.call = y.call
      BY <1>2 DEF TraceNest, TraceOpen
    <3> QED
      BY <1>10, <1>13, <2>5, <3>2, <3>3
  <2> QED
    BY <2>1, <2>2, <2>3, <2>4, <2>5 DEF TraceOpen
<1>22. \E x : x.call = call /\ d.pending = b.pending \cup {x}
  BY <1>2, <1>9, <1>10, <1>13
<1>23. TraceAlike(b, d) /\ TraceBusy(d)
  BY <1>2, <1>13, <1>19 DEF TraceAlike, TraceBusy
<1> QED
  BY <1>13, <1>20, <1>21, <1>22, <1>23 DEF TraceNest

\* So is one with the id of a call that was skipped, which is waited for already.
LEMMA TraceCalled ==
    ASSUME NEW b \in TraceLive, TraceNest(b), TraceBusy(b) \/ TraceFresh(b), NEW call \in TraceCalls,
           TraceWaits(b), NEW d, d = Traces!ToolCallDelta(b, call)
    PROVE  /\ d \in TraceLive /\ TraceNest(d) /\ TraceBusy(d) /\ TraceAlike(b, d)
           /\ \A p \in d.pending : p.call \in b.said \cup {call} \/ p.span \in b.skipped
           /\ \A k \in b.said \cup {call} : \E p \in d.pending : p.call = k
<1>1. CASE \A p \in b.pending : p.call # call
  <2>1. /\ d \in TraceLive /\ TraceNest(d) /\ TraceBusy(d) /\ TraceAlike(b, d)
        /\ \E p0 : p0.call = call /\ d.pending = b.pending \cup {p0}
    BY <1>1, TraceCalledAnew
  <2> QED
    BY <2>1 DEF TraceWaits
<1>2. CASE \E p \in b.pending : p.call = call
  <2>1. PICK c : c = Traces!Heard(b)
    OBVIOUS
  <2>2. c \in TraceLive /\ TraceNest(c) /\ TraceBusy(c) /\ TraceAlike(b, c) /\ c.pending = b.pending
    BY <2>1, TraceHears
  <2>3. Traces!Positions(c, {call}) # {}
    BY <1>2, <2>2 DEF Traces!Positions
  <2>4. d = c
    BY <2>1, <2>3 DEF Traces!ToolCallDelta
  <2> QED
    BY <1>2, <2>2, <2>4 DEF TraceWaits
<1> QED
  BY <1>1, <1>2

\* Open calls are ended, and only `rest' is still waited for.
TraceEnded(c, calls, rest) == [Traces!Ending(c, Traces!Positions(c, calls)) EXCEPT !.pending = rest]

LEMMA TraceCallEnds ==
    ASSUME NEW c, NEW calls, NEW rest, c \in TraceLive, TraceNest(c), rest \subseteq c.pending,
           \A p \in c.pending : p \in rest <=> p.call \notin calls, NEW d, d = TraceEnded(c, calls, rest)
    PROVE  /\ d \in TraceLive /\ TraceNest(d) /\ TraceAlike(c, d)
           /\ d.step = c.step /\ d.model = c.model /\ d.fresh = c.fresh
           /\ d.pending = rest
<1> DEFINE gone == Traces!Positions(c, calls)
<1>e. PICK e : e = Traces!Ending(c, gone)
  OBVIOUS
<1>1. /\ e \in TraceLive /\ TraceAlike(c, e) /\ DOMAIN e.spans = DOMAIN c.spans
      /\ e.step = c.step /\ e.model = c.model /\ e.pending = c.pending /\ e.fresh = c.fresh
      /\ \A i \in DOMAIN c.spans :
           /\ e.spans[i].name = c.spans[i].name /\ e.spans[i].parent = c.spans[i].parent
           /\ e.spans[i].round = c.spans[i].round
           /\ e.spans[i].open <=> c.spans[i].open /\ i \notin gone
  BY <1>e, TraceEnding
<1>2. rest \subseteq c.pending /\ \A p \in c.pending : p \in rest <=> p.call \notin calls
  OBVIOUS
<1>3. rest \in SUBSET [call : TraceCalls, span : Nat] /\ rest \subseteq c.pending
  BY <1>2 DEF TraceLive
<1>4. d = [e EXCEPT !.pending = rest]
  BY <1>e DEF TraceEnded
<1>5. /\ d \in TraceLive /\ d.spans = e.spans /\ d.pending = rest /\ d.step = c.step /\ d.model = c.model /\ d.fresh = c.fresh
      /\ TraceAlike(c, d) /\ d.rounds = c.rounds /\ c.rounds \in Nat
  BY <1>1, <1>3, <1>4 DEF TraceLive, TraceAlike
<1>6. /\ TraceTree(d)
      /\ \A name \in {"step", "model", "tool"} : Traces!Named(d, name) = Traces!Named(c, name)
  <2>1. TraceTree(c) /\ d \in TraceLive /\ c.rounds <= d.rounds /\ c.skipped \subseteq d.skipped /\ d.skipped \subseteq DOMAIN c.spans
    BY <1>5 DEF TraceNest, TraceTree, TraceAlike
  <2>2. TraceSame(c, d)
    BY <1>1, <1>5 DEF TraceSame
  <2>3. TraceTree(d)
    BY <2>1, <2>2, TraceSameTree
  <2> QED
    BY <2>2, <2>3, TraceSameNames
<1>7. \A i \in gone : \E p \in c.pending : p.span = i /\ p.call \in calls
  BY DEF Traces!Positions
<1>8. \A n : Traces!Named(c, n) \subseteq DOMAIN c.spans
  BY DEF Traces!Named
<1>9. \A p \in c.pending : p.call \in calls <=> p.span \in gone
  BY <1>7 DEF Traces!Positions, TraceNest, TraceOpen
<1>10. \A i \in gone : i \in Traces!Named(c, "tool")
  BY <1>7 DEF TraceNest, TraceOpen
<1> HIDE DEF gone
<1>11. TraceOpen(d)
  <2>1. ASSUME NEW i \in DOMAIN d.spans, d.spans[i].open
        PROVE  i = 1 \/ i = d.step \/ i = d.model \/ \E p \in d.pending : p.span = i
    <3>1. i \in DOMAIN c.spans /\ c.spans[i].open /\ i \notin gone
      BY <1>1, <1>5, <2>1
    <3>2. i = 1 \/ i = c.step \/ i = c.model \/ \E p \in c.pending : p.span = i
      BY <3>1 DEF TraceNest, TraceOpen
    <3> QED
      BY <1>2, <1>5, <1>9, <3>1, <3>2
  <2>2. d.step # 0 => d.step \in Traces!Named(d, "step") /\ d.spans[d.step].open /\ TraceFits(d, d.step, d.rounds)
    <3>1. c.step # 0 => c.step \in Traces!Named(c, "step") /\ c.spans[c.step].open /\ TraceFits(c, c.step, c.rounds)
      BY DEF TraceNest, TraceOpen
    <3>3. c.skipped \subseteq DOMAIN c.spans /\ d.skipped = c.skipped
      BY <1>5 DEF TraceNest, TraceTree, TraceAlike
    <3>4. c.step # 0 => TraceFits(d, c.step, c.rounds)
      <4>1. \A i \in DOMAIN c.spans : d.spans[i].parent = c.spans[i].parent /\ d.spans[i].round = c.spans[i].round
        BY <1>1, <1>5
      <4>2. c.step # 0 => c.step \in DOMAIN c.spans
        BY <1>8, <3>1
      <4>3. c.skipped \subseteq d.skipped
        BY <3>3
      <4> QED
        BY <3>1, <3>3, <4>1, <4>2, <4>3, TraceFitsStill
    <3>2. c.step # 0 => c.step \notin gone
      BY <1>10, <3>1 DEF Traces!Named
    <3> QED
      BY <1>1, <1>5, <1>6, <1>8, <3>1, <3>2, <3>4
  <2>3. d.model # 0 => d.step # 0 /\ d.model \in Traces!Named(d, "model") /\ d.spans[d.model].parent = d.step
    BY <1>1, <1>5, <1>6, <1>8 DEF TraceNest, TraceOpen
  <2>4. ASSUME NEW p \in d.pending
        PROVE  d.step # 0 /\ p.span \in Traces!Named(d, "tool") /\ d.spans[p.span].parent = d.step /\ d.spans[p.span].open
    <3>1. p \in c.pending /\ p.call \notin calls
      BY <1>2, <1>5
    <3>2. c.step # 0 /\ p.span \in Traces!Named(c, "tool") /\ c.spans[p.span].parent = c.step /\ c.spans[p.span].open
      BY <3>1 DEF TraceNest, TraceOpen
    <3>3. p.span \notin gone
      BY <1>9, <3>1
    <3> QED
      BY <1>1, <1>5, <1>6, <1>8, <3>2, <3>3
  <2>5. \A p, q \in d.pending : p.span = q.span => p.call = q.call
    BY <1>3, <1>5 DEF TraceNest, TraceOpen
  <2> QED
    BY <2>1, <2>2, <2>3, <2>4, <2>5 DEF TraceOpen
<1> QED
  BY <1>2, <1>5, <1>6, <1>11 DEF TraceNest

\* The end of a step, when no call is waited for.
LEMMA TraceStepEnds ==
    ASSUME NEW c \in TraceLive, TraceNest(c), c.pending = {}, NEW d, d = Traces!EndStep(c)
    PROVE  /\ d \in TraceLive /\ TraceNest(d) /\ TraceAlike(c, d) /\ TraceShut(d) /\ d.fresh = c.fresh
           /\ TraceSame(c, d)
<1>1. PICK e : e = Traces!Ending(c, {c.step, c.model} \ {0})
  OBVIOUS
<1>2. /\ e \in TraceLive /\ TraceAlike(c, e) /\ DOMAIN e.spans = DOMAIN c.spans
      /\ e.step = c.step /\ e.model = c.model /\ e.pending = c.pending /\ e.fresh = c.fresh
      /\ \A i \in DOMAIN c.spans :
           /\ e.spans[i].name = c.spans[i].name /\ e.spans[i].parent = c.spans[i].parent
           /\ e.spans[i].round = c.spans[i].round
           /\ e.spans[i].open <=> c.spans[i].open /\ i \notin {c.step, c.model} \ {0}
  BY <1>1, TraceEnding
<1>3. d = [e EXCEPT !.step = 0, !.model = 0]
  BY <1>1 DEF Traces!EndStep, Traces!None
<1>4. /\ d \in TraceLive /\ d.spans = e.spans /\ d.pending = {} /\ d.step = 0 /\ d.model = 0 /\ d.fresh = c.fresh
      /\ TraceAlike(c, d) /\ d.rounds = c.rounds /\ c.rounds \in Nat
  <2>a. PICK zero \in Nat : zero = 0
    OBVIOUS
  <2>b. d = [e EXCEPT !.step = zero, !.model = zero]
    BY <1>3, <2>a
  <2>0. d \in TraceLive
    BY <1>2, <2>b DEF TraceLive
  <2>1. d \in TraceLive /\ d.spans = e.spans /\ d.pending = e.pending /\ d.step = 0 /\ d.model = 0 /\ d.fresh = e.fresh
    BY <1>2, <1>3, <2>0 DEF TraceLive
  <2>2. TraceAlike(e, d) /\ d.rounds = e.rounds /\ e.rounds \in Nat
    BY <1>2, <1>3 DEF TraceLive, TraceAlike
  <2>3. TraceAlike(c, d)
    BY <1>2, <2>2 DEF TraceAlike
  <2> QED
    BY <1>2, <2>1, <2>2, <2>3 DEF TraceAlike
<1>5. TraceTree(d) /\ TraceSame(c, d)
  <2>1. TraceTree(c) /\ d \in TraceLive /\ c.rounds <= d.rounds /\ c.skipped \subseteq d.skipped /\ d.skipped \subseteq DOMAIN c.spans
    BY <1>4 DEF TraceNest, TraceTree, TraceAlike
  <2>2. TraceSame(c, d)
    BY <1>2, <1>4 DEF TraceSame
  <2> QED
    BY <2>1, <2>2, TraceSameTree
<1>6. TraceOpen(d)
  <2>1. \A i \in DOMAIN c.spans : i # 0
    BY TraceSpans
  <2>2. \A i \in DOMAIN c.spans : c.spans[i].open => i = 1 \/ i = c.step \/ i = c.model
    BY DEF TraceNest, TraceOpen
  <2>3. \A i \in DOMAIN d.spans : d.spans[i].open => i = 1
    BY <1>2, <1>4, <2>1, <2>2
  <2> QED
    BY <1>4, <2>3 DEF TraceOpen
<1> QED
  BY <1>2, <1>4, <1>5, <1>6 DEF TraceNest, TraceShut

TraceGood(c) ==
    /\ c \in TraceLive /\ TraceNest(c)
    /\ c.at \in {"queued", "model", "tools"} =>
         /\ TraceWaits(c) /\ ~c.failed
         /\ TraceBusy(c) \/ (TraceFresh(c) /\ c.at = "model" /\ c.said = {})
    /\ c.at \in {"ending", "collected"} => c.failed \/ TraceShut(c)

TraceGone(c) == c \in [at : {"gone"}, session : TraceSessions, trace : Traces!Traces]

TraceTurn(r, c) == c = Traces!Absent \/ ((TraceGone(c) \/ TraceGood(c)) /\ c.trace \in {Traces!Joined, r})

TraceRow ==
    [kind : {"row"}, session : TraceSessions, started : TraceRequests, failed : BOOLEAN, spans : SUBSET Nat,
     summary : TraceSessions, from : TraceRequests]

\* Row t tells of a request that is over; c is its collector.
TraceTold(t, row, c) ==
    /\ row \in TraceRow /\ TraceGone(c) /\ c.trace = t /\ row.summary = c.session
    /\ row.failed \/ row.spans = {}
    /\ traceBackend = "sqlite" \/ t # Traces!Joined => row.session = c.session /\ row.started = row.from

TraceInv ==
    /\ traceTurn = [r \in TraceRequests |-> traceTurn[r]]
    /\ traceTable = [t \in Traces!Traces |-> traceTable[t]]
    /\ \A r \in TraceRequests : TraceTurn(r, traceTurn[r])
    /\ \A t \in Traces!Traces :
         traceTable[t] = Traces!NoRow \/ TraceTold(t, traceTable[t], traceTurn[traceTable[t].from])

\* A request begins.
LEMMA TraceRequestBegins ==
    ASSUME NEW r \in TraceRequests, NEW session \in TraceSessions, NEW joins \in BOOLEAN, NEW stream \in BOOLEAN,
           NEW c, c = Traces!BeginStep(Traces!Collector(session, IF joins THEN Traces!Joined ELSE r, stream))
    PROVE  TraceGood(c) /\ c.trace \in {Traces!Joined, r}
<1>1. PICK span : span = [name |-> "request", parent |-> 0, open |-> TRUE, round |-> 1]
  OBVIOUS
<1>2. PICK spans : spans = << span >>
  OBVIOUS
<1>3. PICK trace : trace = IF joins THEN Traces!Joined ELSE r
  OBVIOUS
<1>4. PICK b : b = Traces!Collector(session, trace, stream)
  OBVIOUS
<1>5. span \in TraceSpan /\ span.name = "request" /\ span.parent = 0 /\ span.round = 1
  BY <1>1 DEF TraceSpan
<1>6. spans \in Seq(TraceSpan) /\ Len(spans) = 1 /\ DOMAIN spans = 1..1 /\ spans[1] = span
  BY <1>2, <1>5
<1>7. trace \in Traces!Traces /\ trace \in {Traces!Joined, r}
  BY <1>3 DEF Traces!Traces
<1>8. b = [at |-> "queued", session |-> session, trace |-> trace, stream |-> stream, spans |-> spans, step |-> 0,
           model |-> 0, pending |-> {}, fresh |-> FALSE, said |-> {}, skipped |-> {}, rounds |-> 1, failed |-> FALSE]
  BY <1>1, <1>2, <1>4 DEF Traces!Collector, Traces!Span, Traces!None
<1>9. b \in TraceLive
  BY <1>6, <1>7, <1>8 DEF TraceLive
<1>10. \A i \in DOMAIN b.spans : i = 1
  BY <1>6, <1>8
<1>11. Traces!Named(b, "step") = {} /\ TraceShut(b) /\ TraceBehind(b)
  BY <1>5, <1>6, <1>8, <1>10 DEF Traces!Named, TraceShut, TraceBehind
<1>12. TraceTree(b)
  <2>1. 1 \in DOMAIN b.spans /\ b.spans[1].parent = 0 /\ b.spans[1].name = "request"
    BY <1>5, <1>6, <1>8
  <2>2. \A i \in DOMAIN b.spans : b.spans[i].name = "request" /\ i = 1
    BY <1>10, <2>1
  <2>3. b.skipped = {} /\ b.rounds = 1 /\ b.spans[1].round = 1
    BY <1>5, <1>6, <1>8
  <2> QED
    BY <1>11, <2>1, <2>2, <2>3 DEF TraceTree
<1>13. c = Traces!BeginStep(b)
  BY <1>3, <1>4
<1>14. c \in TraceLive /\ TraceNest(c) /\ TraceBusy(c) /\ TraceAlike(b, c) /\ c.pending = {}
  BY <1>9, <1>10, <1>11, <1>12, <1>13, TraceBegins
<1> QED
  BY <1>7, <1>8, <1>14 DEF TraceGood, TraceAlike, TraceWaits

\* A collector only gets other marks that its spans do not depend on.
LEMMA TraceMarked ==
    ASSUME NEW c \in TraceLive, TraceNest(c), NEW d \in TraceLive, d.spans = c.spans, d.step = c.step, d.model = c.model,
           d.pending = c.pending, d.rounds = c.rounds, c.skipped \subseteq d.skipped, d.skipped \subseteq DOMAIN c.spans
    PROVE  TraceNest(d) /\ (TraceShut(c) => TraceShut(d)) /\ (TraceBehind(c) => TraceBehind(d))
<1>1. \A n : Traces!Named(d, n) = Traces!Named(c, n)
  BY DEF Traces!Named
<1>2. TraceTree(d)
  <2>1. TraceTree(c) /\ TraceSame(c, d) /\ c.rounds <= d.rounds
    BY DEF TraceNest, TraceSame, TraceLive
  <2> QED
    BY <2>1, TraceSameTree
<1>3. c.step # 0 => TraceFits(d, d.step, d.rounds)
  BY DEF TraceNest, TraceOpen, TraceFits
<1> QED
  BY <1>1, <1>2, <1>3 DEF TraceNest, TraceOpen, TraceShut, TraceBehind

\* A round ends while calls that were skipped are waited for: their step goes on.
LEMMA TraceRoundEnds ==
    ASSUME NEW c \in TraceLive, TraceNest(c), NEW d \in TraceLive, d.spans = c.spans, d.step = c.step, d.model = c.model,
           d.pending = c.pending, d.rounds = c.rounds + 1, c.skipped \subseteq d.skipped, d.skipped \subseteq DOMAIN c.spans,
           c.pending # {}, \A p \in c.pending : p.span \in d.skipped
    PROVE  TraceNest(d)
<1>1. \A n : Traces!Named(d, n) = Traces!Named(c, n)
  BY DEF Traces!Named
<1>2. c.rounds \in Nat
  BY DEF TraceLive
<1>3. TraceTree(d)
  <2>1. TraceTree(c) /\ TraceSame(c, d) /\ c.rounds <= d.rounds
    BY <1>2 DEF TraceNest, TraceSame
  <2> QED
    BY <2>1, TraceSameTree
<1>4. TraceFits(d, d.step, d.rounds)
  <2>1. PICK p \in c.pending : TRUE
    OBVIOUS
  <2>2. p.span \in Traces!Named(c, "tool") /\ c.spans[p.span].parent = c.step /\ p.span \in d.skipped
    BY DEF TraceNest, TraceOpen
  <2>3. p.span \in DOMAIN c.spans
    BY <2>2 DEF Traces!Named
  <2>4. c.spans[p.span].round <= c.rounds /\ c.spans[p.span].round \in Nat
    BY <2>3, TraceSpans DEF TraceNest, TraceTree, TraceSpan
  <2> QED
    BY <1>2, <2>2, <2>4 DEF TraceFits
<1> QED
  BY <1>1, <1>3, <1>4 DEF TraceNest, TraceOpen

\* An agent is taken.
LEMMA TraceGoesOn ==
    ASSUME NEW c, TraceGood(c), c.at = "queued", NEW d, d = [c EXCEPT !.at = "model"]
    PROVE  TraceGood(d) /\ d.trace = c.trace
<1>1. c \in TraceLive /\ TraceNest(c) /\ TraceWaits(c) /\ ~c.failed /\ TraceBusy(c)
  BY DEF TraceGood
<1>2. /\ d \in TraceLive /\ d.spans = c.spans /\ d.step = c.step /\ d.model = c.model /\ d.pending = c.pending
      /\ d.rounds = c.rounds /\ d.at = "model" /\ d.said = c.said /\ d.failed = c.failed /\ d.fresh = c.fresh
      /\ d.trace = c.trace /\ d.skipped = c.skipped
  BY <1>1 DEF TraceLive
<1>3. c.skipped \subseteq DOMAIN c.spans
  BY <1>1 DEF TraceNest, TraceTree
<1>4. TraceNest(d)
  BY <1>1, <1>2, <1>3, TraceMarked
<1> QED
  BY <1>1, <1>2, <1>4 DEF TraceGood, TraceBusy, TraceWaits

\* The calls that have a name are executed, the others are skipped.
LEMMA TraceExecutes ==
    ASSUME NEW c, TraceGood(c), c.at = "model", c.said # {}, NEW named \in SUBSET c.said, NEW d, d = Traces!Execute(c, named)
    PROVE  TraceGood(d) /\ d.trace = c.trace
<1>1. c \in TraceLive /\ TraceNest(c) /\ TraceWaits(c) /\ ~c.failed /\ TraceBusy(c)
  BY DEF TraceGood
<1>2. c.skipped \subseteq DOMAIN c.spans /\ \A p \in c.pending : p.span \in DOMAIN c.spans
  BY <1>1 DEF TraceNest, TraceTree, TraceOpen, Traces!Named
<1>3. PICK skipped : skipped = c.skipped \cup Traces!Positions(c, c.said \ named)
  OBVIOUS
<1>4. /\ skipped \subseteq DOMAIN c.spans /\ c.skipped \subseteq skipped
      /\ \A p \in c.pending : p.call \in named \/ p.span \in skipped
  BY <1>1, <1>2, <1>3 DEF Traces!Positions, TraceWaits
<1>5. skipped \in SUBSET Nat /\ named \in SUBSET TraceCalls /\ c.rounds \in Nat /\ c.rounds + 1 \in Nat
  BY <1>1, <1>4, TraceSpans DEF TraceLive
<1>6. PICK e : e = [c EXCEPT !.said = named, !.skipped = skipped]
  OBVIOUS
<1>7. d = Traces!GoOn(e)
  BY <1>3, <1>6 DEF Traces!Execute
<1>8. /\ e \in TraceLive /\ e.said = named /\ e.skipped = skipped /\ e.spans = c.spans /\ e.step = c.step
      /\ e.model = c.model /\ e.pending = c.pending /\ e.rounds = c.rounds /\ e.failed = c.failed /\ e.fresh = c.fresh
      /\ e.trace = c.trace
  BY <1>1, <1>5, <1>6 DEF TraceLive
<1>9. CASE named # {}
  <2>1. d = [e EXCEPT !.at = "tools"]
    BY <1>7, <1>8, <1>9 DEF Traces!GoOn
  <2>2. /\ d \in TraceLive /\ d.said = named /\ d.skipped = skipped /\ d.spans = c.spans /\ d.step = c.step
        /\ d.model = c.model /\ d.pending = c.pending /\ d.rounds = c.rounds /\ d.failed = c.failed /\ d.fresh = c.fresh
        /\ d.trace = c.trace /\ d.at = "tools"
    BY <1>8, <2>1 DEF TraceLive
  <2>3. TraceNest(d)
    BY <1>1, <1>4, <2>2, TraceMarked
  <2> QED
    BY <1>1, <1>4, <2>2, <2>3 DEF TraceGood, TraceBusy, TraceWaits
<1>10. CASE named = {}
  <2>1. d = [e EXCEPT !.at = "model", !.rounds = c.rounds + 1]
    BY <1>7, <1>8, <1>10 DEF Traces!GoOn
  <2>a. PICK rounds \in Nat : rounds = c.rounds + 1
    BY <1>5
  <2>b. d = [e EXCEPT !.at = "model", !.rounds = rounds]
    BY <2>1, <2>a
  <2>2. /\ d \in TraceLive /\ d.said = {} /\ d.skipped = skipped /\ d.spans = c.spans /\ d.step = c.step
        /\ d.model = c.model /\ d.pending = c.pending /\ d.rounds = rounds /\ d.failed = c.failed /\ d.fresh = c.fresh
        /\ d.trace = c.trace /\ d.at = "model"
    BY <1>8, <1>10, <2>b DEF TraceLive
  <2>3. c.pending # {} /\ \A p \in c.pending : p.span \in skipped
    BY <1>1, <1>4, <1>10 DEF TraceWaits
  <2>4. TraceNest(d)
    BY <1>1, <1>4, <2>2, <2>3, <2>a, TraceRoundEnds
  <2> QED
    BY <1>1, <2>2, <2>3, <2>4 DEF TraceGood, TraceBusy, TraceWaits
<1> QED
  BY <1>9, <1>10

LEMMA TraceTalks ==
    ASSUME NEW c, TraceGood(c), c.at = "model", NEW d, d = Traces!Heard(c)
    PROVE  TraceGood(d) /\ d.trace = c.trace
<1>1. c \in TraceLive /\ TraceNest(c) /\ TraceWaits(c) /\ ~c.failed /\ (TraceBusy(c) \/ TraceFresh(c))
  BY DEF TraceGood
<1>2. d \in TraceLive /\ TraceNest(d) /\ TraceBusy(d) /\ TraceAlike(c, d) /\ d.pending = c.pending
  BY <1>1, TraceHears
<1> QED
  BY <1>1, <1>2 DEF TraceGood, TraceAlike, TraceWaits

LEMMA TraceCallsTool ==
    ASSUME NEW c, TraceGood(c), c.at = "model", NEW call \in TraceCalls, call \notin c.said,
           NEW d, d = [Traces!ToolCallDelta(c, call) EXCEPT !.said = @ \cup {call}]
    PROVE  TraceGood(d) /\ d.trace = c.trace
<1>1. c \in TraceLive /\ TraceNest(c) /\ TraceWaits(c) /\ ~c.failed /\ (TraceBusy(c) \/ TraceFresh(c))
  BY DEF TraceGood
<1>2. PICK e : e = Traces!ToolCallDelta(c, call)
  OBVIOUS
<1>3. /\ e \in TraceLive /\ TraceNest(e) /\ TraceBusy(e) /\ TraceAlike(c, e)
      /\ \A p \in e.pending : p.call \in c.said \cup {call} \/ p.span \in c.skipped
      /\ \A k \in c.said \cup {call} : \E p \in e.pending : p.call = k
  BY <1>1, <1>2, TraceCalled
<1>4. PICK said \in SUBSET TraceCalls : said = e.said \cup {call}
  BY <1>3 DEF TraceLive
<1>5. d = [e EXCEPT !.said = said]
  BY <1>2, <1>3, <1>4 DEF TraceLive
<1>6. /\ d \in TraceLive /\ d.spans = e.spans /\ d.step = e.step /\ d.model = e.model /\ d.pending = e.pending
      /\ d.rounds = e.rounds /\ d.at = e.at /\ d.said = said /\ d.failed = e.failed /\ d.fresh = e.fresh /\ d.trace = e.trace
      /\ d.skipped = e.skipped
  BY <1>3, <1>5 DEF TraceLive
<1>a. e.skipped \subseteq DOMAIN e.spans
  BY <1>3 DEF TraceNest, TraceTree
<1>7. TraceNest(d)
  BY <1>3, <1>6, <1>a, TraceMarked
<1>8. TraceWaits(d) /\ TraceBusy(d)
  BY <1>3, <1>4, <1>6 DEF TraceAlike, TraceBusy, TraceWaits
<1> QED
  BY <1>1, <1>3, <1>6, <1>7, <1>8 DEF TraceGood, TraceAlike

\* A tool answers.
TraceAnswered(c, call) == Traces!GoOn([Traces!ToolResult(c, call) EXCEPT !.said = @ \ {call}])

LEMMA TraceAnswers ==
    ASSUME NEW c, NEW call, TraceGood(c), c.at = "tools", call \in c.said, NEW d, d = TraceAnswered(c, call)
    PROVE  TraceGood(d) /\ d.trace = c.trace
<1>1. c \in TraceLive /\ TraceNest(c) /\ TraceWaits(c) /\ ~c.failed /\ TraceBusy(c)
  BY DEF TraceGood
<1>2. call \in TraceCalls /\ {call} \in SUBSET TraceCalls /\ c.rounds \in Nat /\ c.skipped \subseteq DOMAIN c.spans
  BY <1>1 DEF TraceLive, TraceNest, TraceTree
<1>3. PICK e : e = Traces!Ending(c, Traces!Positions(c, {call}))
  OBVIOUS
<1>4. PICK rest : rest = {p \in c.pending : p.call # call}
  OBVIOUS
<1>5. PICK f : f = [e EXCEPT !.pending = rest]
  OBVIOUS
<1>a. rest \subseteq c.pending /\ \A p \in c.pending : p \in rest <=> p.call \notin {call}
  BY <1>4
<1>6. /\ f \in TraceLive /\ TraceNest(f) /\ TraceAlike(c, f)
      /\ f.step = c.step /\ f.model = c.model /\ f.fresh = c.fresh /\ f.pending = rest
  <2>1. f = TraceEnded(c, {call}, rest)
    BY <1>3, <1>5 DEF TraceEnded
  <2> QED
    BY <1>1, <1>a, <2>1, TraceCallEnds
<1>b. [e EXCEPT !.pending = {p \in @ : p.call # call}] = f
  <2>1. e \in TraceLive /\ e.pending = c.pending
    BY <1>1, <1>3, TraceEnding
  <2>2. {p \in e.pending : p.call # call} = rest
    BY <1>4, <2>1
  <2> QED
    BY <1>5, <2>1, <2>2 DEF TraceLive
<1>8. PICK said \in SUBSET TraceCalls : said = c.said \ {call}
  BY <1>1 DEF TraceLive
<1>7. /\ \A p \in rest : p.call \in said \/ p.span \in c.skipped
      /\ \A k \in said : \E p \in rest : p.call = k
  BY <1>1, <1>8, <1>a DEF TraceWaits
<1>c. f.skipped = c.skipped /\ f.rounds = c.rounds /\ f.said = c.said /\ f.failed = c.failed /\ f.trace = c.trace
      /\ c.skipped \subseteq DOMAIN f.spans
  BY <1>6 DEF TraceAlike, TraceNest, TraceTree
<1>d. PICK rounds \in Nat : rounds = c.rounds + 1
  BY <1>2
<1>e. f.pending # {} => Traces!ToolResult(c, call) = f
  BY <1>3, <1>6, <1>b DEF Traces!ToolResult
<1>9. CASE said # {}
  <2>1. Traces!ToolResult(c, call) = f
    BY <1>6, <1>7, <1>9, <1>e
  <2>a. PICK h : h = [f EXCEPT !.said = said]
    OBVIOUS
  <2>b. h \in TraceLive /\ h.said = said /\ d = Traces!GoOn(h)
    BY <1>6, <1>8, <1>c, <2>1, <2>a DEF TraceLive, TraceAnswered
  <2>2. d = [h EXCEPT !.at = "tools"]
    BY <1>9, <2>b DEF Traces!GoOn
  <2>3. /\ d \in TraceLive /\ d.spans = f.spans /\ d.step = f.step /\ d.model = f.model /\ d.pending = f.pending
        /\ d.rounds = f.rounds /\ d.at = "tools" /\ d.said = said /\ d.failed = f.failed /\ d.fresh = f.fresh
        /\ d.trace = f.trace /\ d.skipped = f.skipped
    BY <1>6, <2>2, <2>a, <2>b DEF TraceLive
  <2>4. TraceNest(d)
    BY <1>6, <1>c, <2>3, TraceMarked
  <2>5. TraceWaits(d) /\ TraceBusy(d)
    BY <1>1, <1>6, <1>7, <1>c, <2>3 DEF TraceBusy, TraceWaits
  <2> QED
    BY <1>1, <1>c, <2>3, <2>4, <2>5 DEF TraceGood
<1>10. CASE said = {} /\ f.pending = {}
  <2>1. PICK g : g = Traces!EndStep(f)
    OBVIOUS
  <2>2. Traces!ToolResult(c, call) = [g EXCEPT !.fresh = TRUE]
    BY <1>3, <1>6, <1>10, <1>b, <2>1 DEF Traces!ToolResult
  <2>3. /\ g \in TraceLive /\ TraceNest(g) /\ TraceAlike(f, g) /\ TraceShut(g)
    BY <1>6, <1>10, <2>1, TraceStepEnds
  <2>5. g.rounds = c.rounds /\ g.said = c.said /\ g.trace = c.trace /\ g.failed = c.failed /\ g.skipped = c.skipped
    BY <1>c, <2>3 DEF TraceAlike
  <2>a. PICK h : h = [g EXCEPT !.fresh = TRUE, !.said = said]
    OBVIOUS
  <2>b. h \in TraceLive /\ h.said = {} /\ h.rounds = c.rounds /\ d = Traces!GoOn(h)
    BY <1>8, <1>10, <2>2, <2>3, <2>5, <2>a DEF TraceLive, TraceAnswered
  <2>6. d = [h EXCEPT !.at = "model", !.rounds = rounds]
    BY <1>d, <2>b DEF Traces!GoOn
  <2>7. /\ d \in TraceLive /\ d.spans = g.spans /\ d.step = g.step /\ d.model = g.model /\ d.pending = g.pending
        /\ d.rounds = rounds /\ d.at = "model" /\ d.said = said /\ d.failed = g.failed /\ d.fresh /\ d.trace = g.trace
        /\ d.skipped = g.skipped
    BY <2>3, <2>6, <2>a, <2>b DEF TraceLive
  <2>8. TraceTree(d) /\ TraceSame(g, d)
    <3>1. TraceSame(g, d)
      BY <2>7 DEF TraceSame
    <3>2. TraceTree(g) /\ g \in TraceLive /\ d \in TraceLive /\ g.rounds <= d.rounds
          /\ g.skipped \subseteq d.skipped /\ d.skipped \subseteq DOMAIN g.spans
      BY <1>2, <1>d, <2>3, <2>5, <2>7 DEF TraceNest, TraceTree
    <3> QED
      BY <3>1, <3>2, TraceSameTree
  <2>9. TraceShut(d) /\ TraceOpen(d)
    BY <2>3, <2>7 DEF TraceShut, TraceNest, TraceOpen
  <2>10. TraceBehind(d)
    <3> SUFFICES ASSUME NEW i \in Traces!Named(d, "step") PROVE d.spans[i].round < d.rounds
      BY DEF TraceBehind
    <3>1. i \in DOMAIN g.spans /\ g.spans[i].name = "step"
      BY <2>7 DEF Traces!Named
    <3>2. g.spans[i].round <= g.rounds
      BY <2>3, <3>1 DEF TraceNest, TraceTree
    <3>3. g.spans[i].round \in Nat
      BY <2>3, <3>1, TraceSpans DEF TraceSpan
    <3> QED
      BY <1>2, <1>d, <2>5, <2>7, <3>2, <3>3
  <2>11. d.said = {} /\ TraceWaits(d)
    BY <1>10, <2>7, <2>9 DEF TraceShut, TraceWaits
  <2> QED
    BY <1>1, <2>5, <2>7, <2>8, <2>9, <2>10, <2>11 DEF TraceGood, TraceNest, TraceFresh
<1>11. CASE said = {} /\ f.pending # {}
  <2>1. Traces!ToolResult(c, call) = f
    BY <1>11, <1>e
  <2>a. PICK h : h = [f EXCEPT !.said = said]
    OBVIOUS
  <2>b. h \in TraceLive /\ h.said = {} /\ h.rounds = c.rounds /\ d = Traces!GoOn(h)
    BY <1>6, <1>8, <1>11, <1>c, <2>1, <2>a DEF TraceLive, TraceAnswered
  <2>2. d = [h EXCEPT !.at = "model", !.rounds = rounds]
    BY <1>d, <2>b DEF Traces!GoOn
  <2>3. /\ d \in TraceLive /\ d.spans = f.spans /\ d.step = f.step /\ d.model = f.model /\ d.pending = f.pending
        /\ d.rounds = rounds /\ d.at = "model" /\ d.said = {} /\ d.failed = f.failed /\ d.fresh = f.fresh
        /\ d.trace = f.trace /\ d.skipped = f.skipped
    BY <1>6, <1>11, <2>2, <2>a, <2>b DEF TraceLive
  <2>4. \A p \in f.pending : p.span \in d.skipped
    BY <1>6, <1>7, <1>11, <1>c, <2>3
  <2>5. TraceNest(d)
    BY <1>6, <1>11, <1>c, <1>d, <2>3, <2>4, TraceRoundEnds
  <2>6. TraceWaits(d) /\ TraceBusy(d)
    BY <1>1, <1>6, <2>3, <2>4 DEF TraceBusy, TraceWaits
  <2> QED
    BY <1>1, <1>c, <2>3, <2>5, <2>6 DEF TraceGood
<1> QED
  BY <1>9, <1>10, <1>11

\* The agent ends its stream.
LEMMA TraceCompletes ==
    ASSUME NEW c, TraceGood(c), c.at \in {"model", "tools"}, NEW at \in {"ending", "collected"}, NEW d,
           d = [Traces!StreamComplete(c) EXCEPT !.at = at]
    PROVE  TraceGood(d) /\ d.trace = c.trace
<1>1. c \in TraceLive /\ TraceNest(c)
  BY DEF TraceGood
<1>2. PICK e : e = Traces!Ending(c, Traces!Positions(c, TraceCalls))
  OBVIOUS
<1>3. PICK f : f = [e EXCEPT !.pending = {}]
  OBVIOUS
<1>a. {} \subseteq c.pending /\ \A p \in c.pending : p \in {} <=> p.call \notin TraceCalls
  BY <1>1 DEF TraceLive
<1>4. /\ f \in TraceLive /\ TraceNest(f) /\ TraceAlike(c, f)
      /\ f.step = c.step /\ f.model = c.model /\ f.fresh = c.fresh /\ f.pending = {}
  <2>1. f = TraceEnded(c, TraceCalls, {})
    BY <1>2, <1>3 DEF TraceEnded
  <2> QED
    BY <1>1, <1>a, <2>1, TraceCallEnds
<1>6. e \in TraceLive
  BY <1>1, <1>2, TraceEnding
<1>8. PICK g : g = [f EXCEPT !.fresh = FALSE]
  OBVIOUS
<1>9. g = [e EXCEPT !.pending = {}, !.fresh = FALSE]
  BY <1>3, <1>6, <1>8 DEF TraceLive
<1>10. /\ g \in TraceLive /\ g.spans = f.spans /\ g.step = f.step /\ g.model = f.model /\ g.pending = f.pending
       /\ g.rounds = f.rounds /\ g.trace = f.trace /\ g.skipped = f.skipped
  BY <1>4, <1>8 DEF TraceLive
<1>b. f.skipped \subseteq DOMAIN f.spans
  BY <1>4 DEF TraceNest, TraceTree
<1>11. TraceNest(g)
  BY <1>4, <1>10, <1>b, TraceMarked
<1>12. PICK h : h = Traces!EndStep(g)
  OBVIOUS
<1>13. h \in TraceLive /\ TraceNest(h) /\ TraceAlike(g, h) /\ TraceShut(h)
  BY <1>4, <1>10, <1>11, <1>12, TraceStepEnds
<1>14. d = [h EXCEPT !.at = at]
  BY <1>2, <1>9, <1>12 DEF Traces!StreamComplete
<1>15. /\ d \in TraceLive /\ d.spans = h.spans /\ d.step = h.step /\ d.model = h.model /\ d.pending = h.pending
       /\ d.rounds = h.rounds /\ d.at = at /\ d.trace = h.trace /\ d.skipped = h.skipped
  BY <1>13, <1>14 DEF TraceLive
<1>c. h.skipped \subseteq DOMAIN h.spans
  BY <1>13 DEF TraceNest, TraceTree
<1>16. TraceNest(d) /\ TraceShut(d)
  BY <1>13, <1>15, <1>c, TraceMarked
<1>17. d.trace = c.trace
  BY <1>4, <1>10, <1>13, <1>15 DEF TraceAlike
<1> QED
  BY <1>15, <1>16, <1>17 DEF TraceGood

\* The agent raises, the caller of a stream goes away.
LEMMA TraceFails ==
    ASSUME NEW c, TraceGood(c), NEW d, d = [c EXCEPT !.at = "ending", !.failed = TRUE]
    PROVE  TraceGood(d) /\ d.trace = c.trace
<1>1. c \in TraceLive /\ TraceNest(c)
  BY DEF TraceGood
<1>2. /\ d \in TraceLive /\ d.spans = c.spans /\ d.step = c.step /\ d.model = c.model /\ d.pending = c.pending
      /\ d.rounds = c.rounds /\ d.at = "ending" /\ d.failed /\ d.trace = c.trace /\ d.skipped = c.skipped
      /\ c.skipped \subseteq DOMAIN c.spans
  BY <1>1 DEF TraceLive, TraceNest, TraceTree
<1>3. TraceNest(d)
  BY <1>1, <1>2, TraceMarked
<1> QED
  BY <1>2, <1>3 DEF TraceGood

LEMMA TraceIsGone ==
    ASSUME NEW c \in TraceLive, NEW d, d = Traces!Gone(c)
    PROVE  TraceGone(d) /\ d.trace = c.trace /\ d.session = c.session
BY DEF TraceLive, TraceGone, Traces!Gone

\* The row of a request that has ended.
LEMMA TraceRows ==
    ASSUME NEW c, TraceGood(c), c.at \in {"ending", "collected"}, NEW r \in TraceRequests, NEW e, e = Traces!Ending(c, {1}),
           NEW row, row = Traces!Row(e, r)
    PROVE  /\ row \in TraceRow /\ row.session = c.session /\ row.summary = c.session /\ row.started = r /\ row.from = r
           /\ row.failed \/ row.spans = {}
           /\ e \in TraceLive /\ e.trace = c.trace /\ e.session = c.session
<1>1. c \in TraceLive /\ TraceNest(c) /\ (c.failed \/ TraceShut(c))
  BY DEF TraceGood
<1>2. /\ e \in TraceLive /\ TraceAlike(c, e) /\ DOMAIN e.spans = DOMAIN c.spans
      /\ \A i \in DOMAIN c.spans : e.spans[i].open <=> c.spans[i].open /\ i \notin {1}
  BY <1>1, TraceEnding
<1>3. \A i \in DOMAIN c.spans : i \in Nat /\ i # 0
  BY <1>1, TraceSpans
<1>4. row = [kind |-> "row", session |-> e.session, started |-> r, failed |-> e.failed,
             spans |-> {i \in DOMAIN e.spans : e.spans[i].open}, summary |-> e.session, from |-> r]
  BY DEF Traces!Row
<1>5. TraceShut(c) => {i \in DOMAIN e.spans : e.spans[i].open} = {}
  BY <1>1, <1>2, <1>3 DEF TraceShut, TraceNest, TraceOpen
<1>6. e.session \in TraceSessions /\ e.failed \in BOOLEAN /\ e.session = c.session /\ e.failed = c.failed /\ e.trace = c.trace
  BY <1>2 DEF TraceLive, TraceAlike
<1>7. {i \in DOMAIN e.spans : e.spans[i].open} \in SUBSET Nat
  BY <1>2, <1>3
<1>8. row \in TraceRow
  BY <1>4, <1>6, <1>7 DEF TraceRow
<1>9. row.failed \/ row.spans = {}
  BY <1>1, <1>4, <1>5, <1>6
<1> QED
  BY <1>2, <1>4, <1>6, <1>8, <1>9

-----------------------------------------------------------------------------
LEMMA TraceInit ==
    ASSUME Traces!Init
    PROVE  TraceInv
<1>1. traceTurn = [r \in TraceRequests |-> Traces!Absent] /\ traceTable = [t \in Traces!Traces |-> Traces!NoRow]
  BY DEF Traces!Init
<1> QED
  BY <1>1 DEF TraceInv, TraceTurn

LEMMA TraceDifferent ==
    /\ \A c : TraceGood(c) \/ TraceGone(c) => c # Traces!Absent
    /\ \A c : TraceGood(c) => ~TraceGone(c)
    /\ Traces!Absent.at = "absent"
    /\ \A c : TraceGone(c) => c.at = "gone"
    /\ \A c : TraceGood(c) => c.at \in {"queued", "model", "tools", "ending", "collected"}
    /\ \A row : row \in TraceRow => row # Traces!NoRow
<1>1. Traces!Absent.at = "absent" /\ Traces!NoRow.kind = "none"
  BY DEF Traces!Absent, Traces!NoRow
<1>2. \A c : TraceGone(c) => c.at = "gone"
  BY DEF TraceGone
<1>3. \A c : TraceGood(c) => c.at \in {"queued", "model", "tools", "ending", "collected"}
  BY DEF TraceGood, TraceLive
<1>4. \A row : row \in TraceRow => row.kind = "row"
  BY DEF TraceRow
<1> QED
  BY <1>1, <1>2, <1>3, <1>4

\* The turn of one request moves on, the table stays.
LEMMA TraceMoves ==
    ASSUME TraceInv, NEW r \in TraceRequests, NEW d, traceTurn' = [traceTurn EXCEPT ![r] = d], TraceTurn(r, d),
           ~TraceGone(traceTurn[r]), UNCHANGED << traceBackend, traceTable >>
    PROVE  TraceInv'
<1>1. traceTurn = [q \in TraceRequests |-> traceTurn[q]] /\ traceTable = [t \in Traces!Traces |-> traceTable[t]]
      /\ \A q \in TraceRequests : TraceTurn(q, traceTurn[q])
      /\ \A t \in Traces!Traces :
           traceTable[t] = Traces!NoRow \/ TraceTold(t, traceTable[t], traceTurn[traceTable[t].from])
  BY DEF TraceInv
<1>2. /\ traceTurn' = [q \in TraceRequests |-> traceTurn'[q]] /\ traceTurn'[r] = d
      /\ \A q \in TraceRequests : q # r => traceTurn'[q] = traceTurn[q]
  BY <1>1
<1>3. \A q \in TraceRequests : TraceTurn(q, traceTurn[q])'
  BY <1>1, <1>2 DEF TraceTurn
<1>4. ASSUME NEW t \in Traces!Traces
      PROVE  traceTable'[t] = Traces!NoRow \/ TraceTold(t, traceTable[t], traceTurn[traceTable[t].from])'
  <2>1. CASE traceTable[t] # Traces!NoRow
    <3>1. TraceTold(t, traceTable[t], traceTurn[traceTable[t].from])
      BY <1>1, <2>1
    <3>2. traceTable[t].from \in TraceRequests /\ traceTable[t].from # r
      BY <3>1 DEF TraceTold, TraceRow
    <3>3. traceTurn'[traceTable'[t].from] = traceTurn[traceTable[t].from] /\ traceTable'[t] = traceTable[t]
      BY <1>2, <3>2
    <3> QED
      BY <3>1, <3>3 DEF TraceTold
  <2> QED
    BY <2>1
<1> QED
  BY <1>1, <1>2, <1>3, <1>4 DEF TraceInv

\* A request whose collector is gone is told of.
LEMMA TraceEndsRequest ==
    ASSUME TraceInv, NEW r \in TraceRequests, Traces!EndRequest(r)
    PROVE  TraceInv'
<1>1. /\ traceTurn = [q \in TraceRequests |-> traceTurn[q]] /\ traceTable = [t \in Traces!Traces |-> traceTable[t]]
      /\ \A q \in TraceRequests : TraceTurn(q, traceTurn[q])
      /\ \A t \in Traces!Traces :
           traceTable[t] = Traces!NoRow \/ TraceTold(t, traceTable[t], traceTurn[traceTable[t].from])
  BY DEF TraceInv
<1>2. PICK c : c = traceTurn[r]
  OBVIOUS
<1>3. c.at \in {"ending", "collected"} /\ TraceGood(c) /\ c.trace \in {Traces!Joined, r}
  BY <1>1, <1>2, TraceDifferent DEF Traces!EndRequest, TraceTurn
<1>4. PICK e : e = Traces!Ending(c, {1})
  OBVIOUS
<1>5. PICK row : row = Traces!Row(e, r)
  OBVIOUS
<1>6. /\ row \in TraceRow /\ row.session = c.session /\ row.summary = c.session /\ row.started = r /\ row.from = r
      /\ row.failed \/ row.spans = {}
      /\ e \in TraceLive /\ e.trace = c.trace /\ e.session = c.session
  BY <1>3, <1>4, <1>5, TraceRows
<1>7. PICK d : d = Traces!Gone(e)
  OBVIOUS
<1>8. TraceGone(d) /\ d.trace = c.trace /\ d.session = c.session
  BY <1>6, <1>7, TraceIsGone
<1>9. /\ traceTurn' = [traceTurn EXCEPT ![r] = d] /\ UNCHANGED traceBackend
      /\ \/ traceTable' = [traceTable EXCEPT ![e.trace] = Traces!Saved(@, row)]
         \/ UNCHANGED traceTable
  BY <1>2, <1>4, <1>5, <1>7 DEF Traces!EndRequest
<1>10. TraceTurn(r, d)
  BY <1>3, <1>8 DEF TraceTurn
<1>11. ~TraceGone(traceTurn[r])
  BY <1>2, <1>3, TraceDifferent
<1>12. CASE UNCHANGED traceTable
  BY <1>9, <1>10, <1>11, <1>12, TraceMoves
<1>13. CASE traceTable' = [traceTable EXCEPT ![e.trace] = Traces!Saved(@, row)]
  <2>1. c.trace \in Traces!Traces
    BY <1>3 DEF TraceGood, TraceLive
  <2>2. PICK old : old = traceTable[c.trace]
    OBVIOUS
  <2>3. PICK new : new = Traces!Saved(old, row)
    OBVIOUS
  <2>4. traceTable' = [traceTable EXCEPT ![c.trace] = new]
    BY <1>1, <1>6, <1>13, <2>1, <2>2, <2>3
  <2>5. /\ traceTable' = [t \in Traces!Traces |-> traceTable'[t]] /\ traceTable'[c.trace] = new
        /\ \A t \in Traces!Traces : t # c.trace => traceTable'[t] = traceTable[t]
    BY <1>1, <2>1, <2>4
  <2>6. /\ traceTurn' = [q \in TraceRequests |-> traceTurn'[q]] /\ traceTurn'[r] = d
        /\ \A q \in TraceRequests : q # r => traceTurn'[q] = traceTurn[q]
    BY <1>1, <1>9
  <2>7. \A q \in TraceRequests : TraceTurn(q, traceTurn[q])'
    BY <1>1, <1>10, <2>6 DEF TraceTurn
  <2>8. TraceTold(c.trace, new, d)' /\ new.from = r
    <3>1. CASE traceBackend = "postgres" /\ old # Traces!NoRow
      <4>1. new = [row EXCEPT !.session = old.session, !.started = old.started]
        BY <2>3, <3>1 DEF Traces!Saved
      <4>2. TraceTold(c.trace, old, traceTurn[old.from])
        BY <1>1, <2>1, <2>2, <3>1
      <4>3. old.session \in TraceSessions /\ old.started \in TraceRequests
        BY <4>2 DEF TraceTold, TraceRow
      <4>4. new \in TraceRow
        BY <1>6, <4>1, <4>3 DEF TraceRow
      <4>5. /\ new.from = row.from /\ new.summary = row.summary /\ new.failed = row.failed /\ new.spans = row.spans
            /\ new.session = old.session /\ new.started = old.started
        BY <1>6, <4>1, <4>4 DEF TraceRow
      <4>6. c.trace = Traces!Joined
        <5>1. SUFFICES ASSUME c.trace # Traces!Joined PROVE FALSE
          OBVIOUS
        <5>2. c.trace = r
          BY <1>3, <5>1
        <5>3. TraceGone(traceTurn[old.from]) /\ traceTurn[old.from].trace = r /\ old.from \in TraceRequests
          BY <4>2, <5>2 DEF TraceTold, TraceRow
        <5>4. traceTurn[old.from].trace \in {Traces!Joined, old.from}
          BY <1>1, <5>3, TraceDifferent DEF TraceTurn
        <5>5. old.from = r
          BY <5>1, <5>2, <5>3, <5>4
        <5> QED
          BY <1>11, <5>3, <5>5
      <4>7. traceBackend' # "sqlite"
        BY <1>9, <3>1
      <4> QED
        BY <1>6, <1>8, <4>4, <4>5, <4>6, <4>7 DEF TraceTold
    <3>2. CASE ~(traceBackend = "postgres" /\ old # Traces!NoRow)
      <4>1. new = row
        BY <2>3, <3>2 DEF Traces!Saved
      <4> QED
        BY <1>6, <1>8, <4>1 DEF TraceTold
    <3> QED
      BY <3>1, <3>2
  <2>9. ASSUME NEW t \in Traces!Traces
        PROVE  traceTable'[t] = Traces!NoRow \/ TraceTold(t, traceTable[t], traceTurn[traceTable[t].from])'
    <3>1. CASE t = c.trace
      <4>1. traceTable'[t] = new /\ traceTurn'[traceTable'[t].from] = d
        BY <2>5, <2>6, <2>8, <3>1
      <4> QED
        BY <2>8, <3>1, <4>1 DEF TraceTold
    <3>2. CASE t # c.trace /\ traceTable[t] # Traces!NoRow
      <4>1. TraceTold(t, traceTable[t], traceTurn[traceTable[t].from])
        BY <1>1, <3>2
      <4>2. traceTable[t].from \in TraceRequests /\ traceTable[t].from # r
        BY <1>11, <4>1 DEF TraceTold, TraceRow
      <4>3. traceTurn'[traceTable'[t].from] = traceTurn[traceTable[t].from] /\ traceTable'[t] = traceTable[t]
        BY <2>5, <2>6, <3>2, <4>2
      <4> QED
        BY <1>9, <4>1, <4>3 DEF TraceTold
    <3>3. CASE t # c.trace /\ traceTable[t] = Traces!NoRow
      BY <2>5, <3>3
    <3> QED
      BY <3>1, <3>2, <3>3
  <2> QED
    BY <2>5, <2>6, <2>7, <2>9 DEF TraceInv
<1> QED
  BY <1>9, <1>12, <1>13

LEMMA TraceForgets ==
    ASSUME TraceInv, NEW cutoff, Traces!DeleteBefore(cutoff)
    PROVE  TraceInv'
<1>1. /\ \A t \in Traces!Traces : traceTable'[t] = Traces!NoRow \/ traceTable'[t] = traceTable[t]
      /\ traceTable' = [t \in Traces!Traces |-> traceTable'[t]] /\ UNCHANGED << traceBackend, traceTurn >>
  BY DEF Traces!DeleteBefore
<1>2. ASSUME NEW t \in Traces!Traces
      PROVE  traceTable'[t] = Traces!NoRow \/ TraceTold(t, traceTable[t], traceTurn[traceTable[t].from])'
  <2>1. CASE traceTable'[t] = traceTable[t] /\ traceTable[t] # Traces!NoRow
    <3>1. TraceTold(t, traceTable[t], traceTurn[traceTable[t].from])
      BY <2>1 DEF TraceInv
    <3> QED
      BY <1>1, <2>1, <3>1 DEF TraceTold
  <2> QED
    BY <1>1, <2>1
<1>3. \A q \in TraceRequests : TraceTurn(q, traceTurn[q])'
  BY <1>1 DEF TraceInv, TraceTurn
<1> QED
  BY <1>1, <1>2, <1>3 DEF TraceInv

\* A request is as good as its state says.
LEMMA TraceIsGood ==
    ASSUME TraceInv, NEW r \in TraceRequests, traceTurn[r].at \in {"queued", "model", "tools", "ending", "collected"}
    PROVE  TraceGood(traceTurn[r]) /\ traceTurn[r].trace \in {Traces!Joined, r} /\ ~TraceGone(traceTurn[r])
<1>1. TraceTurn(r, traceTurn[r])
  BY DEF TraceInv
<1> QED
  BY <1>1, TraceDifferent DEF TraceTurn

LEMMA TraceBeginStep ==
    ASSUME TraceInv, NEW r \in TraceRequests, NEW session \in TraceSessions, NEW joins \in BOOLEAN, NEW stream \in BOOLEAN,
           Traces!Begin(r, session, joins, stream)
    PROVE  TraceInv'
<1>1. PICK d : d = Traces!BeginStep(Traces!Collector(session, IF joins THEN Traces!Joined ELSE r, stream))
  OBVIOUS
<1>2. traceTurn' = [traceTurn EXCEPT ![r] = d] /\ UNCHANGED << traceBackend, traceTable >> /\ traceTurn[r] = Traces!Absent
  BY <1>1 DEF Traces!Begin
<1>3. TraceTurn(r, d)
  BY <1>1, TraceRequestBegins DEF TraceTurn
<1>4. ~TraceGone(traceTurn[r])
  BY <1>2, TraceDifferent
<1> QED
  BY <1>2, <1>3, <1>4, TraceMoves

LEMMA TraceTakeStep ==
    ASSUME TraceInv, NEW r \in TraceRequests, Traces!TakeAgent(r)
    PROVE  TraceInv'
<1>1. PICK c : c = traceTurn[r]
  OBVIOUS
<1>2. PICK d : d = [c EXCEPT !.at = "model"]
  OBVIOUS
<1>3. traceTurn' = [traceTurn EXCEPT ![r] = d] /\ UNCHANGED << traceBackend, traceTable >> /\ c.at = "queued"
  BY <1>1, <1>2 DEF Traces!TakeAgent
<1>4. TraceGood(c) /\ c.trace \in {Traces!Joined, r} /\ ~TraceGone(c)
  BY <1>1, <1>3, TraceIsGood
<1>5. TraceGood(d) /\ d.trace = c.trace
  BY <1>2, <1>3, <1>4, TraceGoesOn
<1>6. TraceTurn(r, d) /\ ~TraceGone(traceTurn[r])
  BY <1>1, <1>4, <1>5 DEF TraceTurn
<1> QED
  BY <1>3, <1>6, TraceMoves

LEMMA TraceRunStep ==
    ASSUME TraceInv, NEW r \in TraceRequests, Traces!RunTools(r)
    PROVE  TraceInv'
<1>1. PICK c : c = traceTurn[r]
  OBVIOUS
<1>2. PICK named \in SUBSET c.said :
        /\ traceTurn' = [traceTurn EXCEPT ![r] = Traces!Execute(c, named)]
        /\ UNCHANGED << traceBackend, traceTable >> /\ c.at = "model" /\ c.said # {}
  BY <1>1 DEF Traces!RunTools
<1>3. PICK d : d = Traces!Execute(c, named)
  OBVIOUS
<1>4. TraceGood(c) /\ c.trace \in {Traces!Joined, r} /\ ~TraceGone(c)
  BY <1>1, <1>2, TraceIsGood
<1>5. TraceGood(d) /\ d.trace = c.trace
  BY <1>2, <1>3, <1>4, TraceExecutes
<1>6. TraceTurn(r, d) /\ ~TraceGone(traceTurn[r])
  BY <1>1, <1>4, <1>5 DEF TraceTurn
<1> QED
  BY <1>2, <1>3, <1>6, TraceMoves

LEMMA TraceTalkStep ==
    ASSUME TraceInv, NEW r \in TraceRequests, Traces!Talk(r)
    PROVE  TraceInv'
<1>1. PICK d : d = Traces!Heard(traceTurn[r])
  OBVIOUS
<1>2. traceTurn' = [traceTurn EXCEPT ![r] = d] /\ UNCHANGED << traceBackend, traceTable >> /\ traceTurn[r].at = "model"
  BY <1>1 DEF Traces!Talk, TraceInv
<1>3. TraceGood(traceTurn[r]) /\ traceTurn[r].trace \in {Traces!Joined, r} /\ ~TraceGone(traceTurn[r])
  BY <1>2, TraceIsGood
<1>4. TraceGood(d) /\ d.trace = traceTurn[r].trace
  BY <1>1, <1>2, <1>3, TraceTalks
<1>5. TraceTurn(r, d)
  BY <1>3, <1>4 DEF TraceTurn
<1> QED
  BY <1>2, <1>3, <1>5, TraceMoves

LEMMA TraceCallStep ==
    ASSUME TraceInv, NEW r \in TraceRequests, NEW call \in TraceCalls, Traces!CallTool(r, call)
    PROVE  TraceInv'
<1>1. PICK c : c = traceTurn[r]
  OBVIOUS
<1>2. PICK d : d = [Traces!ToolCallDelta(c, call) EXCEPT !.said = @ \cup {call}]
  OBVIOUS
<1>3. /\ traceTurn' = [traceTurn EXCEPT ![r] = d] /\ UNCHANGED << traceBackend, traceTable >>
      /\ c.at = "model" /\ call \notin c.said
  BY <1>1, <1>2 DEF Traces!CallTool
<1>4. TraceGood(c) /\ c.trace \in {Traces!Joined, r} /\ ~TraceGone(c)
  BY <1>1, <1>3, TraceIsGood
<1>5. TraceGood(d) /\ d.trace = c.trace
  BY <1>2, <1>3, <1>4, TraceCallsTool
<1>6. TraceTurn(r, d) /\ ~TraceGone(traceTurn[r])
  BY <1>1, <1>4, <1>5 DEF TraceTurn
<1> QED
  BY <1>3, <1>6, TraceMoves

LEMMA TraceAnswerStep ==
    ASSUME TraceInv, NEW r \in TraceRequests, NEW call \in TraceCalls, Traces!Answer(r, call)
    PROVE  TraceInv'
<1>1. PICK c : c = traceTurn[r]
  OBVIOUS
<1>3. PICK d : d = TraceAnswered(c, call)
  OBVIOUS
<1>4. /\ traceTurn' = [traceTurn EXCEPT ![r] = d] /\ UNCHANGED << traceBackend, traceTable >>
      /\ c.at = "tools" /\ call \in c.said
  BY <1>1, <1>3 DEF Traces!Answer, TraceAnswered
<1>5. TraceGood(c) /\ c.trace \in {Traces!Joined, r} /\ ~TraceGone(c)
  BY <1>1, <1>4, TraceIsGood
<1>6. TraceGood(d) /\ d.trace = c.trace
  BY <1>3, <1>4, <1>5, TraceAnswers
<1>7. TraceTurn(r, d) /\ ~TraceGone(traceTurn[r])
  BY <1>1, <1>5, <1>6 DEF TraceTurn
<1> QED
  BY <1>4, <1>7, TraceMoves

LEMMA TraceCompleteStep ==
    ASSUME TraceInv, NEW r \in TraceRequests, Traces!Complete(r)
    PROVE  TraceInv'
<1>1. PICK c : c = traceTurn[r]
  OBVIOUS
<1>2. PICK at \in {"ending", "collected"} : at = IF c.stream THEN "ending" ELSE "collected"
  OBVIOUS
<1>3. PICK d : d = [Traces!StreamComplete(c) EXCEPT !.at = at]
  OBVIOUS
<1>4. traceTurn' = [traceTurn EXCEPT ![r] = d] /\ UNCHANGED << traceBackend, traceTable >> /\ c.at \in {"model", "tools"}
  BY <1>1, <1>2, <1>3 DEF Traces!Complete, TraceInv
<1>5. TraceGood(c) /\ c.trace \in {Traces!Joined, r} /\ ~TraceGone(c)
  BY <1>1, <1>4, TraceIsGood
<1>6. TraceGood(d) /\ d.trace = c.trace
  BY <1>3, <1>4, <1>5, TraceCompletes
<1>7. TraceTurn(r, d) /\ ~TraceGone(traceTurn[r])
  BY <1>1, <1>5, <1>6 DEF TraceTurn
<1> QED
  BY <1>4, <1>7, TraceMoves

LEMMA TraceFailStep ==
    ASSUME TraceInv, NEW r \in TraceRequests, Traces!Raise(r) \/ Traces!Disconnect(r)
    PROVE  TraceInv'
<1>1. PICK c : c = traceTurn[r]
  OBVIOUS
<1>2. /\ UNCHANGED << traceBackend, traceTable >>
      /\ c.at \in {"queued", "model", "tools", "ending", "collected"}
      /\ \/ traceTurn' = [traceTurn EXCEPT ![r] = [c EXCEPT !.at = "ending", !.failed = TRUE]]
         \/ traceTurn' = [traceTurn EXCEPT ![r] = Traces!Gone(c)]
  <2>1. CASE Traces!Raise(r) /\ c.stream
    BY <1>1, <2>1 DEF Traces!Raise, TraceInv
  <2>2. CASE Traces!Raise(r) /\ ~c.stream
    BY <1>1, <2>2 DEF Traces!Raise, TraceInv
  <2>3. CASE Traces!Disconnect(r)
    BY <1>1, <2>3 DEF Traces!Disconnect, TraceInv
  <2> QED
    BY <2>1, <2>2, <2>3
<1>3. TraceGood(c) /\ c.trace \in {Traces!Joined, r} /\ ~TraceGone(c)
  BY <1>1, <1>2, TraceIsGood
<1>4. CASE traceTurn' = [traceTurn EXCEPT ![r] = [c EXCEPT !.at = "ending", !.failed = TRUE]]
  <2>1. PICK d : d = [c EXCEPT !.at = "ending", !.failed = TRUE]
    OBVIOUS
  <2>2. TraceGood(d) /\ d.trace = c.trace
    BY <1>3, <2>1, TraceFails
  <2>3. TraceTurn(r, d) /\ ~TraceGone(traceTurn[r])
    BY <1>1, <1>3, <2>2 DEF TraceTurn
  <2>4. traceTurn' = [traceTurn EXCEPT ![r] = d]
    BY <1>4, <2>1
  <2> QED
    BY <1>2, <2>3, <2>4, TraceMoves
<1>5. CASE traceTurn' = [traceTurn EXCEPT ![r] = Traces!Gone(c)]
  <2>1. PICK d : d = Traces!Gone(c)
    OBVIOUS
  <2>2. c \in TraceLive
    BY <1>3 DEF TraceGood
  <2>3. TraceGone(d) /\ d.trace = c.trace
    BY <2>1, <2>2, TraceIsGone
  <2>4. TraceTurn(r, d) /\ ~TraceGone(traceTurn[r])
    BY <1>1, <1>3, <2>3 DEF TraceTurn
  <2>5. traceTurn' = [traceTurn EXCEPT ![r] = d]
    BY <1>5, <2>1
  <2> QED
    BY <1>2, <2>4, <2>5, TraceMoves
<1> QED
  BY <1>2, <1>4, <1>5

LEMMA TraceNext ==
    ASSUME TraceInv, [Traces!Next]_(Traces!vars)
    PROVE  TraceInv'
<1>1. CASE UNCHANGED Traces!vars
  <2>1. UNCHANGED << traceBackend, traceTurn, traceTable >>
    BY <1>1 DEF Traces!vars
  <2> QED
    BY <2>1 DEF TraceInv, TraceTurn, TraceTold
<1>2. ASSUME NEW r \in TraceRequests, Traces!Step(r)
      PROVE  TraceInv'
  <2>1. ASSUME NEW session \in TraceSessions, NEW joins \in BOOLEAN, NEW stream \in BOOLEAN,
               Traces!Begin(r, session, joins, stream)
        PROVE  TraceInv'
    BY <2>1, TraceBeginStep
  <2>2. CASE Traces!TakeAgent(r) \/ Traces!RunTools(r)
    BY <2>2, TraceTakeStep, TraceRunStep
  <2>3. CASE Traces!Talk(r)
    BY <2>3, TraceTalkStep
  <2>4. ASSUME NEW call \in TraceCalls, Traces!CallTool(r, call) \/ Traces!Answer(r, call)
        PROVE  TraceInv'
    BY <2>4, TraceCallStep, TraceAnswerStep
  <2>5. CASE Traces!Complete(r)
    BY <2>5, TraceCompleteStep
  <2>6. CASE Traces!Raise(r) \/ Traces!Disconnect(r)
    BY <2>6, TraceFailStep
  <2>7. CASE Traces!EndRequest(r)
    BY <2>7, TraceEndsRequest
  <2> QED
    BY <1>2, <2>1, <2>2, <2>3, <2>4, <2>5, <2>6, <2>7 DEF Traces!Step
<1>3. ASSUME NEW r \in TraceRequests, Traces!DeleteBefore(r + 1)
      PROVE  TraceInv'
  BY <1>3, TraceForgets
<1> QED
  BY <1>1, <1>2, <1>3 DEF Traces!Next

LEMMA TraceNests ==
    ASSUME TraceInv
    PROVE  Traces!SpansNest
<1> SUFFICES ASSUME NEW r \in TraceRequests, traceTurn[r].at \notin {"absent", "gone"},
                    NEW c, c = traceTurn[r]
             PROVE  /\ \A i \in DOMAIN c.spans : c.spans[i].open /\ c.spans[i].parent > 1 => c.spans[c.spans[i].parent].open
                    /\ \A i, j \in Traces!Named(c, "step") : i # j =>
                         ~(c.spans[i].open /\ c.spans[j].open) /\ c.spans[i].round # c.spans[j].round
                    /\ \A i \in Traces!Named(c, "tool") : c.spans[i].parent \in Traces!Named(c, "step")
                                                     /\ TraceFits(c, c.spans[i].parent, c.spans[i].round)
  BY DEF Traces!SpansNest, TraceFits
<1>1. TraceTurn(r, c)
  BY DEF TraceInv
<1>2. c \in TraceLive /\ TraceTree(c) /\ TraceOpen(c)
  BY <1>1, TraceDifferent DEF TraceTurn, TraceGood, TraceNest
<1>3. \A i \in DOMAIN c.spans : c.spans[i] \in TraceSpan
  BY <1>2, TraceSpans
<1>4. ASSUME NEW i \in DOMAIN c.spans, c.spans[i].open, c.spans[i].parent > 1
      PROVE  c.spans[c.spans[i].parent].open
  <2>1. c.spans[i].name \in {"request", "step", "model", "tool"} /\ c.spans[i].parent \in Nat
    BY <1>3 DEF TraceSpan
  <2>2. i # 1
    BY <1>2, <1>4 DEF TraceTree
  <2>3. c.spans[i].name \in {"model", "tool"}
    BY <1>2, <1>4, <2>1, <2>2 DEF TraceTree
  <2>4. i # c.step
    <3>1. i # 0
      BY <1>2, TraceSpans
    <3>2. c.step # 0 => c.step \in Traces!Named(c, "step")
      BY <1>2 DEF TraceOpen
    <3>3. c.step # 0 => c.spans[c.step].name = "step"
      BY <3>2 DEF Traces!Named
    <3> QED
      BY <2>3, <3>1, <3>3
  <2>5. i = c.model \/ \E p \in c.pending : p.span = i
    BY <1>2, <1>4, <2>2, <2>4 DEF TraceOpen
  <2>6. c.spans[i].parent = c.step /\ c.step # 0
    <3>1. \A x \in DOMAIN c.spans : x # 0
      BY <1>2, TraceSpans
    <3> QED
      BY <1>2, <2>5, <3>1 DEF TraceOpen
  <2> QED
    BY <1>2, <2>6 DEF TraceOpen
<1>5. ASSUME NEW i \in Traces!Named(c, "step"), NEW j \in Traces!Named(c, "step"), i # j
      PROVE  ~(c.spans[i].open /\ c.spans[j].open) /\ c.spans[i].round # c.spans[j].round
  <2>1. \A x \in Traces!Named(c, "step") : x \in DOMAIN c.spans /\ c.spans[x].name = "step"
    BY DEF Traces!Named
  <2>2. \A x \in Traces!Named(c, "step") : c.spans[x].open => x = c.step
    <3> SUFFICES ASSUME NEW x \in Traces!Named(c, "step"), c.spans[x].open PROVE x = c.step
      OBVIOUS
    <3>1. x \in DOMAIN c.spans /\ c.spans[x].name = "step" /\ x # 1 /\ x # 0
      BY <1>2, <2>1, TraceSpans DEF TraceTree
    <3>2. x = c.step \/ x = c.model \/ \E p \in c.pending : p.span = x
      BY <1>2, <3>1 DEF TraceOpen
    <3> QED
      BY <1>2, <3>1, <3>2 DEF TraceOpen, Traces!Named
  <2>3. c.spans[i].round # c.spans[j].round
    BY <1>2, <1>5 DEF TraceTree
  <2> QED
    BY <1>5, <2>2, <2>3
<1>6. \A i \in Traces!Named(c, "tool") : c.spans[i].parent \in Traces!Named(c, "step")
                                    /\ TraceFits(c, c.spans[i].parent, c.spans[i].round)
  BY <1>2 DEF TraceTree, Traces!Named
<1> QED
  BY <1>4, <1>5, <1>6

\* Traces tell what happened: a step that has ended has nothing open in it, a call is recorded in
\* the step of the round the model made it in unless a call skipped in an earlier round, one that
\* never got a name, keeps that round's step going, and a stored row is that of one request,
\* complete unless the turn failed (server/collector.py, server/tracing.py, agent.py).
THEOREM TracesAreAlwaysWhole == Traces!Spec => []Traces!TracesAreWhole
<1>1. Traces!Init => TraceInv
  BY TraceInit
<1>2. TraceInv /\ [Traces!Next]_(Traces!vars) => TraceInv'
  BY TraceNext
<1>3. TraceInv => Traces!TracesAreWhole
  <2> SUFFICES ASSUME TraceInv PROVE Traces!RowsAreWhole
    BY TraceNests DEF Traces!TracesAreWhole
  <2>1. ASSUME NEW t \in Traces!Traces, traceTable[t] # Traces!NoRow
        PROVE  TraceTold(t, traceTable[t], traceTurn[traceTable[t].from])
    BY <2>1 DEF TraceInv
  <2> QED
    BY <2>1 DEF Traces!RowsAreWhole, TraceTold
<1> QED
  BY <1>1, <1>2, <1>3, PTL DEF Traces!Spec

-----------------------------------------------------------------------------
(* Types: no frame has the tools of a later one.                           *)

ChainOlder == \A f \in Chain!Frames : chainFrame[f].owner <= f

LEMMA ChainOlderStays ==
    ASSUME ChainInv, ChainOlder, [Chain!Next]_(Chain!vars)
    PROVE  ChainOlder'
<1> DEFINE fr == chainFrame
           Same(frames) == /\ frames \in [Chain!Frames -> ChainFrameType]
                           /\ \A g \in Chain!Frames : frames[g].owner <= g
<1>1. Same(fr)
  BY DEF ChainInv, ChainTyped, ChainOlder
<1>2. ASSUME NEW frames, Same(frames), NEW s, chainFrame' = Chain!Disturb(frames, s) PROVE ChainOlder'
  BY <1>2, ChainDisturbs DEF ChainOlder, ChainDisturbed, ChainKept
<1>3. ASSUME NEW frames, Same(frames), NEW F PROVE Same(Chain!Over(frames, F))
  <2>1. ASSUME NEW g \in Chain!Frames, NEW e, e = [frames[g] EXCEPT !.pc = "over", !.child = 0]
        PROVE  e \in ChainFrameType /\ e.owner = frames[g].owner
    BY <1>3, <2>1 DEF ChainFrameType
  <2>2. ASSUME NEW g \in Chain!Frames
        PROVE  Chain!Over(frames, F)[g] \in ChainFrameType /\ Chain!Over(frames, F)[g].owner = frames[g].owner
    BY <1>3, <2>1 DEF Chain!Over
  <2>3. Chain!Over(frames, F) = [g \in Chain!Frames |-> Chain!Over(frames, F)[g]]
    BY DEF Chain!Over
  <2> QED
    BY <1>3, <2>2, <2>3
<1>4. ASSUME NEW frames, Same(frames), NEW f \in Chain!Frames PROVE Same(Chain!Resume(frames, f))
  BY <1>4, ChainResumes DEF ChainKept
<1>5. ASSUME NEW f \in Chain!Frames, NEW c \in Chain!Frames, Chain!At(f, "running"), Chain!Next1(c),
             NEW new \in ChainFrameType, new.owner <= c
      PROVE  Same(ChainCalled(f, c, new))
  <2> DEFINE called == ChainCalled(f, c, new)
  <2>1. /\ called \in [Chain!Frames -> ChainFrameType] /\ called[c] = new /\ ChainKept(fr[f], called[f])
        /\ \A g \in Chain!Frames \ {f, c} : called[g] = fr[g]
    BY <1>5, ChainCalls1
  <2> HIDE DEF called
  <2>2. ASSUME NEW g \in Chain!Frames PROVE called[g].owner <= g
    BY <1>1, <1>5, <2>1 DEF ChainKept
  <2>3. Same(called)
    BY <2>1, <2>2
  <2> QED
    BY <2>3 DEF called
<1>6. ASSUME UNCHANGED Chain!vars PROVE ChainOlder'
  BY <1>6 DEF ChainOlder, Chain!vars
<1>7. ASSUME NEW f \in Chain!Frames, NEW s \in ChainServers, Chain!Request(f, s) PROVE ChainOlder'
  <2> DEFINE new == [Chain!Unused EXCEPT !.kind = "http", !.agent = s, !.owner = f, !.pc = "waiting"]
  <2>1. s \in ChainAgents /\ f \in Nat
    BY ChainAssumption, ChainFramesAreNumbers
  <2>2. new \in ChainFrameType /\ new.owner = f
    BY <2>1 DEF Chain!Unused, Chain!Outside, ChainFrameType
  <2> HIDE DEF new
  <2>3. Same([fr EXCEPT ![f] = new])
    BY <1>1, <2>1, <2>2
  <2> QED
    BY <1>2, <1>7, <2>3 DEF Chain!Request, new
<1>8. ASSUME NEW f \in Chain!Frames, Chain!Run(f) PROVE ChainOlder'
  <2>1. fr[f] \in ChainFrameType
    BY <1>1
  <2>2. \A g \in Chain!Frames : chainFrame'[g].owner = fr[g].owner
    BY <1>1, <1>8, <2>1 DEF Chain!Run, ChainFrameType
  <2> QED
    BY <1>1, <2>2 DEF ChainOlder
<1>9. ASSUME NEW f \in Chain!Frames, Chain!Return(f) PROVE ChainOlder'
  <2>1. fr[f].parent \in Nat /\ fr[f].parent < f
    BY <1>1, <1>9 DEF ChainInv, ChainTyped, ChainFrameType
  <2>2. fr[f].parent # 0 => fr[f].parent \in Chain!Frames
    BY <2>1, ChainAssumption DEF Chain!Frames
  <2>3. Same(Chain!Over(fr, {f})) /\ (fr[f].parent # 0 => Same(Chain!Resume(Chain!Over(fr, {f}), fr[f].parent)))
    BY <1>1, <1>3, <1>4, <2>2
  <2>4. chainFrame' = Chain!Over(fr, {f}) \/ (fr[f].parent # 0 /\ chainFrame' = Chain!Resume(Chain!Over(fr, {f}), fr[f].parent))
    BY <1>9 DEF Chain!Return, Chain!Outside
  <2> QED
    BY <2>3, <2>4 DEF ChainOlder
<1>10. ASSUME NEW f \in Chain!Frames, Chain!GiveUp(f) PROVE ChainOlder'
  BY <1>1, <1>3, <1>4, <1>10 DEF Chain!GiveUp, ChainOlder
<1>11. ASSUME NEW f \in Chain!Frames, NEW c \in Chain!Frames, Chain!Spawn(f, c) PROVE ChainOlder'
  <2> DEFINE o == fr[f].owner
             new == ChainNew(f, "spawn", fr[o].agent, ChainSpawnMax, o, "running")
  <2>1. /\ Chain!At(f, "running") /\ Chain!Next1(c) /\ Chain!Within(f, ChainSpawnMax)
        /\ chainFrame' = ChainCalled(f, c, new)
    BY <1>11 DEF Chain!Spawn, ChainCalled, ChainNew
  <2>2. o \in Chain!Frames /\ fr[o].agent \in ChainAgents
    BY <2>1 DEF ChainInv, ChainTyped, ChainOwned, Chain!At
  <2>3. new \in ChainFrameType /\ new.owner = o
    BY <2>1, <2>2, ChainChild, ChainAssumption
  <2>4. f < c /\ o <= f /\ o \in Nat /\ f \in Nat /\ c \in Nat
    BY <1>1, <2>1, <2>2, <2>3, ChainCalls1, ChainFramesAreNumbers
  <2> HIDE DEF new, o
  <2> QED
    BY <1>5, <2>1, <2>3, <2>4 DEF ChainOlder
<1>12. ASSUME NEW f \in Chain!Frames, NEW c \in Chain!Frames,
              NEW sub \in UNION {ChainSubagents[a] : a \in ChainAgents}, Chain!Delegate(f, c, sub)
       PROVE  ChainOlder'
  <2> DEFINE pc == IF sub.kind = "http" THEN "waiting" ELSE "running"
             new == ChainNew(f, sub.kind, sub.to, sub.max, c, pc)
             called == ChainCalled(f, c, new)
  <2>1. /\ Chain!At(f, "running") /\ Chain!Next1(c) /\ Chain!Within(f, sub.max)
        /\ chainFrame' = Chain!Disturb(called, sub.to) \/ chainFrame' = called
    BY <1>12 DEF Chain!Delegate, ChainCalled, ChainNew
  <2>2. sub.to \in ChainAgents /\ sub.kind \in {"http", "inprocess"} /\ sub.max \in Nat
    BY ChainAssumption
  <2>3. pc \in {"waiting", "running"}
    OBVIOUS
  <2> HIDE DEF pc
  <2>4. new \in ChainFrameType /\ new.owner = c
    BY <2>1, <2>2, <2>3, ChainChild
  <2> HIDE DEF new
  <2>5. Same(called)
    BY <1>5, <2>1, <2>4, ChainFramesAreNumbers
  <2> HIDE DEF called
  <2> QED
    BY <1>2, <2>1, <2>5 DEF ChainOlder
<1> HIDE DEF Same
<1> QED
  BY <1>6, <1>7, <1>8, <1>9, <1>10, <1>11, <1>12 DEF Chain!Next

\* A frame's numbers are those of frames: what it waits for is younger, whose tools it has is not.
LEMMA ChainTypeCorrect == Chain!Spec => []Chain!TypeOK
<1>1. Chain!Init => ChainOlder
  BY ChainFramesAreNumbers DEF Chain!Init, Chain!Unused, ChainOlder
<1>2. ASSUME ChainInv, ChainOlder PROVE Chain!TypeOK
  <2>1. ASSUME NEW f \in Chain!Frames
        PROVE  /\ chainFrame[f].kind \in {"unused", "http", "inprocess", "spawn"}
               /\ chainFrame[f].agent \in ChainAgents \cup {"none"}
               /\ chainFrame[f].parent \in {Chain!Outside} \cup 1..(f - 1)
               /\ chainFrame[f].owner \in 0..f /\ chainFrame[f].child \in {0} \cup (f + 1)..ChainMaxFrames
               /\ chainFrame[f].pc \in {"unused", "waiting", "running", "calling", "over"}
               /\ (chainFrame[f].pc = "calling") = (chainFrame[f].child # 0)
    <3>1. /\ chainFrame[f] \in ChainFrameType /\ chainFrame[f].parent < f /\ chainFrame[f].owner <= f
          /\ f \in Nat /\ f > 0
      BY <1>2, ChainFramesAreNumbers DEF ChainInv, ChainTyped, ChainOlder
    <3>2. chainFrame[f].parent \in {Chain!Outside} \cup 1..(f - 1) /\ chainFrame[f].owner \in 0..f
      BY <3>1 DEF ChainFrameType, Chain!Outside
    <3>3. ASSUME chainFrame[f].pc = "calling"
          PROVE  chainFrame[f].child \in (f + 1)..ChainMaxFrames /\ chainFrame[f].child # 0
      <4> DEFINE c == chainFrame[f].child
      <4>1. c \in Chain!Frames /\ chainFrame[c].parent = f
        BY <1>2, <3>3 DEF ChainInv, ChainCalls
      <4>2. f < c
        BY <1>2, <4>1 DEF ChainInv, ChainTyped
      <4> QED
        BY <3>1, <4>1, <4>2, ChainAssumption DEF Chain!Frames
    <3>4. chainFrame[f].child # 0 => chainFrame[f].pc = "calling"
      BY <1>2 DEF ChainInv, ChainCalls
    <3> QED
      BY <3>1, <3>2, <3>3, <3>4 DEF ChainFrameType
  <2> QED
    BY <1>2, <2>1 DEF Chain!TypeOK, ChainInv, ChainTyped
<1>3. ChainInv /\ ChainOlder /\ [Chain!Next]_(Chain!vars) => ChainOlder'
  BY ChainOlderStays
<1> QED
  BY <1>1, <1>2, <1>3, ChainInit, ChainNext, PTL DEF Chain!Spec

-----------------------------------------------------------------------------
(* Types: the attempts of a node and of a request stay within their limits *)
(* when the run is past the node, too.                                     *)

FlowTried == flowRun.attempt \in 0..flowGraph.nodeRetries /\ flowRun.try \in 0..(flowGraph.remoteRetries + 1)

LEMMA FlowTriedStays ==
    ASSUME FlowInv, FlowTried, [Flow!Next]_(Flow!vars)
    PROVE  FlowTried'
<1>1. /\ flowRun \in FlowRunType /\ flowGraph.nodeRetries \in Nat /\ flowGraph.remoteRetries \in Nat
      /\ FlowRounds = flowGraph.remoteRetries + 1
  BY FlowTypes DEF FlowInv, FlowTyped, FlowRunType, FlowRounds
<1> DEFINE Same == UNCHANGED flowGraph /\ flowRun'.attempt = flowRun.attempt /\ flowRun'.try = flowRun.try
<1>2. Same => FlowTried'
  BY DEF FlowTried
<1>3. ASSUME NEW outcome, Flow!End(outcome), UNCHANGED flowGraph PROVE Same
  BY <1>1, <1>3 DEF Flow!End, FlowRunType
<1>4. ASSUME NEW target, Flow!Succeed(target), UNCHANGED flowGraph PROVE Same
  BY <1>1, <1>4 DEF Flow!Succeed, FlowRunType
<1>5. ASSUME NEW written, Flow!Fail(written), UNCHANGED flowGraph PROVE FlowTried'
  <2>1. CASE flowRun.attempt < flowGraph.nodeRetries
    <3>1. flowRun'.attempt = flowRun.attempt + 1 /\ flowRun'.try = 1
      BY <1>1, <1>5, <2>1 DEF Flow!Fail, FlowRunType
    <3> QED
      BY <1>1, <1>5, <2>1, <3>1 DEF FlowTried
  <2>2. CASE ~(flowRun.attempt < flowGraph.nodeRetries)
    <3>1. Same
      BY <1>1, <1>5, <2>2 DEF Flow!Fail, FlowRunType
    <3> QED
      BY <1>2, <3>1
  <2> QED
    BY <2>1, <2>2
<1>6. ASSUME UNCHANGED Flow!vars PROVE Same
  BY <1>6 DEF Flow!vars
<1>7. ASSUME NEW n, NEW ok, Flow!SetUp(n, ok) PROVE Same
  BY <1>3, <1>7 DEF Flow!SetUp
<1>8. ASSUME NEW n, Flow!ShutDown(n) PROVE Same
  BY <1>8 DEF Flow!ShutDown
<1>9. ASSUME Flow!Start PROVE Same
  <2>1. Flow!End("invalid") \/ flowRun' = [flowRun EXCEPT !.pc = "loop", !.at = flowGraph.entry]
    BY <1>9 DEF Flow!Start
  <2>2. flowRun' = [flowRun EXCEPT !.pc = "loop", !.at = flowGraph.entry] => Same
    BY <1>1, <1>9 DEF FlowRunType, Flow!Start
  <2> QED
    BY <1>3, <1>9, <2>1, <2>2 DEF Flow!Start
<1>10. ASSUME Flow!Loop PROVE FlowTried'
  <2>1. UNCHANGED flowGraph
    BY <1>10 DEF Flow!Loop
  <2> DEFINE pc == IF flowRun.at \in flowGraph.remote THEN "post" ELSE "process"
  <2>2. \/ Flow!End("steps") \/ Flow!End("assertion") \/ Flow!End("result")
        \/ /\ flowGraph.nodeRetries # 0
           /\ flowRun' = [flowRun EXCEPT !.pc = pc, !.step = @ + 1, !.attempt = 1, !.try = 1]
    BY <1>10, FlowHolds DEF Flow!Loop
  <2> HIDE DEF pc
  <2>3. ASSUME flowGraph.nodeRetries # 0, flowRun' = [flowRun EXCEPT !.pc = pc, !.step = @ + 1, !.attempt = 1, !.try = 1]
        PROVE  FlowTried'
    <3>1. flowRun'.attempt = 1 /\ flowRun'.try = 1
      BY <1>1, <2>3 DEF FlowRunType
    <3> QED
      BY <1>1, <2>1, <2>3, <3>1 DEF FlowTried
  <2> QED
    BY <1>2, <1>3, <2>1, <2>2, <2>3
<1>11. ASSUME Flow!Ended \/ Flow!Cancel PROVE Same
  <2>1. \/ flowRun' = [flowRun EXCEPT !.pc = "ended"]
        \/ flowRun' = [flowRun EXCEPT !.pc = "ended", !.outcome = "interrupted"]
        \/ flowRun' = [flowRun EXCEPT !.pc = "shutdown", !.outcome = "cancelled"]
    BY <1>11 DEF Flow!Ended, Flow!Cancel
  <2>2. UNCHANGED flowGraph
    BY <1>11 DEF Flow!Ended, Flow!Cancel
  <2> QED
    BY <1>1, <2>1, <2>2 DEF FlowRunType
<1>12. ASSUME Flow!Process PROVE FlowTried'
  BY <1>2, <1>4, <1>5, <1>12 DEF Flow!Process
<1>13. ASSUME Flow!Backoff PROVE FlowTried'
  <2>1. flowRun'.attempt = flowRun.attempt /\ flowRun'.try = flowRun.try + 1 /\ UNCHANGED flowGraph /\ flowRun.pc = "backoff"
    BY <1>1, <1>13 DEF Flow!Backoff, Flow!At, FlowRunType
  <2>2. flowRun.try < FlowRounds
    BY <2>1 DEF FlowInv, FlowPosted
  <2> QED
    BY <1>1, <2>1, <2>2 DEF FlowTried
<1>14. ASSUME NEW answer \in {"state", "unreadable", "error"}, Flow!Post(answer) PROVE FlowTried'
  <2>0. UNCHANGED flowGraph
    BY <1>14 DEF Flow!Post
  <2>1. CASE answer = "state"
    BY <1>2, <1>4, <1>14, <2>0, <2>1 DEF Flow!Post
  <2>2. CASE answer = "unreadable"
    BY <1>5, <1>14, <2>0, <2>2 DEF Flow!Post
  <2>3. CASE answer = "error"
    <3>0. flowRun.try <= flowGraph.remoteRetries \/ flowRun.try > flowGraph.remoteRetries
      BY <1>1 DEF FlowRunType
    <3>1. flowRun' = [flowRun EXCEPT !.pc = "backoff"] \/ Flow!Fail(<< >>)
      BY <1>14, <2>3, <3>0 DEF Flow!Post
    <3>2. flowRun' = [flowRun EXCEPT !.pc = "backoff"] => Same
      BY <1>1, <2>0 DEF FlowRunType
    <3> QED
      BY <1>2, <1>5, <2>0, <3>1, <3>2
  <2> QED
    BY <2>1, <2>2, <2>3
<1> HIDE DEF Same
<1> QED
  BY <1>2, <1>6, <1>7, <1>8, <1>9, <1>10, <1>11, <1>12, <1>13, <1>14 DEF Flow!Next

\* The numbers of a run stay in their bounds, its nodes are nodes of the graph.
LEMMA FlowTypeCorrect == Flow!Spec => []Flow!TypeOK
<1>1. Flow!Init => FlowTried
  BY FlowAssumption DEF Flow!Init, FlowTried
<1>2. FlowInv /\ FlowTried => Flow!TypeOK
  <2> SUFFICES ASSUME FlowInv, FlowTried PROVE Flow!TypeOK
    OBVIOUS
  <2>1. /\ \A i \in DOMAIN flowState : flowState[i].by \in flowGraph.nodes /\ flowState[i].whole \in BOOLEAN
        /\ \A i \in DOMAIN flowPath : /\ flowPath[i].node \in flowGraph.nodes /\ flowPath[i].ok \in BOOLEAN
                                      /\ flowPath[i].attempts \in Nat
    BY FlowTypes DEF FlowWrite, FlowLeft
  <2>2. flowPosts \in Nat /\ flowPosts <= flowGraph.nodeRetries * FlowRounds /\ FlowRounds \in Nat /\ flowGraph.nodeRetries \in Nat
    BY FlowTypes DEF FlowInv, FlowPosted
  <2>3. flowGraph.nodeRetries * FlowRounds \in Nat
    BY <2>2
  <2>4. flowPosts \in 0..(flowGraph.nodeRetries * FlowRounds)
    BY <2>2, <2>3
  <2> QED
    BY <2>1, <2>4 DEF FlowInv, FlowTyped, FlowTried, FlowRounds, Flow!TypeOK
<1>3. FlowInv /\ FlowTried /\ [Flow!Next]_(Flow!vars) => FlowTried'
  BY FlowTriedStays
<1> QED
  BY <1>1, <1>2, <1>3, FlowInit, FlowNext, PTL DEF Flow!Spec

-----------------------------------------------------------------------------
(* Types: scores, versions and texts stay within what was earned and       *)
(* written, and the loader has texts that were written.                    *)

SkillNumbers ==
    /\ skillTrust.score \in 0..SkillMaxScore /\ skillWrites \in 0..SkillMaxWrites
    /\ skillTold \in [stage : Learning!Stages, from : Learning!Stages, up : BOOLEAN, level : 0..4]
SkillShelf ==
    \A s \in SkillNames :
        /\ skillFile[s].version <= skillWrites /\ skillFile[s].text <= skillWrites
        /\ DOMAIN skillArchive[s] \subseteq 1..skillWrites
        /\ \A v \in DOMAIN skillArchive[s] : skillArchive[s][v].text <= skillWrites
SkillTexts ==
    /\ skillLoaded = [s \in DOMAIN skillLoaded |-> skillLoaded[s]]
    /\ \A s \in DOMAIN skillLoaded : s \in SkillNames /\ skillLoaded[s] \in 0..skillWrites
SkillKept == SkillNumbers /\ SkillShelf /\ SkillTexts

LEMMA SkillStageIs == \A level : Learning!Stage(level) \in Learning!Stages
BY DEF Learning!Stage, Learning!Stages

LEMMA SkillSeedKept ==
    ASSUME skillCfg \in SkillConfigs
    PROVE  /\ (IF Learning!Seed = 0 THEN 0 ELSE SkillThresholds[Learning!Seed]) \in 0..SkillMaxScore
           /\ [stage |-> Learning!Stage(Learning!Seed), from |-> Learning!Stage(Learning!Seed), up |-> TRUE, level |-> 0]
                \in [stage : Learning!Stages, from : Learning!Stages, up : BOOLEAN, level : 0..4]
<1>1. Learning!Seed \in 0..4
  BY SkillSeed
<1>2. Learning!Seed # 0 => SkillThresholds[Learning!Seed] \in 0..SkillMaxScore
  BY <1>1, SkillAssumption
<1> QED
  BY <1>2, SkillStageIs, SkillAssumption

LEMMA SkillRecordKeeps ==
    ASSUME SkillInv, SkillKept, NEW score \in 0..SkillMaxScore, NEW up \in BOOLEAN, Learning!Record(score, up)
    PROVE  SkillKept'
<1> DEFINE level == Learning!Level(score, up)
           events == IF level = skillTrust.level THEN skillTrust.pending
                     ELSE Append(skillTrust.pending, [from |-> skillTrust.level, to |-> level])
           before == Learning!Stage(skillTrust.level)
           after == Learning!Stage(level)
           last == events[Len(events)]
           demotions == {i \in DOMAIN events : events[i].to < events[i].from}
           condemned == {s \in SkillNames : \E i \in demotions : Learning!OutOfScope(s, events[i].to)}
           told == skillCfg.maturation /\ events # << >> /\ after # before
<1>1. PICK reached \in SUBSET condemned :
      /\ skillTrust' = [level |-> level, score |-> score, pending |-> << >>]
      /\ skillTold' = [skillTold EXCEPT
                          !.stage = IF told THEN after ELSE @, !.from = IF told THEN before ELSE @,
                          !.up = IF told THEN last.to > last.from ELSE @,
                          !.level = IF events # << >> THEN last.to ELSE @]
      /\ skillFile' = [s \in SkillNames |-> IF s \in reached THEN [skillFile[s] EXCEPT !.quarantined = TRUE] ELSE skillFile[s]]
      /\ UNCHANGED << skillCfg, skillArchive, skillWrites, skillLoaded >>
  BY DEF Learning!Record
<1>2. skillTrust.level \in 0..4 /\ level \in 0..4
  <2>1. skillTrust.level \in 0..4
    BY DEF SkillInv, SkillTyped
  <2>2. CASE up /\ skillTrust.level < 4 /\ score >= SkillThresholds[skillTrust.level + 1]
    BY <2>1, <2>2 DEF Learning!Level
  <2>3. CASE ~up /\ skillTrust.level > 0 /\ 2 * score < SkillThresholds[skillTrust.level]
    BY <2>1, <2>3 DEF Learning!Level
  <2>4. CASE /\ ~(up /\ skillTrust.level < 4 /\ score >= SkillThresholds[skillTrust.level + 1])
             /\ ~(~up /\ skillTrust.level > 0 /\ 2 * score < SkillThresholds[skillTrust.level])
    BY <2>1, <2>4 DEF Learning!Level
  <2> QED
    BY <2>1, <2>2, <2>3, <2>4
<1> HIDE DEF level
<1>3. events # << >> => last.to \in 0..4 /\ (last.to > last.from) \in BOOLEAN
  <2> DEFINE moved == [from |-> skillTrust.level, to |-> level]
             seeded == [from |-> 0, to |-> skillTrust.level]
  <2>1. \/ events = << >>
        \/ \E e \in {moved, seeded} : events = << e >>
        \/ events = << seeded, moved >>
    <3>1. Append(<< seeded >>, moved) = << seeded, moved >> /\ Append(<< >>, moved) = << moved >>
      BY SkillTwo
    <3> QED
      BY <3>1 DEF SkillInv, SkillTyped
  <2> HIDE DEF events
  <2>2. ASSUME NEW e \in {moved, seeded}, events = << e >> PROVE last = e
    BY <2>2
  <2>3. ASSUME events = << seeded, moved >> PROVE last = moved
    <3> HIDE DEF seeded, moved
    <3> QED
      BY <2>3
  <2>4. moved.to \in 0..4 /\ seeded.to \in 0..4
    BY <1>2
  <2> QED
    BY <2>1, <2>2, <2>3, <2>4
<1> HIDE DEF events, last, demotions
<1>4. after \in Learning!Stages /\ before \in Learning!Stages
  BY SkillStageIs
<1>5. SkillNumbers'
  <2> HIDE DEF after, before
  <2>1. \/ skillTold' = [skillTold EXCEPT !.stage = after, !.from = before, !.up = last.to > last.from, !.level = last.to]
           /\ events # << >>
        \/ skillTold' = [skillTold EXCEPT !.level = last.to] /\ events # << >>
        \/ skillTold' = skillTold
    <3>1. skillTold = [stage |-> skillTold.stage, from |-> skillTold.from, up |-> skillTold.up, level |-> skillTold.level]
      BY DEF SkillInv, SkillTold
    <3>2. CASE told
      BY <1>1, <3>2
    <3>3. CASE ~told /\ events # << >>
      BY <1>1, <3>1, <3>3
    <3>4. CASE ~told /\ events = << >>
      BY <1>1, <3>1, <3>4
    <3> QED
      BY <3>2, <3>3, <3>4
  <2>2. skillTold' \in [stage : Learning!Stages, from : Learning!Stages, up : BOOLEAN, level : 0..4]
    BY <1>3, <1>4, <2>1 DEF SkillKept, SkillNumbers
  <2> QED
    BY <1>1, <2>2 DEF SkillKept, SkillNumbers
<1>6. SkillShelf'
  <2>1. ASSUME NEW s \in SkillNames
        PROVE  skillFile'[s].version = skillFile[s].version /\ skillFile'[s].text = skillFile[s].text
    <3>1. skillFile[s] \in Learning!Files
      BY DEF SkillInv, SkillTyped
    <3>2. skillFile'[s] = [skillFile[s] EXCEPT !.quarantined = TRUE] \/ skillFile'[s] = skillFile[s]
      BY <1>1
    <3> QED
      BY <3>1, <3>2 DEF Learning!Files
  <2> QED
    BY <1>1, <2>1 DEF SkillKept, SkillShelf
<1> QED
  BY <1>1, <1>5, <1>6 DEF SkillKept, SkillTexts

\* The text on the shelf: a version more is a text more.
LEMMA SkillReplaceKeeps ==
    ASSUME SkillInv, SkillKept, NEW s \in SkillNames, NEW f \in Learning!Files, f.text <= skillWrites + 1,
           skillFile[s] # Learning!Absent, Learning!Replace(s, f), skillWrites' = skillWrites + 1
    PROVE  SkillShelf'
<1> DEFINE v == Learning!VersionOf(s)
           new == Learning!With(s, v, skillFile[s])
           g == [f EXCEPT !.version = v + 1]
<1>1. /\ skillWrites \in Nat /\ skillFile \in [SkillNames -> Learning!Files]
      /\ skillArchive = [t \in SkillNames |-> skillArchive[t]]
      /\ \A t \in SkillNames : \A w \in DOMAIN skillArchive[t] : skillArchive[t][w] \in Learning!Files
  BY DEF SkillInv, SkillTyped
<1>2. /\ skillFile[s].version \in 1..skillWrites /\ skillFile[s].text \in Nat /\ skillFile[s].text <= skillWrites
  BY <1>1 DEF SkillInv, SkillTyped, SkillKept, SkillShelf, Learning!Files
<1>3. v \in 1..skillWrites
  BY <1>1, <1>2 DEF Learning!VersionOf
<1>4. /\ DOMAIN new = DOMAIN skillArchive[s] \cup {v}
      /\ \A w \in DOMAIN new : new[w] = skillFile[s] \/ (w \in DOMAIN skillArchive[s] /\ new[w] = skillArchive[s][w])
  BY DEF Learning!With
<1>5. skillArchive' = [skillArchive EXCEPT ![s] = new] /\ skillFile' = [skillFile EXCEPT ![s] = g]
  BY DEF Learning!Replace
<1> HIDE DEF v, new
<1>6. g.version = v + 1 /\ g.text = f.text
  BY DEF Learning!Files
<1> HIDE DEF g
<1>7. /\ skillFile'[s] = g /\ skillArchive'[s] = new
      /\ \A t \in SkillNames \ {s} : skillFile'[t] = skillFile[t] /\ skillArchive'[t] = skillArchive[t]
  BY <1>1, <1>5
<1>8. ASSUME NEW t \in SkillNames \ {s}
      PROVE  /\ skillFile'[t].version <= skillWrites' /\ skillFile'[t].text <= skillWrites'
             /\ DOMAIN skillArchive'[t] \subseteq 1..skillWrites'
             /\ \A w \in DOMAIN skillArchive'[t] : skillArchive'[t][w].text <= skillWrites'
  <2>1. skillFile[t].version \in Nat /\ skillFile[t].text \in Nat
    BY <1>1 DEF Learning!Files
  <2>2. \A w \in DOMAIN skillArchive[t] : skillArchive[t][w].text \in Nat
    BY <1>1 DEF Learning!Files
  <2>3. 1..skillWrites \subseteq 1..skillWrites'
    BY <1>1
  <2> QED
    BY <1>1, <1>7, <2>1, <2>2, <2>3 DEF SkillKept, SkillShelf
<1>9. /\ skillFile'[s].version <= skillWrites' /\ skillFile'[s].text <= skillWrites'
      /\ DOMAIN skillArchive'[s] \subseteq 1..skillWrites'
      /\ \A w \in DOMAIN skillArchive'[s] : skillArchive'[s][w].text <= skillWrites'
  <2>1. \A w \in DOMAIN skillArchive[s] : skillArchive[s][w].text \in Nat /\ skillArchive[s][w].text <= skillWrites
    BY <1>1 DEF Learning!Files, SkillKept, SkillShelf
  <2>2. DOMAIN skillArchive[s] \subseteq 1..skillWrites /\ 1..skillWrites \subseteq 1..skillWrites'
    BY <1>1 DEF SkillKept, SkillShelf
  <2>3. \A w \in DOMAIN new : new[w].text <= skillWrites'
    BY <1>1, <1>2, <1>4, <2>1
  <2> QED
    BY <1>1, <1>3, <1>4, <1>6, <1>7, <2>2, <2>3
<1> QED
  BY <1>8, <1>9 DEF SkillShelf

LEMMA SkillLearnKeeps ==
    ASSUME SkillInv, SkillKept, NEW s \in SkillNames, NEW domain \in SkillDomains, NEW readable \in BOOLEAN,
           Learning!Learn(s, domain, readable)
    PROVE  SkillKept'
<1> DEFINE new == [text |-> skillWrites + 1, version |-> 1, domain |-> domain, quarantined |-> FALSE, readable |-> readable]
<1>1. /\ skillWrites' = skillWrites + 1 /\ skillWrites < SkillMaxWrites
      /\ UNCHANGED << skillTrust, skillTold, skillLoaded >>
      /\ IF skillFile[s] # Learning!Absent THEN Learning!Replace(s, new)
         ELSE skillFile' = [skillFile EXCEPT ![s] = new] /\ UNCHANGED skillArchive
  BY DEF Learning!Learn
<1>2. skillWrites \in Nat /\ skillFile \in [SkillNames -> Learning!Files]
  BY DEF SkillInv, SkillTyped
<1>3. new \in Learning!Files /\ new.text = skillWrites + 1 /\ new.version = 1
  BY <1>2 DEF Learning!Files
<1> HIDE DEF new
<1>4. CASE skillFile[s] # Learning!Absent
  <2>1. new.text <= skillWrites + 1
    BY <1>2, <1>3
  <2>2. SkillShelf'
    BY <1>1, <1>3, <1>4, <2>1, SkillReplaceKeeps
  <2> QED
    BY <1>1, <1>2, <2>2, SkillAssumption DEF SkillKept, SkillNumbers, SkillTexts
<1>5. CASE skillFile[s] = Learning!Absent
  <2>1. /\ skillFile'[s] = new /\ skillArchive' = skillArchive
        /\ \A t \in SkillNames \ {s} : skillFile'[t] = skillFile[t]
    BY <1>1, <1>2, <1>5
  <2>2. ASSUME NEW t \in SkillNames
        PROVE  /\ DOMAIN skillArchive'[t] \subseteq 1..skillWrites'
               /\ \A w \in DOMAIN skillArchive'[t] : skillArchive'[t][w].text <= skillWrites'
    <3>1. 1..skillWrites \subseteq 1..skillWrites'
      BY <1>1, <1>2
    <3>2. \A w \in DOMAIN skillArchive[t] : skillArchive[t][w].text \in Nat
      BY DEF SkillInv, SkillTyped, Learning!Files
    <3> QED
      BY <1>1, <1>2, <2>1, <3>1, <3>2 DEF SkillKept, SkillShelf
  <2>3. ASSUME NEW t \in SkillNames
        PROVE  skillFile'[t].version <= skillWrites' /\ skillFile'[t].text <= skillWrites'
    <3>1. CASE t = s
      BY <1>1, <1>2, <1>3, <2>1, <3>1
    <3>2. CASE t # s
      <4>1. skillFile[t].version \in Nat /\ skillFile[t].text \in Nat
        BY <1>2 DEF Learning!Files
      <4> QED
        BY <1>1, <1>2, <2>1, <3>2, <4>1 DEF SkillKept, SkillShelf
    <3> QED
      BY <3>1, <3>2
  <2>4. SkillShelf'
    BY <2>2, <2>3 DEF SkillShelf
  <2> QED
    BY <1>1, <1>2, <2>4, SkillAssumption DEF SkillKept, SkillNumbers, SkillTexts
<1> QED
  BY <1>4, <1>5

LEMMA SkillRollbackKeeps ==
    ASSUME SkillInv, SkillKept, NEW s \in SkillNames, NEW v \in 1..SkillMaxWrites, Learning!Rollback(s, v)
    PROVE  SkillKept'
<1> DEFINE u == Learning!VersionOf(s)
           new == Learning!With(s, u, skillFile[s])
           old == new[v]
<1>1. /\ v \in DOMAIN skillArchive[s] /\ skillFile[s] # Learning!Absent /\ skillWrites < SkillMaxWrites
      /\ UNCHANGED << skillTrust, skillTold, skillLoaded >>
      /\ IF old.readable THEN Learning!Replace(s, old) /\ skillWrites' = skillWrites + 1
         ELSE skillArchive' = [skillArchive EXCEPT ![s] = new] /\ UNCHANGED << skillFile, skillWrites >>
  BY DEF Learning!Rollback
<1>2. /\ skillWrites \in Nat /\ skillFile[s] \in Learning!Files
      /\ skillArchive = [t \in SkillNames |-> skillArchive[t]]
      /\ \A w \in DOMAIN skillArchive[s] : skillArchive[s][w] \in Learning!Files /\ skillArchive[s][w].text <= skillWrites
      /\ skillFile[s].version \in 1..skillWrites /\ skillFile[s].text <= skillWrites
  BY <1>1 DEF SkillInv, SkillTyped, SkillKept, SkillShelf, Learning!Files
<1>3. u \in 1..skillWrites
  BY <1>2 DEF Learning!VersionOf
<1>4. /\ DOMAIN new = DOMAIN skillArchive[s] \cup {u}
      /\ \A w \in DOMAIN new : new[w] = skillFile[s] \/ (w \in DOMAIN skillArchive[s] /\ new[w] = skillArchive[s][w])
  BY DEF Learning!With
<1> HIDE DEF u, new
<1>5. old \in Learning!Files /\ old.text <= skillWrites
  BY <1>1, <1>2, <1>4
<1> HIDE DEF old
<1>6. CASE old.readable
  <2>1. old.text <= skillWrites + 1 /\ skillWrites' = skillWrites + 1
    BY <1>1, <1>2, <1>5, <1>6 DEF Learning!Files
  <2>2. SkillShelf'
    BY <1>1, <1>5, <1>6, <2>1, SkillReplaceKeeps
  <2> QED
    BY <1>1, <1>2, <2>1, <2>2, SkillAssumption DEF SkillKept, SkillNumbers, SkillTexts
<1>7. CASE ~old.readable
  <2>1. skillArchive' = [skillArchive EXCEPT ![s] = new] /\ UNCHANGED << skillFile, skillWrites >>
    BY <1>1, <1>7
  <2>2. skillArchive'[s] = new /\ \A t \in SkillNames \ {s} : skillArchive'[t] = skillArchive[t]
    BY <1>2, <2>1
  <2>3. DOMAIN new \subseteq 1..skillWrites /\ \A w \in DOMAIN new : new[w].text <= skillWrites
    BY <1>2, <1>3, <1>4 DEF SkillKept, SkillShelf
  <2>4. SkillShelf'
    BY <2>1, <2>2, <2>3 DEF SkillKept, SkillShelf
  <2> QED
    BY <1>1, <2>1, <2>4 DEF SkillKept, SkillNumbers, SkillTexts
<1> QED
  BY <1>6, <1>7

LEMMA SkillKeeps ==
    ASSUME SkillInv, SkillKept, [Learning!Next]_(Learning!vars)
    PROVE  SkillKept'
<1>0. skillCfg \in SkillConfigs /\ skillWrites \in Nat /\ skillTrust.score \in 0..SkillMaxScore
  BY DEF SkillInv, SkillTyped, SkillTold, SkillKept, SkillNumbers
<1>1. CASE Learning!Restart
  <2>1. /\ skillTrust'.score = (IF Learning!Seed = 0 THEN 0 ELSE SkillThresholds[Learning!Seed])
        /\ skillTold' = [stage |-> Learning!Stage(Learning!Seed), from |-> Learning!Stage(Learning!Seed), up |-> TRUE, level |-> 0]
        /\ skillLoaded' = [s \in Learning!Loadable |-> 0]
        /\ UNCHANGED << skillFile, skillArchive, skillWrites >>
    BY <1>1 DEF Learning!Restart, Learning!Setup
  <2>2. SkillNumbers'
    BY <1>0, <2>1, SkillSeedKept DEF SkillKept, SkillNumbers
  <2>3. SkillTexts'
    BY <1>0, <2>1 DEF SkillTexts, Learning!Loadable
  <2> QED
    BY <2>1, <2>2, <2>3 DEF SkillKept, SkillShelf
<1>2. CASE Learning!Complete
  <2>1. skillTrust.score + SkillCompletion \in 0..SkillMaxScore
    BY <1>0, <1>2, SkillAssumption DEF Learning!Complete
  <2> QED
    BY <1>2, <2>1, SkillRecordKeeps DEF Learning!Complete
<1>3. CASE Learning!Release
  <2>1. Learning!Larger(0, skillTrust.score - SkillFailure) \in 0..SkillMaxScore
    BY <1>0, SkillAssumption DEF Learning!Larger
  <2> QED
    BY <1>3, <2>1, SkillRecordKeeps DEF Learning!Release
<1>4. CASE \E s \in SkillNames : Learning!Activate(s) \/ Learning!Deactivate(s)
  <2> PICK s \in SkillNames : Learning!Activate(s) \/ Learning!Deactivate(s)
    BY <1>4
  <2>1. /\ s \in DOMAIN skillLoaded /\ UNCHANGED << skillTrust, skillTold, skillFile, skillArchive, skillWrites >>
        /\ \/ skillLoaded' = [skillLoaded EXCEPT ![s] = 0]
           \/ skillLoaded' = [skillLoaded EXCEPT ![s] = skillFile[s].text]
    BY DEF Learning!Activate, Learning!Deactivate
  <2>2. skillFile[s].text \in 0..skillWrites
    <3>1. skillFile[s] \in Learning!Files
      BY DEF SkillInv, SkillTyped
    <3> QED
      BY <1>0, <3>1 DEF Learning!Files, SkillKept, SkillShelf
  <2>3. SkillTexts'
    <3>0. 0 \in 0..skillWrites
      BY <1>0
    <3>1. PICK text \in 0..skillWrites : skillLoaded' = [skillLoaded EXCEPT ![s] = text]
      BY <2>1, <2>2, <3>0, Zenon
    <3>2. /\ skillLoaded = [t \in DOMAIN skillLoaded |-> skillLoaded[t]]
          /\ \A t \in DOMAIN skillLoaded : t \in SkillNames /\ skillLoaded[t] \in 0..skillWrites
      BY DEF SkillKept, SkillTexts
    <3>3. skillLoaded' = [t \in DOMAIN skillLoaded |-> IF t = s THEN text ELSE skillLoaded[t]]
      BY <3>1
    <3>4. DOMAIN skillLoaded' = DOMAIN skillLoaded
      BY <3>3
    <3>5. skillLoaded' = [t \in DOMAIN skillLoaded' |-> skillLoaded'[t]]
      BY <3>3, <3>4
    <3>6. \A t \in DOMAIN skillLoaded' : t \in SkillNames /\ skillLoaded'[t] \in 0..skillWrites
      BY <3>2, <3>3, <3>4
    <3> QED
      BY <2>1, <3>5, <3>6 DEF SkillTexts
  <2> QED
    BY <2>1, <2>3 DEF SkillKept, SkillNumbers, SkillShelf
<1>5. CASE \E s \in SkillNames, domain \in SkillDomains, readable \in BOOLEAN : Learning!Learn(s, domain, readable)
  BY <1>5, SkillLearnKeeps
<1>6. CASE \E s \in SkillNames, v \in 1..SkillMaxWrites : Learning!Rollback(s, v)
  BY <1>6, SkillRollbackKeeps
<1>7. CASE UNCHANGED Learning!vars
  BY <1>7 DEF Learning!vars, SkillKept, SkillNumbers, SkillShelf, SkillTexts
<1> QED
  BY <1>1, <1>2, <1>3, <1>4, <1>5, <1>6, <1>7 DEF Learning!Next

\* Levels, scores, versions and texts are numbers in their bounds, and an archive has only
\* versions that were written.
LEMMA SkillTypeCorrect == Learning!Spec => []Learning!TypeOK
<1>1. Learning!Init => SkillKept
  <2> SUFFICES ASSUME Learning!Init PROVE SkillKept
    OBVIOUS
  <2>1. /\ skillCfg \in SkillConfigs /\ skillLoaded = << >> /\ skillWrites = 0
        /\ skillTrust.score = (IF Learning!Seed = 0 THEN 0 ELSE SkillThresholds[Learning!Seed])
        /\ skillTold = [stage |-> Learning!Stage(Learning!Seed), from |-> Learning!Stage(Learning!Seed), up |-> TRUE, level |-> 0]
        /\ skillFile = [s \in SkillNames |-> Learning!Absent] /\ skillArchive = [s \in SkillNames |-> << >>]
    BY DEF Learning!Init
  <2>2. SkillNumbers
    BY <2>1, SkillSeedKept, SkillAssumption DEF SkillNumbers
  <2>3. SkillShelf /\ SkillTexts
    BY <2>1 DEF SkillShelf, SkillTexts, Learning!Absent
  <2> QED
    BY <2>2, <2>3 DEF SkillKept
<1>2. SkillInv /\ SkillKept => Learning!TypeOK
  <2> SUFFICES ASSUME SkillInv, SkillKept PROVE Learning!TypeOK
    OBVIOUS
  <2>1. skillTrust.level \in 0..4
    BY DEF SkillInv, SkillTyped
  <2>2. \A i \in DOMAIN skillTrust.pending : skillTrust.pending[i] \in [from : 0..4, to : 0..4]
    <3> DEFINE seeded == [from |-> 0, to |-> skillTrust.level]
    <3>1. seeded \in [from : 0..4, to : 0..4]
      BY <2>1
    <3> HIDE DEF seeded
    <3>2. skillTrust.pending = << >> \/ skillTrust.pending = << seeded >>
      BY DEF SkillInv, SkillTyped, seeded
    <3> QED
      BY <3>1, <3>2
  <2>3. \A s \in SkillNames : /\ DOMAIN skillArchive[s] \subseteq 1..SkillMaxWrites
                              /\ \A v \in DOMAIN skillArchive[s] : skillArchive[s][v] \in Learning!Files
    <3>1. skillWrites \in Nat /\ skillWrites <= SkillMaxWrites
      BY SkillAssumption DEF SkillKept, SkillNumbers
    <3>2. 1..skillWrites \subseteq 1..SkillMaxWrites
      BY <3>1, SkillAssumption
    <3> QED
      BY <3>2 DEF SkillInv, SkillTyped, SkillKept, SkillShelf
  <2> QED
    BY <2>1, <2>2, <2>3 DEF SkillInv, SkillTyped, SkillTold, SkillKept, SkillNumbers, SkillTexts, Learning!TypeOK
<1>3. SkillInv /\ SkillKept /\ [Learning!Next]_(Learning!vars) => SkillKept'
  BY SkillKeeps
<1> QED
  BY <1>1, <1>2, <1>3, SkillStarts, SkillSteps, PTL DEF Learning!Spec

-----------------------------------------------------------------------------
(* Types: a span begins after the one it is in.                            *)

TraceRooted(c) == \A i \in DOMAIN c.spans : c.spans[i].parent < i
TraceDeep == \A r \in TraceRequests : traceTurn[r].at \in {"absent", "gone"} \/ TraceRooted(traceTurn[r])

LEMMA TraceRootedEnds ==
    ASSUME NEW c \in TraceLive, TraceRooted(c), NEW S, NEW d, d = Traces!Ending(c, S)
    PROVE  d \in TraceLive /\ TraceRooted(d)
BY TraceEnding DEF TraceRooted

LEMMA TraceRootedBegins ==
    ASSUME NEW c \in TraceLive, TraceRooted(c), 1 \in DOMAIN c.spans, NEW d, d = Traces!BeginStep(c)
    PROVE  TraceRooted(d)
<1> DEFINE n == Len(c.spans)
           s == [name |-> "step", parent |-> 1, open |-> TRUE, round |-> c.rounds]
           m == [name |-> "model", parent |-> n + 1, open |-> TRUE, round |-> c.rounds]
<1>1. n \in Nat /\ DOMAIN c.spans = 1..n /\ c.spans \in Seq(TraceSpan) /\ c.rounds \in Nat /\ n >= 1
  BY TraceSpans DEF TraceLive
<1>2. s \in TraceSpan /\ m \in TraceSpan /\ s.parent = 1 /\ m.parent = n + 1
  BY <1>1 DEF TraceSpan
<1> DEFINE spans == c.spans \o << s, m >>
<1>3. << s, m >> \in Seq(TraceSpan) /\ Len(<< s, m >>) = 2 /\ << s, m >>[1] = s /\ << s, m >>[2] = m
  BY <1>2
<1>4. /\ spans \in Seq(TraceSpan) /\ Len(spans) = n + 2 /\ spans[n + 1] = s /\ spans[n + 2] = m
      /\ \A i \in 1..n : spans[i] = c.spans[i]
  BY <1>1, <1>3, ConcatProperties
<1>5. DOMAIN spans = 1..(n + 2)
  BY <1>4
<1>6. d = [c EXCEPT !.spans = spans, !.step = n + 1, !.model = n + 1 + 1, !.fresh = FALSE]
  BY DEF Traces!BeginStep, Traces!Span
<1> HIDE DEF s, m, spans
<1>7. d.spans = spans
  BY <1>6 DEF TraceLive
<1>8. ASSUME NEW i \in 1..(n + 2) PROVE spans[i].parent < i
  <2>1. CASE i \in 1..n
    BY <1>1, <1>4, <2>1 DEF TraceRooted
  <2>2. CASE i = n + 1
    BY <1>1, <1>2, <1>4, <2>2
  <2>3. CASE i = n + 2
    BY <1>1, <1>2, <1>4, <2>3
  <2> HIDE DEF n
  <2> QED
    BY <1>1, <2>1, <2>2, <2>3
<1> QED
  BY <1>5, <1>7, <1>8 DEF TraceRooted

LEMMA TraceRootedHears ==
    ASSUME NEW c, TraceGood(c), c.at = "model", TraceRooted(c), NEW d, d = Traces!Heard(c)
    PROVE  d \in TraceLive /\ TraceNest(d) /\ TraceRooted(d) /\ d.pending = c.pending
<1>1. c \in TraceLive /\ TraceNest(c) /\ (TraceBusy(c) \/ TraceFresh(c)) /\ 1 \in DOMAIN c.spans
  BY DEF TraceGood, TraceNest, TraceTree
<1>2. d \in TraceLive /\ TraceNest(d) /\ d.pending = c.pending
  BY <1>1, TraceHears
<1>3. d = c \/ d = Traces!BeginStep(c)
  BY DEF Traces!Heard
<1> QED
  BY <1>1, <1>2, <1>3, TraceRootedBegins

LEMMA TraceRootedCalls ==
    ASSUME NEW b, TraceGood(b), b.at = "model", TraceRooted(b), NEW call,
           NEW d, d = [Traces!ToolCallDelta(b, call) EXCEPT !.said = @ \cup {call}]
    PROVE  TraceRooted(d)
<1>1. PICK c : c = Traces!Heard(b)
  OBVIOUS
<1>2. c \in TraceLive /\ TraceNest(c) /\ TraceRooted(c)
  BY <1>1, TraceRootedHears
<1> DEFINE n == Len(c.spans)
           t == [name |-> "tool", parent |-> c.step, open |-> TRUE, round |-> b.rounds]
           spans == Append(c.spans, t)
           calls == c.pending \cup {[call |-> call, span |-> n + 1]}
<1>3. n \in Nat /\ DOMAIN c.spans = 1..n /\ c.spans \in Seq(TraceSpan) /\ b.rounds \in Nat
  BY <1>2, TraceSpans DEF TraceGood, TraceLive
<1>4. c.step \in Nat /\ c.step <= n
  BY <1>2, <1>3 DEF TraceLive, TraceNest, TraceOpen, Traces!Named
<1>5. t \in TraceSpan /\ t.parent = c.step
  BY <1>3, <1>4 DEF TraceSpan
<1>6. Traces!ToolCallDelta(b, call) = c \/ Traces!ToolCallDelta(b, call) = [c EXCEPT !.spans = spans, !.pending = calls]
  BY <1>1 DEF Traces!ToolCallDelta, Traces!Span
<1> HIDE DEF t, calls
<1>7. /\ spans \in Seq(TraceSpan) /\ Len(spans) = n + 1 /\ spans[n + 1] = t /\ \A i \in 1..n : spans[i] = c.spans[i]
  BY <1>3, <1>5, AppendProperties
<1>8. DOMAIN spans = 1..(n + 1)
  BY <1>7
<1>9. \A i \in 1..(n + 1) : spans[i].parent < i
  BY <1>2, <1>3, <1>4, <1>5, <1>7 DEF TraceRooted
<1> HIDE DEF spans
<1>10. CASE Traces!ToolCallDelta(b, call) = c
  <2>1. d.spans = c.spans
    BY <1>2, <1>10 DEF TraceLive
  <2> QED
    BY <1>2, <2>1 DEF TraceRooted
<1>11. CASE Traces!ToolCallDelta(b, call) = [c EXCEPT !.spans = spans, !.pending = calls]
  <2>1. d.spans = spans
    BY <1>2, <1>11 DEF TraceLive
  <2> QED
    BY <1>8, <1>9, <2>1 DEF TraceRooted
<1> QED
  BY <1>6, <1>10, <1>11

\* The end of a step, with whatever marks.
LEMMA TraceRootedClears ==
    ASSUME NEW e \in TraceLive, TraceRooted(e), NEW rest \in SUBSET e.pending, NEW fresh \in BOOLEAN,
           NEW d, d = [e EXCEPT !.pending = rest, !.fresh = fresh]
    PROVE  /\ d \in TraceLive /\ TraceRooted(d)
           /\ Traces!EndStep(d) \in TraceLive /\ TraceRooted(Traces!EndStep(d))
<1>1. d \in TraceLive /\ d.spans = e.spans
  BY DEF TraceLive
<1>2. TraceRooted(d)
  BY <1>1 DEF TraceRooted
<1>3. PICK f : f = Traces!Ending(d, {d.step, d.model} \ {Traces!None})
  OBVIOUS
<1>4. f \in TraceLive /\ TraceRooted(f)
  BY <1>1, <1>2, <1>3, TraceRootedEnds
<1>5. PICK g : g = Traces!EndStep(d)
  OBVIOUS
<1>6. g = [f EXCEPT !.step = 0, !.model = 0]
  BY <1>3, <1>5 DEF Traces!EndStep, Traces!None
<1>7. g \in TraceLive /\ g.spans = f.spans
  BY <1>4, <1>6 DEF TraceLive
<1> QED
  BY <1>1, <1>2, <1>4, <1>5, <1>7 DEF TraceRooted

LEMMA TraceRootedMarks ==
    ASSUME NEW c \in TraceLive, TraceRooted(c), NEW d, d.spans = c.spans
    PROVE  TraceRooted(d)
BY DEF TraceRooted

LEMMA TraceRootedAnswers ==
    ASSUME NEW c, TraceGood(c), TraceRooted(c), NEW call, NEW d, d = TraceAnswered(c, call)
    PROVE  TraceRooted(d)
<1>1. c \in TraceLive
  BY DEF TraceGood
<1>2. PICK e : e = Traces!Ending(c, Traces!Positions(c, {call}))
  OBVIOUS
<1>3. e \in TraceLive /\ e.pending = c.pending /\ e.fresh = c.fresh /\ c.fresh \in BOOLEAN
  BY <1>1, <1>2, TraceEnding DEF TraceLive
<1>4. PICK rest \in SUBSET c.pending : rest = {p \in e.pending : p.call # call}
  BY <1>3
<1>5. PICK f : f = [e EXCEPT !.pending = rest]
  OBVIOUS
<1>6. f = [e EXCEPT !.pending = rest, !.fresh = c.fresh]
  BY <1>3, <1>5 DEF TraceLive
<1>7. TraceRooted(f) /\ f \in TraceLive /\ Traces!EndStep(f) \in TraceLive /\ TraceRooted(Traces!EndStep(f))
  <2>1. TraceRooted(e)
    BY <1>1, <1>2, TraceRootedEnds
  <2> QED
    BY <1>3, <1>6, <2>1, TraceRootedClears
<1>8. [e EXCEPT !.pending = {p \in @ : p.call # call}] = f
  BY <1>4, <1>5
<1>9. Traces!ToolResult(c, call) = f \/ Traces!ToolResult(c, call) = [Traces!EndStep(f) EXCEPT !.fresh = TRUE]
  BY <1>2, <1>8 DEF Traces!ToolResult
<1>10. PICK g : g = Traces!ToolResult(c, call)
  OBVIOUS
<1>11. g \in TraceLive /\ TraceRooted(g)
  <2>1. PICK h : h = Traces!EndStep(f)
    OBVIOUS
  <2>2. h \in TraceLive /\ TraceRooted(h)
    BY <1>7, <2>1
  <2>3. PICK k : k = [h EXCEPT !.fresh = TRUE]
    OBVIOUS
  <2>4. k \in TraceLive /\ k.spans = h.spans
    BY <2>2, <2>3 DEF TraceLive
  <2>5. TraceRooted(k)
    BY <2>2, <2>4, TraceRootedMarks
  <2> QED
    BY <1>7, <1>9, <1>10, <2>1, <2>3, <2>4, <2>5
<1>12. d.spans = g.spans
  <2>1. PICK h : h = [g EXCEPT !.said = @ \ {call}]
    OBVIOUS
  <2>2. h \in TraceLive /\ h.spans = g.spans /\ d = Traces!GoOn(h)
    BY <1>10, <1>11, <2>1 DEF TraceAnswered, TraceLive
  <2> QED
    BY <2>2 DEF TraceLive, Traces!GoOn
<1> QED
  BY <1>11, <1>12, TraceRootedMarks

\* One turn moves on.
LEMMA TraceDeepens ==
    ASSUME TraceInv, TraceDeep, NEW r \in TraceRequests, NEW d, traceTurn' = [traceTurn EXCEPT ![r] = d],
           d.at \in {"absent", "gone"} \/ TraceRooted(d)
    PROVE  TraceDeep'
<1>1. traceTurn = [q \in TraceRequests |-> traceTurn[q]]
  BY DEF TraceInv
<1>2. traceTurn'[r] = d /\ \A q \in TraceRequests \ {r} : traceTurn'[q] = traceTurn[q]
  BY <1>1
<1> QED
  BY <1>2 DEF TraceDeep, TraceRooted

LEMMA TraceDeepStays ==
    ASSUME TraceInv, TraceDeep, [Traces!Next]_(Traces!vars)
    PROVE  TraceDeep'
<1>1. ASSUME UNCHANGED traceTurn PROVE TraceDeep'
  BY <1>1 DEF TraceDeep, TraceRooted
<1>2. ASSUME NEW r \in TraceRequests, NEW session \in TraceSessions, NEW joins \in BOOLEAN, NEW stream \in BOOLEAN,
             Traces!Begin(r, session, joins, stream)
      PROVE  TraceDeep'
  <2>1. PICK trace : trace = IF joins THEN Traces!Joined ELSE r
    OBVIOUS
  <2>2. trace \in Traces!Traces
    BY <2>1 DEF Traces!Traces
  <2>3. PICK span : span = [name |-> "request", parent |-> 0, open |-> TRUE, round |-> 1]
    OBVIOUS
  <2>4. span \in TraceSpan /\ span.parent = 0
    BY <2>3 DEF TraceSpan
  <2>5. PICK spans : spans = << span >>
    OBVIOUS
  <2>6. spans \in Seq(TraceSpan) /\ DOMAIN spans = 1..1 /\ spans[1] = span
    BY <2>4, <2>5
  <2>7. PICK b : b = Traces!Collector(session, trace, stream)
    OBVIOUS
  <2>8. b = [at |-> "queued", session |-> session, trace |-> trace, stream |-> stream, spans |-> spans, step |-> 0,
             model |-> 0, pending |-> {}, fresh |-> FALSE, said |-> {}, skipped |-> {}, rounds |-> 1, failed |-> FALSE]
    BY <2>3, <2>5, <2>7 DEF Traces!Collector, Traces!Span, Traces!None
  <2>9. b \in TraceLive /\ b.spans = spans
    BY <2>2, <2>6, <2>8 DEF TraceLive
  <2>10. TraceRooted(b) /\ 1 \in DOMAIN b.spans
    BY <2>4, <2>6, <2>9 DEF TraceRooted
  <2>11. PICK d : d = Traces!BeginStep(b)
    OBVIOUS
  <2>12. TraceRooted(d)
    BY <2>9, <2>10, <2>11, TraceRootedBegins
  <2>13. traceTurn' = [traceTurn EXCEPT ![r] = d]
    BY <1>2, <2>1, <2>7, <2>11 DEF Traces!Begin
  <2> QED
    BY <2>12, <2>13, TraceDeepens
<1>3. ASSUME NEW r \in TraceRequests, traceTurn[r].at \in {"queued", "model", "tools", "ending", "collected"}
      PROVE  TraceGood(traceTurn[r]) /\ traceTurn[r] \in TraceLive /\ TraceRooted(traceTurn[r])
  BY <1>3, TraceIsGood DEF TraceGood, TraceDeep
<1>4. ASSUME NEW r \in TraceRequests, Traces!TakeAgent(r) PROVE TraceDeep'
  <2>1. PICK c : c = traceTurn[r]
    OBVIOUS
  <2>2. c.at = "queued"
    BY <1>4, <2>1 DEF Traces!TakeAgent
  <2>3. TraceRooted(c) /\ c \in TraceLive
    BY <1>3, <2>1, <2>2
  <2>4. traceTurn' = [traceTurn EXCEPT ![r].at = "model"]
    BY <1>4 DEF Traces!TakeAgent
  <2>5. PICK d : d = [c EXCEPT !.at = "model"]
    OBVIOUS
  <2>6. d.spans = c.spans /\ traceTurn' = [traceTurn EXCEPT ![r] = d]
    BY <2>1, <2>3, <2>4, <2>5 DEF TraceLive
  <2> QED
    BY <2>3, <2>6, TraceRootedMarks, TraceDeepens
<1>a. ASSUME NEW r \in TraceRequests, Traces!RunTools(r) PROVE TraceDeep'
  <2>1. PICK c : c = traceTurn[r]
    OBVIOUS
  <2>2. PICK named \in SUBSET c.said : traceTurn' = [traceTurn EXCEPT ![r] = Traces!Execute(c, named)] /\ c.at = "model"
    BY <1>a, <2>1 DEF Traces!RunTools
  <2>3. TraceRooted(c) /\ c \in TraceLive
    BY <1>3, <2>1, <2>2
  <2>4. PICK skipped : skipped = c.skipped \cup Traces!Positions(c, c.said \ named)
    OBVIOUS
  <2>5. PICK e : e = [c EXCEPT !.said = named, !.skipped = skipped]
    OBVIOUS
  <2>6. e.spans = c.spans /\ DOMAIN e = DOMAIN c /\ Traces!Execute(c, named) = Traces!GoOn(e)
    BY <2>3, <2>4, <2>5 DEF TraceLive, Traces!Execute
  <2>7. PICK d : d = Traces!GoOn(e)
    OBVIOUS
  <2>8. d.spans = c.spans
    BY <2>3, <2>5, <2>6, <2>7 DEF TraceLive, Traces!GoOn
  <2> QED
    BY <2>2, <2>3, <2>6, <2>7, <2>8, TraceRootedMarks, TraceDeepens
<1>5. ASSUME NEW r \in TraceRequests, Traces!Talk(r) PROVE TraceDeep'
  <2>1. PICK d : d = Traces!Heard(traceTurn[r])
    OBVIOUS
  <2>2. traceTurn[r].at = "model" /\ traceTurn' = [traceTurn EXCEPT ![r] = d]
    BY <1>5, <2>1 DEF Traces!Talk, TraceInv
  <2> QED
    BY <1>3, <2>1, <2>2, TraceRootedHears, TraceDeepens
<1>6. ASSUME NEW r \in TraceRequests, NEW call, Traces!CallTool(r, call) PROVE TraceDeep'
  <2>1. PICK d : d = [Traces!ToolCallDelta(traceTurn[r], call) EXCEPT !.said = @ \cup {call}]
    OBVIOUS
  <2>2. traceTurn[r].at = "model" /\ traceTurn' = [traceTurn EXCEPT ![r] = d]
    BY <1>6, <2>1 DEF Traces!CallTool
  <2> QED
    BY <1>3, <2>1, <2>2, TraceRootedCalls, TraceDeepens
<1>7. ASSUME NEW r \in TraceRequests, NEW call, Traces!Answer(r, call) PROVE TraceDeep'
  <2>1. PICK d : d = TraceAnswered(traceTurn[r], call)
    OBVIOUS
  <2>2. traceTurn[r].at = "tools" /\ traceTurn' = [traceTurn EXCEPT ![r] = d]
    BY <1>7, <2>1 DEF Traces!Answer, TraceAnswered
  <2> QED
    BY <1>3, <2>1, <2>2, TraceRootedAnswers, TraceDeepens
<1>8. ASSUME NEW r \in TraceRequests, Traces!Complete(r) PROVE TraceDeep'
  <2>1. PICK c : c = traceTurn[r]
    OBVIOUS
  <2>2. c.at \in {"model", "tools"}
    BY <1>8, <2>1 DEF Traces!Complete
  <2>3. TraceRooted(c) /\ c \in TraceLive
    BY <1>3, <2>1, <2>2
  <2>4. PICK at : at = IF c.stream THEN "ending" ELSE "collected"
    OBVIOUS
  <2>a. PICK b : b = Traces!Ending(c, Traces!Positions(c, TraceCalls))
    OBVIOUS
  <2>b. b \in TraceLive /\ TraceRooted(b) /\ {} \in SUBSET b.pending /\ FALSE \in BOOLEAN
    BY <2>3, <2>a, TraceRootedEnds
  <2>5. PICK e : e = [b EXCEPT !.pending = {}, !.fresh = FALSE]
    OBVIOUS
  <2>6. PICK f : f = Traces!EndStep(e)
    OBVIOUS
  <2>7. f \in TraceLive /\ TraceRooted(f)
    BY <2>5, <2>6, <2>b, TraceRootedClears
  <2>8. PICK d : d = [f EXCEPT !.at = at]
    OBVIOUS
  <2>9. traceTurn' = [traceTurn EXCEPT ![r] = d]
    BY <1>8, <2>1, <2>4, <2>5, <2>6, <2>8, <2>a DEF Traces!Complete, Traces!StreamComplete, TraceInv
  <2>10. d.spans = f.spans
    BY <2>7, <2>8 DEF TraceLive
  <2> QED
    BY <2>7, <2>9, <2>10, TraceRootedMarks, TraceDeepens
<1>9. ASSUME NEW r \in TraceRequests, NEW c, traceTurn' = [traceTurn EXCEPT ![r] = Traces!Gone(c)] PROVE TraceDeep'
  <2>1. PICK d : d = Traces!Gone(c)
    OBVIOUS
  <2>2. d.at = "gone"
    BY <2>1 DEF Traces!Gone
  <2> QED
    BY <1>9, <2>1, <2>2, TraceDeepens
<1>10. ASSUME NEW r \in TraceRequests, Traces!Raise(r) \/ Traces!Disconnect(r) PROVE TraceDeep'
  <2>1. PICK c : c = traceTurn[r]
    OBVIOUS
  <2>2. /\ c.at \in {"queued", "model", "tools", "ending", "collected"}
        /\ \/ traceTurn' = [traceTurn EXCEPT ![r] = [c EXCEPT !.at = "ending", !.failed = TRUE]]
           \/ traceTurn' = [traceTurn EXCEPT ![r] = Traces!Gone(c)]
    <3>1. CASE Traces!Raise(r) /\ c.stream
      BY <2>1, <3>1 DEF Traces!Raise, TraceInv
    <3>2. CASE Traces!Raise(r) /\ ~c.stream
      BY <2>1, <3>2 DEF Traces!Raise, TraceInv
    <3>3. CASE Traces!Disconnect(r)
      BY <2>1, <3>3 DEF Traces!Disconnect, TraceInv
    <3> QED
      BY <1>10, <3>1, <3>2, <3>3
  <2>3. TraceRooted(c) /\ c \in TraceLive
    BY <1>3, <2>1, <2>2
  <2>4. PICK d : d = [c EXCEPT !.at = "ending", !.failed = TRUE]
    OBVIOUS
  <2>5. d.spans = c.spans
    BY <2>3, <2>4 DEF TraceLive
  <2> QED
    BY <1>9, <2>2, <2>3, <2>4, <2>5, TraceRootedMarks, TraceDeepens
<1>11. ASSUME NEW r \in TraceRequests, Traces!EndRequest(r) PROVE TraceDeep'
  BY <1>9, <1>11 DEF Traces!EndRequest
<1>12. ASSUME NEW r \in TraceRequests, Traces!Step(r) PROVE TraceDeep'
  BY <1>2, <1>4, <1>5, <1>6, <1>7, <1>8, <1>10, <1>11, <1>12, <1>a DEF Traces!Step
<1>13. ASSUME NEW cutoff, Traces!DeleteBefore(cutoff) PROVE TraceDeep'
  BY <1>1, <1>13 DEF Traces!DeleteBefore
<1>14. ASSUME UNCHANGED Traces!vars PROVE TraceDeep'
  BY <1>1, <1>14 DEF Traces!vars
<1> QED
  BY <1>12, <1>13, <1>14 DEF Traces!Next

\* Spans are in spans that began before them, and rows are of requests there were.
LEMMA TraceTypeCorrect == Traces!Spec => []Traces!TypeOK
<1> DEFINE Stored == traceBackend \in TraceBackends
<1>1. Traces!Init => TraceDeep /\ Stored
  BY DEF Traces!Init, Traces!Absent, TraceDeep
<1>2. TraceInv /\ TraceDeep /\ Stored => Traces!TypeOK
  <2> SUFFICES ASSUME TraceInv, TraceDeep, Stored PROVE Traces!TypeOK
    OBVIOUS
  <2>1. ASSUME NEW r \in TraceRequests, traceTurn[r] # Traces!Absent
        PROVE  /\ traceTurn[r].at \in {"queued", "model", "tools", "ending", "collected", "gone"}
               /\ traceTurn[r].session \in TraceSessions /\ traceTurn[r].trace \in {Traces!Joined, r}
               /\ traceTurn[r].at # "gone" => \A i \in DOMAIN traceTurn[r].spans :
                    /\ traceTurn[r].spans[i].name \in {"request", "step", "model", "tool"}
                    /\ traceTurn[r].spans[i].parent \in 0 .. i - 1
    <3>1. PICK c : c = traceTurn[r]
      OBVIOUS
    <3>2. (TraceGone(c) \/ TraceGood(c)) /\ c.trace \in {Traces!Joined, r}
      BY <2>1, <3>1 DEF TraceInv, TraceTurn
    <3>3. CASE TraceGone(c)
      BY <3>1, <3>2, <3>3 DEF TraceGone
    <3>4. CASE TraceGood(c)
      <4>1. c \in TraceLive /\ c.at \in {"queued", "model", "tools", "ending", "collected"} /\ c.session \in TraceSessions
        BY <3>4 DEF TraceGood, TraceLive
      <4>2. TraceRooted(c)
        BY <3>1, <4>1 DEF TraceDeep
      <4>3. ASSUME NEW i \in DOMAIN c.spans
            PROVE  c.spans[i].name \in {"request", "step", "model", "tool"} /\ c.spans[i].parent \in 0 .. i - 1
        <5>1. c.spans[i] \in TraceSpan /\ i \in Nat /\ c.spans[i].parent < i
          BY <4>1, <4>2, TraceSpans DEF TraceRooted
        <5> QED
          BY <5>1 DEF TraceSpan
      <4> QED
        BY <3>1, <3>2, <4>1, <4>3
    <3> QED
      BY <3>2, <3>3, <3>4
  <2>2. \A t \in Traces!Traces : traceTable[t] # Traces!NoRow => traceTable[t].from \in TraceRequests
    BY DEF TraceInv, TraceTold, TraceRow
  <2> QED
    BY <2>1, <2>2 DEF Traces!TypeOK
<1>3. TraceInv /\ TraceDeep /\ [Traces!Next]_(Traces!vars) => TraceDeep'
  BY TraceDeepStays
<1>4. Stored /\ [Traces!Next]_(Traces!vars) => Stored'
  BY DEF Traces!Next, Traces!vars, Traces!Step, Traces!Begin, Traces!TakeAgent, Traces!Talk, Traces!RunTools, Traces!CallTool,
         Traces!Answer, Traces!Complete, Traces!Raise, Traces!Disconnect, Traces!EndRequest, Traces!DeleteBefore
<1> HIDE DEF Stored
<1> QED
  BY <1>1, <1>2, <1>3, <1>4, TraceInit, TraceNext, PTL DEF Traces!Spec
=============================================================================
