-------------------------- MODULE ChatServerProofs --------------------------
(***************************************************************************)
(* ChatServer for any number of requests, events and sessions: a turn has  *)
(* the agent to itself, histories stay apart and are not lost, and without *)
(* sync requests a question stays in its session and its tool runs once.   *)
(*                                                                         *)
(* The inductive invariant follows a request from its arrival to its end:  *)
(* who holds the lock (Lock), whose messages it carries (Apart), what of   *)
(* its session it has read (Alone), and where a question is between the    *)
(* turn that asks it and the request that answers it (Questions).          *)
(***************************************************************************)
EXTENDS ChatServer, SequenceTheorems, TLAPS

\* In its turn, or in a stream's saving of it.
Holds(r) == InTurn(r) \/ (req[r].kind = "stream" /\ req[r].pc \in {"save", "question"})

Waits(r) == \E k \in DOMAIN queue : queue[k] = r

Lock ==
    \A r \in Requests :
        /\ Holds(r) => queue # << >> /\ Head(queue) = r
        /\ At(r, "queued") => Waits(r)
        /\ InTurn(r) => agent.messages = req[r].messages

\* What a request has in hand, by where it is.
Local ==
    \A r \in Requests :
        /\ At(r, "new") => req[r] = NewRequest
        /\ ~At(r, "new") => req[r].kind \in Kinds
        /\ req[r].pc \in {"guard", "clear", "decide", "save", "question"} => HasSession(r)
        /\ At(r, "question") => req[r].kind # "event"
        /\ At(r, "decide") => req[r].question # Nobody

Apart ==
    /\ SessionsStayApart
    /\ \A r \in Requests : \A x \in req[r].messages :
          x = r \/ (HasSession(r) /\ req[x].session = req[r].session)

\* A session that no two requests have used at a time has one request at most, which
\* has read all of its history.
Alone ==
    \A s \in Sessions \ overlapped : \A r \in Requests :
        Active(r) /\ req[r].session = s =>
            /\ \A x \in Requests : Active(x) /\ req[x].session = s => x = r
            /\ ~At(r, "load") => store[s].messages \subseteq req[r].messages

PendingIn(q, s) == store[s].pending = q
InHand(q, r) == req[r].pc \in {"clear", "decide"} /\ req[r].question = q

\* The question on the agent was asked by the turn in progress.
Fresh == NoSyncRequest => \A r \in Requests : Holds(r) => agent.pending \in {r, Nobody}

\* Once asked, a question is in its session's row; then with the requests that have read
\* it there; then its tool runs, and it is nowhere.
Travels(q) ==
    /\ \A s \in Sessions : PendingIn(q, s) => req[q].session = s /\ At(q, "done")
    /\ \A r \in Requests : InHand(q, r) => req[q].session = req[r].session /\ At(q, "done")
    /\ executed[q] > 0 => At(q, "done")
    /\ req[q].session \notin overlapped =>
         /\ executed[q] \in {0, 1}
         /\ executed[q] = 1 =>
              /\ \A s \in Sessions : ~PendingIn(q, s)
              /\ \A r \in Requests : ~InHand(q, r)
         /\ \A r \in Requests : InHand(q, r) /\ At(r, "decide") =>
              \A s \in Sessions : ~PendingIn(q, s)

Questions ==
    /\ \A s \in Sessions : ~store[s].exists => store[s].pending = Nobody
    /\ NoSyncRequest => \A q \in Requests : Travels(q)

IInv == TypeOK /\ Lock /\ Local /\ Apart /\ Alone /\ Fresh /\ Questions

-----------------------------------------------------------------------------
(* The queue of the lock.                                                  *)
LEMMA Joining ==
    ASSUME NEW q \in Seq(Requests), NEW r \in Requests
    PROVE  /\ Append(q, r) \in Seq(Requests)
           /\ Append(q, r) # << >>
           /\ Head(Append(q, r)) = IF q = << >> THEN r ELSE Head(q)
           /\ \A x \in Requests :
                (\E k \in DOMAIN q : q[k] = x) \/ x = r => \E k \in DOMAIN Append(q, r) : Append(q, r)[k] = x
<1>1. /\ Append(q, r) \in Seq(Requests) /\ Len(q) \in Nat /\ DOMAIN q = 1..Len(q)
      /\ DOMAIN Append(q, r) = 1..(Len(q) + 1) /\ Len(Append(q, r)) = Len(q) + 1
      /\ \A k \in 1..Len(q) : Append(q, r)[k] = q[k]
      /\ Append(q, r)[Len(q) + 1] = r
  BY AppendProperties, LenProperties
<1>2. Append(q, r) # << >>
  BY <1>1
<1>3. Head(Append(q, r)) = IF q = << >> THEN r ELSE Head(q)
  BY <1>1
<1> QED
  BY <1>1, <1>2, <1>3

LEMMA Leaving ==
    ASSUME queue \in Seq(Requests), NEW r \in Requests, Leave(r)
    PROVE  /\ queue' \in Seq(Requests)
           /\ queue # << >> /\ Head(queue) # r => queue' # << >> /\ Head(queue') = Head(queue)
           /\ \A x \in Requests : x # r /\ Waits(x) => Waits(x)'
<1>1. CASE Waits(r)
  <2>1. PICK k \in DOMAIN queue : queue[k] = r /\ queue' = Without(queue, k)
    BY <1>1 DEF Leave, Waits
  <2> DEFINE n == Len(queue)
             a == SubSeq(queue, 1, k - 1)
             b == SubSeq(queue, k + 1, n)
  <2>2. n \in Nat /\ DOMAIN queue = 1..n /\ k \in 1..n
    BY <2>1, LenProperties
  <2>3. a \in Seq(Requests) /\ Len(a) = k - 1 /\ \A i \in 1..(k - 1) : a[i] = queue[i]
    BY <2>2, SubSeqProperties
  <2>4. b \in Seq(Requests) /\ Len(b) = n - k /\ \A i \in 1..(n - k) : b[i] = queue[k + i]
    BY <2>2, SubSeqProperties
  <2>5. /\ queue' \in Seq(Requests) /\ Len(queue') = n - 1 /\ DOMAIN queue' = 1..(n - 1)
        /\ \A i \in 1..(n - 1) : queue'[i] = IF i < k THEN queue[i] ELSE queue[i + 1]
    <3>1. queue' = a \o b
      BY <2>1 DEF Without
    <3> HIDE DEF n, a, b
    <3>2. /\ a \o b \in Seq(Requests) /\ Len(a \o b) = Len(a) + Len(b)
          /\ \A i \in 1..(Len(a) + Len(b)) : (a \o b)[i] = IF i <= Len(a) THEN a[i] ELSE b[i - Len(a)]
      BY <2>3, <2>4, ConcatProperties
    <3>3. Len(a) + Len(b) = n - 1
      BY <2>2, <2>3, <2>4
    <3>4. queue' \in Seq(Requests) /\ Len(queue') = n - 1 /\ DOMAIN queue' = 1..(n - 1)
      BY <3>1, <3>2, <3>3, LenProperties
    <3>5. ASSUME NEW i \in 1..(n - 1) PROVE queue'[i] = IF i < k THEN queue[i] ELSE queue[i + 1]
      <4>1. queue'[i] = IF i <= k - 1 THEN a[i] ELSE b[i - (k - 1)]
        BY <2>3, <3>1, <3>2, <3>3
      <4>2. CASE i < k
        BY <2>2, <2>3, <4>1, <4>2
      <4>3. CASE ~(i < k)
        <5>1. i - (k - 1) \in 1..(n - k) /\ k + (i - (k - 1)) = i + 1 /\ ~(i <= k - 1)
          BY <2>2, <4>3
        <5> QED
          BY <2>4, <4>1, <4>3, <5>1
      <4> QED
        BY <4>2, <4>3
    <3> QED
      BY <3>4, <3>5
  <2>6. queue # << >> /\ Head(queue) # r => queue' # << >> /\ Head(queue') = Head(queue)
    BY <2>1, <2>2, <2>5
  <2>7. ASSUME NEW x \in Requests, x # r, Waits(x) PROVE Waits(x)'
    <3>1. PICK j \in DOMAIN queue : queue[j] = x
      BY <2>7 DEF Waits
    <3>2. j # k
      BY <2>1, <2>7, <3>1
    <3>3. CASE j < k
      BY <2>2, <2>5, <3>1, <3>3 DEF Waits
    <3>4. CASE j > k
      <4>1. j - 1 \in 1..(n - 1) /\ queue'[j - 1] = x
        BY <2>2, <2>5, <3>1, <3>4
      <4> QED
        BY <2>5, <4>1 DEF Waits
    <3> QED
      BY <2>2, <3>1, <3>2, <3>3, <3>4
  <2> QED
    BY <2>5, <2>6, <2>7
<1>2. CASE ~Waits(r)
  BY <1>2 DEF Leave, Waits
<1> QED
  BY <1>1, <1>2

LEMMA Steps ==
    ASSUME NEW local \in Request, NEW pc \in PCs
    PROVE  /\ Step(local, pc) \in Request
           /\ Step(local, pc).pc = pc
           /\ Step(local, pc).session = local.session
           /\ Step(local, pc).kind = local.kind
           /\ Step(local, pc).answers = local.answers
           /\ Step(local, pc).question = IF pc \in {"clear", "decide"} THEN local.question ELSE Nobody
           /\ Step(local, pc).messages = IF pc = "done" THEN {} ELSE local.messages
BY DEF Step, Request

-----------------------------------------------------------------------------
(* What the actions do, in the terms of the invariant.                     *)

\* r goes to pc with this question and these messages; nobody else moves.
Moves(r, pc, question, messages) ==
    /\ req' \in [Requests -> Request]
    /\ \A x \in Requests : x # r => req'[x] = req[x]
    /\ req'[r].session = req[r].session /\ req'[r].kind = req[r].kind
    /\ req'[r].pc = pc /\ req'[r].question = question /\ req'[r].messages = messages

Joins(r) ==
    /\ queue' \in Seq(Requests) /\ queue' # << >>
    /\ Head(queue') = IF queue = << >> THEN r ELSE Head(queue)
    /\ \A x \in Requests : Waits(x) \/ x = r => Waits(x)'

Leaves(r) ==
    /\ queue' \in Seq(Requests)
    /\ queue # << >> /\ Head(queue) # r => queue' # << >> /\ Head(queue') = Head(queue)
    /\ \A x \in Requests : x # r /\ Waits(x) => Waits(x)'

LEMMA Going ==
    ASSUME TypeOK, NEW r \in Requests, NEW local \in Request, NEW pc \in PCs,
           local.session = req[r].session, local.kind = req[r].kind,
           req' = [req EXCEPT ![r] = Step(local, pc)]
    PROVE  Moves(r, pc, IF pc \in {"clear", "decide"} THEN local.question ELSE Nobody,
                        IF pc = "done" THEN {} ELSE local.messages)
<1>1. /\ Step(local, pc) \in Request
      /\ Step(local, pc).pc = pc
      /\ Step(local, pc).session = local.session
      /\ Step(local, pc).kind = local.kind
      /\ Step(local, pc).question = IF pc \in {"clear", "decide"} THEN local.question ELSE Nobody
      /\ Step(local, pc).messages = IF pc = "done" THEN {} ELSE local.messages
  BY Steps
<1>2. req'[r] = Step(local, pc) /\ \A x \in Requests : x # r => req'[x] = req[x]
  BY DEF TypeOK
<1>3. req' \in [Requests -> Request]
  BY <1>1 DEF TypeOK
<1> QED
  BY <1>1, <1>2, <1>3 DEF Moves

LEMMA Goes ==
    ASSUME TypeOK, NEW r \in Requests, NEW pc \in PCs, Goto(r, pc)
    PROVE  Moves(r, pc, IF pc \in {"clear", "decide"} THEN req[r].question ELSE Nobody,
                        IF pc = "done" THEN {} ELSE req[r].messages)
<1>1. req[r] \in Request /\ req' = [req EXCEPT ![r] = Step(req[r], pc)]
  BY DEF TypeOK, Goto
<1> QED
  BY <1>1, Going

LEMMA Queueing ==
    ASSUME TypeOK, NEW r \in Requests, NEW a \in Agent, NEW local \in Request,
           local.session = req[r].session, local.kind = req[r].kind, JoinQueue(r, a, local)
    PROVE  /\ agent' \in Agent
           /\ Joins(r)
           /\ queue = << >> =>
                /\ Moves(r, "turn", local.question, local.messages)
                /\ agent'.messages = local.messages /\ agent'.pending = Nobody
           /\ queue # << >> => Moves(r, "queued", local.question, local.messages) /\ agent' = a
<1>1. Joins(r)
  <2>1. queue' = Append(queue, r) /\ queue \in Seq(Requests)
    BY DEF JoinQueue, TypeOK
  <2>2. /\ Append(queue, r) \in Seq(Requests)
        /\ Append(queue, r) # << >>
        /\ Head(Append(queue, r)) = IF queue = << >> THEN r ELSE Head(queue)
        /\ \A x \in Requests :
             (\E k \in DOMAIN queue : queue[k] = x) \/ x = r =>
                \E k \in DOMAIN Append(queue, r) : Append(queue, r)[k] = x
    BY <2>1, Joining
  <2> QED
    BY <2>1, <2>2 DEF Joins, Waits
<1>2. CASE queue = << >>
  <2>1. agent' = SetUp(r, a, local.messages) /\ req' = [req EXCEPT ![r] = [local EXCEPT !.pc = "turn"]]
    BY <1>2 DEF JoinQueue
  <2>2. agent' \in Agent /\ agent'.messages = local.messages /\ agent'.pending = Nobody
    BY <2>1 DEF SetUp, Agent, Request
  <2>3. Moves(r, "turn", local.question, local.messages)
    BY <2>1 DEF Moves, TypeOK, Request, PCs
  <2> QED
    BY <1>1, <1>2, <2>2, <2>3
<1>3. CASE queue # << >>
  <2>1. agent' = a /\ req' = [req EXCEPT ![r] = [local EXCEPT !.pc = "queued"]]
    BY <1>3 DEF JoinQueue
  <2>2. Moves(r, "queued", local.question, local.messages)
    BY <2>1 DEF Moves, TypeOK, Request, PCs
  <2> QED
    BY <1>1, <1>3, <2>1, <2>2
<1> QED
  BY <1>2, <1>3

\* The lock is left with the turn, but by a stream that has its session to save.
Keeps(r) == req[r].kind = "stream" /\ HasSession(r)

LEMMA Saving ==
    ASSUME TypeOK, NEW r \in Requests, ToSave(r)
    PROVE  /\ IF HasSession(r) THEN Moves(r, "save", Nobody, agent.messages)
                               ELSE Moves(r, "done", Nobody, {})
           /\ IF Keeps(r) THEN UNCHANGED queue ELSE Leaves(r)
<1> DEFINE local == [req[r] EXCEPT !.messages = agent.messages]
           pc == IF HasSession(r) THEN "save" ELSE "done"
<1>1. local \in Request /\ local.session = req[r].session /\ local.kind = req[r].kind
      /\ local.messages = agent.messages
  <2>1. req[r] \in Request /\ agent.messages \in SUBSET Requests
    BY DEF TypeOK, Agent
  <2> QED
    BY <2>1 DEF Request
<1>2. req' = [req EXCEPT ![r] = Step(local, pc)] /\ pc \in PCs
  BY DEF ToSave, PCs
<1>3. Moves(r, pc, IF pc \in {"clear", "decide"} THEN local.question ELSE Nobody,
                   IF pc = "done" THEN {} ELSE local.messages)
  <2> HIDE DEF local, pc
  <2> QED
    BY <1>1, <1>2, Going
<1>4. IF HasSession(r) THEN Moves(r, "save", Nobody, agent.messages) ELSE Moves(r, "done", Nobody, {})
  BY <1>1, <1>3
<1>5. IF Keeps(r) THEN UNCHANGED queue ELSE Leaves(r)
  <2>1. IF Keeps(r) THEN UNCHANGED queue ELSE Leave(r)
    BY DEF ToSave, Keeps
  <2>2. queue \in Seq(Requests)
    BY DEF TypeOK
  <2> QED
    BY <2>1, <2>2, Leaving DEF Leaves
<1> QED
  BY <1>4, <1>5

LEMMA Loading ==
    ASSUME TypeOK, NEW r \in Requests, Load(r)
    PROVE  \E m \in SUBSET Requests :
             /\ m = {r} \cup IF HasSession(r) THEN Stored(r).messages ELSE {}
             /\ agent' \in Agent
             /\ \/ /\ req[r].kind = "event" /\ queue = << >> /\ Joins(r)
                   /\ Moves(r, "turn", req[r].question, m)
                   /\ agent'.messages = m /\ agent'.pending = Nobody
                \/ /\ req[r].kind = "event" /\ queue # << >> /\ Joins(r)
                   /\ Moves(r, "queued", req[r].question, m)
                   /\ UNCHANGED agent
                \/ /\ req[r].kind # "event"
                   /\ Moves(r, IF HasSession(r) THEN "guard" ELSE "enter", req[r].question, m)
                   /\ UNCHANGED << agent, queue >>
<1> DEFINE m == {r} \cup IF HasSession(r) THEN Stored(r).messages ELSE {}
           local == [req[r] EXCEPT !.messages = m, !.pc = IF HasSession(r) THEN "guard" ELSE "enter"]
<1>1. req[r] \in Request /\ agent \in Agent
  BY DEF TypeOK
<1>2. m \in SUBSET Requests
  BY <1>1 DEF TypeOK, HasSession, Stored, Session, Request
<1>3. /\ local \in Request /\ local.session = req[r].session /\ local.kind = req[r].kind
      /\ local.question = req[r].question /\ local.messages = m
      /\ local.pc = IF HasSession(r) THEN "guard" ELSE "enter"
  <2> HIDE DEF m
  <2> QED
    BY <1>1, <1>2 DEF Request, PCs
<1>4. /\ req[r].kind = "event" => JoinQueue(r, agent, local)
      /\ req[r].kind # "event" => req' = [req EXCEPT ![r] = local] /\ UNCHANGED << agent, queue >>
  BY DEF Load
<1> HIDE DEF m, local
<1>5. CASE req[r].kind = "event"
  BY <1>1, <1>2, <1>3, <1>4, <1>5, Queueing DEF m
<1>6. CASE req[r].kind # "event"
  <2>1. Moves(r, IF HasSession(r) THEN "guard" ELSE "enter", req[r].question, m)
    BY <1>3, <1>4, <1>6 DEF Moves, TypeOK
  <2> QED
    BY <1>1, <1>2, <1>4, <1>6, <2>1 DEF m
<1> QED
  BY <1>5, <1>6

LEMMA Guarding ==
    ASSUME TypeOK, Local, NEW r \in Requests, Guard(r)
    PROVE  \/ Moves(r, "clear", Stored(r).pending, req[r].messages) /\ req[r].answers
           \/ Moves(r, "enter", Nobody, req[r].messages) /\ Stored(r).pending = Nobody
           \/ Moves(r, "done", Nobody, {})
<1> DEFINE local == [req[r] EXCEPT !.question = Stored(r).pending]
           pc == IF req[r].answers THEN "clear" ELSE IF Stored(r).pending = Nobody THEN "enter" ELSE "done"
<1>1. req[r] \in Request /\ Stored(r).pending \in Requests \cup {Nobody}
  BY DEF TypeOK, Local, Guard, At, HasSession, Stored, Session, Request
<1>2. /\ local \in Request /\ local.session = req[r].session /\ local.kind = req[r].kind
      /\ local.question = Stored(r).pending /\ local.messages = req[r].messages
  BY <1>1 DEF Request
<1>3. pc \in PCs /\ req' = [req EXCEPT ![r] = Step(local, pc)]
  BY DEF Guard, PCs
<1>4. Moves(r, pc, IF pc \in {"clear", "decide"} THEN local.question ELSE Nobody,
                   IF pc = "done" THEN {} ELSE local.messages)
  <2> HIDE DEF local, pc
  <2> QED
    BY <1>2, <1>3, Going
<1> QED
  BY <1>2, <1>4

LEMMA Entering ==
    ASSUME TypeOK, NEW r \in Requests, Enter(r)
    PROVE  /\ agent' \in Agent
           /\ \/ /\ req[r].kind = "stream" /\ Moves(r, "respond", Nobody, req[r].messages)
                 /\ UNCHANGED queue
                 /\ agent'.messages = agent.messages /\ agent'.pending \in {agent.pending, Nobody}
              \/ /\ queue = << >> /\ Joins(r) /\ Moves(r, "turn", Nobody, req[r].messages)
                 /\ agent'.messages = req[r].messages /\ agent'.pending = Nobody
              \/ /\ queue # << >> /\ Joins(r) /\ Moves(r, "queued", Nobody, req[r].messages)
                 /\ agent'.messages = agent.messages /\ agent'.pending \in {agent.pending, Nobody}
<1> DEFINE a == [agent EXCEPT !.pending = IF req[r].answers /\ HasSession(r) THEN Nobody ELSE @,
                              !.inbound = r]
           local == Step(req[r], "enter")
<1>1. req[r] \in Request /\ agent \in Agent
  BY DEF TypeOK
<1>2. a \in Agent /\ a.messages = agent.messages /\ a.pending \in {agent.pending, Nobody}
  BY <1>1 DEF Agent
<1>3. /\ local \in Request /\ local.session = req[r].session /\ local.kind = req[r].kind
      /\ local.question = Nobody /\ local.messages = req[r].messages
  BY <1>1, Steps DEF PCs
<1>4. /\ req[r].kind = "stream" => agent' = a /\ Goto(r, "respond") /\ UNCHANGED queue
      /\ req[r].kind # "stream" => JoinQueue(r, a, local)
  BY DEF Enter
<1> HIDE DEF a, local
<1>5. CASE req[r].kind = "stream"
  BY <1>2, <1>4, <1>5, Goes DEF PCs
<1>6. CASE req[r].kind # "stream"
  BY <1>2, <1>3, <1>4, <1>6, Queueing
<1> QED
  BY <1>5, <1>6

LEMMA Starting ==
    ASSUME TypeOK, NEW r \in Requests, StartTurn(r)
    PROVE  /\ Moves(r, "turn", Nobody, req[r].messages)
           /\ agent' \in Agent /\ agent'.messages = req[r].messages /\ agent'.pending = Nobody
<1>1. req[r] \in Request /\ agent \in Agent
  BY DEF TypeOK
<1>2. agent' \in Agent /\ agent'.messages = req[r].messages /\ agent'.pending = Nobody
  BY <1>1 DEF StartTurn, SetUp, Agent, Request
<1>3. Goto(r, "turn") /\ "turn" \in PCs
  BY DEF StartTurn, PCs
<1> QED
  BY <1>2, <1>3, Goes

LEMMA Asking ==
    ASSUME TypeOK, NEW r \in Requests, AskQuestion(r)
    PROVE  /\ Moves(r, "asked", Nobody, req[r].messages)
           /\ agent' \in Agent /\ agent'.messages = agent.messages /\ agent'.pending = r
<1>1. agent' \in Agent /\ agent'.messages = agent.messages /\ agent'.pending = r
  BY DEF TypeOK, AskQuestion, Agent
<1>2. Goto(r, "asked") /\ "asked" \in PCs
  BY DEF AskQuestion, PCs
<1> QED
  BY <1>1, <1>2, Goes

LEMMA Resetting ==
    ASSUME TypeOK, NEW r \in Requests, agent' = Reset(r)
    PROVE  agent' \in Agent /\ agent'.messages = agent.messages /\ agent'.pending = agent.pending
BY DEF TypeOK, Reset, Agent

LEMMA Ending ==
    ASSUME TypeOK, NEW r \in Requests, EndTurn(r) \/ FailTurn(r)
    PROVE  /\ agent' \in Agent /\ agent'.messages = agent.messages /\ agent'.pending = agent.pending
           /\ \/ /\ HasSession(r) /\ Moves(r, "save", Nobody, agent.messages)
                 /\ IF req[r].kind = "stream" THEN UNCHANGED queue ELSE Leaves(r)
              \/ Moves(r, "done", Nobody, {}) /\ Leaves(r)
<1>1. agent' = Reset(r) /\ (ToSave(r) \/ (Goto(r, "done") /\ Leave(r)))
  BY DEF EndTurn, FailTurn
<1>2. CASE ToSave(r)
  BY <1>1, <1>2, Saving, Resetting DEF Keeps
<1>3. CASE Goto(r, "done") /\ Leave(r)
  <2>1. Moves(r, "done", Nobody, {})
    BY <1>3, Goes DEF PCs
  <2>2. Leaves(r)
    BY <1>3, Leaving DEF Leaves, TypeOK
  <2> QED
    BY <1>1, <2>1, <2>2, Resetting
<1> QED
  BY <1>1, <1>2, <1>3

LEMMA Disconnecting ==
    ASSUME TypeOK, NEW r \in Requests, Disconnect(r)
    PROVE  /\ Moves(r, "done", Nobody, {}) /\ Leaves(r)
           /\ agent' \in Agent /\ agent'.messages = agent.messages /\ agent'.pending = agent.pending
<1>1. (agent' = Reset(r) \/ UNCHANGED agent) /\ Leave(r) /\ Goto(r, "done")
  BY DEF Disconnect
<1>2. Moves(r, "done", Nobody, {})
  BY <1>1, Goes DEF PCs
<1>3. Leaves(r)
  BY <1>1, Leaving DEF Leaves, TypeOK
<1>4. agent' \in Agent /\ agent'.messages = agent.messages /\ agent'.pending = agent.pending
  BY <1>1, Resetting DEF TypeOK
<1> QED
  BY <1>2, <1>3, <1>4

\* Nothing changes in the store but this of the row of s.
Writes(s, exists, messages, pending) ==
    /\ store' \in [Sessions -> Session]
    /\ \A t \in Sessions : t # s => store'[t] = store[t]
    /\ store'[s].exists = exists /\ store'[s].messages = messages /\ store'[s].pending = pending

LEMMA SettingPending ==
    ASSUME TypeOK, NEW s \in Sessions, NEW q \in Requests \cup {Nobody}, SetPending(s, q)
    PROVE  IF store[s].exists THEN Writes(s, TRUE, store[s].messages, q) ELSE UNCHANGED store
<1>1. store[s] \in Session
  BY DEF TypeOK
<1>2. CASE store[s].exists
  BY <1>1, <1>2 DEF SetPending, Writes, TypeOK, Session
<1>3. CASE ~store[s].exists
  BY <1>3 DEF SetPending
<1> QED
  BY <1>2, <1>3

LEMMA SavingSession ==
    ASSUME TypeOK, Local, NEW r \in Requests, SaveSession(r)
    PROVE  /\ req[r].session \in Sessions
           /\ Moves(r, IF req[r].kind = "event" THEN "done" ELSE "question", Nobody,
                       IF req[r].kind = "event" THEN {} ELSE req[r].messages)
           /\ Writes(req[r].session, TRUE, req[r].messages, Stored(r).pending)
<1>1. req[r] \in Request /\ req[r].session \in Sessions
  BY DEF TypeOK, Local, SaveSession, At, HasSession, Request
<1>2. Writes(req[r].session, TRUE, req[r].messages, Stored(r).pending)
  <2> DEFINE s == req[r].session
             m == req[r].messages
  <2>1. s \in Sessions /\ m \in SUBSET Requests /\ store \in [Sessions -> Session]
    BY <1>1 DEF TypeOK, Request
  <2>2. store' = [store EXCEPT ![s].exists = TRUE, ![s].messages = m] /\ Stored(r) = store[s]
    BY DEF SaveSession, Stored
  <2> HIDE DEF s, m
  <2>3. Writes(s, TRUE, m, store[s].pending)
    BY <2>1, <2>2 DEF Writes, Session
  <2> QED
    BY <2>2, <2>3 DEF s, m
<1>3. Moves(r, IF req[r].kind = "event" THEN "done" ELSE "question", Nobody,
               IF req[r].kind = "event" THEN {} ELSE req[r].messages)
  <2>1. CASE req[r].kind = "event"
    <3>1. Goto(r, "done")
      BY <2>1 DEF SaveSession
    <3> QED
      BY <2>1, <3>1, Goes DEF PCs
  <2>2. CASE req[r].kind # "event"
    <3>1. Goto(r, "question")
      BY <2>2 DEF SaveSession
    <3> QED
      BY <2>2, <3>1, Goes DEF PCs
  <2> QED
    BY <2>1, <2>2
<1> QED
  BY <1>1, <1>2, <1>3

LEMMA Persisting ==
    ASSUME TypeOK, Local, NEW r \in Requests, PersistQuestion(r)
    PROVE  /\ req[r].session \in Sessions
           /\ Moves(r, "done", Nobody, {}) /\ Leaves(r)
           /\ \/ UNCHANGED store
              \/ agent.pending # Nobody /\ Writes(req[r].session, TRUE, Stored(r).messages, agent.pending)
<1>1. req[r].session \in Sessions /\ agent.pending \in Requests \cup {Nobody}
  BY DEF TypeOK, Local, PersistQuestion, At, HasSession, Request, Agent
<1>2. Goto(r, "done") /\ Leave(r) /\ "done" \in PCs
  BY DEF PersistQuestion, PCs
<1>3. Moves(r, "done", Nobody, {})
  BY <1>2, Goes
<1>4. Leaves(r)
  BY <1>2, Leaving DEF Leaves, TypeOK
<1>5. \/ agent.pending # Nobody /\ SetPending(req[r].session, agent.pending)
      \/ UNCHANGED store
  BY DEF PersistQuestion
<1> QED
  BY <1>1, <1>3, <1>4, <1>5, SettingPending DEF Stored

LEMMA Clearing ==
    ASSUME TypeOK, Local, NEW r \in Requests, ClearQuestion(r)
    PROVE  /\ req[r].session \in Sessions
           /\ \/ Moves(r, "done", Nobody, {})
              \/ req[r].question # Nobody /\ Moves(r, "decide", req[r].question, req[r].messages)
           /\ IF Stored(r).exists
                THEN Writes(req[r].session, TRUE, Stored(r).messages, Nobody) ELSE UNCHANGED store
<1>1. req[r].session \in Sessions
  BY DEF TypeOK, Local, ClearQuestion, At, HasSession, Request
<1>2. /\ SetPending(req[r].session, Nobody)
      /\ Goto(r, "done") \/ (req[r].question # Nobody /\ Goto(r, "decide"))
  BY DEF ClearQuestion
<1> QED
  BY <1>1, <1>2, Goes, SettingPending DEF Stored, PCs

LEMMA Running ==
    ASSUME TypeOK, Local, NEW r \in Requests, RunApprovedTool(r)
    PROVE  /\ req[r].question \in Requests
           /\ Moves(r, "enter", Nobody, req[r].messages)
           /\ executed' \in [Requests -> Nat]
           /\ executed'[req[r].question] = executed[req[r].question] + 1
           /\ \A q \in Requests : q # req[r].question => executed'[q] = executed[q]
<1>1. req[r].question \in Requests
  BY DEF TypeOK, Local, RunApprovedTool, At, Request
<1>2. Goto(r, "enter") /\ "enter" \in PCs
  BY DEF RunApprovedTool, PCs
<1>3. Moves(r, "enter", Nobody, req[r].messages)
  BY <1>2, Goes DEF PCs
<1> QED
  BY <1>1, <1>3 DEF RunApprovedTool, TypeOK

LEMMA BodyAsked ==
    ASSUME TypeOK, NEW r \in Requests, StreamBody(r)
    PROVE  /\ agent' \in Agent
           /\ Joins(r)
           /\ \/ /\ queue = << >> /\ Moves(r, "turn", req[r].question, req[r].messages)
                 /\ agent'.messages = req[r].messages /\ agent'.pending = Nobody
              \/ queue # << >> /\ Moves(r, "queued", req[r].question, req[r].messages) /\ UNCHANGED agent
<1>1. req[r] \in Request /\ agent \in Agent /\ JoinQueue(r, agent, req[r])
  BY DEF TypeOK, StreamBody
<1> QED
  BY <1>1, Queueing

LEMMA Arriving ==
    ASSUME TypeOK, NEW r \in Requests, NEW s \in Sessions \cup {Nobody}, NEW kind \in Kinds,
           NEW answers \in BOOLEAN, Arrive(r, s, kind, answers)
    PROVE  /\ At(r, "new") /\ UNCHANGED << agent, queue, store, executed >>
           /\ req' \in [Requests -> Request]
           /\ \A x \in Requests : x # r => req'[x] = req[x]
           /\ req'[r].pc = "load" /\ req'[r].session = s /\ req'[r].kind = kind
           /\ req'[r].question = Nobody /\ req'[r].messages = {}
           /\ overlapped' \in SUBSET Sessions /\ overlapped \subseteq overlapped'
           /\ s \in Sessions /\ (\E x \in Requests : Active(x) /\ req[x].session = s) => s \in overlapped'
<1> DEFINE local == [NewRequest EXCEPT !.pc = "load", !.session = s, !.kind = kind, !.answers = answers]
<1>1. NewRequest \in Request /\ NewRequest.question = Nobody /\ NewRequest.messages = {}
  BY DEF NewRequest, Request, PCs
<1>2. /\ req' = [req EXCEPT ![r] = local] /\ local \in Request
      /\ local.pc = "load" /\ local.session = s /\ local.kind = kind
      /\ local.question = Nobody /\ local.messages = {}
  <2>1. req' = [req EXCEPT ![r] = local]
    BY DEF Arrive
  <2> QED
    BY <1>1, <2>1 DEF Request, PCs
<1>3. overlapped' \in SUBSET Sessions /\ overlapped \subseteq overlapped'
  BY DEF Arrive, TypeOK
<1>4. s \in Sessions /\ (\E x \in Requests : Active(x) /\ req[x].session = s) => s \in overlapped'
  BY ChatAssumption DEF Arrive
<1>5. At(r, "new") /\ UNCHANGED << agent, queue, store, executed >>
  BY DEF Arrive
<1> HIDE DEF local
<1> QED
  BY <1>2, <1>3, <1>4, <1>5 DEF TypeOK

LEMMA Restarting ==
    ASSUME TypeOK, Restart
    PROVE  /\ UNCHANGED << store, executed, overlapped >>
           /\ req' \in [Requests -> Request] /\ queue' = << >>
           /\ agent' \in Agent /\ agent'.messages = {} /\ agent'.pending = Nobody
           /\ \A x \in Requests : IF Active(x)
                THEN /\ req'[x].pc = "done" /\ req'[x].session = req[x].session
                     /\ req'[x].kind = req[x].kind
                     /\ req'[x].question = Nobody /\ req'[x].messages = {}
                ELSE req'[x] = req[x]
<1>1. /\ req' = [x \in Requests |-> IF Active(x) THEN Step(req[x], "done") ELSE req[x]]
      /\ agent' = NewAgent /\ queue' = << >>
  BY DEF Restart
<1>2. \A x \in Requests : /\ req[x] \in Request
                          /\ Step(req[x], "done") \in Request
                          /\ Step(req[x], "done").pc = "done"
                          /\ Step(req[x], "done").session = req[x].session
                          /\ Step(req[x], "done").kind = req[x].kind
                          /\ Step(req[x], "done").question = Nobody
                          /\ Step(req[x], "done").messages = {}
  BY Steps DEF TypeOK, PCs
<1>3. agent' \in Agent /\ agent'.messages = {} /\ agent'.pending = Nobody
  BY <1>1 DEF NewAgent, Agent
<1>4. UNCHANGED << store, executed, overlapped >>
  BY DEF Restart
<1> QED
  BY <1>1, <1>2, <1>3, <1>4

LEMMA StoreKept ==
    ASSUME TypeOK, NEW s \in Sessions, CreateSession(s) \/ DeleteSession(s)
    PROVE  /\ UNCHANGED << req, agent, queue, executed, overlapped >>
           /\ \/ Writes(s, TRUE, store[s].messages, store[s].pending) /\ ~store[s].exists
              \/ Writes(s, FALSE, {}, Nobody)
<1>1. UNCHANGED << req, agent, queue, executed, overlapped >>
  BY DEF CreateSession, DeleteSession
<1>2. CASE CreateSession(s)
  BY <1>2 DEF CreateSession, TypeOK, Session, Writes
<1>3. CASE DeleteSession(s)
  BY <1>3 DEF DeleteSession, NoSession, TypeOK, Session, Writes
<1> QED
  BY <1>1, <1>2, <1>3

\* The guards of the actions, and what they leave alone.
LEMMA Frames ==
    ASSUME NEW r \in Requests
    PROVE  /\ Load(r) => At(r, "load") /\ UNCHANGED << store, executed, overlapped >>
           /\ Guard(r) => At(r, "guard") /\ UNCHANGED << agent, queue, store, executed, overlapped >>
           /\ ClearQuestion(r) => At(r, "clear") /\ UNCHANGED << agent, queue, executed, overlapped >>
           /\ RunApprovedTool(r) => At(r, "decide") /\ UNCHANGED << agent, queue, store, overlapped >>
           /\ Enter(r) => /\ At(r, "enter") \/ At(r, "decide")
                          /\ UNCHANGED << store, executed, overlapped >>
           /\ StreamBody(r) => At(r, "respond") /\ UNCHANGED << store, executed, overlapped >>
           /\ StartTurn(r) => /\ At(r, "queued") /\ Head(queue) = r
                              /\ UNCHANGED << queue, store, executed, overlapped >>
           /\ AskQuestion(r) => At(r, "turn") /\ UNCHANGED << queue, store, executed, overlapped >>
           /\ EndTurn(r) \/ FailTurn(r) => InTurn(r) /\ UNCHANGED << store, executed, overlapped >>
           /\ SaveSession(r) => At(r, "save") /\ UNCHANGED << agent, queue, executed, overlapped >>
           /\ PersistQuestion(r) => At(r, "question") /\ UNCHANGED << agent, executed, overlapped >>
           /\ Disconnect(r) => req[r].pc # "new" /\ UNCHANGED << store, executed, overlapped >>
<1>1. /\ Load(r) => At(r, "load") /\ UNCHANGED << store, executed, overlapped >>
      /\ Guard(r) => At(r, "guard") /\ UNCHANGED << agent, queue, store, executed, overlapped >>
  BY DEF Load, Guard
<1>2. /\ ClearQuestion(r) => At(r, "clear") /\ UNCHANGED << agent, queue, executed, overlapped >>
      /\ RunApprovedTool(r) => At(r, "decide") /\ UNCHANGED << agent, queue, store, overlapped >>
  BY DEF ClearQuestion, RunApprovedTool
<1>3. /\ Enter(r) => /\ At(r, "enter") \/ At(r, "decide")
                     /\ UNCHANGED << store, executed, overlapped >>
      /\ StreamBody(r) => At(r, "respond") /\ UNCHANGED << store, executed, overlapped >>
  BY DEF Enter, StreamBody
<1>4. /\ StartTurn(r) => /\ At(r, "queued") /\ Head(queue) = r
                         /\ UNCHANGED << queue, store, executed, overlapped >>
      /\ AskQuestion(r) => At(r, "turn") /\ UNCHANGED << queue, store, executed, overlapped >>
  BY DEF StartTurn, AskQuestion
<1>5. EndTurn(r) \/ FailTurn(r) => InTurn(r) /\ UNCHANGED << store, executed, overlapped >>
  BY DEF EndTurn, FailTurn, InTurn, At
<1>6. /\ SaveSession(r) => At(r, "save") /\ UNCHANGED << agent, queue, executed, overlapped >>
      /\ PersistQuestion(r) => At(r, "question") /\ UNCHANGED << agent, executed, overlapped >>
      /\ Disconnect(r) => req[r].pc # "new" /\ UNCHANGED << store, executed, overlapped >>
  BY DEF SaveSession, PersistQuestion, Disconnect
<1> QED
  BY <1>1, <1>2, <1>3, <1>4, <1>5, <1>6

-----------------------------------------------------------------------------
(* What the steps preserve.                                               *)
LEMMA TypeKept ==
    ASSUME IInv, [Next]_vars
    PROVE  TypeOK'
<1> USE ChatAssumption DEF IInv, TypeOK
<1>1. ASSUME NEW r \in Requests, NEW s \in Sessions \cup {Nobody}, NEW kind \in Kinds,
             NEW answers \in BOOLEAN, Arrive(r, s, kind, answers)
      PROVE  TypeOK'
  BY <1>1, Arriving
<1>2. ASSUME NEW r \in Requests, Load(r) PROVE TypeOK'
  BY <1>2, Loading, Frames DEF Moves, Joins, Leaves, Writes
<1>3. ASSUME NEW r \in Requests, Guard(r) PROVE TypeOK'
  BY <1>3, Guarding, Frames DEF Moves, Joins, Leaves, Writes
<1>4. ASSUME NEW r \in Requests, ClearQuestion(r) PROVE TypeOK'
  BY <1>4, Clearing, Frames DEF Moves, Joins, Leaves, Writes
<1>5. ASSUME NEW r \in Requests, RunApprovedTool(r) PROVE TypeOK'
  BY <1>5, Running, Frames DEF Moves, Joins, Leaves, Writes
<1>6. ASSUME NEW r \in Requests, Enter(r) PROVE TypeOK'
  BY <1>6, Entering, Frames DEF Moves, Joins, Leaves, Writes
<1>7. ASSUME NEW r \in Requests, StreamBody(r) PROVE TypeOK'
  BY <1>7, BodyAsked, Frames DEF Moves, Joins, Leaves, Writes
<1>8. ASSUME NEW r \in Requests, StartTurn(r) PROVE TypeOK'
  BY <1>8, Starting, Frames DEF Moves, Joins, Leaves, Writes
<1>9. ASSUME NEW r \in Requests, AskQuestion(r) PROVE TypeOK'
  BY <1>9, Asking, Frames DEF Moves, Joins, Leaves, Writes
<1>10. ASSUME NEW r \in Requests, EndTurn(r) PROVE TypeOK'
  BY <1>10, Ending, Frames DEF Moves, Joins, Leaves, Writes
<1>11. ASSUME NEW r \in Requests, FailTurn(r) PROVE TypeOK'
  BY <1>11, Ending, Frames DEF Moves, Joins, Leaves, Writes
<1>12. ASSUME NEW r \in Requests, SaveSession(r) PROVE TypeOK'
  BY <1>12, SavingSession, Frames DEF Moves, Joins, Leaves, Writes
<1>13. ASSUME NEW r \in Requests, PersistQuestion(r) PROVE TypeOK'
  BY <1>13, Persisting, Frames DEF Moves, Joins, Leaves, Writes
<1>14. ASSUME NEW r \in Requests, Disconnect(r) PROVE TypeOK'
  BY <1>14, Disconnecting, Frames DEF Moves, Joins, Leaves, Writes
<1>15. ASSUME NEW s \in Sessions, CreateSession(s) \/ DeleteSession(s) PROVE TypeOK'
  BY <1>15, StoreKept DEF Writes
<1>16. CASE Restart
  <2>1. UNCHANGED << store, executed, overlapped >>
    BY <1>16, Restarting
  <2>2. req' \in [Requests -> Request] /\ queue' = << >> /\ agent' \in Agent
    BY <1>16, Restarting
  <2> QED
    BY <2>1, <2>2
<1>17. CASE UNCHANGED vars
  BY <1>17 DEF vars
<1> QED
  BY <1>1, <1>2, <1>3, <1>4, <1>5, <1>6, <1>7, <1>8, <1>9,
     <1>10, <1>11, <1>12, <1>13, <1>14, <1>15, <1>16, <1>17 DEF Next, Progress

LEMMA LocalKept ==
    ASSUME IInv, [Next]_vars
    PROVE  Local'
<1> USE ChatAssumption DEF IInv, Local, Holds, InTurn, At, HasSession
<1>1. ASSUME NEW r \in Requests, NEW s \in Sessions \cup {Nobody}, NEW kind \in Kinds,
             NEW answers \in BOOLEAN, Arrive(r, s, kind, answers)
      PROVE  Local'
  BY <1>1, Arriving
<1>2. ASSUME NEW r \in Requests, Load(r) PROVE Local'
  BY <1>2, Loading, Frames DEF Moves
<1>3. ASSUME NEW r \in Requests, Guard(r) PROVE Local'
  BY <1>3, Guarding, Frames DEF Moves
<1>4. ASSUME NEW r \in Requests, ClearQuestion(r) PROVE Local'
  <2>1. \/ Moves(r, "done", Nobody, {})
        \/ req[r].question # Nobody /\ Moves(r, "decide", req[r].question, req[r].messages)
    BY <1>4, Clearing
  <2>2. At(r, "clear") /\ UNCHANGED << agent, queue, executed, overlapped >>
    BY <1>4, Frames
  <2> QED
    BY <2>1, <2>2 DEF Moves
<1>5. ASSUME NEW r \in Requests, RunApprovedTool(r) PROVE Local'
  BY <1>5, Running, Frames DEF Moves
<1>6. ASSUME NEW r \in Requests, Enter(r) PROVE Local'
  BY <1>6, Entering, Frames DEF Moves
<1>7. ASSUME NEW r \in Requests, StreamBody(r) PROVE Local'
  BY <1>7, BodyAsked, Frames DEF Moves
<1>8. ASSUME NEW r \in Requests, StartTurn(r) PROVE Local'
  BY <1>8, Starting, Frames DEF Moves
<1>9. ASSUME NEW r \in Requests, AskQuestion(r) PROVE Local'
  BY <1>9, Asking, Frames DEF Moves
<1>10. ASSUME NEW r \in Requests, EndTurn(r) PROVE Local'
  BY <1>10, Ending, Frames DEF Moves
<1>11. ASSUME NEW r \in Requests, FailTurn(r) PROVE Local'
  BY <1>11, Ending, Frames DEF Moves
<1>12. ASSUME NEW r \in Requests, SaveSession(r) PROVE Local'
  <2>1. Moves(r, IF req[r].kind = "event" THEN "done" ELSE "question", Nobody,
                 IF req[r].kind = "event" THEN {} ELSE req[r].messages)
    BY <1>12, SavingSession
  <2>2. At(r, "save") /\ UNCHANGED << agent, queue, executed, overlapped >>
    BY <1>12, Frames
  <2> QED
    BY <2>1, <2>2 DEF Moves
<1>13. ASSUME NEW r \in Requests, PersistQuestion(r) PROVE Local'
  <2>1. Moves(r, "done", Nobody, {}) /\ Leaves(r)
    BY <1>13, Persisting
  <2>2. At(r, "question") /\ UNCHANGED << agent, executed, overlapped >>
    BY <1>13, Frames
  <2> QED
    BY <2>1, <2>2 DEF Moves
<1>14. ASSUME NEW r \in Requests, Disconnect(r) PROVE Local'
  BY <1>14, Disconnecting, Frames DEF Moves
<1>15. ASSUME NEW s \in Sessions, CreateSession(s) \/ DeleteSession(s) PROVE Local'
  BY <1>15, StoreKept
<1>16. CASE Restart
  BY <1>16, Restarting DEF Active
<1>17. CASE UNCHANGED vars
  BY <1>17 DEF vars
<1> QED
  BY <1>1, <1>2, <1>3, <1>4, <1>5, <1>6, <1>7, <1>8, <1>9,
     <1>10, <1>11, <1>12, <1>13, <1>14, <1>15, <1>16, <1>17 DEF Next, Progress

LEMMA LockKept ==
    ASSUME IInv, [Next]_vars
    PROVE  Lock'
<1> USE ChatAssumption DEF IInv, Lock, Local, Holds, InTurn, At, Waits
<1>1. ASSUME NEW r \in Requests, NEW s \in Sessions \cup {Nobody}, NEW kind \in Kinds,
             NEW answers \in BOOLEAN, Arrive(r, s, kind, answers)
      PROVE  Lock'
  BY <1>1, Arriving
<1>2. ASSUME NEW r \in Requests, Load(r) PROVE Lock'
  BY <1>2, Loading, Frames DEF Moves, Joins, Leaves
<1>3. ASSUME NEW r \in Requests, Guard(r) PROVE Lock'
  BY <1>3, Guarding, Frames DEF Moves, Joins, Leaves
<1>4. ASSUME NEW r \in Requests, ClearQuestion(r) PROVE Lock'
  <2>1. \/ Moves(r, "done", Nobody, {})
        \/ req[r].question # Nobody /\ Moves(r, "decide", req[r].question, req[r].messages)
    BY <1>4, Clearing
  <2>2. At(r, "clear") /\ UNCHANGED << agent, queue, executed, overlapped >>
    BY <1>4, Frames
  <2> QED
    BY <2>1, <2>2 DEF Moves, Leaves
<1>5. ASSUME NEW r \in Requests, RunApprovedTool(r) PROVE Lock'
  BY <1>5, Running, Frames DEF Moves, Joins, Leaves
<1>6. ASSUME NEW r \in Requests, Enter(r) PROVE Lock'
  BY <1>6, Entering, Frames DEF Moves, Joins, Leaves
<1>7. ASSUME NEW r \in Requests, StreamBody(r) PROVE Lock'
  BY <1>7, BodyAsked, Frames DEF Moves, Joins, Leaves
<1>8. ASSUME NEW r \in Requests, StartTurn(r) PROVE Lock'
  BY <1>8, Starting, Frames DEF Moves, Joins, Leaves
<1>9. ASSUME NEW r \in Requests, AskQuestion(r) PROVE Lock'
  BY <1>9, Asking, Frames DEF Moves, Joins, Leaves
<1>10. ASSUME NEW r \in Requests, EndTurn(r) PROVE Lock'
  BY <1>10, Ending, Frames DEF Moves, Joins, Leaves
<1>11. ASSUME NEW r \in Requests, FailTurn(r) PROVE Lock'
  BY <1>11, Ending, Frames DEF Moves, Joins, Leaves
<1>12. ASSUME NEW r \in Requests, SaveSession(r) PROVE Lock'
  <2>1. Moves(r, IF req[r].kind = "event" THEN "done" ELSE "question", Nobody,
                 IF req[r].kind = "event" THEN {} ELSE req[r].messages)
    BY <1>12, SavingSession
  <2>2. At(r, "save") /\ UNCHANGED << agent, queue, executed, overlapped >>
    BY <1>12, Frames
  <2> QED
    BY <2>1, <2>2 DEF Moves, Leaves
<1>13. ASSUME NEW r \in Requests, PersistQuestion(r) PROVE Lock'
  <2>1. Moves(r, "done", Nobody, {}) /\ Leaves(r)
    BY <1>13, Persisting
  <2>2. At(r, "question") /\ UNCHANGED << agent, executed, overlapped >>
    BY <1>13, Frames
  <2> QED
    BY <2>1, <2>2 DEF Moves, Leaves
<1>14. ASSUME NEW r \in Requests, Disconnect(r) PROVE Lock'
  BY <1>14, Disconnecting, Frames DEF Moves, Joins, Leaves
<1>15. ASSUME NEW s \in Sessions, CreateSession(s) \/ DeleteSession(s) PROVE Lock'
  BY <1>15, StoreKept
<1>16. CASE Restart
  BY <1>16, Restarting DEF Active
<1>17. CASE UNCHANGED vars
  BY <1>17 DEF vars
<1> QED
  BY <1>1, <1>2, <1>3, <1>4, <1>5, <1>6, <1>7, <1>8, <1>9,
     <1>10, <1>11, <1>12, <1>13, <1>14, <1>15, <1>16, <1>17 DEF Next, Progress

LEMMA Types ==
    ASSUME TypeOK
    PROVE  /\ \A x \in Requests : /\ req[x].messages \subseteq Requests
                                  /\ req[x].question \in Requests \cup {Nobody}
                                  /\ req[x].session \in Sessions \cup {Nobody}
           /\ \A s \in Sessions : /\ store[s].messages \subseteq Requests
                                  /\ store[s].pending \in Requests \cup {Nobody}
                                  /\ store[s].exists \in BOOLEAN
           /\ agent.messages \subseteq Requests /\ agent.pending \in Requests \cup {Nobody}
           /\ Nobody \notin Requests /\ Nobody \notin Sessions
BY ChatAssumption DEF TypeOK, Request, Session, Agent

\* The sessions of requests that have arrived do not change; a new one is in no history.
LEMMA ApartStep ==
    ASSUME IInv, NEW r \in Requests, NEW pc, NEW question, NEW m, Moves(r, pc, question, m),
           m \subseteq req[r].messages,
           \A s \in Sessions : store'[s].messages \subseteq store[s].messages
    PROVE  Apart'
<1>1. \A x \in Requests : req'[x].session = req[x].session /\ req'[x].messages \subseteq req[x].messages
  BY DEF Moves
<1>2. SessionsStayApart'
  BY <1>1, Types DEF IInv, Apart, SessionsStayApart
<1>3. ASSUME NEW y \in Requests, NEW x \in req'[y].messages
      PROVE  x = y \/ (req'[y].session # Nobody /\ req'[x].session = req'[y].session)
  BY <1>1, Types DEF IInv, Apart, HasSession
<1> QED
  BY <1>2, <1>3 DEF Apart, HasSession

LEMMA ApartKept ==
    ASSUME IInv, [Next]_vars
    PROVE  Apart'
<1>1. ASSUME NEW r \in Requests, NEW s \in Sessions \cup {Nobody}, NEW kind \in Kinds,
             NEW answers \in BOOLEAN, Arrive(r, s, kind, answers)
      PROVE  Apart'
  <2>1. /\ At(r, "new") /\ UNCHANGED store /\ req'[r].session = s /\ req'[r].messages = {}
        /\ \A x \in Requests : x # r => req'[x] = req[x]
    BY <1>1, Arriving DEF IInv
  <2>2. req[r].session = Nobody
    BY <2>1 DEF IInv, Local, NewRequest
  <2>3. SessionsStayApart'
    BY <2>1, <2>2, Types DEF IInv, Apart, SessionsStayApart
  <2>4. ASSUME NEW y \in Requests, NEW x \in req'[y].messages
        PROVE  x = y \/ (req'[y].session # Nobody /\ req'[x].session = req'[y].session)
    BY <2>1, <2>2, Types DEF IInv, Apart, HasSession
  <2> QED
    BY <2>3, <2>4 DEF Apart, HasSession
<1>2. ASSUME NEW r \in Requests, Load(r) PROVE Apart'
  <2>1. PICK pc, m :
          /\ Moves(r, pc, req[r].question, m)
          /\ m = {r} \cup IF HasSession(r) THEN Stored(r).messages ELSE {}
    BY <1>2, Loading DEF IInv, PCs
  <2>2. UNCHANGED store /\ (HasSession(r) => req[r].session \in Sessions)
    BY <1>2, Frames, Types DEF IInv, HasSession
  <2>3. /\ \A x \in Requests : req'[x].session = req[x].session
        /\ \A x \in Requests : x # r => req'[x].messages = req[x].messages
        /\ req'[r].messages = m
    BY <2>1 DEF Moves
  <2>4. /\ m \subseteq Requests
        /\ \A x \in m : x = r \/ (HasSession(r) /\ req[x].session = req[r].session)
    BY <2>1, <2>2, Types DEF IInv, Apart, SessionsStayApart, Stored
  <2>5. SessionsStayApart'
    BY <2>2, <2>3, Types DEF IInv, Apart, SessionsStayApart
  <2>6. ASSUME NEW y \in Requests, NEW x \in req'[y].messages
        PROVE  x = y \/ (req'[y].session # Nobody /\ req'[x].session = req'[y].session)
    BY <2>3, <2>4, Types DEF IInv, Apart, HasSession
  <2> QED
    BY <2>5, <2>6 DEF Apart, HasSession
<1>3. ASSUME NEW r \in Requests, Guard(r) PROVE Apart'
  <2>1. PICK pc, q, m : Moves(r, pc, q, m) /\ m \in {{}, req[r].messages}
    BY <1>3, Guarding DEF IInv
  <2> QED
    BY <1>3, <2>1, ApartStep, Frames
<1>4. ASSUME NEW r \in Requests, ClearQuestion(r) PROVE Apart'
  <2>1. PICK pc, q, m : Moves(r, pc, q, m) /\ m \in {{}, req[r].messages}
    BY <1>4, Clearing DEF IInv
  <2>2. \A s \in Sessions : store'[s].messages \subseteq store[s].messages
    BY <1>4, Clearing DEF IInv, Writes, Stored
  <2> QED
    BY <2>1, <2>2, ApartStep
<1>5. ASSUME NEW r \in Requests, RunApprovedTool(r) PROVE Apart'
  <2>1. Moves(r, "enter", Nobody, req[r].messages)
    BY <1>5, Running DEF IInv
  <2> QED
    BY <1>5, <2>1, ApartStep, Frames
<1>6. ASSUME NEW r \in Requests, Enter(r) PROVE Apart'
  <2>1. PICK pc : Moves(r, pc, Nobody, req[r].messages)
    BY <1>6, Entering DEF IInv
  <2> QED
    BY <1>6, <2>1, ApartStep, Frames
<1>7. ASSUME NEW r \in Requests, StreamBody(r) PROVE Apart'
  <2>1. PICK pc : Moves(r, pc, req[r].question, req[r].messages)
    BY <1>7, BodyAsked DEF IInv
  <2> QED
    BY <1>7, <2>1, ApartStep, Frames
<1>8. ASSUME NEW r \in Requests, StartTurn(r) \/ AskQuestion(r) PROVE Apart'
  <2>1. PICK pc : Moves(r, pc, Nobody, req[r].messages)
    BY <1>8, Starting, Asking DEF IInv
  <2> QED
    BY <1>8, <2>1, ApartStep, Frames
<1>9. ASSUME NEW r \in Requests, EndTurn(r) \/ FailTurn(r) PROVE Apart'
  <2>1. InTurn(r) /\ UNCHANGED store
    BY <1>9, Frames
  <2>2. agent.messages = req[r].messages
    BY <2>1 DEF IInv, Lock
  <2>3. PICK pc, m : Moves(r, pc, Nobody, m) /\ m \in {{}, req[r].messages}
    BY <1>9, <2>2, Ending DEF IInv
  <2> QED
    BY <2>1, <2>3, ApartStep
<1>10. ASSUME NEW r \in Requests, SaveSession(r) PROVE Apart'
  <2> DEFINE s == req[r].session
  <2>1. /\ s \in Sessions
        /\ Writes(s, TRUE, req[r].messages, Stored(r).pending)
    BY <1>10, SavingSession DEF IInv
  <2>2. PICK pc, m : Moves(r, pc, Nobody, m) /\ m \in {{}, req[r].messages}
    BY <1>10, SavingSession DEF IInv
  <2>3. /\ \A x \in Requests : req'[x].session = req[x].session
        /\ \A x \in Requests : req'[x].messages \subseteq req[x].messages
    BY <2>2 DEF Moves
  <2>4. \A x \in req[r].messages : req[x].session = s
    BY DEF IInv, Apart
  <2>5. SessionsStayApart'
    BY <2>1, <2>3, <2>4, Types DEF IInv, Apart, SessionsStayApart, Writes
  <2>6. ASSUME NEW y \in Requests, NEW x \in req'[y].messages
        PROVE  x = y \/ (req'[y].session # Nobody /\ req'[x].session = req'[y].session)
    BY <2>3, Types DEF IInv, Apart, HasSession
  <2> QED
    BY <2>5, <2>6 DEF Apart, HasSession
<1>11. ASSUME NEW r \in Requests, PersistQuestion(r) PROVE Apart'
  <2>1. Moves(r, "done", Nobody, {})
    BY <1>11, Persisting DEF IInv
  <2>2. \A s \in Sessions : store'[s].messages \subseteq store[s].messages
    BY <1>11, Persisting DEF IInv, Writes, Stored
  <2> QED
    BY <2>1, <2>2, ApartStep
<1>12. ASSUME NEW r \in Requests, Disconnect(r) PROVE Apart'
  <2>1. Moves(r, "done", Nobody, {}) /\ UNCHANGED store
    BY <1>12, Disconnecting, Frames DEF IInv
  <2> QED
    BY <2>1, ApartStep
<1>13. ASSUME NEW s \in Sessions, CreateSession(s) \/ DeleteSession(s) PROVE Apart'
  <2>1. UNCHANGED req
    BY <1>13, StoreKept DEF IInv
  <2>2. \A t \in Sessions : store'[t].messages \subseteq store[t].messages
    BY <1>13, StoreKept DEF IInv, Writes
  <2> QED
    BY <2>1, <2>2, Types DEF IInv, Apart, SessionsStayApart, HasSession
<1>14. CASE Restart
  <2>1. UNCHANGED store
    BY <1>14, Restarting DEF IInv
  <2>2. \A x \in Requests : req'[x].session = req[x].session /\ req'[x].messages \subseteq req[x].messages
    BY <1>14, Restarting DEF IInv
  <2>3. SessionsStayApart'
    BY <2>1, <2>2, Types DEF IInv, Apart, SessionsStayApart
  <2>4. ASSUME NEW y \in Requests, NEW x \in req'[y].messages
        PROVE  x = y \/ (req'[y].session # Nobody /\ req'[x].session = req'[y].session)
    BY <2>2, Types DEF IInv, Apart, HasSession
  <2> QED
    BY <2>3, <2>4 DEF Apart, HasSession
<1>15. CASE UNCHANGED vars
  BY <1>15 DEF vars, IInv, Apart, SessionsStayApart, HasSession
<1> QED
  BY <1>1, <1>2, <1>3, <1>4, <1>5, <1>6, <1>7, <1>8, <1>9, <1>10, <1>11, <1>12, <1>13, <1>14,
     <1>15 DEF Next, Progress

-----------------------------------------------------------------------------
(* Alone, and what it is for.                                              *)
LEMMA AloneStep ==
    ASSUME IInv, NEW r \in Requests, NEW pc, NEW question, NEW m, Moves(r, pc, question, m),
           pc = "done" \/ (Active(r) /\ ~At(r, "load") /\ m = req[r].messages),
           \A s \in Sessions : store'[s].messages \subseteq store[s].messages,
           UNCHANGED overlapped
    PROVE  Alone'
<1>1. /\ \A x \in Requests : Active(x)' => Active(x)
      /\ \A x \in Requests : req'[x].session = req[x].session
      /\ \A x \in Requests : Active(x)' /\ ~At(x, "load")' =>
           req'[x].messages = req[x].messages /\ ~At(x, "load")
  BY DEF Moves, Active, At
<1> QED
  BY <1>1 DEF IInv, Alone

LEMMA AloneKept ==
    ASSUME IInv, [Next]_vars
    PROVE  Alone'
<1>1. ASSUME NEW r \in Requests, NEW s \in Sessions \cup {Nobody}, NEW kind \in Kinds,
             NEW answers \in BOOLEAN, Arrive(r, s, kind, answers)
      PROVE  Alone'
  BY <1>1, Arriving DEF IInv, Alone, Active, At
<1>2. ASSUME NEW r \in Requests, Load(r) PROVE Alone'
  <2>1. PICK pc, m :
          /\ pc \notin {"load", "new", "done"}
          /\ Moves(r, pc, req[r].question, m)
          /\ m = {r} \cup IF HasSession(r) THEN Stored(r).messages ELSE {}
    BY <1>2, Loading DEF IInv, PCs
  <2>2. UNCHANGED << store, overlapped >> /\ At(r, "load")
    BY <1>2, Frames
  <2>3. /\ \A x \in Requests : Active(x)' => Active(x)
        /\ \A x \in Requests : req'[x].session = req[x].session
        /\ \A x \in Requests : x # r => req'[x] = req[x]
        /\ req'[r].messages = m
    BY <2>1, <2>2 DEF Moves, Active, At
  <2>4. \A s \in Sessions : req[r].session = s => store[s].messages \subseteq m
    BY <2>1, Types DEF IInv, HasSession, Stored
  <2> QED
    BY <2>2, <2>3, <2>4 DEF IInv, Alone, At
<1>3. ASSUME NEW r \in Requests, Guard(r) PROVE Alone'
  <2>1. PICK pc, q, m : Moves(r, pc, q, m) /\ (pc = "done" \/ m = req[r].messages)
    BY <1>3, Guarding DEF IInv
  <2>2. UNCHANGED << store, overlapped >> /\ At(r, "guard")
    BY <1>3, Frames
  <2> QED
    BY <2>1, <2>2, AloneStep DEF Active, At
<1>4. ASSUME NEW r \in Requests, ClearQuestion(r) PROVE Alone'
  <2>1. PICK pc, q, m : Moves(r, pc, q, m) /\ (pc = "done" \/ m = req[r].messages)
    BY <1>4, Clearing DEF IInv
  <2>2. \A s \in Sessions : store'[s].messages \subseteq store[s].messages
    BY <1>4, Clearing DEF IInv, Writes, Stored
  <2>3. UNCHANGED overlapped /\ At(r, "clear")
    BY <1>4, Frames
  <2> QED
    BY <2>1, <2>2, <2>3, AloneStep DEF Active, At
<1>5. ASSUME NEW r \in Requests, RunApprovedTool(r) \/ Enter(r) \/ StreamBody(r) PROVE Alone'
  <2>1. PICK pc, q : Moves(r, pc, q, req[r].messages)
    BY <1>5, Running, Entering, BodyAsked DEF IInv
  <2>2. UNCHANGED << store, overlapped >> /\ req[r].pc \in {"decide", "enter", "respond"}
    BY <1>5, Frames DEF At
  <2> QED
    BY <2>1, <2>2, AloneStep DEF Active, At
<1>6. ASSUME NEW r \in Requests, StartTurn(r) \/ AskQuestion(r) PROVE Alone'
  <2>1. PICK pc : Moves(r, pc, Nobody, req[r].messages)
    BY <1>6, Starting, Asking DEF IInv
  <2>2. UNCHANGED << store, overlapped >> /\ req[r].pc \in {"queued", "turn"}
    BY <1>6, Frames DEF At
  <2> QED
    BY <2>1, <2>2, AloneStep DEF Active, At
<1>7. ASSUME NEW r \in Requests, EndTurn(r) \/ FailTurn(r) PROVE Alone'
  <2>1. InTurn(r) /\ UNCHANGED << store, overlapped >>
    BY <1>7, Frames
  <2>2. agent.messages = req[r].messages
    BY <2>1 DEF IInv, Lock
  <2>3. PICK pc, m : Moves(r, pc, Nobody, m) /\ (pc = "done" \/ m = req[r].messages)
    BY <1>7, <2>2, Ending DEF IInv
  <2> QED
    BY <2>1, <2>3, AloneStep DEF Active, At, InTurn
<1>8. ASSUME NEW r \in Requests, SaveSession(r) PROVE Alone'
  <2> DEFINE s == req[r].session
  <2>1. s \in Sessions /\ Writes(s, TRUE, req[r].messages, Stored(r).pending)
    BY <1>8, SavingSession DEF IInv
  <2>2. PICK pc, m : Moves(r, pc, Nobody, m) /\ (pc = "done" \/ m = req[r].messages)
    BY <1>8, SavingSession DEF IInv
  <2>3. At(r, "save") /\ UNCHANGED overlapped
    BY <1>8, Frames
  <2>4. /\ \A x \in Requests : Active(x)' => Active(x)
        /\ \A x \in Requests : req'[x].session = req[x].session
        /\ \A x \in Requests : Active(x)' /\ ~At(x, "load")' =>
             req'[x].messages = req[x].messages /\ ~At(x, "load")
        /\ Active(r)
    BY <2>2, <2>3 DEF Moves, Active, At
  <2>5. ASSUME NEW t \in Sessions \ overlapped', NEW y \in Requests, Active(y)', req'[y].session = t
        PROVE  /\ \A x \in Requests : Active(x)' /\ req'[x].session = t => x = y
               /\ ~At(y, "load")' => store'[t].messages \subseteq req'[y].messages
    <3>1. CASE t = s
      <4>1. y = r
        BY <2>3, <2>4, <2>5, <3>1 DEF IInv, Alone
      <4> QED
        BY <2>1, <2>3, <2>4, <2>5, <3>1, <4>1 DEF IInv, Alone, Writes
    <3>2. CASE t # s
      BY <2>1, <2>3, <2>4, <2>5, <3>2 DEF IInv, Alone, Writes
    <3> QED
      BY <3>1, <3>2
  <2> QED
    BY <2>5 DEF Alone
<1>9. ASSUME NEW r \in Requests, PersistQuestion(r) PROVE Alone'
  <2>1. Moves(r, "done", Nobody, {})
    BY <1>9, Persisting DEF IInv
  <2>2. \A s \in Sessions : store'[s].messages \subseteq store[s].messages
    BY <1>9, Persisting DEF IInv, Writes, Stored
  <2> QED
    BY <1>9, <2>1, <2>2, AloneStep, Frames
<1>10. ASSUME NEW r \in Requests, Disconnect(r) PROVE Alone'
  <2>1. Moves(r, "done", Nobody, {}) /\ UNCHANGED << store, overlapped >>
    BY <1>10, Disconnecting, Frames DEF IInv
  <2> QED
    BY <2>1, AloneStep
<1>11. ASSUME NEW s \in Sessions, CreateSession(s) \/ DeleteSession(s) PROVE Alone'
  <2>1. UNCHANGED << req, overlapped >>
    BY <1>11, StoreKept DEF IInv
  <2>2. \A t \in Sessions : store'[t].messages \subseteq store[t].messages
    BY <1>11, StoreKept DEF IInv, Writes
  <2> QED
    BY <2>1, <2>2 DEF IInv, Alone, Active, At
<1>12. CASE Restart
  <2>1. UNCHANGED << store, overlapped >>
    BY <1>12, Restarting DEF IInv
  <2>2. \A x \in Requests : ~Active(x)'
    BY <1>12, Restarting DEF IInv, Active
  <2> QED
    BY <2>1, <2>2 DEF Alone
<1>13. CASE UNCHANGED vars
  BY <1>13 DEF vars, IInv, Alone, Active, At
<1> QED
  BY <1>1, <1>2, <1>3, <1>4, <1>5, <1>6, <1>7, <1>8, <1>9, <1>10, <1>11, <1>12, <1>13
  DEF Next, Progress

\* What a step may never do to the history of a session.
Survives ==
    \A s \in Sessions :
        \/ s \in overlapped
        \/ DeleteSession(s)
        \/ store[s].messages \subseteq store'[s].messages

LEMMA StepsSurvive ==
    ASSUME IInv, [Next]_vars
    PROVE  Survives
<1>1. ASSUME NEW r \in Requests, NEW s \in Sessions \cup {Nobody}, NEW kind \in Kinds,
             NEW answers \in BOOLEAN, Arrive(r, s, kind, answers)
      PROVE  UNCHANGED store
  BY <1>1, Arriving DEF IInv
<1>2. ASSUME NEW r \in Requests,
             \/ Load(r) \/ Guard(r) \/ RunApprovedTool(r) \/ Enter(r) \/ StreamBody(r) \/ StartTurn(r)
             \/ AskQuestion(r) \/ EndTurn(r) \/ FailTurn(r) \/ Disconnect(r)
      PROVE  UNCHANGED store
  BY <1>2, Frames
<1>3. ASSUME NEW r \in Requests, ClearQuestion(r) \/ PersistQuestion(r) PROVE Survives
  BY <1>3, Clearing, Persisting DEF IInv, Writes, Stored, Survives
<1>4. ASSUME NEW r \in Requests, SaveSession(r) PROVE Survives
  <2>1. /\ req[r].session \in Sessions
        /\ Writes(req[r].session, TRUE, req[r].messages, Stored(r).pending)
    BY <1>4, SavingSession DEF IInv
  <2>2. Active(r) /\ ~At(r, "load")
    BY <1>4, Frames DEF Active, At
  <2> QED
    BY <2>1, <2>2 DEF IInv, Alone, Writes, Survives
<1>5. ASSUME NEW s \in Sessions, CreateSession(s) \/ DeleteSession(s) PROVE Survives
  <2>1. CASE CreateSession(s)
    BY <2>1 DEF CreateSession, Survives, IInv, TypeOK, Session
  <2>2. CASE DeleteSession(s)
    BY <2>2, StoreKept DEF IInv, Writes, Survives
  <2> QED
    BY <1>5, <2>1, <2>2
<1>6. CASE Restart
  BY <1>6, Restarting DEF IInv, Survives
<1>7. UNCHANGED store => Survives
  BY DEF Survives
<1> QED
  BY <1>1, <1>2, <1>3, <1>4, <1>5, <1>6, <1>7 DEF Next, Progress, vars

-----------------------------------------------------------------------------
(* Questions.                                                              *)

\* No request of a behaviour without sync requests becomes one.
LEMMA NoneWasSync ==
    ASSUME IInv, [Next]_vars, NoSyncRequest'
    PROVE  NoSyncRequest
<1>1. ASSUME NEW r \in Requests, NEW s \in Sessions \cup {Nobody}, NEW kind \in Kinds,
             NEW answers \in BOOLEAN, Arrive(r, s, kind, answers)
      PROVE  NoSyncRequest
  BY <1>1, Arriving DEF IInv, Local, NoSyncRequest, NewRequest
<1>2. ASSUME NEW r \in Requests, Progress(r) \/ Disconnect(r) PROVE NoSyncRequest
  <2>1. PICK pc, q, m : Moves(r, pc, q, m)
    BY <1>2, Loading, Guarding, Clearing, Running, Entering, BodyAsked, Starting, Asking, Ending,
       SavingSession, Persisting, Disconnecting DEF IInv, Progress
  <2> QED
    BY <2>1 DEF Moves, NoSyncRequest
<1>3. ASSUME NEW s \in Sessions, CreateSession(s) \/ DeleteSession(s) PROVE NoSyncRequest
  BY <1>3, StoreKept DEF IInv, NoSyncRequest
<1>4. CASE Restart
  BY <1>4, Restarting DEF IInv, NoSyncRequest
<1>5. CASE UNCHANGED vars
  BY <1>5 DEF vars, NoSyncRequest
<1> QED
  BY <1>1, <1>2, <1>3, <1>4, <1>5 DEF Next

\* Whoever holds the lock alone may have a question on the agent.
LEMMA FreshStep ==
    ASSUME IInv, NoSyncRequest, NEW r \in Requests, NEW pc, NEW question, NEW m,
           Moves(r, pc, question, m),
           \/ agent'.pending = Nobody
           \/ agent'.pending = agent.pending /\ (Holds(r)' => Holds(r))
           \/ agent'.pending = r /\ Holds(r)
    PROVE  \A x \in Requests : Holds(x)' => agent'.pending \in {x, Nobody}
<1>1. \A x \in Requests : x # r => (Holds(x)' <=> Holds(x))
  BY DEF Moves, Holds, InTurn
<1>2. \A x \in Requests : Holds(x) => agent.pending \in {x, Nobody}
  BY DEF IInv, Fresh
<1>3. \A x \in Requests : Holds(x) /\ Holds(r) => x = r
  BY DEF IInv, Lock
<1> QED
  BY <1>1, <1>2, <1>3

LEMMA FreshKept ==
    ASSUME IInv, [Next]_vars, NoSyncRequest, NoSyncRequest'
    PROVE  \A x \in Requests : Holds(x)' => agent'.pending \in {x, Nobody}
<1> DEFINE Goal == \A x \in Requests : Holds(x)' => agent'.pending \in {x, Nobody}
<1>1. ASSUME NEW r \in Requests, NEW s \in Sessions \cup {Nobody}, NEW kind \in Kinds,
             NEW answers \in BOOLEAN, Arrive(r, s, kind, answers)
      PROVE  Goal
  BY <1>1, Arriving DEF IInv, Fresh, Holds, InTurn
<1>2. ASSUME NEW r \in Requests, Load(r) PROVE Goal
  <2>1. CASE agent'.pending = Nobody
    BY <2>1
  <2>2. CASE agent'.pending # Nobody
    <3>1. PICK pc, m : Moves(r, pc, req[r].question, m) /\ pc \in {"queued", "guard", "enter"}
                       /\ UNCHANGED agent
      BY <1>2, <2>2, Loading DEF IInv
    <3>2. ~Holds(r)'
      BY <3>1 DEF Moves, Holds, InTurn
    <3> QED
      BY <3>1, <3>2, FreshStep
  <2> QED
    BY <2>1, <2>2
<1>3. ASSUME NEW r \in Requests, Guard(r) \/ ClearQuestion(r) \/ RunApprovedTool(r) PROVE Goal
  <2>1. PICK pc, q, m : Moves(r, pc, q, m) /\ pc \in {"clear", "decide", "enter", "done"}
    BY <1>3, Guarding, Clearing, Running DEF IInv
  <2>2. ~Holds(r)' /\ UNCHANGED agent
    BY <1>3, <2>1, Frames DEF Moves, Holds, InTurn
  <2> QED
    BY <2>1, <2>2, FreshStep
<1>4. ASSUME NEW r \in Requests, Enter(r) \/ StreamBody(r) PROVE Goal
  <2>1. CASE agent'.pending = Nobody
    BY <2>1
  <2>2. CASE agent'.pending # Nobody
    <3>1. PICK pc, q : /\ Moves(r, pc, q, req[r].messages) /\ pc \in {"queued", "respond"}
                       /\ agent'.pending = agent.pending
      BY <1>4, <2>2, Entering, BodyAsked DEF IInv
    <3>2. ~Holds(r)'
      BY <3>1 DEF Moves, Holds, InTurn
    <3> QED
      BY <3>1, <3>2, FreshStep
  <2> QED
    BY <2>1, <2>2
<1>5. ASSUME NEW r \in Requests, StartTurn(r) PROVE Goal
  BY <1>5, Starting DEF IInv
<1>6. ASSUME NEW r \in Requests, AskQuestion(r) PROVE Goal
  <2>1. Holds(r)
    BY <1>6, Frames DEF Holds, InTurn, At
  <2> QED
    BY <1>6, <2>1, Asking, FreshStep DEF IInv
<1>7. ASSUME NEW r \in Requests, EndTurn(r) \/ FailTurn(r) PROVE Goal
  <2>1. Holds(r)
    BY <1>7, Frames DEF Holds
  <2>2. PICK pc, m : Moves(r, pc, Nobody, m)
    BY <1>7, Ending DEF IInv
  <2>3. agent'.pending = agent.pending
    BY <1>7, Ending DEF IInv
  <2> QED
    BY <2>1, <2>2, <2>3, FreshStep
<1>8. ASSUME NEW r \in Requests, SaveSession(r) PROVE Goal
  <2>1. PICK pc, m : Moves(r, pc, Nobody, m) /\ pc \in {"done", "question"}
    BY <1>8, SavingSession DEF IInv
  <2>2. UNCHANGED agent /\ At(r, "save")
    BY <1>8, Frames
  <2>3. Holds(r)' => Holds(r)
    BY <2>1, <2>2 DEF Moves, Holds, InTurn, At
  <2> QED
    BY <2>1, <2>2, <2>3, FreshStep
<1>9. ASSUME NEW r \in Requests, PersistQuestion(r) \/ Disconnect(r) PROVE Goal
  <2>1. Moves(r, "done", Nobody, {}) /\ agent'.pending = agent.pending
    BY <1>9, Persisting, Disconnecting, Frames DEF IInv
  <2>2. ~Holds(r)'
    BY <2>1 DEF Moves, Holds, InTurn
  <2> QED
    BY <2>1, <2>2, FreshStep
<1>10. ASSUME NEW s \in Sessions, CreateSession(s) \/ DeleteSession(s) PROVE Goal
  BY <1>10, StoreKept DEF IInv, Fresh, Holds, InTurn
<1>11. CASE Restart
  BY <1>11, Restarting DEF IInv
<1>12. CASE UNCHANGED vars
  BY <1>12 DEF vars, IInv, Fresh, Holds, InTurn
<1> QED
  BY <1>1, <1>2, <1>3, <1>4, <1>5, <1>6, <1>7, <1>8, <1>9, <1>10, <1>11, <1>12 DEF Next, Progress

\* Steps that put no question anywhere.
LEMMA TravelsStep ==
    ASSUME IInv, NEW q \in Requests, Travels(q), NEW r \in Requests, NEW pc, NEW question, NEW m,
           Moves(r, pc, question, m), Active(r), pc \notin {"clear", "decide"},
           \A s \in Sessions : store'[s].pending \in {store[s].pending, Nobody},
           UNCHANGED << executed, overlapped >>
    PROVE  Travels(q)'
<1>1. /\ req'[q].session = req[q].session
      /\ At(q, "done") => At(q, "done")'
      /\ \A x \in Requests : InHand(q, x)' =>
           /\ InHand(q, x) /\ req'[x].session = req[x].session
           /\ At(x, "decide")' => At(x, "decide")
  BY DEF Moves, At, InHand, Active
<1>2. \A s \in Sessions : PendingIn(q, s)' => PendingIn(q, s)
  BY Types DEF PendingIn, IInv
<1> QED
  BY <1>1, <1>2 DEF Travels

LEMMA TravelsKept ==
    ASSUME IInv, [Next]_vars, NoSyncRequest, NoSyncRequest', NEW q \in Requests
    PROVE  Travels(q)'
<1>0. Travels(q)
  BY DEF IInv, Questions
<1>1. ASSUME NEW r \in Requests, NEW s \in Sessions \cup {Nobody}, NEW kind \in Kinds,
             NEW answers \in BOOLEAN, Arrive(r, s, kind, answers)
      PROVE  Travels(q)'
  <2>1. /\ At(r, "new") /\ UNCHANGED << store, executed >>
        /\ \A x \in Requests : x # r => req'[x] = req[x]
        /\ req'[r].pc = "load" /\ overlapped \subseteq overlapped'
    BY <1>1, Arriving DEF IInv
  <2>2. CASE q = r
    <3>1. ~At(q, "done") /\ executed[q] = 0
      BY <1>0, <2>1, <2>2 DEF Travels, At, IInv, TypeOK
    <3>2. /\ \A s_1 \in Sessions : ~PendingIn(q, s_1)
          /\ \A x \in Requests : ~InHand(q, x)
      BY <1>0, <3>1 DEF Travels
    <3>3. /\ \A s_1 \in Sessions : ~PendingIn(q, s_1)'
          /\ \A x \in Requests : ~InHand(q, x)'
      BY <2>1, <3>2 DEF PendingIn, InHand
    <3> QED
      BY <2>1, <3>1, <3>3 DEF Travels
  <2>3. CASE q # r
    <3>1. /\ req'[q] = req[q] /\ ~InHand(q, r)'
          /\ \A s_1 \in Sessions : PendingIn(q, s_1)' <=> PendingIn(q, s_1)
      BY <2>1, <2>3 DEF InHand, PendingIn
    <3>2. \A x \in Requests : x # r => req'[x] = req[x] /\ (InHand(q, x)' <=> InHand(q, x))
      BY <2>1 DEF InHand
    <3> QED
      BY <1>0, <2>1, <3>1, <3>2 DEF Travels, At
  <2> QED
    BY <2>2, <2>3
<1>2. ASSUME NEW r \in Requests, Load(r) PROVE Travels(q)'
  <2>1. PICK pc, m : Moves(r, pc, req[r].question, m) /\ pc \notin {"clear", "decide"}
    BY <1>2, Loading DEF IInv
  <2> QED
    BY <1>0, <1>2, <2>1, TravelsStep, Frames DEF Active, At
<1>3. ASSUME NEW r \in Requests, Guard(r) PROVE Travels(q)'
  <2>1. At(r, "guard") /\ UNCHANGED << store, executed, overlapped >>
    BY <1>3, Frames
  <2>2. CASE Moves(r, "clear", Stored(r).pending, req[r].messages) /\ q = Stored(r).pending
    <3>1. req[r].session \in Sessions
      BY <2>1, Types DEF IInv, Local, At, HasSession
    <3>2. PendingIn(q, req[r].session)
      BY <2>2 DEF PendingIn, Stored
    <3>3. req[q].session = req[r].session /\ At(q, "done") /\ q # r
      BY <1>0, <2>1, <3>1, <3>2 DEF Travels, At
    <3>4. /\ req'[q] = req[q] /\ req'[r].session = req[r].session /\ req'[r].pc = "clear"
          /\ \A x \in Requests : x # r => req'[x] = req[x] /\ (InHand(q, x)' <=> InHand(q, x))
          /\ \A s \in Sessions : PendingIn(q, s)' <=> PendingIn(q, s)
      BY <2>1, <2>2, <3>3 DEF Moves, InHand, PendingIn
    <3>5. req[q].session \notin overlapped => executed[q] # 1
      BY <1>0, <3>1, <3>2 DEF Travels
    <3> QED
      BY <1>0, <2>1, <3>3, <3>4, <3>5 DEF Travels, At
  <2>3. CASE Moves(r, "clear", Stored(r).pending, req[r].messages) /\ q # Stored(r).pending
    <3>1. /\ \A x \in Requests : InHand(q, x)' => x # r /\ InHand(q, x) /\ req'[x] = req[x]
          /\ req'[q].session = req[q].session /\ (At(q, "done") => At(q, "done")')
          /\ \A s \in Sessions : PendingIn(q, s)' <=> PendingIn(q, s)
      BY <2>1, <2>3 DEF Moves, InHand, PendingIn, At
    <3> QED
      BY <1>0, <2>1, <3>1 DEF Travels, At
  <2>4. CASE \E pc \in {"enter", "done"}, m \in {{}, req[r].messages} : Moves(r, pc, Nobody, m)
    BY <1>0, <2>1, <2>4, TravelsStep DEF Active, At
  <2> QED
    BY <1>3, <2>2, <2>3, <2>4, Guarding DEF IInv
<1>4. ASSUME NEW r \in Requests, ClearQuestion(r) PROVE Travels(q)'
  <2> DEFINE s == req[r].session
  <2>1. At(r, "clear") /\ UNCHANGED << executed, overlapped >> /\ s \in Sessions
    BY <1>4, Frames, Clearing DEF IInv
  <2>2. /\ store'[s].pending = Nobody
        /\ \A t \in Sessions : store'[t].pending \in {store[t].pending, Nobody}
    BY <1>4, Clearing DEF IInv, Writes, Stored, Questions
  <2>3. CASE Moves(r, "done", Nobody, {})
    BY <1>0, <2>1, <2>2, <2>3, TravelsStep DEF Active, At
  <2>4. CASE Moves(r, "decide", req[r].question, req[r].messages)
    <3>1. /\ req'[q].session = req[q].session
          /\ At(q, "done") => At(q, "done")'
          /\ \A x \in Requests : req'[x].session = req[x].session /\ (InHand(q, x)' => InHand(q, x))
          /\ \A x \in Requests : x # r => req'[x] = req[x]
      BY <2>1, <2>4 DEF Moves, At, InHand
    <3>2. \A t \in Sessions : PendingIn(q, t)' => PendingIn(q, t) /\ t # s
      BY <2>2, Types DEF PendingIn, IInv
    <3>3. InHand(q, r)' => \A t \in Sessions : ~PendingIn(q, t)'
      BY <1>0, <3>1, <3>2 DEF Travels
    <3> QED
      BY <1>0, <2>1, <3>1, <3>2, <3>3 DEF Travels, At
  <2> QED
    BY <1>4, <2>3, <2>4, Clearing DEF IInv
<1>5. ASSUME NEW r \in Requests, RunApprovedTool(r) PROVE Travels(q)'
  <2>1. /\ At(r, "decide") /\ UNCHANGED << store, overlapped >>
        /\ Moves(r, "enter", Nobody, req[r].messages)
        /\ req[r].session \in Sessions
    BY <1>5, Frames, Running, Types DEF IInv, Local, At, HasSession
  <2>2. /\ req'[q].session = req[q].session
        /\ At(q, "done") => At(q, "done")'
        /\ \A x \in Requests : InHand(q, x)' => InHand(q, x) /\ x # r /\ req'[x] = req[x]
        /\ \A s \in Sessions : PendingIn(q, s)' <=> PendingIn(q, s)
    BY <2>1 DEF Moves, At, InHand, PendingIn
  <2>3. CASE q = req[r].question
    <3>1. InHand(q, r) /\ executed'[q] = executed[q] + 1 /\ executed[q] \in Nat
      BY <1>5, <2>1, <2>3, Running DEF IInv, InHand, At, TypeOK
    <3>2. req[q].session = req[r].session /\ At(q, "done")
      BY <1>0, <3>1 DEF Travels
    <3>3. ASSUME req[q].session \notin overlapped
          PROVE  /\ executed'[q] = 1
                 /\ \A s \in Sessions : ~PendingIn(q, s)
                 /\ \A x \in Requests : ~InHand(q, x)'
      <4>1. executed[q] = 0 /\ \A s \in Sessions : ~PendingIn(q, s)
        BY <1>0, <2>1, <3>1, <3>3 DEF Travels
      <4>2. ASSUME NEW x \in Requests, InHand(q, x)' PROVE FALSE
        <5>1. InHand(q, x) /\ x # r /\ req[x].session = req[r].session
          BY <1>0, <2>2, <3>2, <4>2 DEF Travels
        <5>2. Active(x) /\ Active(r)
          BY <2>1, <5>1 DEF Active, InHand, At
        <5> QED
          BY <2>1, <3>2, <3>3, <5>1, <5>2 DEF IInv, Alone
      <4> QED
        BY <3>1, <4>1, <4>2
    <3> QED
      BY <1>0, <2>1, <2>2, <3>2, <3>3 DEF Travels
  <2>4. CASE q # req[r].question
    <3>1. executed'[q] = executed[q]
      BY <1>5, <2>4, Running DEF IInv
    <3> QED
      BY <1>0, <2>1, <2>2, <3>1 DEF Travels, At
  <2> QED
    BY <2>3, <2>4
<1>6. ASSUME NEW r \in Requests, Enter(r) \/ StreamBody(r) PROVE Travels(q)'
  <2>1. PICK pc, qq : Moves(r, pc, qq, req[r].messages) /\ pc \notin {"clear", "decide"}
    BY <1>6, Entering, BodyAsked DEF IInv
  <2>2. UNCHANGED << store, executed, overlapped >> /\ req[r].pc \in {"decide", "enter", "respond"}
    BY <1>6, Frames DEF At
  <2> QED
    BY <1>0, <2>1, <2>2, TravelsStep DEF Active
<1>7. ASSUME NEW r \in Requests, StartTurn(r) \/ AskQuestion(r) PROVE Travels(q)'
  <2>1. PICK pc : Moves(r, pc, Nobody, req[r].messages) /\ pc \notin {"clear", "decide"}
    BY <1>7, Starting, Asking DEF IInv
  <2>2. UNCHANGED << store, executed, overlapped >> /\ req[r].pc \in {"queued", "turn"}
    BY <1>7, Frames DEF At
  <2> QED
    BY <1>0, <2>1, <2>2, TravelsStep DEF Active
<1>8. ASSUME NEW r \in Requests, EndTurn(r) \/ FailTurn(r) PROVE Travels(q)'
  <2>1. PICK pc, m : Moves(r, pc, Nobody, m) /\ pc \notin {"clear", "decide"}
    BY <1>8, Ending DEF IInv
  <2>2. UNCHANGED << store, executed, overlapped >> /\ InTurn(r)
    BY <1>8, Frames
  <2> QED
    BY <1>0, <2>1, <2>2, TravelsStep DEF Active, InTurn
<1>9. ASSUME NEW r \in Requests, SaveSession(r) PROVE Travels(q)'
  <2>1. PICK pc, m : Moves(r, pc, Nobody, m) /\ pc \in {"done", "question"}
    BY <1>9, SavingSession DEF IInv
  <2>2. UNCHANGED << executed, overlapped >> /\ At(r, "save")
    BY <1>9, Frames
  <2>3. \A s \in Sessions : store'[s].pending = store[s].pending
    BY <1>9, SavingSession DEF IInv, Writes, Stored
  <2> QED
    BY <1>0, <2>1, <2>2, <2>3, TravelsStep DEF Active, At
<1>10. ASSUME NEW r \in Requests, PersistQuestion(r) PROVE Travels(q)'
  <2> DEFINE s == req[r].session
  <2>1. /\ At(r, "question") /\ UNCHANGED << executed, overlapped >>
        /\ s \in Sessions /\ Moves(r, "done", Nobody, {})
    BY <1>10, Frames, Persisting DEF IInv
  <2>2. CASE UNCHANGED store
    BY <1>0, <2>1, <2>2, TravelsStep DEF Active, At
  <2>3. CASE agent.pending # Nobody /\ Writes(s, TRUE, Stored(r).messages, agent.pending)
    <3>1. req[r].kind = "stream"
      BY <2>1 DEF IInv, Local, At, NoSyncRequest, Kinds
    <3>2. agent.pending = r
      BY <2>1, <2>3, <3>1 DEF IInv, Fresh, Holds, At
    <3>3. CASE q # r
      <4>1. \A t \in Sessions : PendingIn(q, t)' => PendingIn(q, t)
        BY <2>3, <3>2, <3>3 DEF Writes, PendingIn
      <4>2. /\ req'[q] = req[q]
            /\ \A x \in Requests : InHand(q, x)' => InHand(q, x) /\ x # r /\ req'[x] = req[x]
        BY <2>1, <3>3 DEF Moves, InHand
      <4> QED
        BY <1>0, <2>1, <4>1, <4>2 DEF Travels, At
    <3>4. CASE q = r
      <4>1. ~At(q, "done") /\ executed[q] = 0
        BY <1>0, <2>1, <3>4 DEF Travels, At, IInv, TypeOK
      <4>2. /\ \A t \in Sessions : ~PendingIn(q, t)
            /\ \A x \in Requests : ~InHand(q, x)
        BY <1>0, <4>1 DEF Travels
      <4>3. /\ At(q, "done")' /\ req'[q].session = s
            /\ \A x \in Requests : ~InHand(q, x)'
        BY <2>1, <3>4, <4>2 DEF Moves, InHand, At
      <4>4. \A t \in Sessions : PendingIn(q, t)' => t = s
        BY <2>3, <4>2 DEF Writes, PendingIn
      <4> QED
        BY <2>1, <4>1, <4>3, <4>4 DEF Travels
    <3> QED
      BY <3>3, <3>4
  <2> QED
    BY <1>10, <2>2, <2>3, Persisting DEF IInv
<1>11. ASSUME NEW r \in Requests, Disconnect(r) PROVE Travels(q)'
  <2>1. Moves(r, "done", Nobody, {}) /\ UNCHANGED << store, executed, overlapped >>
    BY <1>11, Disconnecting, Frames DEF IInv
  <2>2. Active(r)
    BY <1>11 DEF Disconnect, Active
  <2> QED
    BY <1>0, <2>1, <2>2, TravelsStep
<1>12. ASSUME NEW s \in Sessions, CreateSession(s) \/ DeleteSession(s) PROVE Travels(q)'
  <2>1. UNCHANGED << req, executed, overlapped >>
    BY <1>12, StoreKept DEF IInv
  <2>2. \A t \in Sessions : store'[t].pending \in {store[t].pending, Nobody}
    BY <1>12, StoreKept DEF IInv, Writes
  <2>3. \A t \in Sessions : PendingIn(q, t)' => PendingIn(q, t)
    BY <2>2, Types DEF PendingIn, IInv
  <2> QED
    BY <1>0, <2>1, <2>3 DEF Travels, InHand, At
<1>13. CASE Restart
  <2>1. /\ UNCHANGED << store, executed, overlapped >>
        /\ \A x \in Requests : req'[x].session = req[x].session
        /\ \A x \in Requests : At(x, "done") => At(x, "done")'
        /\ \A x \in Requests : ~InHand(q, x)'
    BY <1>13, Restarting DEF IInv, Active, At, InHand
  <2>2. \A s \in Sessions : PendingIn(q, s)' <=> PendingIn(q, s)
    BY <2>1 DEF PendingIn
  <2> QED
    BY <1>0, <2>1, <2>2 DEF Travels
<1>14. CASE UNCHANGED vars
  BY <1>0, <1>14 DEF vars, Travels, PendingIn, InHand, At
<1> QED
  BY <1>1, <1>2, <1>3, <1>4, <1>5, <1>6, <1>7, <1>8, <1>9, <1>10, <1>11, <1>12, <1>13, <1>14
  DEF Next, Progress

\* A session that is not there has no question.
LEMMA AbsentHasNone ==
    ASSUME IInv, [Next]_vars
    PROVE  \A s \in Sessions : ~store'[s].exists => store'[s].pending = Nobody
<1> DEFINE Goal == \A s \in Sessions : ~store'[s].exists => store'[s].pending = Nobody
<1>1. UNCHANGED store => Goal
  BY DEF IInv, Questions
<1>2. ASSUME NEW r \in Requests, NEW s \in Sessions \cup {Nobody}, NEW kind \in Kinds,
             NEW answers \in BOOLEAN, Arrive(r, s, kind, answers)
      PROVE  UNCHANGED store
  BY <1>2, Arriving DEF IInv
<1>3. ASSUME NEW r \in Requests,
             \/ Load(r) \/ Guard(r) \/ RunApprovedTool(r) \/ Enter(r) \/ StreamBody(r) \/ StartTurn(r)
             \/ AskQuestion(r) \/ EndTurn(r) \/ FailTurn(r) \/ Disconnect(r)
      PROVE  UNCHANGED store
  BY <1>3, Frames
<1>4. ASSUME NEW r \in Requests, ClearQuestion(r) PROVE Goal
  BY <1>4, Clearing DEF IInv, Questions, Writes
<1>5. ASSUME NEW r \in Requests, PersistQuestion(r) PROVE Goal
  BY <1>5, Persisting DEF IInv, Questions, Writes
<1>6. ASSUME NEW r \in Requests, SaveSession(r) PROVE Goal
  BY <1>6, SavingSession DEF IInv, Questions, Writes
<1>7. ASSUME NEW s \in Sessions, CreateSession(s) \/ DeleteSession(s) PROVE Goal
  BY <1>7, StoreKept DEF IInv, Questions, Writes
<1>8. CASE Restart
  BY <1>1, <1>8, Restarting DEF IInv
<1> QED
  BY <1>1, <1>2, <1>3, <1>4, <1>5, <1>6, <1>7, <1>8 DEF Next, Progress, vars

-----------------------------------------------------------------------------
(* The invariant is inductive.                                             *)
LEMMA Initially == Init => IInv
<1> SUFFICES ASSUME Init PROVE IInv
  OBVIOUS
<1>1. TypeOK
  BY DEF Init, TypeOK, NewRequest, NewAgent, NoSession, Request, Agent, Session, PCs
<1>2. \A r \in Requests : req[r] = NewRequest /\ req[r].pc = "new" /\ req[r].messages = {}
  BY DEF Init, NewRequest
<1>3. \A s \in Sessions : store[s].messages = {} /\ store[s].pending = Nobody
  BY DEF Init, NoSession
<1>4. \A r \in Requests : ~Holds(r) /\ ~InTurn(r) /\ ~Active(r) /\ At(r, "new")
  BY <1>2 DEF Holds, InTurn, Active, At
<1>5. Lock /\ Local
  BY <1>2, <1>4 DEF Lock, Local, At
<1>6. Apart /\ Alone /\ Fresh
  BY <1>2, <1>3, <1>4 DEF Apart, SessionsStayApart, Alone, Fresh
<1>7. Questions
  <2>1. \A q \in Requests : (\A s \in Sessions : ~PendingIn(q, s)) /\ (\A r \in Requests : ~InHand(q, r))
    BY <1>2, <1>3, ChatAssumption DEF PendingIn, InHand
  <2>2. \A q \in Requests : executed[q] = 0
    BY DEF Init
  <2> QED
    BY <1>3, <2>1, <2>2 DEF Questions, Travels
<1> QED
  BY <1>1, <1>5, <1>6, <1>7 DEF IInv

LEMMA IInvKept ==
    ASSUME IInv, [Next]_vars
    PROVE  IInv'
<1>1. TypeOK' /\ Local' /\ Lock' /\ Apart' /\ Alone'
  BY TypeKept, LocalKept, LockKept, ApartKept, AloneKept
<1>2. Fresh'
  BY NoneWasSync, FreshKept DEF Fresh
<1>3. Questions'
  <2>1. \A s \in Sessions : ~store'[s].exists => store'[s].pending = Nobody
    BY AbsentHasNone
  <2>2. ASSUME NoSyncRequest', NEW q \in Requests PROVE Travels(q)'
    BY <2>2, NoneWasSync, TravelsKept
  <2> QED
    BY <2>1, <2>2 DEF Questions
<1> QED
  BY <1>1, <1>2, <1>3 DEF IInv

LEMMA Inductive == Spec => []IInv
BY Initially, IInvKept, PTL DEF Spec

-----------------------------------------------------------------------------
(* What follows from it.                                                   *)

\* Every variable keeps its type: what the server writes back is a request, an agent
\* object or a session, whatever the interleaving.
THEOREM TypeCorrect == Spec => []TypeOK
<1>1. IInv => TypeOK
  BY DEF IInv
<1> QED
  BY <1>1, Inductive, PTL

\* _agent_lock does its work: the request in its turn holds the lock, and the agent's
\* messages are those that request loaded, whoever else waits, leaves or saves.
THEOREM TurnsRunAlone == Spec => []TurnRunsAlone
<1>1. IInv => TurnRunsAlone
  BY DEF IInv, Lock, Holds, TurnRunsAlone
<1> QED
  BY <1>1, Inductive, PTL

\* A session's row only ever holds messages of its own requests, though every turn
\* passes through the one agent.messages.
THEOREM SessionsAlwaysApart == Spec => []SessionsStayApart
<1>1. IInv => SessionsStayApart
  BY DEF IInv, Apart
<1> QED
  BY <1>1, Inductive, PTL

\* A saved turn is lost only with its session, or when the session's requests overlap.
THEOREM SavedTurnsAlwaysSurvive == Spec => SavedTurnsSurvive
<1>1. ASSUME IInv, [Next]_vars
      PROVE  [\A s \in Sessions :
                \/ s \in overlapped
                \/ DeleteSession(s)
                \/ store[s].messages \subseteq store'[s].messages]_vars
  BY <1>1, StepsSurvive DEF Survives
<1> QED
  BY <1>1, Inductive, PTL DEF Spec, SavedTurnsSurvive

\* While nobody sends sync requests, a question is pending only in the session whose
\* turn asked it: the agent's attribute is read under the lock.
THEOREM QuestionsAlwaysHome == Spec => []QuestionsStayHome
<1>1. IInv => QuestionsStayHome
  <2> SUFFICES ASSUME IInv, NoSyncRequest, NEW s \in Sessions, store[s].pending # Nobody
               PROVE  req[store[s].pending].session = s
    BY DEF QuestionsStayHome
  <2>1. store[s].pending \in Requests
    BY DEF IInv, TypeOK, Session
  <2> QED
    BY <2>1 DEF IInv, Questions, Travels, PendingIn
<1> QED
  BY <1>1, Inductive, PTL

\* There, an approved tool call runs once at most if no two requests of its session
\* overlap: by the time it runs, its question is in no row and in no other request.
THEOREM ApprovedToolsRunOnce == Spec => []ApprovedToolRunsOnce
<1>1. IInv => ApprovedToolRunsOnce
  BY DEF IInv, Questions, Travels, ApprovedToolRunsOnce
<1> QED
  BY <1>1, Inductive, PTL
=============================================================================
