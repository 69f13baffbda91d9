------------------------------ MODULE ChatServer ------------------------------
(***************************************************************************)
(* OpenAIChatServer: chat requests, answered at once or streamed, and      *)
(* events share one agent object.  A turn of the agent runs under          *)
(* _agent_lock; loading the session, answering its pending question,       *)
(* setting the inbound Authorization header and, outside streaming, saving *)
(* the session happen before or after it.                                  *)
(*                                                                         *)
(* An action is the code between two awaits.  A request names its turn,    *)
(* its header and the question the agent asks in it: a history is the set  *)
(* of the requests whose messages it contains.  Compaction, budgets,       *)
(* tracing, attachments and cost data are off; sessions are not forked or  *)
(* reverted; an event whose turn fails is not retried.                     *)
(***************************************************************************)
EXTENDS Integers, Sequences

CONSTANTS
    Requests,   \* every request and event of a behaviour
    Sessions,
    Nobody      \* None

ASSUME ChatAssumption == Nobody \notin Requests \cup Sessions

VARIABLES
    req,        \* per request: where it is, and its local variables
    agent,      \* the shared agent's messages, _question_pending and inbound context
    queue,      \* _agent_lock: its holder, then those who wait for it, in order
    store,      \* the session store
    executed,   \* how often the tool that question q asks about was run on approval
    overlapped  \* history: sessions used by two requests at a time

vars == << req, agent, queue, store, executed, overlapped >>

-----------------------------------------------------------------------------
Kinds == {"sync", "stream", "event"}
PCs == {"new", "load", "guard", "clear", "decide", "enter", "respond", "queued",
        "turn", "asked", "save", "question", "done"}

Request == [pc       : PCs,
            session  : Sessions \cup {Nobody},
            kind     : Kinds \cup {"none"},
            answers  : BOOLEAN,                     \* answers_to_question_id is set
            question : Requests \cup {Nobody},      \* the pending question it read
            messages : SUBSET Requests]

NewRequest == [pc |-> "new", session |-> Nobody, kind |-> "none", answers |-> FALSE,
               question |-> Nobody, messages |-> {}]

\* inbound: whose Authorization header the agent carries.
Agent == [messages : SUBSET Requests,
          pending  : Requests \cup {Nobody},
          inbound  : Requests \cup {Nobody}]

NewAgent == [messages |-> {}, pending |-> Nobody, inbound |-> Nobody]

Session == [exists : BOOLEAN, messages : SUBSET Requests, pending : Requests \cup {Nobody}]
NoSession == [exists |-> FALSE, messages |-> {}, pending |-> Nobody]

TypeOK ==
    /\ req \in [Requests -> Request]
    /\ agent \in Agent
    /\ queue \in Seq(Requests)
    /\ store \in [Sessions -> Session]
    /\ executed \in [Requests -> Nat]
    /\ overlapped \in SUBSET Sessions

Init ==
    /\ req = [r \in Requests |-> NewRequest]
    /\ agent = NewAgent
    /\ queue = << >>
    /\ store = [s \in Sessions |-> NoSession]
    /\ executed = [q \in Requests |-> 0]
    /\ overlapped = {}

-----------------------------------------------------------------------------
At(r, pc) == req[r].pc = pc
\* A request that has ended has no local variables any more.
Step(local, pc) == [local EXCEPT !.pc = pc,
                                 !.question = IF pc \in {"clear", "decide"} THEN @ ELSE Nobody,
                                 !.messages = IF pc = "done" THEN {} ELSE @]
Goto(r, pc) == req' = [req EXCEPT ![r] = Step(@, pc)]
HasSession(r) == req[r].session # Nobody
Stored(r) == store[req[r].session]
Active(r) == req[r].pc \notin {"new", "done"}

\* Variant: None is stored as str(None).
SetPendingText(s, q) ==
    store' = IF store[s].exists
               THEN [store EXCEPT ![s].pending = IF q = Nobody THEN "None" ELSE q] ELSE store

\* update_state changes no session that does not exist.
SetPending(s, q) ==
    store' = IF store[s].exists THEN [store EXCEPT ![s].pending = q] ELSE store

\* Variant: the question of the turn before is left on the agent.
SetUpKept(r, a, messages) == [a EXCEPT !.messages = messages]

\* async with _agent_lock: a free lock is taken, and the turn set up, without an await.
SetUp(r, a, messages) == [a EXCEPT !.messages = messages, !.pending = Nobody]

\* Variant: the turn runs without the lock.
JoinUnlocked(r, a, local) ==
    /\ queue' = Append(queue, r)
    /\ agent' = SetUp(r, a, local.messages)
    /\ req' = [req EXCEPT ![r] = [local EXCEPT !.pc = "turn"]]

JoinQueue(r, a, local) ==
    /\ queue' = Append(queue, r)
    /\ IF queue = << >>
         THEN /\ agent' = SetUp(r, a, local.messages)
              /\ req' = [req EXCEPT ![r] = [local EXCEPT !.pc = "turn"]]
         ELSE /\ agent' = a
              /\ req' = [req EXCEPT ![r] = [local EXCEPT !.pc = "queued"]]

Without(q, k) == SubSeq(q, 1, k - 1) \o SubSeq(q, k + 1, Len(q))

\* The lock is released, or the wait for it cancelled.
Leave(r) ==
    IF \E k \in DOMAIN queue : queue[k] = r
      THEN \E k \in DOMAIN queue : queue[k] = r /\ queue' = Without(queue, k)
      ELSE UNCHANGED queue

-----------------------------------------------------------------------------
(* Before the turn.                                                        *)
Arrive(r, s, kind, answers) ==
    /\ At(r, "new")
    /\ kind = "event" => ~answers /\ s # Nobody
    /\ req' = [req EXCEPT ![r] = [NewRequest EXCEPT !.pc = "load", !.session = s,
                                                    !.kind = kind, !.answers = answers]]
    /\ overlapped' = IF \E x \in Requests : Active(x) /\ req[x].session = s
                       THEN overlapped \cup ({s} \ {Nobody}) ELSE overlapped
    /\ UNCHANGED << agent, queue, store, executed >>

\* Variant: an event starts from its own message instead of its session's history.
LoadAfresh(r) ==
    LET old == IF HasSession(r) /\ req[r].kind # "event" THEN Stored(r).messages ELSE {}
        local == [req[r] EXCEPT !.messages = {r} \cup old,
                                !.pc = IF HasSession(r) THEN "guard" ELSE "enter"] IN
    /\ At(r, "load")
    /\ IF req[r].kind = "event"
         THEN JoinQueue(r, agent, local)
         ELSE req' = [req EXCEPT ![r] = local] /\ UNCHANGED << agent, queue >>
    /\ UNCHANGED << store, executed, overlapped >>

\* Chat requests go on to read the session's state, if they have a session; events go
\* straight to the lock.
Load(r) ==
    LET local == [req[r] EXCEPT !.messages = {r} \cup IF HasSession(r) THEN Stored(r).messages ELSE {},
                                !.pc = IF HasSession(r) THEN "guard" ELSE "enter"] IN
    /\ At(r, "load")
    /\ IF req[r].kind = "event"
         THEN JoinQueue(r, agent, local)
         ELSE req' = [req EXCEPT ![r] = local] /\ UNCHANGED << agent, queue >>
    /\ UNCHANGED << store, executed, overlapped >>

\* 409 when a question is pending and the request answers none.
Guard(r) ==
    /\ At(r, "guard")
    /\ req' = [req EXCEPT ![r] =
                 Step([@ EXCEPT !.question = Stored(r).pending],
                      IF req[r].answers THEN "clear"
                      ELSE IF Stored(r).pending = Nobody THEN "enter" ELSE "done")]
    /\ UNCHANGED << agent, queue, store, executed, overlapped >>

\* Variant: the question stays pending until the next one replaces it.
ClearNothing(r) ==
    /\ At(r, "clear")
    /\ Goto(r, IF req[r].question = Nobody THEN "done" ELSE "decide")
    /\ UNCHANGED << agent, queue, store, executed, overlapped >>

\* 500 when there was no question to answer, but only after the store is cleared.
ClearQuestion(r) ==
    /\ At(r, "clear")
    /\ SetPending(req[r].session, Nobody)
    /\ Goto(r, IF req[r].question = Nobody THEN "done" ELSE "decide")
    /\ UNCHANGED << agent, queue, executed, overlapped >>

\* The question was a permission ask and the answer allows it.
RunApprovedTool(r) ==
    /\ At(r, "decide")
    /\ executed' = [executed EXCEPT ![req[r].question] = @ + 1]
    /\ Goto(r, "enter")
    /\ UNCHANGED << agent, queue, store, overlapped >>

\* The agent-side question is reset and the inbound context set without the lock; a
\* streamed request takes the lock only when its body is first asked for.
Enter(r) ==
    LET a == [agent EXCEPT !.pending = IF req[r].answers /\ HasSession(r) THEN Nobody ELSE @,
                           !.inbound = r] IN
    /\ At(r, "enter") \/ At(r, "decide")
    /\ IF req[r].kind = "stream"
         THEN agent' = a /\ Goto(r, "respond") /\ UNCHANGED queue
         ELSE JoinQueue(r, a, Step(req[r], "enter"))
    /\ UNCHANGED << store, executed, overlapped >>

StreamBody(r) ==
    /\ At(r, "respond")
    /\ JoinQueue(r, agent, req[r])
    /\ UNCHANGED << store, executed, overlapped >>

-----------------------------------------------------------------------------
(* The turn, under the lock.                                               *)
StartTurn(r) ==
    /\ At(r, "queued")
    /\ Head(queue) = r
    /\ agent' = SetUp(r, agent, req[r].messages)
    /\ Goto(r, "turn")
    /\ UNCHANGED << queue, store, executed, overlapped >>

AskQuestion(r) ==
    /\ At(r, "turn")
    /\ agent' = [agent EXCEPT !.pending = r]
    /\ Goto(r, "asked")
    /\ UNCHANGED << queue, store, executed, overlapped >>

\* The finally clauses: of the chat handler (sync) or of the stream; an event has none.
Reset(r) == [agent EXCEPT !.inbound = IF req[r].kind = "event" THEN @ ELSE Nobody]

\* A stream keeps the lock until it has saved the session.
ToSave(r) ==
    /\ req' = [req EXCEPT ![r] = Step([@ EXCEPT !.messages = agent.messages],
                                      IF HasSession(r) THEN "save" ELSE "done")]
    /\ IF req[r].kind = "stream" /\ HasSession(r) THEN UNCHANGED queue ELSE Leave(r)

EndTurn(r) ==
    /\ At(r, "turn") \/ At(r, "asked")
    /\ agent' = Reset(r)
    /\ ToSave(r)
    /\ UNCHANGED << store, executed, overlapped >>

\* An exception, as when somebody's answer resets the question before its tool call id is
\* stamped on it: a stream logs it and goes on to save, the others give up unsaved.
FailTurn(r) ==
    /\ At(r, "turn") \/ At(r, "asked")
    /\ agent' = Reset(r)
    /\ IF req[r].kind = "stream" THEN ToSave(r) ELSE Goto(r, "done") /\ Leave(r)
    /\ UNCHANGED << store, executed, overlapped >>

\* Variant: acquire() and release() without async with.
DisconnectLocked(r) ==
    /\ req[r].kind = "stream"
    /\ req[r].pc \in {"respond", "queued", "turn", "asked", "save", "question"}
    /\ agent' = IF req[r].pc \in {"turn", "asked"} THEN Reset(r) ELSE agent
    /\ Goto(r, "done")
    /\ UNCHANGED << queue, store, executed, overlapped >>

\* The client of a stream goes away: the generator is closed wherever it is, but only
\* inside the turn is there a finally to reset the agent.
Disconnect(r) ==
    /\ req[r].kind = "stream"
    /\ req[r].pc \in {"respond", "queued", "turn", "asked", "save", "question"}
    /\ agent' = IF req[r].pc \in {"turn", "asked"} THEN Reset(r) ELSE agent
    /\ Leave(r)
    /\ Goto(r, "done")
    /\ UNCHANGED << store, executed, overlapped >>

-----------------------------------------------------------------------------
\* Variant: agent.messages is read when it is written, not when the turn ends.
SaveSessionLate(r) ==
    /\ At(r, "save")
    /\ store' = [store EXCEPT ![req[r].session].exists = TRUE,
                              ![req[r].session].messages = agent.messages]
    /\ Goto(r, IF req[r].kind = "event" THEN "done" ELSE "question")
    /\ UNCHANGED << agent, queue, executed, overlapped >>

(* After the turn.                                                         *)
SaveSession(r) ==
    /\ At(r, "save")
    /\ store' = [store EXCEPT ![req[r].session].exists = TRUE,
                              ![req[r].session].messages = req[r].messages]
    /\ Goto(r, IF req[r].kind = "event" THEN "done" ELSE "question")
    /\ UNCHANGED << agent, queue, executed, overlapped >>

\* agent._question_pending is read now, by a sync request without the lock.
PersistQuestion(r) ==
    /\ At(r, "question")
    /\ IF agent.pending # Nobody
         THEN SetPending(req[r].session, agent.pending) ELSE UNCHANGED store
    /\ Leave(r)
    /\ Goto(r, "done")
    /\ UNCHANGED << agent, executed, overlapped >>

\* POST /v1/sessions: a second INSERT of the same id is refused by the primary key.
CreateSession(s) ==
    /\ ~store[s].exists
    /\ store' = [store EXCEPT ![s].exists = TRUE]
    /\ UNCHANGED << req, agent, queue, executed, overlapped >>

\* DELETE /v1/sessions/{id}, and housekeeping of sessions not updated for long.
DeleteSession(s) ==
    /\ store[s].exists
    /\ store' = [store EXCEPT ![s] = NoSession]
    /\ UNCHANGED << req, agent, queue, executed, overlapped >>

\* The process dies with all it had in memory; the store survives.
Restart ==
    /\ \E r \in Requests : Active(r)
    /\ req' = [r \in Requests |-> IF Active(r) THEN Step(req[r], "done") ELSE req[r]]
    /\ agent' = NewAgent
    /\ queue' = << >>
    /\ UNCHANGED << store, executed, overlapped >>

-----------------------------------------------------------------------------
\* What the server does for r by itself, sooner or later.
Progress(r) ==
    \/ Load(r) \/ Guard(r) \/ ClearQuestion(r) \/ RunApprovedTool(r) \/ Enter(r)
    \/ StreamBody(r) \/ StartTurn(r) \/ AskQuestion(r)
    \/ EndTurn(r) \/ FailTurn(r) \/ SaveSession(r) \/ PersistQuestion(r)

Next ==
    \/ \E r \in Requests :
        \/ \E s \in Sessions \cup {Nobody}, kind \in Kinds, answers \in BOOLEAN : Arrive(r, s, kind, answers)
        \/ Progress(r)
        \/ Disconnect(r)
    \/ \E s \in Sessions : CreateSession(s) \/ DeleteSession(s)
    \/ Restart

Spec == Init /\ [][Next]_vars

\* The event loop runs every ready coroutine; a turn makes at most max_iterations calls of a
\* model client that has a timeout, and of tools that are assumed to end.
FairSpec == Spec /\ \A r \in Requests : WF_vars(Progress(r))

-----------------------------------------------------------------------------
(* Properties.                                                             *)
InTurn(r) == req[r].pc \in {"turn", "asked"}

\* The agent works for one request at a time, on the history that request loaded:
\* "all requests share a single agent instance, serialised through _agent_lock".
TurnRunsAlone ==
    \A r \in Requests :
        InTurn(r) => Head(queue) = r /\ agent.messages = req[r].messages

\* No session ever contains a turn of another, though all of them pass through the
\* same agent.messages and a sync request saves after it has released the lock.
SessionsStayApart ==
    \A s \in Sessions : \A r \in store[s].messages : req[r].session = s

\* As long as a session's requests do not overlap, a turn once saved stays, whatever
\* the requests of other sessions, failures, disconnections and restarts do meanwhile.
SavedTurnsSurvive ==
    [][\A s \in Sessions :
         \/ s \in overlapped
         \/ DeleteSession(s)
         \/ store[s].messages \subseteq store'[s].messages]_vars

NoSyncRequest == \A r \in Requests : req[r].kind # "sync"

\* Streams persist the agent's question before they release the lock: without sync
\* requests, the question pending in a session was asked in that session.
QuestionsStayHome ==
    NoSyncRequest =>
        \A s \in Sessions :
            store[s].pending # Nobody => req[store[s].pending].session = s

\* There, too, a tool call that needed approval is run at most once, unless the
\* session's requests overlap: the question is cleared before the tool runs.
ApprovedToolRunsOnce ==
    NoSyncRequest =>
        \A q \in Requests : executed[q] > 1 => req[q].session \in overlapped

\* Every request is answered: nobody leaves the server holding the lock.
EveryRequestEnds == \A r \in Requests : At(r, "load") ~> At(r, "done")

\* A turn that delegates does so as its own caller or anonymously.  The comment in the
\* handler: the header is reset "so the value doesn't leak into subsequent requests".
DelegatesAsItsCaller ==
    \A r \in Requests : InTurn(r) => agent.inbound \in {r, Nobody}
=============================================================================
