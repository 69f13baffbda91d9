------------------------------ MODULE AgentLoop ------------------------------
(***************************************************************************)
(* One session's conversation with BaseAgent.astep_stream, turn after      *)
(* turn: the model calls tools, calls are run, denied, blocked or put to   *)
(* the operator, old messages are compacted, and every turn may fail.      *)
(*                                                                         *)
(* A call names its tool with the arguments, and has an id of its own, as  *)
(* model providers make them.  The requests of the session come one at a   *)
(* time: ChatServer has those that overlap.                                *)
(***************************************************************************)
EXTENDS Integers, Sequences, FiniteSets

CONSTANTS
    Tools,            \* operations: a tool with its arguments
    Gated,            \* those whose requires_approval holds
    Decisions,        \* per operation: what the permission source may decide
    MaxIterations,    \* model calls of a turn
    RepeatThreshold,  \* loop.guard: so many equal calls
    PatternWindow,    \* among so many stop a turn
    CompactAt,        \* threshold_messages
    KeepTurns,        \* keep_recent_turns
    MaxPerReply,      \* bound: calls in one message of the model
    MaxCalls,         \* bound: calls in a behaviour
    MaxTurns          \* bound: requests in a behaviour

ASSUME AgentLoopAssumption ==
    /\ Gated \subseteq Tools
    /\ Decisions \in [Tools -> SUBSET {"allow", "deny", "ask"}]
    /\ {MaxIterations, CompactAt, KeepTurns} \subseteq Nat \ {0}
    /\ {RepeatThreshold, PatternWindow} \subseteq Nat \ {0, 1}
    /\ {MaxPerReply, MaxCalls, MaxTurns} \subseteq Nat

VARIABLES
    saved,      \* the session row: its messages and pending_question
    messages,   \* of the request, then agent.messages
    pending,    \* agent._question_pending: the call it is about
    turn,       \* where the request is, and the local variables of astep_stream
    lastId,     \* of the calls so far
    turns,      \* requests so far
    ran,        \* history: the calls executed, in order, with their turns
    allowed,    \* history: ids the operator has allowed
    hit         \* history: ids whose question, or answer, a failure has lost

vars == << saved, messages, pending, turn, lastId, turns, ran, allowed, hit >>

-----------------------------------------------------------------------------
(* Messages.  A reply in words is an assistant message that calls nothing. *)
Call == [id : Nat \ {0}, tool : Tools]
NoQuestion == [id |-> 0]
Question == Call \cup {NoQuestion}

User == [role |-> "user"]
Assistant(calls) == [role |-> "assistant", calls |-> calls]
Result(id, what) == [role |-> "tool", id |-> id, what |-> what]
Sentinel(id) == Result(id, "pending")
Summary == [role |-> "developer"]

Message ==
    {User, Summary} \cup [role : {"assistant"}, calls : Seq(Call)]
        \cup [role : {"tool"}, id : Nat \ {0}, what : {"result", "denied", "blocked", "pending"}]

Positions(m, role) == {i \in DOMAIN m : m[i].role = role}
Sentinels(m) == {m[i].id : i \in {j \in Positions(m, "tool") : m[j].what = "pending"}}
CallIds(message) == {message.calls[k].id : k \in DOMAIN message.calls}

-----------------------------------------------------------------------------
Turn == [pc : {"idle", "answer", "setup", "model", "calls", "save", "question"},
         kind : {"none", "sync", "stream"}, question : Question, models : 0..MaxIterations,
         todo : Seq(Call), window : Seq(Tools)]

Idle == [pc |-> "idle", kind |-> "none", question |-> NoQuestion, models |-> 0,
         todo |-> << >>, window |-> << >>]

TypeOK ==
    /\ saved \in [messages : Seq(Message), question : Question]
    /\ messages \in Seq(Message)
    /\ pending \in Question
    /\ turn \in Turn
    /\ lastId \in 0..MaxCalls
    /\ turns \in 0..MaxTurns
    /\ ran \in Seq([id : Nat, tool : Tools, turn : Nat])
    /\ allowed \subseteq 1..lastId
    /\ hit \subseteq 1..lastId

Init ==
    /\ saved = [messages |-> << >>, question |-> NoQuestion]
    /\ messages = << >>
    /\ pending = NoQuestion
    /\ turn = Idle
    /\ lastId = 0
    /\ turns = 0
    /\ ran = << >>
    /\ allowed = {}
    /\ hit = {}

At(pc) == turn.pc = pc
Goto(pc) == turn' = [turn EXCEPT !.pc = pc]
Append1(message) == messages' = Append(messages, message)

-----------------------------------------------------------------------------
(* The request, until the turn begins.                                     *)
\* A question that is pending makes it 409, without a change of state.
Request(kind) ==
    /\ At("idle")
    /\ turns < MaxTurns
    /\ saved.question = NoQuestion
    /\ turns' = turns + 1
    /\ messages' = Append(saved.messages, User)
    /\ turn' = [Idle EXCEPT !.pc = "setup", !.kind = kind]
    /\ UNCHANGED << saved, pending, lastId, ran, allowed, hit >>

\* The answer itself is dropped from the messages.
AnswerQuestion(kind) ==
    /\ At("idle")
    /\ turns < MaxTurns
    /\ saved.question # NoQuestion
    /\ turns' = turns + 1
    /\ saved' = [saved EXCEPT !.question = NoQuestion]
    /\ messages' = saved.messages
    /\ turn' = [Idle EXCEPT !.pc = "answer", !.kind = kind, !.question = saved.question]
    /\ UNCHANGED << pending, lastId, ran, allowed, hit >>

\* Variant: the outcome is added at the end of the history.
InjectAtEnd(what) ==
    /\ messages' = Append(messages, Result(turn.question.id, what))
    /\ Goto("setup")

\* The result of the call asked about takes its sentinel's place.
Inject(what) ==
    /\ messages' = [i \in DOMAIN messages |->
                      IF messages[i] = Sentinel(turn.question.id)
                        THEN Result(turn.question.id, what) ELSE messages[i]]
    /\ Goto("setup")

\* With the arguments stored in the question; neither the permission source nor the hooks
\* are asked.
RunApprovedTool ==
    /\ At("answer")
    /\ ran' = Append(ran, [id |-> turn.question.id, tool |-> turn.question.tool, turn |-> turns])
    /\ allowed' = allowed \cup {turn.question.id}
    /\ Inject("result")
    /\ UNCHANGED << saved, pending, lastId, turns, hit >>

RefuseTool ==
    /\ At("answer")
    /\ Inject("denied")
    /\ UNCHANGED << saved, pending, lastId, turns, ran, allowed, hit >>

-----------------------------------------------------------------------------
(* Under the agent lock.                                                   *)
\* Variant: the question of the turn before is left on the agent.
SetUpKept ==
    /\ At("setup")
    /\ Goto("model")
    /\ UNCHANGED << saved, messages, pending, lastId, turns, ran, allowed, hit >>

SetUp ==
    /\ At("setup")
    /\ pending' = NoQuestion
    /\ Goto("model")
    /\ UNCHANGED << saved, messages, lastId, turns, ran, allowed, hit >>

\* LLMCompactor.compact: from where on messages are preserved.  First, the last KeepTurns
\* user messages, or as many as there are; then no result is parted from its call.
RecentFrom(m) ==
    LET users == Positions(m, "user")
        recent == {i \in users : Cardinality({j \in users : j >= i}) <= KeepTurns} IN
    IF recent = {} THEN Len(m) + 1 ELSE CHOOSE i \in recent : \A j \in recent : i <= j

PreservedFrom(m) ==
    LET from == RecentFrom(m)
        calls == UNION {CallIds(m[i]) : i \in Positions(m, "assistant") \cap (from..Len(m))}
        results == {m[i].id : i \in Positions(m, "tool") \cap (from..Len(m))}
        moved == {from} \cup {i \in Positions(m, "tool") : m[i].id \in calls}
                        \cup {i \in Positions(m, "assistant") : CallIds(m[i]) \cap results # {}} IN
    CHOOSE i \in moved : \A j \in moved : i <= j

\* Variant: pending calls are summarised like any others.
CompactAll ==
    /\ At("setup")
    /\ Len(messages) >= CompactAt
    /\ LET from == PreservedFrom(messages) IN
         /\ from > 1
         /\ messages' = << Summary >> \o SubSeq(messages, from, Len(messages))
    /\ pending' = NoQuestion
    /\ Goto("model")
    /\ UNCHANGED << saved, lastId, turns, ran, allowed, hit >>

\* The model may also fail to summarise: then SetUp.
Compact ==
    /\ At("setup")
    /\ Len(messages) >= CompactAt
    /\ LET from == PreservedFrom(messages) IN
         /\ from > 1
         /\ Sentinels(SubSeq(messages, 1, from - 1)) = {}
         /\ messages' = << Summary >> \o SubSeq(messages, from, Len(messages))
    /\ pending' = NoQuestion
    /\ Goto("model")
    /\ UNCHANGED << saved, lastId, turns, ran, allowed, hit >>

-----------------------------------------------------------------------------
(* A call of the model.                                                    *)
\* Variant: one call more than max_iterations.
ModelCallOnceMore(pc) ==
    /\ At("model")
    /\ turn.models <= MaxIterations
    /\ turn' = [turn EXCEPT !.pc = pc, !.models = @ + 1]
    /\ UNCHANGED << saved, pending, turns, ran, allowed, hit >>

ModelCall(pc) ==
    /\ At("model")
    /\ turn.models < MaxIterations
    /\ turn' = [turn EXCEPT !.pc = pc, !.models = @ + 1]
    /\ UNCHANGED << saved, pending, turns, ran, allowed, hit >>

Reply == ModelCall("save") /\ Append1(Assistant(<< >>)) /\ UNCHANGED lastId

\* No words and no calls, or over a limit of the turn: what was said is not kept.
ReplyNothing == ModelCall("save") /\ UNCHANGED << messages, lastId >>

\* The message is appended before its calls are dispatched; calls without a name are left
\* out, so that it may call nothing.
CallTools(tools) ==
    LET calls == [i \in DOMAIN tools |-> [id |-> lastId + i, tool |-> tools[i]]] IN
    /\ At("model")
    /\ turn.models < MaxIterations
    /\ lastId + Len(tools) <= MaxCalls
    /\ lastId' = lastId + Len(tools)
    /\ Append1(Assistant(calls))
    /\ turn' = [turn EXCEPT !.pc = IF calls = << >> THEN "model" ELSE "calls",
                            !.models = @ + 1, !.todo = calls]
    /\ UNCHANGED << saved, pending, turns, ran, allowed, hit >>

\* Variant: the turn is to end after one call more than the loop makes.
ExhaustedLater ==
    /\ At("model")
    /\ turn.models > MaxIterations
    /\ Goto("save")
    /\ UNCHANGED << saved, messages, pending, lastId, turns, ran, allowed, hit >>

\* for ... else: the turn ends with finish_reason "length".
Exhausted ==
    /\ At("model")
    /\ turn.models = MaxIterations
    /\ Goto("save")
    /\ UNCHANGED << saved, messages, pending, lastId, turns, ran, allowed, hit >>

-----------------------------------------------------------------------------
(* The calls of the message, one after the other.                          *)
Current == Head(turn.todo)
NextCall == [turn EXCEPT !.todo = Tail(@), !.pc = IF Tail(turn.todo) = << >> THEN "model" ELSE @]
Stop == [turn EXCEPT !.pc = "save", !.todo = << >>]

Decided(decision) == Current.tool \notin Gated /\ decision \in Decisions[Current.tool]

\* Variant: the loop goes on to the next call.
AskOperatorOn ==
    /\ At("calls")
    /\ Current.tool \in Gated \/ Decided("ask")
    /\ pending' = Current
    /\ Append1(Sentinel(Current.id))
    /\ turn' = NextCall
    /\ UNCHANGED << saved, lastId, turns, ran, allowed, hit >>

\* For want of approval, or by the permission source: the rest of the calls is dropped.
AskOperator ==
    /\ At("calls")
    /\ Current.tool \in Gated \/ Decided("ask")
    /\ pending' = Current
    /\ Append1(Sentinel(Current.id))
    /\ turn' = Stop
    /\ UNCHANGED << saved, lastId, turns, ran, allowed, hit >>

\* By the permission source, or by a pre_tool_use hook; the doom-loop guard counts neither.
Refuse(decision, what) ==
    /\ At("calls")
    /\ Decided(decision)
    /\ Append1(Result(Current.id, what))
    /\ turn' = NextCall
    /\ UNCHANGED << saved, pending, lastId, turns, ran, allowed, hit >>

DenyCall == Refuse("deny", "denied")
BlockCall == Refuse("allow", "blocked")

\* The last PatternWindow calls.
Window(tool) ==
    LET window == Append(turn.window, tool)
        over == Len(window) - PatternWindow IN
    IF over > 0 THEN SubSeq(window, over + 1, Len(window)) ELSE window

\* Variant: the call just made is not counted.
RepeatsBefore(tool) == Cardinality({i \in DOMAIN turn.window : turn.window[i] = tool})

Repeats(tool) == Cardinality({i \in DOMAIN Window(tool) : Window(tool)[i] = tool})

\* Variant: approval is asked for only by the permission source.
ExecuteCallUngated ==
    /\ At("calls")
    /\ "allow" \in Decisions[Current.tool] \/ Current.tool \in Gated
    /\ ran' = Append(ran, [id |-> Current.id, tool |-> Current.tool, turn |-> turns])
    /\ Append1(Result(Current.id, "result"))
    /\ turn' = [(IF Repeats(Current.tool) >= RepeatThreshold THEN Stop ELSE NextCall)
                  EXCEPT !.window = Window(Current.tool)]
    /\ UNCHANGED << saved, pending, lastId, turns, allowed, hit >>

\* A tool that fails has a result all the same.
ExecuteCall ==
    /\ At("calls")
    /\ Decided("allow")
    /\ ran' = Append(ran, [id |-> Current.id, tool |-> Current.tool, turn |-> turns])
    /\ Append1(Result(Current.id, "result"))
    /\ turn' = [(IF Repeats(Current.tool) >= RepeatThreshold THEN Stop ELSE NextCall)
                  EXCEPT !.window = Window(Current.tool)]
    /\ UNCHANGED << saved, pending, lastId, turns, allowed, hit >>

-----------------------------------------------------------------------------
(* The end of the turn.                                                    *)
\* The messages are not read any more: the next request brings its own.
EndRequest == turn' = Idle /\ messages' = << >>

Save ==
    /\ At("save")
    /\ saved' = [saved EXCEPT !.messages = messages]
    /\ Goto("question")
    /\ UNCHANGED << messages, pending, lastId, turns, ran, allowed, hit >>

PersistQuestion ==
    /\ At("question")
    /\ saved' = [saved EXCEPT !.question = IF pending = NoQuestion THEN @ ELSE pending]
    /\ EndRequest
    /\ UNCHANGED << pending, lastId, turns, ran, allowed, hit >>

\* The model or the permission source raises: a stream logs it and saves what there is.
FailStream ==
    /\ At("model") \/ At("calls")
    /\ turn.kind = "stream"
    /\ turn' = Stop
    /\ UNCHANGED << saved, messages, pending, lastId, turns, ran, allowed, hit >>

\* A sync request raises, the client of a stream goes away, or the process dies: what is
\* not in the row is gone, and the row does not have the question that was cleared before
\* the turn, or has not yet the one that was to follow.
Abandon ==
    /\ ~At("idle")
    /\ EndRequest
    /\ hit' = hit \cup ({(IF At("question") THEN pending ELSE turn.question).id} \ {0})
    /\ pending' \in {pending, NoQuestion}
    /\ UNCHANGED << saved, lastId, turns, ran, allowed >>

-----------------------------------------------------------------------------
Calls == AskOperator \/ DenyCall \/ BlockCall \/ ExecuteCall

\* What goes on by itself once a request has arrived.
Progress ==
    \/ RunApprovedTool \/ RefuseTool
    \/ SetUp \/ Compact
    \/ Reply \/ ReplyNothing \/ Exhausted
    \/ \E n \in 0..MaxPerReply : \E tools \in [1..n -> Tools] : CallTools(tools)
    \/ Calls
    \/ Save \/ PersistQuestion

Next ==
    \/ \E kind \in {"sync", "stream"} : Request(kind) \/ AnswerQuestion(kind)
    \/ Progress
    \/ FailStream
    \/ Abandon

Spec == Init /\ [][Next]_vars

\* The event loop runs what is ready, and the model has a timeout; that tools and hooks end is
\* assumed (ToolRegistry.execute gives them none).
FairSpec == Spec /\ WF_vars(Progress)

-----------------------------------------------------------------------------
(* Properties.                                                             *)
\* The positions of the results of the assistant message at i: those that follow it
\* before anybody else speaks.
ResultsOf(m, i) ==
    {j \in Positions(m, "tool") : j > i /\ \A k \in (i + 1)..j : m[k].role = "tool"}

\* A tool message answers a call of the assistant message it follows; each call is answered
\* at most once, and in the order of the calls.
WellOrdered(m) ==
    \A j \in Positions(m, "tool") :
        \E i \in Positions(m, "assistant") :
            /\ j \in ResultsOf(m, i)
            /\ j - i <= Len(m[i].calls)
            /\ m[j].id = m[i].calls[j - i].id

\* Results never go astray, in the agent's messages or the session's: not by compaction,
\* by an operator's answer many messages later, or by a failure ("the conversation history
\* is correctly shaped").
ResultsFollowCalls == WellOrdered(messages) /\ WellOrdered(saved.messages)

\* The question a session waits on is the last thing in its history: the answer finds the
\* sentinel it is to replace.
QuestionHasSentinel ==
    saved.question # NoQuestion =>
        LET m == saved.messages IN m # << >> /\ m[Len(m)] = Sentinel(saved.question.id)

\* What the history shows as waiting for the operator is what the session waits for, or is
\* just being answered or persisted, unless a failure has lost the question.
SentinelIsPending ==
    Sentinels(saved.messages) \subseteq
        {saved.question.id, turn.question.id} \cup hit \cup (IF At("question") THEN {pending.id} ELSE {})

\* An operation that requires approval is run for a call the operator has allowed, and no
\* call is run twice, though questions survive turns, failures and restarts.
GatedCallsAreApproved ==
    \A i \in DOMAIN ran :
        /\ ran[i].tool \in Gated => ran[i].id \in allowed
        /\ \A j \in DOMAIN ran : ran[i].id = ran[j].id => i = j

\* A call that waits for the operator leaves the history only by being answered: it is not
\* summarised away.
PendingIsNotSummarised ==
    [][Sentinels(saved.messages) \ Sentinels(saved'.messages) \subseteq {turn.question.id}]_vars

\* The call at i of those executed is one that the loop has made in this turn: not one that
\* the operator has allowed.
Mine(i) == ran[i].turn = turns /\ ran[i].id \notin allowed

\* The doom-loop guard: no turn goes on after the same operation has been run
\* RepeatThreshold times in a row, if the window is wide enough to see it.
RepeatsAreStopped ==
    (At("model") \/ At("calls")) /\ RepeatThreshold <= PatternWindow =>
        ~ \E t \in Tools, from \in DOMAIN ran :
            /\ from + RepeatThreshold - 1 = Len(ran)
            /\ \A i \in from..Len(ran) : Mine(i) /\ ran[i].tool = t

\* Whatever the model says, a turn ends.
EveryTurnEnds == At("setup") ~> At("idle")

\* "so that the conversation history is correctly shaped for the next model call": when
\* the model is called, every call of the history has its result.
NextCallWellShaped ==
    At("model") =>
        \A i \in Positions(messages, "assistant") :
            Cardinality(ResultsOf(messages, i)) = Len(messages[i].calls)
=============================================================================
