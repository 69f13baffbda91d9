-------------------------- MODULE AgentLoopProofs --------------------------
(***************************************************************************)
(* AgentLoop for any tools, limits and thresholds and any number of calls  *)
(* and turns: a question and its sentinel stay together, a call that needs *)
(* approval is run once and only when allowed, nothing that waits for the  *)
(* operator is summarised, every result follows its call, and a row of     *)
(* equal calls ends the turn.                                              *)
(*                                                                         *)
(* None of these is inductive: a question travels from the agent through   *)
(* the session's row to the request that answers it.  Asked says where it  *)
(* is at each moment, Waiting what the histories show meanwhile, Shape how *)
(* far the message that is being dispatched has got, and Counted what the  *)
(* window of the guard holds.                                              *)
(***************************************************************************)
EXTENDS AgentLoop, SequenceTheorems, FiniteSetTheorems, WellFoundedInduction, TLAPS

RanIds == {ran[i].id : i \in DOMAIN ran}

\* The calls still to dispatch are new: none has been run, and no two are the same.
Dispatch ==
    /\ At("calls") <=> turn.todo # << >>
    /\ \A k \in DOMAIN turn.todo :
         /\ turn.todo[k].id \in 1..lastId
         /\ turn.todo[k].id \notin RanIds
         /\ \A l \in DOMAIN turn.todo : turn.todo[k].id = turn.todo[l].id => k = l

EndsWith(m, message) == m # << >> /\ m[Len(m)] = message

\* The question is in the session's row while no request runs, then with the request that
\* answers it; one that a turn asks is the last thing said in it.
Asked ==
    /\ ~At("idle") => saved.question = NoQuestion
    /\ At("answer") => turn.question # NoQuestion
    /\ At("model") \/ At("calls") => pending = NoQuestion
    /\ (At("save") \/ At("question")) /\ pending # NoQuestion => EndsWith(messages, Sentinel(pending.id))
    /\ At("question") => saved.messages = messages
    /\ QuestionHasSentinel

\* Nobody has run, yet, a call that a question is about.
Unrun(q) == q.id \in 0..lastId /\ q.id \notin RanIds

Ids ==
    /\ RanIds \subseteq 1..lastId
    /\ Unrun(saved.question)
    /\ turn.question.id \in 0..lastId
    /\ At("answer") => Unrun(turn.question)
    /\ pending.id \in 0..lastId
    /\ At("save") \/ At("question") => Unrun(pending)

\* What the histories show as waiting.
Waiting ==
    /\ SentinelIsPending
    /\ At("idle") => turn.question = NoQuestion
    /\ ~At("idle") =>
         /\ Sentinels(messages) \subseteq
              hit \cup (IF At("answer") THEN {turn.question.id}
                        ELSE IF At("save") \/ At("question") THEN {pending.id} ELSE {})
         /\ Sentinels(saved.messages) \subseteq Sentinels(messages) \cup {turn.question.id}

IInv ==
    /\ TypeOK
    /\ Dispatch
    /\ Asked
    /\ Ids
    /\ GatedCallsAreApproved
    /\ Waiting

\* The tool message at j is the result of a call of the assistant message at i.
Answers(m, i, j) ==
    /\ i \in Positions(m, "assistant") /\ i < j
    /\ \A k \in (i + 1)..j : m[k].role = "tool"
    /\ j - i <= Len(m[i].calls)
    /\ m[j].id = m[i].calls[j - i].id

\* Every call of a history is known, and said once.
Numbered(m, n) ==
    \A i \in Positions(m, "assistant") :
        /\ CallIds(m[i]) \subseteq 1..n
        /\ \A j \in Positions(m, "assistant") : i # j => CallIds(m[i]) \cap CallIds(m[j]) = {}

\* The assistant message at i is followed by the results of its first calls; the others
\* are still to do.
Dispatched(m, i, todo) ==
    LET done == Len(m) - i IN
    /\ i \in Positions(m, "assistant")
    /\ \A k \in (i + 1)..Len(m) : m[k].role = "tool"
    /\ done + Len(todo) = Len(m[i].calls)
    /\ \A k \in DOMAIN todo : todo[k].id = m[i].calls[done + k].id

Dispatching == At("calls") => \E i \in Nat : Dispatched(messages, i, turn.todo)

Shape ==
    /\ ResultsFollowCalls
    /\ Numbered(messages, lastId) /\ Numbered(saved.messages, lastId)
    /\ Dispatching

-----------------------------------------------------------------------------
(* Messages and histories.                                                 *)
LEMMA MessageTypes ==
    /\ User \in Message /\ Summary \in Message
    /\ \A calls \in Seq(Call) : Assistant(calls) \in Message
    /\ \A i \in Nat \ {0}, w \in {"result", "denied", "blocked", "pending"} : Result(i, w) \in Message
BY DEF Message, User, Summary, Assistant, Result

\* A set of positions has a first one.
LEMMA FirstExists ==
    ASSUME NEW T, T \subseteq Nat, T # {}
    PROVE  \E i \in T : \A j \in T : i <= j
<1>. DEFINE R == {p \in Nat \X Nat : p[1] < p[2]}
<1>1. IsWellFoundedOn(R, Nat)
  BY NatLessThanWellFounded, Zenon DEF OpToRel
<1>2. \E i \in T : \A j \in T : ~ (<< j, i >> \in R)
  <2>. HIDE DEF R
  <2>. QED BY <1>1, WFMin
<1>3. \A i, j \in T : i <= j \/ << j, i >> \in R
  OBVIOUS
<1>. QED BY <1>2, <1>3

\* The positions among which LLMCompactor.compact takes the first.
Moved(m) ==
    LET from == RecentFrom(m)
        calls == UNION {CallIds(m[i]) : i \in Positions(m, "assistant") \cap (from..Len(m))}
        results == {m[i].id : i \in Positions(m, "tool") \cap (from..Len(m))} IN
    {from} \cup {i \in Positions(m, "tool") : m[i].id \in calls}
           \cup {i \in Positions(m, "assistant") : CallIds(m[i]) \cap results # {}}

LEMMA RecentFromIsPosition ==
    ASSUME NEW m \in Seq(Message)
    PROVE  RecentFrom(m) \in 1..(Len(m) + 1)
<1>. DEFINE users == Positions(m, "user")
            recent == {i \in users : Cardinality({j \in users : j >= i}) <= KeepTurns}
<1>0. Len(m) \in Nat /\ DOMAIN m = 1..Len(m)
  BY LenProperties
<1>1. recent \subseteq 1..(Len(m) + 1) /\ Len(m) + 1 \in 1..(Len(m) + 1)
  BY <1>0 DEF Positions
<1>2. CASE recent = {}
  BY <1>1, <1>2 DEF RecentFrom
<1>3. CASE recent # {}
  <2>1. \E i \in recent : \A j \in recent : i <= j
    <3>1. recent \subseteq Nat
      BY DEF Positions
    <3>. HIDE DEF recent
    <3>. QED BY <1>3, <3>1, FirstExists
  <2>2. RecentFrom(m) = CHOOSE i \in recent : \A j \in recent : i <= j
    BY <1>3 DEF RecentFrom
  <2>. QED BY <1>1, <2>1, <2>2
<1>. QED BY <1>2, <1>3

LEMMA PreservedFromIsFirst ==
    ASSUME NEW m \in Seq(Message)
    PROVE  /\ PreservedFrom(m) \in Moved(m)
           /\ \A i \in Moved(m) : PreservedFrom(m) <= i
<1>0. Len(m) \in Nat /\ DOMAIN m = 1..Len(m)
  BY LenProperties
<1>1. Moved(m) \subseteq Nat /\ Moved(m) # {}
  BY <1>0, RecentFromIsPosition DEF Moved, Positions
<1>2. \E i \in Moved(m) : \A j \in Moved(m) : i <= j
  BY <1>1, FirstExists
<1>3. PreservedFrom(m) = CHOOSE i \in Moved(m) : \A j \in Moved(m) : i <= j
  BY DEF PreservedFrom, Moved
<1>. QED BY <1>2, <1>3

\* What is preserved begins at a position, or just after the end.
LEMMA PreservedFromIsPosition ==
    ASSUME NEW m \in Seq(Message)
    PROVE  PreservedFrom(m) \in 1..(Len(m) + 1)
<1>1. Moved(m) \subseteq 1..(Len(m) + 1)
  <2>1. Len(m) \in Nat /\ DOMAIN m = 1..Len(m)
    BY LenProperties
  <2>. QED BY <2>1, RecentFromIsPosition DEF Moved, Positions
<1>. QED BY <1>1, PreservedFromIsFirst

\* A history that begins with its summary.
LEMMA Compacted ==
    ASSUME NEW m \in Seq(Message), NEW from \in 2..(Len(m) + 1)
    PROVE  LET new == << Summary >> \o SubSeq(m, from, Len(m)) IN
           /\ new \in Seq(Message)
           /\ DOMAIN new = 1..(Len(m) + 2 - from)
           /\ new[1] = Summary
           /\ \A i \in 2..(Len(m) + 2 - from) : new[i] = m[from + i - 2]
<1>. DEFINE recent == SubSeq(m, from, Len(m))
            new == << Summary >> \o recent
<1>1. Len(m) \in Nat /\ DOMAIN m = 1..Len(m)
  BY LenProperties
<1>3. Len(recent) = Len(m) + 1 - from /\ \A i \in 1..Len(recent) : recent[i] = m[from + i - 1]
  BY <1>1, SubSeqProperties
<1>4. recent \in Seq(Message) /\ << Summary >> \in Seq(Message)
  BY <1>1, MessageTypes, SubSeqProperties
<1>. HIDE DEF recent
<1>5. Len(<< Summary >>) = 1 /\ << Summary >>[1] = Summary
  OBVIOUS
<1>6. new \in Seq(Message) /\ Len(new) = Len(m) + 2 - from /\ DOMAIN new = 1..Len(new)
  BY <1>1, <1>3, <1>4, <1>5, ConcatProperties, LenProperties
<1>7. new[1] = Summary
  BY <1>4, <1>5, ConcatProperties
<1>8. ASSUME NEW i \in 2..(Len(m) + 2 - from) PROVE new[i] = m[from + i - 2]
  <2>1. i - 1 \in 1..Len(recent) /\ i \in 2..(1 + Len(recent)) /\ from + (i - 1) - 1 = from + i - 2
    BY <1>1, <1>3
  <2>2. new[i] = recent[i - 1]
    BY <1>4, <1>5, <2>1, ConcatProperties, LenProperties
  <2>3. recent[i - 1] = m[from + (i - 1) - 1]
    BY <1>3, <2>1
  <2>. QED BY <2>1, <2>2, <2>3
<1>. QED BY <1>6, <1>7, <1>8 DEF recent

LEMMA CompactedType ==
    ASSUME NEW m \in Seq(Message), PreservedFrom(m) > 1
    PROVE  << Summary >> \o SubSeq(m, PreservedFrom(m), Len(m)) \in Seq(Message)
<1>1. PreservedFrom(m) \in 2..(Len(m) + 1)
  BY PreservedFromIsPosition, LenProperties
<1>. QED BY <1>1, Compacted

-----------------------------------------------------------------------------
(* Types.                                                                  *)
\* The calls still to dispatch, once the first of them is dealt with.
LEMMA NextCallType ==
    ASSUME TypeOK, Dispatch, At("calls")
    PROVE  /\ Current \in Call
           /\ Current.id \in 1..lastId
           /\ NextCall \in Turn /\ NextCall.pc \in {"calls", "model"}
           /\ Stop \in Turn
<1>1. turn.todo \in Seq(Call) /\ turn.todo # << >>
  BY DEF TypeOK, Turn, Dispatch
<1>2. Current = turn.todo[1] /\ Tail(turn.todo) \in Seq(Call) /\ 1 \in DOMAIN turn.todo
  BY <1>1, HeadTailProperties DEF Current
<1>3. Current \in Call /\ Current.id \in 1..lastId
  BY <1>1, <1>2, ElementOfSeq DEF Dispatch
<1>4. << >> \in Seq(Call)
  OBVIOUS
<1>. QED BY <1>1, <1>2, <1>3, <1>4 DEF TypeOK, Turn, NextCall, Stop, At

LEMMA WindowType ==
    ASSUME TypeOK, NEW tool \in Tools
    PROVE  Window(tool) \in Seq(Tools)
<1>. DEFINE window == Append(turn.window, tool)
<1>1. window \in Seq(Tools) /\ Len(window) \in Nat
  BY AppendProperties, LenProperties DEF TypeOK, Turn
<1>2. PatternWindow \in Nat
  BY AgentLoopAssumption
<1>3. ASSUME Len(window) - PatternWindow > 0
      PROVE  SubSeq(window, Len(window) - PatternWindow + 1, Len(window)) \in Seq(Tools)
  <2>. HIDE DEF window
  <2>. QED BY <1>1, <1>2, <1>3, SubSeqProperties
<1>. QED BY <1>1, <1>3 DEF Window

LEMMA InjectType ==
    ASSUME TypeOK, At("answer"), turn.question # NoQuestion,
           NEW what \in {"result", "denied"}, Inject(what)
    PROVE  messages' \in Seq(Message)
<1>1. turn.question.id \in Nat \ {0}
  BY DEF TypeOK, Turn, Question, Call
<1>2. Result(turn.question.id, what) \in Message
  BY <1>1, MessageTypes
<1>3. \A i \in 1..Len(messages) : messages[i] \in Message
  BY ElementOfSeq DEF TypeOK
<1>4. messages' \in [1..Len(messages) -> Message]
  BY <1>2, <1>3, LenProperties DEF Inject, TypeOK
<1>5. Len(messages) \in Nat
  BY LenProperties DEF TypeOK
<1>. QED BY <1>4, <1>5

\* A turn begins, and ends, with nothing to do.
LEMMA IdleType ==
    /\ Idle \in Turn
    /\ \A kind \in {"sync", "stream"} :
         /\ [Idle EXCEPT !.pc = "setup", !.kind = kind] \in Turn
         /\ \A q \in Question : [Idle EXCEPT !.pc = "answer", !.kind = kind, !.question = q] \in Turn
<1>1. /\ << >> \in Seq(Call) /\ << >> \in Seq(Tools)
      /\ NoQuestion \in Question /\ 0 \in 0..MaxIterations
  BY AgentLoopAssumption DEF Question
<1>. QED BY <1>1 DEF Idle, Turn

LEMMA InitType == Init => TypeOK
<1>. SUFFICES ASSUME Init PROVE TypeOK
  OBVIOUS
<1>1. << >> \in Seq(Message) /\ << >> \in Seq(Call) /\ << >> \in Seq(Tools)
      /\ << >> \in Seq([id : Nat, tool : Tools, turn : Nat])
  OBVIOUS
<1>2. 0 \in 0..MaxIterations /\ 0 \in 0..MaxCalls /\ 0 \in 0..MaxTurns
  BY AgentLoopAssumption
<1>3. NoQuestion \in Question
  BY DEF Question
<1>. QED BY <1>1, <1>2, <1>3, IdleType DEF Init, TypeOK

\* One more call of the model is within the limit.
LEMMA ModelCallType ==
    ASSUME TypeOK, turn.models < MaxIterations, NEW todo \in Seq(Call),
           NEW pc \in {"model", "calls", "save"}
    PROVE  [turn EXCEPT !.pc = pc, !.models = @ + 1, !.todo = todo] \in Turn
<1>1. turn.models + 1 \in 0..MaxIterations
  <2>1. MaxIterations \in Nat
    BY AgentLoopAssumption
  <2>2. turn.models \in 0..MaxIterations
    BY DEF TypeOK, Turn
  <2>. QED BY <2>1, <2>2
<1>. QED BY <1>1 DEF TypeOK, Turn

LEMMA TypeStep == TypeOK /\ Dispatch /\ Asked /\ Ids /\ [Next]_vars => TypeOK'
<1>. SUFFICES ASSUME TypeOK, Dispatch, Asked, Ids, [Next]_vars PROVE TypeOK'
  OBVIOUS
<1>0. /\ << >> \in Seq(Message) /\ << >> \in Seq(Call) /\ << >> \in Seq(Tools)
      /\ NoQuestion \in Question /\ 0 \in 0..MaxIterations
  BY AgentLoopAssumption DEF Question
<1>1. ASSUME NEW kind \in {"sync", "stream"}, Request(kind) PROVE TypeOK'
  <2>1. messages' \in Seq(Message)
    BY <1>1, MessageTypes, AppendProperties DEF Request, TypeOK
  <2>3. turns' \in 0..MaxTurns
    BY <1>1, AgentLoopAssumption DEF Request, TypeOK
  <2>2. turn' \in Turn
    BY <1>1, IdleType DEF Request
  <2>. QED BY <1>1, <2>1, <2>2, <2>3 DEF Request, TypeOK
<1>2. ASSUME NEW kind \in {"sync", "stream"}, AnswerQuestion(kind) PROVE TypeOK'
  <2>1. messages' \in Seq(Message) /\ saved' \in [messages : Seq(Message), question : Question]
    BY <1>0, <1>2 DEF AnswerQuestion, TypeOK
  <2>3. turns' \in 0..MaxTurns
    BY <1>2, AgentLoopAssumption DEF AnswerQuestion, TypeOK
  <2>2. turn' \in Turn
    BY <1>2, IdleType DEF AnswerQuestion, TypeOK
  <2>. QED BY <1>2, <2>1, <2>2, <2>3 DEF AnswerQuestion, TypeOK
<1>3. CASE RunApprovedTool
  <2>1. turn.question \in Call /\ turn.question.id \in 1..lastId
    BY <1>3 DEF RunApprovedTool, Asked, Ids, Unrun, TypeOK, Turn, Question, Call
  <2>2. messages' \in Seq(Message)
    BY <1>3, InjectType DEF RunApprovedTool, Asked
  <2>3. ran' \in Seq([id : Nat, tool : Tools, turn : Nat])
    <3>1. [id |-> turn.question.id, tool |-> turn.question.tool, turn |-> turns]
            \in [id : Nat, tool : Tools, turn : Nat]
      BY <2>1, AgentLoopAssumption DEF Call, TypeOK
    <3>. QED BY <1>3, <3>1, AppendProperties DEF RunApprovedTool, TypeOK
  <2>. QED BY <1>3, <2>1, <2>2, <2>3 DEF RunApprovedTool, Inject, Goto, TypeOK, Turn
<1>4. CASE RefuseTool
  <2>1. messages' \in Seq(Message)
    BY <1>4, InjectType DEF RefuseTool, Asked
  <2>. QED BY <1>4, <2>1 DEF RefuseTool, Inject, Goto, TypeOK, Turn
<1>5. CASE SetUp
  BY <1>0, <1>5 DEF SetUp, Goto, TypeOK, Turn
<1>6. CASE Compact
  <2>1. messages' \in Seq(Message)
    BY <1>6, CompactedType DEF Compact, TypeOK, Turn
  <2>. QED BY <1>0, <1>6, <2>1 DEF Compact, Goto, TypeOK, Turn
<1>7. CASE Reply
  <2>1. messages' \in Seq(Message)
    BY <1>0, <1>7, MessageTypes, AppendProperties DEF Reply, Append1, TypeOK
  <2>2. turn' = [turn EXCEPT !.pc = "save", !.models = @ + 1, !.todo = turn.todo] /\ turn.models < MaxIterations
    BY <1>7 DEF Reply, ModelCall, TypeOK, Turn
  <2>3. turn' \in Turn
    BY <2>2, ModelCallType DEF TypeOK, Turn
  <2>. QED BY <1>7, <2>1, <2>3 DEF Reply, ModelCall, TypeOK
<1>8. CASE ReplyNothing
  <2>2. turn' = [turn EXCEPT !.pc = "save", !.models = @ + 1, !.todo = turn.todo] /\ turn.models < MaxIterations
    BY <1>8 DEF ReplyNothing, ModelCall, TypeOK, Turn
  <2>3. turn' \in Turn
    BY <2>2, ModelCallType DEF TypeOK, Turn
  <2>. QED BY <1>8, <2>3 DEF ReplyNothing, ModelCall, TypeOK
<1>9. CASE Exhausted
  BY <1>9 DEF Exhausted, Goto, TypeOK, Turn
<1>10. ASSUME NEW n \in 0..MaxPerReply, NEW tools \in [1..n -> Tools], CallTools(tools) PROVE TypeOK'
  <2>. DEFINE calls == [i \in DOMAIN tools |-> [id |-> lastId + i, tool |-> tools[i]]]
  <2>0. n \in Nat /\ lastId \in Nat /\ DOMAIN tools = 1..n
    BY AgentLoopAssumption DEF TypeOK
  <2>1. tools \in Seq(Tools) /\ Len(tools) = n
    BY <2>0
  <2>2. calls \in Seq(Call)
    <3>1. calls \in [1..n -> Call]
      BY <2>0 DEF Call
    <3>. QED BY <2>0, <3>1
  <2>3. Append(messages, Assistant(calls)) \in Seq(Message)
    BY <2>2, MessageTypes, AppendProperties DEF TypeOK
  <2>. HIDE DEF calls
  <2>4. /\ lastId' = lastId + n
        /\ lastId + n <= MaxCalls
        /\ messages' = Append(messages, Assistant(calls))
        /\ turn.models < MaxIterations
        /\ turn' = [turn EXCEPT !.pc = IF calls = << >> THEN "model" ELSE "calls",
                                !.models = @ + 1, !.todo = calls]
    BY <1>10, <2>1 DEF CallTools, Append1, calls
  <2>5. turn' \in Turn
    <3>1. CASE calls = << >>
      BY <2>2, <2>4, <3>1, ModelCallType
    <3>2. CASE calls # << >>
      BY <2>2, <2>4, <3>2, ModelCallType
    <3>. QED BY <3>1, <3>2
  <2>6. lastId' \in 0..MaxCalls /\ 1..lastId \subseteq 1..lastId'
    BY <2>0, <2>4, AgentLoopAssumption
  <2>. QED BY <1>10, <2>3, <2>4, <2>5, <2>6 DEF CallTools, TypeOK
<1>11. CASE AskOperator
  <2>1. Current \in Call /\ Stop \in Turn
    BY <1>11, NextCallType DEF AskOperator
  <2>2. messages' \in Seq(Message)
    BY <1>11, <2>1, MessageTypes, AppendProperties DEF AskOperator, Append1, Sentinel, TypeOK, Call
  <2>. QED BY <1>11, <2>1, <2>2 DEF AskOperator, TypeOK, Question
<1>12. ASSUME NEW decision, NEW what \in {"denied", "blocked"}, Refuse(decision, what) PROVE TypeOK'
  <2>1. Current \in Call /\ NextCall \in Turn
    BY <1>12, NextCallType DEF Refuse
  <2>2. messages' \in Seq(Message)
    BY <1>12, <2>1, MessageTypes, AppendProperties DEF Refuse, Append1, TypeOK, Call
  <2>. QED BY <1>12, <2>1, <2>2 DEF Refuse, TypeOK
<1>13. CASE ExecuteCall
  <2>1. At("calls")
    BY <1>13 DEF ExecuteCall
  <2>2. Current \in Call /\ NextCall \in Turn /\ Stop \in Turn
    BY <2>1, NextCallType
  <2>3. Window(Current.tool) \in Seq(Tools)
    BY <2>2, WindowType DEF Call
  <2>4. messages' \in Seq(Message)
    BY <1>13, <2>2, MessageTypes, AppendProperties DEF ExecuteCall, Append1, TypeOK, Call
  <2>5. ran' \in Seq([id : Nat, tool : Tools, turn : Nat])
    <3>1. [id |-> Current.id, tool |-> Current.tool, turn |-> turns] \in [id : Nat, tool : Tools, turn : Nat]
      BY <2>2, AgentLoopAssumption DEF Call, TypeOK
    <3>. QED BY <1>13, <3>1, AppendProperties DEF ExecuteCall, TypeOK
  <2>6. turn' \in Turn
    BY <1>13, <2>2, <2>3 DEF ExecuteCall, Turn
  <2>. QED BY <1>13, <2>4, <2>5, <2>6 DEF ExecuteCall, TypeOK
<1>14. CASE Save
  BY <1>14 DEF Save, Goto, TypeOK, Turn
<1>15. CASE PersistQuestion
  BY <1>0, <1>15, IdleType DEF PersistQuestion, EndRequest, TypeOK
<1>16. CASE FailStream
  BY <1>0, <1>16 DEF FailStream, Stop, TypeOK, Turn
<1>17. CASE Abandon
  <2>1. hit' \subseteq 1..lastId
    <3>. DEFINE lost == (IF At("question") THEN pending ELSE turn.question).id
    <3>1. lost \in 0..lastId
      BY DEF Ids
    <3>2. hit' = hit \cup ({lost} \ {0})
      BY <1>17 DEF Abandon
    <3>. HIDE DEF lost
    <3>. QED BY <3>1, <3>2 DEF TypeOK
  <2>. QED BY <1>0, <1>17, <2>1, IdleType DEF Abandon, EndRequest, TypeOK
<1>18. CASE UNCHANGED vars
  BY <1>18 DEF vars, TypeOK
<1>. QED
  BY <1>1, <1>2, <1>3, <1>4, <1>5, <1>6, <1>7, <1>8, <1>9, <1>10, <1>11, <1>12, <1>13, <1>14,
     <1>15, <1>16, <1>17, <1>18 DEF Next, Progress, Calls, DenyCall, BlockCall

-----------------------------------------------------------------------------
(* Calls and their ids.                                                    *)
LEMMA RanIdsAppend ==
    ASSUME NEW x, ran \in Seq([id : Nat, tool : Tools, turn : Nat]),
           x \in [id : Nat, tool : Tools, turn : Nat], ran' = Append(ran, x)
    PROVE  /\ RanIds' = RanIds \cup {x.id}
           /\ DOMAIN ran' = 1..(Len(ran) + 1) /\ Len(ran) \in Nat
           /\ ran'[Len(ran) + 1] = x
           /\ \A i \in 1..Len(ran) : ran'[i] = ran[i]
<1>1. /\ DOMAIN ran' = 1..(Len(ran) + 1) /\ Len(ran) \in Nat /\ DOMAIN ran = 1..Len(ran)
      /\ ran'[Len(ran) + 1] = x
      /\ \A i \in 1..Len(ran) : ran'[i] = ran[i]
  BY AppendProperties, LenProperties
<1>. QED BY <1>1 DEF RanIds

\* A call that is run, of those to dispatch or the one the operator was asked about.
LEMMA RanIdsGrow ==
    ASSUME TypeOK, NEW call \in Call,
           ran' = Append(ran, [id |-> call.id, tool |-> call.tool, turn |-> turns])
    PROVE  RanIds' = RanIds \cup {call.id}
<1>. DEFINE x == [id |-> call.id, tool |-> call.tool, turn |-> turns]
<1>1. x \in [id : Nat, tool : Tools, turn : Nat] /\ x.id = call.id /\ ran' = Append(ran, x)
  BY AgentLoopAssumption DEF Call, TypeOK
<1>. HIDE DEF x
<1>. QED BY <1>1, RanIdsAppend DEF TypeOK

LEMMA NoCallsLeft == ASSUME turn'.todo = << >>, ~At("calls")' PROVE Dispatch'
BY DEF Dispatch

\* The first call goes, the others stay as they were.
LEMMA NextDispatch ==
    ASSUME TypeOK, Dispatch, At("calls"), turn'.todo = Tail(turn.todo), lastId' = lastId,
           RanIds' \subseteq RanIds \cup {Current.id},
           turn'.pc = IF Tail(turn.todo) = << >> THEN "model" ELSE "calls"
    PROVE  Dispatch'
<1>. DEFINE todo == turn.todo
<1>1. todo \in Seq(Call) /\ todo # << >>
  BY DEF TypeOK, Turn, Dispatch
<1>2. /\ Tail(todo) \in Seq(Call) /\ Len(todo) \in Nat /\ Len(todo) > 0
      /\ DOMAIN todo = 1..Len(todo) /\ DOMAIN Tail(todo) = 1..(Len(todo) - 1)
      /\ \A k \in 1..(Len(todo) - 1) : Tail(todo)[k] = todo[k + 1]
      /\ Current = todo[1]
  BY <1>1, HeadTailProperties, LenProperties, EmptySeq DEF Current
<1>3. \A k \in DOMAIN todo :
         /\ todo[k].id \in 1..lastId
         /\ todo[k].id \notin RanIds
         /\ \A l \in DOMAIN todo : todo[k].id = todo[l].id => k = l
  BY DEF Dispatch
<1>. HIDE DEF todo
<1>4. ASSUME NEW k \in DOMAIN Tail(todo)
      PROVE  /\ Tail(todo)[k].id \in 1..lastId
             /\ Tail(todo)[k].id \notin RanIds'
             /\ \A l \in DOMAIN Tail(todo) : Tail(todo)[k].id = Tail(todo)[l].id => k = l
  <2>1. k + 1 \in DOMAIN todo /\ 1 \in DOMAIN todo /\ k + 1 # 1 /\ Tail(todo)[k] = todo[k + 1]
    BY <1>2
  <2>2. \A l \in DOMAIN Tail(todo) : l \in Int /\ l + 1 \in DOMAIN todo /\ Tail(todo)[l] = todo[l + 1]
    BY <1>2
  <2>3. todo[k + 1].id # Current.id
    BY <1>2, <1>3, <2>1
  <2>. QED BY <1>2, <1>3, <2>1, <2>2, <2>3
<1>. QED BY <1>4 DEF Dispatch, At, todo

LEMMA DispatchStep == TypeOK /\ Dispatch /\ Ids /\ [Next]_vars => Dispatch'
<1>. SUFFICES ASSUME TypeOK, Dispatch, Ids, [Next]_vars PROVE Dispatch'
  OBVIOUS
<1>0. turn \in Turn /\ (~At("calls") => turn.todo = << >>)
  BY DEF TypeOK, Dispatch
<1>1. ASSUME NEW kind \in {"sync", "stream"}, Request(kind) \/ AnswerQuestion(kind) PROVE Dispatch'
  BY <1>1, NoCallsLeft DEF Request, AnswerQuestion, Idle, At
<1>2. CASE RunApprovedTool \/ RefuseTool
  BY <1>0, <1>2, NoCallsLeft DEF RunApprovedTool, RefuseTool, Inject, Goto, At, Turn
<1>3. CASE SetUp \/ Compact \/ Exhausted \/ Save
  BY <1>0, <1>3, NoCallsLeft DEF SetUp, Compact, Exhausted, Save, Goto, At, Turn
<1>4. CASE Reply \/ ReplyNothing
  BY <1>0, <1>4, NoCallsLeft DEF Reply, ReplyNothing, ModelCall, At, Turn
<1>5. ASSUME NEW n \in 0..MaxPerReply, NEW tools \in [1..n -> Tools], CallTools(tools) PROVE Dispatch'
  <2>. DEFINE calls == [i \in DOMAIN tools |-> [id |-> lastId + i, tool |-> tools[i]]]
  <2>1. n \in Nat /\ lastId \in Nat /\ DOMAIN tools = 1..n /\ Len(tools) = n /\ RanIds \subseteq 1..lastId
    BY AgentLoopAssumption DEF TypeOK, Ids
  <2>2. DOMAIN calls = 1..n /\ \A k \in 1..n : calls[k].id = lastId + k
    BY <2>1
  <2>. HIDE DEF calls
  <2>3. turn'.todo = calls /\ lastId' = lastId + n /\ RanIds' = RanIds
        /\ turn'.pc = IF calls = << >> THEN "model" ELSE "calls"
    BY <1>0, <1>5, <2>1 DEF CallTools, RanIds, calls, Turn
  <2>4. \A k \in DOMAIN calls :
           /\ calls[k].id \in 1..(lastId + n)
           /\ calls[k].id \notin RanIds
           /\ \A l \in DOMAIN calls : calls[k].id = calls[l].id => k = l
    BY <2>1, <2>2
  <2>. QED BY <2>3, <2>4 DEF Dispatch, At
<1>6. CASE AskOperator \/ FailStream
  BY <1>0, <1>6, NoCallsLeft DEF AskOperator, FailStream, Stop, At, Turn
<1>7. ASSUME NEW decision, NEW what, Refuse(decision, what) PROVE Dispatch'
  BY <1>0, <1>7, NextDispatch DEF Refuse, NextCall, RanIds, At, Turn
<1>8. CASE ExecuteCall
  <2>0. At("calls") /\ lastId' = lastId
    BY <1>8 DEF ExecuteCall
  <2>1. RanIds' = RanIds \cup {Current.id}
    BY <1>8, <2>0, NextCallType, RanIdsGrow DEF ExecuteCall
  <2>2. CASE Repeats(Current.tool) >= RepeatThreshold
    BY <1>0, <1>8, <2>2, NoCallsLeft DEF ExecuteCall, Stop, At, Turn
  <2>3. CASE ~(Repeats(Current.tool) >= RepeatThreshold)
    <3>1. turn' = [NextCall EXCEPT !.window = Window(Current.tool)]
      BY <1>8, <2>3 DEF ExecuteCall
    <3>2. turn'.todo = Tail(turn.todo) /\ turn'.pc = IF Tail(turn.todo) = << >> THEN "model" ELSE "calls"
      BY <1>0, <2>0, <3>1 DEF NextCall, Turn, At
    <3>. QED BY <2>0, <2>1, <3>2, NextDispatch
  <2>. QED BY <2>2, <2>3
<1>9. CASE PersistQuestion \/ Abandon
  BY <1>9, NoCallsLeft DEF PersistQuestion, Abandon, EndRequest, Idle, At
<1>10. CASE UNCHANGED vars
  BY <1>10 DEF vars, Dispatch, RanIds, At
<1>. QED
  BY <1>1, <1>2, <1>3, <1>4, <1>5, <1>6, <1>7, <1>8, <1>9, <1>10
     DEF Next, Progress, Calls, DenyCall, BlockCall

\* Calls are numbered, and a question is about a call that has not been run.
LEMMA IdsStep == TypeOK /\ Dispatch /\ Asked /\ Ids /\ [Next]_vars => Ids'
<1>. SUFFICES ASSUME TypeOK, Dispatch, Asked, Ids, [Next]_vars PROVE Ids'
  OBVIOUS
<1>0. turn \in Turn /\ lastId \in Nat /\ NoQuestion.id = 0 /\ RanIds \subseteq 1..lastId
  BY AgentLoopAssumption DEF TypeOK, Ids, NoQuestion
<1>00. Unrun(NoQuestion)
  BY <1>0 DEF Unrun
<1>. USE DEF Unrun
<1>1. ASSUME NEW kind \in {"sync", "stream"}, Request(kind) PROVE Ids'
  BY <1>0, <1>1 DEF Request, Idle, Ids, At, RanIds
<1>2. ASSUME NEW kind \in {"sync", "stream"}, AnswerQuestion(kind) PROVE Ids'
  BY <1>0, <1>00, <1>2 DEF AnswerQuestion, Idle, Ids, At, RanIds, TypeOK
<1>3. CASE RunApprovedTool
  <2>1. turn.question \in Call /\ turn.question.id \in 1..lastId /\ At("answer")
    BY <1>3 DEF RunApprovedTool, Asked, Ids, TypeOK, Turn, Question, Call
  <2>2. RanIds' = RanIds \cup {turn.question.id}
    BY <1>3, <2>1, RanIdsGrow DEF RunApprovedTool
  <2>3. saved.question = NoQuestion
    BY <2>1 DEF Asked, At
  <2>. QED BY <1>0, <1>3, <2>1, <2>2, <2>3 DEF RunApprovedTool, Inject, Goto, Ids, At, Turn
<1>4. CASE RefuseTool
  BY <1>0, <1>4 DEF RefuseTool, Inject, Goto, Ids, At, RanIds, Turn
<1>5. CASE SetUp \/ Compact
  <2>1. /\ pending' = NoQuestion /\ RanIds' = RanIds /\ UNCHANGED << saved, lastId >>
        /\ turn'.question = turn.question /\ turn'.pc = "model"
    BY <1>0, <1>5 DEF SetUp, Compact, Goto, RanIds, Turn
  <2>. QED BY <1>0, <2>1 DEF Ids, At
<1>6. CASE Exhausted \/ FailStream \/ Reply \/ ReplyNothing
  <2>1. pending = NoQuestion
    BY <1>6 DEF Exhausted, FailStream, Reply, ReplyNothing, ModelCall, Asked
  <2>2. RanIds' = RanIds /\ UNCHANGED << saved, pending, lastId >>
    BY <1>6 DEF Exhausted, FailStream, Reply, ReplyNothing, ModelCall, RanIds
  <2>3. turn'.question = turn.question /\ turn'.pc = "save"
    BY <1>0, <1>6 DEF Exhausted, FailStream, Reply, ReplyNothing, ModelCall, Stop, Goto, Turn
  <2>. QED BY <1>0, <1>00, <2>1, <2>2, <2>3 DEF Ids, At
<1>8. ASSUME NEW n \in 0..MaxPerReply, NEW tools \in [1..n -> Tools], CallTools(tools) PROVE Ids'
  <2>1. n \in Nat /\ Len(tools) = n
    OBVIOUS
  <2>2. lastId' = lastId + n /\ RanIds' = RanIds /\ turn'.pc \in {"model", "calls"}
        /\ turn'.question = turn.question /\ UNCHANGED << saved, pending >>
    BY <1>0, <1>8, <2>1 DEF CallTools, RanIds, Turn
  <2>. QED BY <1>0, <2>1, <2>2 DEF Ids, At
<1>9. CASE AskOperator
  <2>1. Current.id \in 1..lastId /\ Current.id \notin RanIds
    <3>1. turn.todo # << >> /\ turn.todo \in Seq(Call)
      BY <1>9 DEF AskOperator, Dispatch, TypeOK, Turn
    <3>2. 1 \in DOMAIN turn.todo /\ Current = turn.todo[1]
      BY <3>1, HeadTailProperties DEF Current
    <3>. QED BY <3>2 DEF Dispatch
  <2>. QED BY <1>0, <1>9, <2>1 DEF AskOperator, Stop, Ids, At, RanIds, Turn
<1>10. ASSUME NEW decision, NEW what, Refuse(decision, what) PROVE Ids'
  BY <1>0, <1>10 DEF Refuse, NextCall, Ids, At, RanIds, Turn
<1>11. CASE ExecuteCall
  <2>1. At("calls") /\ Current.id \in 1..lastId
    BY <1>11, NextCallType DEF ExecuteCall
  <2>2. RanIds' = RanIds \cup {Current.id}
    BY <1>11, <2>1, NextCallType, RanIdsGrow DEF ExecuteCall
  <2>3. saved.question = NoQuestion /\ pending = NoQuestion
    BY <2>1 DEF Asked, At
  <2>4. turn'.question = turn.question /\ turn'.pc \in {"save", "model", "calls"}
    BY <1>0, <1>11, <2>1 DEF ExecuteCall, Stop, NextCall, At, Turn
  <2>. QED BY <1>0, <1>11, <2>1, <2>2, <2>3, <2>4 DEF ExecuteCall, Ids, At
<1>12. CASE Save
  <2>1. /\ At("save") /\ turn'.pc = "question" /\ turn'.question = turn.question
        /\ saved'.question = saved.question
    BY <1>12 DEF Save, Goto, TypeOK, Turn
  <2>2. UNCHANGED << pending, lastId, ran >> /\ RanIds' = RanIds
    BY <1>12 DEF Save, RanIds
  <2>. QED BY <2>1, <2>2 DEF Ids, Unrun, At
<1>13. CASE PersistQuestion
  BY <1>0, <1>13 DEF PersistQuestion, EndRequest, Idle, Ids, At, RanIds, TypeOK
<1>14. CASE Abandon
  BY <1>0, <1>14 DEF Abandon, EndRequest, Idle, Ids, At, RanIds
<1>15. CASE UNCHANGED vars
  BY <1>15 DEF vars, Ids, RanIds, At
<1>. QED
  BY <1>1, <1>2, <1>3, <1>4, <1>5, <1>6, <1>8, <1>9, <1>10, <1>11, <1>12, <1>13, <1>14, <1>15
     DEF Next, Progress, Calls, DenyCall, BlockCall

-----------------------------------------------------------------------------
(* Questions.                                                              *)
\* A question goes from the agent to the row with the history that ends in its sentinel.
LEMMA AskedStep == TypeOK /\ Dispatch /\ Asked /\ [Next]_vars => Asked'
<1>. SUFFICES ASSUME TypeOK, Dispatch, Asked, [Next]_vars PROVE Asked'
  OBVIOUS
<1>0. turn \in Turn /\ messages \in Seq(Message) /\ saved \in [messages : Seq(Message), question : Question]
  BY DEF TypeOK
<1>1. ASSUME NEW kind \in {"sync", "stream"}, Request(kind) PROVE Asked'
  BY <1>1 DEF Request, Idle, Asked, At, QuestionHasSentinel
<1>2. ASSUME NEW kind \in {"sync", "stream"}, AnswerQuestion(kind) PROVE Asked'
  <2>1. saved'.question = NoQuestion /\ turn'.pc = "answer" /\ turn'.question = saved.question
    BY <1>0, <1>2 DEF AnswerQuestion, Idle
  <2>2. saved.question # NoQuestion
    BY <1>2 DEF AnswerQuestion
  <2>. QED BY <2>1, <2>2 DEF Asked, At, QuestionHasSentinel
<1>3. CASE RunApprovedTool \/ RefuseTool
  <2>1. turn'.pc = "setup" /\ saved' = saved /\ saved.question = NoQuestion
    BY <1>0, <1>3 DEF RunApprovedTool, RefuseTool, Inject, Goto, Asked, At, Turn
  <2>. QED BY <2>1 DEF Asked, At, QuestionHasSentinel
<1>4. CASE SetUp \/ Compact
  <2>1. turn'.pc = "model" /\ saved' = saved /\ saved.question = NoQuestion /\ pending' = NoQuestion
    BY <1>0, <1>4 DEF SetUp, Compact, Goto, Asked, At, Turn
  <2>. QED BY <2>1 DEF Asked, At, QuestionHasSentinel
<1>5. CASE Exhausted \/ FailStream \/ Reply \/ ReplyNothing
  <2>1. saved.question = NoQuestion /\ pending = NoQuestion
    BY <1>5 DEF Exhausted, FailStream, Reply, ReplyNothing, ModelCall, Asked, At
  <2>2. UNCHANGED << saved, pending >>
    BY <1>5 DEF Exhausted, FailStream, Reply, ReplyNothing, ModelCall
  <2>3. turn'.pc = "save"
    BY <1>0, <1>5 DEF Exhausted, FailStream, Reply, ReplyNothing, ModelCall, Stop, Goto, Turn
  <2>. QED BY <2>1, <2>2, <2>3 DEF Asked, At, QuestionHasSentinel
<1>6. ASSUME NEW n \in 0..MaxPerReply, NEW tools \in [1..n -> Tools], CallTools(tools) PROVE Asked'
  <2>1. saved.question = NoQuestion /\ pending = NoQuestion
    BY <1>6 DEF CallTools, Asked, At
  <2>2. UNCHANGED << saved, pending >>
    BY <1>6 DEF CallTools
  <2>3. turn'.pc \in {"model", "calls"}
    BY <1>0, <1>6 DEF CallTools, Turn
  <2>. QED BY <2>1, <2>2, <2>3 DEF Asked, At, QuestionHasSentinel
<1>7. CASE AskOperator
  <2>1. saved.question = NoQuestion /\ saved' = saved /\ turn'.pc = "save" /\ pending' = Current
    BY <1>0, <1>7 DEF AskOperator, Stop, Asked, At, Turn
  <2>2. EndsWith(messages', Sentinel(Current.id))
    <3>1. Sentinel(Current.id) \in Message
      BY <1>7, NextCallType, MessageTypes DEF AskOperator, Call, Sentinel
    <3>. HIDE DEF Sentinel
    <3>2. messages' = Append(messages, Sentinel(Current.id))
      BY <1>7 DEF AskOperator, Append1
    <3>. QED BY <1>0, <3>1, <3>2, AppendProperties DEF EndsWith
  <2>. QED BY <2>1, <2>2 DEF Asked, At, QuestionHasSentinel, EndsWith
<1>8. ASSUME NEW decision, NEW what, Refuse(decision, what) PROVE Asked'
  <2>1. saved.question = NoQuestion /\ pending = NoQuestion /\ UNCHANGED << saved, pending >>
    BY <1>8 DEF Refuse, Asked, At
  <2>2. turn'.pc \in {"model", "calls"}
    BY <1>0, <1>8 DEF Refuse, NextCall, At, Turn
  <2>. QED BY <2>1, <2>2 DEF Asked, At, QuestionHasSentinel
<1>9. CASE ExecuteCall
  <2>1. saved.question = NoQuestion /\ pending = NoQuestion /\ UNCHANGED << saved, pending >>
    BY <1>9 DEF ExecuteCall, Asked, At
  <2>2. turn'.pc \in {"save", "model", "calls"}
    BY <1>0, <1>9 DEF ExecuteCall, NextCall, Stop, At, Turn
  <2>. QED BY <2>1, <2>2 DEF Asked, At, QuestionHasSentinel
<1>10. CASE Save
  <2>1. /\ saved'.question = NoQuestion /\ saved'.messages = messages
        /\ turn'.pc = "question" /\ UNCHANGED << messages, pending >>
    BY <1>0, <1>10 DEF Save, Goto, Asked, At, Turn
  <2>2. pending # NoQuestion => EndsWith(messages, Sentinel(pending.id))
    BY <1>10 DEF Save, Asked, At
  <2>. QED BY <2>1, <2>2 DEF Asked, At, QuestionHasSentinel
<1>11. CASE PersistQuestion
  <2>1. turn'.pc = "idle" /\ saved'.messages = messages /\ saved'.question = pending
    BY <1>0, <1>11 DEF PersistQuestion, EndRequest, Idle, Asked, At
  <2>2. pending # NoQuestion => EndsWith(messages, Sentinel(pending.id))
    BY <1>11 DEF PersistQuestion, Asked, At
  <2>. QED BY <2>1, <2>2 DEF Asked, At, QuestionHasSentinel, EndsWith
<1>12. CASE Abandon
  <2>1. turn'.pc = "idle" /\ saved' = saved /\ saved.question = NoQuestion
    BY <1>0, <1>12 DEF Abandon, EndRequest, Idle, Asked, At
  <2>. QED BY <2>1 DEF Asked, At, QuestionHasSentinel
<1>13. CASE UNCHANGED vars
  BY <1>13 DEF vars, Asked, At, QuestionHasSentinel, EndsWith
<1>. QED
  BY <1>1, <1>2, <1>3, <1>4, <1>5, <1>6, <1>7, <1>8, <1>9, <1>10, <1>11, <1>12, <1>13
     DEF Next, Progress, Calls, DenyCall, BlockCall

-----------------------------------------------------------------------------
(* What is run.                                                            *)
\* One call more, that has not been run, and is allowed if it has to be.
LEMMA GatedRun ==
    ASSUME TypeOK, GatedCallsAreApproved, NEW call \in Call, call.id \notin RanIds,
           ran' = Append(ran, [id |-> call.id, tool |-> call.tool, turn |-> turns]),
           allowed \subseteq allowed', call.tool \in Gated => call.id \in allowed'
    PROVE  GatedCallsAreApproved'
<1>. DEFINE x == [id |-> call.id, tool |-> call.tool, turn |-> turns]
            n == Len(ran) + 1
<1>1. x \in [id : Nat, tool : Tools, turn : Nat] /\ x.id = call.id /\ x.tool = call.tool /\ ran' = Append(ran, x)
  BY AgentLoopAssumption DEF Call, TypeOK
<1>. HIDE DEF x
<1>2. /\ DOMAIN ran' = 1..n /\ Len(ran) \in Nat /\ DOMAIN ran = 1..Len(ran)
      /\ ran'[n] = x
      /\ \A i \in 1..Len(ran) : ran'[i] = ran[i] /\ ran[i].id # call.id
  BY <1>1, RanIdsAppend, LenProperties DEF TypeOK, RanIds
<1>3. \A i \in DOMAIN ran' : i = n \/ i \in DOMAIN ran
  BY <1>2
<1>4. n \notin DOMAIN ran
  BY <1>2
<1>. HIDE DEF n
<1>5. ASSUME NEW i \in DOMAIN ran'
      PROVE  /\ ran'[i].tool \in Gated => ran'[i].id \in allowed'
             /\ \A j \in DOMAIN ran' : ran'[i].id = ran'[j].id => i = j
  <2>1. CASE i = n
    BY <1>1, <1>2, <1>3, <2>1
  <2>2. CASE i \in DOMAIN ran
    BY <1>1, <1>2, <1>3, <2>2 DEF GatedCallsAreApproved
  <2>. QED BY <1>3, <2>1, <2>2
<1>. QED BY <1>5 DEF GatedCallsAreApproved

LEMMA GatedStep == TypeOK /\ Dispatch /\ Asked /\ Ids /\ GatedCallsAreApproved /\ [Next]_vars => GatedCallsAreApproved'
<1>. SUFFICES ASSUME TypeOK, Dispatch, Asked, Ids, GatedCallsAreApproved, [Next]_vars PROVE GatedCallsAreApproved'
  OBVIOUS
<1>1. CASE RunApprovedTool
  <2>1. turn.question \in Call /\ turn.question.id \notin RanIds
    BY <1>1 DEF RunApprovedTool, Asked, Ids, Unrun, TypeOK, Turn, Question
  <2>. QED BY <1>1, <2>1, GatedRun DEF RunApprovedTool
<1>2. CASE ExecuteCall
  <2>1. Current \in Call
    BY <1>2, NextCallType DEF ExecuteCall
  <2>2. Current.id \notin RanIds
    <3>1. turn.todo # << >> /\ turn.todo \in Seq(Call)
      BY <1>2 DEF ExecuteCall, Dispatch, TypeOK, Turn
    <3>2. 1 \in DOMAIN turn.todo /\ Current = turn.todo[1]
      BY <3>1, HeadTailProperties DEF Current
    <3>. QED BY <3>2 DEF Dispatch
  <2>. QED BY <1>2, <2>1, <2>2, GatedRun DEF ExecuteCall, Decided
<1>3. CASE UNCHANGED << ran, allowed >>
  BY <1>3 DEF GatedCallsAreApproved
<1>. QED
  BY <1>1, <1>2, <1>3
     DEF Next, Progress, Calls, Request, AnswerQuestion, RefuseTool, SetUp, Compact, Reply, ReplyNothing,
         ModelCall, Exhausted, CallTools, AskOperator, DenyCall, BlockCall, Refuse, Save, PersistQuestion,
         FailStream, Abandon, vars

-----------------------------------------------------------------------------
(* What the histories show as waiting.                                     *)
LEMMA SentinelIds ==
    ASSUME NEW m \in Seq(Message)
    PROVE  /\ 0 \notin Sentinels(m)
           /\ \A i \in Positions(m, "tool") :
                m[i] \in [role : {"tool"}, id : Nat \ {0}, what : {"result", "denied", "blocked", "pending"}]
<1>1. \A i \in DOMAIN m : m[i] \in Message
  BY ElementOfSeq, LenProperties
<1>2. \A i \in Positions(m, "tool") :
         m[i] \in [role : {"tool"}, id : Nat \ {0}, what : {"result", "denied", "blocked", "pending"}]
  BY <1>1 DEF Positions, Message, User, Summary
<1>. QED BY <1>2 DEF Sentinels

LEMMA SentinelsAppend ==
    ASSUME NEW m \in Seq(Message), NEW x \in Message
    PROVE  Sentinels(Append(m, x)) =
             Sentinels(m) \cup (IF x.role = "tool" /\ x.what = "pending" THEN {x.id} ELSE {})
<1>. DEFINE n == Len(m) + 1
            a == Append(m, x)
<1>1. /\ DOMAIN a = 1..n /\ Len(m) \in Nat /\ DOMAIN m = 1..Len(m)
      /\ a[n] = x
      /\ \A i \in 1..Len(m) : a[i] = m[i]
  BY AppendProperties, LenProperties
<1>2. DOMAIN a = DOMAIN m \cup {n} /\ \A i \in DOMAIN m : a[i] = m[i]
  BY <1>1
<1>. HIDE DEF a, n
<1>3. Sentinels(a) = Sentinels(m) \cup (IF x.role = "tool" /\ x.what = "pending" THEN {x.id} ELSE {})
  BY <1>1, <1>2 DEF Sentinels, Positions
<1>. QED BY <1>3 DEF a

\* Words and calls do not wait, nor does a result that is there.
LEMMA SentinelsKept ==
    ASSUME NEW m \in Seq(Message)
    PROVE  /\ Sentinels(Append(m, User)) = Sentinels(m)
           /\ \A calls \in Seq(Call) : Sentinels(Append(m, Assistant(calls))) = Sentinels(m)
           /\ \A id \in Nat \ {0}, what \in {"result", "denied", "blocked"} :
                 Sentinels(Append(m, Result(id, what))) = Sentinels(m)
           /\ \A id \in Nat \ {0} : Sentinels(Append(m, Sentinel(id))) = Sentinels(m) \cup {id}
<1>1. Sentinels(Append(m, User)) = Sentinels(m)
  <2>1. User \in Message /\ User.role = "user"
    BY MessageTypes DEF User
  <2>. HIDE DEF User
  <2>. QED BY <2>1, SentinelsAppend
<1>2. ASSUME NEW calls \in Seq(Call) PROVE Sentinels(Append(m, Assistant(calls))) = Sentinels(m)
  <2>1. Assistant(calls) \in Message /\ Assistant(calls).role = "assistant"
    BY MessageTypes DEF Assistant
  <2>. HIDE DEF Assistant
  <2>. QED BY <2>1, SentinelsAppend
<1>3. ASSUME NEW id \in Nat \ {0}, NEW what \in {"result", "denied", "blocked"}
      PROVE  Sentinels(Append(m, Result(id, what))) = Sentinels(m)
  <2>1. Result(id, what) \in Message /\ Result(id, what).what # "pending"
    BY MessageTypes DEF Result
  <2>. HIDE DEF Result
  <2>. QED BY <2>1, SentinelsAppend
<1>4. ASSUME NEW id \in Nat \ {0} PROVE Sentinels(Append(m, Sentinel(id))) = Sentinels(m) \cup {id}
  <2>1. /\ Sentinel(id) \in Message /\ Sentinel(id).role = "tool"
        /\ Sentinel(id).what = "pending" /\ Sentinel(id).id = id
    BY MessageTypes DEF Sentinel, Result
  <2>. HIDE DEF Sentinel
  <2>. QED BY <2>1, SentinelsAppend
<1>. QED BY <1>1, <1>2, <1>3, <1>4

\* The answer removes the sentinel of its call and no other.
LEMMA SentinelsInject ==
    ASSUME TypeOK, At("answer"), turn.question # NoQuestion,
           NEW what \in {"result", "denied"}, Inject(what)
    PROVE  Sentinels(messages') = Sentinels(messages) \ {turn.question.id}
<1>. DEFINE q == turn.question.id
<1>1. /\ DOMAIN messages' = DOMAIN messages
      /\ \A i \in DOMAIN messages :
           messages'[i] = IF messages[i] = Sentinel(q) THEN Result(q, what) ELSE messages[i]
  BY DEF Inject
<1>2. \A i \in DOMAIN messages :
         messages[i].role = "tool" /\ messages[i].what = "pending" /\ messages[i].id = q
            => messages[i] = Sentinel(q)
  BY SentinelIds DEF TypeOK, Positions, Sentinel, Result
<1>3. /\ Sentinel(q).role = "tool" /\ Sentinel(q).what = "pending" /\ Sentinel(q).id = q
      /\ Result(q, what).what # "pending"
  BY DEF Sentinel, Result
<1>. HIDE DEF q, Sentinel, Result
<1>4. Sentinels(messages') \subseteq Sentinels(messages) \ {q}
  BY <1>1, <1>2, <1>3 DEF Sentinels, Positions
<1>5. Sentinels(messages) \ {q} \subseteq Sentinels(messages')
  BY <1>1, <1>3 DEF Sentinels, Positions
<1>. QED BY <1>4, <1>5 DEF q

\* What is summarised does not wait, and the rest stays.
LEMMA SentinelsCompact ==
    ASSUME NEW m \in Seq(Message), PreservedFrom(m) > 1,
           Sentinels(SubSeq(m, 1, PreservedFrom(m) - 1)) = {}
    PROVE  Sentinels(<< Summary >> \o SubSeq(m, PreservedFrom(m), Len(m))) = Sentinels(m)
<1>. DEFINE from == PreservedFrom(m)
            old == SubSeq(m, 1, from - 1)
            recent == SubSeq(m, from, Len(m))
            new == << Summary >> \o recent
<1>1. from \in 2..(Len(m) + 1) /\ Len(m) \in Nat /\ DOMAIN m = 1..Len(m)
  BY PreservedFromIsPosition, LenProperties
<1>. HIDE DEF from
<1>2. DOMAIN old = 1..(from - 1) /\ \A i \in 1..(from - 1) : old[i] = m[i]
  BY <1>1, SubSeqProperties
<1>5. /\ DOMAIN new = 1..(Len(m) + 2 - from)
      /\ new[1] = Summary
      /\ \A i \in 2..(Len(m) + 2 - from) : new[i] = m[from + i - 2]
  BY <1>1, Compacted
<1>. HIDE DEF old, recent, new
<1>6. \A i \in DOMAIN m : i < from => ~ (m[i].role = "tool" /\ m[i].what = "pending")
  <2>1. Sentinels(old) = {}
    BY DEF old, from
  <2>2. \A i \in DOMAIN old : ~ (old[i].role = "tool" /\ old[i].what = "pending")
    BY <2>1 DEF Sentinels, Positions
  <2>. QED BY <1>1, <1>2, <2>2
<1>7. Summary.role # "tool"
  BY DEF Summary
<1>8. Sentinels(new) \subseteq Sentinels(m)
  <2>1. \A i \in DOMAIN new : i = 1 \/ (from + i - 2 \in DOMAIN m /\ new[i] = m[from + i - 2])
    BY <1>1, <1>5
  <2>. QED BY <1>5, <1>7, <2>1 DEF Sentinels, Positions
<1>9. Sentinels(m) \subseteq Sentinels(new)
  <2>1. \A i \in DOMAIN m : i < from \/ (i - from + 2 \in DOMAIN new /\ new[i - from + 2] = m[i])
    <3>. SUFFICES ASSUME NEW i \in DOMAIN m, ~ (i < from)
                  PROVE  i - from + 2 \in DOMAIN new /\ new[i - from + 2] = m[i]
      OBVIOUS
    <3>. DEFINE k == i - from + 2
    <3>1. k \in 2..(Len(m) + 2 - from) /\ k \in 1..(Len(m) + 2 - from) /\ from + k - 2 = i
      BY <1>1
    <3>. HIDE DEF k
    <3>2. k \in DOMAIN new /\ new[k] = m[i]
      BY <1>5, <3>1
    <3>. QED BY <3>2 DEF k
  <2>. QED BY <1>6, <2>1 DEF Sentinels, Positions
<1>. QED BY <1>8, <1>9 DEF from, new, recent

\* Every sentinel has its question, from the turn that asks it to the one that answers it.
LEMMA WaitingStep == TypeOK /\ Dispatch /\ Asked /\ Ids /\ Waiting /\ [Next]_vars => Waiting'
<1>. SUFFICES ASSUME TypeOK, Dispatch, Asked, Ids, Waiting, [Next]_vars PROVE Waiting'
  OBVIOUS
<1>. DEFINE S == Sentinels(messages)
            SS == Sentinels(saved.messages)
<1>0. /\ turn \in Turn /\ messages \in Seq(Message) /\ saved \in [messages : Seq(Message), question : Question]
      /\ 0 \notin S /\ 0 \notin SS /\ NoQuestion.id = 0
  BY SentinelIds DEF TypeOK, NoQuestion
<1>00. /\ SS \subseteq {saved.question.id, turn.question.id} \cup hit \cup (IF At("question") THEN {pending.id} ELSE {})
       /\ At("idle") => turn.question = NoQuestion
       /\ ~At("idle") =>
            /\ S \subseteq hit \cup (IF At("answer") THEN {turn.question.id}
                                 ELSE IF At("save") \/ At("question") THEN {pending.id} ELSE {})
            /\ SS \subseteq S \cup {turn.question.id}
  BY DEF Waiting, SentinelIsPending
<1>1. ASSUME NEW kind \in {"sync", "stream"}, Request(kind) PROVE Waiting'
  <2>1. /\ At("idle") /\ saved.question = NoQuestion /\ UNCHANGED << saved, hit >>
        /\ turn'.pc = "setup" /\ turn'.question = NoQuestion
        /\ Sentinels(messages') = SS
    BY <1>0, <1>1, SentinelsKept DEF Request, Idle
  <2>. HIDE DEF S, SS
  <2>2. SS \subseteq hit
    BY <1>0, <1>00, <2>1 DEF At
  <2>. QED BY <2>1, <2>2 DEF Waiting, SentinelIsPending, At, SS
<1>2. ASSUME NEW kind \in {"sync", "stream"}, AnswerQuestion(kind) PROVE Waiting'
  <2>1. /\ At("idle") /\ saved'.messages = saved.messages /\ messages' = saved.messages
        /\ turn'.pc = "answer" /\ turn'.question = saved.question /\ hit' = hit
    BY <1>0, <1>2 DEF AnswerQuestion, Idle
  <2>2. SS \subseteq hit \cup {saved.question.id}
    BY <1>0, <1>00, <2>1 DEF At
  <2>. QED BY <2>1, <2>2 DEF Waiting, SentinelIsPending, At
<1>3. CASE RunApprovedTool \/ RefuseTool
  <2>1. /\ At("answer") /\ UNCHANGED << saved, hit >> /\ turn'.pc = "setup"
        /\ turn'.question = turn.question
    BY <1>0, <1>3 DEF RunApprovedTool, RefuseTool, Inject, Goto, Turn
  <2>2. turn.question # NoQuestion
    BY <2>1 DEF Asked
  <2>3. Sentinels(messages') = S \ {turn.question.id}
    BY <1>3, <2>1, <2>2, SentinelsInject DEF RunApprovedTool, RefuseTool
  <2>. HIDE DEF S, SS
  <2>. QED BY <1>00, <2>1, <2>3 DEF Waiting, SentinelIsPending, At, SS
<1>4. CASE SetUp \/ Compact
  <2>1. /\ At("setup") /\ UNCHANGED << saved, hit >> /\ turn'.pc = "model"
        /\ turn'.question = turn.question
    BY <1>0, <1>4 DEF SetUp, Compact, Goto, Turn
  <2>2. Sentinels(messages') = S
    BY <1>0, <1>4, SentinelsCompact DEF SetUp, Compact
  <2>. HIDE DEF S, SS
  <2>. QED BY <1>00, <2>1, <2>2 DEF Waiting, SentinelIsPending, At, SS
<1>5. CASE Exhausted \/ FailStream \/ Reply \/ ReplyNothing
  <2>1. /\ At("model") \/ At("calls")
        /\ UNCHANGED << saved, pending, hit >> /\ turn'.pc = "save"
        /\ turn'.question = turn.question
    BY <1>0, <1>5 DEF Exhausted, FailStream, Reply, ReplyNothing, ModelCall, Stop, Goto, Turn
  <2>2. Sentinels(messages') = S
    <3>1. << >> \in Seq(Call)
      OBVIOUS
    <3>2. messages' = messages \/ messages' = Append(messages, Assistant(<< >>))
      BY <1>5 DEF Exhausted, FailStream, Reply, ReplyNothing, Append1
    <3>3. Sentinels(Append(messages, Assistant(<< >>))) = S
      BY <1>0, <3>1, SentinelsKept
    <3>. QED BY <3>2, <3>3
  <2>. HIDE DEF S, SS
  <2>. QED BY <1>00, <2>1, <2>2 DEF Waiting, SentinelIsPending, At, SS
<1>6. ASSUME NEW n \in 0..MaxPerReply, NEW tools \in [1..n -> Tools], CallTools(tools) PROVE Waiting'
  <2>. DEFINE calls == [i \in DOMAIN tools |-> [id |-> lastId + i, tool |-> tools[i]]]
  <2>0. calls \in Seq(Call)
    <3>1. n \in Nat /\ lastId \in Nat /\ DOMAIN tools = 1..n
      BY AgentLoopAssumption DEF TypeOK
    <3>2. calls \in [1..n -> Call]
      BY <3>1 DEF Call
    <3>. QED BY <3>1, <3>2
  <2>. HIDE DEF calls
  <2>1. /\ At("model") /\ UNCHANGED << saved, hit >> /\ turn'.pc \in {"model", "calls"}
        /\ turn'.question = turn.question /\ messages' = Append(messages, Assistant(calls))
    BY <1>0, <1>6 DEF CallTools, Append1, Turn, calls
  <2>2. Sentinels(messages') = S
    BY <1>0, <2>0, <2>1, SentinelsKept
  <2>. HIDE DEF S, SS
  <2>. QED BY <1>00, <2>1, <2>2 DEF Waiting, SentinelIsPending, At, SS
<1>7. CASE AskOperator
  <2>1. /\ At("calls") /\ UNCHANGED << saved, hit >> /\ turn'.pc = "save"
        /\ turn'.question = turn.question /\ pending' = Current
    BY <1>0, <1>7 DEF AskOperator, Stop, Turn
  <2>2. Sentinels(messages') = S \cup {Current.id}
    BY <1>0, <1>7, <2>1, NextCallType, SentinelsKept DEF AskOperator, Append1, Call
  <2>. HIDE DEF S, SS
  <2>. QED BY <1>00, <2>1, <2>2 DEF Waiting, SentinelIsPending, At, SS
<1>8. ASSUME NEW decision, NEW what \in {"denied", "blocked"}, Refuse(decision, what) PROVE Waiting'
  <2>1. /\ At("calls") /\ UNCHANGED << saved, hit >> /\ turn'.pc \in {"model", "calls"}
        /\ turn'.question = turn.question
    BY <1>0, <1>8 DEF Refuse, NextCall, At, Turn
  <2>2. Sentinels(messages') = S
    BY <1>0, <1>8, <2>1, NextCallType, SentinelsKept DEF Refuse, Append1, Call
  <2>. HIDE DEF S, SS
  <2>. QED BY <1>00, <2>1, <2>2 DEF Waiting, SentinelIsPending, At, SS
<1>9. CASE ExecuteCall
  <2>1. /\ At("calls") /\ UNCHANGED << saved, hit >> /\ turn'.pc \in {"save", "model", "calls"}
        /\ turn'.question = turn.question
    BY <1>0, <1>9 DEF ExecuteCall, NextCall, Stop, At, Turn
  <2>2. Sentinels(messages') = S
    BY <1>0, <1>9, <2>1, NextCallType, SentinelsKept DEF ExecuteCall, Append1, Call
  <2>. HIDE DEF S, SS
  <2>. QED BY <1>00, <2>1, <2>2 DEF Waiting, SentinelIsPending, At, SS
<1>10. CASE Save
  <2>1. /\ At("save") /\ saved'.messages = messages /\ turn'.pc = "question"
        /\ UNCHANGED << messages, pending, hit >>
    BY <1>0, <1>10 DEF Save, Goto, Turn
  <2>2. S \subseteq hit \cup {pending.id}
    BY <1>00, <2>1 DEF At
  <2>. QED BY <2>1, <2>2 DEF Waiting, SentinelIsPending, At
<1>11. CASE PersistQuestion
  <2>1. /\ At("question") /\ saved.question = NoQuestion /\ saved.messages = messages
    BY <1>11 DEF PersistQuestion, Asked, At
  <2>2. /\ turn'.pc = "idle" /\ saved'.messages = messages /\ saved'.question = pending
        /\ turn'.question = NoQuestion /\ hit' = hit
    BY <1>0, <1>11, <2>1 DEF PersistQuestion, EndRequest, Idle
  <2>3. S \subseteq hit \cup {pending.id}
    BY <1>00, <2>1 DEF At
  <2>. QED BY <2>2, <2>3 DEF Waiting, SentinelIsPending, At
<1>12. CASE Abandon
  <2>. DEFINE lost == (IF At("question") THEN pending ELSE turn.question).id
  <2>1. /\ ~At("idle") /\ turn'.pc = "idle" /\ saved' = saved /\ turn'.question = NoQuestion
        /\ hit' = hit \cup ({lost} \ {0})
    BY <1>12 DEF Abandon, EndRequest, Idle
  <2>2. saved.question = NoQuestion
    BY <2>1 DEF Asked
  <2>3. SS \subseteq hit \cup {lost}
    <3>1. CASE At("question")
      <4>1. SS = S
        BY <3>1 DEF Asked
      <4>. HIDE DEF S, SS
      <4>. QED BY <1>00, <3>1, <4>1, <2>1 DEF At
    <3>2. CASE ~At("question")
      <4>. HIDE DEF S, SS
      <4>. QED BY <1>0, <1>00, <2>2, <3>2
    <3>. QED BY <3>1, <3>2
  <2>. HIDE DEF lost
  <2>4. SS \subseteq hit'
    BY <1>0, <2>1, <2>3
  <2>. QED BY <2>1, <2>4 DEF Waiting, SentinelIsPending, At
<1>13. CASE UNCHANGED vars
  <2>1. UNCHANGED << saved, messages, pending, turn, hit >>
    BY <1>13 DEF vars
  <2>. QED BY <2>1 DEF Waiting, SentinelIsPending, At, Sentinels, Positions
<1>. QED
  BY <1>1, <1>2, <1>3, <1>4, <1>5, <1>6, <1>7, <1>8, <1>9, <1>10, <1>11, <1>12, <1>13
     DEF Next, Progress, Calls, DenyCall, BlockCall

-----------------------------------------------------------------------------
(* The shape of a history.                                                 *)
LEMMA OrderedAnswers ==
    ASSUME NEW m \in Seq(Message)
    PROVE  WellOrdered(m) <=> \A j \in Positions(m, "tool") : \E i \in Nat : Answers(m, i, j)
<1>0. Positions(m, "assistant") \subseteq Nat /\ Positions(m, "tool") \subseteq Nat
  BY DEF Positions
<1>1. ASSUME NEW i \in Positions(m, "assistant"), NEW j \in Positions(m, "tool")
      PROVE  Answers(m, i, j) <=> /\ j \in ResultsOf(m, i)
                                  /\ j - i <= Len(m[i].calls)
                                  /\ m[j].id = m[i].calls[j - i].id
  BY <1>0, <1>1 DEF Answers, ResultsOf
<1>2. \A i, j : Answers(m, i, j) => i \in Positions(m, "assistant")
  BY DEF Answers
<1>. QED BY <1>0, <1>1, <1>2 DEF WellOrdered

LEMMA MessageParts ==
    ASSUME NEW m \in Seq(Message), NEW i \in Positions(m, "assistant")
    PROVE  /\ i \in 1..Len(m) /\ Len(m) \in Nat
           /\ m[i].calls \in Seq(Call)
           /\ Len(m[i].calls) \in Nat /\ DOMAIN m[i].calls = 1..Len(m[i].calls)
<1>1. i \in 1..Len(m) /\ Len(m) \in Nat /\ m[i] \in Message /\ m[i].role = "assistant"
  BY LenProperties, ElementOfSeq DEF Positions
<1>2. m[i].calls \in Seq(Call)
  BY <1>1 DEF Message, User, Summary
<1>. QED BY <1>1, <1>2, LenProperties

\* A message is added.
LEMMA Added ==
    ASSUME NEW m \in Seq(Message), NEW message \in Message
    PROVE  /\ Len(Append(m, message)) = Len(m) + 1 /\ Len(m) \in Nat
           /\ \A i \in 1..Len(m) : Append(m, message)[i] = m[i]
           /\ Append(m, message)[Len(m) + 1] = message
           /\ \A role : Positions(Append(m, message), role) =
                Positions(m, role) \cup (IF message.role = role THEN {Len(m) + 1} ELSE {})
<1>1. /\ Len(Append(m, message)) = Len(m) + 1 /\ Len(m) \in Nat
      /\ \A i \in 1..Len(m) : Append(m, message)[i] = m[i]
      /\ Append(m, message)[Len(m) + 1] = message
      /\ DOMAIN Append(m, message) = 1..(Len(m) + 1) /\ DOMAIN m = 1..Len(m)
  BY AppendProperties, LenProperties
<1>. QED BY <1>1 DEF Positions

LEMMA AnswersStay ==
    ASSUME NEW m \in Seq(Message), NEW message \in Message, NEW i \in Nat, NEW j \in 1..Len(m), Answers(m, i, j)
    PROVE  Answers(Append(m, message), i, j)
<1>1. i \in 1..Len(m) /\ Len(m) \in Nat
  BY MessageParts DEF Answers
<1>2. \A k \in i..j : Append(m, message)[k] = m[k]
  BY <1>1, Added
<1>3. i \in Positions(Append(m, message), "assistant")
  BY Added DEF Answers
<1>. QED BY <1>1, <1>2, <1>3 DEF Answers

LEMMA OrderedAppend ==
    ASSUME NEW m \in Seq(Message), WellOrdered(m), NEW message \in Message,
           message.role = "tool" => \E i \in Nat : Answers(Append(m, message), i, Len(m) + 1)
    PROVE  WellOrdered(Append(m, message))
<1>1. Append(m, message) \in Seq(Message)
  BY AppendProperties
<1>2. ASSUME NEW j \in Positions(Append(m, message), "tool")
      PROVE  \E i \in Nat : Answers(Append(m, message), i, j)
  <2>1. CASE j \in Positions(m, "tool")
    <3>1. PICK i \in Nat : Answers(m, i, j)
      BY <2>1, OrderedAnswers
    <3>2. j \in 1..Len(m)
      BY <2>1, LenProperties DEF Positions
    <3>. QED BY <3>1, <3>2, AnswersStay
  <2>2. CASE j \notin Positions(m, "tool")
    <3>1. j = Len(m) + 1 /\ message.role = "tool"
      BY <1>2, <2>2, Added
    <3>. QED BY <3>1
  <2>. QED BY <2>1, <2>2
<1>. QED BY <1>1, <1>2, OrderedAnswers

LEMMA NumberedGrows ==
    ASSUME NEW m, NEW n \in Nat, NEW p \in Nat, n <= p, Numbered(m, n)
    PROVE  Numbered(m, p)
BY DEF Numbered

LEMMA NumberedAppend ==
    ASSUME NEW m \in Seq(Message), NEW n \in Nat, NEW p \in Nat, n <= p, Numbered(m, n), NEW message \in Message,
           message.role = "assistant" => CallIds(message) \subseteq (n + 1)..p
    PROVE  Numbered(Append(m, message), p)
<1>1. \A i \in Positions(m, "assistant") : Append(m, message)[i] = m[i]
  BY Added, LenProperties DEF Positions
<1>2. ASSUME NEW i \in Positions(Append(m, message), "assistant"), i \notin Positions(m, "assistant")
      PROVE  i = Len(m) + 1 /\ CallIds(Append(m, message)[i]) \subseteq (n + 1)..p
  BY <1>2, Added
<1>3. \A i \in Positions(m, "assistant") : CallIds(Append(m, message)[i]) \subseteq 1..n
  BY <1>1 DEF Numbered
<1>. DEFINE C(i) == CallIds(Append(m, message)[i])
            A == Positions(m, "assistant")
            B == Positions(Append(m, message), "assistant")
<1>4. \A i \in A, j \in A : i # j => C(i) \cap C(j) = {}
  BY <1>1 DEF Numbered
<1>5. \A i \in A : C(i) \subseteq 1..n
  BY <1>3
<1>6. \A i \in B \ A : i = Len(m) + 1 /\ C(i) \subseteq (n + 1)..p
  BY <1>2
<1>7. \A i \in B : C(i) \subseteq 1..p /\ \A j \in B : i # j => C(i) \cap C(j) = {}
  <2>. HIDE DEF C, A, B
  <2>1. \A i \in B : C(i) \subseteq 1..p
    BY <1>5, <1>6
  <2>2. \A i \in A, j \in B \ A : C(i) \cap C(j) = {}
    BY <1>5, <1>6
  <2>. QED BY <1>4, <1>6, <2>1, <2>2
<1>. QED BY <1>7 DEF Numbered

\* An outcome takes the place of a sentinel.
LEMMA InjectKeeps ==
    ASSUME TypeOK, At("answer"), turn.question # NoQuestion, NEW what \in {"result", "denied"}, Inject(what)
    PROVE  /\ WellOrdered(messages) => WellOrdered(messages')
           /\ \A n \in Nat : Numbered(messages, n) => Numbered(messages', n)
<1>1. messages \in Seq(Message) /\ messages' \in Seq(Message)
  BY InjectType DEF TypeOK
<1>2. /\ DOMAIN messages' = DOMAIN messages
      /\ \A i \in DOMAIN messages :
           messages'[i] = IF messages[i] = Sentinel(turn.question.id)
                            THEN Result(turn.question.id, what) ELSE messages[i]
  BY DEF Inject
<1>3. \A i \in DOMAIN messages :
         /\ messages'[i].role = messages[i].role
         /\ messages[i].role = "tool" => messages'[i].id = messages[i].id
         /\ messages[i].role = "assistant" => messages'[i] = messages[i]
  BY <1>2 DEF Sentinel, Result
<1>4. \A role : Positions(messages', role) = Positions(messages, role)
  BY <1>2, <1>3 DEF Positions
<1>5. \A i \in Positions(messages, "assistant") : messages'[i] = messages[i]
  BY <1>3 DEF Positions
<1>6. ASSUME NEW n \in Nat, Numbered(messages, n) PROVE Numbered(messages', n)
  BY <1>4, <1>5, <1>6 DEF Numbered
<1>7. ASSUME WellOrdered(messages) PROVE WellOrdered(messages')
  <2>1. ASSUME NEW j \in Positions(messages', "tool") PROVE \E i \in Nat : Answers(messages', i, j)
    <3>1. j \in Positions(messages, "tool") /\ j \in 1..Len(messages) /\ DOMAIN messages = 1..Len(messages)
      BY <1>1, <1>4, LenProperties DEF Positions
    <3>2. PICK i \in Nat : Answers(messages, i, j)
      BY <1>1, <1>7, <3>1, OrderedAnswers
    <3>3. i \in 1..Len(messages) /\ i \in Positions(messages, "assistant") /\ Len(messages) \in Nat
      BY <1>1, <3>2, MessageParts DEF Answers
    <3>4. \A k \in (i + 1)..j : k \in DOMAIN messages
      BY <3>1, <3>3
    <3>5. messages'[i] = messages[i] /\ messages'[j].id = messages[j].id
      BY <1>3, <1>5, <3>1, <3>3 DEF Positions
    <3>. QED BY <1>3, <1>4, <3>2, <3>3, <3>4, <3>5 DEF Answers
  <2>. QED BY <1>1, <2>1, OrderedAnswers
<1>. QED BY <1>6, <1>7

\* A result is preserved with its call.
LEMMA CallPreserved ==
    ASSUME NEW m \in Seq(Message), NEW n \in Nat, WellOrdered(m), Numbered(m, n),
           NEW i \in Nat, NEW j \in Positions(m, "tool"), Answers(m, i, j), PreservedFrom(m) <= j
    PROVE  PreservedFrom(m) <= i
<1>. DEFINE from == PreservedFrom(m)
            recent == RecentFrom(m)
<1>0. /\ Len(m) \in Nat /\ DOMAIN m = 1..Len(m) /\ j \in 1..Len(m)
      /\ from \in 1..(Len(m) + 1) /\ recent \in 1..(Len(m) + 1)
  BY LenProperties, PreservedFromIsPosition, RecentFromIsPosition DEF Positions
<1>1. \A a \in Nat, b \in Nat : Answers(m, a, b) => m[b].id \in CallIds(m[a]) /\ a \in Positions(m, "assistant")
  <2>. SUFFICES ASSUME NEW a \in Nat, NEW b \in Nat, Answers(m, a, b)
                PROVE  m[b].id \in CallIds(m[a]) /\ a \in Positions(m, "assistant")
    OBVIOUS
  <2>1. a \in Positions(m, "assistant") /\ b - a \in 1..Len(m[a].calls) /\ m[b].id = m[a].calls[b - a].id
    BY MessageParts DEF Answers
  <2>2. b - a \in DOMAIN m[a].calls
    BY <2>1, MessageParts
  <2>. QED BY <2>1, <2>2 DEF CallIds
<1>2. CASE recent <= j
  <2>1. m[j].id \in {m[k].id : k \in Positions(m, "tool") \cap (recent..Len(m))}
    BY <1>0, <1>2
  <2>2. i \in Positions(m, "assistant") /\ m[j].id \in CallIds(m[i])
    BY <1>0, <1>1
  <2>3. i \in Moved(m)
    BY <2>1, <2>2 DEF Moved
  <2>. QED BY <2>3, PreservedFromIsFirst
<1>3. CASE j < recent
  <2>. SUFFICES ASSUME i < from PROVE FALSE
    BY <1>0
  <2>1. from \in (i + 1)..j
    BY <1>0
  <2>2. from \in Positions(m, "tool") /\ from # recent
    BY <1>0, <1>3, <2>1 DEF Answers, Positions
  <2>3. from \notin Positions(m, "assistant")
    BY <2>2 DEF Positions
  <2>4. m[from].id \in UNION {CallIds(m[k]) : k \in Positions(m, "assistant") \cap (recent..Len(m))}
    BY <2>2, <2>3, PreservedFromIsFirst DEF Moved
  <2>5. PICK a \in Positions(m, "assistant") \cap (recent..Len(m)) : m[from].id \in CallIds(m[a])
    BY <2>4
  <2>6. PICK b \in Nat : Answers(m, b, from)
    BY <2>2, OrderedAnswers
  <2>7. b \in Positions(m, "assistant") /\ m[from].id \in CallIds(m[b]) /\ b < from
    <3>1. b < from
      BY <2>6 DEF Answers
    <3>2. from \in Nat
      BY <1>0
    <3>. HIDE DEF from
    <3>. QED BY <1>1, <2>6, <3>1, <3>2
  <2>8. a # b
    BY <1>0, <1>3, <2>1, <2>5, <2>7
  <2>. QED BY <2>5, <2>7, <2>8 DEF Numbered
<1>. QED BY <1>0, <1>2, <1>3

LEMMA CompactKeeps ==
    ASSUME NEW m \in Seq(Message), NEW n \in Nat, WellOrdered(m), Numbered(m, n), PreservedFrom(m) > 1
    PROVE  LET new == << Summary >> \o SubSeq(m, PreservedFrom(m), Len(m)) IN
           WellOrdered(new) /\ Numbered(new, n)
<1>. DEFINE from == PreservedFrom(m)
            new == << Summary >> \o SubSeq(m, from, Len(m))
            old(i) == from + i - 2
<1>1. from \in 2..(Len(m) + 1) /\ Len(m) \in Nat /\ DOMAIN m = 1..Len(m)
  BY PreservedFromIsPosition, LenProperties
<1>2. /\ new \in Seq(Message)
      /\ DOMAIN new = 1..(Len(m) + 2 - from)
      /\ new[1] = Summary
      /\ \A i \in 2..(Len(m) + 2 - from) : new[i] = m[old(i)]
  <2>. HIDE DEF from
  <2>. QED BY <1>1, Compacted
<1>3. \A i \in Nat, j \in Positions(m, "tool") : Answers(m, i, j) /\ from <= j => from <= i
  BY CallPreserved
<1>. HIDE DEF from, new
<1>4. \A role \in {"assistant", "tool"} : \A i \in Positions(new, role) :
         i \in 2..(Len(m) + 2 - from) /\ old(i) \in Positions(m, role) /\ new[i] = m[old(i)]
  <2>. SUFFICES ASSUME NEW role \in {"assistant", "tool"}, NEW i \in Positions(new, role)
                PROVE  i \in 2..(Len(m) + 2 - from) /\ old(i) \in Positions(m, role) /\ new[i] = m[old(i)]
    OBVIOUS
  <2>1. i # 1
    BY <1>2 DEF Positions, Summary
  <2>2. i \in 2..(Len(m) + 2 - from) /\ new[i].role = role
    BY <1>1, <1>2, <2>1 DEF Positions
  <2>3. old(i) \in 1..Len(m) /\ new[i] = m[old(i)]
    BY <1>1, <1>2, <2>2
  <2>. QED BY <1>1, <2>2, <2>3 DEF Positions
<1>5. Numbered(new, n)
  <2>1. \A i \in Positions(new, "assistant"), j \in Positions(new, "assistant") : i # j => old(i) # old(j)
    BY <1>1, <1>4
  <2>. HIDE DEF old
  <2>. QED BY <1>4, <2>1 DEF Numbered
<1>6. ASSUME NEW j \in Positions(new, "tool") PROVE \E i \in Nat : Answers(new, i, j)
  <2>1. j \in 2..(Len(m) + 2 - from) /\ old(j) \in Positions(m, "tool") /\ new[j] = m[old(j)]
    BY <1>4
  <2>2. PICK b \in Nat : Answers(m, b, old(j))
    BY <2>1, OrderedAnswers
  <2>3. from <= b /\ b \in 1..Len(m) /\ b \in Positions(m, "assistant") /\ b < old(j)
    <3>1. from <= old(j)
      BY <1>1, <2>1
    <3>2. b \in Positions(m, "assistant") /\ b < old(j)
      BY <2>2 DEF Answers
    <3>3. from <= b
      <4>. HIDE DEF old
      <4>. QED BY <1>3, <2>1, <2>2, <3>1
    <3>. QED BY <3>2, <3>3, MessageParts
  <2>. DEFINE i == b + 2 - from
  <2>4. i \in 2..(Len(m) + 2 - from) /\ old(i) = b /\ i < j /\ j - i = old(j) - b /\ i \in Nat
    BY <1>1, <2>1, <2>3
  <2>5. new[i] = m[b]
    BY <1>2, <2>4
  <2>6. i \in Positions(new, "assistant")
    BY <1>1, <1>2, <2>3, <2>4, <2>5 DEF Positions
  <2>7. \A k \in (i + 1)..j : new[k].role = "tool"
    <3>. SUFFICES ASSUME NEW k \in (i + 1)..j PROVE new[k].role = "tool"
      OBVIOUS
    <3>1. k \in 2..(Len(m) + 2 - from) /\ old(k) \in (b + 1)..old(j)
      BY <1>1, <2>1, <2>3, <2>4
    <3>2. new[k] = m[old(k)]
      BY <1>2, <3>1
    <3>. QED BY <2>2, <3>1, <3>2 DEF Answers
  <2>. HIDE DEF i, old
  <2>. QED BY <2>1, <2>2, <2>4, <2>5, <2>6, <2>7 DEF Answers
<1>7. WellOrdered(new)
  BY <1>2, <1>6, OrderedAnswers
<1>. QED BY <1>5, <1>7 DEF new, from

-----------------------------------------------------------------------------
(* The shape of a conversation.                                            *)
LEMMA InitShape == Init => Shape
<1>. SUFFICES ASSUME Init PROVE Shape
  OBVIOUS
<1>1. /\ messages = << >> /\ saved.messages = << >> /\ turn.pc = "idle"
      /\ \A role : Positions(<< >>, role) = {}
  BY DEF Init, Idle, Positions
<1>. QED BY <1>1 DEF Shape, ResultsFollowCalls, WellOrdered, Numbered, Dispatching, At

\* The next call has its result.
LEMMA NextDispatched ==
    ASSUME NEW m \in Seq(Message), NEW todo \in Seq(Call), todo # << >>, NEW i \in Nat, Dispatched(m, i, todo),
           NEW message \in Message, message.role = "tool", message.id = Head(todo).id
    PROVE  LET new == Append(m, message) IN
           Answers(new, i, Len(m) + 1) /\ Dispatched(new, i, Tail(todo))
<1>. DEFINE new == Append(m, message)
            n == Len(m)
            rest == Tail(todo)
<1>1. i \in Positions(m, "assistant") /\ \A k \in (i + 1)..n : m[k].role = "tool"
  BY DEF Dispatched
<1>2. n - i + Len(todo) = Len(m[i].calls) /\ \A k \in DOMAIN todo : todo[k].id = m[i].calls[n - i + k].id
  BY DEF Dispatched
<1>3. n \in Nat /\ i \in 1..n
  BY <1>1, MessageParts
<1>4. Len(todo) \in Nat /\ Len(todo) > 0 /\ DOMAIN todo = 1..Len(todo)
  BY LenProperties, EmptySeq
<1>5. /\ Head(todo) = todo[1] /\ Len(rest) = Len(todo) - 1 /\ DOMAIN rest = 1..(Len(todo) - 1)
      /\ \A k \in 1..(Len(todo) - 1) : rest[k] = todo[k + 1]
  BY HeadTailProperties, LenProperties
<1>6. Len(new) = n + 1 /\ i \in Positions(new, "assistant")
  BY <1>1, Added
<1>7. /\ \A k \in 1..n : new[k] = m[k]
      /\ new[n + 1] = message
  BY Added
<1>. HIDE DEF new, n, rest
<1>8. new[i] = m[i] /\ \A k \in (i + 1)..(n + 1) : new[k].role = "tool"
  BY <1>1, <1>3, <1>7
<1>9. message.id = m[i].calls[n - i + 1].id
  BY <1>2, <1>4, <1>5
<1>10. Answers(new, i, n + 1)
  <2>. DEFINE p == n + 1
  <2>1. i < p /\ p - i = n - i + 1 /\ p - i <= Len(m[i].calls)
    BY <1>2, <1>3, <1>4
  <2>2. new[p] = message /\ \A k \in (i + 1)..p : new[k].role = "tool"
    BY <1>7, <1>8
  <2>. HIDE DEF p
  <2>3. new[p].id = new[i].calls[p - i].id /\ p - i <= Len(new[i].calls)
    BY <1>8, <1>9, <2>1, <2>2, Zenon
  <2>4. Answers(new, i, p)
    BY <1>6, <2>1, <2>2, <2>3, Zenon DEF Answers
  <2>. QED BY <2>4 DEF p
<1>11. Dispatched(new, i, rest)
  <2>. DEFINE left == Len(todo)
  <2>1. Len(new) - i + Len(rest) = Len(new[i].calls)
    <3>1. n + 1 - i + (Len(todo) - 1) = n - i + Len(todo)
      BY <1>3, <1>4
    <3>2. Len(new) = n + 1 /\ Len(rest) = Len(todo) - 1 /\ Len(new[i].calls) = Len(m[i].calls)
      BY <1>5, <1>6, <1>8
    <3>3. Len(m[i].calls) = n - i + Len(todo)
      BY <1>2
    <3>. QED BY <1>3, <1>4, <3>1, <3>2, <3>3
  <2>2. ASSUME NEW k \in DOMAIN rest PROVE rest[k].id = new[i].calls[Len(new) - i + k].id
    <3>1. k \in 1..(left - 1) /\ rest[k] = todo[k + 1]
      BY <1>5
    <3>2. k + 1 \in 1..left /\ n - i + (k + 1) = (n + 1) - i + k
      BY <1>3, <1>4, <3>1
    <3>3. todo[k + 1].id = m[i].calls[n - i + (k + 1)].id
      BY <1>2, <1>4, <3>2
    <3>. QED BY <1>6, <1>8, <3>1, <3>2, <3>3
  <2>. QED BY <1>6, <1>8, <2>1, <2>2 DEF Dispatched
<1>. QED BY <1>10, <1>11 DEF new, n, rest

LEMMA ResultAdded ==
    ASSUME TypeOK, Dispatch, Shape, At("calls"), NEW message \in Message, message.role = "tool",
           message.id = Current.id, messages' = Append(messages, message),
           lastId' = lastId, saved' = saved,
           ~At("calls")' \/ turn'.todo = Tail(turn.todo)
    PROVE  Shape'
<1>1. messages \in Seq(Message) /\ turn.todo \in Seq(Call) /\ turn.todo # << >> /\ lastId \in Nat
  BY AgentLoopAssumption DEF TypeOK, Turn, Dispatch
<1>2. PICK i \in Nat : Dispatched(messages, i, turn.todo)
  BY DEF Shape, Dispatching
<1>3. Answers(messages', i, Len(messages) + 1) /\ Dispatched(messages', i, Tail(turn.todo))
  BY <1>1, <1>2, NextDispatched DEF Current
<1>4. WellOrdered(messages')
  BY <1>1, <1>3, OrderedAppend DEF Shape, ResultsFollowCalls
<1>5. Numbered(messages', lastId)
  <2>1. Numbered(messages, lastId) /\ message.role # "assistant" /\ lastId <= lastId
    BY <1>1 DEF Shape
  <2>. QED BY <1>1, <2>1, NumberedAppend
<1>6. Dispatching'
  BY <1>3 DEF Dispatching
<1>. QED BY <1>4, <1>5, <1>6 DEF Shape, ResultsFollowCalls

LEMMA ShapeStep == TypeOK /\ Dispatch /\ Asked /\ Ids /\ Shape /\ [Next]_vars => Shape'
<1>. SUFFICES ASSUME TypeOK, Dispatch, Asked, Ids, Shape, [Next]_vars PROVE Shape'
  OBVIOUS
<1>0. /\ messages \in Seq(Message) /\ saved.messages \in Seq(Message) /\ lastId \in Nat
      /\ WellOrdered(messages) /\ WellOrdered(saved.messages)
      /\ Numbered(messages, lastId) /\ Numbered(saved.messages, lastId)
      /\ turn.pc \in {"idle", "answer", "setup", "model", "calls", "save", "question"}
  BY AgentLoopAssumption DEF TypeOK, Shape, ResultsFollowCalls, Turn
<1>00. WellOrdered(<< >>) /\ Numbered(<< >>, lastId)
  BY DEF WellOrdered, Numbered, Positions
\* A step that leaves the calls keeps the shape if it keeps that of the messages.
<1>01. ASSUME ~At("calls")', lastId' = lastId, saved'.messages \in {saved.messages, messages},
              WellOrdered(messages'), Numbered(messages', lastId)
       PROVE  Shape'
  BY <1>0, <1>01 DEF Shape, ResultsFollowCalls, Dispatching
<1>1. ASSUME NEW kind \in {"sync", "stream"}, Request(kind) PROVE Shape'
  <2>1. User \in Message /\ User.role = "user"
    BY MessageTypes DEF User
  <2>2. ~At("calls")' /\ lastId' = lastId /\ saved' = saved /\ messages' = Append(saved.messages, User)
    BY <1>1 DEF Request, Idle, At
  <2>. HIDE DEF User
  <2>3. WellOrdered(messages') /\ Numbered(messages', lastId)
    BY <1>0, <2>1, <2>2, OrderedAppend, NumberedAppend
  <2>. QED BY <1>01, <2>2, <2>3
<1>2. ASSUME NEW kind \in {"sync", "stream"}, AnswerQuestion(kind) PROVE Shape'
  <2>1. ~At("calls")' /\ lastId' = lastId /\ saved'.messages = saved.messages /\ messages' = saved.messages
    BY <1>2 DEF AnswerQuestion, Idle, At, TypeOK
  <2>. QED BY <1>0, <1>01, <2>1
<1>3. CASE RunApprovedTool \/ RefuseTool
  <2>1. PICK what \in {"result", "denied"} : Inject(what)
    BY <1>3 DEF RunApprovedTool, RefuseTool
  <2>2. At("answer") /\ turn.question # NoQuestion /\ lastId' = lastId /\ saved' = saved
    BY <1>3 DEF RunApprovedTool, RefuseTool, Asked
  <2>3. ~At("calls")'
    BY <2>1 DEF Inject, Goto, At, TypeOK, Turn
  <2>4. WellOrdered(messages') /\ Numbered(messages', lastId)
    BY <1>0, <2>1, <2>2, InjectKeeps
  <2>. QED BY <1>01, <2>2, <2>3, <2>4
<1>4. CASE SetUp \/ ReplyNothing \/ Exhausted \/ FailStream \/ Save
  <2>1. ~At("calls")' /\ lastId' = lastId /\ saved'.messages \in {saved.messages, messages} /\ messages' = messages
    BY <1>4 DEF SetUp, ReplyNothing, ModelCall, Exhausted, FailStream, Save, Stop, Goto, At, TypeOK, Turn
  <2>. QED BY <1>0, <1>01, <2>1
<1>5. CASE Compact
  <2>1. /\ ~At("calls")' /\ lastId' = lastId /\ saved' = saved /\ PreservedFrom(messages) > 1
        /\ messages' = << Summary >> \o SubSeq(messages, PreservedFrom(messages), Len(messages))
    BY <1>5 DEF Compact, Goto, At, TypeOK, Turn
  <2>2. WellOrdered(messages') /\ Numbered(messages', lastId)
    BY <1>0, <2>1, CompactKeeps
  <2>. QED BY <1>01, <2>1, <2>2
<1>6. CASE Reply
  <2>1. /\ Assistant(<< >>) \in Message /\ Assistant(<< >>).role = "assistant" /\ CallIds(Assistant(<< >>)) = {}
    <3>1. << >> \in Seq(Call)
      OBVIOUS
    <3>2. Assistant(<< >>) \in Message
      BY <3>1, MessageTypes
    <3>. QED BY <3>2 DEF Assistant, CallIds
  <2>2. ~At("calls")' /\ lastId' = lastId /\ saved' = saved /\ messages' = Append(messages, Assistant(<< >>))
    BY <1>6 DEF Reply, ModelCall, Append1, At, TypeOK, Turn
  <2>. HIDE DEF Assistant
  <2>3. WellOrdered(messages') /\ Numbered(messages', lastId)
    BY <1>0, <2>1, <2>2, OrderedAppend, NumberedAppend
  <2>. QED BY <1>01, <2>2, <2>3
<1>7. ASSUME NEW n \in 0..MaxPerReply, NEW tools \in [1..n -> Tools], CallTools(tools) PROVE Shape'
  <2>. DEFINE calls == [i \in DOMAIN tools |-> [id |-> lastId + i, tool |-> tools[i]]]
  <2>0. n \in Nat /\ DOMAIN tools = 1..n /\ Len(tools) = n
    BY AgentLoopAssumption
  <2>1. calls \in Seq(Call) /\ Len(calls) = n /\ DOMAIN calls = 1..n /\ \A k \in 1..n : calls[k].id = lastId + k
    <3>1. calls \in [1..n -> Call]
      BY <1>0, <2>0 DEF Call
    <3>. QED BY <2>0, <3>1
  <2>2. /\ Assistant(calls) \in Message /\ Assistant(calls).role = "assistant" /\ Assistant(calls).calls = calls
        /\ CallIds(Assistant(calls)) \subseteq (lastId + 1)..(lastId + n)
    <3>1. Assistant(calls) \in Message
      BY <2>1, MessageTypes
    <3>. HIDE DEF calls
    <3>2. CallIds(Assistant(calls)) = {calls[k].id : k \in 1..n}
      BY <2>1 DEF Assistant, CallIds
    <3>. QED BY <1>0, <2>0, <2>1, <3>1, <3>2 DEF Assistant
  <2>3. /\ lastId' = lastId + n /\ saved' = saved /\ messages' = Append(messages, Assistant(calls))
        /\ turn'.todo = calls
    BY <1>7, <2>0 DEF CallTools, Append1, TypeOK, Turn
  <2>. HIDE DEF calls, Assistant
  <2>4. WellOrdered(messages')
    BY <1>0, <2>2, <2>3, OrderedAppend
  <2>5. lastId' \in Nat /\ lastId <= lastId'
    BY <1>0, <2>0, <2>3
  <2>6. Numbered(messages', lastId') /\ Numbered(saved'.messages, lastId')
    BY <1>0, <2>2, <2>3, <2>5, NumberedAppend, NumberedGrows
  <2>7. Dispatched(messages', Len(messages) + 1, calls)
    <3>. DEFINE new == Append(messages, Assistant(calls))
                p == Len(messages) + 1
    <3>1. Len(new) = p /\ p \in Nat /\ new[p] = Assistant(calls) /\ p \in Positions(new, "assistant")
      BY <1>0, <2>2, Added
    <3>. HIDE DEF new, p
    <3>2. Dispatched(new, p, calls)
      BY <2>0, <2>1, <2>2, <3>1 DEF Dispatched
    <3>. QED BY <2>3, <3>2 DEF new, p
  <2>8. Dispatching'
    <3>1. Len(messages) + 1 \in Nat
      BY <1>0, LenProperties
    <3>. QED BY <2>3, <2>7, <3>1 DEF Dispatching
  <2>. QED BY <1>0, <2>3, <2>4, <2>6, <2>8 DEF Shape, ResultsFollowCalls
<1>8. CASE AskOperator
  <2>1. Current.id \in Nat \ {0}
    BY <1>8, NextCallType DEF AskOperator, Call
  <2>2. Sentinel(Current.id) \in Message /\ Sentinel(Current.id).role = "tool" /\ Sentinel(Current.id).id = Current.id
    BY <2>1, MessageTypes DEF Sentinel, Result
  <2>. QED BY <1>8, <2>2, ResultAdded DEF AskOperator, Append1, Stop, At, TypeOK, Turn
<1>9. ASSUME NEW decision, NEW what \in {"denied", "blocked"}, Refuse(decision, what) PROVE Shape'
  <2>1. Current.id \in Nat \ {0}
    BY <1>9, NextCallType DEF Refuse, Call
  <2>2. /\ Result(Current.id, what) \in Message
        /\ Result(Current.id, what).role = "tool" /\ Result(Current.id, what).id = Current.id
    BY <2>1, MessageTypes DEF Result
  <2>3. turn'.todo = Tail(turn.todo)
    BY <1>9 DEF Refuse, NextCall, TypeOK, Turn
  <2>. QED BY <1>9, <2>2, <2>3, ResultAdded DEF Refuse, Append1
<1>10. CASE ExecuteCall
  <2>1. Current.id \in Nat \ {0}
    BY <1>10, NextCallType DEF ExecuteCall, Call
  <2>2. /\ Result(Current.id, "result") \in Message
        /\ Result(Current.id, "result").role = "tool" /\ Result(Current.id, "result").id = Current.id
    BY <2>1, MessageTypes DEF Result
  <2>3. ~At("calls")' \/ turn'.todo = Tail(turn.todo)
    <3>1. CASE Repeats(Current.tool) >= RepeatThreshold
      BY <1>10, <3>1 DEF ExecuteCall, Stop, At, TypeOK, Turn
    <3>2. CASE ~(Repeats(Current.tool) >= RepeatThreshold)
      BY <1>10, <3>2 DEF ExecuteCall, NextCall, TypeOK, Turn
    <3>. QED BY <3>1, <3>2
  <2>. QED BY <1>10, <2>2, <2>3, ResultAdded DEF ExecuteCall, Append1
<1>11. CASE PersistQuestion \/ Abandon
  <2>1. ~At("calls")' /\ lastId' = lastId /\ saved'.messages = saved.messages /\ messages' = << >>
    BY <1>11 DEF PersistQuestion, Abandon, EndRequest, Idle, At, TypeOK
  <2>. QED BY <1>00, <1>01, <2>1
<1>12. CASE UNCHANGED vars
  BY <1>12 DEF vars, Shape, ResultsFollowCalls, Dispatching, At
<1>. QED
  BY <1>1, <1>2, <1>3, <1>4, <1>5, <1>6, <1>7, <1>8, <1>9, <1>10, <1>11, <1>12
     DEF Next, Progress, Calls, DenyCall, BlockCall

-----------------------------------------------------------------------------
(* The guard.                                                              *)
Count(w, t) == Cardinality({k \in DOMAIN w : w[k] = t})

\* The window is the end of what was run, and either full or has all of this turn; no
\* operation is in it as often as would have stopped the turn.
Windowed(w) ==
    /\ Len(w) <= PatternWindow /\ Len(w) <= Len(ran)
    /\ \A k \in DOMAIN w : w[k] = ran[Len(ran) - Len(w) + k].tool
    /\ Len(w) = PatternWindow \/ \A i \in DOMAIN ran : Mine(i) => i > Len(ran) - Len(w)
    /\ \A t \in Tools : Count(w, t) < RepeatThreshold

Counted ==
    /\ \A i \in DOMAIN ran : ran[i].turn <= turns
    /\ At("answer") \/ At("setup") => turn.window = << >> /\ \A i \in DOMAIN ran : ~Mine(i)
    /\ At("model") \/ At("calls") => Windowed(turn.window)

LEMMA CountType ==
    ASSUME NEW w \in Seq(Tools), NEW t
    PROVE  /\ IsFiniteSet({k \in DOMAIN w : w[k] = t})
           /\ Count(w, t) \in Nat
<1>1. Len(w) \in Nat /\ DOMAIN w = 1..Len(w)
  BY LenProperties
<1>2. IsFiniteSet(1..Len(w))
  BY <1>1, FS_Interval
<1>3. {k \in DOMAIN w : w[k] = t} \in SUBSET (1..Len(w))
  BY <1>1
<1>4. IsFiniteSet({k \in DOMAIN w : w[k] = t})
  BY <1>2, <1>3, FS_Subset
<1>. QED BY <1>4, FS_CardinalityType DEF Count

\* Whether the window is full.
Full == IF Len(turn.window) = PatternWindow THEN 1 ELSE 0

\* What the window becomes: the call at its end, and the first one out if it was full.
LEMMA WindowMoves ==
    ASSUME TypeOK, NEW tool \in Tools, Len(turn.window) <= PatternWindow
    PROVE  /\ Window(tool) \in Seq(Tools) /\ Len(Window(tool)) = Len(turn.window) + 1 - Full
           /\ Window(tool)[Len(Window(tool))] = tool
           /\ \A k \in 1..(Len(Window(tool)) - 1) : Window(tool)[k] = turn.window[k + Full]
<1>. DEFINE w == turn.window
            a == Append(w, tool)
<1>1. w \in Seq(Tools) /\ Len(w) \in Nat /\ DOMAIN w = 1..Len(w)
  BY LenProperties DEF TypeOK, Turn
<1>2. PatternWindow \in Nat /\ PatternWindow > 1
  BY AgentLoopAssumption
<1>3. /\ a \in Seq(Tools) /\ Len(a) = Len(w) + 1 /\ a[Len(w) + 1] = tool
      /\ \A k \in 1..Len(w) : a[k] = w[k]
  BY <1>1, AppendProperties
<1>4. Window(tool) = IF Len(a) - PatternWindow > 0 THEN SubSeq(a, Len(a) - PatternWindow + 1, Len(a)) ELSE a
  BY DEF Window
<1>5. Window(tool) \in Seq(Tools)
  BY WindowType
<1>. HIDE DEF a
<1>6. CASE Len(w) = PatternWindow
  <2>1. Window(tool) = SubSeq(a, 2, Len(a)) /\ Full = 1
    BY <1>1, <1>2, <1>3, <1>4, <1>6 DEF Full
  <2>2. Len(SubSeq(a, 2, Len(a))) = Len(w) /\ \A k \in 1..Len(w) : SubSeq(a, 2, Len(a))[k] = a[k + 1]
    BY <1>1, <1>2, <1>3, <1>6
  <2>3. \A k \in 1..Len(w) : Window(tool)[k] = a[k + 1]
    BY <2>1, <2>2
  <2>4. Window(tool)[Len(w)] = tool
    BY <1>1, <1>2, <1>3, <1>6, <2>3
  <2>5. \A k \in 1..(Len(w) - 1) : Window(tool)[k] = w[k + 1]
    BY <1>1, <1>3, <2>3
  <2>6. Len(Window(tool)) = Len(w)
    BY <2>1, <2>2
  <2>7. Full = 1
    BY <2>1
  <2>. QED BY <1>1, <1>5, <2>4, <2>5, <2>6, <2>7
<1>7. CASE Len(w) # PatternWindow
  <2>1. ~ (Len(a) - PatternWindow > 0)
    BY <1>1, <1>2, <1>3, <1>7
  <2>2. Window(tool) = a /\ Full = 0
    BY <1>4, <1>7, <2>1 DEF Full
  <2>3. /\ Len(Window(tool)) = Len(w) + 1 /\ Window(tool)[Len(w) + 1] = tool
        /\ \A k \in 1..Len(w) : Window(tool)[k] = w[k]
    BY <1>3, <2>2
  <2>. QED BY <1>1, <1>5, <2>2, <2>3
<1>. QED BY <1>6, <1>7

\* Only the operation just run is in the window more often than before.
LEMMA CountMoves ==
    ASSUME TypeOK, NEW tool \in Tools, Len(turn.window) <= PatternWindow, NEW t, t # tool
    PROVE  Count(Window(tool), t) <= Count(turn.window, t)
<1>. DEFINE w == turn.window
            v == Window(tool)
            S == {k \in DOMAIN v : v[k] = t}
            T == {k \in DOMAIN w : w[k] = t}
            f == [k \in S |-> k + Full]
<1>1. w \in Seq(Tools) /\ Len(w) \in Nat /\ DOMAIN w = 1..Len(w) /\ Full \in {0, 1}
  BY LenProperties DEF TypeOK, Turn, Full
<1>2. /\ v \in Seq(Tools) /\ Len(v) = Len(w) + 1 - Full
      /\ v[Len(v)] = tool
      /\ \A k \in 1..(Len(v) - 1) : v[k] = w[k + Full]
  BY WindowMoves
<1>3. DOMAIN v = 1..Len(v)
  BY <1>2, LenProperties
<1>4. IsFiniteSet(T)
  BY <1>1, CountType
<1>. HIDE DEF w, v
<1>5. ASSUME NEW k \in S PROVE k \in Int /\ k + Full \in T
  <2>1. k \in 1..Len(v) /\ v[k] = t
    BY <1>3
  <2>2. k # Len(v)
    BY <1>2, <2>1
  <2>3. k \in 1..(Len(v) - 1) /\ k + Full \in 1..Len(w)
    BY <1>1, <1>2, <2>1, <2>2
  <2>4. w[k + Full] = t
    BY <1>2, <2>1, <2>3
  <2>. QED BY <1>1, <2>3, <2>4
<1>6. f \in Injection(S, T)
  <2>1. f \in [S -> T]
    BY <1>5
  <2>2. \A j, k \in S : f[j] = f[k] => j = k
    BY <1>1, <1>5
  <2>. QED BY <2>1, <2>2 DEF Injection, IsInjective
<1>7. Cardinality(S) <= Cardinality(T)
  <2>. HIDE DEF S, T, f
  <2>. QED BY <1>4, <1>6, FS_Injection
<1>. QED BY <1>7 DEF Count, w, v

\* A call that does not stop the turn leaves the window as it should be.
LEMMA CallCounted ==
    ASSUME TypeOK, NEW tool \in Tools, Windowed(turn.window), turns' = turns, allowed' = allowed,
           NEW id \in Nat, ran' = Append(ran, [id |-> id, tool |-> tool, turn |-> turns]),
           ~(Repeats(tool) >= RepeatThreshold), NEW v, v = Window(tool)
    PROVE  Windowed(v)'
<1>. DEFINE w == turn.window
            x == [id |-> id, tool |-> tool, turn |-> turns]
<1>1. w \in Seq(Tools) /\ Len(w) \in Nat /\ DOMAIN w = 1..Len(w) /\ Full \in {0, 1}
  BY LenProperties DEF TypeOK, Turn, Full
<1>2. /\ v \in Seq(Tools) /\ Len(v) = Len(w) + 1 - Full
      /\ v[Len(v)] = tool
      /\ \A k \in 1..(Len(v) - 1) : v[k] = w[k + Full]
  BY WindowMoves DEF Windowed
<1>3. DOMAIN v = 1..Len(v) /\ Len(v) \in Nat
  BY <1>2, LenProperties
<1>4. x \in [id : Nat, tool : Tools, turn : Nat] /\ x.tool = tool
  BY AgentLoopAssumption DEF TypeOK
<1>5. ran' = Append(ran, x)
  OBVIOUS
<1>. HIDE DEF x
<1>6. /\ DOMAIN ran' = 1..(Len(ran) + 1) /\ Len(ran) \in Nat /\ Len(ran') = Len(ran) + 1
      /\ DOMAIN ran = 1..Len(ran)
      /\ ran'[Len(ran) + 1].tool = tool
      /\ \A i \in 1..Len(ran) : ran'[i] = ran[i]
  BY <1>4, <1>5, RanIdsAppend, AppendProperties, LenProperties DEF TypeOK
<1>7. PatternWindow \in Nat /\ RepeatThreshold \in Nat
  BY AgentLoopAssumption
<1>14. Len(v) = Len(w) + 1 - (IF Len(w) = PatternWindow THEN 1 ELSE 0)
  BY <1>2 DEF Full
<1>8. /\ Len(w) <= PatternWindow /\ Len(w) <= Len(ran)
      /\ \A k \in DOMAIN w : w[k] = ran[Len(ran) - Len(w) + k].tool
      /\ Len(w) = PatternWindow \/ \A i \in DOMAIN ran : Mine(i) => i > Len(ran) - Len(w)
      /\ \A t \in Tools : Count(w, t) < RepeatThreshold
  BY DEF Windowed
<1>9. \A i \in 1..Len(ran) : Mine(i)' => Mine(i)
  BY <1>6 DEF Mine
<1>10. ASSUME NEW t \in Tools PROVE Count(v, t) < RepeatThreshold
  <2>1. CASE t = tool
    <3>1. Count(v, tool) = Repeats(tool)
      BY DEF Count, Repeats
    <3>2. Count(v, tool) \in Nat
      BY <1>2, CountType
    <3>. QED BY <1>7, <2>1, <3>1, <3>2
  <2>2. CASE t # tool
    <3>1. Count(v, t) <= Count(w, t)
      BY <1>8, <2>2, CountMoves
    <3>2. Count(v, t) \in Nat /\ Count(w, t) \in Nat
      BY <1>1, <1>2, CountType
    <3>. QED BY <1>7, <1>8, <3>1, <3>2
  <2>. QED BY <2>1, <2>2
<1>11. Len(v) <= PatternWindow /\ Len(v) <= Len(ran')
  BY <1>1, <1>6, <1>7, <1>8, <1>14
<1>12. ASSUME NEW k \in DOMAIN v PROVE v[k] = ran'[Len(ran') - Len(v) + k].tool
  <2>0. k \in 1..Len(v)
    BY <1>3
  <2>1. CASE k = Len(v)
    <3>1. Len(ran') - Len(v) + k = Len(ran) + 1
      BY <1>3, <1>6, <2>1
    <3>. QED BY <1>2, <1>6, <2>1, <3>1
  <2>2. CASE k # Len(v)
    <3>0. Len(v) = Len(w) + 1 - Full /\ Full \in {0, 1}
      BY <1>1, <1>2
    <3>1. k + Full \in DOMAIN w /\ v[k] = w[k + Full]
      <4>1. k \in 1..(Len(v) - 1)
        BY <1>3, <2>0, <2>2
      <4>2. k + Full \in 1..Len(w)
        BY <1>1, <3>0, <4>1
      <4>. QED BY <1>1, <1>2, <4>1, <4>2
    <3>2. Len(ran) - Len(w) + (k + Full) = Len(ran') - Len(v) + k
      <4>1. k \in Int /\ Full \in Int /\ Len(w) \in Int /\ Len(ran) \in Int
        BY <1>1, <1>3, <1>6, <2>0, <3>0
      <4>2. Len(ran') = Len(ran) + 1 /\ Len(v) = Len(w) + 1 - Full
        BY <1>6, <3>0
      <4>. HIDE DEF w
      <4>. QED BY <4>1, <4>2
    <3>3. Len(ran) - Len(w) + (k + Full) \in 1..Len(ran)
      BY <1>1, <1>6, <1>8, <3>1
    <3>. QED BY <1>6, <1>8, <3>1, <3>2, <3>3
  <2>. QED BY <2>1, <2>2
<1>13. Len(v) = PatternWindow \/ \A i \in DOMAIN ran' : Mine(i)' => i > Len(ran') - Len(v)
  <2>1. CASE Len(w) = PatternWindow
    BY <1>1, <2>1, <1>14
  <2>2. CASE Len(w) # PatternWindow
    <3>1. Len(ran') - Len(v) = Len(ran) - Len(w)
      BY <1>1, <1>6, <1>14, <2>2
    <3>2. \A i \in DOMAIN ran : Mine(i) => i > Len(ran) - Len(w)
      BY <1>8, <2>2
    <3>3. ASSUME NEW i \in DOMAIN ran', Mine(i)' PROVE i > Len(ran) - Len(w)
      <4>1. CASE i = Len(ran) + 1
        BY <1>1, <1>6, <4>1
      <4>2. CASE i # Len(ran) + 1
        <5>1. i \in 1..Len(ran)
          BY <1>6, <4>2
        <5>. QED BY <1>6, <1>9, <3>2, <3>3, <5>1
      <4>. QED BY <4>1, <4>2
    <3>. QED BY <3>1, <3>3
  <2>. QED BY <2>1, <2>2
<1>. QED BY <1>10, <1>11, <1>12, <1>13 DEF Windowed

LEMMA InitCounted == Init => Counted
BY DEF Init, Idle, Counted, At

LEMMA CountedStep == TypeOK /\ Dispatch /\ Asked /\ Ids /\ Counted /\ [Next]_vars => Counted'
<1>. SUFFICES ASSUME TypeOK, Dispatch, Asked, Ids, Counted, [Next]_vars PROVE Counted'
  OBVIOUS
<1>0. turn \in Turn /\ turns \in Nat
  BY AgentLoopAssumption DEF TypeOK
\* Actions that run nothing and leave the window.
<1>1. ASSUME turns' = turns, ran' = ran, allowed' = allowed
      PROVE  /\ \A i \in DOMAIN ran' : ran'[i].turn <= turns'
             /\ \A i : Mine(i)' <=> Mine(i)
             /\ \A w : Windowed(w)' <=> Windowed(w)
  BY <1>1 DEF Counted, Windowed, Mine
<1>2. ASSUME turns' = turns, ran' = ran, allowed' = allowed, turn'.window = turn.window,
             At("model") \/ At("calls"), ~At("answer")', ~At("setup")'
      PROVE  Counted'
  <2>1. Windowed(turn.window)'
    BY <1>1, <1>2 DEF Counted, Windowed
  <2>. QED BY <1>1, <1>2, <2>1 DEF Counted
<1>3. ASSUME turns' = turns, ran' = ran, allowed' = allowed, turn'.pc \in {"save", "question", "idle"}
      PROVE  Counted'
  BY <1>1, <1>3 DEF Counted, At
<1>4. ASSUME NEW kind \in {"sync", "stream"}, Request(kind) \/ AnswerQuestion(kind) PROVE Counted'
  <2>1. turns' = turns + 1 /\ ran' = ran /\ turn'.window = << >> /\ ~At("model")' /\ ~At("calls")'
    BY <1>4 DEF Request, AnswerQuestion, Idle, At
  <2>0. \A i \in DOMAIN ran : ran[i].turn \in Nat
    <3>1. \A i \in 1..Len(ran) : ran[i] \in [id : Nat, tool : Tools, turn : Nat]
      BY ElementOfSeq DEF TypeOK
    <3>2. DOMAIN ran = 1..Len(ran)
      BY LenProperties DEF TypeOK
    <3>. QED BY <3>1, <3>2
  <2>2. \A i \in DOMAIN ran' : ran'[i].turn < turns'
    <3>1. \A i \in DOMAIN ran : ran[i].turn <= turns
      BY DEF Counted
    <3>. QED BY <1>0, <2>0, <2>1, <3>1
  <2>3. \A i \in DOMAIN ran' : ran'[i].turn <= turns' /\ ~Mine(i)'
    <3>. QED BY <1>0, <2>0, <2>1, <2>2 DEF Mine
  <2>. QED BY <2>1, <2>3 DEF Counted
<1>5. CASE RunApprovedTool
  <2>. DEFINE x == [id |-> turn.question.id, tool |-> turn.question.tool, turn |-> turns]
  <2>1. turn.question \in Call /\ At("answer")
    BY <1>5 DEF RunApprovedTool, Asked, TypeOK, Turn, Question
  <2>2. x \in [id : Nat, tool : Tools, turn : Nat] /\ x.turn = turns /\ x.id = turn.question.id
    BY <1>0, <2>1 DEF Call
  <2>3. ran' = Append(ran, x) /\ turns' = turns /\ allowed' = allowed \cup {x.id} /\ turn'.window = << >>
        /\ turn'.pc = "setup" /\ \A i \in DOMAIN ran : ~Mine(i) /\ ran[i].turn <= turns
    BY <1>0, <1>5, <2>1 DEF RunApprovedTool, Inject, Goto, Turn, Counted
  <2>. HIDE DEF x
  <2>4. /\ DOMAIN ran' = 1..(Len(ran) + 1) /\ Len(ran) \in Nat /\ DOMAIN ran = 1..Len(ran)
        /\ ran'[Len(ran) + 1] = x
        /\ \A i \in 1..Len(ran) : ran'[i] = ran[i]
    BY <2>2, <2>3, RanIdsAppend, LenProperties DEF TypeOK
  <2>5. ASSUME NEW i \in DOMAIN ran' PROVE ran'[i].turn <= turns' /\ ~Mine(i)'
    <3>1. CASE i = Len(ran) + 1
      BY <1>0, <2>2, <2>3, <2>4, <3>1 DEF Mine
    <3>2. CASE i # Len(ran) + 1
      <4>1. i \in 1..Len(ran)
        BY <2>4, <3>2
      <4>. QED BY <2>3, <2>4, <4>1 DEF Mine
    <3>. QED BY <3>1, <3>2
  <2>. QED BY <2>3, <2>5 DEF Counted, At
<1>6. CASE RefuseTool
  <2>1. turn'.window = << >> /\ turn'.pc = "setup" /\ turns' = turns /\ ran' = ran /\ allowed' = allowed /\ At("answer")
    BY <1>0, <1>6 DEF RefuseTool, Inject, Goto, Turn, At, Counted
  <2>. QED BY <1>1, <2>1 DEF Counted, At
<1>7. CASE SetUp \/ Compact
  <2>1. turn'.window = << >> /\ turn'.pc = "model" /\ turns' = turns /\ ran' = ran /\ allowed' = allowed /\ At("setup")
    BY <1>0, <1>7 DEF SetUp, Compact, Goto, Turn, At, Counted
  <2>2. Windowed(<< >>)
    <3>1. Len(ran) \in Nat /\ Len(<< >>) = 0 /\ DOMAIN << >> = {} /\ PatternWindow \in Nat /\ RepeatThreshold > 0
      BY AgentLoopAssumption, LenProperties DEF TypeOK
    <3>2. \A t : Count(<< >>, t) = 0
      BY <3>1, FS_EmptySet DEF Count
    <3>3. \A i \in DOMAIN ran : ~Mine(i)
      BY <2>1 DEF Counted
    <3>. QED BY <3>1, <3>2, <3>3 DEF Windowed
  <2>. QED BY <1>1, <2>1, <2>2 DEF Counted, At
<1>8. CASE Reply \/ ReplyNothing \/ Exhausted \/ Save
  BY <1>0, <1>3, <1>8 DEF Reply, ReplyNothing, ModelCall, Exhausted, Save, Goto, Turn
<1>9. ASSUME NEW n \in 0..MaxPerReply, NEW tools \in [1..n -> Tools], CallTools(tools) PROVE Counted'
  BY <1>0, <1>2, <1>9 DEF CallTools, Turn, At
<1>10. CASE AskOperator \/ FailStream
  BY <1>0, <1>3, <1>10 DEF AskOperator, FailStream, Stop, Turn
<1>11. ASSUME NEW decision, NEW what, Refuse(decision, what) PROVE Counted'
  BY <1>0, <1>2, <1>11 DEF Refuse, NextCall, Turn, At
<1>12. CASE ExecuteCall
  <2>1. /\ At("calls") /\ turns' = turns /\ allowed' = allowed
        /\ ran' = Append(ran, [id |-> Current.id, tool |-> Current.tool, turn |-> turns])
    BY <1>12 DEF ExecuteCall
  <2>2. Current \in Call /\ Current.id \in Nat /\ Current.tool \in Tools
    BY <2>1, NextCallType DEF Call
  <2>3. \A i \in DOMAIN ran' : ran'[i].turn <= turns'
    <3>. DEFINE x == [id |-> Current.id, tool |-> Current.tool, turn |-> turns]
    <3>1. x \in [id : Nat, tool : Tools, turn : Nat] /\ x.turn = turns /\ ran' = Append(ran, x)
      BY <1>0, <2>1, <2>2
    <3>. HIDE DEF x
    <3>2. /\ DOMAIN ran' = 1..(Len(ran) + 1) /\ Len(ran) \in Nat /\ DOMAIN ran = 1..Len(ran)
          /\ ran'[Len(ran) + 1] = x
          /\ \A i \in 1..Len(ran) : ran'[i] = ran[i]
      BY <3>1, RanIdsAppend, LenProperties DEF TypeOK
    <3>3. \A i \in 1..Len(ran) : ran[i].turn <= turns
      BY <3>2 DEF Counted
    <3>. QED BY <1>0, <2>1, <3>1, <3>2, <3>3
  <2>4. CASE Repeats(Current.tool) >= RepeatThreshold
    <3>1. turn'.pc = "save"
      BY <1>0, <1>12, <2>4 DEF ExecuteCall, Stop, Turn
    <3>. QED BY <2>3, <3>1 DEF Counted, At
  <2>5. CASE ~(Repeats(Current.tool) >= RepeatThreshold)
    <3>1. turn' = [NextCall EXCEPT !.window = Window(Current.tool)]
      BY <1>12, <2>5 DEF ExecuteCall
    <3>2. turn'.window = Window(Current.tool) /\ turn'.pc \in {"model", "calls"}
      BY <1>0, <2>1, <3>1 DEF NextCall, Turn, At
    <3>3. Windowed(turn.window)
      BY <2>1 DEF Counted
    <3>4. \A v : v = Window(Current.tool) => Windowed(v)'
      BY <2>1, <2>2, <2>5, <3>3, CallCounted
    <3>5. Windowed(turn.window)'
      BY <3>2, <3>4 DEF Windowed
    <3>. QED BY <2>3, <3>2, <3>5 DEF Counted, At
  <2>. QED BY <2>4, <2>5
<1>13. CASE PersistQuestion \/ Abandon
  BY <1>3, <1>13 DEF PersistQuestion, Abandon, EndRequest, Idle
<1>14. CASE UNCHANGED vars
  BY <1>1, <1>14 DEF vars, Counted, At
<1>. QED
  BY <1>4, <1>5, <1>6, <1>7, <1>8, <1>9, <1>10, <1>11, <1>12, <1>13, <1>14
     DEF Next, Progress, Calls, DenyCall, BlockCall

\* Among the last calls of a turn the window has at least RepeatThreshold, if it is that wide.
LEMMA CountedStops == TypeOK /\ Counted => RepeatsAreStopped
<1>. SUFFICES ASSUME TypeOK, Counted, At("model") \/ At("calls"), RepeatThreshold <= PatternWindow,
                     NEW t \in Tools, NEW from \in DOMAIN ran, from + RepeatThreshold - 1 = Len(ran),
                     \A i \in from..Len(ran) : Mine(i) /\ ran[i].tool = t
              PROVE  FALSE
  BY DEF RepeatsAreStopped
<1>. DEFINE w == turn.window
            S == {k \in DOMAIN w : w[k] = t}
            late == (Len(w) - RepeatThreshold + 1)..Len(w)
<1>1. /\ w \in Seq(Tools) /\ Len(w) \in Nat /\ DOMAIN w = 1..Len(w)
      /\ Len(ran) \in Nat /\ DOMAIN ran = 1..Len(ran)
  BY LenProperties DEF TypeOK, Turn
<1>2. PatternWindow \in Nat /\ RepeatThreshold \in Nat /\ RepeatThreshold > 1
  BY AgentLoopAssumption
<1>3. Windowed(w)
  BY DEF Counted
<1>. HIDE DEF w
<1>4. Len(w) >= RepeatThreshold
  <2>1. CASE Len(w) = PatternWindow
    BY <1>1, <2>1
  <2>2. CASE Len(w) # PatternWindow
    <3>1. Mine(from) /\ from \in 1..Len(ran)
      BY <1>1, <1>2
    <3>2. from > Len(ran) - Len(w)
      BY <1>1, <1>3, <2>2, <3>1 DEF Windowed
    <3>. QED BY <1>1, <1>2, <3>1, <3>2
  <2>. QED BY <2>1, <2>2
<1>5. ASSUME NEW k \in late PROVE k \in S
  <2>1. k \in 1..Len(w) /\ Len(ran) - Len(w) + k \in from..Len(ran)
    BY <1>1, <1>2, <1>4
  <2>2. w[k] = ran[Len(ran) - Len(w) + k].tool
    BY <1>1, <1>3, <2>1 DEF Windowed
  <2>. QED BY <1>1, <2>1, <2>2
<1>6. IsFiniteSet(S) /\ Cardinality(S) = Count(w, t) /\ Count(w, t) \in Nat
  BY <1>1, CountType DEF Count
<1>7. Cardinality(late) = RepeatThreshold
  BY <1>1, <1>2, FS_Interval
<1>. HIDE DEF S, late
<1>8. Cardinality(late) <= Cardinality(S)
  BY <1>5, <1>6, FS_Subset
<1>9. Count(w, t) < RepeatThreshold
  BY <1>3 DEF Windowed
<1>. QED BY <1>2, <1>6, <1>7, <1>8, <1>9

-----------------------------------------------------------------------------
(* Theorems.                                                               *)
LEMMA InitInvariant == Init => IInv
<1>. SUFFICES ASSUME Init PROVE IInv
  OBVIOUS
<1>1. TypeOK
  BY InitType
<1>2. /\ turn = Idle /\ turn.pc = "idle" /\ turn.todo = << >> /\ turn.question = NoQuestion
      /\ ran = << >> /\ RanIds = {} /\ lastId = 0 /\ pending = NoQuestion /\ NoQuestion.id = 0
      /\ saved.messages = << >> /\ saved.question = NoQuestion
  BY DEF Init, Idle, RanIds, NoQuestion
<1>3. Sentinels(<< >>) = {}
  BY DEF Sentinels, Positions
<1>4. Dispatch
  BY <1>2 DEF Dispatch, At
<1>5. Asked
  BY <1>2 DEF Asked, At, QuestionHasSentinel
<1>6. Ids
  BY <1>2 DEF Ids, Unrun, At
<1>7. GatedCallsAreApproved
  BY <1>2 DEF GatedCallsAreApproved
<1>8. Waiting
  BY <1>2, <1>3 DEF Waiting, SentinelIsPending, At
<1>. QED BY <1>1, <1>4, <1>5, <1>6, <1>7, <1>8 DEF IInv

LEMMA InvariantHolds == Spec => []IInv
<1>1. IInv /\ [Next]_vars => IInv'
  BY TypeStep, DispatchStep, AskedStep, IdsStep, GatedStep, WaitingStep DEF IInv
<1>. QED BY <1>1, InitInvariant, PTL DEF Spec

\* Whatever the model calls, whatever the operator answers and wherever a turn breaks off,
\* the session's row, the agent and the request hold what astep_stream and the handlers of
\* the server expect of them.
THEOREM TypeCorrect == Spec => []TypeOK
<1>1. IInv => TypeOK
  BY DEF IInv
<1>. QED BY <1>1, InvariantHolds, PTL

\* A session that waits for the operator ends in the sentinel of the call it waits on: the
\* handler of the answer finds what to replace.
THEOREM QuestionsHaveSentinels == Spec => []QuestionHasSentinel
<1>1. IInv => QuestionHasSentinel
  BY DEF IInv, Asked
<1>. QED BY <1>1, InvariantHolds, PTL

\* No call that needs approval is executed without it, and no call is executed twice, by
\* the dispatch loop or by the handler of the answer.
THEOREM GatedCallsStayApproved == Spec => []GatedCallsAreApproved
<1>1. IInv => GatedCallsAreApproved
  BY DEF IInv
<1>. QED BY <1>1, InvariantHolds, PTL

\* The session's history shows as waiting only what the session waits for, what is being
\* answered or asked, and what a failure has orphaned.
THEOREM SentinelsArePending == Spec => []SentinelIsPending
<1>1. IInv => SentinelIsPending
  BY DEF IInv, Waiting
<1>. QED BY <1>1, InvariantHolds, PTL

\* No compaction takes a waiting call out of the session's history: only the request that
\* answers it does.
THEOREM NothingPendingIsSummarised == Spec => PendingIsNotSummarised
<1>. DEFINE Kept == Sentinels(saved.messages) \ Sentinels(saved'.messages) \subseteq {turn.question.id}
<1>1. IInv /\ [Next]_vars => [Kept]_vars
  <2>. SUFFICES ASSUME IInv, [Next]_vars PROVE [Kept]_vars
    OBVIOUS
  <2>1. CASE Save
    <3>1. ~At("idle") /\ saved'.messages = messages
      BY <2>1 DEF Save, At, IInv, TypeOK
    <3>. QED BY <3>1 DEF IInv, Waiting
  <2>2. CASE saved'.messages = saved.messages
    BY <2>2
  <2>3. Save \/ saved'.messages = saved.messages
    BY DEF IInv, TypeOK, Next, Progress, Calls, Request, AnswerQuestion, RunApprovedTool, RefuseTool, SetUp, Compact, Reply,
           ReplyNothing, ModelCall, Exhausted, CallTools, AskOperator, DenyCall, BlockCall, Refuse,
           ExecuteCall, PersistQuestion, FailStream, Abandon, vars
  <2>. QED BY <2>1, <2>2, <2>3
<1>. QED BY <1>1, InvariantHolds, PTL DEF Spec, PendingIsNotSummarised

\* Compaction, failures and answers that come late leave every result with its call: what is
\* sent to the model is never a result out of place.
THEOREM ResultsAlwaysFollowCalls == Spec => []ResultsFollowCalls
<1>1. IInv /\ Shape /\ [Next]_vars => Shape'
  BY ShapeStep DEF IInv
<1>2. Shape => ResultsFollowCalls
  BY DEF Shape
<1>. QED BY <1>1, <1>2, InitShape, InvariantHolds, PTL DEF Spec

\* The doom-loop guard sees every row of equal calls that its window can hold: after
\* RepeatThreshold of them the model is not called, nor a tool run, for any threshold and window.
THEOREM RepeatsAreAlwaysStopped == Spec => []RepeatsAreStopped
<1>1. IInv /\ Counted /\ [Next]_vars => Counted'
  BY CountedStep DEF IInv
<1>2. IInv /\ Counted => RepeatsAreStopped
  BY CountedStops DEF IInv
<1>. QED BY <1>1, <1>2, InitCounted, InvariantHolds, PTL DEF Spec
=============================================================================
