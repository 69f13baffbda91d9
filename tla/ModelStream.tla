---------------------------- MODULE ModelStream ----------------------------
(***************************************************************************)
(* How the words of the model reach the client while it speaks: the chunks *)
(* of its stream as astep_stream takes them apart (baseagent/agent.py),    *)
(* the parser that separates <think> blocks (baseagent/reasoning.py), and  *)
(* the two serializers of events, openai_sse.py, which app.py uses, and    *)
(* anthropic_messages.py, for embedders.  A chunk with several parts is    *)
(* several chunks here, in the order astep_stream looks at them.  What the *)
(* tools do is in AgentLoop.                                               *)
(***************************************************************************)
EXTENDS Integers, Sequences, FiniteSets, SequencesExt

CONSTANTS
    Turns,      \* what models say, and to which serializer: see Init
    OpenTag, CloseTag,      \* sequences of symbols, for <think> and </think>
    MaxChunks,  \* bound on the chunks of a turn
    MaxRounds   \* max_iterations

VARIABLES
    turn,
    agent,      \* astep_stream: its place, its round, parser, parts, tool_buf, messages
    client,     \* the serializer, with the frames it has sent
    heard       \* not in the code: the content chunks of each round, put together, the calls of
                \* the rounds before, the number of chunks

vars == << turn, agent, client, heard >>

-----------------------------------------------------------------------------
(* The parser.                                                             *)

Tag(inside) == IF inside THEN CloseTag ELSE OpenTag
Kind(inside) == IF inside THEN "reasoning" ELSE "content"

\* create_reasoning_parser and reset: inside a block, for a model whose template opens it.
Reset == [buf |-> << >>, inside |-> turn.model = "implicit"]

Occurs(tag, s, i) == i + Len(tag) - 1 <= Len(s) /\ SubSeq(s, i, i + Len(tag) - 1) = tag
Find(tag, s) == {i \in 1..Len(s) : Occurs(tag, s, i)}

\* _suffix_prefix_len
HeldBack(s, tag) ==
    Max({0} \cup {n \in 1..Len(tag) - 1 : n <= Len(s) /\ SubSeq(s, Len(s) - n + 1, Len(s)) = SubSeq(tag, 1, n)})

Event(kind, data) == [kind |-> kind, data |-> data, index |-> 0, id |-> << >>]
Segment(kind, text) == IF text = << >> THEN << >> ELSE << Event(kind, text) >>

\* What feed() returns, and the parser it leaves.
Feed(buf, inside) ==
    LET fed[from \in 1..Len(buf) + 1, within \in BOOLEAN] ==
            LET rest == SubSeq(buf, from, Len(buf))
                tag == Tag(within)
            IN  IF Find(tag, rest) = {}
                THEN LET said == Len(rest) - HeldBack(rest, tag) IN
                     [parser |-> [buf |-> SubSeq(rest, said + 1, Len(rest)), inside |-> within],
                      out |-> Segment(Kind(within), SubSeq(rest, 1, said))]
                ELSE LET at == Min(Find(tag, rest)) IN
                     [fed[from + at - 1 + Len(tag), ~within] EXCEPT
                          !.out = Segment(Kind(within), SubSeq(rest, 1, at - 1)) \o @]
    IN  fed[1, inside]

Parsed(text) ==
    IF turn.model = "plain" THEN [parser |-> agent.parser, out |-> Segment("content", text)]
    ELSE Feed(agent.parser.buf \o text, agent.parser.inside)

\* flush()
Flush == Segment(Kind(agent.parser.inside), agent.parser.buf)

-----------------------------------------------------------------------------
(* The serializers.                                                        *)

Frame(kind, index, what, data) == [kind |-> kind, index |-> index, what |-> what, data |-> data]
Send(c, frames) == [c EXCEPT !.sent = @ \o frames]

\* openai_sse.py.  "notice" stands for the events that are passed on as they are; one that says
\* nothing of a call that is opened already is not sent.
OpenAI(c, e) ==
    CASE e.kind = "call" /\ e.id # << >> /\ e.id \notin c.opened ->
             [Send(c, << Frame("open", e.index, e.id, e.data) >>) EXCEPT !.opened = @ \cup {e.id}]
      [] e.kind = "call" /\ (e.id = << >> \/ e.id \in c.opened) ->
             Send(c, IF e.data = << >> THEN << >> ELSE << Frame("arguments", e.index, << >>, e.data) >>)
      [] e.kind = "complete" ->
             Send(c, << Frame("finish", 0, << >>, << >>), Frame("usage", 0, << >>, << >>) >>)
      [] OTHER -> Send(c, << Frame(e.kind, 0, e.id, e.data) >>)

\* anthropic_messages.py: `block' is the text or thinking block that is open, `tools' the blocks
\* of calls, by the index of the call in its round.
Start(c, type, id) == Send([c EXCEPT !.next = @ + 1], << Frame("start", c.next, << type >> \o id, << >>) >>)
Delta(c, index, type, data) == Send(c, << Frame("delta", index, << type >>, data) >>)

Closed(c) ==
    IF c.block = "none" THEN c
    ELSE [Send(c, << Frame("stop", c.at, << >>, << >>) >>) EXCEPT !.block = "none"]

\* The close of all blocks, in the order of their calls.
AllClosed(c) ==
    LET d == Closed(c) IN
    [Send(d, [i \in 1..Len(d.tools) |-> Frame("stop", d.tools[i].block, << >>, << >>)]) EXCEPT !.tools = << >>]

Stopped(c) == Send(c, << Frame("message_delta", 0, << >>, << >>), Frame("message_stop", 0, << >>, << >>) >>)

BlockOf(c, index) == {c.tools[i].block : i \in {j \in DOMAIN c.tools : c.tools[j].index = index}}
Arguments(c, block, data) == IF data = << >> THEN c ELSE Delta(c, block, "tool_use", data)

Anthropic(c, e) ==
    CASE e.kind \in {"reasoning", "content"} ->
             LET d == IF c.block = e.kind THEN c
                      ELSE [Start(Closed(c), e.kind, << >>) EXCEPT !.block = e.kind, !.at = c.next]
             IN Delta(d, d.at, e.kind, e.data)
      [] e.kind = "call" /\ BlockOf(c, e.index) = {} /\ e.id # << >> ->
             LET d == Start(Closed(c), "tool_use", e.id)
             IN Arguments([d EXCEPT !.tools = Append(@, [index |-> e.index, block |-> c.next])], c.next, e.data)
      [] e.kind = "call" /\ BlockOf(c, e.index) # {} -> Arguments(c, Min(BlockOf(c, e.index)), e.data)
      [] e.kind = "complete" -> Stopped(AllClosed(c))
      [] OTHER -> c

Serialize(c, e) == IF turn.wire = "openai" THEN OpenAI(c, e) ELSE Anthropic(c, e)
Hears(events) == client' = FoldLeft(Serialize, client, events)

\* The generator is exhausted, or has failed before it was.
Finished(c, failed) ==
    IF turn.wire = "openai"
    THEN Send(c, (IF failed THEN << Frame("error", 0, << >>, << >>) >> ELSE << >>) \o << Frame("done", 0, << >>, << >>) >>)
    ELSE IF ~failed THEN c
    ELSE LET d == AllClosed(c) e == Start(d, "content", << >>) IN
         Stopped(Send(Delta(e, d.next, "content", << "error" >>), << Frame("stop", d.next, << >>, << >>) >>))

-----------------------------------------------------------------------------
Init ==
    /\ turn \in Turns        \* [model, wire, pieces, deltas]
    /\ agent = [at |-> "streaming", round |-> 1, parser |-> Reset, parts |-> << >>,
                tools |-> << >>, messages |-> << >>]
    /\ client = [sent |-> IF turn.wire = "openai" THEN << Frame("role", 0, << >>, << >>) >>
                          ELSE << Frame("message_start", 0, << >>, << >>), Frame("ping", 0, << >>, << >>) >>,
                 opened |-> {}, block |-> "none", at |-> -1, next |-> 0, tools |-> << >>]
    /\ heard = [texts |-> << << >> >>, calls |-> << >>, chunks |-> 0]

Streaming == agent.at = "streaming"
Contents(events) == FlattenSeq([i \in 1..Len(events) |-> IF events[i].kind = "content" THEN events[i].data ELSE << >>])
Counted(text) == heard' = [heard EXCEPT !.texts[agent.round] = @ \o text, !.chunks = @ + 1]

-----------------------------------------------------------------------------
(* Chunks.                                                                 *)

\* delta.reasoning_content
Native == << "thought" >>
Reasoning ==
    /\ Streaming /\ heard.chunks < MaxChunks
    /\ Hears(<< Event("reasoning", Native) >>)
    /\ Counted(<< >>)
    /\ UNCHANGED << turn, agent >>

\* delta.content
Content(text) ==
    /\ Streaming /\ heard.chunks < MaxChunks
    /\ LET parsed == Parsed(text) IN
       /\ agent' = [agent EXCEPT !.parser = parsed.parser, !.parts = @ \o Contents(parsed.out)]
       /\ Hears(parsed.out)
    /\ Counted(text)
    /\ UNCHANGED turn

Known(index) == \E i \in DOMAIN agent.tools : agent.tools[i].index = index
Position(index) == CHOOSE i \in DOMAIN agent.tools : agent.tools[i].index = index

\* delta.tool_calls: the first of an index opens the call, with an id of its own when the
\* provider gives none.  The id and the name are those that come first.
GivenId(d) ==
    CASE d.id = "none"  -> << "synthetic", agent.round, d.index >>
      [] d.id = "fresh" -> << agent.round, d.index >>
      [] d.id = "same"  -> << d.index >>       \* a provider that counts from 0 in each round

ToolChunk(d) ==
    /\ Streaming /\ heard.chunks < MaxChunks
    /\ LET data == IF d.data THEN << heard.chunks >> ELSE << >>
           event == [Event("call", data) EXCEPT !.index = d.index]
       IN IF Known(d.index)
          THEN /\ agent' = [agent EXCEPT !.tools[Position(d.index)] =
                               [@ EXCEPT !.named = @ \/ d.named, !.data = @ \o data]]
               /\ Hears(<< event >>)
          ELSE /\ agent' = [agent EXCEPT !.tools = Append(@, [index |-> d.index, id |-> GivenId(d),
                                                             named |-> d.named, data |-> data])]
               /\ Hears(<< [event EXCEPT !.id = GivenId(d)] >>)
    /\ Counted(<< >>)
    /\ UNCHANGED turn

\* An event with nothing to the point: usage, or no choices.
Empty ==
    /\ Streaming /\ heard.chunks < MaxChunks
    /\ Counted(<< >>)
    /\ UNCHANGED << turn, agent, client >>

-----------------------------------------------------------------------------
(* The end of a round.                                                     *)

Fail ==
    /\ agent' = [agent EXCEPT !.at = "failed"]
    /\ client' = Finished(client, TRUE)
    /\ UNCHANGED << turn, heard >>

\* The stream of the model breaks off, or is empty in the first round: `chunk' is read after
\* the loop over chunks.
StreamFails == Streaming /\ Fail
EmptyStream == Streaming /\ heard.chunks = 0

Message(content, calls) == [content |-> content, calls |-> calls]
Over(agentNow, events) ==
    /\ agent' = [agentNow EXCEPT !.at = "over"]
    /\ client' = Finished(FoldLeft(Serialize, client, events), FALSE)
    /\ UNCHANGED << turn, heard >>

Parts == agent.parts \o Contents(Flush)
Flushed == IF Flush = << >> THEN agent.parser ELSE [buf |-> << >>, inside |-> FALSE]

\* A limit of the turn is exceeded: what was said in this round is not put into the history.
LimitReached ==
    /\ Streaming /\ ~EmptyStream
    /\ Over([agent EXCEPT !.parser = Flushed, !.parts = Parts], Flush \o << Event("notice", << >>), Event("complete", << >>) >>)

\* The answer.
Answer ==
    /\ Streaming /\ ~EmptyStream /\ agent.tools = << >>
    /\ Over([agent EXCEPT !.parser = Flushed, !.parts = << >>,
                          !.messages = IF Parts = << >> THEN @ ELSE Append(@, Message(Parts, << >>))],
            Flush \o << Event("complete", << >>) >>)

\* Calls, in the order of their indices; one without a name is left out.
Assembled == SortSeq(SelectSeq(agent.tools, LAMBDA c : c.named), LAMBDA a, b : a.index < b.index)
Results(calls) == [i \in 1..Len(calls) |-> [Event("result", << >>) EXCEPT !.id = calls[i].id]]

\* They are run, and the model is called again.
CallTools ==
    /\ Streaming /\ ~EmptyStream /\ agent.tools # << >>
    /\ LET events(n) == Flush \o Results(SubSeq(Assembled, 1, n))
           next == [agent EXCEPT !.parser = Flushed, !.parts = << >>, !.tools = << >>,
                                 !.messages = Append(@, Message(Parts, Assembled))]
       IN \/ /\ agent.round < MaxRounds
             /\ agent' = [next EXCEPT !.round = @ + 1, !.parser = Reset]
             /\ Hears(events(Len(Assembled)))
             /\ heard' = [heard EXCEPT !.texts = Append(@, << >>), !.calls = @ \o agent.tools]
             /\ UNCHANGED turn
          \* The rounds are used up, or a call asks a question or is stopped as a loop.
          \/ \E n \in 0..Len(Assembled) :
                /\ n > 0 \/ (agent.round = MaxRounds /\ Assembled = << >>)
                /\ Over([next EXCEPT !.tools = agent.tools], events(n) \o << Event("complete", << >>) >>)

-----------------------------------------------------------------------------
Next ==
    \/ \E text \in turn.pieces : Content(text)
    \/ \E d \in turn.deltas : ToolChunk(d)
    \/ Reasoning \/ Empty \/ StreamFails \/ LimitReached \/ Answer \/ CallTools

Spec == Init /\ [][Next]_vars

-----------------------------------------------------------------------------
(* Properties.                                                             *)

TypeOK ==
    /\ turn \in Turns
    /\ agent.at \in {"streaming", "over", "failed"} /\ agent.round \in 1..MaxRounds
    /\ agent.parser.inside \in BOOLEAN /\ Len(agent.parser.buf) < Len(CloseTag)
    /\ client.block \in {"none", "reasoning", "content"} /\ client.at < client.next
    /\ Len(heard.texts) = agent.round /\ heard.chunks \in 0..MaxChunks

\* What a text says when all of it is there: symbols with their kind.
Told(text, inside) ==
    LET told[from \in 1..Len(text) + 1, within \in BOOLEAN] ==
            IF from > Len(text) THEN << >>
            ELSE IF Occurs(Tag(within), text, from) THEN told[from + Len(Tag(within)), ~within]
            ELSE << << Kind(within), text[from] >> >> \o told[from + 1, within]
    IN  told[1, inside]

As(kind, text) == [i \in 1..Len(text) |-> << kind, text[i] >>]
ToldIn(text) == IF turn.model = "plain" THEN As("content", text) ELSE Told(text, Reset.inside)

Sent == client.sent
KindOf(f) == IF f.kind = "delta" THEN f.what[1] ELSE f.kind
Shown == FlattenSeq([i \in 1..Len(Sent) |->
             IF KindOf(Sent[i]) \in {"reasoning", "content"} /\ Sent[i].data \notin {Native, << "error" >>}
             THEN As(KindOf(Sent[i]), Sent[i].data) ELSE << >>])

\* Thoughts and answers reach the client as the model said them, however its words were cut
\* into chunks, and in every round: nothing of a tag is shown, and only what may become a tag
\* is held back, until the stream of the model ends.
ThoughtsAreSeparated ==
    Shown \o As(Kind(agent.parser.inside), agent.parser.buf)
        = FlattenSeq([i \in 1..Len(heard.texts) |-> ToldIn(heard.texts[i])])

\* The history holds the text the client was shown, but for a round that a limit ended or
\* that failed.
AnswersAreKept ==
    LET kept == FlattenSeq([i \in 1..Len(agent.messages) |-> agent.messages[i].content])
    IN SelectSeq(Shown, LAMBDA s : s[1] = "content") = As("content", kept \o agent.parts)

Frames(kind) == {i \in DOMAIN Sent : Sent[i].kind = kind}
Before(i, kind, index) == {j \in Frames(kind) : j < i /\ Sent[j].index = index}

\* A block is opened once, in order, written while it is open, with what it is for, and closed
\* once, at the end at the latest; a stream ends once.
FramesAreInOrder ==
    /\ \A i \in Frames("start") : Sent[i].index = Cardinality({j \in Frames("start") : j < i})
    /\ \A i \in Frames("delta") \cup Frames("stop") :
          /\ \E j \in Before(i, "start", Sent[i].index) : Sent[i].kind = "delta" => Sent[j].what[1] = Sent[i].what[1]
          /\ Before(i, "stop", Sent[i].index) = {}
    /\ Streaming <=> Frames("done") \cup Frames("message_stop") = {}
    /\ ~Streaming => /\ Frames("done") \cup Frames("message_stop") = {Len(Sent)}
                     /\ Cardinality(Frames("start")) = Cardinality(Frames("stop"))

\* What a client puts together of the arguments of a call: by the index of the fragments, the
\* call opened last with it (OpenAI), or the block (Anthropic).
Opening(i) == Max(Before(i, IF turn.wire = "openai" THEN "open" ELSE "start", Sent[i].index))
IdOf(i) == IF turn.wire = "openai" THEN Sent[i].what ELSE Tail(Sent[i].what)
Received(id) ==
    FlattenSeq([i \in 1..Len(Sent) |->
        IF \/ Sent[i].kind = "open" /\ Sent[i].what = id
           \/ KindOf(Sent[i]) \in {"arguments", "tool_use"} /\ IdOf(Opening(i)) = id
        THEN Sent[i].data ELSE << >>])

Said == heard.calls \o agent.tools

\* Each fragment reaches the call it belongs to; in the Anthropic format only if no other
\* round has a call of the same index, in the OpenAI format if no id is used again at it.
ArgumentsArrive ==
    \A i \in DOMAIN Said :
        (\A j, k \in DOMAIN Said : j # k /\ Said[j].index = Said[i].index /\ Said[k].index = Said[i].index =>
             turn.wire = "openai" /\ Said[j].id # Said[k].id)
        => Received(Said[i].id) = Said[i].data

WordsArrive == ThoughtsAreSeparated /\ AnswersAreKept /\ FramesAreInOrder /\ ArgumentsArrive
=============================================================================
