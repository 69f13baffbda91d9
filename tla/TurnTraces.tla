----------------------------- MODULE TurnTraces -----------------------------
(***************************************************************************)
(* The record a request leaves behind: the collector that listens to the   *)
(* agent's events and builds a tree of spans (server/collector.py), and    *)
(* the table of traces it is saved to (server/tracing.py, SQLite and       *)
(* PostgreSQL).  A request that carries a trace context takes the trace id *)
(* of its caller, `Joined'; every other request has an id of its own.      *)
(***************************************************************************)
EXTENDS Integers, Sequences, FiniteSets

CONSTANTS
    Backends,       \* the stores to check, of {"sqlite", "postgres"}
    Sessions,       \* session ids
    Requests,       \* requests, numbered from 1
    Calls,          \* tool call ids
    MaxSpans,       \* bound on the spans of a request
    MaxRounds       \* bound on the rounds of its agent's loop in which the model speaks

VARIABLES
    backend,
    turn,       \* for each request, its collector and what its agent is doing
    table       \* for each trace id, its row

vars == << backend, turn, table >>

Joined == 0
Traces == {Joined} \cup Requests
None == 0

\* A span: what it times, the position of its parent, and whether it has ended; `round' is
\* the round of the agent's loop it began in.  Attributes and events are left out.
Span(name, parent, round) == [name |-> name, parent |-> parent, open |-> TRUE, round |-> round]

\* Of a collector, `pending' are the calls it waits for, and of its agent, `said' are the
\* calls of the message at hand.  `skipped' are the spans of calls that were not executed.
Collector(session, trace, stream) ==
    [at |-> "queued", session |-> session, trace |-> trace, stream |-> stream,
     spans |-> << Span("request", None, 1) >>, step |-> None, model |-> None,
     pending |-> {}, fresh |-> FALSE, said |-> {}, skipped |-> {}, rounds |-> 1, failed |-> FALSE]
Absent == [at |-> "absent"]
NoRow == [kind |-> "none"]

\* Requests begin in the order of their numbers, which stand for their started_at.  Of the
\* spans in a row, those that have not ended.
Row(c, r) ==
    [kind |-> "row", session |-> c.session, started |-> r, failed |-> c.failed,
     spans |-> {i \in DOMAIN c.spans : c.spans[i].open}, summary |-> c.session, from |-> r]

\* What is known of a request whose collector is gone.
Gone(c) == [at |-> "gone", session |-> c.session, trace |-> c.trace]

Init ==
    /\ backend \in Backends
    /\ turn = [r \in Requests |-> Absent]
    /\ table = [t \in Traces |-> NoRow]

-----------------------------------------------------------------------------
(* The spans of a collector.                                               *)

\* A step begins with its model call.
BeginStep(c) ==
    LET step == Len(c.spans) + 1 IN
    [c EXCEPT !.spans = @ \o << Span("step", 1, c.rounds), Span("model", step, c.rounds) >>,
              !.step = step, !.model = step + 1, !.fresh = FALSE]

Ending(c, spans) ==
    [c EXCEPT !.spans = [i \in DOMAIN @ |-> IF i \in spans THEN [@[i] EXCEPT !.open = FALSE] ELSE @[i]]]

EndStep(c) ==
    [Ending(c, {c.step, c.model} \ {None}) EXCEPT !.step = None, !.model = None]

\* The first output after the tools of a step belongs to the next step.
Heard(c) == IF c.fresh THEN BeginStep(c) ELSE c

Positions(c, calls) == {p.span : p \in {q \in c.pending : q.call \in calls}}

ToolCallDelta(c, call) ==
    LET d == Heard(c) IN
    IF Positions(d, {call}) # {}
    THEN d
    ELSE [d EXCEPT !.spans = Append(@, Span("tool", d.step, c.rounds)),
                   !.pending = @ \cup {[call |-> call, span |-> Len(d.spans) + 1]}]

\* (A variant, used by no specification: the first result ends the step.)
FirstResult(c, call) ==
    LET d == [Ending(c, Positions(c, {call})) EXCEPT !.pending = {p \in @ : p.call # call}]
    IN [EndStep(d) EXCEPT !.fresh = TRUE]

ToolResult(c, call) ==
    LET d == [Ending(c, Positions(c, {call})) EXCEPT !.pending = {p \in @ : p.call # call}]
    IN IF d.pending = {} THEN [EndStep(d) EXCEPT !.fresh = TRUE] ELSE d

\* Calls that were never answered end with the step.
StreamComplete(c) ==
    EndStep([Ending(c, Positions(c, Calls)) EXCEPT !.pending = {}, !.fresh = FALSE])

-----------------------------------------------------------------------------
(* Requests.                                                               *)

Room(r) == Len(turn[r].spans) + 3 <= MaxSpans /\ turn[r].rounds <= MaxRounds

\* The root span is opened when the request arrives, before the agent is free.
Begin(r, session, joins, stream) ==
    /\ turn[r] = Absent
    /\ \A q \in Requests : q < r => turn[q] # Absent
    /\ turn' = [turn EXCEPT ![r] =
          BeginStep(Collector(session, IF joins THEN Joined ELSE r, stream))]
    /\ UNCHANGED << backend, table >>

TakeAgent(r) ==
    /\ turn[r].at = "queued"
    /\ \A q \in Requests : turn[q].at \notin {"model", "tools", "ending"}
    /\ turn' = [turn EXCEPT ![r].at = "model"]
    /\ UNCHANGED << backend, table >>

\* A delta of the model's answer, or of its reasoning; it opens a step when all the calls
\* that the collector waits for have answered.
Talk(r) ==
    /\ turn[r].at = "model" /\ Room(r)
    /\ turn' = [turn EXCEPT ![r] = Heard(@)]
    /\ UNCHANGED << backend, table >>

\* The first delta of a tool call.  Ids are unique within a message of the model.
CallTool(r, call) ==
    /\ turn[r].at = "model" /\ Room(r)
    /\ call \notin turn[r].said
    /\ turn' = [turn EXCEPT ![r] = [ToolCallDelta(turn[r], call) EXCEPT !.said = @ \cup {call}]]
    /\ UNCHANGED << backend, table >>

\* When no call is left to execute, the model is asked again.
GoOn(c) ==
    IF c.said = {} THEN [c EXCEPT !.at = "model", !.rounds = @ + 1] ELSE [c EXCEPT !.at = "tools"]

\* A call that never got a name is skipped: no result of it is told to the collector, which
\* goes on waiting for it.
Execute(c, named) ==
    GoOn([c EXCEPT !.said = named, !.skipped = @ \cup Positions(c, c.said \ named)])

\* The answer of the model is complete.  Of its calls, those that have a name are executed, ...
RunTools(r) ==
    /\ turn[r].at = "model" /\ turn[r].said # {}
    /\ \E named \in SUBSET turn[r].said : turn' = [turn EXCEPT ![r] = Execute(turn[r], named)]
    /\ UNCHANGED << backend, table >>

\* ... one after the other.
Answer(r, call) ==
    /\ turn[r].at = "tools" /\ call \in turn[r].said
    /\ turn' = [turn EXCEPT ![r] = GoOn([ToolResult(turn[r], call) EXCEPT !.said = @ \ {call}])]
    /\ UNCHANGED << backend, table >>

\* The agent ends its stream: the model called no tool, or a call waits for the operator.
Complete(r) ==
    /\ \/ turn[r].at = "model" /\ turn[r].said = {}
       \/ turn[r].at = "tools"
    /\ turn' = [turn EXCEPT ![r] =
          [StreamComplete(@) EXCEPT !.at = IF turn[r].stream THEN "ending" ELSE "collected"]]
    /\ UNCHANGED << backend, table >>

\* The agent raises.  A stream goes on to end its trace; the exception of a request
\* without a stream leaves before the trace is ended.
Raise(r) ==
    /\ turn[r].at \in {"model", "tools"}
    /\ turn' = [turn EXCEPT ![r] =
          IF turn[r].stream THEN [@ EXCEPT !.at = "ending", !.failed = TRUE] ELSE Gone(@)]
    /\ UNCHANGED << backend, table >>

\* The caller of a stream goes away: the generator is closed where it stands.
Disconnect(r) ==
    /\ turn[r].at \in {"queued", "model", "tools", "ending"}
    /\ turn[r].stream
    /\ turn' = [turn EXCEPT ![r] = Gone(@)]
    /\ UNCHANGED << backend, table >>

\* SQLite replaces the row; PostgreSQL updates the columns named after ON CONFLICT.
Saved(old, new) ==
    IF backend = "postgres" /\ old # NoRow
    THEN [new EXCEPT !.session = old.session, !.started = old.started]
    ELSE new

\* The trace is ended with status "ok", whether or not the stream failed, and saved.
\* An error of the store is logged and forgotten.
EndRequest(r) ==
    /\ turn[r].at \in {"ending", "collected"}
    /\ LET c == Ending(turn[r], {1}) IN
       /\ turn' = [turn EXCEPT ![r] = Gone(c)]
       /\ \/ table' = [table EXCEPT ![c.trace] = Saved(@, Row(c, r))]
          \/ UNCHANGED table
    /\ UNCHANGED backend

\* Housekeeping removes the traces that began before a cutoff.
DeleteBefore(cutoff) ==
    /\ table' = [t \in Traces |->
          IF table[t] # NoRow /\ table[t].started < cutoff THEN NoRow ELSE table[t]]
    /\ UNCHANGED << backend, turn >>

Step(r) ==
    \/ \E session \in Sessions, joins, stream \in BOOLEAN : Begin(r, session, joins, stream)
    \/ TakeAgent(r) \/ Talk(r) \/ RunTools(r)
    \/ \E call \in Calls : CallTool(r, call) \/ Answer(r, call)
    \/ Complete(r) \/ Raise(r) \/ Disconnect(r) \/ EndRequest(r)

Next == \E r \in Requests : Step(r) \/ DeleteBefore(r + 1)

Spec == Init /\ [][Next]_vars

-----------------------------------------------------------------------------
TypeOK ==
    /\ backend \in Backends
    /\ \A r \in Requests : turn[r] # Absent =>
          /\ turn[r].at \in {"queued", "model", "tools", "ending", "collected", "gone"}
          /\ turn[r].session \in Sessions /\ turn[r].trace \in {Joined, r}
          /\ turn[r].at # "gone" => \A i \in DOMAIN turn[r].spans :
                /\ turn[r].spans[i].name \in {"request", "step", "model", "tool"}
                /\ turn[r].spans[i].parent \in 0 .. i - 1
    /\ \A t \in Traces : table[t] # NoRow => table[t].from \in Requests

Named(c, name) == {i \in DOMAIN c.spans : c.spans[i].name = name}

\* A step that has ended has nothing open in it, one step is open at a time, no two steps
\* begin in the same round of the agent's loop, and a call is recorded in the step of its
\* round, unless that step was never begun: an earlier round had a call that was skipped, and
\* the step that this call is recorded in goes on.
SpansNest ==
    \A r \in Requests : turn[r].at \notin {"absent", "gone"} =>
        LET c == turn[r] IN
        /\ \A i \in DOMAIN c.spans :
              LET up == c.spans[i].parent IN
              c.spans[i].open /\ up > 1 => c.spans[up].open
        /\ \A i, j \in Named(c, "step") : i # j =>
              ~ (c.spans[i].open /\ c.spans[j].open) /\ c.spans[i].round # c.spans[j].round
        /\ \A i \in Named(c, "tool") :
              LET up == c.spans[i].parent IN
              /\ up \in Named(c, "step")
              /\ \/ c.spans[up].round = c.spans[i].round
                 \/ \E j \in c.skipped : c.spans[j].parent = up /\ c.spans[j].round < c.spans[i].round

\* A stored trace of a turn that did not fail has no open span.  The columns of a row, its
\* spans and the summary that the listing shows are those of one request, but for requests
\* of one caller's trace that share a row of PostgreSQL.
RowsAreWhole ==
    \A t \in Traces : table[t] # NoRow =>
        LET row == table[t] c == turn[row.from] IN
        /\ c.trace = t
        /\ row.failed \/ row.spans = {}
        /\ backend = "sqlite" \/ t # Joined =>
              row.session = c.session /\ row.summary = c.session /\ row.started = row.from

\* Traces tell what happened.
TracesAreWhole == SpansNest /\ RowsAreWhole
=============================================================================
