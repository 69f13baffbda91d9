---------------------------- MODULE StateRecovery ----------------------------
(***************************************************************************)
(* The reducer state of one session.  A turn starts from the session's     *)
(* checkpoint, onto which the events of later traces are replayed, reduces *)
(* its own events into the state, and leaves a trace, the history and a    *)
(* new checkpoint behind: three writes, each of which may fail, in one     *)
(* order when the reply is streamed and in another when it is not.         *)
(*                                                                         *)
(* Requests are numbered in the order of their started_at, and a number    *)
(* names a request's turn, its trace and its messages.  A state is the     *)
(* sequence of the turns reduced into it.                                  *)
(***************************************************************************)
EXTENDS Integers, Sequences, FiniteSets, Functions, SequencesExt

CONSTANTS
    MaxRequests,  \* bound: requests of a behaviour
    MaxInFlight   \* bound: requests at a time

VARIABLES
    req,         \* per request: where it is, and its local variables
    holder,      \* who has _agent_lock
    state,       \* agent._agent_state
    row,         \* the session's row
    traces,      \* the traces in the trace store
    history      \* history: what has happened that explains a loss

vars == << req, holder, state, row, traces, history >>

Requests == 1..MaxRequests
\* The empty trace id, and nobody.
None == 0

\* What is traced of a turn: nothing (not sampled), its spans only, or events too.
Tracing == {"none", "spans", "events"}
PCs == {"new", "queued", "turn", "trace", "save", "checkpoint", "done"}
Request == [pc : PCs, stream : BOOLEAN, tracing : Tracing, messages : SUBSET Requests]

Checkpoint == [state : Seq(Requests), last : Requests \cup {None}]
NoCheckpoint == [state |-> << >>, last |-> -1]
Row == [exists : BOOLEAN, messages : SUBSET Requests, checkpoint : Checkpoint \cup {NoCheckpoint}]
NoRow == [exists |-> FALSE, messages |-> {}, checkpoint |-> NoCheckpoint]

TypeOK ==
    /\ req \in [Requests -> Request]
    /\ holder \in Requests \cup {None}
    /\ state \in Seq(Requests)
    /\ row \in Row
    /\ traces \subseteq Requests
    /\ history \in [failed : BOOLEAN, overlapped : BOOLEAN]

Init ==
    /\ req = [r \in Requests |-> [pc |-> "new", stream |-> FALSE, tracing |-> "none", messages |-> {}]]
    /\ holder = None
    /\ state = << >>
    /\ row = NoRow
    /\ traces = {}
    /\ history = [failed |-> FALSE, overlapped |-> FALSE]

At(r, pc) == req[r].pc = pc
Goto(r, pc) == req' = [req EXCEPT ![r].pc = pc, ![r].messages = IF pc = "done" THEN {} ELSE @]
InFlight(r) == req[r].pc \notin {"new", "done"}
Release == holder' = None
Failed == history' = [history EXCEPT !.failed = TRUE]
Mark(failed) == history' = [history EXCEPT !.failed = @ \/ failed]

-----------------------------------------------------------------------------
(* Before the turn.                                                        *)

\* The history is loaded and the collector begins the request.
Arrive(r, stream, tracing) ==
    /\ At(r, "new")
    /\ \A q \in 1..(r - 1) : ~At(q, "new")
    /\ Cardinality({q \in Requests : InFlight(q)}) < MaxInFlight
    /\ req' = [req EXCEPT ![r] = [pc |-> "queued", stream |-> stream, tracing |-> tracing,
                                  messages |-> row.messages]]
    /\ history' = [history EXCEPT !.overlapped = @ \/ \E q \in Requests : InFlight(q)]
    /\ UNCHANGED << holder, state, row, traces >>

\* list_traces_for_session: the traces started after the given one; all of them when no
\* trace is given, and none when the given one is not in the store.
After(last) ==
    {t \in traces : last = None \/ (last \in traces /\ t > last)}

\* reconstruct_events takes the body of an event for a dict; the collector has stored a
\* string.  A trace that kept an event the state could be rebuilt from cannot be replayed.
Unreplayable(t) == req[t].tracing = "events"

Recoverable == \A t \in After(row.checkpoint.last) : ~Unreplayable(t)

\* Variant: the state of the request before is kept.
RecoverKept(r) ==
    /\ At(r, "queued")
    /\ holder = None
    /\ holder' = r
    /\ Goto(r, "turn")
    /\ UNCHANGED << state, row, traces, history >>

\* The lock is taken; without a checkpoint the state is a fresh one.
Recover(r) ==
    /\ At(r, "queued")
    /\ holder = None
    /\ row.checkpoint # NoCheckpoint => Recoverable
    /\ holder' = r
    /\ state' = row.checkpoint.state
    /\ Goto(r, "turn")
    /\ UNCHANGED << row, traces, history >>

\* TypeError: the request fails before its turn, and so will the next.
RecoverRaises(r) ==
    /\ At(r, "queued")
    /\ holder = None
    /\ row.checkpoint # NoCheckpoint
    /\ ~Recoverable
    /\ Goto(r, "done")
    /\ UNCHANGED << holder, state, row, traces, history >>

-----------------------------------------------------------------------------
(* The turn.                                                               *)
AfterTurn(r) == IF req[r].stream THEN "trace" ELSE "checkpoint"

EndTurn(r) ==
    /\ At(r, "turn")
    /\ state' = Append(state, r)
    /\ Goto(r, AfterTurn(r))
    /\ UNCHANGED << holder, row, traces, history >>

\* A stream that fails goes on like one that has ended, with what was reduced; a sync
\* request ends, and so does a stream whose client has gone.
FailStream(r) ==
    /\ At(r, "turn")
    /\ req[r].stream
    /\ state' \in {state, Append(state, r)}
    /\ Goto(r, "trace")
    /\ Failed
    /\ UNCHANGED << holder, row, traces >>

Abandon(r) ==
    /\ holder = r
    /\ At(r, "turn") \/ req[r].stream
    /\ Release
    /\ Goto(r, "done")
    /\ Failed
    /\ UNCHANGED << state, row, traces >>

-----------------------------------------------------------------------------
(* After the turn.                                                         *)

\* A failure is logged: tracing must not break the reply.
SaveTrace(r, written) ==
    /\ At(r, "trace")
    /\ traces' = IF written /\ req[r].tracing # "none" THEN traces \cup {r} ELSE traces
    /\ Mark(~written)
    /\ Goto(r, IF req[r].stream THEN "save" ELSE "done")
    /\ UNCHANGED << holder, state, row >>

SaveSession(r) ==
    /\ At(r, "save")
    /\ row' = [row EXCEPT !.exists = TRUE, !.messages = req[r].messages \cup {r}]
    /\ Goto(r, IF req[r].stream THEN "checkpoint" ELSE "trace")
    /\ UNCHANGED << holder, state, traces, history >>

\* A store that raises ends the request, before its checkpoint or its trace.
SaveRaises(r) ==
    /\ At(r, "save")
    /\ holder' = IF holder = r THEN None ELSE holder
    /\ Goto(r, "done")
    /\ Failed
    /\ UNCHANGED << state, row, traces >>

TraceId(r) == IF req[r].tracing = "none" THEN None ELSE r

\* An UPDATE, of no row as long as the session has not been saved; failures are logged.
\* It is the last thing a stream does, and a sync request's last with the lock.
WriteCheckpoint(r, written) ==
    /\ At(r, "checkpoint")
    /\ row' = IF written /\ row.exists
                THEN [row EXCEPT !.checkpoint = [state |-> state, last |-> TraceId(r)]] ELSE row
    /\ Mark(~written)
    /\ Release
    /\ Goto(r, IF req[r].stream THEN "done" ELSE "save")
    /\ UNCHANGED << state, traces >>

-----------------------------------------------------------------------------
(* The surroundings.                                                       *)

\* Housekeeping removes the oldest traces.
DropTraces ==
    /\ \E t \in traces : traces' = {u \in traces : u > t}
    /\ UNCHANGED << req, holder, state, row, history >>

DeleteSession ==
    /\ row.exists
    /\ row' = NoRow
    /\ Mark(\E r \in Requests : InFlight(r))
    /\ UNCHANGED << req, holder, state, traces >>

Restart ==
    /\ req' = [r \in Requests |-> IF InFlight(r) THEN [req[r] EXCEPT !.pc = "done", !.messages = {}] ELSE req[r]]
    /\ Release
    /\ state' = << >>
    /\ Mark(\E r \in Requests : InFlight(r))
    /\ UNCHANGED << row, traces >>

-----------------------------------------------------------------------------
Progress(r) ==
    \/ Recover(r) \/ RecoverRaises(r) \/ EndTurn(r)
    \/ SaveSession(r)
    \/ \E written \in BOOLEAN : SaveTrace(r, written) \/ WriteCheckpoint(r, written)

Next ==
    \/ \E r \in Requests :
        \/ \E stream \in BOOLEAN, tracing \in Tracing : Arrive(r, stream, tracing)
        \/ Progress(r)
        \/ FailStream(r) \/ Abandon(r) \/ SaveRaises(r)
    \/ DropTraces \/ DeleteSession \/ Restart

Spec == Init /\ [][Next]_vars

-----------------------------------------------------------------------------
(* Properties.                                                             *)
OnlyStreams == \A r \in Requests : req[r].pc # "new" => req[r].stream
AtRest == \A r \in Requests : ~InFlight(r)

\* The state and the history are written apart, by streams in this order: a checkpoint
\* holds no turn that the history does not show and none twice, whatever fails, as long
\* as requests do not overlap; if nothing has failed it holds every turn.
StateFollowsHistory ==
    OnlyStreams /\ ~history.overlapped =>
        /\ ToSet(row.checkpoint.state) \subseteq row.messages
        /\ IsInjective(row.checkpoint.state)
        /\ AtRest /\ ~history.failed => ToSet(row.checkpoint.state) = row.messages

\* "The framework checkpoints it automatically and replays from traces on recovery."
RecoveryCompletes ==
    [][\A r \in Requests : RecoverRaises(r) => history.failed \/ history.overlapped]_vars
=============================================================================
