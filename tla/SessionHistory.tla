--------------------------- MODULE SessionHistory ---------------------------
(***************************************************************************)
(* The session routes beside the turns: a session is created, forked,      *)
(* reverted and deleted while requests load its messages and save them     *)
(* back.  Every route loads, cuts and saves in separate awaits.            *)
(*                                                                         *)
(* A request names its turn, and messages are a sequence of turns.  A turn *)
(* may end in a question, which the row then waits for.                    *)
(***************************************************************************)
EXTENDS Integers, Sequences, FiniteSets, SequencesExt

CONSTANTS
    Sessions,
    MaxRequests,   \* bound: requests of a behaviour
    MaxCalls       \* bound: calls of the session routes

VARIABLES
    turn,          \* per request: where it is, its session and the messages it has loaded
    session,       \* the sessions table
    call,          \* the fork or revert that is under way
    calls,         \* how many calls there were
    reverted,      \* history: per session, the turns that were cut off
    overlapped,    \* history: sessions of which a request was in flight during a revert
    versions       \* history: per session, the messages it has had

vars == << turn, session, call, calls, reverted, overlapped, versions >>

-----------------------------------------------------------------------------
Requests == 1..MaxRequests
Messages == Seq(Requests)
Nobody == 0

Turn == [pc : {"new", "loaded", "asked", "done"}, of : Sessions \cup {Nobody}, messages : Messages]
NewTurn == [pc |-> "new", of |-> Nobody, messages |-> << >>]

Row == [exists : BOOLEAN, messages : Messages, question : Requests \cup {Nobody},
        parent : Sessions \cup {Nobody}]
NoRow == [exists |-> FALSE, messages |-> << >>, question |-> Nobody, parent |-> Nobody]
NewRow == [NoRow EXCEPT !.exists = TRUE]

Idle == [pc |-> "idle"]
Calls == {Idle} \cup [pc : {"fork", "copy", "revert"}, of : Sessions, parent : Sessions, copy : Messages]

TypeOK ==
    /\ turn \in [Requests -> Turn]
    /\ session \in [Sessions -> Row]
    /\ call \in Calls
    /\ calls \in 0..MaxCalls
    /\ reverted \in [Sessions -> SUBSET Requests]
    /\ overlapped \subseteq Sessions
    /\ versions \in [Sessions -> SUBSET Messages]

Init ==
    /\ turn = [r \in Requests |-> NewTurn]
    /\ session = [s \in Sessions |-> NoRow]
    /\ call = Idle
    /\ calls = 0
    /\ reverted = [s \in Sessions |-> {}]
    /\ overlapped = {}
    /\ versions = [s \in Sessions |-> {}]

At(r, pc) == turn[r].pc = pc
InFlight(r) == turn[r].pc \in {"loaded", "asked"}

\* save: an upsert of the messages, which leaves every other column alone.
Written(s, messages) ==
    /\ session' = [session EXCEPT ![s].exists = TRUE, ![s].messages = messages]
    /\ versions' = [versions EXCEPT ![s] = @ \cup {messages}]

-----------------------------------------------------------------------------
(* Requests.                                                               *)
\* A session that waits for an answer takes no other request.
Load(r, s) ==
    /\ At(r, "new")
    /\ \A q \in 1..(r - 1) : ~At(q, "new")
    /\ session[s].question = Nobody
    /\ turn' = [turn EXCEPT ![r] = [pc |-> "loaded", of |-> s, messages |-> session[s].messages]]
    /\ overlapped' = IF call.pc = "revert" /\ call.of = s THEN overlapped \cup {s} ELSE overlapped
    /\ UNCHANGED << session, call, calls, reverted, versions >>

Save(r, asks) ==
    /\ At(r, "loaded")
    /\ Written(turn[r].of, Append(turn[r].messages, r))
    /\ turn' = [turn EXCEPT ![r].pc = IF asks THEN "asked" ELSE "done", ![r].messages = << >>]
    /\ UNCHANGED << call, calls, reverted, overlapped >>

PersistQuestion(r) ==
    /\ At(r, "asked")
    /\ session' = [session EXCEPT ![turn[r].of].question =
                      IF session[turn[r].of].exists THEN r ELSE @]
    /\ turn' = [turn EXCEPT ![r].pc = "done"]
    /\ UNCHANGED << call, calls, reverted, overlapped, versions >>

Fail(r) ==
    /\ InFlight(r)
    /\ turn' = [turn EXCEPT ![r].pc = "done", ![r].messages = << >>]
    /\ UNCHANGED << session, call, calls, reverted, overlapped, versions >>

-----------------------------------------------------------------------------
(* The session routes.                                                     *)
Begin == calls < MaxCalls /\ calls' = calls + 1

\* An INSERT: an id that is taken is an error.
Create(s) ==
    /\ Begin
    /\ ~session[s].exists
    /\ session' = [session EXCEPT ![s] = NewRow]
    /\ versions' = [versions EXCEPT ![s] = @ \cup {<< >>}]
    /\ UNCHANGED << turn, call, reverted, overlapped >>

\* DELETE, and housekeeping of sessions that have not been used for long.
Delete(s) ==
    /\ Begin
    /\ session[s].exists
    /\ session' = [session EXCEPT ![s] = NoRow]
    /\ reverted' = [reverted EXCEPT ![s] = {}]
    /\ UNCHANGED << turn, call, overlapped, versions >>

\* An index outside 0..Len is answered 400.
Loaded(pc, s) ==
    /\ Begin
    /\ call = Idle
    /\ session[s].exists
    /\ \E n \in 0..Len(session[s].messages) :
         call' = [pc |-> pc, of |-> s, parent |-> s, copy |-> SubSeq(session[s].messages, 1, n)]

BeginFork(s) ==
    /\ Loaded("fork", s)
    /\ UNCHANGED << turn, session, reverted, overlapped, versions >>

\* Ids of forks are generated: nobody has used them before.
Fresh(s) == versions[s] = {} /\ \A r \in Requests : turn[r].of # s

\* A new session, with its parent's id and nothing else of the parent's state; an empty
\* copy is not saved.
CreateFork(s) ==
    /\ call.pc = "fork"
    /\ Fresh(s)
    /\ session' = [session EXCEPT ![s] = [NewRow EXCEPT !.parent = call.parent]]
    /\ versions' = [versions EXCEPT ![s] = @ \cup {<< >>}]
    /\ call' = IF call.copy = << >> THEN Idle ELSE [call EXCEPT !.pc = "copy", !.of = s]
    /\ UNCHANGED << turn, calls, reverted, overlapped >>

SaveFork ==
    /\ call.pc = "copy"
    /\ Written(call.of, call.copy)
    /\ call' = Idle
    /\ UNCHANGED << turn, calls, reverted, overlapped >>

BeginRevert(s) ==
    /\ Loaded("revert", s)
    /\ overlapped' = IF \E r \in Requests : InFlight(r) /\ turn[r].of = s THEN overlapped \cup {s} ELSE overlapped
    /\ UNCHANGED << turn, session, reverted, versions >>

\* Variant: the copy is made, and not saved.
SaveRevertNot ==
    /\ call.pc = "revert"
    /\ reverted' = [reverted EXCEPT ![call.of] = (@ \cup ToSet(session[call.of].messages)) \ ToSet(call.copy)]
    /\ call' = Idle
    /\ UNCHANGED << turn, session, calls, overlapped, versions >>

SaveRevert ==
    /\ call.pc = "revert"
    /\ reverted' = [reverted EXCEPT ![call.of] = (@ \cup ToSet(session[call.of].messages)) \ ToSet(call.copy)]
    /\ Written(call.of, call.copy)
    /\ call' = Idle
    /\ UNCHANGED << turn, calls, overlapped >>

\* Nothing takes a call that was cut off up again.
Restart ==
    /\ turn' = [r \in Requests |-> IF InFlight(r) THEN [turn[r] EXCEPT !.pc = "done", !.messages = << >>]
                                   ELSE turn[r]]
    /\ call' = Idle
    /\ UNCHANGED << session, calls, reverted, overlapped, versions >>

Next ==
    \/ \E r \in Requests :
        \/ \E s \in Sessions : Load(r, s)
        \/ \E asks \in BOOLEAN : Save(r, asks)
        \/ PersistQuestion(r) \/ Fail(r)
    \/ \E s \in Sessions : Create(s) \/ Delete(s) \/ BeginFork(s) \/ CreateFork(s) \/ BeginRevert(s)
    \/ SaveFork \/ SaveRevert
    \/ Restart

Spec == Init /\ [][Next]_vars

-----------------------------------------------------------------------------
(* Properties.                                                             *)

\* A turn that was reverted does not come back, through later turns, forks and failures,
\* unless a request of the session was in flight during the revert; and what a fork
\* starts from is a history that its parent has had, or the beginning of one.
HistoriesStayCut ==
    /\ \A s \in Sessions \ overlapped : ToSet(session[s].messages) \cap reverted[s] = {}
    /\ call.pc \in {"fork", "copy"} =>
         \E old \in versions[call.parent] : IsPrefix(call.copy, old)
=============================================================================
