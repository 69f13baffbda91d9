---------------------------- MODULE EventPipeline ----------------------------
(***************************************************************************)
(* One event source of the server and the loop that reads it: Kafka, Redis *)
(* streams, webhooks or a timer.  An event is turned into a turn of the    *)
(* agent, its session is saved, the response is emitted to the sink, and   *)
(* the source is told.  Every step may fail, a failed event is tried again *)
(* or reported, and the process may be restarted anywhere.                 *)
(*                                                                         *)
(* Events are numbered as they arrive.  What the broker keeps survives a   *)
(* restart; the consumer's position and the webhook queue do not.          *)
(***************************************************************************)
EXTENDS Integers, FiniteSets

CONSTANTS
    Sources,      \* the kinds of source to consider
    Resets,       \* auto_offset_reset: "earliest" or "latest"
    Poison,       \* events that Kafka or Redis hands over and consume() cannot make an event of
    MaxAttempts,  \* retry.max_attempts
    MaxEvents,    \* bound: events in a behaviour
    MaxRestarts   \* bound: restarts in a behaviour

VARIABLES
    source,    \* the configuration: kind and auto_offset_reset
    arrived,   \* how many events have arrived
    broker,    \* what the broker has been told
    position,  \* the last event the consumer has been given
    loop,      \* where the event loop is, with its event and attempt
    outcome,   \* history: events whose turn is saved, reported, acknowledged, answered
    turns,     \* history: how many turns an event has had
    lost,      \* history: events dropped by a restart or never offered
    restarts   \* restarts so far

vars == << source, arrived, broker, position, loop, outcome, turns, lost, restarts >>

Events == 1..MaxEvents
NotCommitted == -1

\* Only Kafka's consumer has an auto_offset_reset.
Configurations ==
    {c \in [kind : Sources, reset : Resets \cup {"none"}] : c.kind = "kafka" <=> c.reset # "none"}

TypeOK ==
    /\ source \in Configurations
    /\ arrived \in 0..MaxEvents
    /\ broker \in [committed : {NotCommitted} \cup 0..MaxEvents, pending : SUBSET Events]
    /\ position \in 0..MaxEvents
    /\ loop \in [pc : {"consume", "turn", "save", "emit", "ack", "report", "reported", "dead"},
                 event : 0..MaxEvents, attempt : 0..(MaxAttempts - 1)]
    /\ outcome \in [saved : SUBSET Events, reported : SUBSET Events,
                    acked : SUBSET Events, answered : SUBSET Events]
    /\ turns \in [Events -> Nat]
    /\ lost \subseteq Events
    /\ restarts \in 0..MaxRestarts

Consuming == [pc |-> "consume", event |-> 0, attempt |-> 0]

Init ==
    /\ source \in Configurations
    /\ arrived = 0
    /\ broker = [committed |-> NotCommitted, pending |-> {}]
    /\ position = 0
    /\ loop = Consuming
    /\ outcome = [saved |-> {}, reported |-> {}, acked |-> {}, answered |-> {}]
    /\ turns = [e \in Events |-> 0]
    /\ lost = {}
    /\ restarts = 0

At(pc) == loop.pc = pc
Goto(pc) == loop' = [loop EXCEPT !.pc = pc]
Stored == source.kind \in {"kafka", "redis"}
Note(what) == outcome' = [outcome EXCEPT ![what] = @ \cup {loop.event}]

-----------------------------------------------------------------------------
(* Events.                                                                 *)
Arrives ==
    /\ arrived < MaxEvents
    /\ arrived' = arrived + 1
    /\ UNCHANGED << source, broker, position, loop, outcome, turns, lost, restarts >>

\* Somebody adds a record to the topic or the stream.
Produce == Stored /\ Arrives

\* A webhook whose signature is right is queued and answered 202.
AcceptWebhook == source.kind = "webhook" /\ Arrives

\* A time of the schedule comes.  Those that pass while the loop is busy make no event.
TimerFires == source.kind = "cron" /\ At("consume") /\ position = arrived /\ Arrives

Arrive == Produce \/ AcceptWebhook \/ TimerFires

\* JSON that is not an object, or of Kafka a record without a value or a key that is not UTF-8.
Unreadable == Stored /\ position + 1 \in Poison

\* consume() is given the next event, which it yields to the loop,
Given(pc) ==
    /\ At("consume")
    /\ position < arrived
    /\ position' = position + 1
    /\ loop' = [pc |-> pc, event |-> position + 1, attempt |-> 0]
    /\ UNCHANGED << source, arrived, outcome, turns, lost, restarts >>

\* or raises: nobody starts the loop again.
Read == Given(IF Unreadable THEN "dead" ELSE "turn")

\* After a restart a record that was not committed is read again.
TakeRecord == source.kind = "kafka" /\ Read /\ UNCHANGED broker

\* XREADGROUP with ">": new entries only, which are then pending for the group.
TakeEntry ==
    /\ source.kind = "redis"
    /\ Read
    /\ broker' = [broker EXCEPT !.pending = @ \cup {position + 1}]

TakeQueued == ~Stored /\ Read /\ UNCHANGED broker

Take == TakeRecord \/ TakeEntry \/ TakeQueued

\* The generator raises too when the broker cannot be reached.
ConsumeFails ==
    /\ At("consume")
    /\ Stored
    /\ Goto("dead")
    /\ UNCHANGED << source, arrived, broker, position, outcome, turns, lost, restarts >>

-----------------------------------------------------------------------------
(* An event.                                                               *)
\* _process_event: the session is loaded and the turn runs, under the agent lock.
Turn ==
    /\ At("turn")
    /\ turns' = [turns EXCEPT ![loop.event] = @ + 1]
    /\ Goto("save")
    /\ UNCHANGED << source, arrived, broker, position, outcome, lost, restarts >>

SaveTurn ==
    /\ At("save")
    /\ Note("saved")
    /\ Goto("emit")
    /\ UNCHANGED << source, arrived, broker, position, turns, lost, restarts >>

\* Sinks log what they cannot deliver, and raise nothing.
Emit(delivered) ==
    /\ At("emit")
    /\ IF delivered THEN Note("answered") ELSE UNCHANGED outcome
    /\ Goto("ack")
    /\ UNCHANGED << source, arrived, broker, position, turns, lost, restarts >>

\* commit() commits the consumer's position,
Committed == [broker EXCEPT !.committed = position]

\* and XACK one entry.
Acked == [broker EXCEPT !.pending = @ \ {loop.event}]

\* What the broker is told.
Told ==
    CASE source.kind = "kafka" -> Committed
      [] source.kind = "redis" -> Acked
      [] OTHER -> broker

Acknowledge ==
    /\ At("ack") \/ At("reported")
    /\ broker' = Told
    /\ Note("acked")
    /\ loop' = Consuming
    /\ UNCHANGED << source, arrived, position, turns, lost, restarts >>

-----------------------------------------------------------------------------
(* Failures.                                                               *)
\* The steps that may raise: the sinks do not, nor do acknowledgements that do nothing.
Raises == At("turn") \/ At("save") \/ (At("ack") /\ Stored)

\* What raised may have been done: the turn has run its tools, the broker has been told.
MayBeDone ==
    /\ turns' = IF At("turn") THEN [turns EXCEPT ![loop.event] = @ + 1] ELSE turns
    /\ broker' \in IF At("ack") THEN {broker, Told} ELSE {broker}

\* A retriable error: everything is done again, after a pause.
Retry ==
    /\ Raises
    /\ loop.attempt + 1 < MaxAttempts
    /\ loop' = [loop EXCEPT !.pc = "turn", !.attempt = @ + 1]
    /\ MayBeDone
    /\ UNCHANGED << source, arrived, position, outcome, lost, restarts >>

\* Variant: a failed event is acknowledged without a word.
GiveUpSilently ==
    /\ Raises
    /\ Goto("reported")
    /\ MayBeDone
    /\ UNCHANGED << source, arrived, position, outcome, lost, restarts >>

GiveUp ==
    /\ Raises
    /\ Goto("report")
    /\ MayBeDone
    /\ UNCHANGED << source, arrived, position, outcome, lost, restarts >>

\* Variant: nothing leaves the loop of attempts after the report, which is made again.
ReportAgain ==
    /\ At("report")
    /\ Note("reported")
    /\ UNCHANGED << source, arrived, broker, position, loop, turns, lost, restarts >>

Report ==
    /\ At("report")
    /\ Note("reported")
    /\ Goto("reported")
    /\ UNCHANGED << source, arrived, broker, position, turns, lost, restarts >>

\* An acknowledgement that raises in the except clause ends the loop.
ReportFails ==
    /\ At("reported")
    /\ Stored
    /\ broker' \in {broker, Told}
    /\ Goto("dead")
    /\ UNCHANGED << source, arrived, position, outcome, turns, lost, restarts >>

\* The consumer begins where the group's committed offset, or auto_offset_reset, says.
Resumed ==
    CASE source.kind = "kafka" /\ broker.committed # NotCommitted -> broker.committed
      [] source.kind = "kafka" /\ source.reset = "earliest" -> 0
      [] source.kind = "kafka" /\ source.reset = "latest" -> arrived
      [] source.kind = "redis" -> position
      [] OTHER -> arrived

\* Shutdown cancels the loop, which takes nothing back; so does a crash.
Restart ==
    /\ restarts < MaxRestarts
    /\ restarts' = restarts + 1
    /\ position' = Resumed
    /\ lost' = lost \cup {e \in 1..Resumed : e > position \/ (e = loop.event /\ e \notin outcome.acked)}
    /\ loop' = Consuming
    /\ UNCHANGED << source, arrived, broker, outcome, turns >>

-----------------------------------------------------------------------------
Handle == Turn \/ SaveTurn \/ (\E d \in BOOLEAN : Emit(d)) \/ Acknowledge \/ Report

Next ==
    \/ Arrive \/ Take \/ Handle
    \/ ConsumeFails \/ Retry \/ GiveUp \/ ReportFails
    \/ Restart

Spec == Init /\ [][Next]_vars

\* The loop is a task of the event loop, and every call it makes ends.
FairSpec == Spec /\ WF_vars(Take) /\ WF_vars(Handle)

-----------------------------------------------------------------------------
(* Properties.                                                             *)
Handled == outcome.saved \cup outcome.reported

\* What a source is told has been dealt with: commit() commits a position, not the event
\* it is called for, and yet covers no event whose turn is not saved or whose failure is
\* not reported, through retries and restarts; and no response goes out before its turn
\* is saved.
OutcomesAreTrue ==
    /\ outcome.acked \subseteq Handled
    /\ 1..broker.committed \subseteq Handled \cup lost
    /\ outcome.answered \subseteq outcome.saved

\* Every event is dealt with, or was dropped by a restart, unless the loop has died.
EventsAreHandled ==
    \A e \in Events : (arrived >= e) ~> (e \in Handled \cup lost \/ At("dead"))

\* "the server controls exactly-once processing semantics".
ProcessedOnce == source.kind = "kafka" => \A e \in Events : turns[e] <= 1
=============================================================================
