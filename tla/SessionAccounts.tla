--------------------------- MODULE SessionAccounts ---------------------------
(***************************************************************************)
(* What sessions and tenants have spent.  After a turn its usage is added  *)
(* to the session's cost_data, and BudgetEnforcer, which rejects requests  *)
(* over a limit, adds what the session's cost has grown by to the total of *)
(* the tenant.                                                             *)
(*                                                                         *)
(* An action is the code between two awaits, of one server process.  A     *)
(* turn costs 1 if the provider reports its usage.  There is one tenant.   *)
(***************************************************************************)
EXTENDS Integers, FiniteSets

CONSTANTS
    Sessions,
    Limits,        \* limit_usd of the budgets per session and per tenant; 0 is none
    MaxRequests,   \* bound: requests of a behaviour
    MaxInFlight,   \* bound: requests at a time
    MaxCalls       \* bound: deletions and restarts

VARIABLES
    limits,        \* the configuration
    request,       \* per request: where it is, and its local variables
    lock,          \* who has _agent_lock, or Nobody
    rows,          \* the sessions table
    enforcer,      \* BudgetEnforcer: _session_costs and the tenant's total
    calls,         \* how many deletions and restarts there were
    spent,         \* history: usage reported, per session and, since the process started, in all
    explained      \* history: what explains a loss

vars == << limits, request, lock, rows, enforcer, calls, spent, explained >>

-----------------------------------------------------------------------------
Requests == 1..MaxRequests
Nobody == 0

PCs == {"new", "queued", "turn", "save", "read", "bill", "record", "tally", "done"}
Request == [pc : PCs, session : Sessions \cup {Nobody}, stream : BOOLEAN, usage : BOOLEAN, cost : Nat]
NewRequest == [pc |-> "new", session |-> Nobody, stream |-> TRUE, usage |-> FALSE, cost |-> 0]

Row == [exists : BOOLEAN, cost : Nat]
NoRow == [exists |-> FALSE, cost |-> 0]

NewEnforcer == [seen |-> [s \in Sessions |-> 0], tenant |-> 0]

TypeOK ==
    /\ limits \in [session : Nat, tenant : Nat]
    /\ request \in [Requests -> Request]
    /\ lock \in Requests \cup {Nobody}
    /\ rows \in [Sessions -> Row]
    /\ enforcer \in [seen : [Sessions -> Nat], tenant : Nat]
    /\ calls \in 0..MaxCalls
    /\ spent \in [session : [Sessions -> Nat], tenant : Nat]
    /\ explained \in [failed : BOOLEAN, deleted : BOOLEAN, sync : BOOLEAN]

Init ==
    /\ limits \in Limits
    /\ request = [r \in Requests |-> NewRequest]
    /\ lock = Nobody
    /\ rows = [s \in Sessions |-> NoRow]
    /\ enforcer = NewEnforcer
    /\ calls = 0
    /\ spent = [session |-> [s \in Sessions |-> 0], tenant |-> 0]
    /\ explained = [failed |-> FALSE, deleted |-> FALSE, sync |-> FALSE]

At(r, pc) == request[r].pc = pc
InFlight(r) == request[r].pc \notin {"new", "done"}
RowOf(r) == rows[request[r].session]
\* What an ended request held in local variables is gone.
Done == [NewRequest EXCEPT !.pc = "done"]
Goto(r, pc) == request' = [request EXCEPT ![r] = IF pc = "done" THEN Done ELSE [@ EXCEPT !.pc = pc]]
Mark(failed) == explained' = [explained EXCEPT !.failed = @ \/ failed]
Unlock(r) == lock' = IF lock = r THEN Nobody ELSE lock

-----------------------------------------------------------------------------
(* Admission.                                                              *)
Reached(cost, limit) == limit > 0 /\ cost >= limit

\* Variant: a budget is exceeded only when more than its limit is spent.
OverBudgetBeyond(s) ==
    \/ Reached(rows[s].cost - 1, limits.session)
    \/ Reached(enforcer.tenant - 1, limits.tenant)

\* The session's cost is what the store says, the tenant's what this process has seen.
OverBudget(s) ==
    \/ Reached(rows[s].cost, limits.session)
    \/ Reached(enforcer.tenant, limits.tenant)

\* A request that is over a limit is answered 402.
Arrive(r, s, stream) ==
    /\ At(r, "new")
    /\ \A q \in 1..(r - 1) : ~At(q, "new")
    /\ Cardinality({q \in Requests : InFlight(q)}) < MaxInFlight
    /\ request' = [request EXCEPT ![r] =
                    IF OverBudget(s) THEN Done
                    ELSE [NewRequest EXCEPT !.session = s, !.stream = stream, !.pc = "queued"]]
    /\ explained' = [explained EXCEPT !.sync = @ \/ ~stream]
    /\ UNCHANGED << limits, lock, rows, enforcer, calls, spent >>

-----------------------------------------------------------------------------
(* The turn.                                                               *)
StartTurn(r) ==
    /\ At(r, "queued")
    /\ lock = Nobody
    /\ lock' = r
    /\ Goto(r, "turn")
    /\ UNCHANGED << limits, rows, enforcer, calls, spent, explained >>

\* A stream keeps the lock until its budget is recorded, a sync request gives it back here.
EndTurn(r, usage) ==
    /\ At(r, "turn")
    /\ request' = [request EXCEPT ![r].usage = usage, ![r].pc = "save"]
    /\ lock' = IF request[r].stream THEN r ELSE Nobody
    /\ spent' = IF usage
                  THEN [session |-> [spent.session EXCEPT ![request[r].session] = @ + 1], tenant |-> spent.tenant + 1]
                  ELSE spent
    /\ UNCHANGED << limits, rows, enforcer, calls, explained >>

\* The turn or the save raises, or the client of a stream goes away.
Fail(r) ==
    /\ At(r, "turn") \/ At(r, "save") \/ (request[r].stream /\ lock = r)
    /\ Goto(r, "done")
    /\ Unlock(r)
    /\ Mark(TRUE)
    /\ UNCHANGED << limits, rows, enforcer, calls, spent >>

-----------------------------------------------------------------------------
(* After the turn.                                                         *)
\* The first save of a session creates it; later ones leave its cost alone.
Save(r) ==
    /\ At(r, "save")
    /\ rows' = [rows EXCEPT ![request[r].session].exists = TRUE]
    /\ Goto(r, IF request[r].usage THEN "read" ELSE "record")
    /\ UNCHANGED << limits, lock, enforcer, calls, spent, explained >>

\* _persist_cost_data: read what there is, nothing if that fails,
ReadCost(r, read) ==
    /\ At(r, "read")
    /\ request' = [request EXCEPT ![r].cost = IF read THEN RowOf(r).cost ELSE 0, ![r].pc = "bill"]
    /\ Mark(~read)
    /\ UNCHANGED << limits, lock, rows, enforcer, calls, spent >>

\* and write what it has become; a failure is logged.
Bill(r, written) ==
    /\ At(r, "bill")
    /\ rows' = IF written /\ RowOf(r).exists
                 THEN [rows EXCEPT ![request[r].session].cost = request[r].cost + 1] ELSE rows
    /\ Goto(r, "record")
    /\ Mark(~written)
    /\ UNCHANGED << limits, lock, enforcer, calls, spent >>

\* record_after_request: the session's cost is read again,
Record(r) ==
    /\ At(r, "record")
    /\ request' = [request EXCEPT ![r].cost = RowOf(r).cost, ![r].pc = "tally"]
    /\ UNCHANGED << limits, lock, rows, enforcer, calls, spent, explained >>

\* a failure is logged,
RecordFails(r) ==
    /\ At(r, "record")
    /\ Goto(r, "done")
    /\ Unlock(r)
    /\ Mark(TRUE)
    /\ UNCHANGED << limits, rows, enforcer, calls, spent >>

\* and what it has grown by since this process last saw it counts for the tenant.
Tally(r) ==
    /\ At(r, "tally")
    /\ LET s == request[r].session
           new == request[r].cost
           old == enforcer.seen[s]
       IN  enforcer' = [seen |-> [enforcer.seen EXCEPT ![s] = new],
                        tenant |-> enforcer.tenant + (IF new > old THEN new - old ELSE 0)]
    /\ Goto(r, "done")
    /\ Unlock(r)
    /\ UNCHANGED << limits, rows, calls, spent, explained >>

-----------------------------------------------------------------------------
(* The surroundings.                                                       *)
Call == calls < MaxCalls /\ calls' = calls + 1

\* DELETE, and housekeeping when nothing has happened in the session for long.
DeleteSession(s) ==
    /\ Call
    /\ rows[s].exists
    /\ rows' = [rows EXCEPT ![s] = NoRow]
    /\ spent' = [spent EXCEPT !.session[s] = 0]
    /\ explained' = [explained EXCEPT !.deleted = TRUE]
    /\ UNCHANGED << limits, request, lock, enforcer >>

Restart ==
    /\ Call
    /\ request' = [r \in Requests |-> IF InFlight(r) THEN Done ELSE request[r]]
    /\ lock' = Nobody
    /\ enforcer' = NewEnforcer
    /\ spent' = [spent EXCEPT !.tenant = 0]
    /\ Mark(\E r \in Requests : InFlight(r))
    /\ UNCHANGED << limits, rows >>

Next ==
    \/ \E r \in Requests :
        \/ \E s \in Sessions, stream \in BOOLEAN : Arrive(r, s, stream)
        \/ StartTurn(r) \/ Fail(r)
        \/ \E usage \in BOOLEAN : EndTurn(r, usage)
        \/ Save(r) \/ Record(r) \/ RecordFails(r) \/ Tally(r)
        \/ \E read \in BOOLEAN : ReadCost(r, read)
        \/ \E written \in BOOLEAN : Bill(r, written)
    \/ \E s \in Sessions : DeleteSession(s)
    \/ Restart

Spec == Init /\ [][Next]_vars

-----------------------------------------------------------------------------
(* Properties.                                                             *)

\* The limit is checked before a request waits for the lock, against costs that are read,
\* changed and written apart, and forgotten by a restart.  Where only streams are used,
\* which are billed under the lock, and as long as no bill is lost, a session or tenant
\* overspends by no more than what was in flight together.
OverspendingIsBounded ==
    ~explained.sync /\ ~explained.failed =>
        /\ limits.session > 0 =>
             \A s \in Sessions : spent.session[s] < limits.session + MaxInFlight
        /\ limits.tenant > 0 /\ ~explained.deleted =>
             spent.tenant < limits.tenant + MaxInFlight
=============================================================================
