------------------------------ MODULE WorkItems ------------------------------
(***************************************************************************)
(* The rows of the work-item pool and what each store operation makes of   *)
(* the row it has fetched.  Both persistent stores (PostgreSQL, SQLite)    *)
(* fetch a whole row, build the new item from it in memory, and write back *)
(* some of its columns; this module is the part they share.                *)
(*                                                                         *)
(* A row keeps the columns the coordination depends on, and of its         *)
(* attempt_history who opened the last entry, as long as that entry has no *)
(* outcome: completed, released, failed and expired close it alike, and no *)
(* operation looks further back.  Title, description, capabilities,        *)
(* budgets, progress and notes are carried along without being tested.     *)
(***************************************************************************)
EXTENDS Integers

CONSTANTS
    Items,      \* the item ids that may be created
    Actors,     \* who checks items out (a session id, or "anonymous")
    NoActor     \* the NULL assignee

ASSUME NoActorAssumption == NoActor \notin Actors

-----------------------------------------------------------------------------
\* WorkItemStatus, and "absent" for an id no row has yet.
Status == {"available", "checked_out", "completed", "failed", "review_pending", "blocked"}
\* The NULL lease.  SQL's "lease_expires_at < now" is never true of it.
NoLease == -1

Row == [status   : Status \cup {"absent"},
        assignee : Actors \cup {NoActor},
        lease    : Nat \cup {NoLease},
        openBy   : Actors \cup {NoActor}]

NoRow == [status |-> "absent", assignee |-> NoActor, lease |-> NoLease, openBy |-> NoActor]

\* A new item is available, or review_pending when suggest_skill files it for review.
Created(status) == [NoRow EXCEPT !.status = status]

-----------------------------------------------------------------------------
(* What the operations build from the fetched row.                         *)

\* Variant: the empty string where the code writes NULL.
EndedBlank(status) ==
    [status |-> status, assignee |-> "", lease |-> NoLease, openBy |-> NoActor]

\* The attempt ends: nobody holds the item, its lease is gone, and
\* attempt_history[-1], if there is one, gets its outcome.
Ended(status) ==
    [status |-> status, assignee |-> NoActor, lease |-> NoLease, openBy |-> NoActor]

CheckedOut(actor, deadline) ==
    [status   |-> "checked_out",
     assignee |-> actor,
     lease    |-> deadline,
     openBy   |-> actor]

Renewed(row, deadline) == [row EXCEPT !.lease = deadline]

Completed(review) == Ended(IF review THEN "review_pending" ELSE "completed")

Released == Ended("available")

Failed(retry) == Ended(IF retry THEN "available" ELSE "failed")

ExpiredRow == Ended("available")

\* accept and reject touch no column of an attempt.
Accepted(row) == [row EXCEPT !.status = "completed"]
Rejected(row) == [row EXCEPT !.status = "available"]

\* The rows expire_leases selects.
Expired(row, now) == row.status = "checked_out" /\ row.lease # NoLease /\ row.lease < now

\* The columns the UPDATE statement of an operation names: all of an attempt's,
\* lease_expires_at alone (renew_lease, update_progress), status alone (accept, reject).
Kinds == {"checkout", "end", "lease", "status"}
\* Variant: renew_lease restates the status it has fetched.
ColumnsRestated(kind, current, new) ==
    CASE kind \in {"checkout", "end"} -> new
      [] kind = "lease"  -> [current EXCEPT !.lease = new.lease, !.status = new.status]
      [] kind = "status" -> [current EXCEPT !.status = new.status]

Columns(kind, current, new) ==
    CASE kind \in {"checkout", "end"} -> new
      [] kind = "lease"  -> [current EXCEPT !.lease = new.lease]
      [] kind = "status" -> [current EXCEPT !.status = new.status]

-----------------------------------------------------------------------------
(* What a row must satisfy for the pool to work.                           *)

\* A checked-out row names its holder and has the lease by which the sweep can
\* find it again, and its last attempt is the holder's, still open.
WellHeld(row) ==
    row.status = "checked_out" =>
        /\ row.assignee # NoActor
        /\ row.lease # NoLease
        /\ row.openBy = row.assignee
=============================================================================
