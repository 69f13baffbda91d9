--------------------------- MODULE PgWorkItemStore ---------------------------
(***************************************************************************)
(* PostgresWorkItemStore, shared by the requests of all replicas, and the  *)
(* lease sweep each replica runs.  Every operation is a fetch, a rewrite   *)
(* of the fetched item in memory, and an UPDATE: two statements with an    *)
(* await between them.  Only checkout runs in a transaction, under an      *)
(* advisory lock keyed by the hash of the item id; the other operations    *)
(* commit each statement by itself and take no lock.                       *)
(*                                                                         *)
(* An action is one statement, with the code that runs up to the next      *)
(* await.  An operation refused by its guard raises ValueError and changes *)
(* nothing, so only the refusal of a checkout, which gives its lock back,  *)
(* is an action.                                                           *)
(***************************************************************************)
EXTENDS WorkItems

CONSTANTS
    Workers,        \* requests and tool calls in flight, on any replica
    NoWorker,
    Sweepers,       \* one lease-expiry loop per replica
    LockKeys,       \* the values of hashtext(item_id)
    Key,            \* Key[i] is the advisory lock of item i
    Durations,      \* the lease durations callers ask for
    MaxTime         \* bound: the clock stops here

ASSUME PgAssumption ==
    /\ NoWorker \notin Workers
    /\ Key \in [Items -> LockKeys]
    /\ Durations \subseteq Nat
    /\ MaxTime \in Nat

VARIABLES
    rows,       \* the table
    lock,       \* who holds each advisory lock
    task,       \* what each worker is in the middle of
    todo,       \* per sweep loop: the expired items still to be written back
    now         \* the clock of all replicas (no skew)

vars == << rows, lock, task, todo, now >>

-----------------------------------------------------------------------------
Deadlines == { t + d : t \in 0..MaxTime, d \in Durations }

Idle == [pc |-> "idle"]
Task == {Idle}
        \cup [pc : {"locked"}, item : Items]
        \cup [pc : {"fetched"}, kind : Kinds, item : Items, new : Row]

Locked(i) == [pc |-> "locked", item |-> i]
Fetched(kind, i, new) == [pc |-> "fetched", kind |-> kind, item |-> i, new |-> new]

TypeOK ==
    /\ rows \in [Items -> Row]
    /\ lock \in [LockKeys -> Workers \cup {NoWorker}]
    /\ task \in [Workers -> Task]
    /\ todo \in [Sweepers -> SUBSET Items]
    /\ now \in 0..MaxTime

Init ==
    /\ rows = [i \in Items |-> NoRow]
    /\ lock = [k \in LockKeys |-> NoWorker]
    /\ task = [w \in Workers |-> Idle]
    /\ todo = [s \in Sweepers |-> {}]
    /\ now = 0

-----------------------------------------------------------------------------
(* create: one INSERT.                                                     *)
Create(i, status) ==
    /\ rows[i].status = "absent"
    /\ rows' = [rows EXCEPT ![i] = Created(status)]
    /\ UNCHANGED << lock, task, todo, now >>

\* Variant: the result of pg_try_advisory_xact_lock is not looked at.
TryLockIgnored(w, i) ==
    /\ task[w] = Idle
    /\ lock' = [lock EXCEPT ![Key[i]] = w]
    /\ task' = [task EXCEPT ![w] = Locked(i)]
    /\ UNCHANGED << rows, todo, now >>

(* checkout: pg_try_advisory_xact_lock, SELECT, UPDATE and COMMIT.  The    *)
(* UPDATE keeps its row lock until the COMMIT, so the two are one step.    *)
TryLock(w, i) ==
    /\ task[w] = Idle
    /\ lock[Key[i]] = NoWorker
    /\ lock' = [lock EXCEPT ![Key[i]] = w]
    /\ task' = [task EXCEPT ![w] = Locked(i)]
    /\ UNCHANGED << rows, todo, now >>

\* Variant: the status is not checked again under the lock.
CheckoutFetchUnchecked(w, a, d) ==
    /\ task[w].pc = "locked"
    /\ rows[task[w].item].status # "absent"
    /\ task' = [task EXCEPT ![w] = Fetched("checkout", task[w].item, CheckedOut(a, now + d))]
    /\ UNCHANGED << rows, lock, todo, now >>

CheckoutFetch(w, a, d) ==
    /\ task[w].pc = "locked"
    /\ LET i == task[w].item IN
        /\ rows[i].status = "available"
        /\ task' = [task EXCEPT ![w] = Fetched("checkout", i, CheckedOut(a, now + d))]
    /\ UNCHANGED << rows, lock, todo, now >>

\* Variant: a session-level lock, which the end of the transaction does not release.
CheckoutRefusedLocked(w) ==
    /\ task[w].pc = "locked"
    /\ rows[task[w].item].status # "available"
    /\ task' = [task EXCEPT ![w] = Idle]
    /\ UNCHANGED << rows, lock, todo, now >>

\* Not found, or not available: the transaction rolls back and the lock goes.
CheckoutRefused(w) ==
    /\ task[w].pc = "locked"
    /\ rows[task[w].item].status # "available"
    /\ lock' = [lock EXCEPT ![Key[task[w].item]] = NoWorker]
    /\ task' = [task EXCEPT ![w] = Idle]
    /\ UNCHANGED << rows, todo, now >>

CheckoutCommit(w) ==
    /\ task[w].pc = "fetched"
    /\ task[w].kind = "checkout"
    /\ rows' = [rows EXCEPT ![task[w].item] = Columns("checkout", @, task[w].new)]
    /\ lock' = [lock EXCEPT ![Key[task[w].item]] = NoWorker]
    /\ task' = [task EXCEPT ![w] = Idle]
    /\ UNCHANGED << todo, now >>

-----------------------------------------------------------------------------
(* The operations that take no lock: the fetch and the in-memory update.   *)
Fetch(w, kind, i, new) ==
    /\ task[w] = Idle
    /\ task' = [task EXCEPT ![w] = Fetched(kind, i, new)]
    /\ UNCHANGED << rows, lock, todo, now >>

RenewLease(w, i, a, d) ==
    /\ rows[i].status = "checked_out"
    /\ rows[i].assignee = a
    /\ Fetch(w, "lease", i, Renewed(rows[i], now + d))

\* Progress is taken from anybody, and renews the lease of whoever holds the item.
UpdateProgress(w, i, d) ==
    /\ rows[i].status = "checked_out"
    /\ Fetch(w, "lease", i, Renewed(rows[i], now + d))

Complete(w, i, review) ==
    /\ rows[i].status = "checked_out"
    /\ Fetch(w, "end", i, Completed(review))

Release(w, i) ==
    /\ rows[i].status = "checked_out"
    /\ Fetch(w, "end", i, Released)

\* fail takes the item in whatever state it is (DELETE uses it to cancel).
Fail(w, i, retry) ==
    /\ rows[i].status # "absent"
    /\ Fetch(w, "end", i, Failed(retry))

Accept(w, i) ==
    /\ rows[i].status = "review_pending"
    /\ Fetch(w, "status", i, Accepted(rows[i]))

Reject(w, i) ==
    /\ rows[i].status = "review_pending"
    /\ Fetch(w, "status", i, Rejected(rows[i]))

(* Their UPDATE, committed by itself, whatever became of the row meanwhile. *)
Update(w) ==
    /\ task[w].pc = "fetched"
    /\ task[w].kind # "checkout"
    /\ rows' = [rows EXCEPT ![task[w].item] = Columns(task[w].kind, @, task[w].new)]
    /\ task' = [task EXCEPT ![w] = Idle]
    /\ UNCHANGED << lock, todo, now >>

\* The request dies (its replica or its connection does): PostgreSQL rolls the
\* transaction back and drops the advisory lock with it.
Crash(w) ==
    /\ task[w] # Idle
    /\ lock' = [k \in LockKeys |-> IF lock[k] = w THEN NoWorker ELSE lock[k]]
    /\ task' = [task EXCEPT ![w] = Idle]
    /\ UNCHANGED << rows, todo, now >>

-----------------------------------------------------------------------------
(* expire_leases: one SELECT, then one UPDATE per row it returned.         *)
SweepSelect(s) ==
    LET expired == { i \in Items : Expired(rows[i], now) } IN
    /\ todo[s] = {}
    /\ expired # {}
    /\ todo' = [todo EXCEPT ![s] = expired]
    /\ UNCHANGED << rows, lock, task, now >>

\* Variant: only the attempt is written back.
SweepUpdateAttempt(s) ==
    \E i \in todo[s] :
        /\ rows' = [rows EXCEPT ![i].openBy = NoActor]
        /\ todo' = [todo EXCEPT ![s] = @ \ {i}]
        /\ UNCHANGED << lock, task, now >>

SweepUpdate(s) ==
    \E i \in todo[s] :
        /\ rows' = [rows EXCEPT ![i] = ExpiredRow]
        /\ todo' = [todo EXCEPT ![s] = @ \ {i}]
        /\ UNCHANGED << lock, task, now >>

\* _run_lease_expiry survives an error, and a replica restarts: the rest of the
\* list is forgotten and the next sweep starts over.
SweepCrash(s) ==
    /\ todo[s] # {}
    /\ todo' = [todo EXCEPT ![s] = {}]
    /\ UNCHANGED << rows, lock, task, now >>

Tick ==
    /\ now < MaxTime
    /\ now' = now + 1
    /\ UNCHANGED << rows, lock, task, todo >>

-----------------------------------------------------------------------------
CheckoutStep(w) ==
    \/ \E i \in Items : TryLock(w, i)
    \/ \E a \in Actors, d \in Durations : CheckoutFetch(w, a, d)
    \/ CheckoutRefused(w)
    \/ CheckoutCommit(w)

FetchStep(w) ==
    \E i \in Items :
        \/ \E a \in Actors, d \in Durations : RenewLease(w, i, a, d)
        \/ \E d \in Durations : UpdateProgress(w, i, d)
        \/ \E b \in BOOLEAN : Complete(w, i, b)
        \/ Release(w, i)
        \/ \E b \in BOOLEAN : Fail(w, i, b)
        \/ Accept(w, i)
        \/ Reject(w, i)

WorkerStep(w) == CheckoutStep(w) \/ FetchStep(w) \/ Update(w) \/ Crash(w)

SweepStep(s) == SweepSelect(s) \/ SweepUpdate(s) \/ SweepCrash(s)

Next ==
    \/ \E i \in Items, status \in {"available", "review_pending"} : Create(i, status)
    \/ \E w \in Workers : WorkerStep(w)
    \/ \E s \in Sweepers : SweepStep(s)
    \/ Tick

Spec == Init /\ [][Next]_vars

\* The sweep loop sleeps a fixed interval and survives its exceptions, so it keeps
\* sweeping; some of its writes may fail, not all of them forever.  Nothing is assumed
\* of the agents.
Fairness == \A s \in Sweepers : WF_vars(SweepSelect(s)) /\ SF_vars(SweepUpdate(s))
FairSpec == Spec /\ Fairness

-----------------------------------------------------------------------------
(* Properties.                                                             *)

\* Every checked-out row can be found by the sweep and names, in its last attempt,
\* the actor who holds it, although accept, reject and the renewals write single
\* columns computed from a row that may have changed since.
HeldRowsWellFormed == \A i \in Items : WellHeld(rows[i])

\* From the moment a checkout has seen the item available until it commits, nobody
\* else's write makes the item checked out: what the advisory lock is for.
PendingCheckoutIsFree ==
    \A w \in Workers :
        (task[w].pc = "fetched" /\ task[w].kind = "checkout") =>
            rows[task[w].item].status \notin {"checked_out", "absent"}

\* An advisory lock is held by the checkout that took it and by nothing else, so no
\* item is locked out of the pool by an operation that ended or died.
HoldsLock(w, k) ==
    \/ task[w].pc = "locked" /\ Key[task[w].item] = k
    \/ task[w].pc = "fetched" /\ task[w].kind = "checkout" /\ Key[task[w].item] = k

LockDiscipline ==
    \A w \in Workers, k \in LockKeys : lock[k] = w <=> HoldsLock(w, k)

\* The store implements the lease pool: no item passes from holder to holder.
Pool == INSTANCE LeasePool WITH
    holder   <- [i \in Items |->
                   IF rows[i].status = "checked_out" THEN rows[i].assignee ELSE NoActor],
    deadline <- [i \in Items |->
                   IF rows[i].status = "checked_out" THEN rows[i].lease ELSE NoLease]

ImplementsLeasePool == Pool!Spec

\* An item whose lease ran out is taken back, or its holder renews: a crashed holder
\* does not keep its item.
LeasesAreReclaimed ==
    \A i \in Items : Expired(rows[i], now) ~> ~Expired(rows[i], now)

\* A sweep takes back only items whose lease has run out.  The checkout tool says of
\* the item: "The lease auto-expires if not renewed."
SweepTakesOnlyExpired ==
    [][\A s \in Sweepers, i \in Items :
         (SweepUpdate(s) /\ rows[i].status = "checked_out" /\ rows'[i] # rows[i])
            => Expired(rows[i], now)]_vars
=============================================================================
