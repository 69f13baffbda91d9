-------------------------- MODULE SqliteWorkItemStore --------------------------
(***************************************************************************)
(* SqliteWorkItemStore, on the one aiosqlite connection that               *)
(* SqliteConnectionManager hands to every store of the server.  Each await *)
(* of a statement lets another coroutine put its own on the connection, so *)
(* a transaction belongs to nobody: any commit() commits, and any          *)
(* rollback() discards, what every coroutine has written since the last.   *)
(*                                                                         *)
(* An action is one statement on the connection.  BEGIN IMMEDIATE is       *)
(* refused inside a transaction; INSERT and UPDATE open one by themselves. *)
(* A request whose guard fails, outside checkout, changes nothing.         *)
(***************************************************************************)
EXTENDS WorkItems

CONSTANTS
    Workers,        \* coroutines using the connection
    Durations,      \* the lease durations callers ask for
    MaxTime         \* bound: the clock stops here

VARIABLES
    disk,       \* the committed rows
    mem,        \* the rows as the connection sees them
    tx,         \* whether the connection is inside a transaction
    task,       \* what each coroutine is in the middle of
    sweep,      \* what the lease-expiry loop is in the middle of
    now,
    broken      \* history: a checkout had its transaction ended by somebody else

vars == << disk, mem, tx, task, sweep, now, broken >>

-----------------------------------------------------------------------------
Idle == [pc |-> "idle"]
Begun(i) == [pc |-> "begun", item |-> i]
Fetched(kind, i, new) == [pc |-> "fetched", kind |-> kind, item |-> i, new |-> new]
Written(kind) == [pc |-> "written", kind |-> kind]
RollingBack(n) == [pc |-> "rollback", left |-> n]

\* "other" is a write of the session, trace, feedback or file store.
Task == {Idle}
        \cup [pc : {"begun"}, item : Items]
        \cup [pc : {"fetched"}, kind : Kinds, item : Items, new : Row]
        \cup [pc : {"written"}, kind : Kinds \cup {"other"}]
        \cup [pc : {"rollback"}, left : 1..2]

SweepIdle == [pc |-> "idle", todo |-> {}]
Sweeping(todo) == [pc |-> "sweep", todo |-> todo]

TypeOK ==
    /\ disk \in [Items -> Row]
    /\ mem \in [Items -> Row]
    /\ tx \in BOOLEAN
    /\ task \in [Workers -> Task]
    /\ sweep \in [pc : {"idle", "sweep"}, todo : SUBSET Items]
    /\ now \in 0..MaxTime
    /\ broken \in BOOLEAN

Init ==
    /\ disk = [i \in Items |-> NoRow]
    /\ mem = disk
    /\ tx = FALSE
    /\ task = [w \in Workers |-> Idle]
    /\ sweep = SweepIdle
    /\ now = 0
    /\ broken = FALSE

-----------------------------------------------------------------------------
(* The connection.                                                         *)

\* w is between its BEGIN IMMEDIATE and the end of the transaction it opened.
InCheckout(w) ==
    \/ task[w].pc = "begun"
    \/ task[w].pc \in {"fetched", "written"} /\ task[w].kind = "checkout"

Write(i, row) ==
    /\ mem' = [mem EXCEPT ![i] = row]
    /\ tx' = TRUE
    /\ UNCHANGED << disk, broken >>

EndTx(others) ==
    /\ tx' = FALSE
    /\ broken' = (broken \/ \E v \in others : InCheckout(v))

Commit(others) == disk' = mem /\ UNCHANGED mem /\ EndTx(others)
Rollback(others) == mem' = disk /\ UNCHANGED disk /\ EndTx(others)

Unwritten == UNCHANGED << disk, mem, tx, broken >>
Elsewhere == UNCHANGED << sweep, now >>
Goto(w, t) == task' = [task EXCEPT ![w] = t]

-----------------------------------------------------------------------------
(* create and the writes of the other stores: a statement and a commit.    *)
Create(w, i, status) ==
    /\ task[w] = Idle
    /\ mem[i].status = "absent"
    /\ Write(i, Created(status))
    /\ Goto(w, Written("other"))
    /\ Elsewhere

OtherStore(w) ==
    /\ task[w] = Idle
    /\ tx' = TRUE
    /\ Goto(w, Written("other"))
    /\ UNCHANGED << disk, mem, broken >>
    /\ Elsewhere

\* Variant: no BEGIN IMMEDIATE, so nothing to be refused.
BeginNothing(w, i) ==
    /\ task[w] = Idle
    /\ tx' = TRUE
    /\ Goto(w, Begun(i))
    /\ UNCHANGED << disk, mem, broken >>
    /\ Elsewhere

(* checkout.  A BEGIN refused inside a transaction raises before the try.  *)
Begin(w, i) ==
    /\ task[w] = Idle
    /\ ~tx
    /\ tx' = TRUE
    /\ Goto(w, Begun(i))
    /\ UNCHANGED << disk, mem, broken >>
    /\ Elsewhere

CheckoutFetch(w, a, d) ==
    /\ task[w].pc = "begun"
    /\ mem[task[w].item].status = "available"
    /\ Goto(w, Fetched("checkout", task[w].item, CheckedOut(a, now + d)))
    /\ Unwritten
    /\ Elsewhere

\* Not found or not available: rolled back where it is noticed, and once more by the
\* except clause.
CheckoutRefused(w) ==
    /\ task[w].pc = "begun"
    /\ mem[task[w].item].status # "available"
    /\ Goto(w, RollingBack(2))
    /\ Unwritten
    /\ Elsewhere

\* Any exception inside the try, such as that of a row fetched while another store has
\* changed the connection's row_factory.
CheckoutRaises(w) ==
    /\ InCheckout(w)
    /\ Goto(w, RollingBack(1))
    /\ Unwritten
    /\ Elsewhere

CheckoutRollback(w) ==
    /\ task[w].pc = "rollback"
    /\ Rollback(Workers \ {w})
    /\ Goto(w, IF task[w].left = 2 THEN RollingBack(1) ELSE Idle)
    /\ Elsewhere

-----------------------------------------------------------------------------
(* The other operations: the SELECT and the in-memory update.              *)
Fetch(w, kind, i, new) ==
    /\ task[w] = Idle
    /\ Goto(w, Fetched(kind, i, new))
    /\ Unwritten
    /\ Elsewhere

RenewLease(w, i, a, d) ==
    /\ mem[i].status = "checked_out"
    /\ mem[i].assignee = a
    /\ Fetch(w, "lease", i, Renewed(mem[i], now + d))

UpdateProgress(w, i, d) ==
    /\ mem[i].status = "checked_out"
    /\ Fetch(w, "lease", i, Renewed(mem[i], now + d))

Complete(w, i, review) ==
    /\ mem[i].status = "checked_out"
    /\ Fetch(w, "end", i, Completed(review))

Release(w, i) ==
    /\ mem[i].status = "checked_out"
    /\ Fetch(w, "end", i, Released)

Fail(w, i, retry) ==
    /\ mem[i].status # "absent"
    /\ Fetch(w, "end", i, Failed(retry))

Accept(w, i) ==
    /\ mem[i].status = "review_pending"
    /\ Fetch(w, "status", i, Accepted(mem[i]))

Reject(w, i) ==
    /\ mem[i].status = "review_pending"
    /\ Fetch(w, "status", i, Rejected(mem[i]))

\* An UPDATE of an id that a rollback has taken away again matches no row.
Update(w) ==
    /\ task[w].pc = "fetched"
    /\ LET i == task[w].item IN
        Write(i, IF mem[i] = NoRow THEN NoRow ELSE Columns(task[w].kind, mem[i], task[w].new))
    /\ Goto(w, Written(task[w].kind))
    /\ Elsewhere

CommitWork(w) ==
    /\ task[w].pc = "written"
    /\ Commit(Workers \ {w})
    /\ Goto(w, Idle)
    /\ Elsewhere

\* The client goes away and the coroutine is cancelled at an await: except Exception
\* does not see it, and what it has begun or written stays on the connection.
Cancel(w) ==
    /\ task[w] # Idle
    /\ Goto(w, Idle)
    /\ Unwritten
    /\ Elsewhere

-----------------------------------------------------------------------------
\* Variant: a sweep that found nothing returns without a commit.
SweepSelectSome ==
    /\ sweep = SweepIdle
    /\ \E i \in Items : Expired(mem[i], now)
    /\ sweep' = Sweeping({ i \in Items : Expired(mem[i], now) })
    /\ Unwritten
    /\ UNCHANGED << task, now >>

(* expire_leases, which commits even when it found nothing to expire.      *)
SweepSelect ==
    /\ sweep = SweepIdle
    /\ sweep' = Sweeping({ i \in Items : Expired(mem[i], now) })
    /\ Unwritten
    /\ UNCHANGED << task, now >>

SweepUpdate ==
    \E i \in sweep.todo :
        /\ Write(i, IF mem[i] = NoRow THEN NoRow ELSE ExpiredRow)
        /\ sweep' = Sweeping(sweep.todo \ {i})
        /\ UNCHANGED << task, now >>

\* Variant: the commit is forgotten.
SweepForgets ==
    /\ sweep = Sweeping({})
    /\ sweep' = SweepIdle
    /\ Unwritten
    /\ UNCHANGED << task, now >>

SweepCommit ==
    /\ sweep = Sweeping({})
    /\ Commit(Workers)
    /\ sweep' = SweepIdle
    /\ UNCHANGED << task, now >>

\* The loop logs the exception and sleeps; nothing is rolled back.
SweepRaises ==
    /\ sweep.pc = "sweep"
    /\ sweep' = SweepIdle
    /\ Unwritten
    /\ UNCHANGED << task, now >>

(* The process dies and starts again from the database file.               *)
Restart ==
    /\ mem' = disk
    /\ tx' = FALSE
    /\ task' = [w \in Workers |-> Idle]
    /\ sweep' = SweepIdle
    /\ UNCHANGED << disk, now, broken >>

Tick ==
    /\ now < MaxTime
    /\ now' = now + 1
    /\ Unwritten
    /\ UNCHANGED << task, sweep >>

-----------------------------------------------------------------------------
CheckoutStep(w) ==
    \/ \E i \in Items : Begin(w, i)
    \/ \E a \in Actors, d \in Durations : CheckoutFetch(w, a, d)
    \/ CheckoutRefused(w)
    \/ CheckoutRaises(w)
    \/ CheckoutRollback(w)

FetchStep(w) ==
    \E i \in Items :
        \/ \E status \in {"available", "review_pending"} : Create(w, i, status)
        \/ \E a \in Actors, d \in Durations : RenewLease(w, i, a, d)
        \/ \E d \in Durations : UpdateProgress(w, i, d)
        \/ \E b \in BOOLEAN : Complete(w, i, b)
        \/ Release(w, i)
        \/ \E b \in BOOLEAN : Fail(w, i, b)
        \/ Accept(w, i)
        \/ Reject(w, i)

WorkerStep(w) ==
    CheckoutStep(w) \/ FetchStep(w) \/ OtherStore(w) \/ Update(w) \/ CommitWork(w) \/ Cancel(w)

SweepStep == SweepSelect \/ SweepUpdate \/ SweepCommit

Next ==
    \/ \E w \in Workers : WorkerStep(w)
    \/ SweepStep
    \/ SweepRaises
    \/ Restart
    \/ Tick

Spec == Init /\ [][Next]_vars

\* The sweep loop sleeps a fixed interval and survives its exceptions; some sweeps may
\* fail, not all of them forever.  A request is never assumed to get on with its work.
FairSpec ==
    /\ Spec
    /\ WF_vars(SweepSelect)
    /\ SF_vars(SweepUpdate)
    /\ SF_vars(SweepCommit)

-----------------------------------------------------------------------------
(* Properties.                                                             *)

\* Every checked-out row, committed or not, can be found by the sweep and names in its
\* last attempt the actor who holds it, whoever's statements the commit or the
\* rollback that produced it took in.
HeldRowsWellFormed == \A i \in Items : WellHeld(mem[i]) /\ WellHeld(disk[i])

\* BEGIN IMMEDIATE keeps other checkouts out for as long as no other coroutine ends a
\* checkout's transaction: until then the item a checkout is about to take is free.
CheckoutIsAtomicAlone ==
    ~broken =>
        \A w \in Workers :
            (task[w].pc = "fetched" /\ task[w].kind = "checkout") =>
                mem[task[w].item].status # "checked_out"

\* The connection never stays inside a transaction, in which every checkout would fail:
\* the commit of the next sweep closes what a cancelled request left open.
ConnectionIsReleased == tx ~> ~tx

\* Once no request is running, every expired lease is taken back on disk, though
\* earlier sweeps may have been rolled back by refused checkouts.
LeasesAreReclaimed ==
    (<>[](\A w \in Workers : task[w] = Idle)) =>
        \A i \in Items : Expired(disk[i], now) ~> ~Expired(disk[i], now)

\* An item held by one agent is not checked out to another.  The checkout tool says:
\* "Only one agent can hold a work item at a time."
OneHolderAtATime ==
    [][\A i \in Items :
         (disk[i].status = "checked_out" /\ disk'[i].status = "checked_out")
            => disk'[i].assignee = disk[i].assignee]_vars
=============================================================================
