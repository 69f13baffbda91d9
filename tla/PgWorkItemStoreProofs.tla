------------------------ MODULE PgWorkItemStoreProofs ------------------------
(***************************************************************************)
(* PgWorkItemStore for any number of items, actors, workers, sweep loops   *)
(* and any hash of item ids to advisory locks: its invariants hold and it  *)
(* implements LeasePool.                                                   *)
(*                                                                         *)
(* HeldRowsWellFormed is not inductive: it survives an UPDATE computed     *)
(* from a row that has changed since only because of what each kind of     *)
(* task can write.  TasksWellFormed says so, and PendingCheckoutIsFree     *)
(* rests on LockDiscipline: two checkouts of one item would hold one lock. *)
(***************************************************************************)
EXTENDS PgWorkItemStore, TLAPS

USE DEF NoLease

\* What a worker that has fetched an item is about to write into it.
TaskWellFormed(w) ==
    task[w].pc = "fetched" =>
        /\ rows[task[w].item].status # "absent"
        /\ task[w].kind = "checkout" =>
             /\ task[w].new.status = "checked_out"
             /\ task[w].new.lease \in Deadlines
             /\ WellHeld(task[w].new)
        /\ task[w].kind = "end" => task[w].new.status \notin {"checked_out", "absent"}
        /\ task[w].kind = "lease" => task[w].new.lease \in Deadlines
        /\ task[w].kind = "status" => task[w].new.status \in {"completed", "available"}

TasksWellFormed == \A w \in Workers : TaskWellFormed(w)

\* The lease of a held row was computed from the clock of some moment.
HeldUntilDeadline ==
    \A i \in Items : rows[i].status = "checked_out" => rows[i].lease \in Deadlines

IInv ==
    /\ TypeOK
    /\ HeldRowsWellFormed
    /\ HeldUntilDeadline
    /\ TasksWellFormed
    /\ LockDiscipline
    /\ PendingCheckoutIsFree

-----------------------------------------------------------------------------
(* What a row and a task can be.                                           *)

\* A deadline is a time, so it is not the NULL lease.
LEMMA DeadlinesAreTimes == Deadlines \subseteq Nat
BY PgAssumption DEF Deadlines

\* The rows the operations build are rows.
LEMMA BuiltRows ==
    ASSUME NEW row \in Row, NEW a \in Actors, NEW t \in Nat, NEW b \in BOOLEAN
    PROVE  /\ CheckedOut(a, t) \in Row
           /\ Renewed(row, t) \in Row
           /\ Completed(b) \in Row
           /\ Released \in Row
           /\ Failed(b) \in Row
           /\ ExpiredRow \in Row
           /\ Accepted(row) \in Row
           /\ Rejected(row) \in Row
           /\ NoRow \in Row
BY DEF Row, Status, CheckedOut, Renewed, Completed, Released, Failed, ExpiredRow,
       Accepted, Rejected, Ended, NoRow

\* An UPDATE of some columns leaves a row.
LEMMA WrittenRows ==
    ASSUME NEW kind \in Kinds, NEW current \in Row, NEW new \in Row
    PROVE  Columns(kind, current, new) \in Row
BY DEF Kinds, Columns, Row

\* The pc of a task says what the rest of it is.
LEMMA TaskParts ==
    ASSUME NEW t \in Task
    PROVE  /\ t.pc \in {"idle", "locked", "fetched"}
           /\ t.pc = "idle" <=> t = Idle
           /\ t.pc = "locked" => t.item \in Items
           /\ t.pc = "fetched" => t.item \in Items /\ t.kind \in Kinds /\ t.new \in Row
BY DEF Task, Idle

\* What the steps of a worker leave as its task is a task.
LEMMA NewTasks ==
    ASSUME NEW i \in Items, NEW kind \in Kinds, NEW new \in Row
    PROVE  /\ Idle \in Task
           /\ Locked(i) \in Task /\ Locked(i).pc = "locked" /\ Locked(i).item = i
           /\ Fetched(kind, i, new) \in Task
           /\ Fetched(kind, i, new).pc = "fetched"
           /\ Fetched(kind, i, new).kind = kind
           /\ Fetched(kind, i, new).item = i
           /\ Fetched(kind, i, new).new = new
BY DEF Task, Idle, Locked, Fetched

\* The operations without a lock all fetch an item that exists, and will write into
\* it what TaskWellFormed says of their kind.
LEMMA FetchStepFetches ==
    ASSUME TypeOK, NEW w \in Workers, FetchStep(w)
    PROVE  \E i \in Items, kind \in Kinds, new \in Row :
             /\ Fetch(w, kind, i, new)
             /\ rows[i].status # "absent"
             /\ kind # "checkout"
             /\ kind = "end" => new.status \notin {"checked_out", "absent"}
             /\ kind = "lease" => new.lease \in Deadlines
             /\ kind = "status" => new.status \in {"completed", "available"}
<1>1. PICK i \in Items :
        \/ \E a \in Actors, d \in Durations : RenewLease(w, i, a, d)
        \/ \E d \in Durations : UpdateProgress(w, i, d)
        \/ \E b \in BOOLEAN : Complete(w, i, b)
        \/ Release(w, i)
        \/ \E b \in BOOLEAN : Fail(w, i, b)
        \/ Accept(w, i)
        \/ Reject(w, i)
    BY DEF FetchStep
<1>2. rows[i] \in Row /\ now \in 0..MaxTime /\ "lease" \in Kinds /\ "end" \in Kinds /\ "status" \in Kinds
    BY DEF TypeOK, Kinds
<1>3. ASSUME NEW d \in Durations
      PROVE  /\ Renewed(rows[i], now + d) \in Row
             /\ Renewed(rows[i], now + d).lease \in Deadlines
  <2>1. now + d \in Deadlines /\ now + d \in Nat
    BY <1>2, PgAssumption DEF Deadlines
  <2> QED
    BY <1>2, <2>1 DEF Renewed, Row
<1>4. CASE \E d \in Durations, a \in Actors : RenewLease(w, i, a, d)
  <2>1. PICK d \in Durations, a \in Actors : RenewLease(w, i, a, d)
    BY <1>4
  <2> QED
    BY <1>2, <1>3, <2>1 DEF RenewLease
<1>5. CASE \E d \in Durations : UpdateProgress(w, i, d)
  <2>1. PICK d \in Durations : UpdateProgress(w, i, d)
    BY <1>5
  <2> QED
    BY <1>2, <1>3, <2>1 DEF UpdateProgress
<1>6. CASE \E b \in BOOLEAN : Complete(w, i, b)
  <2>1. PICK b \in BOOLEAN : Complete(w, i, b)
    BY <1>6
  <2>2. Completed(b) \in Row /\ Completed(b).status \notin {"checked_out", "absent"}
    BY DEF Completed, Ended, Row, Status
  <2> QED
    BY <1>2, <2>1, <2>2 DEF Complete
<1>7. CASE Release(w, i)
  <2>1. Released \in Row /\ Released.status \notin {"checked_out", "absent"}
    BY DEF Released, Ended, Row, Status
  <2> QED
    BY <1>2, <1>7, <2>1 DEF Release
<1>8. CASE \E b \in BOOLEAN : Fail(w, i, b)
  <2>1. PICK b \in BOOLEAN : Fail(w, i, b)
    BY <1>8
  <2>2. Failed(b) \in Row /\ Failed(b).status \notin {"checked_out", "absent"}
    BY DEF Failed, Ended, Row, Status
  <2> QED
    BY <1>2, <2>1, <2>2 DEF Fail
<1>9. CASE Accept(w, i)
  <2>1. Accepted(rows[i]) \in Row /\ Accepted(rows[i]).status = "completed"
    BY <1>2 DEF Accepted, Row, Status
  <2> QED
    BY <1>2, <1>9, <2>1 DEF Accept
<1>10. CASE Reject(w, i)
  <2>1. Rejected(rows[i]) \in Row /\ Rejected(rows[i]).status = "available"
    BY <1>2 DEF Rejected, Row, Status
  <2> QED
    BY <1>2, <1>10, <2>1 DEF Reject
<1> QED
    BY <1>1, <1>4, <1>5, <1>6, <1>7, <1>8, <1>9, <1>10

-----------------------------------------------------------------------------
(* Type correctness.                                                       *)

\* The empty table, with every lock free and every worker idle, is well typed.
LEMMA InitTypeOK == Init => TypeOK
BY PgAssumption DEF Init, TypeOK, Row, Status, NoRow, Task

\* Every step keeps the variables in their types.
LEMMA NextTypeOK == TypeOK /\ [Next]_vars => TypeOK'
<1> SUFFICES ASSUME TypeOK, [Next]_vars PROVE TypeOK'
    OBVIOUS
<1> USE DEF TypeOK
<1>a. Durations \subseteq Nat /\ MaxTime \in Nat /\ Key \in [Items -> LockKeys]
    BY PgAssumption
<1>b. ASSUME NEW d \in Durations PROVE now + d \in Nat
    BY <1>a
<1>c. ASSUME NEW w \in Workers
      PROVE  /\ task[w] \in Task
             /\ task[w].pc = "locked" => task[w].item \in Items
             /\ task[w].pc = "fetched" =>
                  task[w].item \in Items /\ task[w].kind \in Kinds /\ task[w].new \in Row
    BY TaskParts
<1>d. Kinds = {"checkout", "end", "lease", "status"} /\ Idle \in Task
    BY DEF Kinds, Task
<1>1. ASSUME NEW i \in Items, NEW status \in {"available", "review_pending"}, Create(i, status)
      PROVE  TypeOK'
  <2>1. Created(status) \in Row
    BY DEF Created, NoRow, Row, Status
  <2> QED
    BY <1>1, <2>1 DEF Create
<1>2. ASSUME NEW w \in Workers, NEW i \in Items, TryLock(w, i) PROVE TypeOK'
    BY <1>2, <1>a DEF TryLock, Task, Locked
<1>3. ASSUME NEW w \in Workers, NEW a \in Actors, NEW d \in Durations, CheckoutFetch(w, a, d)
      PROVE  TypeOK'
  <2>1. CheckedOut(a, now + d) \in Row
    BY <1>b DEF CheckedOut, Row, Status
  <2>2. Fetched("checkout", task[w].item, CheckedOut(a, now + d)) \in Task
    BY <1>3, <1>c, <1>d, <2>1, NewTasks DEF CheckoutFetch
  <2> QED
    BY <1>3, <2>2 DEF CheckoutFetch
<1>4. ASSUME NEW w \in Workers, CheckoutRefused(w) PROVE TypeOK'
    BY <1>4, <1>a, <1>c, <1>d DEF CheckoutRefused
<1>5. ASSUME NEW w \in Workers, CheckoutCommit(w) PROVE TypeOK'
  <2>1. Columns("checkout", rows[task[w].item], task[w].new) \in Row
    BY <1>5, <1>c, <1>d, WrittenRows DEF CheckoutCommit
  <2> QED
    BY <1>5, <1>c, <1>d, <2>1 DEF CheckoutCommit
<1>6. ASSUME NEW w \in Workers, NEW i \in Items, NEW kind \in Kinds, NEW new \in Row,
             Fetch(w, kind, i, new)
      PROVE  TypeOK'
    BY <1>6, NewTasks DEF Fetch
<1>7. ASSUME NEW w \in Workers, FetchStep(w) PROVE TypeOK'
  <2>1. PICK i \in Items, kind \in Kinds, new \in Row : Fetch(w, kind, i, new)
    BY <1>7, FetchStepFetches
  <2> QED
    BY <2>1, <1>6
<1>8. ASSUME NEW w \in Workers, Update(w) PROVE TypeOK'
  <2>1. Columns(task[w].kind, rows[task[w].item], task[w].new) \in Row
    BY <1>8, <1>c, WrittenRows DEF Update
  <2> QED
    BY <1>8, <1>c, <1>d, <2>1 DEF Update
<1>9. ASSUME NEW w \in Workers, Crash(w) PROVE TypeOK'
    BY <1>9, <1>d DEF Crash
<1>10. ASSUME NEW s \in Sweepers, SweepStep(s) PROVE TypeOK'
    BY <1>10, BuiltRows DEF SweepStep, SweepSelect, SweepUpdate, SweepCrash, ExpiredRow, Ended,
       Row, Status
<1>11. CASE Tick
    BY <1>11, <1>a DEF Tick
<1>12. CASE UNCHANGED vars
    BY <1>12 DEF vars
<1> QED
    BY <1>1, <1>2, <1>3, <1>4, <1>5, <1>7, <1>8, <1>9, <1>10, <1>11, <1>12
    DEF Next, WorkerStep, CheckoutStep

\* PgWorkItemStore keeps its variables in their types.
THEOREM TypeCorrect == Spec => []TypeOK
BY InitTypeOK, NextTypeOK, PTL DEF Spec

-----------------------------------------------------------------------------
(* The invariant.                                                          *)

\* The invariant holds of the empty table.
LEMMA InitInvariant == Init => IInv
<1> SUFFICES ASSUME Init PROVE IInv
    OBVIOUS
<1>1. TypeOK
    BY InitTypeOK
<1>2. \A i \in Items : rows[i].status = "absent"
    BY DEF Init, NoRow
<1>3. \A w \in Workers : task[w] = Idle /\ task[w].pc = "idle"
    BY DEF Init, Idle
<1>4. LockDiscipline
    BY <1>3, PgAssumption DEF LockDiscipline, HoldsLock, Init
<1> QED
    BY <1>1, <1>2, <1>3, <1>4
    DEF IInv, HeldRowsWellFormed, WellHeld, HeldUntilDeadline, TasksWellFormed, TaskWellFormed,
        PendingCheckoutIsFree

\* A step that touches no row and no pending write keeps the invariant, if it keeps the locks.
LEMMA QuietStep ==
    ASSUME IInv, TypeOK', rows' = rows, LockDiscipline',
           \A w \in Workers : task'[w] = task[w] \/ task'[w].pc # "fetched"
    PROVE  IInv'
BY DEF IInv, HeldRowsWellFormed, HeldUntilDeadline, TasksWellFormed, TaskWellFormed,
       PendingCheckoutIsFree

\* A step that writes one row keeps the invariant, if it keeps the locks, the row is well
\* held, it does not vanish, and it does not become held under a pending checkout.
LEMMA WriteStep ==
    ASSUME IInv, TypeOK', LockDiscipline', NEW i \in Items, NEW row \in Row,
           rows' = [rows EXCEPT ![i] = row],
           \A w \in Workers : task'[w] = task[w] \/ task'[w].pc # "fetched",
           WellHeld(row),
           row.status = "checked_out" => row.lease \in Deadlines,
           rows[i].status # "absent" => row.status # "absent",
           row.status = "checked_out" =>
             \A w \in Workers :
               task'[w].pc = "fetched" /\ task'[w].kind = "checkout" => task'[w].item # i
    PROVE  IInv'
<1>1. rows \in [Items -> Row] /\ task \in [Workers -> Task]
    BY DEF IInv, TypeOK
<1>2. \A j \in Items : rows'[j] = IF j = i THEN row ELSE rows[j]
    BY <1>1
<1>3. HeldRowsWellFormed' /\ HeldUntilDeadline'
    BY <1>2 DEF IInv, HeldRowsWellFormed, HeldUntilDeadline, WellHeld
<1>4. ASSUME NEW w \in Workers, task'[w].pc = "fetched"
      PROVE  /\ task'[w] = task[w] /\ task[w].item \in Items
             /\ rows[task[w].item].status # "absent"
             /\ rows'[task'[w].item].status # "absent"
    BY <1>1, <1>2, <1>4, TaskParts DEF IInv, TasksWellFormed, TaskWellFormed
<1>5. TasksWellFormed'
    BY <1>4 DEF IInv, TasksWellFormed, TaskWellFormed
<1>6. PendingCheckoutIsFree'
    BY <1>2, <1>4 DEF IInv, PendingCheckoutIsFree
<1> QED
    BY <1>3, <1>5, <1>6 DEF IInv

\* Every step keeps the invariant.
LEMMA NextInvariant == IInv /\ [Next]_vars => IInv'
<1> SUFFICES ASSUME IInv, [Next]_vars PROVE IInv'
    OBVIOUS
<1>t. TypeOK /\ TypeOK'
    BY NextTypeOK DEF IInv
<1>k. Key \in [Items -> LockKeys] /\ NoWorker \notin Workers /\ lock \in [LockKeys -> Workers \cup {NoWorker}]
    BY <1>t, PgAssumption DEF TypeOK
<1>p. ASSUME NEW w \in Workers
      PROVE  /\ task[w] \in Task
             /\ task[w].pc \in {"idle", "locked", "fetched"}
             /\ task[w].pc = "idle" <=> task[w] = Idle
             /\ task[w].pc = "locked" => task[w].item \in Items
             /\ task[w].pc = "fetched" =>
                  task[w].item \in Items /\ task[w].kind \in Kinds /\ task[w].new \in Row
  <2>1. task[w] \in Task
    BY <1>t DEF TypeOK
  <2> QED
    BY <2>1, TaskParts
<1>i. Idle.pc = "idle"
    BY DEF Idle
<1>f. task \in [Workers -> Task] /\ rows \in [Items -> Row]
    BY <1>t DEF TypeOK
<1>l. LockDiscipline
    BY DEF IInv
<1>1. ASSUME NEW i \in Items, NEW status \in {"available", "review_pending"}, Create(i, status)
      PROVE  IInv'
  <2>1. /\ Created(status) \in Row /\ Created(status).status = status
        /\ rows' = [rows EXCEPT ![i] = Created(status)] /\ task' = task
    BY <1>1 DEF Create, Created, NoRow, Row, Status
  <2>2. LockDiscipline'
    BY <1>1, <1>l DEF Create, LockDiscipline, HoldsLock
  <2>3. WellHeld(Created(status)) /\ Created(status).status \notin {"absent", "checked_out"}
    BY <2>1 DEF WellHeld
  <2> QED
    BY <1>t, <2>1, <2>2, <2>3, WriteStep
<1>2. ASSUME NEW w \in Workers, NEW i \in Items, TryLock(w, i) PROVE IInv'
  <2>1. /\ Locked(i).pc = "locked" /\ Locked(i).item = i
        /\ rows' = rows
        /\ task' = [task EXCEPT ![w] = Locked(i)]
        /\ lock' = [lock EXCEPT ![Key[i]] = w]
        /\ task[w].pc = "idle" /\ lock[Key[i]] = NoWorker
    BY <1>2, <1>i DEF TryLock, Locked
  <2>2. LockDiscipline'
    BY <1>f, <1>k, <1>l, <2>1 DEF LockDiscipline, HoldsLock
  <2>3. \A v \in Workers : task'[v] = task[v] \/ task'[v].pc # "fetched"
    BY <1>f, <2>1
  <2> QED
    BY <1>t, <2>1, <2>2, <2>3, QuietStep
<1>3. ASSUME NEW w \in Workers, NEW a \in Actors, NEW d \in Durations, CheckoutFetch(w, a, d)
      PROVE  IInv'
  <2> DEFINE i == task[w].item
             row == CheckedOut(a, now + d)
  <2>1. /\ task[w].pc = "locked" /\ i \in Items /\ rows[i].status = "available"
        /\ task' = [task EXCEPT ![w] = Fetched("checkout", i, row)]
        /\ rows' = rows /\ lock' = lock
    BY <1>3, <1>p DEF CheckoutFetch
  <2>2. now + d \in Deadlines /\ now + d \in Nat
    BY <1>t, PgAssumption DEF TypeOK, Deadlines
  <2>3. row.status = "checked_out" /\ row.lease \in Deadlines /\ WellHeld(row)
    BY <2>2, NoActorAssumption DEF CheckedOut, WellHeld
  <2> HIDE DEF i, row
  <2>4. /\ task'[w] = Fetched("checkout", i, row)
        /\ task'[w].pc = "fetched" /\ task'[w].kind = "checkout"
        /\ task'[w].item = i /\ task'[w].new = row
        /\ \A v \in Workers : v # w => task'[v] = task[v]
    BY <1>f, <2>1 DEF Fetched
  <2>5. TaskWellFormed(w)'
    BY <2>1, <2>3, <2>4 DEF TaskWellFormed
  <2>6. TasksWellFormed'
    BY <2>1, <2>4, <2>5 DEF IInv, TasksWellFormed, TaskWellFormed
  <2>7. LockDiscipline'
    BY <1>k, <1>l, <2>1, <2>4 DEF LockDiscipline, HoldsLock, i
  <2>8. PendingCheckoutIsFree'
    BY <2>1, <2>4 DEF IInv, PendingCheckoutIsFree
  <2> QED
    BY <1>t, <2>1, <2>6, <2>7, <2>8 DEF IInv, HeldRowsWellFormed, HeldUntilDeadline
<1>4. ASSUME NEW w \in Workers, CheckoutRefused(w) PROVE IInv'
  <2>1. /\ task[w].pc = "locked" /\ task[w].item \in Items
        /\ rows' = rows
        /\ task' = [task EXCEPT ![w] = Idle]
        /\ lock' = [lock EXCEPT ![Key[task[w].item]] = NoWorker]
    BY <1>4, <1>p DEF CheckoutRefused
  <2>2. LockDiscipline'
    BY <1>f, <1>i, <1>k, <1>l, <2>1 DEF LockDiscipline, HoldsLock
  <2>3. \A v \in Workers : task'[v] = task[v] \/ task'[v].pc # "fetched"
    BY <1>f, <1>i, <2>1
  <2> QED
    BY <1>t, <2>1, <2>2, <2>3, QuietStep
<1>5. ASSUME NEW w \in Workers, CheckoutCommit(w) PROVE IInv'
  <2> DEFINE i == task[w].item
             row == task[w].new
  <2>1. /\ task[w].pc = "fetched" /\ task[w].kind = "checkout" /\ i \in Items /\ row \in Row
        /\ row.status = "checked_out" /\ row.lease \in Deadlines /\ WellHeld(row)
        /\ task' = [task EXCEPT ![w] = Idle]
        /\ lock' = [lock EXCEPT ![Key[i]] = NoWorker]
    BY <1>5, <1>p DEF CheckoutCommit, IInv, TasksWellFormed, TaskWellFormed
  <2>2. rows' = [rows EXCEPT ![i] = row]
    BY <1>5, <1>f, <2>1 DEF CheckoutCommit, Columns
  <2>3. LockDiscipline'
    BY <1>f, <1>i, <1>k, <1>l, <2>1 DEF LockDiscipline, HoldsLock
  <2>4. \A v \in Workers : task'[v] = task[v] \/ task'[v].pc # "fetched"
    BY <1>f, <1>i, <2>1
  <2>5. ASSUME NEW v \in Workers, task'[v].pc = "fetched", task'[v].kind = "checkout"
        PROVE  task'[v].item # i
    BY <1>f, <1>i, <1>k, <1>l, <2>1, <2>5 DEF LockDiscipline, HoldsLock
  <2> QED
    BY <1>t, <2>1, <2>2, <2>3, <2>4, <2>5, WriteStep
<1>6. ASSUME NEW w \in Workers, FetchStep(w) PROVE IInv'
  <2>1. PICK i \in Items, kind \in Kinds, new \in Row :
           /\ Fetch(w, kind, i, new)
           /\ rows[i].status # "absent"
           /\ kind # "checkout"
           /\ kind = "end" => new.status \notin {"checked_out", "absent"}
           /\ kind = "lease" => new.lease \in Deadlines
           /\ kind = "status" => new.status \in {"completed", "available"}
    BY <1>t, <1>6, FetchStepFetches
  <2>2. task[w].pc = "idle" /\ rows' = rows /\ lock' = lock
    BY <1>i, <2>1 DEF Fetch
  <2>3. /\ task'[w].pc = "fetched" /\ task'[w].kind = kind
        /\ task'[w].item = i /\ task'[w].new = new
        /\ \A v \in Workers : v # w => task'[v] = task[v]
    BY <1>f, <2>1 DEF Fetch, Fetched
  <2>4. TaskWellFormed(w)'
    BY <2>1, <2>2, <2>3 DEF TaskWellFormed
  <2>5. TasksWellFormed'
    BY <2>2, <2>3, <2>4 DEF IInv, TasksWellFormed, TaskWellFormed
  <2>6. LockDiscipline'
    BY <1>l, <2>1, <2>2, <2>3 DEF LockDiscipline, HoldsLock
  <2>7. PendingCheckoutIsFree'
    BY <2>1, <2>2, <2>3 DEF IInv, PendingCheckoutIsFree
  <2> QED
    BY <1>t, <2>2, <2>5, <2>6, <2>7 DEF IInv, HeldRowsWellFormed, HeldUntilDeadline
<1>7. ASSUME NEW w \in Workers, Update(w) PROVE IInv'
  <2> DEFINE i == task[w].item
             row == Columns(task[w].kind, rows[i], task[w].new)
  <2>1. /\ task[w].pc = "fetched" /\ task[w].kind # "checkout"
        /\ i \in Items /\ task[w].kind \in Kinds /\ task[w].new \in Row /\ rows[i] \in Row
        /\ rows' = [rows EXCEPT ![i] = row]
        /\ task' = [task EXCEPT ![w] = Idle] /\ lock' = lock
        /\ TaskWellFormed(w)
    BY <1>7, <1>f, <1>p DEF Update, IInv, TasksWellFormed
  <2>2. /\ row \in Row
        /\ task[w].kind = "end" => row = task[w].new
        /\ task[w].kind = "lease" => row = [rows[i] EXCEPT !.lease = task[w].new.lease]
        /\ task[w].kind = "status" => row = [rows[i] EXCEPT !.status = task[w].new.status]
    BY <2>1 DEF Columns, Kinds, Row
  <2>3. task[w].kind \in {"end", "lease", "status"}
    BY <2>1 DEF Kinds
  <2>4. WellHeld(rows[i]) /\ (rows[i].status = "checked_out" => rows[i].lease \in Deadlines)
    BY <2>1 DEF IInv, HeldRowsWellFormed, HeldUntilDeadline
  <2> HIDE DEF i, row
  <2>5. /\ row.status # "absent"
        /\ row.status = "checked_out" => rows[i].status = "checked_out"
        /\ row.status = "checked_out" => row.lease \in Deadlines
        /\ WellHeld(row)
    <3>1. CASE task[w].kind = "end"
      BY <2>1, <2>2, <3>1 DEF TaskWellFormed, WellHeld
    <3>2. CASE task[w].kind = "lease"
      BY <2>1, <2>2, <2>4, <3>2, DeadlinesAreTimes DEF TaskWellFormed, WellHeld, Row, i
    <3>3. CASE task[w].kind = "status"
      BY <2>1, <2>2, <3>3 DEF TaskWellFormed, WellHeld, Row
    <3> QED
      BY <2>3, <3>1, <3>2, <3>3
  <2>6. LockDiscipline'
    BY <1>f, <1>i, <1>l, <2>1 DEF LockDiscipline, HoldsLock
  <2>7. \A v \in Workers : task'[v] = task[v] \/ task'[v].pc # "fetched"
    BY <1>f, <1>i, <2>1
  <2>8. ASSUME NEW v \in Workers, task'[v].pc = "fetched", task'[v].kind = "checkout",
               row.status = "checked_out"
        PROVE  task'[v].item # i
    BY <2>5, <2>7, <2>8 DEF IInv, PendingCheckoutIsFree
  <2> QED
    BY <1>t, <2>1, <2>2, <2>5, <2>6, <2>7, <2>8, WriteStep
<1>8. ASSUME NEW w \in Workers, Crash(w) PROVE IInv'
  <2>1. /\ rows' = rows /\ task' = [task EXCEPT ![w] = Idle]
        /\ lock' = [k \in LockKeys |-> IF lock[k] = w THEN NoWorker ELSE lock[k]]
    BY <1>8 DEF Crash
  <2>2. LockDiscipline'
    BY <1>f, <1>i, <1>k, <1>l, <2>1 DEF LockDiscipline, HoldsLock
  <2>3. \A v \in Workers : task'[v] = task[v] \/ task'[v].pc # "fetched"
    BY <1>f, <1>i, <2>1
  <2> QED
    BY <1>t, <2>1, <2>2, <2>3, QuietStep
<1>9. ASSUME NEW s \in Sweepers, SweepStep(s) PROVE IInv'
  <2>1. LockDiscipline' /\ task' = task
    BY <1>9, <1>l
    DEF SweepStep, SweepSelect, SweepUpdate, SweepCrash, LockDiscipline, HoldsLock
  <2>2. CASE SweepUpdate(s)
    <3>1. PICK i \in Items : rows' = [rows EXCEPT ![i] = ExpiredRow]
      BY <1>t, <2>2 DEF SweepUpdate, TypeOK
    <3>2. ExpiredRow \in Row /\ ExpiredRow.status = "available" /\ WellHeld(ExpiredRow)
      BY DEF ExpiredRow, Ended, Row, Status, WellHeld
    <3> QED
      BY <1>t, <2>1, <3>1, <3>2, WriteStep
  <2>3. CASE SweepSelect(s) \/ SweepCrash(s)
    BY <1>t, <2>1, <2>3, QuietStep DEF SweepSelect, SweepCrash
  <2> QED
    BY <1>9, <2>2, <2>3 DEF SweepStep
<1>10. CASE Tick \/ UNCHANGED vars
  <2>1. LockDiscipline' /\ rows' = rows /\ task' = task
    BY <1>10, <1>l DEF Tick, vars, LockDiscipline, HoldsLock
  <2> QED
    BY <1>t, <2>1, QuietStep
<1> QED
    BY <1>1, <1>2, <1>3, <1>4, <1>5, <1>6, <1>7, <1>8, <1>9, <1>10
    DEF Next, WorkerStep, CheckoutStep

\* The invariant holds, and with it the safety properties of the runs.
THEOREM Invariance == Spec => []IInv
BY InitInvariant, NextInvariant, PTL DEF Spec

\* A checked-out row always names its holder and carries the lease the sweep looks for.
THEOREM HeldRowsStayWellFormed == Spec => []HeldRowsWellFormed
<1>1. IInv => HeldRowsWellFormed
    BY DEF IInv
<1> QED
    BY <1>1, Invariance, PTL

\* An advisory lock belongs to exactly the checkout that runs under it.
THEOREM LocksAreDisciplined == Spec => []LockDiscipline
<1>1. IInv => LockDiscipline
    BY DEF IInv
<1> QED
    BY <1>1, Invariance, PTL

\* The item a checkout has found available is still free when it commits.
THEOREM PendingCheckoutsAreFree == Spec => []PendingCheckoutIsFree
<1>1. IInv => PendingCheckoutIsFree
    BY DEF IInv
<1> QED
    BY <1>1, Invariance, PTL

-----------------------------------------------------------------------------
(* PgWorkItemStore implements LeasePool.                                   *)

\* What the refinement mapping makes of a row.
HolderOf(row) == IF row.status = "checked_out" THEN row.assignee ELSE NoActor
DeadlineOf(row) == IF row.status = "checked_out" THEN row.lease ELSE NoLease

\* A step that leaves every holder and every deadline as it was is a stutter of the pool.
LEMMA SamePool ==
    ASSUME \A i \in Items : /\ HolderOf(rows'[i]) = HolderOf(rows[i])
                            /\ DeadlineOf(rows'[i]) = DeadlineOf(rows[i])
    PROVE  UNCHANGED Pool!vars
BY DEF Pool!vars, HolderOf, DeadlineOf

\* Giving a free item to an actor is a Grant.
LEMMA GrantStep ==
    ASSUME NEW i \in Items, NEW row \in Row, rows \in [Items -> Row],
           rows' = [rows EXCEPT ![i] = row],
           rows[i].status # "checked_out", row.status = "checked_out",
           row.assignee \in Actors, row.lease \in Deadlines
    PROVE  Pool!Next
<1>1. Pool!Grant(i, row.assignee, row.lease)
    BY DEF Pool!Grant
<1> QED
    BY <1>1 DEF Pool!Next

\* Ending an attempt, or taking the item back, is a Withdraw; if nobody held the item,
\* nothing happens in the pool.
LEMMA WithdrawStep ==
    ASSUME NEW i \in Items, NEW row \in Row, rows \in [Items -> Row],
           rows' = [rows EXCEPT ![i] = row],
           row.status # "checked_out",
           WellHeld(rows[i])
    PROVE  [Pool!Next]_(Pool!vars)
<1>1. CASE rows[i].status = "checked_out"
  <2>1. Pool!Withdraw(i)
    BY <1>1 DEF Pool!Withdraw, Pool!NoDeadline, WellHeld
  <2> QED
    BY <2>1 DEF Pool!Next
<1>2. CASE rows[i].status # "checked_out"
  <2>1. \A j \in Items : HolderOf(rows'[j]) = HolderOf(rows[j]) /\ DeadlineOf(rows'[j]) = DeadlineOf(rows[j])
    BY <1>2 DEF HolderOf, DeadlineOf
  <2> QED
    BY <2>1, SamePool
<1> QED
    BY <1>1, <1>2

\* Writing a lease is an Extend of whoever holds the item by now.
LEMMA ExtendStep ==
    ASSUME NEW i \in Items, NEW t \in Deadlines, rows \in [Items -> Row],
           rows' = [rows EXCEPT ![i] = [@ EXCEPT !.lease = t]],
           WellHeld(rows[i])
    PROVE  [Pool!Next]_(Pool!vars)
<1>0. /\ rows[i] \in Row
      /\ rows'[i] = [rows[i] EXCEPT !.lease = t]
      /\ rows'[i].status = rows[i].status /\ rows'[i].assignee = rows[i].assignee /\ rows'[i].lease = t
      /\ \A j \in Items : j # i => rows'[j] = rows[j]
    BY DEF Row
<1>1. CASE rows[i].status = "checked_out"
  <2>1. \A j \in Items : /\ HolderOf(rows'[j]) = HolderOf(rows[j])
                         /\ DeadlineOf(rows'[j]) = IF j = i THEN t ELSE DeadlineOf(rows[j])
    BY <1>0, <1>1 DEF HolderOf, DeadlineOf
  <2>2. HolderOf(rows[i]) # NoActor
    BY <1>1 DEF HolderOf, WellHeld
  <2>3. Pool!Extend(i, t)
    BY <2>1, <2>2 DEF Pool!Extend, HolderOf, DeadlineOf
  <2> QED
    BY <2>3 DEF Pool!Next
<1>2. CASE rows[i].status # "checked_out"
  <2>1. \A j \in Items : HolderOf(rows'[j]) = HolderOf(rows[j]) /\ DeadlineOf(rows'[j]) = DeadlineOf(rows[j])
    BY <1>0, <1>2 DEF HolderOf, DeadlineOf
  <2> QED
    BY <2>1, SamePool
<1> QED
    BY <1>1, <1>2

\* In the empty table nobody holds anything, as in the pool's initial state.
LEMMA InitRefines == Init => Pool!Init
BY DEF Init, NoRow, Pool!Init, Pool!NoDeadline

\* Every step of the store is a step of the pool or a stutter.
LEMMA NextRefines == IInv /\ [Next]_vars => [Pool!Next]_(Pool!vars)
<1> SUFFICES ASSUME IInv, [Next]_vars PROVE [Pool!Next]_(Pool!vars)
    OBVIOUS
<1>r. rows \in [Items -> Row] /\ task \in [Workers -> Task]
    BY DEF IInv, TypeOK
<1>h. \A i \in Items : WellHeld(rows[i])
    BY DEF IInv, HeldRowsWellFormed
<1>q. rows' = rows => UNCHANGED Pool!vars
    BY SamePool
<1>p. ASSUME NEW w \in Workers, task[w].pc = "fetched"
      PROVE  /\ task[w].item \in Items /\ task[w].kind \in Kinds /\ task[w].new \in Row
             /\ TaskWellFormed(w)
    BY <1>p, <1>r, TaskParts DEF IInv, TasksWellFormed
<1>1. ASSUME NEW i \in Items, NEW status \in {"available", "review_pending"}, Create(i, status)
      PROVE  [Pool!Next]_(Pool!vars)
  <2>1. /\ Created(status) \in Row /\ Created(status).status # "checked_out"
        /\ rows' = [rows EXCEPT ![i] = Created(status)]
    BY <1>1 DEF Create, Created, NoRow, Row, Status
  <2> QED
    BY <1>h, <1>r, <2>1, WithdrawStep
<1>2. ASSUME NEW w \in Workers, CheckoutCommit(w) PROVE [Pool!Next]_(Pool!vars)
  <2> DEFINE i == task[w].item
             row == task[w].new
  <2>1. /\ i \in Items /\ row \in Row /\ row.status = "checked_out"
        /\ row.assignee \in Actors /\ row.lease \in Deadlines
        /\ rows[i].status # "checked_out"
    BY <1>2, <1>p DEF CheckoutCommit, TaskWellFormed, WellHeld, Row, IInv, PendingCheckoutIsFree
  <2>2. rows' = [rows EXCEPT ![i] = row]
    BY <1>2, <1>r, <2>1 DEF CheckoutCommit, Columns
  <2> QED
    BY <1>r, <2>1, <2>2, GrantStep
<1>3. ASSUME NEW w \in Workers, Update(w) PROVE [Pool!Next]_(Pool!vars)
  <2> DEFINE i == task[w].item
             new == task[w].new
  <2>1. /\ task[w].pc = "fetched" /\ task[w].kind \in {"end", "lease", "status"}
        /\ i \in Items /\ new \in Row /\ rows[i] \in Row /\ TaskWellFormed(w)
        /\ rows' = [rows EXCEPT ![i] = Columns(task[w].kind, rows[i], new)]
    BY <1>3, <1>p, <1>r DEF Update, Kinds
  <2>2. CASE task[w].kind = "end"
    <3>1. rows' = [rows EXCEPT ![i] = new] /\ new.status # "checked_out"
      BY <2>1, <2>2 DEF Columns, TaskWellFormed
    <3> QED
      BY <1>h, <1>r, <2>1, <3>1, WithdrawStep
  <2>3. CASE task[w].kind = "status"
    <3> DEFINE row == [rows[i] EXCEPT !.status = new.status]
    <3>1. rows' = [rows EXCEPT ![i] = row] /\ row.status # "checked_out" /\ row \in Row
      BY <2>1, <2>3 DEF Columns, TaskWellFormed, Row
    <3> QED
      BY <1>h, <1>r, <2>1, <3>1, WithdrawStep
  <2>4. CASE task[w].kind = "lease"
    <3>1. rows' = [rows EXCEPT ![i] = [@ EXCEPT !.lease = new.lease]] /\ new.lease \in Deadlines
      BY <1>r, <2>1, <2>4 DEF Columns, TaskWellFormed
    <3> QED
      BY <1>h, <1>r, <2>1, <3>1, ExtendStep
  <2> QED
    BY <2>1, <2>2, <2>3, <2>4
<1>4. ASSUME NEW s \in Sweepers, SweepUpdate(s) PROVE [Pool!Next]_(Pool!vars)
  <2>1. PICK i \in Items : rows' = [rows EXCEPT ![i] = ExpiredRow]
    BY <1>4 DEF SweepUpdate, IInv, TypeOK
  <2>2. ExpiredRow \in Row /\ ExpiredRow.status # "checked_out"
    BY DEF ExpiredRow, Ended, Row, Status
  <2> QED
    BY <1>h, <1>r, <2>1, <2>2, WithdrawStep
<1>5. ASSUME NEW w \in Workers, WorkerStep(w) PROVE rows' = rows \/ CheckoutCommit(w) \/ Update(w)
    BY <1>5 DEF WorkerStep, CheckoutStep, TryLock, CheckoutFetch, CheckoutRefused, FetchStep,
       RenewLease, UpdateProgress, Complete, Release, Fail, Accept, Reject, Fetch, Crash
<1>6. ASSUME NEW s \in Sweepers, SweepStep(s) PROVE rows' = rows \/ SweepUpdate(s)
    BY <1>6 DEF SweepStep, SweepSelect, SweepCrash
<1>7. CASE Tick \/ UNCHANGED vars
    BY <1>7, <1>q DEF Tick, vars
<1> QED
    BY <1>1, <1>2, <1>3, <1>4, <1>5, <1>6, <1>7, <1>q DEF Next

\* The store implements the lease pool, whatever becomes stale between a fetch and its
\* UPDATE: no item passes straight from one actor to another.
THEOREM Refinement == Spec => ImplementsLeasePool
<1>1. Spec => Pool!Spec
    BY InitRefines, NextRefines, Invariance, PTL DEF Spec, Pool!Spec
<1> QED
    BY <1>1 DEF ImplementsLeasePool

\* What every implementation of the pool inherits, of the store: whoever holds an item has a
\* deadline for it, and a deadline belongs to a holder.
THEOREM HoldersHaveDeadlines == Spec => []Pool!HolderHasDeadline
<1> DEFINE holder == [i \in Items |-> HolderOf(rows[i])]
           deadline == [i \in Items |-> DeadlineOf(rows[i])]
<1>1. ASSUME IInv, NEW i \in Items PROVE holder[i] # NoActor <=> deadline[i] # NoLease
    <2>1. rows[i] \in Row /\ WellHeld(rows[i])
        BY <1>1 DEF IInv, TypeOK, HeldRowsWellFormed
    <2> QED
        BY <2>1, NoActorAssumption DEF HolderOf, DeadlineOf, WellHeld, Deadlines, NoLease
<1>2. IInv => Pool!HolderHasDeadline
    BY <1>1, Zenon DEF Pool!HolderHasDeadline, Pool!NoDeadline, HolderOf, DeadlineOf, NoLease
<1> QED
    BY <1>2, Invariance, PTL

\* An item never passes straight from one holder to another: from the refinement and the
\* pool's actions alone, whatever the store does to carry them out.
THEOREM ItemsPassThroughNobody == Spec => Pool!NoTakeover
<1> DEFINE holder == [i \in Items |-> HolderOf(rows[i])]
           Step == \A i \in Items : holder[i] # NoActor => holder'[i] \in {holder[i], NoActor}
<1>1. ASSUME [Pool!Next]_(Pool!vars) PROVE [Step]_(Pool!vars)
    <2>1. ASSUME NEW i \in Items, NEW a \in Actors, NEW t \in Deadlines, Pool!Grant(i, a, t) PROVE Step
        <3>1. holder' = [holder EXCEPT ![i] = a] /\ holder[i] = NoActor
            BY <2>1 DEF Pool!Grant, HolderOf
        <3> HIDE DEF holder
        <3> QED
            BY <3>1
    <2>2. ASSUME NEW i \in Items, NEW t \in Deadlines, Pool!Extend(i, t) PROVE Step
        <3>1. holder' = holder
            BY <2>2 DEF Pool!Extend, HolderOf
        <3> HIDE DEF holder
        <3> QED
            BY <3>1
    <2>3. ASSUME NEW i \in Items, Pool!Withdraw(i) PROVE Step
        <3>1. holder' = [holder EXCEPT ![i] = NoActor]
            BY <2>3 DEF Pool!Withdraw, HolderOf
        <3> HIDE DEF holder
        <3> QED
            BY <3>1
    <2> QED
        BY <1>1, <2>1, <2>2, <2>3 DEF Pool!Next
<1>2. Spec => [][Step]_(Pool!vars)
    BY <1>1, Refinement, PTL DEF ImplementsLeasePool, Pool!Spec
<1> QED
    BY <1>2 DEF Pool!NoTakeover, HolderOf
=============================================================================
