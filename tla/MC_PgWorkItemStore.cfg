\* One item is enough: an operation touches one row, and items meet only in the
\* advisory lock key.
SPECIFICATION FairSpec
CONSTANTS
    i1 = i1
    a1 = a1
    a2 = a2
    w1 = w1
    w2 = w2
    s1 = s1
    w3 = w3
    k1 = k1
    NoActor = NoActor
    NoWorker = NoWorker
    Items <- MCItems
    Actors <- MCActors
    Workers <- MCWorkers
    Sweepers <- MCSweepers
    LockKeys <- MCLockKeys
    Key <- MCKey
    Durations <- MCDurations
    MaxTime = 2
INVARIANT TypeOK
INVARIANT HeldRowsWellFormed
INVARIANT PendingCheckoutIsFree
INVARIANT LockDiscipline
PROPERTY ImplementsLeasePool
PROPERTY LeasesAreReclaimed
CHECK_DEADLOCK FALSE
