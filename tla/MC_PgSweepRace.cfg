\* What the sweep writes back, against what the checkout tool says of leases.
SPECIFICATION Spec
CONSTANTS
    i1 = i1
    a1 = a1
    a2 = a2
    w1 = w1
    w2 = w2
    w3 = w3
    s1 = s1
    k1 = k1
    NoActor = NoActor
    NoWorker = NoWorker
    Items <- MCItems
    Actors <- MCActors
    Workers <- MCWorkers
    Sweepers <- MCSweepers
    LockKeys <- MCLockKeys
    Key <- MCKey
    Durations <- MCDurations
    MaxTime = 2
PROPERTY SweepTakesOnlyExpired
CHECK_DEADLOCK FALSE
