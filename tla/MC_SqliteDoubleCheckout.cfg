\* What two checkouts of one item can do on the shared connection.
SPECIFICATION Spec
CONSTANTS
    i1 = i1
    a1 = a1
    a2 = a2
    w1 = w1
    w2 = w2
    NoActor = NoActor
    Items <- MCItems
    Actors <- TwoActors
    Workers <- TwoWorkers
    Durations <- MCDurations
    MaxTime = 1
PROPERTY OneHolderAtATime
CHECK_DEADLOCK FALSE
