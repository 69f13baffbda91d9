SPECIFICATION FairSpec
CONSTANTS
    r1 = r1
    r2 = r2
    s1 = s1
    s2 = s2
    i1 = i1
    a1 = a1
    a2 = a2
    w1 = w1
    Nobody = Nobody
PROPERTIES
    EveryRequestEnds
    LeasesComeBack
    EventsAreHandled
CHECK_DEADLOCK FALSE
