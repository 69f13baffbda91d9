\* Whose Authorization header a turn finds on the agent.
SPECIFICATION Spec
CONSTANTS
    r1 = r1
    r2 = r2
    r3 = r3
    s1 = s1
    s2 = s2
    Nobody = Nobody
    Requests <- TwoRequests
    Sessions <- TwoSessions
INVARIANT DelegatesAsItsCaller
CHECK_DEADLOCK FALSE
