\* Safety, up to the names of the requests and of the sessions.
SPECIFICATION Spec
CONSTANTS
    r1 = r1
    r2 = r2
    r3 = r3
    s1 = s1
    s2 = s2
    Nobody = Nobody
    Requests <- ThreeRequests
    Sessions <- TwoSessions
INVARIANT TypeOK
INVARIANT TurnRunsAlone
INVARIANT SessionsStayApart
INVARIANT QuestionsStayHome
INVARIANT ApprovedToolRunsOnce
PROPERTY SavedTurnsSurvive
SYMMETRY Symmetry
CHECK_DEADLOCK FALSE
