--------------------------- MODULE MC_ChatServer ---------------------------
(* ChatServer with a few requests for two sessions.                        *)
EXTENDS ChatServer, TLC

CONSTANTS r1, r2, r3, s1, s2

TwoRequests == {r1, r2}
ThreeRequests == {r1, r2, r3}
OneSession == {s1}
TwoSessions == {s1, s2}

\* Requests and sessions are interchangeable (not used where liveness is checked).
Symmetry == Permutations(ThreeRequests) \cup Permutations(TwoSessions)
=============================================================================
