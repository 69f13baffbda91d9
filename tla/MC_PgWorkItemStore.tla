------------------------- MODULE MC_PgWorkItemStore -------------------------
(* PgWorkItemStore with one item, two actors, three requests, one sweep.   *)
EXTENDS PgWorkItemStore

CONSTANTS i1, a1, a2, w1, w2, w3, s1, k1

MCItems == {i1}
MCActors == {a1, a2}
MCWorkers == {w1, w2, w3}
MCSweepers == {s1}
MCLockKeys == {k1}
MCKey == [i \in MCItems |-> k1]
MCDurations == {1}

=============================================================================
