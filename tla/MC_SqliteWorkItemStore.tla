----------------------- MODULE MC_SqliteWorkItemStore -----------------------
(* SqliteWorkItemStore with one item.                                      *)
EXTENDS SqliteWorkItemStore

CONSTANTS i1, a1, a2, w1, w2

MCItems == {i1}
OneActor == {a1}
TwoActors == {a1, a2}
OneWorker == {w1}
TwoWorkers == {w1, w2}
MCDurations == {0}
=============================================================================
