--------------------------- MODULE MC_AgentLoop ---------------------------
(* AgentLoop with one operation that needs approval and one that does not. *)
EXTENDS AgentLoop

CONSTANTS read, deploy

BothTools == {read, deploy}
OnlyDeploy == {deploy}
AnyDecision == [t \in BothTools |-> IF t = read THEN {"allow", "deny", "ask"} ELSE {}]
=============================================================================
