--------------------------- MODULE MC_Delegation ---------------------------
(* Two servers that delegate to each other.                                *)
EXTENDS Delegation

MCServers == {"a", "b"}
MCSubagents ==
    [s \in MCServers |-> {[to |-> IF s = "a" THEN "b" ELSE "a", kind |-> "http", max |-> 1]}]
=============================================================================
