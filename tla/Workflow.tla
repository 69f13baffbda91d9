------------------------------ MODULE Workflow ------------------------------
(***************************************************************************)
(* WorkflowRunner: a graph of nodes is traversed from its entry point,     *)
(* each node gets the state and returns it, a node that fails is tried     *)
(* again and then left by its error edge.  A node may be remote: an agent  *)
(* that is asked over HTTP, with retries of its own.                       *)
(***************************************************************************)
EXTENDS Integers, Sequences, FiniteSets

CONSTANTS
    Names,      \* of nodes
    Builds,     \* graphs as they are built, with the configuration of their runner; see Accepts
    MaxSteps    \* max_steps of a runner

VARIABLES
    graph,   \* the graph and its runner
    lives,   \* per node: whether its setup and its shutdown ran
    run,     \* WorkflowRunner.start and what it calls
    state,   \* the workflow's state: who wrote to it, and whether that attempt succeeded
    path,    \* the nodes that were left, and how
    posts    \* HTTP requests of the node that is executed

vars == << graph, lives, run, state, path, posts >>

-----------------------------------------------------------------------------
END == "END"
Unset == "unset"   \* no entry point, no edge

\* Graph.add_edge, add_conditional_edge, add_error_edge and set_entry_point take the names
\* of registered nodes only; a conditional edge (here: the targets its function may return)
\* names whatever it likes.  NodeConfig: a remote node has an endpoint.
Accepts(g) ==
    /\ g.nodes \subseteq Names
    /\ g.entry \in g.nodes \cup {Unset}
    /\ DOMAIN g.edges \subseteq g.nodes
    /\ \A n \in DOMAIN g.edges : g.edges[n] \in g.nodes \cup {END}
    /\ DOMAIN g.conditional \subseteq g.nodes
    /\ DOMAIN g.error \subseteq g.nodes
    /\ \A n \in DOMAIN g.error : g.error[n] \in g.nodes
    /\ g.agents \subseteq g.nodes
    /\ g.endpoints = g.remote

\* Graph.validate
Valid(g) ==
    /\ g.entry # Unset
    /\ DOMAIN g.edges \cap DOMAIN g.conditional = {}

PCs == {"setup", "loop", "process", "post", "backoff", "shutdown", "ended"}
Outcomes == {"none", "result", "invalid", "setup", "steps", "edge", "node", "assertion", "cancelled", "interrupted"}

TypeOK ==
    /\ graph \in Builds /\ Accepts(graph)
    /\ lives \in [graph.nodes -> {"new", "ready", "failed", "down"}]
    /\ run.pc \in PCs /\ run.outcome \in Outcomes
    /\ run.at \in graph.nodes \cup {END, Unset}
    /\ run.step \in 0..MaxSteps /\ run.attempt \in 0..graph.nodeRetries /\ run.try \in 0..(graph.remoteRetries + 1)
    /\ \A i \in DOMAIN state : state[i].by \in graph.nodes /\ state[i].whole \in BOOLEAN
    /\ \A i \in DOMAIN path : path[i].node \in graph.nodes /\ path[i].ok \in BOOLEAN /\ path[i].attempts \in Nat
    /\ posts \in 0..graph.nodeRetries * (graph.remoteRetries + 1)

Init ==
    /\ graph \in {g \in Builds : Accepts(g)}
    /\ lives = [n \in graph.nodes |-> "new"]
    /\ run = [pc |-> "setup", at |-> Unset, step |-> 0, attempt |-> 0, try |-> 0, outcome |-> "none"]
    /\ state = << >>
    /\ path = << >>
    /\ posts = 0

At(pc) == run.pc = pc
End(outcome) == run' = [run EXCEPT !.pc = "shutdown", !.outcome = outcome]

-----------------------------------------------------------------------------
(* start: setup, run, and shutdown whatever happens.                       *)

\* (A variant, used by no specification: the shutdown is owed only once the setup is over.)
SetUpOutside(n, ok) ==
    /\ At("setup")
    /\ n \in graph.agents
    /\ lives[n] = "new"
    /\ lives' = [lives EXCEPT ![n] = IF ok THEN "ready" ELSE "failed"]
    /\ run' = IF ok THEN run ELSE [run EXCEPT !.pc = "ended", !.outcome = "setup"]
    /\ UNCHANGED << graph, state, path, posts >>

\* Only agent nodes have a setup and a shutdown.
SetUp(n, ok) ==
    /\ At("setup")
    /\ n \in graph.agents
    /\ lives[n] = "new"
    /\ lives' = [lives EXCEPT ![n] = IF ok THEN "ready" ELSE "failed"]
    /\ IF ok THEN UNCHANGED run ELSE End("setup")
    /\ UNCHANGED << graph, state, path, posts >>

Start ==
    /\ At("setup")
    /\ \A n \in graph.agents : lives[n] = "ready"
    /\ IF Valid(graph) THEN run' = [run EXCEPT !.pc = "loop", !.at = graph.entry] ELSE End("invalid")
    /\ UNCHANGED << graph, lives, state, path, posts >>

\* END is looked for before a step only: the last step cannot reach it any more.
Loop ==
    /\ At("loop")
    /\ CASE run.step = MaxSteps -> End("steps")
         [] run.step < MaxSteps /\ run.at = END -> End("result")
         [] run.step < MaxSteps /\ run.at # END /\ graph.nodeRetries = 0 -> End("assertion")
         [] OTHER -> run' = [run EXCEPT !.pc = IF run.at \in graph.remote THEN "post" ELSE "process",
                                        !.step = @ + 1, !.attempt = 1, !.try = 1]
    /\ posts' = 0
    /\ UNCHANGED << graph, lives, state, path >>

\* All nodes, those too that were never set up; an error is logged.
ShutDown(n) ==
    /\ At("shutdown")
    /\ n \in graph.agents
    /\ lives[n] # "down"
    /\ lives' = [lives EXCEPT ![n] = "down"]
    /\ UNCHANGED << graph, run, state, path, posts >>

Ended ==
    /\ At("shutdown")
    /\ \A n \in graph.agents : lives[n] = "down"
    /\ run' = [run EXCEPT !.pc = "ended"]
    /\ UNCHANGED << graph, lives, state, path, posts >>

\* The task is cancelled: no handler catches that, and one that comes during the shutdown
\* ends the shutdown.
Cancel ==
    /\ ~At("ended")
    /\ run' = IF At("shutdown") THEN [run EXCEPT !.pc = "ended", !.outcome = "interrupted"]
              ELSE [run EXCEPT !.pc = "shutdown", !.outcome = "cancelled"]
    /\ UNCHANGED << graph, lives, state, path, posts >>

-----------------------------------------------------------------------------
(* _execute_node and _resolve_next                                         *)

\* The targets that can be next after a node that succeeded.
Targets(n) ==
    CASE n \in DOMAIN graph.conditional -> graph.conditional[n]
      [] n \in DOMAIN graph.edges -> {graph.edges[n]}
      [] OTHER -> {END}

Succeed(target) ==
    LET n == run.at
    IN  /\ target \in Targets(n)
        /\ path' = Append(path, [node |-> n, ok |-> TRUE, attempts |-> run.attempt])
        /\ state' = Append(state, [by |-> n, whole |-> TRUE])
        /\ run' = IF target \in graph.nodes \cup {END}
                    THEN [run EXCEPT !.pc = "loop", !.at = target]
                    ELSE [run EXCEPT !.pc = "shutdown", !.outcome = "edge"]

\* An attempt failed; what it wrote to the state stays.
Fail(written) ==
    LET n == run.at
    IN  /\ state' = state \o written
        /\ IF run.attempt < graph.nodeRetries
             THEN /\ run' = [run EXCEPT !.pc = IF n \in graph.remote THEN "post" ELSE "process",
                                        !.attempt = @ + 1, !.try = 1]
                  /\ UNCHANGED path
             ELSE /\ path' = Append(path, [node |-> n, ok |-> FALSE, attempts |-> run.attempt])
                  /\ run' = IF n \in DOMAIN graph.error
                              THEN [run EXCEPT !.pc = "loop", !.at = graph.error[n]]
                              ELSE [run EXCEPT !.pc = "shutdown", !.outcome = "node"]

Process ==
    /\ At("process")
    /\ \/ \E target \in Targets(run.at) : Succeed(target)
       \/ \E written \in {<< >>, << [by |-> run.at, whole |-> FALSE] >>} : Fail(written)
    /\ UNCHANGED << graph, lives, posts >>

\* RemoteNode.process: an answer with a status, or none, is tried again after a while; one
\* that cannot be read fails the attempt.
Post(answer) ==
    /\ At("post")
    /\ posts' = posts + 1
    /\ CASE answer = "state" -> \E target \in Targets(run.at) : Succeed(target)
         [] answer = "unreadable" -> Fail(<< >>)
         [] answer = "error" /\ run.try <= graph.remoteRetries ->
                run' = [run EXCEPT !.pc = "backoff"] /\ UNCHANGED << state, path >>
         [] answer = "error" /\ run.try > graph.remoteRetries -> Fail(<< >>)
    /\ UNCHANGED << graph, lives >>

Backoff ==
    /\ At("backoff")
    /\ run' = [run EXCEPT !.pc = "post", !.try = @ + 1]
    /\ UNCHANGED << graph, lives, state, path, posts >>

-----------------------------------------------------------------------------
Next ==
    \/ \E n \in graph.nodes, ok \in BOOLEAN : SetUp(n, ok)
    \/ \E n \in graph.nodes : ShutDown(n)
    \/ Start \/ Loop \/ Ended \/ Cancel \/ Process \/ Backoff
    \/ \E answer \in {"state", "unreadable", "error"} : Post(answer)

Spec == Init /\ [][Next]_vars

-----------------------------------------------------------------------------
(* Properties.                                                             *)

\* Where the run may be after the nodes of `path'.
Follows(i, n) ==
    LET from == path[i].node
    IN  IF path[i].ok THEN n \in Targets(from)
        ELSE from \in DOMAIN graph.error /\ n = graph.error[from] /\ path[i].attempts = graph.nodeRetries

\* The nodes of `path' that succeeded, and the writes that they returned.  What a node
\* returned is in its place: each in one, none left out, and in the order of the path.
Succeeded == {i \in DOMAIN path : path[i].ok}
Returned == {j \in DOMAIN state : state[j].whole}
InOrder(places) ==
    /\ \A j \in Returned : \E i \in Succeeded : places[i] = j
    /\ \A i, k \in Succeeded : i < k => places[i] < places[k]
    /\ \A i \in Succeeded : state[places[i]].by = path[i].node

\* A workflow walks along its edges, along an error edge only after a node that failed in
\* all its attempts.  Its state has what its nodes returned, in the order in which they ran,
\* and of a failed attempt only what a local node wrote in place.  A result is the state at
\* END.  Every node that was set up is shut down, except when a second cancellation cuts the
\* shutdown short.  Attempts and HTTP requests multiply, and no more.
WorkflowsKeepToTheirGraph ==
    /\ \A i \in 1..(Len(path) - 1) : Follows(i, path[i + 1].node)
    /\ path # << >> =>
        /\ path[1].node = graph.entry
        /\ At("loop") => Follows(Len(path), run.at)
    /\ \E places \in [Succeeded -> Returned] : InOrder(places)
    /\ \A i \in DOMAIN state : state[i].whole \/ state[i].by \notin graph.remote
    /\ run.outcome = "result" => run.at = END /\ (path # << >> => Follows(Len(path), END))
    /\ At("ended") => run.outcome = "interrupted" \/ \A n \in graph.agents : lives[n] = "down"
    /\ Len(path) <= run.step
    /\ posts <= graph.nodeRetries * (graph.remoteRetries + 1)
=============================================================================
