------------------------------ MODULE LeasePool ------------------------------
(***************************************************************************)
(* What a work-item store promises to the agents that share it, whatever   *)
(* happens to the rest of a row: an item is held by at most one actor at a *)
(* time, every holder has a deadline, and the item changes hands only      *)
(* through a state in which nobody holds it.                               *)
(***************************************************************************)
EXTENDS Integers

CONSTANTS
    Items, Actors, NoActor,
    Deadlines   \* the times a lease may be given to

NoDeadline == -1

VARIABLES
    holder,     \* who holds the item, or NoActor
    deadline    \* until when, or NoDeadline

vars == << holder, deadline >>

TypeOK ==
    /\ holder \in [Items -> Actors \cup {NoActor}]
    /\ deadline \in [Items -> Deadlines \cup {NoDeadline}]

Init ==
    /\ holder = [i \in Items |-> NoActor]
    /\ deadline = [i \in Items |-> NoDeadline]

Grant(i, a, t) ==
    /\ holder[i] = NoActor
    /\ holder' = [holder EXCEPT ![i] = a]
    /\ deadline' = [deadline EXCEPT ![i] = t]

Extend(i, t) ==
    /\ holder[i] # NoActor
    /\ deadline' = [deadline EXCEPT ![i] = t]
    /\ UNCHANGED holder

Withdraw(i) ==
    /\ holder[i] # NoActor
    /\ holder' = [holder EXCEPT ![i] = NoActor]
    /\ deadline' = [deadline EXCEPT ![i] = NoDeadline]

Next ==
    \E i \in Items :
        \/ \E a \in Actors, t \in Deadlines : Grant(i, a, t)
        \/ \E t \in Deadlines : Extend(i, t)
        \/ Withdraw(i)

Spec == Init /\ [][Next]_vars

-----------------------------------------------------------------------------
\* Somebody holds the item exactly when there is a deadline for it.
HolderHasDeadline ==
    \A i \in Items : holder[i] # NoActor <=> deadline[i] # NoDeadline

\* An item never passes straight from one holder to another.
NoTakeover ==
    [][\A i \in Items :
         holder[i] # NoActor => holder'[i] \in {holder[i], NoActor}]_vars
=============================================================================
