------------------------------ MODULE TaskFifo ------------------------------
(***************************************************************************)
(* What a task queue promises: tasks leave it in the order they entered,   *)
(* each exactly once.                                                      *)
(***************************************************************************)
EXTENDS Naturals, Sequences

CONSTANT Tasks

VARIABLES
    queue,      \* tasks that entered and did not leave
    delivered   \* how often each task was handed out

Init ==
    /\ queue = << >>
    /\ delivered = [t \in Tasks |-> 0]

Push ==
    /\ \E t \in Tasks : queue' = Append(queue, t)
    /\ UNCHANGED delivered

Pop ==
    /\ queue # << >>
    /\ delivered' = [delivered EXCEPT ![Head(queue)] = @ + 1]
    /\ queue' = Tail(queue)

Spec == Init /\ [][Push \/ Pop]_<<queue, delivered>>
=============================================================================
