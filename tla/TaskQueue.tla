----------------------------- MODULE TaskQueue -----------------------------
(***************************************************************************)
(* The queue of tasks each thread of TaskManager.cpp owns: a ring of       *)
(* pointers between two counters that only grow.  The owner pushes, the    *)
(* owner and every other thread pop.  Each load, store and atomic          *)
(* operation of push() and pop() is a step; the counters are taken without *)
(* their wrap at the width of size_t, the ring with its wrap.              *)
(*                                                                         *)
(* Nothing in the code keeps the owner from a position whose slot is still *)
(* in use: TASK_STORAGE_SIZE is taken to be enough; Room says for what.    *)
(***************************************************************************)
EXTENDS Naturals, Sequences

CONSTANTS
    Poppers,        \* the threads that pop, the owner among them
    Size,           \* TASK_STORAGE_SIZE
    MaxPushes       \* bound: tasks pushed

ASSUME SizesArePositive == Size \in Nat \ {0} /\ MaxPushes \in Nat

Tasks == 1 .. MaxPushes
None == 0

VARIABLES
    head,           \* m_head_pos
    tail,           \* m_tail_pos
    storage,        \* m_storage
    reserved,       \* push(): position taken, the task not stored in it yet
    pc,             \* where each popper is in pop()
    position, task, \* its head_pos and task
    delivered       \* history: how often each task was returned by pop()

popVars == <<pc, position, task>>
vars == <<head, tail, storage, reserved, popVars, delivered>>

Slot(p) == p % Size

Init ==
    /\ head = 0 /\ tail = 0 /\ reserved = FALSE
    /\ storage = [s \in 0 .. Size - 1 |-> None]
    /\ pc = [p \in Poppers |-> "idle"]
    /\ position = [p \in Poppers |-> 0] /\ task = [p \in Poppers |-> None]
    /\ delivered = [t \in Tasks |-> 0]

\* Mutant: the bound VERIFY2 checks, which lets the ring fill up.
RingNotFull ==
    /\ tail - head < Size
    /\ \A p \in Poppers : pc[p] = "clear" => tail - position[p] < Size

(* What TASK_STORAGE_SIZE is relied on for: whoever took a task has        *)
(* cleared its slot before the ring is full from there on, and one slot    *)
(* stays empty, which is one more than VERIFY2 asks.                       *)
Room ==
    /\ tail + 1 - head < Size
    /\ \A p \in Poppers : pc[p] = "clear" => tail + 1 - position[p] < Size

(* The owner's fetch_add on the tail; the n-th push is that of task n.     *)
Reserve ==
    /\ ~reserved /\ tail < MaxPushes
    /\ Room
    /\ tail' = tail + 1 /\ reserved' = TRUE
    /\ UNCHANGED <<head, storage, popVars, delivered>>

Store ==
    /\ reserved
    /\ storage' = [storage EXCEPT ![Slot(tail - 1)] = tail]
    /\ reserved' = FALSE
    /\ UNCHANGED <<head, tail, popVars, delivered>>

LoadHead(p) ==
    /\ pc[p] = "idle"
    /\ position' = [position EXCEPT ![p] = head]
    /\ pc' = [pc EXCEPT ![p] = "load"]
    /\ UNCHANGED <<head, tail, storage, reserved, task, delivered>>

(* An empty slot: there is nothing to pop, or it is not stored yet.        *)
LoadSlot(p) ==
    /\ pc[p] = "load"
    /\ LET t == storage[Slot(position[p])]
       IN /\ task' = [task EXCEPT ![p] = t]
          /\ pc' = [pc EXCEPT ![p] = IF t = None THEN "idle" ELSE "take"]
    /\ UNCHANGED <<head, tail, storage, reserved, position, delivered>>

(* compare_exchange on the head; the weak form may fail for no reason.     *)
TakeFails(p) ==
    /\ pc[p] = "take"
    /\ pc' = [pc EXCEPT ![p] = "idle"] /\ task' = [task EXCEPT ![p] = None]
    /\ UNCHANGED <<head, tail, storage, reserved, position, delivered>>

\* Mutant: the head is stored without a look whether it moved.
TakeAnyway(p) == TRUE
TakeWins(p) == head = position[p]
Take(p) ==
    /\ pc[p] = "take" /\ TakeWins(p)
    /\ head' = head + 1
    /\ delivered' = [delivered EXCEPT ![task[p]] = @ + 1]
    /\ pc' = [pc EXCEPT ![p] = "clear"]
    /\ UNCHANGED <<tail, storage, reserved, position, task>>

Clear(p) ==
    /\ pc[p] = "clear"
    /\ storage' = [storage EXCEPT ![Slot(position[p])] = None]
    /\ pc' = [pc EXCEPT ![p] = "idle"] /\ task' = [task EXCEPT ![p] = None]
    /\ UNCHANGED <<head, tail, reserved, position, delivered>>

(* Threads run: a push and a pop begun come to their end, and the weak     *)
(* exchange does not fail for no reason for ever.                          *)
Pop(p) == LoadHead(p) \/ LoadSlot(p) \/ TakeFails(p) \/ Take(p) \/ Clear(p)
Next == Reserve \/ Store \/ \E p \in Poppers : Pop(p)
Spec == Init /\ [][Next]_vars
FairSpec ==
    /\ Spec /\ WF_vars(Reserve) /\ WF_vars(Store)
    /\ \A p \in Poppers : WF_vars(Pop(p)) /\ SF_vars(Take(p))

-----------------------------------------------------------------------------
(* Types of the state.                                                     *)
TypeOK ==
    /\ head \in 0 .. MaxPushes /\ tail \in 0 .. MaxPushes /\ reserved \in BOOLEAN
    /\ storage \in [0 .. Size - 1 -> Tasks \union {None}]
    /\ pc \in [Poppers -> {"idle", "load", "take", "clear"}]
    /\ position \in [Poppers -> 0 .. MaxPushes]
    /\ task \in [Poppers -> Tasks \union {None}]
    /\ delivered \in [Tasks -> Nat]

(* The positions whose task can be popped.                                 *)
Stored == tail - (IF reserved THEN 1 ELSE 0)

(* No task is handed out twice                                             *)
(* (Task.hpp:203, "The same task was executed two times").                 *)
DeliveredOnce == \A t \in Tasks : delivered[t] <= 1

(* The head never passes the tail, and every stored position still in the  *)
(* queue holds its own task: none is overwritten, none wiped out by a pop  *)
(* that comes late.                                                        *)
NothingLost ==
    /\ head <= Stored
    /\ \A n \in head .. Stored - 1 : storage[Slot(n)] = n + 1

(* push() and pop() behave as the queue of TaskFifo, a push entering the   *)
(* queue with its store and a pop leaving it with its exchange.            *)
Fifo == INSTANCE TaskFifo WITH
            queue <- [i \in 1 .. Stored - head |-> storage[Slot(head + i - 1)]]
ImplementsFifo == Fifo!Spec

(* Every task pushed is handed out in the end.                             *)
EveryTaskLeaves == \A t \in Tasks : tail >= t ~> delivered[t] = 1
=============================================================================
