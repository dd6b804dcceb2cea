-------------------------- MODULE TaskQueueProofs --------------------------
(***************************************************************************)
(* Theorems about TaskQueue, for any number of popping threads, any size   *)
(* of the ring and any number of pushes: while the owner keeps to Room,    *)
(* no task is lost or handed out twice, and the ring is a FIFO queue.      *)
(***************************************************************************)
EXTENDS TaskQueue, SequenceTheorems, TLAPS

(* Two positions less than a round apart have different slots.             *)
LEMMA Apart ==
    ASSUME NEW S \in Nat \ {0}, NEW a \in Nat, NEW b \in Nat, a < b, b - a < S
    PROVE  a % S # b % S
<1> SUFFICES ASSUME a % S = b % S PROVE FALSE
  OBVIOUS
<1> DEFINE p == a \div S  q == b \div S  r == a % S
<1>1. p \in Nat /\ q \in Nat /\ r \in Nat /\ a = S * p + r /\ b = S * q + r
  <2>1. a \div S \in Nat /\ a = S * (a \div S) + (a % S) /\ a % S \in Nat
    OBVIOUS
  <2>2. b \div S \in Nat /\ b = S * (b \div S) + (b % S)
    OBVIOUS
  <2> QED BY <2>1, <2>2
<1> HIDE DEF p, q, r
<1>2. CASE q <= p
  <2>1. S * q <= S * p
    BY <1>1, <1>2
  <2> QED BY <2>1, <1>1
<1>3. CASE q > p
  <2>1. S * (q - p) >= S
    BY <1>1, <1>3
  <2>2. S * (q - p) = S * q - S * p
    BY <1>1
  <2> QED BY <2>1, <2>2, <1>1
<1> QED BY <1>1, <1>2, <1>3

LEMMA SlotsApart ==
    ASSUME NEW a \in Nat, NEW b \in Nat, a < b, b - a < Size
    PROVE  Slot(a) # Slot(b)
<1>1. Size \in Nat \ {0}
  BY SizesArePositive
<1>2. a % Size # b % Size
  BY <1>1, Apart
<1> QED BY <1>2 DEF Slot

LEMMA SlotInRing == ASSUME NEW n \in Nat PROVE Slot(n) \in 0 .. Size - 1
BY SizesArePositive DEF Slot

-----------------------------------------------------------------------------
(* The inductive invariant.                                                *)

(* The counters, and what has been handed out: all before the head.        *)
Counters ==
    /\ head \in Nat /\ tail \in Nat /\ tail <= MaxPushes
    /\ reserved \in BOOLEAN
    /\ head <= Stored
    /\ tail - head < Size
    /\ delivered = [t \in Tasks |-> IF t <= head THEN 1 ELSE 0]

(* Where the threads are in pop().  A thread that will win its exchange    *)
(* has the task at the head; one that has won has less than a round left   *)
(* to clear its slot in, and nobody else clears that position.             *)
Threads ==
    /\ pc \in [Poppers -> {"idle", "load", "take", "clear"}]
    /\ position \in [Poppers -> Nat] /\ task \in [Poppers -> Tasks \union {None}]
    /\ \A p \in Poppers : position[p] <= head
    /\ \A p \in Poppers : pc[p] = "take" =>
            task[p] # None /\ (position[p] = head => task[p] = head + 1 /\ head < Stored)
    /\ \A p \in Poppers : pc[p] = "clear" => position[p] < head /\ tail - position[p] < Size
    /\ \A p, q \in Poppers : pc[p] = "clear" /\ pc[q] = "clear" /\ position[p] = position[q] => p = q

(* A position whose slot holds its task: it waits in the queue, or the     *)
(* thread that took it has not cleared the slot.                           *)
Live(n) == (n >= head /\ n < Stored) \/ \E p \in Poppers : pc[p] = "clear" /\ position[p] = n

(* The ring holds the task of every live position and nothing else.        *)
Ring ==
    /\ storage \in [0 .. Size - 1 -> Tasks \union {None}]
    /\ \A n \in Nat : Live(n) => storage[Slot(n)] = n + 1
    /\ \A s \in 0 .. Size - 1 : storage[s] # None =>
            Live(storage[s] - 1) /\ Slot(storage[s] - 1) = s

IInv == Counters /\ Threads /\ Ring

(* Live positions are within a round of each other and of the next push.   *)
LEMMA LiveNear ==
    ASSUME IInv, NEW n \in Nat, Live(n)
    PROVE  n < Stored /\ tail - n < Size
<1>1. head \in Nat /\ tail \in Nat /\ Size \in Nat \ {0} /\ Stored \in Nat /\ Stored <= tail /\ head <= Stored
  BY SizesArePositive DEF IInv, Counters, Stored
<1>2. CASE n >= head /\ n < Stored
  BY <1>1, <1>2 DEF IInv, Counters
<1>3. CASE \E p \in Poppers : pc[p] = "clear" /\ position[p] = n
  BY <1>1, <1>3 DEF IInv, Threads
<1> QED BY <1>2, <1>3 DEF Live

LEMMA LiveApart ==
    ASSUME IInv, NEW m \in Nat, NEW n \in Nat, Live(m), m # n,
           Live(n) \/ (n >= head /\ n <= tail)
    PROVE  Slot(m) # Slot(n)
<1>1. head \in Nat /\ tail \in Nat /\ Size \in Nat \ {0} /\ Stored \in Nat /\ Stored <= tail
  BY SizesArePositive DEF IInv, Counters, Stored
<1>2. tail - m < Size /\ m < Stored
  BY LiveNear
<1>3. tail - n < Size /\ n <= tail
  <2>1. CASE Live(n)
    BY <1>1, <2>1, LiveNear
  <2>2. CASE n >= head /\ n <= tail
    BY <1>1, <2>2 DEF IInv, Counters
  <2> QED BY <2>1, <2>2
<1>4. CASE m < n
  BY <1>1, <1>2, <1>3, <1>4, SlotsApart
<1>5. CASE n < m
  <2>1. m - n < Size
    BY <1>1, <1>2, <1>3
  <2> QED BY <1>5, <2>1, SlotsApart
<1> QED BY <1>4, <1>5

-----------------------------------------------------------------------------
LEMMA Types ==
    ASSUME IInv
    PROVE  /\ head \in Nat /\ tail \in Nat /\ Size \in Nat \ {0} /\ Stored \in Nat
           /\ Stored <= tail /\ head <= Stored /\ reserved \in BOOLEAN
           /\ MaxPushes \in Nat /\ tail <= MaxPushes
BY SizesArePositive DEF IInv, Counters, Stored

LEMMA InitIInv == ASSUME Init PROVE IInv
<1> USE DEF Init
<1>1. Counters
  <2>1. delivered = [t \in Tasks |-> IF t <= head THEN 1 ELSE 0]
    BY DEF Tasks
  <2>2. reserved \in BOOLEAN /\ Stored = 0
    <3>1. reserved \in BOOLEAN /\ ~reserved
      BY Zenon
    <3>2. (IF reserved THEN 1 ELSE 0) = 0
      BY <3>1, Zenon
    <3>3. Stored = tail - 0
      BY <3>2, Zenon DEF Stored
    <3> QED BY <3>1, <3>3
  <2>3. head \in Nat /\ tail \in Nat /\ tail <= MaxPushes /\ tail - head < Size
    BY SizesArePositive
  <2>4. head <= Stored
    BY <2>2
  <2> QED BY <2>1, <2>2, <2>3, <2>4 DEF Counters
<1>2. Threads
  BY DEF Threads, Tasks
<1>3. Ring
  <2>1. \A n \in Nat : ~Live(n)
    BY DEF Live, Stored
  <2> QED BY <2>1 DEF Ring, None
<1> QED BY <1>1, <1>2, <1>3 DEF IInv

(* The owner takes a position.                                             *)
LEMMA ReserveKeeps == ASSUME IInv, Reserve PROVE IInv'
<1> USE DEF Reserve, popVars
<1>0. Stored' = Stored /\ \A n \in Nat : Live(n)' <=> Live(n)
  BY Types DEF Live, Stored
<1>1. Counters'
  BY <1>0, Types DEF IInv, Counters, Room, Stored
<1>2. Threads'
  BY <1>0, Types DEF IInv, Threads, Room
<1>3. Ring'
  <2>1. Ring /\ storage' = storage
    BY DEF IInv
  <2>2. ASSUME NEW s \in 0 .. Size - 1, storage[s] # None PROVE storage[s] - 1 \in Nat
    BY <2>1, <2>2 DEF Ring, Tasks, None
  <2> QED BY <1>0, <2>1, <2>2 DEF Ring
<1> QED BY <1>1, <1>2, <1>3 DEF IInv

(* The owner stores the task: its position becomes live, in a slot no live *)
(* position uses.                                                          *)
LEMMA StoreKeeps == ASSUME IInv, Store PROVE IInv'
<1> USE DEF Store, popVars
<1> DEFINE new == tail - 1
<1>0. /\ new \in Nat /\ Stored = new /\ Stored' = tail /\ head <= new
      /\ \A n \in Nat : Live(n)' <=> Live(n) \/ n = new
  BY Types DEF Live, Stored
<1>1. Counters'
  <2>1. reserved' \in BOOLEAN
    OBVIOUS
  <2>2. head' = head /\ tail' = tail /\ delivered' = delivered /\ head <= Stored'
    BY <1>0, Types
  <2> QED BY <2>1, <2>2 DEF IInv, Counters
<1>2. Threads'
  BY <1>0, Types DEF IInv, Threads
<1>3. Ring'
  <2>1. \A n \in Nat : Live(n) => Slot(n) # Slot(new)
    BY <1>0, Types, LiveNear, LiveApart
  <2>2. Slot(new) \in 0 .. Size - 1 /\ tail \in Tasks
    BY <1>0, Types, SlotInRing DEF Tasks
  <2>3. /\ storage' \in [0 .. Size - 1 -> Tasks \union {None}]
        /\ storage'[Slot(new)] = tail
        /\ \A s \in 0 .. Size - 1 : s # Slot(new) => storage'[s] = storage[s]
    BY <2>2 DEF IInv, Ring
  <2>4. ASSUME NEW n \in Nat, Live(n)' PROVE storage'[Slot(n)] = n + 1
    <3>1. CASE n = new
      BY <3>1, <2>3, Types
    <3>2. CASE Live(n)
      <4>1. storage'[Slot(n)] = storage[Slot(n)]
        BY <3>2, <2>1, <2>3, SlotInRing
      <4> QED BY <4>1, <3>2 DEF IInv, Ring
    <3> QED BY <3>1, <3>2, <2>4, <1>0
  <2>5. ASSUME NEW s \in 0 .. Size - 1, storage'[s] # None
        PROVE  Live(storage[s] - 1)' /\ Slot(storage'[s] - 1) = s
    <3>1. CASE s = Slot(new)
      <4>1. storage'[s] - 1 = new /\ Live(new)'
        BY <3>1, <1>0, <2>3, Types
      <4> QED BY <4>1, <3>1
    <3>2. CASE s # Slot(new)
      <4>1. storage'[s] = storage[s] /\ storage[s] - 1 \in Nat
        BY <3>2, <2>3, <2>5, Types DEF IInv, Ring, Tasks, None
      <4> QED BY <4>1, <2>5, <1>0 DEF IInv, Ring
    <3> QED BY <3>1, <3>2
  <2> QED BY <2>3, <2>4, <2>5 DEF Ring, Slot
<1> QED BY <1>1, <1>2, <1>3 DEF IInv

(* A step of a thread that neither takes a task nor clears a slot.         *)
LEMMA RingStays ==
    ASSUME IInv, UNCHANGED <<head, tail, reserved, storage>>, NEW p \in Poppers, pc[p] # "clear",
           pc' = [pc EXCEPT ![p] = pc'[p]], pc'[p] # "clear",
           \A q \in Poppers \ {p} : position'[q] = position[q]
    PROVE  Ring'
<1>1. \A q \in Poppers : pc'[q] = "clear" <=> pc[q] = "clear"
  BY DEF IInv, Threads
<1>2. Stored' = Stored /\ \A n : Live(n)' <=> Live(n)
  BY <1>1 DEF Live, Stored
<1> QED BY <1>2 DEF IInv, Ring, Slot

LEMMA LoadHeadKeeps == ASSUME IInv, NEW p \in Poppers, LoadHead(p) PROVE IInv'
<1> USE DEF LoadHead
<1>1. Counters'
  BY DEF IInv, Counters, Stored
<1>2. Threads'
  BY Types DEF IInv, Threads, Stored
<1>3. Ring'
  BY RingStays DEF IInv, Threads
<1> QED BY <1>1, <1>2, <1>3 DEF IInv

(* What a thread finds at the head is the task at the head.                *)
LEMMA LoadSlotKeeps == ASSUME IInv, NEW p \in Poppers, LoadSlot(p) PROVE IInv'
<1> USE DEF LoadSlot
<1> DEFINE t == storage[Slot(position[p])]
<1>0. position[p] \in Nat /\ t \in Tasks \union {None}
  BY Types, SlotInRing DEF IInv, Threads, Ring
<1>1. Counters'
  BY DEF IInv, Counters, Stored
<1>2. ASSUME t # None, position[p] = head
      PROVE  t = head + 1 /\ head < Stored
  <2>1. t - 1 \in Nat /\ Live(t - 1) /\ Slot(t - 1) = Slot(head)
    <3>1. Slot(head) \in 0 .. Size - 1 /\ storage[Slot(head)] = t
      BY <1>2, Types, SlotInRing
    <3>2. t - 1 \in Nat
      BY <1>2, <1>0, Types DEF Tasks, None
    <3> QED BY <3>1, <3>2, <1>2 DEF IInv, Ring
  <2>2. t - 1 = head
    BY <2>1, Types, LiveApart
  <2>3. t - 1 < Stored
    BY <2>1, LiveNear
  <2> QED BY <1>0, <2>1, <2>2, <2>3, Types DEF Tasks, None
<1>3. Threads'
  BY <1>0, <1>2, Types DEF IInv, Threads, Stored
<1>4. Ring'
  BY RingStays DEF IInv, Threads
<1> QED BY <1>1, <1>3, <1>4 DEF IInv

LEMMA TakeFailsKeeps == ASSUME IInv, NEW p \in Poppers, TakeFails(p) PROVE IInv'
<1> USE DEF TakeFails
<1>1. Counters'
  BY DEF IInv, Counters, Stored
<1>2. Threads'
  BY Types DEF IInv, Threads, Stored
<1>3. Ring'
  BY RingStays DEF IInv, Threads
<1> QED BY <1>1, <1>2, <1>3 DEF IInv

(* The exchange hands out the task at the head, for the first time.        *)
LEMMA TakeKeeps == ASSUME IInv, NEW p \in Poppers, Take(p) PROVE IInv'
<1> USE DEF Take, TakeWins
<1>0. /\ task[p] = head + 1 /\ head < Stored /\ head + 1 \in Tasks
      /\ Stored' = Stored /\ position' = position /\ position[p] = head
      /\ \A q \in Poppers : pc'[q] = IF q = p THEN "clear" ELSE pc[q]
  BY Types DEF IInv, Threads, Stored, Tasks
<1>1. Counters'
  <2>1. delivered' = [u \in Tasks |-> IF u <= head' THEN 1 ELSE 0]
    <3>1. delivered = [u \in Tasks |-> IF u <= head THEN 1 ELSE 0]
      BY DEF IInv, Counters
    <3>2. ASSUME NEW u \in Tasks PROVE delivered'[u] = IF u <= head' THEN 1 ELSE 0
      <4>1. CASE u = head + 1
        BY <4>1, <3>1, <1>0, Types DEF Tasks
      <4>2. CASE u # head + 1
        BY <4>2, <3>1, <1>0, Types DEF Tasks
      <4> QED BY <4>1, <4>2
    <3>3. delivered' = [u \in Tasks |-> delivered'[u]]
      BY <3>1
    <3> QED BY <3>2, <3>3
  <2> QED BY <1>0, <2>1, Types DEF IInv, Counters
<1>2. Threads'
  BY <1>0, Types DEF IInv, Threads, Counters
<1>3. Ring'
  <2>1. \A n \in Nat : Live(n)' <=> Live(n)
    BY <1>0, Types DEF Live
  <2> QED BY <2>1 DEF IInv, Ring, Slot, Tasks, None
<1> QED BY <1>1, <1>2, <1>3 DEF IInv

(* Clearing its slot, a thread takes nothing from any other live position. *)
LEMMA ClearKeeps == ASSUME IInv, NEW p \in Poppers, Clear(p) PROVE IInv'
<1> USE DEF Clear
<1> DEFINE old == position[p]
<1>0. /\ old \in Nat /\ old < head /\ Live(old) /\ Stored' = Stored
      /\ \A n \in Nat : Live(n)' <=> Live(n) /\ n # old
  BY Types DEF IInv, Threads, Live, Stored
<1>1. Counters'
  BY DEF IInv, Counters, Stored
<1>2. Threads'
  BY <1>0, Types DEF IInv, Threads
<1>3. Ring'
  <2>1. \A n \in Nat : Live(n) /\ n # old => Slot(n) # Slot(old)
    BY <1>0, LiveApart
  <2>2. Slot(old) \in 0 .. Size - 1
    BY <1>0, SlotInRing
  <2>3. /\ storage' \in [0 .. Size - 1 -> Tasks \union {None}]
        /\ storage'[Slot(old)] = None
        /\ \A s \in 0 .. Size - 1 : s # Slot(old) => storage'[s] = storage[s]
    BY <2>2 DEF IInv, Ring
  <2>4. \A n \in Nat : Live(n)' => storage'[Slot(n)] = n + 1
    BY <1>0, <2>1, <2>3, SlotInRing DEF IInv, Ring
  <2>5. ASSUME NEW s \in 0 .. Size - 1, storage'[s] # None
        PROVE  Live(storage[s] - 1)' /\ Slot(storage'[s] - 1) = s
    <3>1. s # Slot(old) /\ storage'[s] = storage[s]
      BY <2>3, <2>5
    <3>2. storage[s] - 1 \in Nat /\ Live(storage[s] - 1) /\ Slot(storage[s] - 1) = s
      BY <3>1, <2>5, Types DEF IInv, Ring, Tasks, None
    <3> QED BY <3>1, <3>2, <1>0
  <2> QED BY <2>3, <2>4, <2>5 DEF Ring, Slot
<1> QED BY <1>1, <1>2, <1>3 DEF IInv

LEMMA StepKeeps == ASSUME IInv, [Next]_vars PROVE IInv'
<1>1. CASE Reserve
  BY <1>1, ReserveKeeps
<1>2. CASE Store
  BY <1>2, StoreKeeps
<1>3. ASSUME NEW p \in Poppers, Pop(p) PROVE IInv'
  BY <1>3, LoadHeadKeeps, LoadSlotKeeps, TakeFailsKeeps, TakeKeeps, ClearKeeps DEF Pop
<1>4. CASE UNCHANGED vars
  BY <1>4 DEF IInv, Counters, Threads, Ring, Live, Stored, Slot, Tasks, None, vars, popVars
<1> QED BY <1>1, <1>2, <1>3, <1>4 DEF Next

(* The inductive invariant holds (TaskManager.cpp, push and pop).          *)
THEOREM Inductive == Spec => []IInv
<1>1. Init => IInv
  BY InitIInv
<1>2. IInv /\ [Next]_vars => IInv'
  BY StepKeeps
<1> QED BY <1>1, <1>2, PTL DEF Spec

-----------------------------------------------------------------------------
LEMMA InvTypes == ASSUME IInv PROVE TypeOK
<1>1. ASSUME NEW p \in Poppers PROVE position[p] \in 0 .. MaxPushes
  <2>1. position[p] \in Nat /\ position[p] <= head
    BY DEF IInv, Threads
  <2> QED BY <2>1, Types
<1>2. delivered \in [Tasks -> Nat]
  BY DEF IInv, Counters
<1> QED BY <1>1, <1>2, Types DEF IInv, Threads, Ring, TypeOK

(* Types of the state.                                                     *)
THEOREM TypeCorrect == Spec => []TypeOK
BY Inductive, InvTypes, PTL

(* No task is handed out twice: what Task.hpp:205 verifies when the last   *)
(* job of a task is done never fails on account of the queues.             *)
THEOREM TasksOnce == Spec => []DeliveredOnce
<1>1. IInv => DeliveredOnce
  BY DEF IInv, Counters, DeliveredOnce
<1> QED BY <1>1, Inductive, PTL

(* The head never passes the tail, and every waiting position holds its    *)
(* own task, whatever the other threads are still clearing.                *)
THEOREM TasksKept == Spec => []NothingLost
<1>1. ASSUME IInv PROVE NothingLost
  <2>1. ASSUME NEW n \in head .. Stored - 1 PROVE storage[Slot(n)] = n + 1
    <3>1. n \in Nat /\ Live(n)
      BY <1>1, Types DEF Live
    <3> QED BY <1>1, <3>1 DEF IInv, Ring
  <2> QED BY <1>1, <2>1, Types DEF NothingLost
<1> QED BY <1>1, Inductive, PTL

-----------------------------------------------------------------------------
(* Refinement of TaskFifo.                                                 *)
Waiting == [i \in 1 .. Stored - head |-> storage[Slot(head + i - 1)]]

(* What waits in the ring are the tasks from the head on, in order.        *)
LEMMA WaitingIs == IInv => Waiting = [i \in 1 .. Stored - head |-> head + i]
<1> SUFFICES ASSUME IInv PROVE Waiting = [i \in 1 .. Stored - head |-> head + i]
  OBVIOUS
<1>1. ASSUME NEW i \in 1 .. Stored - head PROVE storage[Slot(head + i - 1)] = head + i
  <2>1. head + i - 1 \in Nat /\ Live(head + i - 1) /\ (head + i - 1) + 1 = head + i
    BY Types DEF Live
  <2> QED BY <2>1 DEF IInv, Ring
<1> QED BY <1>1 DEF Waiting

(* The sequence of the k numbers after h, one longer and one shorter.      *)
After(h, k) == [i \in 1 .. k |-> h + i]

LEMMA AfterIsSeq ==
    ASSUME NEW h \in Nat, NEW k \in Nat
    PROVE  /\ After(h, k) \in Seq(Nat) /\ Len(After(h, k)) = k
           /\ \A i \in 1 .. k : After(h, k)[i] = h + i
<1>1. After(h, k) \in [1 .. k -> Nat]
  BY DEF After
<1> QED BY <1>1 DEF After

LEMMA AppendNext ==
    ASSUME NEW h \in Nat, NEW k \in Nat
    PROVE  After(h, k + 1) = Append(After(h, k), h + k + 1)
<1> DEFINE s == After(h, k + 1)  t == Append(After(h, k), h + k + 1)
<1>1. s \in Seq(Nat) /\ Len(s) = k + 1 /\ \A i \in 1 .. k + 1 : s[i] = h + i
  BY AfterIsSeq
<1>2. /\ After(h, k) \in Seq(Nat) /\ Len(After(h, k)) = k
      /\ \A i \in 1 .. k : After(h, k)[i] = h + i
  BY AfterIsSeq
<1>3. /\ t \in Seq(Nat) /\ Len(t) = k + 1 /\ t[k + 1] = h + k + 1
      /\ \A i \in 1 .. k : t[i] = After(h, k)[i]
  BY <1>2, AppendProperties
<1>4. \A i \in 1 .. Len(s) : s[i] = t[i]
  BY <1>1, <1>2, <1>3
<1> HIDE DEF s, t
<1>5. s = t
  BY <1>1, <1>3, <1>4, SeqEqual
<1> QED BY <1>5 DEF s, t

LEMMA DropFirst ==
    ASSUME NEW h \in Nat, NEW k \in Nat
    PROVE  /\ After(h, k + 1) # << >> /\ Head(After(h, k + 1)) = h + 1
           /\ Tail(After(h, k + 1)) = After(h + 1, k)
<1> DEFINE s == After(h, k + 1)  t == After(h + 1, k)
<1>1. s \in Seq(Nat) /\ Len(s) = k + 1 /\ \A i \in 1 .. k + 1 : s[i] = h + i
  BY AfterIsSeq
<1>2. t \in Seq(Nat) /\ Len(t) = k /\ \A i \in 1 .. k : t[i] = h + 1 + i
  BY AfterIsSeq
<1> HIDE DEF s, t
<1>3. s # << >>
  BY <1>1
<1>4. Head(s) = h + 1
  BY <1>1, <1>3
<1>5. /\ Tail(s) \in Seq(Nat) /\ Len(Tail(s)) = k
      /\ \A i \in 1 .. k : Tail(s)[i] = s[i + 1]
  BY <1>1, <1>3, HeadTailProperties
<1>6. \A i \in 1 .. Len(t) : t[i] = Tail(s)[i]
  BY <1>1, <1>2, <1>5
<1>7. t = Tail(s)
  BY <1>2, <1>5, <1>6, SeqEqual
<1> QED BY <1>3, <1>4, <1>7 DEF s, t

LEMMA FifoInit == ASSUME Init PROVE Fifo!Init
<1>1. Stored = 0 /\ head = 0
  <2>1. reserved \in BOOLEAN /\ ~reserved
    BY Zenon DEF Init
  <2>2. (IF reserved THEN 1 ELSE 0) = 0
    BY <2>1, Zenon
  <2>3. Stored = tail - 0
    BY <2>2, Zenon DEF Stored
  <2> QED BY <2>3 DEF Init
<1>2. Waiting = << >>
  BY <1>1 DEF Waiting
<1> QED BY <1>2 DEF Init, Fifo!Init, Waiting

(* Every step pushes one task, pops one, or leaves the queue as it was.    *)
LEMMA FifoStep ==
    ASSUME IInv, [Next]_vars
    PROVE  [Fifo!Push \/ Fifo!Pop]_<<Waiting, delivered>>
<1>0. IInv'
  BY StepKeeps
<1>1. Waiting = After(head, Stored - head) /\ Waiting' = After(head', Stored' - head')
  <2>1. (IInv => Waiting = [i \in 1 .. Stored - head |-> head + i])'
    BY WaitingIs, PTL
  <2> QED BY <1>0, <2>1, WaitingIs DEF After
<1>2. ASSUME head' = head, Stored' = Stored, delivered' = delivered
      PROVE  UNCHANGED <<Waiting, delivered>>
  BY <1>1, <1>2
<1>3. CASE Store
  <2>1. head' = head /\ delivered' = delivered /\ Stored + 1 = tail /\ Stored' = tail /\ tail \in Tasks
    <3>1. reserved /\ ~reserved' /\ tail' = tail
      BY <1>3 DEF Store
    <3>2. (IF reserved THEN 1 ELSE 0) = 1 /\ (IF reserved' THEN 1 ELSE 0) = 0
      BY <3>1, Zenon
    <3>3. Stored = tail - 1 /\ Stored' = tail' - 0
      BY <3>2, Zenon DEF Stored
    <3> QED BY <1>3, <3>1, <3>3, Types DEF Store, popVars, Tasks
  <2>2. Waiting' = Append(Waiting, tail)
    <3> DEFINE k == Stored - head
    <3>1. k \in Nat /\ head \in Nat /\ Stored' - head' = k + 1 /\ head + k + 1 = tail
      BY <2>1, Types
    <3> HIDE DEF k
    <3>2. After(head, k + 1) = Append(After(head, k), head + k + 1)
      BY <3>1, AppendNext
    <3> QED BY <1>1, <2>1, <3>1, <3>2 DEF k
  <2>3. Fifo!Push
    BY <2>1, <2>2 DEF Fifo!Push, Waiting
  <2> QED BY <2>3
<1>4. ASSUME NEW p \in Poppers, Take(p) PROVE Fifo!Pop
  <2>1. /\ head' = head + 1 /\ Stored' = Stored /\ head < Stored
        /\ delivered' = [delivered EXCEPT ![head + 1] = @ + 1]
    BY <1>4, Types DEF Take, TakeWins, IInv, Threads, Stored
  <2>2. Waiting # << >> /\ Head(Waiting) = head + 1 /\ Waiting' = Tail(Waiting)
    <3> DEFINE k == Stored - head - 1
    <3>1. k \in Nat /\ head \in Nat /\ Stored - head = k + 1 /\ Stored' - head' = k
      BY <2>1, Types
    <3> HIDE DEF k
    <3>2. /\ After(head, k + 1) # << >> /\ Head(After(head, k + 1)) = head + 1
          /\ Tail(After(head, k + 1)) = After(head + 1, k)
      BY <3>1, DropFirst
    <3> QED BY <1>1, <2>1, <3>1, <3>2
  <2> QED BY <2>1, <2>2 DEF Fifo!Pop, Waiting
<1>5. CASE Reserve
  <2>1. head' = head /\ Stored' = Stored /\ delivered' = delivered
    BY <1>5, Types DEF Reserve, Stored
  <2> QED BY <1>2, <2>1
<1>6. ASSUME NEW p \in Poppers, LoadHead(p) \/ LoadSlot(p) \/ TakeFails(p) \/ Clear(p)
      PROVE  UNCHANGED <<Waiting, delivered>>
  <2>1. head' = head /\ Stored' = Stored /\ delivered' = delivered
    BY <1>6 DEF LoadHead, LoadSlot, TakeFails, Clear, Stored
  <2> QED BY <1>2, <2>1
<1>7. CASE UNCHANGED vars
  <2>1. head' = head /\ Stored' = Stored /\ delivered' = delivered
    BY <1>7 DEF vars, Stored
  <2> QED BY <1>2, <2>1
<1> QED BY <1>3, <1>4, <1>5, <1>6, <1>7 DEF Next, Pop

(* push() and pop() implement the FIFO queue.                              *)
THEOREM QueueIsFifo == Spec => ImplementsFifo
<1>1. Init => Fifo!Init
  BY FifoInit
<1>2. IInv /\ [Next]_vars => [Fifo!Push \/ Fifo!Pop]_<<Waiting, delivered>>
  BY FifoStep
<1> QED BY <1>1, <1>2, Inductive, PTL DEF Spec, ImplementsFifo, Fifo!Spec, Waiting
=============================================================================
