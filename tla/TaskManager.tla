---------------------------- MODULE TaskManager ----------------------------
(***************************************************************************)
(* The scheduler of TaskManager.cpp and the tasks of Task.hpp.  Each       *)
(* thread pushes to a queue of its own; it executes tasks of its own queue *)
(* and, when that gives none, of the others'.  A thread that waits for a   *)
(* task executes others meanwhile, so a thread has a stack of tasks, each  *)
(* but the top one waiting.  A task is finished when it has run and all    *)
(* its children are finished.  Worker threads sleep on one auto-reset      *)
(* event; a thread leaves the list of workers while no worker is active.   *)
(*                                                                         *)
(* The queues are those of TaskFifo, which TaskQueue implements: a pop is  *)
(* the look at the first task and the exchange that takes it, or fails     *)
(* when another thread took it between.  The program waits for every task  *)
(* it adds before it ends, as the callers of AddTask do: what a drained    *)
(* queue still held at the exit is not in question here.                   *)
(***************************************************************************)
EXTENDS Naturals, Sequences, FiniteSets

CONSTANTS
    Main,           \* the primary thread, on which the program ends
    Workers,        \* the worker threads
    Tasks,          \* the tasks the program creates
    Program,        \* the task that stands for the primary thread's program
    Body(_),        \* of each task: what it does, in order: <<"add", t>>, <<"wait", t>>
    Parent(_)       \* the task it is a child of, or Nobody

Threads == {Main} \union Workers
Nobody == "nobody"
None == "none"

(* The Program exists from the start; every other task is added at one     *)
(* place, and as a child only by its parent (r2.h:63, ParallelFor.hpp:172, *)
(* 173), so a parent is never over when it gets a child (Task.hpp:163).    *)
Calls(p) == {i \in DOMAIN Body(p) : Body(p)[i][1] = "add"}
ASSUME TasksAreAddedOnce ==
    /\ Main \notin Workers /\ Nobody \notin Tasks /\ None \notin Tasks
    /\ Program \in Tasks /\ Parent(Program) = Nobody
    /\ \A p \in Tasks :
        /\ Parent(p) \in Tasks \union {Nobody}
        /\ Body(p) \in Seq({"add", "wait"} \X Tasks)
        /\ \A i \in Calls(p) :
            /\ Body(p)[i][2] # Program /\ Parent(Body(p)[i][2]) \in {Nobody, p}
            /\ \A q \in Tasks : \A j \in Calls(q) : Body(q)[j] = Body(p)[i] => q = p /\ j = i

VARIABLES
    queue,          \* the queue of each thread
    jobs,           \* of each task, m_data.jobs; 0 before it is created
    created,        \* the tasks created
    ran,            \* history: how often each task was begun
    stack,          \* of each thread: the tasks it executes, the last one running
    search,         \* of each thread: where it is in ExecuteOneTask
    base,           \* of each thread: where it is outside of tasks
    active,         \* the workers counted in activeWorkersCount
    listed,         \* workers
    lock,           \* who holds workersLock
    signal,         \* newWorkArrived is set
    shouldPause, shouldStop

taskVars == <<queue, jobs, created, ran>>
workVars == <<stack, search>>
listVars == <<active, listed, lock, shouldPause, shouldStop>>
vars == <<taskVars, workVars, base, listVars, signal>>

(* A task being executed: the step of its body it is at, whether a child   *)
(* was pushed and the event not yet set, and, when the body is through,    *)
(* the task whose count goes down next.                                    *)
Frame(t) == [task |-> t, at |-> 1, pushed |-> FALSE, up |-> None]
Top(w) == stack[w][Len(stack[w])]
Busy(w) == stack[w] # << >>
SetTop(w, f) == stack' = [stack EXCEPT ![w][Len(stack[w])] = f]
InBody(w) == Busy(w) /\ Top(w).up = None /\ Top(w).at <= Len(Body(Top(w).task))
Doing(w) == Body(Top(w).task)[Top(w).at]
IsFinished(t) == jobs[t] = 0

NoSearch == [phase |-> "none", from |-> Nobody, task |-> None, tried |-> {}]
Searching(w) == search[w].phase # "none"
Drained(w) == ~Busy(w) /\ ~Searching(w)

Init ==
    /\ queue = [w \in Threads |-> << >>]
    /\ jobs = [t \in Tasks |-> IF t = Program THEN 1 ELSE 0]
    /\ created = {Program}
    /\ ran = [t \in Tasks |-> IF t = Program THEN 1 ELSE 0]
    /\ stack = [w \in Threads |-> IF w = Main THEN <<Frame(Program)>> ELSE << >>]
    /\ search = [w \in Threads |-> NoSearch]
    /\ base = [w \in Threads |-> IF w = Main THEN "program" ELSE "new"]
    /\ active = {} /\ listed = {Main} /\ lock = Nobody
    /\ signal = FALSE /\ shouldPause = FALSE /\ shouldStop = FALSE

Goto(w, b) == base' = [base EXCEPT ![w] = b]

-----------------------------------------------------------------------------
(* Task's constructor and PushTask: the child is counted with its parent   *)
(* before anyone can see it, and the event is set after the push.          *)
\* Mutant: the child is not counted.
BeginAlone(t) == jobs' = [jobs EXCEPT ![t] = 1]
Begin(t) == jobs' = [x \in Tasks |-> IF x = t THEN 1 ELSE IF x = Parent(t) THEN jobs[x] + 1 ELSE jobs[x]]
Add(w) ==
    /\ InBody(w) /\ ~Searching(w) /\ Doing(w)[1] = "add" /\ ~Top(w).pushed
    /\ LET t == Doing(w)[2]
       IN /\ Begin(t)
          /\ created' = created \union {t}
          /\ queue' = [queue EXCEPT ![w] = Append(@, t)]
    /\ SetTop(w, [Top(w) EXCEPT !.pushed = TRUE])
    /\ UNCHANGED <<ran, search, base, listVars, signal>>

SetNewWork(w) ==
    /\ InBody(w) /\ Top(w).pushed
    /\ signal' = TRUE
    /\ SetTop(w, [Top(w) EXCEPT !.pushed = FALSE, !.at = @ + 1])
    /\ UNCHANGED <<taskVars, search, base, listVars>>

(* Wait() with the task finished; otherwise it executes one task and looks *)
(* again.                                                                  *)
WaitEnds(w) ==
    /\ InBody(w) /\ ~Searching(w) /\ Doing(w)[1] = "wait" /\ IsFinished(Doing(w)[2])
    /\ SetTop(w, [Top(w) EXCEPT !.at = @ + 1])
    /\ UNCHANGED <<taskVars, search, base, listVars, signal>>

BeginSearch(w) == search' = [search EXCEPT ![w] = [NoSearch EXCEPT !.phase = "peek", !.from = w]]

WaitHelps(w) ==
    /\ InBody(w) /\ ~Searching(w) /\ Doing(w)[1] = "wait" /\ ~IsFinished(Doing(w)[2])
    /\ BeginSearch(w)
    /\ UNCHANGED <<taskVars, stack, base, listVars, signal>>

(* operator() of Task after the call: one job less, and when none is left, *)
(* one job less of the parent, and so on.                                  *)
StopsAt(t) == jobs[t] > 1 \/ Parent(t) = Nobody
Finish(w) ==
    /\ Busy(w) /\ ~InBody(w)
    /\ LET t == IF Top(w).up = None THEN Top(w).task ELSE Top(w).up
       IN /\ jobs' = [jobs EXCEPT ![t] = @ - 1]
          /\ IF StopsAt(t)
             THEN stack' = [stack EXCEPT ![w] = SubSeq(@, 1, Len(@) - 1)]
             ELSE SetTop(w, [Top(w) EXCEPT !.up = Parent(t)])
    /\ UNCHANGED <<queue, created, ran, search, base, listVars, signal>>

-----------------------------------------------------------------------------
(* ExecuteOneTask: the own queue, then TryToSteal through the others, the  *)
(* primary thread's first.  The list of workers is read without its lock.  *)
Unlisted(w) == listed \ (search[w].tried \union {search[w].from, w})
Draining(w) == ~Busy(w) /\ base[w] = "drain"

NextVictim(w) ==
    \/ /\ Unlisted(w) = {} \/ Draining(w)
       /\ search' = [search EXCEPT ![w] = [NoSearch EXCEPT !.phase = "failed"]]
    \/ /\ ~Draining(w)
       /\ \E v \in Unlisted(w) :
            /\ Main \in Unlisted(w) => v = Main
            /\ search' = [search EXCEPT ![w] = [NoSearch EXCEPT !.phase = "peek", !.from = v,
                                                  !.tried = search[w].tried \union {search[w].from}]]

Peek(w) ==
    /\ search[w].phase = "peek"
    /\ LET q == queue[search[w].from]
       IN IF q = << >> THEN NextVictim(w)
          ELSE search' = [search EXCEPT ![w].phase = "take", ![w].task = Head(q)]
    /\ UNCHANGED <<taskVars, stack, base, listVars, signal>>

Wins(w) == queue[search[w].from] # << >> /\ Head(queue[search[w].from]) = search[w].task
TakeFails(w) ==
    /\ search[w].phase = "take" /\ ~Wins(w)
    /\ NextVictim(w)
    /\ UNCHANGED <<taskVars, stack, base, listVars, signal>>

(* ExecuteTask.  A stolen task that leaves others behind in its queue      *)
(* wakes one more thread first.                                            *)
Execute(w) ==
    /\ stack' = [stack EXCEPT ![w] = Append(@, Frame(search[w].task))]
    /\ ran' = [ran EXCEPT ![search[w].task] = @ + 1]
    /\ search' = [search EXCEPT ![w] = NoSearch]

Take(w) ==
    /\ search[w].phase = "take" /\ Wins(w)
    /\ queue' = [queue EXCEPT ![search[w].from] = Tail(@)]
    /\ IF search[w].from = w THEN Execute(w)
       ELSE search' = [search EXCEPT ![w].phase = "stolen"] /\ UNCHANGED <<stack, ran>>
    /\ UNCHANGED <<jobs, created, base, listVars, signal>>

PassOn(w) ==
    /\ search[w].phase = "stolen"
    /\ signal' = (signal \/ queue[search[w].from] # << >>)
    /\ Execute(w)
    /\ UNCHANGED <<queue, jobs, created, base, listVars>>

(* Nothing found: a waiting task looks at its condition again, a worker    *)
(* goes to sleep, a thread that leaves has drained its queue.              *)
NothingFound(w) ==
    /\ search[w].phase = "failed"
    /\ search' = [search EXCEPT ![w] = NoSearch]
    /\ IF Busy(w) THEN UNCHANGED <<base, active>>
       ELSE IF base[w] = "drain" THEN Goto(w, "unregister") /\ UNCHANGED active
       ELSE Goto(w, "sleep") /\ active' = active \ {w}
    /\ UNCHANGED <<taskVars, stack, listed, lock, shouldPause, shouldStop, signal>>

-----------------------------------------------------------------------------
(* TaskWorkerStart.                                                        *)
Register(w) ==
    /\ base[w] = "new" /\ lock = Nobody
    /\ listed' = listed \union {w}
    /\ Goto(w, "wake")
    /\ UNCHANGED <<taskVars, workVars, active, lock, shouldPause, shouldStop, signal>>

SetActive(w) ==
    /\ base[w] = "wake"
    /\ active' = active \union {w}
    /\ Goto(w, "loop")
    /\ UNCHANGED <<taskVars, workVars, listed, lock, shouldPause, shouldStop, signal>>

Loop(w) ==
    /\ base[w] = "loop" /\ Drained(w)
    /\ IF shouldStop THEN Goto(w, "drain") /\ active' = active \ {w} /\ UNCHANGED search
       ELSE IF shouldPause THEN Goto(w, "sleep") /\ active' = active \ {w} /\ UNCHANGED search
       ELSE BeginSearch(w) /\ UNCHANGED <<base, active>>
    /\ UNCHANGED <<taskVars, stack, listed, lock, shouldPause, shouldStop, signal>>

(* The event resets as it lets one thread go.                              *)
Wake(w) ==
    /\ base[w] = "sleep" /\ signal
    /\ signal' = FALSE
    /\ Goto(w, IF shouldPause THEN "sleep" ELSE "wake")
    /\ UNCHANGED <<taskVars, workVars, listVars>>

(* The pops that finish pending tasks go on while they give a task.        *)
DrainOn(w) ==
    /\ base[w] = "drain" /\ Drained(w)
    /\ BeginSearch(w)
    /\ UNCHANGED <<taskVars, stack, base, listVars, signal>>

(* UnregisterThisThreadAsWorker: the workers are to pause, and once none   *)
(* is seen active the list changes.                                        *)
Pause(w) ==
    /\ base[w] = "unregister" /\ lock = Nobody
    /\ lock' = w /\ shouldPause' = TRUE
    /\ Goto(w, "pausing")
    /\ UNCHANGED <<taskVars, workVars, active, listed, shouldStop, signal>>

\* Mutant: the workers are not waited for.
AtOnce == TRUE
NobodyActive == active = {}
SeeNobodyActive(w) ==
    /\ base[w] = "pausing" /\ NobodyActive
    /\ Goto(w, "erase")
    /\ UNCHANGED <<taskVars, workVars, listVars, signal>>

Erase(w) ==
    /\ base[w] = "erase"
    /\ listed' = listed \ {w}
    /\ lock' = Nobody /\ shouldPause' = FALSE
    /\ Goto(w, IF w = Main THEN "settle" ELSE "gone")
    /\ UNCHANGED <<taskVars, workVars, active, shouldStop, signal>>

(* The window loses the focus, or gets it back, between two calls of the   *)
(* primary thread: the workers pause, or may go on.                        *)
Focus ==
    /\ base[Main] = "program" /\ Len(stack[Main]) = 1
    /\ InBody(Main) => Doing(Main)[1] = "add" /\ ~Top(Main).pushed
    /\ shouldPause' = ~shouldPause
    /\ UNCHANGED <<taskVars, workVars, base, active, listed, lock, shouldStop, signal>>

(* The destructor, on the primary thread once its program is through.      *)
Stop ==
    /\ base[Main] = "program" /\ Drained(Main)
    /\ shouldStop' = TRUE /\ signal' = TRUE
    /\ Goto(Main, "drain")
    /\ UNCHANGED <<taskVars, workVars, active, listed, lock, shouldPause>>

\* Mutant: the workers are woken only once, before the primary thread leaves.
SettleQuietly ==
    /\ base[Main] = "settle" /\ listed = {} /\ \A w \in Workers : base[w] = "gone"
    /\ Goto(Main, "gone")
    /\ UNCHANGED <<taskVars, workVars, listVars, signal>>

Settle ==
    /\ base[Main] = "settle"
    /\ IF listed # {} THEN signal' = TRUE /\ UNCHANGED base
       ELSE (\A w \in Workers : base[w] = "gone") /\ Goto(Main, "gone") /\ UNCHANGED signal
    /\ UNCHANGED <<taskVars, workVars, listVars>>

-----------------------------------------------------------------------------
Executing(w) == Add(w) \/ SetNewWork(w) \/ WaitEnds(w) \/ WaitHelps(w) \/ Finish(w)
Seeking(w) == Peek(w) \/ TakeFails(w) \/ Take(w) \/ PassOn(w) \/ NothingFound(w)
Living(w) == Register(w) \/ SetActive(w) \/ Loop(w) \/ Wake(w) \/ DrainOn(w)
             \/ Pause(w) \/ SeeNobodyActive(w) \/ Erase(w)
Step(w) == Executing(w) \/ Seeking(w) \/ Living(w)

Next == Focus \/ Stop \/ Settle \/ \E w \in Threads : Step(w)
Spec == Init /\ [][Next]_vars

(* Threads run; the window may do as it likes.                             *)
FairSpec ==
    /\ Spec /\ WF_vars(Stop \/ Settle)
    /\ \A w \in Threads : WF_vars(Step(w))

-----------------------------------------------------------------------------
Phases == {"none", "peek", "take", "stolen", "failed"}
Bases == {"new", "wake", "loop", "sleep", "drain", "unregister", "pausing", "erase", "gone", "program", "settle"}
Frames == [task : Tasks, at : Nat \ {0}, pushed : BOOLEAN, up : Tasks \union {None}]
Searches == [phase : Phases, from : Threads \union {Nobody}, task : Tasks \union {None}, tried : SUBSET Threads]

(* Types of the state.                                                     *)
TypeOK ==
    /\ queue \in [Threads -> Seq(Tasks)]
    /\ jobs \in [Tasks -> Nat] /\ created \subseteq Tasks /\ ran \in [Tasks -> Nat]
    /\ stack \in [Threads -> Seq(Frames)]
    /\ search \in [Threads -> Searches]
    /\ base \in [Threads -> Bases]
    /\ active \subseteq Workers /\ listed \subseteq Threads /\ lock \in Threads \union {Nobody}
    /\ signal \in BOOLEAN /\ shouldPause \in BOOLEAN /\ shouldStop \in BOOLEAN

(* A task somebody may stop waiting for has run, is executed by nobody,    *)
(* and its children are finished too (Task.hpp:84, 191).                   *)
Running(w) == {stack[w][i].task : i \in {k \in 1 .. Len(stack[w]) : stack[w][k].up = None}}
FinishedIsOver ==
    \A t \in created : IsFinished(t) =>
        /\ ran[t] = 1
        /\ \A w \in Threads : t \notin Running(w)
        /\ \A c \in created : Parent(c) = t => IsFinished(c)

(* While a thread leaves the list of workers, no worker of the pool goes   *)
(* through it (TaskManager.cpp, UnregisterThisThreadAsWorker).             *)
ListIsQuiet ==
    \A u, w \in Threads : base[u] = "erase" /\ base[w] = "loop" => ~Busy(w) /\ ~Searching(w)

(* Every wait ends, whoever sleeps, and the program comes to its exit with *)
(* all threads gone.                                                       *)
ProgramEnds == <>(base[Main] = "gone")
=============================================================================
