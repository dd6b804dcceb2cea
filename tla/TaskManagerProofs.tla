------------------------- MODULE TaskManagerProofs -------------------------
(***************************************************************************)
(* Theorems about TaskManager, for any number of workers and any program   *)
(* of tasks: the list of workers changes while nobody goes through it, and *)
(* a task that counts as finished has run, is executed by nobody, and has  *)
(* only finished children.                                                 *)
(***************************************************************************)
EXTENDS TaskManager, FiniteSetTheorems, SequenceTheorems, TLAPS

-----------------------------------------------------------------------------
(* Where the threads are.                                                  *)

(* Types of what the control reads.                                        *)
ControlTypes ==
    /\ queue \in [Threads -> Seq(Tasks)]
    /\ stack \in [Threads -> Seq(Frames)]
    /\ search \in [Threads -> Searches]
    /\ base \in [Threads -> Bases]
    /\ active \subseteq Workers /\ listed \subseteq Threads
    /\ shouldStop \in BOOLEAN

(* A thread with tasks searches while the last of them waits; a task whose *)
(* child was just pushed is not one of them.                               *)
Adding(f) == f.pushed => Body(f.task)[f.at][1] = "add"
Waiting ==
    \A w \in Threads :
        /\ Searching(w) /\ Busy(w) => InBody(w) /\ Doing(w)[1] = "wait"
        /\ \A i \in 1 .. Len(stack[w]) : Adding(stack[w][i])

(* Tasks are executed, and searched for, in the loop, in the drain and in  *)
(* the program, where a search without tasks does not start.               *)
Working ==
    \A w \in Threads :
        /\ ~Drained(w) => base[w] \in {"loop", "drain", "program"}
        /\ base[w] = "program" /\ Searching(w) => Busy(w)

(* A search looks at the queue of a thread, for a task it has seen there.  *)
Sought ==
    \A w \in Threads :
        /\ search[w].phase \in {"peek", "take", "stolen"} => search[w].from \in Threads
        /\ search[w].phase \in {"take", "stolen"} => search[w].task \in Tasks

(* The primary thread runs the program and leaves; workers are counted     *)
(* while they are in the loop.                                             *)
Leaving == {"drain", "unregister", "pausing", "erase", "settle", "gone"}
Posts ==
    /\ base[Main] \in {"program"} \union Leaving
    /\ \A w \in Workers : base[w] \notin {"program", "settle"}
    /\ \A w \in Workers : base[w] = "loop" => w \in active
    /\ \A w \in Threads : base[w] \in Leaving => shouldStop

Control == ControlTypes /\ Waiting /\ Working /\ Sought /\ Posts /\ ListIsQuiet

-----------------------------------------------------------------------------
(* Where the tasks are, and what a task still has to see done.             *)
TaskTypes ==
    /\ jobs \in [Tasks -> Int] /\ created \subseteq Tasks /\ ran \in [Tasks -> {0, 1}]

Waits(t) == t \in created /\ ran[t] = 0
Stolen(w) == search[w].phase = "stolen"

(* A task waits in one place of one queue, or with the thread that took    *)
(* it, and is then executed once, in one frame.                            *)
Queued ==
    /\ \A w \in Threads : \A i \in 1 .. Len(queue[w]) : Waits(queue[w][i])
    /\ \A v, w \in Threads : \A i \in 1 .. Len(queue[v]), j \in 1 .. Len(queue[w]) :
          queue[v][i] = queue[w][j] => v = w /\ i = j
Taken ==
    \A w \in Threads : Stolen(w) =>
        /\ Waits(search[w].task)
        /\ \A v \in Threads : \A i \in 1 .. Len(queue[v]) : queue[v][i] # search[w].task
        /\ \A v \in Threads : Stolen(v) /\ search[v].task = search[w].task => v = w
Executed ==
    /\ \A w \in Threads : \A i \in 1 .. Len(stack[w]) :
        /\ stack[w][i].task \in created /\ ran[stack[w][i].task] = 1
        /\ stack[w][i].up # None => i = Len(stack[w]) /\ stack[w][i].up \in created
    /\ \A v, w \in Threads : \A i \in 1 .. Len(stack[v]), j \in 1 .. Len(stack[w]) :
          stack[v][i].task = stack[w][j].task => v = w /\ i = j
Unborn == \A t \in Tasks \ created : ran[t] = 0 /\ jobs[t] = 0

(* What a body has still to add does not exist.                            *)
Ahead(f) == {i \in Calls(f.task) : i > f.at \/ (i = f.at /\ ~f.pushed)}
ToCome ==
    /\ \A w \in Threads : \A i \in 1 .. Len(stack[w]) :
          \A j \in Ahead(stack[w][i]) : Body(stack[w][i].task)[j][2] \notin created
    /\ \A p \in Tasks : ran[p] = 0 => \A j \in Calls(p) : Body(p)[j][2] \notin created
Born ==
    \A c \in created : Parent(c) # Nobody => Parent(c) # c /\ ran[Parent(c)] = 1

(* A count is owed by the task itself until its body is through, by each   *)
(* unfinished child, and by each thread on its way up from a finished one. *)
Open(f, t) == f.task = t /\ f.up = None
OpenBody(t) == ran[t] = 0 \/ \E w \in Threads : \E i \in 1 .. Len(stack[w]) : Open(stack[w][i], t)
Owed(t) ==
    {<<"child", c>> : c \in {c \in created : Parent(c) = t /\ jobs[c] > 0}}
    \union {<<"thread", w>> : w \in {w \in Threads : Busy(w) /\ Top(w).up = t}}
    \union {<<"body", b>> : b \in {b \in {t} : OpenBody(t)}}
Counted == \A t \in created : IsFiniteSet(Owed(t)) /\ jobs[t] = Cardinality(Owed(t))

Places == Queued /\ Taken /\ Executed /\ Unborn
TaskInv == TaskTypes /\ Places /\ ToCome /\ Born /\ Counted

-----------------------------------------------------------------------------
(* Stacks.                                                                 *)
LEMMA TopOfStack ==
    ASSUME ControlTypes, NEW w \in Threads, Busy(w)
    PROVE  /\ Len(stack[w]) \in Nat \ {0} /\ Len(stack[w]) \in 1 .. Len(stack[w])
           /\ Top(w) = stack[w][Len(stack[w])] /\ Top(w) \in Frames
<1>1. stack[w] \in Seq(Frames) /\ stack[w] # << >>
  BY DEF ControlTypes, Busy
<1>2. Len(stack[w]) \in Nat \ {0}
  BY <1>1, EmptySeq
<1>3. stack[w][Len(stack[w])] \in Frames
  BY <1>1, <1>2, ElementOfSeq
<1> QED BY <1>2, <1>3 DEF Top

(* The last frame changes.                                                 *)
LEMMA Changed ==
    ASSUME ControlTypes, NEW w \in Threads, Busy(w), NEW f \in Frames, SetTop(w, f)
    PROVE  /\ stack' \in [Threads -> Seq(Frames)]
           /\ \A v \in Threads \ {w} : stack'[v] = stack[v]
           /\ \A v \in Threads : Len(stack'[v]) = Len(stack[v])
           /\ \A i \in 1 .. Len(stack[w]) :
                stack'[w][i] = IF i = Len(stack[w]) THEN f ELSE stack[w][i]
           /\ Busy(w)' /\ Top(w)' = f
<1> DEFINE s == stack[w]  n == Len(stack[w])  t == [s EXCEPT ![n] = f]
<1>1. s \in Seq(Frames) /\ n \in Nat \ {0} /\ n \in 1 .. n
  BY TopOfStack DEF ControlTypes
<1>2. stack' = [stack EXCEPT ![w] = t]
  BY DEF SetTop
<1>3. t \in Seq(Frames) /\ Len(t) = n /\ \A i \in 1 .. n : t[i] = IF i = n THEN f ELSE s[i]
  BY <1>1, ExceptSeq
<1>4. /\ stack' \in [Threads -> Seq(Frames)] /\ stack'[w] = t
      /\ \A v \in Threads \ {w} : stack'[v] = stack[v]
  BY <1>2, <1>3 DEF ControlTypes
<1>5. t # << >>
  BY <1>1, <1>3
<1> QED BY <1>1, <1>3, <1>4, <1>5 DEF Busy, Top

(* A frame is pushed.                                                      *)
LEMMA Pushed ==
    ASSUME ControlTypes, NEW w \in Threads, NEW f \in Frames,
           stack' = [stack EXCEPT ![w] = Append(@, f)]
    PROVE  /\ stack' \in [Threads -> Seq(Frames)]
           /\ \A v \in Threads \ {w} : stack'[v] = stack[v]
           /\ Len(stack[w]) \in Nat /\ Len(stack'[w]) = Len(stack[w]) + 1
           /\ \A i \in 1 .. Len(stack[w]) : stack'[w][i] = stack[w][i]
           /\ stack'[w][Len(stack[w]) + 1] = f
           /\ Busy(w)' /\ Top(w)' = f
<1> DEFINE s == stack[w]  t == Append(stack[w], f)
<1>1. s \in Seq(Frames) /\ Len(s) \in Nat
  BY LenProperties DEF ControlTypes
<1>2. /\ t \in Seq(Frames) /\ Len(t) = Len(s) + 1
      /\ \A i \in 1 .. Len(s) : t[i] = s[i]
      /\ t[Len(s) + 1] = f
  BY <1>1, AppendProperties
<1>3. /\ stack' \in [Threads -> Seq(Frames)] /\ stack'[w] = t
      /\ \A v \in Threads \ {w} : stack'[v] = stack[v]
  BY <1>2 DEF ControlTypes
<1>4. t # << >>
  BY <1>1, <1>2
<1> QED BY <1>1, <1>2, <1>3, <1>4 DEF Busy, Top

(* The last frame goes.                                                    *)
LEMMA Popped ==
    ASSUME ControlTypes, NEW w \in Threads, Busy(w),
           stack' = [stack EXCEPT ![w] = SubSeq(@, 1, Len(@) - 1)]
    PROVE  /\ stack' \in [Threads -> Seq(Frames)]
           /\ \A v \in Threads \ {w} : stack'[v] = stack[v]
           /\ Len(stack'[w]) = Len(stack[w]) - 1
           /\ \A i \in 1 .. Len(stack[w]) - 1 : stack'[w][i] = stack[w][i]
<1> DEFINE s == stack[w]  n == Len(stack[w])  t == SubSeq(s, 1, n - 1)
<1>1. s \in Seq(Frames) /\ n \in Nat \ {0}
  BY TopOfStack DEF ControlTypes
<1>2. t \in Seq(Frames) /\ Len(t) = n - 1 /\ \A i \in 1 .. n - 1 : t[i] = s[i]
  BY <1>1, SubSeqProperties, SMTT(30)
<1>3. /\ stack' \in [Threads -> Seq(Frames)] /\ stack'[w] = t
      /\ \A v \in Threads \ {w} : stack'[v] = stack[v]
  BY <1>2 DEF ControlTypes
<1> QED BY <1>1, <1>2, <1>3

(* The step of its body that a task is at.                                 *)
LEMMA StepIsCall ==
    ASSUME ControlTypes, NEW w \in Threads, InBody(w)
    PROVE  /\ Top(w).task \in Tasks /\ Top(w).at \in 1 .. Len(Body(Top(w).task))
           /\ Top(w).at \in DOMAIN Body(Top(w).task)
           /\ Doing(w) \in {"add", "wait"} \X Tasks /\ Doing(w)[2] \in Tasks
<1>1. Top(w) \in Frames
  BY TopOfStack DEF InBody
<1>2. Top(w).task \in Tasks /\ Top(w).at \in Nat \ {0} /\ Top(w).at <= Len(Body(Top(w).task))
  BY <1>1 DEF Frames, InBody
<1>3. Body(Top(w).task) \in Seq({"add", "wait"} \X Tasks)
  BY <1>2, TasksAreAddedOnce
<1>4. Top(w).at \in 1 .. Len(Body(Top(w).task)) /\ DOMAIN Body(Top(w).task) = 1 .. Len(Body(Top(w).task))
  BY <1>2, <1>3, LenProperties
<1>5. Doing(w) \in {"add", "wait"} \X Tasks
  BY <1>3, <1>4, ElementOfSeq DEF Doing
<1> QED BY <1>2, <1>4, <1>5

-----------------------------------------------------------------------------
(* A step of one thread keeps the control when the thread itself is where  *)
(* it may be: Where is what one thread contributes to the invariant.       *)
Where(w) ==
    /\ Searching(w) /\ Busy(w) => InBody(w) /\ Doing(w)[1] = "wait"
    /\ \A i \in 1 .. Len(stack[w]) : Adding(stack[w][i])
    /\ ~Drained(w) => base[w] \in {"loop", "drain", "program"}
    /\ base[w] = "program" /\ Searching(w) => Busy(w)
    /\ search[w].phase \in {"peek", "take", "stolen"} => search[w].from \in Threads
    /\ search[w].phase \in {"take", "stolen"} => search[w].task \in Tasks
    /\ w = Main => base[w] \in {"program"} \union Leaving
    /\ w \in Workers => base[w] \notin {"program", "settle"}
    /\ w \in Workers /\ base[w] = "loop" => w \in active
    /\ base[w] \in Leaving => shouldStop

LEMMA ControlIsWhere == Control <=> ControlTypes /\ ListIsQuiet /\ \A w \in Threads : Where(w)
BY DEF Control, Waiting, Working, Sought, Posts, Where, Threads

LEMMA ControlStep ==
    ASSUME Control, ControlTypes', NEW w \in Threads, Where(w)',
           \A v \in Threads \ {w} : stack'[v] = stack[v] /\ search'[v] = search[v] /\ base'[v] = base[v],
           active \ {w} \subseteq active', shouldStop => shouldStop',
           base'[w] = "loop" /\ ~Drained(w)' => \A u \in Threads : base'[u] # "erase",
           base'[w] = "erase" => \A v \in Threads \ {w} : base[v] = "loop" => Drained(v)
    PROVE  Control'
<1>1. ControlTypes /\ ListIsQuiet /\ \A v \in Threads : Where(v)
  BY ControlIsWhere DEF Control
<1>2. ASSUME NEW v \in Threads \ {w} PROVE Where(v)' /\ (Drained(v) <=> Drained(v)')
  <2>1. stack'[v] = stack[v] /\ search'[v] = search[v] /\ base'[v] = base[v]
    OBVIOUS
  <2>2. Where(v) /\ (v \in active => v \in active')
    BY <1>1
  <2> QED BY <2>1, <2>2 DEF Where, Searching, Busy, InBody, Doing, Top, Drained
<1>3. ListIsQuiet'
  <2> SUFFICES ASSUME NEW u \in Threads, NEW v \in Threads, base'[u] = "erase", base'[v] = "loop"
               PROVE  Drained(v)'
    BY DEF ListIsQuiet, Drained
  <2>1. CASE v = w
    BY <2>1
  <2>2. CASE v # w /\ u = w
    BY <2>2, <1>2
  <2>3. CASE v # w /\ u # w
    <3>1. base[u] = "erase" /\ base[v] = "loop"
      BY <2>3
    <3>2. Drained(v)
      BY <3>1, <1>1 DEF ListIsQuiet, Drained
    <3> QED BY <3>2, <2>3, <1>2
  <2> QED BY <2>1, <2>2, <2>3
<1>4. \A v \in Threads : Where(v)'
  BY <1>2
<1> QED BY <1>3, <1>4 DEF Control, Waiting, Working, Sought, Posts, Where, Threads

(* A thread at work in the loop finds nobody who erases.                   *)
LEMMA NobodyErases ==
    ASSUME Control, NEW w \in Threads, ~Drained(w)
    PROVE  /\ base[w] \in {"loop", "drain", "program"}
           /\ base[w] = "loop" => \A u \in Threads : base[u] # "erase"
BY DEF Control, Working, ListIsQuiet, Drained

(* The thread is at work, before or after the step, and stays at its post. *)
LEMMA WorkStep ==
    ASSUME Control, NEW w \in Threads, ~Drained(w),
           queue' \in [Threads -> Seq(Tasks)],
           stack' \in [Threads -> Seq(Frames)],
           search' \in [Threads -> Searches],
           search'[w].phase \in {"peek", "take", "stolen"} => search'[w].from \in Threads,
           search'[w].phase \in {"take", "stolen"} => search'[w].task \in Tasks,
           UNCHANGED <<base, active, listed, shouldStop>>,
           \A v \in Threads \ {w} : stack'[v] = stack[v] /\ search'[v] = search[v],
           Searching(w)' /\ Busy(w)' => InBody(w)' /\ Doing(w)'[1] = "wait",
           \A i \in 1 .. Len(stack'[w]) : Adding(stack'[w][i]),
           base[w] = "program" /\ Searching(w)' => Busy(w)'
    PROVE  Control'
<1>1. ControlTypes'
  BY DEF Control, ControlTypes
<1>2. Where(w)
  BY ControlIsWhere DEF Control
<1>3. Where(w)'
  <2>1. base[w] \in {"loop", "drain", "program"}
    BY NobodyErases
  <2> QED BY <1>2, <2>1 DEF Where
<1>4. base'[w] = "loop" /\ ~Drained(w)' => \A u \in Threads : base'[u] # "erase"
  BY NobodyErases
<1>5. base'[w] # "erase"
  BY NobodyErases
<1> QED BY <1>1, <1>3, <1>4, <1>5, ControlStep

-----------------------------------------------------------------------------
(* The steps of the control.                                               *)
LEMMA ControlInit == Init => Control
<1> SUFFICES ASSUME Init PROVE Control
  OBVIOUS
<1>1. Frame(Program) \in Frames
  BY TasksAreAddedOnce DEF Frame, Frames
<1>2. <<Frame(Program)>> \in Seq(Frames) /\ << >> \in Seq(Frames) /\ << >> \in Seq(Tasks)
  BY <1>1
<1>3. NoSearch \in Searches
  BY DEF NoSearch, Phases, Searches
<1>4. ControlTypes
  BY <1>2, <1>3 DEF Init, ControlTypes, Bases, Threads
<1>5. \A w \in Threads : search[w].phase = "none" /\ ~Searching(w) /\ base[w] \in {"program", "new"} /\ (~Drained(w) => w = Main)
  BY DEF Init, Searching, NoSearch, Drained, Busy, Threads
<1>6. base[Main] = "program" /\ \A w \in Workers : base[w] = "new"
  BY TasksAreAddedOnce DEF Init, Threads
<1>7. \A w \in Threads : \A i \in 1 .. Len(stack[w]) : Adding(stack[w][i])
  BY DEF Init, Frame, Adding
<1> QED BY <1>4, <1>5, <1>6, <1>7 DEF Control, Waiting, Working, Sought, Posts, ListIsQuiet, Drained, Leaving

LEMMA AddControls == ASSUME Control, NEW w \in Threads, Add(w) PROVE Control'
<1>0. Adding([Top(w) EXCEPT !.pushed = TRUE])
  <2>1. Top(w) \in Frames
    BY TopOfStack DEF Control, Add, InBody
  <2> QED BY <2>1 DEF Add, Doing, Adding, Frames
<1>1. ControlTypes /\ Busy(w) /\ ~Searching(w) /\ ~Drained(w)
  BY DEF Control, Add, InBody, Drained
<1>2. [Top(w) EXCEPT !.pushed = TRUE] \in Frames
  BY <1>1, TopOfStack DEF Frames
<1>3. SetTop(w, [Top(w) EXCEPT !.pushed = TRUE])
  BY DEF Add
<1>4. /\ stack' \in [Threads -> Seq(Frames)] /\ \A v \in Threads \ {w} : stack'[v] = stack[v]
      /\ Busy(w)' /\ \A i \in 1 .. Len(stack'[w]) : Adding(stack'[w][i])
  BY <1>0, <1>1, <1>2, <1>3, Changed DEF Control, Waiting
<1>5. UNCHANGED <<search, base, active, listed, shouldStop>> /\ ~Searching(w)'
  BY <1>1 DEF Add, listVars, Searching
<1>6. queue' \in [Threads -> Seq(Tasks)]
  <2>1. queue[w] \in Seq(Tasks) /\ Doing(w)[2] \in Tasks
    BY <1>1, StepIsCall DEF Add, ControlTypes
  <2>2. Append(queue[w], Doing(w)[2]) \in Seq(Tasks)
    BY <2>1, AppendProperties
  <2> QED BY <1>1, <2>2 DEF Add, ControlTypes
<1> QED BY <1>1, <1>4, <1>5, <1>6, WorkStep DEF Control, Sought, ControlTypes

LEMMA SetNewWorkControls == ASSUME Control, NEW w \in Threads, SetNewWork(w) PROVE Control'
<1>0. Adding([Top(w) EXCEPT !.pushed = FALSE, !.at = @ + 1])
  <2>1. Top(w) \in Frames
    BY TopOfStack DEF Control, SetNewWork, InBody
  <2> QED BY <2>1 DEF Adding, Frames
<1>1. ControlTypes /\ Busy(w) /\ ~Drained(w)
  BY DEF Control, SetNewWork, InBody, Drained
<1>2. [Top(w) EXCEPT !.pushed = FALSE, !.at = @ + 1] \in Frames
  <2>1. Top(w) \in Frames /\ Top(w).at + 1 \in Nat \ {0}
    BY <1>1, TopOfStack DEF Frames
  <2> QED BY <2>1 DEF Frames
<1>3. SetTop(w, [Top(w) EXCEPT !.pushed = FALSE, !.at = @ + 1])
  BY DEF SetNewWork
<1>4. /\ stack' \in [Threads -> Seq(Frames)] /\ \A v \in Threads \ {w} : stack'[v] = stack[v]
      /\ Busy(w)' /\ \A i \in 1 .. Len(stack'[w]) : Adding(stack'[w][i])
  BY <1>0, <1>1, <1>2, <1>3, Changed DEF Control, Waiting
<1>5. ~Searching(w)
  <2>1. Adding(Top(w)) /\ Top(w).pushed
    BY <1>1, TopOfStack DEF Control, Waiting, SetNewWork
  <2> QED BY <1>1, <2>1 DEF Control, Waiting, Adding, Doing
<1>6. UNCHANGED <<queue, search, base, active, listed, shouldStop>> /\ ~Searching(w)'
  BY <1>5 DEF SetNewWork, listVars, taskVars, Searching
<1> QED BY <1>1, <1>4, <1>6, WorkStep DEF Control, Sought, ControlTypes

LEMMA WaitEndsControls == ASSUME Control, NEW w \in Threads, WaitEnds(w) PROVE Control'
<1>0. Adding([Top(w) EXCEPT !.at = @ + 1])
  <2>1. Top(w) \in Frames /\ Adding(Top(w)) /\ Doing(w)[1] = "wait"
    BY TopOfStack DEF Control, Waiting, WaitEnds, InBody
  <2>2. ~Top(w).pushed
    BY <2>1 DEF Adding, Doing
  <2> QED BY <2>1, <2>2 DEF Adding, Frames
<1>1. ControlTypes /\ Busy(w) /\ ~Drained(w)
  BY DEF Control, WaitEnds, InBody, Drained
<1>2. [Top(w) EXCEPT !.at = @ + 1] \in Frames
  BY <1>1, TopOfStack DEF Frames
<1>3. SetTop(w, [Top(w) EXCEPT !.at = @ + 1])
  BY DEF WaitEnds
<1>4. /\ stack' \in [Threads -> Seq(Frames)] /\ \A v \in Threads \ {w} : stack'[v] = stack[v]
      /\ Busy(w)' /\ \A i \in 1 .. Len(stack'[w]) : Adding(stack'[w][i])
  BY <1>0, <1>1, <1>2, <1>3, Changed DEF Control, Waiting
<1>5. UNCHANGED <<queue, search, base, active, listed, shouldStop>> /\ ~Searching(w)'
  BY DEF WaitEnds, listVars, taskVars, Searching
<1> QED BY <1>1, <1>4, <1>5, WorkStep DEF Control, Sought, ControlTypes

(* A search that begins.                                                   *)
LEMMA SearchBegins ==
    ASSUME ControlTypes, NEW w \in Threads, BeginSearch(w)
    PROVE  /\ search' \in [Threads -> Searches]
           /\ \A v \in Threads \ {w} : search'[v] = search[v]
           /\ search'[w].phase = "peek" /\ search'[w].from = w
<1>1. [NoSearch EXCEPT !.phase = "peek", !.from = w] \in Searches
  BY DEF NoSearch, Phases, Searches
<1> QED BY <1>1 DEF BeginSearch, ControlTypes, NoSearch

LEMMA WaitHelpsControls == ASSUME Control, NEW w \in Threads, WaitHelps(w) PROVE Control'
<1>1. ControlTypes /\ Busy(w) /\ ~Drained(w) /\ InBody(w)
  BY DEF Control, WaitHelps, InBody, Drained
<1>2. /\ search' \in [Threads -> Searches]
      /\ \A v \in Threads \ {w} : search'[v] = search[v]
      /\ search'[w].phase = "peek" /\ search'[w].from = w
  BY <1>1, SearchBegins DEF WaitHelps
<1>3. UNCHANGED <<queue, stack, base, active, listed, shouldStop>>
  BY DEF WaitHelps, listVars, taskVars
<1>4. Busy(w)' /\ InBody(w)' /\ Doing(w)'[1] = "wait"
  BY <1>1, <1>3 DEF Busy, InBody, Doing, Top, WaitHelps
<1>5. \A i \in 1 .. Len(stack'[w]) : Adding(stack'[w][i])
  BY <1>3 DEF Control, Waiting
<1> QED BY <1>1, <1>2, <1>3, <1>4, <1>5, WorkStep DEF Control, Sought, ControlTypes

LEMMA FinishControls == ASSUME Control, NEW w \in Threads, Finish(w) PROVE Control'
<1> DEFINE t == IF Top(w).up = None THEN Top(w).task ELSE Top(w).up
<1>1. ControlTypes /\ Busy(w) /\ ~Drained(w) /\ ~Searching(w)
  BY DEF Control, Waiting, Finish, Drained
<1>2. Top(w) \in Frames /\ t \in Tasks /\ Adding(Top(w))
  BY <1>1, TopOfStack DEF Frames, Control, Waiting
<1>3. UNCHANGED <<queue, search, base, active, listed, shouldStop>> /\ ~Searching(w)'
  BY <1>1 DEF Finish, listVars, Searching
<1>4. CASE StopsAt(t)
  <2>1. stack' = [stack EXCEPT ![w] = SubSeq(@, 1, Len(@) - 1)]
    BY <1>4 DEF Finish
  <2>2. /\ stack' \in [Threads -> Seq(Frames)] /\ \A v \in Threads \ {w} : stack'[v] = stack[v]
        /\ \A i \in 1 .. Len(stack'[w]) : Adding(stack'[w][i])
    <3>1. Len(stack[w]) \in Nat
      BY <1>1, TopOfStack
    <3>2. /\ stack' \in [Threads -> Seq(Frames)] /\ \A v \in Threads \ {w} : stack'[v] = stack[v]
          /\ Len(stack'[w]) = Len(stack[w]) - 1
          /\ \A i \in 1 .. Len(stack[w]) - 1 : stack'[w][i] = stack[w][i]
      BY <1>1, <2>1, Popped
    <3>3. \A i \in 1 .. Len(stack[w]) : Adding(stack[w][i])
      BY DEF Control, Waiting
    <3> QED BY <3>1, <3>2, <3>3
  <2> QED BY <1>1, <1>3, <2>2, WorkStep DEF Control, Sought, ControlTypes
<1>5. CASE ~StopsAt(t)
  <2>1. SetTop(w, [Top(w) EXCEPT !.up = Parent(t)])
    BY <1>5 DEF Finish
  <2>2. Parent(t) \in Tasks
    BY <1>2, <1>5, TasksAreAddedOnce DEF StopsAt
  <2>3. [Top(w) EXCEPT !.up = Parent(t)] \in Frames /\ Adding([Top(w) EXCEPT !.up = Parent(t)])
    BY <1>2, <2>2 DEF Frames, Adding
  <2>4. /\ stack' \in [Threads -> Seq(Frames)] /\ \A v \in Threads \ {w} : stack'[v] = stack[v]
        /\ \A i \in 1 .. Len(stack'[w]) : Adding(stack'[w][i])
    BY <1>1, <2>1, <2>3, Changed DEF Control, Waiting
  <2> QED BY <1>1, <1>3, <2>4, WorkStep DEF Control, Sought, ControlTypes
<1> QED BY <1>4, <1>5

-----------------------------------------------------------------------------
(* A step of a search that goes on leaves the tasks of the thread alone.   *)
LEMMA SearchGoesOn ==
    ASSUME Control, NEW w \in Threads, Searching(w), NEW s \in Searches,
           search' = [search EXCEPT ![w] = s],
           s.phase \in {"peek", "take", "stolen"} => s.from \in Threads,
           s.phase \in {"take", "stolen"} => s.task \in Tasks,
           UNCHANGED <<stack, base, active, listed, shouldStop>>,
           queue' \in [Threads -> Seq(Tasks)]
    PROVE  Control'
<1>1. ControlTypes /\ ~Drained(w)
  BY DEF Control, Drained
<1>2. search' \in [Threads -> Searches] /\ search'[w] = s /\ \A v \in Threads \ {w} : search'[v] = search[v]
  BY <1>1 DEF ControlTypes
<1>3. Busy(w)' => InBody(w)' /\ Doing(w)'[1] = "wait"
  BY DEF Control, Waiting, Busy, InBody, Doing, Top
<1>4. base[w] = "program" => Busy(w)'
  BY DEF Control, Working, Busy
<1>5. \A i \in 1 .. Len(stack'[w]) : Adding(stack'[w][i])
  BY DEF Control, Waiting
<1> QED BY <1>1, <1>2, <1>3, <1>4, <1>5, WorkStep DEF ControlTypes

LEMMA NextVictimFound ==
    ASSUME Control, NEW w \in Threads, search[w].phase \in {"peek", "take"}, NextVictim(w)
    PROVE  \E s \in Searches : /\ search' = [search EXCEPT ![w] = s]
                               /\ s.phase \in {"peek", "failed"}
                               /\ s.phase = "peek" => s.from \in Threads
<1>1. search[w] \in Searches /\ search[w].from \in Threads /\ listed \subseteq Threads
  BY DEF Control, ControlTypes, Sought
<1>2. CASE search' = [search EXCEPT ![w] = [NoSearch EXCEPT !.phase = "failed"]]
  <2>1. [NoSearch EXCEPT !.phase = "failed"] \in Searches /\ [NoSearch EXCEPT !.phase = "failed"].phase = "failed"
    BY DEF NoSearch, Searches, Phases
  <2> QED BY <1>2, <2>1
<1>3. ASSUME NEW v \in Unlisted(w),
             search' = [search EXCEPT ![w] = [NoSearch EXCEPT !.phase = "peek", !.from = v,
                                                !.tried = search[w].tried \union {search[w].from}]]
      PROVE  \E s \in Searches : /\ search' = [search EXCEPT ![w] = s]
                                 /\ s.phase \in {"peek", "failed"}
                                 /\ s.phase = "peek" => s.from \in Threads
  <2> DEFINE s == [NoSearch EXCEPT !.phase = "peek", !.from = v,
                                   !.tried = search[w].tried \union {search[w].from}]
  <2>1. v \in Threads /\ search[w].tried \union {search[w].from} \in SUBSET Threads
    BY <1>1 DEF Unlisted, Searches
  <2>2. NoSearch \in Searches
    BY DEF NoSearch, Searches, Phases
  <2>3. s \in Searches /\ s.phase = "peek" /\ s.from \in Threads
    BY <2>1, <2>2 DEF Searches, Phases
  <2> QED BY <1>3, <2>3
<1> QED BY <1>2, <1>3 DEF NextVictim

LEMMA PeekControls == ASSUME Control, NEW w \in Threads, Peek(w) PROVE Control'
<1>1. /\ Searching(w) /\ search[w] \in Searches /\ search[w].from \in Threads
      /\ queue \in [Threads -> Seq(Tasks)]
      /\ UNCHANGED <<queue, stack, base, active, listed, shouldStop>>
  BY DEF Peek, Searching, Control, ControlTypes, Sought, taskVars, listVars
<1>2. CASE queue[search[w].from] = << >>
  <2>1. NextVictim(w) /\ search[w].phase = "peek"
    BY <1>2 DEF Peek
  <2> QED BY <1>1, <2>1, NextVictimFound, SearchGoesOn
<1>3. CASE queue[search[w].from] # << >>
  <2> DEFINE h == Head(queue[search[w].from])  s == [search[w] EXCEPT !.phase = "take", !.task = h]
  <2>1. h \in Tasks
    BY <1>1, <1>3, HeadTailProperties
  <2>2. s \in Searches /\ s.phase = "take" /\ s.from = search[w].from /\ s.task = h
    BY <1>1, <2>1 DEF Searches, Phases
  <2>3. search' = [search EXCEPT ![w] = s]
    BY <1>3 DEF Peek
  <2> QED BY <1>1, <2>1, <2>2, <2>3, SearchGoesOn
<1> QED BY <1>2, <1>3

LEMMA TakeFailsControls == ASSUME Control, NEW w \in Threads, TakeFails(w) PROVE Control'
<1>1. /\ Searching(w) /\ NextVictim(w) /\ search[w].phase = "take"
      /\ queue \in [Threads -> Seq(Tasks)]
      /\ UNCHANGED <<queue, stack, base, active, listed, shouldStop>>
  BY DEF TakeFails, Searching, Control, ControlTypes, taskVars, listVars
<1> QED BY <1>1, NextVictimFound, SearchGoesOn

(* The task found is executed.                                             *)
LEMMA ExecuteControls ==
    ASSUME Control, NEW w \in Threads, search[w].phase \in {"take", "stolen"}, Execute(w),
           UNCHANGED <<base, active, listed, shouldStop>>, queue' \in [Threads -> Seq(Tasks)]
    PROVE  Control'
<1> DEFINE f == Frame(search[w].task)
<1>1. ControlTypes /\ Searching(w) /\ ~Drained(w) /\ search[w].task \in Tasks
  BY DEF Control, Searching, Drained, Sought
<1>2. f \in Frames /\ Adding(f)
  BY <1>1 DEF Frame, Frames, Adding
<1>3. stack' = [stack EXCEPT ![w] = Append(@, f)]
  BY DEF Execute
<1>4. /\ stack' \in [Threads -> Seq(Frames)] /\ \A v \in Threads \ {w} : stack'[v] = stack[v]
      /\ \A i \in 1 .. Len(stack'[w]) : Adding(stack'[w][i])
  <2>1. /\ stack' \in [Threads -> Seq(Frames)] /\ \A v \in Threads \ {w} : stack'[v] = stack[v]
        /\ Len(stack[w]) \in Nat /\ Len(stack'[w]) = Len(stack[w]) + 1
        /\ \A i \in 1 .. Len(stack[w]) : stack'[w][i] = stack[w][i]
        /\ stack'[w][Len(stack[w]) + 1] = f
    BY <1>1, <1>2, <1>3, Pushed
  <2>2. \A i \in 1 .. Len(stack[w]) : Adding(stack[w][i])
    BY DEF Control, Waiting
  <2>3. ASSUME NEW i \in 1 .. Len(stack'[w]) PROVE Adding(stack'[w][i])
    <3>1. i \in 1 .. Len(stack[w]) \/ i = Len(stack[w]) + 1
      BY <2>1
    <3> QED BY <3>1, <2>1, <2>2, <1>2
  <2> QED BY <2>1, <2>3
<1>5. NoSearch \in Searches /\ NoSearch.phase = "none"
  BY DEF NoSearch, Searches, Phases
<1>6. /\ search' \in [Threads -> Searches] /\ search'[w].phase = "none"
      /\ \A v \in Threads \ {w} : search'[v] = search[v]
  BY <1>1, <1>5 DEF Execute, ControlTypes
<1> QED BY <1>1, <1>4, <1>6, WorkStep DEF Searching, ControlTypes

LEMMA TakeControls == ASSUME Control, NEW w \in Threads, Take(w) PROVE Control'
<1>1. /\ Searching(w) /\ search[w] \in Searches /\ search[w].from \in Threads /\ search[w].task \in Tasks
      /\ queue \in [Threads -> Seq(Tasks)] /\ queue[search[w].from] # << >>
      /\ UNCHANGED <<base, active, listed, shouldStop>>
  BY DEF Take, Wins, Searching, Control, ControlTypes, Sought, listVars
<1>2. Tail(queue[search[w].from]) \in Seq(Tasks)
  BY <1>1, HeadTailProperties
<1>3. queue' \in [Threads -> Seq(Tasks)]
  BY <1>1, <1>2 DEF Take
<1>4. CASE search[w].from = w
  BY <1>1, <1>3, <1>4, ExecuteControls DEF Take
<1>5. CASE search[w].from # w
  <2> DEFINE s == [search[w] EXCEPT !.phase = "stolen"]
  <2>1. s \in Searches /\ s.phase = "stolen" /\ s.from = search[w].from /\ s.task = search[w].task
    BY <1>1 DEF Searches, Phases
  <2>2. search' = [search EXCEPT ![w] = s] /\ UNCHANGED stack
    BY <1>5 DEF Take
  <2> QED BY <1>1, <1>3, <2>1, <2>2, SearchGoesOn
<1> QED BY <1>4, <1>5

LEMMA PassOnControls == ASSUME Control, NEW w \in Threads, PassOn(w) PROVE Control'
BY ExecuteControls DEF PassOn, listVars, Control, ControlTypes

(* A thread that has nothing to do after the step moves to a new post.     *)
LEMMA MoveStep ==
    ASSUME Control, NEW w \in Threads, NEW b \in Bases,
           base' = [base EXCEPT ![w] = b], UNCHANGED <<queue, stack>>, Drained(w)',
           search' = search \/ search' = [search EXCEPT ![w] = NoSearch],
           active' \subseteq Workers, active \ {w} \subseteq active', listed' \subseteq Threads,
           shouldStop' \in BOOLEAN, shouldStop => shouldStop',
           w = Main => b \in Leaving,
           w \in Workers => b \notin {"program", "settle"} /\ (b = "loop" => w \in active'),
           b \in Leaving => shouldStop',
           b = "erase" => \A v \in Threads \ {w} : base[v] = "loop" => Drained(v)
    PROVE  Control'
<1>1. ControlTypes /\ Where(w)
  BY ControlIsWhere DEF Control
<1>2. NoSearch \in Searches /\ NoSearch.phase = "none"
  BY DEF NoSearch, Searches, Phases
<1>3. /\ search' \in [Threads -> Searches] /\ \A v \in Threads \ {w} : search'[v] = search[v]
      /\ search'[w] = search[w] \/ search'[w].phase = "none"
  BY <1>1, <1>2 DEF ControlTypes
<1>4. base' \in [Threads -> Bases] /\ base'[w] = b /\ \A v \in Threads \ {w} : base'[v] = base[v]
  BY <1>1 DEF ControlTypes
<1>5. ControlTypes'
  BY <1>1, <1>3, <1>4 DEF ControlTypes
<1>6. Where(w)'
  <2>1. ~Busy(w)' /\ ~Searching(w)'
    BY DEF Drained
  <2> QED BY <1>1, <1>3, <1>4, <2>1 DEF Where, Drained
<1> QED BY <1>3, <1>4, <1>5, <1>6, ControlStep

LEMMA NothingFoundControls == ASSUME Control, NEW w \in Threads, NothingFound(w) PROVE Control'
<1>1. /\ ControlTypes /\ Searching(w) /\ ~Drained(w) /\ search' = [search EXCEPT ![w] = NoSearch]
      /\ UNCHANGED <<queue, stack, listed, shouldStop>>
  BY DEF Control, NothingFound, Searching, Drained, taskVars
<1>2. NoSearch \in Searches /\ NoSearch.phase = "none"
  BY DEF NoSearch, Searches, Phases
<1>3. /\ search' \in [Threads -> Searches] /\ \A v \in Threads \ {w} : search'[v] = search[v]
      /\ search'[w].phase = "none" /\ ~Searching(w)'
  BY <1>1, <1>2 DEF ControlTypes, Searching
<1>4. CASE Busy(w)
  <2>1. UNCHANGED <<base, active>> /\ Busy(w)'
    BY <1>1, <1>4 DEF NothingFound, Busy
  <2>2. \A i \in 1 .. Len(stack'[w]) : Adding(stack'[w][i])
    BY <1>1 DEF Control, Waiting
  <2> QED BY <1>1, <1>3, <2>1, <2>2, WorkStep DEF ControlTypes
<1>5. CASE ~Busy(w)
  <2>1. Drained(w)' /\ base[w] \in {"loop", "drain"}
    BY <1>1, <1>3, <1>5 DEF Drained, Busy, Control, Working
  <2>2. CASE base[w] = "drain"
    <3>1. base' = [base EXCEPT ![w] = "unregister"] /\ UNCHANGED active
      BY <1>5, <2>2 DEF NothingFound, Goto
    <3>2. shouldStop
      BY <2>2 DEF Control, Posts, Leaving
    <3> QED BY <1>1, <2>1, <3>1, <3>2, MoveStep DEF ControlTypes, Bases, Leaving
  <2>3. CASE base[w] = "loop"
    <3>1. base' = [base EXCEPT ![w] = "sleep"] /\ active' = active \ {w}
      BY <1>5, <2>3 DEF NothingFound, Goto
    <3>2. w # Main
      BY <2>3 DEF Control, Posts, Leaving
    <3> QED BY <1>1, <2>1, <3>1, <3>2, MoveStep DEF ControlTypes, Bases, Leaving
  <2> QED BY <2>1, <2>2, <2>3
<1> QED BY <1>4, <1>5

-----------------------------------------------------------------------------
(* The steps outside of tasks.                                             *)
LEMMA RegisterControls == ASSUME Control, NEW w \in Threads, Register(w) PROVE Control'
<1>1. /\ Drained(w) /\ w # Main /\ ControlTypes
      /\ base' = [base EXCEPT ![w] = "wake"] /\ listed' = listed \union {w}
      /\ UNCHANGED <<queue, stack, search, active, shouldStop>>
  BY DEF Register, Goto, Control, Working, Posts, Leaving, taskVars, workVars
<1>2. Drained(w)'
  BY <1>1 DEF Drained, Busy, Searching
<1> QED BY <1>1, <1>2, MoveStep DEF ControlTypes, Bases, Leaving

LEMMA SetActiveControls == ASSUME Control, NEW w \in Threads, SetActive(w) PROVE Control'
<1>1. /\ Drained(w) /\ w \in Workers /\ w # Main /\ ControlTypes
      /\ base' = [base EXCEPT ![w] = "loop"] /\ active' = active \union {w}
      /\ UNCHANGED <<queue, stack, search, listed, shouldStop>>
  BY TasksAreAddedOnce DEF SetActive, Goto, Control, Working, Posts, Leaving, taskVars, workVars, Threads
<1>2. Drained(w)'
  BY <1>1 DEF Drained, Busy, Searching
<1> QED BY <1>1, <1>2, MoveStep DEF ControlTypes, Bases, Leaving

LEMMA LoopControls == ASSUME Control, NEW w \in Threads, Loop(w) PROVE Control'
<1>1. /\ Drained(w) /\ w \in Workers /\ w # Main /\ ControlTypes
      /\ UNCHANGED <<queue, stack, listed, shouldStop>>
  BY TasksAreAddedOnce DEF Loop, Control, Posts, Leaving, taskVars, Threads
<1>2. CASE shouldStop \/ shouldPause
  <2>1. /\ \E b \in {"drain", "sleep"} : base' = [base EXCEPT ![w] = b] /\ (b = "drain" => shouldStop)
        /\ active' = active \ {w} /\ UNCHANGED search
    BY <1>2 DEF Loop, Goto
  <2>2. Drained(w)'
    BY <1>1, <2>1 DEF Drained, Busy, Searching
  <2> QED BY <1>1, <2>1, <2>2, MoveStep DEF ControlTypes, Bases, Leaving
<1>3. CASE ~shouldStop /\ ~shouldPause
  <2>1. BeginSearch(w) /\ UNCHANGED <<base, active>> /\ base[w] = "loop"
    BY <1>3 DEF Loop
  <2>2. /\ search' \in [Threads -> Searches] /\ \A v \in Threads \ {w} : search'[v] = search[v]
        /\ search'[w].phase = "peek" /\ search'[w].from = w
    BY <1>1, <2>1, SearchBegins
  <2>3. \A u \in Threads : base'[u] # "erase"
    BY <1>3, <2>1 DEF Control, Posts, Leaving
  <2>4. Where(w) /\ ~Busy(w)'
    BY <1>1, ControlIsWhere DEF Drained, Busy
  <2>5. ControlTypes'
    BY <1>1, <2>1, <2>2 DEF ControlTypes
  <2>6. Where(w)'
    BY <1>1, <2>1, <2>2, <2>4 DEF Where
  <2> QED BY <1>1, <2>1, <2>2, <2>3, <2>5, <2>6, ControlStep
<1> QED BY <1>2, <1>3

LEMMA WakeControls == ASSUME Control, NEW w \in Threads, Wake(w) PROVE Control'
<1>1. /\ Drained(w) /\ w # Main /\ ControlTypes
      /\ \E b \in {"sleep", "wake"} : base' = [base EXCEPT ![w] = b]
      /\ UNCHANGED <<queue, stack, search, active, listed, shouldStop>>
  BY DEF Wake, Goto, Control, Working, Posts, Leaving, taskVars, workVars, listVars
<1>2. Drained(w)'
  BY <1>1 DEF Drained, Busy, Searching
<1> QED BY <1>1, <1>2, MoveStep DEF ControlTypes, Bases, Leaving

LEMMA DrainOnControls == ASSUME Control, NEW w \in Threads, DrainOn(w) PROVE Control'
<1>1. /\ Drained(w) /\ ControlTypes /\ base[w] = "drain" /\ BeginSearch(w)
      /\ UNCHANGED <<queue, stack, base, active, listed, shouldStop>>
  BY DEF DrainOn, Control, taskVars, listVars
<1>2. /\ search' \in [Threads -> Searches] /\ \A v \in Threads \ {w} : search'[v] = search[v]
      /\ search'[w].phase = "peek" /\ search'[w].from = w
  BY <1>1, SearchBegins
<1>3. Where(w) /\ ~Busy(w)'
  BY <1>1, ControlIsWhere DEF Drained, Busy
<1>4. ControlTypes'
  BY <1>1, <1>2 DEF ControlTypes
<1>5. Where(w)'
  BY <1>1, <1>2, <1>3 DEF Where
<1> QED BY <1>1, <1>2, <1>4, <1>5, ControlStep

LEMMA PauseControls == ASSUME Control, NEW w \in Threads, Pause(w) PROVE Control'
<1>1. /\ Drained(w) /\ ControlTypes /\ shouldStop
      /\ base' = [base EXCEPT ![w] = "pausing"]
      /\ UNCHANGED <<queue, stack, search, active, listed, shouldStop>>
  BY DEF Pause, Goto, Control, Working, Posts, Leaving, taskVars, workVars
<1>2. Drained(w)'
  BY <1>1 DEF Drained, Busy, Searching
<1> QED BY <1>1, <1>2, MoveStep DEF ControlTypes, Bases, Leaving

(* Nobody is active, so nobody is in the loop.                             *)
LEMMA SeeNobodyActiveControls == ASSUME Control, NEW w \in Threads, SeeNobodyActive(w) PROVE Control'
<1>1. /\ Drained(w) /\ ControlTypes /\ shouldStop
      /\ base' = [base EXCEPT ![w] = "erase"]
      /\ UNCHANGED <<queue, stack, search, active, listed, shouldStop>>
  BY DEF SeeNobodyActive, Goto, Control, Working, Posts, Leaving, taskVars, workVars, listVars
<1>2. Drained(w)'
  BY <1>1 DEF Drained, Busy, Searching
<1>3. \A v \in Threads : base[v] # "loop"
  BY DEF SeeNobodyActive, NobodyActive, Control, Posts, Leaving, Threads
<1> QED BY <1>1, <1>2, <1>3, MoveStep DEF ControlTypes, Bases, Leaving

LEMMA EraseControls == ASSUME Control, NEW w \in Threads, Erase(w) PROVE Control'
<1>1. /\ Drained(w) /\ ControlTypes /\ shouldStop /\ listed' = listed \ {w}
      /\ base' = [base EXCEPT ![w] = IF w = Main THEN "settle" ELSE "gone"]
      /\ UNCHANGED <<queue, stack, search, active, shouldStop>>
  BY DEF Erase, Goto, Control, Working, Posts, Leaving, taskVars, workVars
<1>2. Drained(w)'
  BY <1>1 DEF Drained, Busy, Searching
<1>3. CASE w = Main
  BY <1>1, <1>2, <1>3, MoveStep, TasksAreAddedOnce DEF ControlTypes, Bases, Leaving
<1>4. CASE w # Main
  BY <1>1, <1>2, <1>4, MoveStep DEF ControlTypes, Bases, Leaving
<1> QED BY <1>3, <1>4

(* What the control reads does not change.                                 *)
LEMMA ControlSame ==
    ASSUME Control, UNCHANGED <<queue, stack, search, base, active, listed, shouldStop>>
    PROVE  Control'
BY DEF Control, ControlTypes, Waiting, Working, Sought, Posts, ListIsQuiet,
       Drained, Searching, Busy, InBody, Doing, Top

LEMMA StopControls == ASSUME Control, Stop PROVE Control'
<1>1. /\ Main \in Threads /\ Main \notin Workers /\ Drained(Main) /\ ControlTypes /\ shouldStop'
      /\ base' = [base EXCEPT ![Main] = "drain"] /\ shouldStop' \in BOOLEAN
      /\ UNCHANGED <<queue, stack, search, active, listed>>
  BY TasksAreAddedOnce DEF Stop, Goto, Control, taskVars, workVars, Threads
<1>2. Drained(Main)'
  BY <1>1 DEF Drained, Busy, Searching
<1> QED BY <1>1, <1>2, MoveStep DEF ControlTypes, Bases, Leaving

LEMMA SettleControls == ASSUME Control, Settle PROVE Control'
<1>1. /\ Main \in Threads /\ Main \notin Workers /\ Drained(Main) /\ ControlTypes /\ shouldStop
      /\ UNCHANGED <<queue, stack, search, active, listed, shouldStop>>
      /\ UNCHANGED base \/ base' = [base EXCEPT ![Main] = "gone"]
  BY TasksAreAddedOnce DEF Settle, Goto, Control, Working, Posts, Leaving, taskVars, workVars, listVars, Threads
<1>2. Drained(Main)'
  BY <1>1 DEF Drained, Busy, Searching
<1>3. CASE UNCHANGED base
  BY <1>1, <1>3, ControlSame
<1>4. CASE base' = [base EXCEPT ![Main] = "gone"]
  BY <1>1, <1>2, <1>4, MoveStep DEF ControlTypes, Bases, Leaving
<1> QED BY <1>1, <1>3, <1>4

LEMMA ControlNext == Control /\ [Next]_vars => Control'
<1> SUFFICES ASSUME Control, [Next]_vars PROVE Control'
  OBVIOUS
<1>1. CASE Focus
  BY <1>1, ControlSame DEF Focus, taskVars, workVars
<1>2. CASE Stop
  BY <1>2, StopControls
<1>3. CASE Settle
  BY <1>3, SettleControls
<1>4. ASSUME NEW w \in Threads, Executing(w) PROVE Control'
  BY <1>4, AddControls, SetNewWorkControls, WaitEndsControls, WaitHelpsControls, FinishControls DEF Executing
<1>5. ASSUME NEW w \in Threads, Seeking(w) PROVE Control'
  BY <1>5, PeekControls, TakeFailsControls, TakeControls, PassOnControls, NothingFoundControls DEF Seeking
<1>6. ASSUME NEW w \in Threads, Living(w) PROVE Control'
  BY <1>6, RegisterControls, SetActiveControls, LoopControls, WakeControls, DrainOnControls,
     PauseControls, SeeNobodyActiveControls, EraseControls DEF Living
<1>7. CASE UNCHANGED vars
  BY <1>7, ControlSame DEF vars, taskVars, workVars, listVars
<1> QED BY <1>1, <1>2, <1>3, <1>4, <1>5, <1>6, <1>7 DEF Next, Step

LEMMA Controlled == Spec => []Control
<1> QED BY ControlInit, ControlNext, PTL DEF Spec

(* While a thread takes itself off the list of workers, no worker of the   *)
(* pool goes through that list.                                            *)
THEOREM ListStaysQuiet == Spec => []ListIsQuiet
<1>1. Control => ListIsQuiet
  BY DEF Control
<1> QED BY <1>1, Controlled, PTL

-----------------------------------------------------------------------------
(* What is owed, member by member.                                         *)
LEMMA OwedMembers ==
    ASSUME NEW t \in created
    PROVE  /\ \A c : <<"child", c>> \in Owed(t) <=> c \in created /\ Parent(c) = t /\ jobs[c] > 0
           /\ \A w : <<"thread", w>> \in Owed(t) <=> w \in Threads /\ Busy(w) /\ Top(w).up = t
           /\ \A b : <<"body", b>> \in Owed(t) <=> b = t /\ OpenBody(t)
           /\ \A x \in Owed(t) : \E y : x = <<"child", y>> \/ x = <<"thread", y>> \/ x = <<"body", y>>
BY DEF Owed

(* Two states owe a task the same when they agree on the members.          *)
LEMMA OwedTheSame ==
    ASSUME NEW t \in Tasks,
           \A c : c \in created /\ Parent(c) = t /\ jobs[c] > 0 <=> (c \in created /\ Parent(c) = t /\ jobs[c] > 0)',
           \A w \in Threads : Busy(w) /\ Top(w).up = t <=> (Busy(w) /\ Top(w).up = t)',
           OpenBody(t) <=> OpenBody(t)'
    PROVE  Owed(t)' = Owed(t)
BY DEF Owed

(* Whoever is owed something is not finished.                              *)
LEMMA OwedIsCounted ==
    ASSUME Counted, NEW t \in created
    PROVE  /\ jobs[t] \in Nat /\ IsFiniteSet(Owed(t)) /\ jobs[t] = Cardinality(Owed(t))
           /\ \A x \in Owed(t) : jobs[t] >= 1
<1>1. IsFiniteSet(Owed(t)) /\ jobs[t] = Cardinality(Owed(t))
  BY DEF Counted
<1>2. jobs[t] \in Nat
  BY <1>1, FS_CardinalityType
<1>3. ASSUME NEW x \in Owed(t) PROVE jobs[t] # 0
  BY <1>1, FS_EmptySet
<1> QED BY <1>1, <1>2, <1>3

LEMMA OneMoreOwed ==
    ASSUME Counted, NEW t \in created, NEW x, x \notin Owed(t), Owed(t)' = Owed(t) \union {x},
           jobs'[t] = jobs[t] + 1
    PROVE  IsFiniteSet(Owed(t)') /\ jobs'[t] = Cardinality(Owed(t)')
BY OwedIsCounted, FS_AddElement

LEMMA OneLessOwed ==
    ASSUME Counted, NEW t \in created, NEW x \in Owed(t), Owed(t)' = Owed(t) \ {x},
           jobs'[t] = jobs[t] - 1
    PROVE  IsFiniteSet(Owed(t)') /\ jobs'[t] = Cardinality(Owed(t)')
BY OwedIsCounted, FS_RemoveElement

LEMMA OneForAnother ==
    ASSUME Counted, NEW t \in created, NEW x \in Owed(t), NEW y, y \notin Owed(t),
           Owed(t)' = (Owed(t) \ {x}) \union {y}, jobs'[t] = jobs[t]
    PROVE  IsFiniteSet(Owed(t)') /\ jobs'[t] = Cardinality(Owed(t)')
<1> DEFINE S == Owed(t) \ {x}
<1>1. IsFiniteSet(S) /\ Cardinality(S) = jobs[t] - 1 /\ jobs[t] \in Nat
  BY OwedIsCounted, FS_RemoveElement
<1>2. y \notin S
  OBVIOUS
<1>3. IsFiniteSet(S \union {y}) /\ Cardinality(S \union {y}) = Cardinality(S) + 1
  BY <1>1, <1>2, FS_AddElement
<1> QED BY <1>1, <1>3

-----------------------------------------------------------------------------
(* Steps that leave the tasks alone, but for a search that goes on.        *)
LEMMA TasksAlone ==
    ASSUME TaskInv, UNCHANGED <<queue, jobs, created, ran, stack>>,
           \A w \in Threads : Stolen(w)' => Stolen(w) /\ search'[w].task = search[w].task
    PROVE  TaskInv'
<1>1. TaskTypes' /\ Executed' /\ Unborn' /\ ToCome' /\ Born'
  BY DEF TaskInv, Places, TaskTypes, Executed, Unborn, ToCome, Born
<1>2. Queued' /\ Taken'
  BY DEF TaskInv, Places, Queued, Taken, Waits
<1>3. Counted'
  BY DEF TaskInv, Counted, Owed, OpenBody, Busy, Top
<1> QED BY <1>1, <1>2, <1>3 DEF TaskInv, Places

(* The frames after a step within the body, or after its end.              *)
LEMMA FramesKept ==
    ASSUME Executed, created \subseteq created', ran' = ran,
           \A v \in Threads : \A i \in 1 .. Len(stack'[v]) :
              /\ i \in 1 .. Len(stack[v]) /\ stack'[v][i].task = stack[v][i].task
              /\ stack'[v][i].up # None => i = Len(stack'[v]) /\ stack'[v][i].up \in created'
    PROVE  Executed'
BY DEF Executed

LEMMA NothingToCome ==
    ASSUME ToCome, created' = created, ran' = ran,
           \A v \in Threads : \A i \in 1 .. Len(stack'[v]) :
              /\ i \in 1 .. Len(stack[v]) /\ stack'[v][i].task = stack[v][i].task
              /\ Ahead(stack'[v][i]) \subseteq Ahead(stack[v][i])
    PROVE  ToCome'
BY DEF ToCome

(* The last frame moves on: a step of its body, no change of what it owes. *)
LEMMA MovesOn ==
    ASSUME TaskInv, ControlTypes, NEW w \in Threads, Busy(w), NEW f \in Frames, SetTop(w, f),
           f.task = Top(w).task, f.up = Top(w).up, Ahead(f) \subseteq Ahead(Top(w)),
           UNCHANGED <<queue, jobs, created, ran, search>>
    PROVE  TaskInv'
<1>1. /\ \A v \in Threads \ {w} : stack'[v] = stack[v]
      /\ \A v \in Threads : Len(stack'[v]) = Len(stack[v])
      /\ \A i \in 1 .. Len(stack[w]) : stack'[w][i] = IF i = Len(stack[w]) THEN f ELSE stack[w][i]
      /\ Busy(w)' /\ Top(w)' = f
  BY Changed
<1>2. Top(w) = stack[w][Len(stack[w])]
  BY DEF Top
<1>3. \A v \in Threads : \A i \in 1 .. Len(stack'[v]) :
        /\ i \in 1 .. Len(stack[v]) /\ stack'[v][i].task = stack[v][i].task
        /\ stack'[v][i].up = stack[v][i].up
        /\ Ahead(stack'[v][i]) \subseteq Ahead(stack[v][i])
  <2> SUFFICES ASSUME NEW v \in Threads, NEW i \in 1 .. Len(stack'[v])
               PROVE  /\ i \in 1 .. Len(stack[v]) /\ stack'[v][i].task = stack[v][i].task
                      /\ stack'[v][i].up = stack[v][i].up
                      /\ Ahead(stack'[v][i]) \subseteq Ahead(stack[v][i])
    OBVIOUS
  <2>1. CASE v # w
    BY <1>1, <2>1
  <2>2. CASE v = w
    BY <1>1, <1>2, <2>2
  <2> QED BY <2>1, <2>2
<1>4. TaskTypes' /\ Queued' /\ Taken' /\ Unborn' /\ Born'
  BY DEF TaskInv, Places, TaskTypes, Queued, Taken, Unborn, Born, Waits, Stolen
<1>5. Executed'
  <2>1. Executed
    BY DEF TaskInv, Places
  <2>2. \A v \in Threads : \A i \in 1 .. Len(stack'[v]) :
          stack'[v][i].up # None => i = Len(stack'[v]) /\ stack'[v][i].up \in created'
    <3> SUFFICES ASSUME NEW v \in Threads, NEW i \in 1 .. Len(stack'[v]), stack'[v][i].up # None
                 PROVE  i = Len(stack'[v]) /\ stack'[v][i].up \in created'
      OBVIOUS
    <3>1. i \in 1 .. Len(stack[v]) /\ stack[v][i].up = stack'[v][i].up /\ Len(stack'[v]) = Len(stack[v])
      BY <1>1, <1>3
    <3> QED BY <2>1, <3>1 DEF Executed
  <2> QED BY <1>3, <2>1, <2>2, FramesKept
<1>6. ToCome'
  BY <1>3, NothingToCome DEF TaskInv
<1>7. Counted'
  <2> SUFFICES ASSUME NEW t \in created PROVE Owed(t)' = Owed(t)
    BY DEF TaskInv, Counted
  <2>1. t \in Tasks
    BY DEF TaskInv, TaskTypes
  <2>2. \A v \in Threads : Busy(v) /\ Top(v).up = t <=> (Busy(v) /\ Top(v).up = t)'
    BY <1>1 DEF Busy, Top
  <2>3. OpenBody(t) <=> OpenBody(t)'
    <3>1. \A v \in Threads : \A i \in 1 .. Len(stack[v]) : Open(stack'[v][i], t) <=> Open(stack[v][i], t)
      BY <1>1, <1>3 DEF Open
    <3> QED BY <1>1, <3>1 DEF OpenBody
  <2> QED BY <2>1, <2>2, <2>3, OwedTheSame
<1> QED BY <1>4, <1>5, <1>6, <1>7 DEF TaskInv, Places

-----------------------------------------------------------------------------
(* The task that a body adds is new, and its parent runs.                  *)
LEMMA AddedIsNew ==
    ASSUME TaskInv, Control, NEW w \in Threads, Add(w)
    PROVE  LET p == Top(w).task  t == Doing(w)[2]
           IN /\ p \in created /\ ran[p] = 1 /\ OpenBody(p) /\ jobs[p] >= 1
              /\ t \in Tasks \ created /\ ran[t] = 0 /\ jobs[t] = 0 /\ t # p
              /\ Top(w).at \in Calls(p) /\ Body(p)[Top(w).at] = <<"add", t>>
              /\ Parent(t) \in {Nobody, p}
<1> DEFINE p == Top(w).task  t == Doing(w)[2]  i == Top(w).at
<1>1. ControlTypes /\ InBody(w) /\ Busy(w) /\ Top(w).up = None /\ ~Top(w).pushed /\ Doing(w)[1] = "add"
  BY DEF Control, Add, InBody
<1>2. /\ Len(stack[w]) \in 1 .. Len(stack[w]) /\ Top(w) = stack[w][Len(stack[w])]
  BY <1>1, TopOfStack
<1>3. p \in created /\ ran[p] = 1
  BY <1>2 DEF TaskInv, Places, Executed
<1>4. OpenBody(p)
  BY <1>1, <1>2 DEF OpenBody, Open
<1>5. <<"body", p>> \in Owed(p)
  BY <1>3, <1>4, OwedMembers
<1>6. jobs[p] >= 1
  BY <1>3, <1>5, OwedIsCounted DEF TaskInv
<1>7. p \in Tasks /\ i \in DOMAIN Body(p) /\ Doing(w) \in {"add", "wait"} \X Tasks /\ t \in Tasks
  BY <1>1, StepIsCall
<1>8. i \in Calls(p) /\ Body(p)[i][2] = t /\ Body(p)[i] = <<"add", t>>
  BY <1>1, <1>7 DEF Calls, Doing
<1>9. t \notin created
  <2>1. i \in Ahead(Top(w))
    BY <1>1, <1>8 DEF Ahead
  <2> QED BY <2>1, <1>2, <1>8 DEF TaskInv, ToCome
<1>10. ran[t] = 0 /\ jobs[t] = 0
  BY <1>7, <1>9 DEF TaskInv, Places, Unborn
<1>11. Parent(t) \in {Nobody, p}
  BY <1>7, <1>8, TasksAreAddedOnce
<1> QED BY <1>3, <1>4, <1>6, <1>7, <1>8, <1>9, <1>10, <1>11

LEMMA OnePlace ==
    \A p, q \in Tasks : \A i \in Calls(p), j \in Calls(q) : Body(q)[j] = Body(p)[i] => q = p /\ j = i
BY TasksAreAddedOnce

LEMMA AddKeepsTasks == ASSUME TaskInv, Control, NEW w \in Threads, Add(w) PROVE TaskInv'
<1>0. PICK p, t, i, f : /\ p = Top(w).task /\ t = Doing(w)[2] /\ i = Top(w).at
                        /\ f = [Top(w) EXCEPT !.pushed = TRUE]
  OBVIOUS
<1>1. /\ p \in created /\ ran[p] = 1 /\ OpenBody(p) /\ jobs[p] >= 1
      /\ t \in Tasks \ created /\ ran[t] = 0 /\ jobs[t] = 0 /\ t # p
      /\ i \in Calls(p) /\ Body(p)[i] = <<"add", t>>
      /\ Parent(t) \in {Nobody, p}
  BY <1>0, AddedIsNew
<1>2. ControlTypes /\ Busy(w) /\ TaskTypes /\ created \subseteq Tasks
  BY DEF Control, Add, InBody, TaskInv, TaskTypes
<1>3. /\ jobs' = [x \in Tasks |-> IF x = t THEN 1 ELSE IF x = Parent(t) THEN jobs[x] + 1 ELSE jobs[x]]
      /\ created' = created \union {t}
      /\ queue' = [queue EXCEPT ![w] = Append(@, t)]
      /\ SetTop(w, f) /\ UNCHANGED <<ran, search>>
  BY <1>0 DEF Add, Begin
<1>4. Top(w) \in Frames /\ Top(w) = stack[w][Len(stack[w])] /\ Len(stack[w]) \in 1 .. Len(stack[w])
  BY <1>2, TopOfStack
<1>5. f \in Frames /\ f.task = p /\ f.up = Top(w).up /\ f.at = i /\ f.pushed
  BY <1>0, <1>4 DEF Frames
<1>6. /\ \A v \in Threads \ {w} : stack'[v] = stack[v]
      /\ \A v \in Threads : Len(stack'[v]) = Len(stack[v])
      /\ \A k \in 1 .. Len(stack[w]) : stack'[w][k] = IF k = Len(stack[w]) THEN f ELSE stack[w][k]
      /\ Busy(w)' /\ Top(w)' = f
  BY <1>2, <1>3, <1>5, Changed
<1>7. \A v \in Threads : \A k \in 1 .. Len(stack'[v]) :
        /\ k \in 1 .. Len(stack[v]) /\ stack'[v][k].task = stack[v][k].task
        /\ stack'[v][k].up = stack[v][k].up
        /\ \A j \in Ahead(stack'[v][k]) : j \in Ahead(stack[v][k]) /\ (stack[v][k].task = p => j # i)
  <2> SUFFICES ASSUME NEW v \in Threads, NEW k \in 1 .. Len(stack'[v])
               PROVE  /\ k \in 1 .. Len(stack[v]) /\ stack'[v][k].task = stack[v][k].task
                      /\ stack'[v][k].up = stack[v][k].up
                      /\ \A j \in Ahead(stack'[v][k]) :
                            j \in Ahead(stack[v][k]) /\ (stack[v][k].task = p => j # i)
    OBVIOUS
  <2>1. k \in 1 .. Len(stack[v])
    BY <1>6
  <2>2. CASE v = w /\ k = Len(stack[w])
    <3>1. stack'[v][k] = f /\ stack[v][k] = Top(w)
      BY <2>1, <2>2, <1>4, <1>6
    <3>2. i \in Nat /\ Top(w).task = p /\ Top(w).at = i
      BY <1>0, <1>4 DEF Frames
    <3>3. \A j \in Ahead(f) : j \in Ahead(Top(w)) /\ j # i
      BY <1>5, <3>2 DEF Ahead
    <3> QED BY <2>1, <3>1, <3>2, <3>3, <1>5
  <2>3. CASE ~(v = w /\ k = Len(stack[w]))
    <3>1. stack'[v][k] = stack[v][k]
      BY <2>1, <2>3, <1>6
    <3>2. stack[v][k].task # p
      BY <2>1, <2>3, <1>0, <1>4 DEF TaskInv, Places, Executed
    <3> QED BY <2>1, <3>1, <3>2
  <2> QED BY <2>2, <2>3
<1>8. TaskTypes'
  <2>1. \A x \in Tasks : jobs[x] \in Int /\ jobs[x] + 1 \in Int
    BY <1>2 DEF TaskTypes
  <2>2. jobs' \in [Tasks -> Int]
    BY <2>1, <1>3
  <2>3. created' \subseteq Tasks /\ ran' \in [Tasks -> {0, 1}]
    BY <1>1, <1>2, <1>3 DEF TaskTypes
  <2> QED BY <2>2, <2>3 DEF TaskTypes
<1>9. Queued'
  <2>1. queue[w] \in Seq(Tasks) /\ Len(queue[w]) \in Nat /\ queue \in [Threads -> Seq(Tasks)]
    BY <1>2, LenProperties DEF ControlTypes
  <2>2. /\ Len(Append(queue[w], t)) = Len(queue[w]) + 1
        /\ \A k \in 1 .. Len(queue[w]) : Append(queue[w], t)[k] = queue[w][k]
        /\ Append(queue[w], t)[Len(queue[w]) + 1] = t
    BY <1>1, <2>1, AppendProperties
  <2>3. /\ \A v \in Threads \ {w} : queue'[v] = queue[v]
        /\ queue'[w] = Append(queue[w], t)
    BY <1>3, <2>1
  <2>4. \A v \in Threads : \A k \in 1 .. Len(queue'[v]) :
          \/ k \in 1 .. Len(queue[v]) /\ queue'[v][k] = queue[v][k] /\ queue[v][k] # t
          \/ v = w /\ k = Len(queue[w]) + 1 /\ queue'[v][k] = t
    <3> SUFFICES ASSUME NEW v \in Threads, NEW k \in 1 .. Len(queue'[v])
                 PROVE  \/ k \in 1 .. Len(queue[v]) /\ queue'[v][k] = queue[v][k] /\ queue[v][k] # t
                        \/ v = w /\ k = Len(queue[w]) + 1 /\ queue'[v][k] = t
      OBVIOUS
    <3>1. k \in 1 .. Len(queue[v]) => queue[v][k] # t
      BY <1>1 DEF TaskInv, Places, Queued, Waits
    <3>2. CASE v # w
      BY <2>3, <3>1, <3>2
    <3>3. CASE v = w
      BY <2>1, <2>2, <2>3, <3>1, <3>3
    <3> QED BY <3>2, <3>3
  <2>5. \A v \in Threads : \A k \in 1 .. Len(queue'[v]) : Waits(queue[v][k])'
    <3> SUFFICES ASSUME NEW v \in Threads, NEW k \in 1 .. Len(queue'[v])
                 PROVE  queue'[v][k] \in created' /\ ran'[queue'[v][k]] = 0
      BY DEF Waits
    <3>1. CASE queue'[v][k] = t
      BY <3>1, <1>1, <1>3
    <3>2. CASE k \in 1 .. Len(queue[v]) /\ queue'[v][k] = queue[v][k]
      BY <3>2, <1>3 DEF TaskInv, Places, Queued, Waits
    <3> QED BY <3>1, <3>2, <2>4
  <2>6. \A u, v \in Threads : \A k \in 1 .. Len(queue'[u]), j \in 1 .. Len(queue'[v]) :
          queue'[u][k] = queue'[v][j] => u = v /\ k = j
    BY <2>4 DEF TaskInv, Places, Queued
  <2> QED BY <2>5, <2>6 DEF Queued, Waits
<1>10. Taken'
  <2> SUFFICES ASSUME NEW u \in Threads, Stolen(u)'
               PROVE  /\ Waits(search[u].task)'
                      /\ \A v \in Threads : \A k \in 1 .. Len(queue'[v]) : queue'[v][k] # search[u].task
                      /\ \A v \in Threads : Stolen(v)' /\ search[v].task = search[u].task => v = u
    BY <1>3 DEF Taken
  <2>1. /\ Stolen(u) /\ Waits(search[u].task)
        /\ \A v \in Threads : \A k \in 1 .. Len(queue[v]) : queue[v][k] # search[u].task
        /\ \A v \in Threads : Stolen(v) /\ search[v].task = search[u].task => v = u
    BY <1>3 DEF TaskInv, Places, Taken, Stolen
  <2>2. Waits(search[u].task)' /\ search[u].task # t
    BY <1>1, <1>3, <2>1 DEF Waits
  <2>3. queue[w] \in Seq(Tasks) /\ Len(queue[w]) \in Nat /\ queue \in [Threads -> Seq(Tasks)]
    BY <1>2, LenProperties DEF ControlTypes
  <2>4. /\ Len(Append(queue[w], t)) = Len(queue[w]) + 1
        /\ \A k \in 1 .. Len(queue[w]) : Append(queue[w], t)[k] = queue[w][k]
        /\ Append(queue[w], t)[Len(queue[w]) + 1] = t
    BY <1>1, <2>3, AppendProperties
  <2>5. /\ \A v \in Threads \ {w} : queue'[v] = queue[v]
        /\ queue'[w] = Append(queue[w], t)
    BY <1>3, <2>3
  <2>6. ASSUME NEW v \in Threads, NEW k \in 1 .. Len(queue'[v]) PROVE queue'[v][k] # search[u].task
    <3>1. CASE v # w
      BY <2>1, <2>5, <3>1
    <3>2. CASE v = w
      <4>1. k \in 1 .. Len(queue[w]) \/ k = Len(queue[w]) + 1
        BY <2>3, <2>4, <2>5, <3>2
      <4> QED BY <4>1, <2>1, <2>2, <2>4, <2>5, <3>2
    <3> QED BY <3>1, <3>2
  <2> QED BY <1>3, <2>1, <2>2, <2>6 DEF Stolen
<1>11. Executed'
  <2>1. Executed /\ created \subseteq created' /\ ran' = ran
    BY <1>3 DEF TaskInv, Places
  <2>2. \A v \in Threads : \A k \in 1 .. Len(stack'[v]) :
          /\ k \in 1 .. Len(stack[v]) /\ stack'[v][k].task = stack[v][k].task
          /\ stack'[v][k].up # None => k = Len(stack'[v]) /\ stack'[v][k].up \in created'
    BY <1>6, <1>7, <2>1 DEF Executed
  <2> QED BY <2>1, <2>2, FramesKept
<1>12. Unborn'
  BY <1>1, <1>2, <1>3, TasksAreAddedOnce DEF TaskInv, Places, Unborn
<1>13. ToCome'
  <2>1. ASSUME NEW v \in Threads, NEW k \in 1 .. Len(stack'[v]), NEW j \in Ahead(stack'[v][k])
        PROVE  Body(stack'[v][k].task)[j][2] \notin created'
    <3> DEFINE q == stack[v][k].task
    <3>1. k \in 1 .. Len(stack[v]) /\ stack'[v][k].task = q /\ j \in Ahead(stack[v][k]) /\ (q = p => j # i)
      BY <1>7
    <3>2. Body(q)[j][2] \notin created
      BY <3>1 DEF TaskInv, ToCome
    <3>3. q \in Tasks /\ j \in Calls(q) /\ p \in Tasks
      BY <3>1, <1>1, <1>2 DEF TaskInv, Places, Executed, Ahead
    <3>4. Body(q)[j] # Body(p)[i]
      BY <3>1, <3>3, <1>1, OnePlace
    <3>5. Body(q)[j] \in {"add", "wait"} \X Tasks /\ Body(q)[j][1] = "add"
      <4>1. Body(q) \in Seq({"add", "wait"} \X Tasks) /\ j \in DOMAIN Body(q) /\ Body(q)[j][1] = "add"
        BY <3>3, TasksAreAddedOnce DEF Calls
      <4> QED BY <4>1, LenProperties, ElementOfSeq
    <3>6. Body(q)[j][2] # t
      BY <3>4, <3>5, <1>1
    <3> QED BY <3>1, <3>2, <3>6, <1>3
  <2>2. ASSUME NEW q \in Tasks, ran'[q] = 0, NEW j \in Calls(q)
        PROVE  Body(q)[j][2] \notin created'
    <3>1. q # p /\ ran[q] = 0 /\ p \in Tasks
      BY <2>2, <1>1, <1>2, <1>3
    <3>2. Body(q)[j][2] \notin created
      BY <3>1 DEF TaskInv, ToCome
    <3>3. Body(q)[j] # Body(p)[i]
      BY <3>1, <1>1, OnePlace
    <3>4. Body(q)[j] \in {"add", "wait"} \X Tasks /\ Body(q)[j][1] = "add"
      <4>1. Body(q) \in Seq({"add", "wait"} \X Tasks) /\ j \in DOMAIN Body(q) /\ Body(q)[j][1] = "add"
        BY TasksAreAddedOnce DEF Calls
      <4> QED BY <4>1, LenProperties, ElementOfSeq
    <3>5. Body(q)[j][2] # t
      BY <3>3, <3>4, <1>1
    <3> QED BY <3>2, <3>5, <1>3
  <2> QED BY <2>1, <2>2 DEF ToCome
<1>14. Born'
  BY <1>1, <1>3 DEF TaskInv, Born
<1>15. Counted'
  <2>1. \A v \in Threads : /\ Busy(v) <=> Busy(v)'
                           /\ Busy(v) => Top(v)'.up = Top(v).up
    BY <1>2, <1>5, <1>6 DEF Busy, Top
  <2>2. ASSUME NEW u \in Tasks PROVE OpenBody(u) <=> OpenBody(u)'
    BY <1>3, <1>6, <1>7 DEF OpenBody, Open
  <2>3. \A c \in created : jobs[c] > 0 <=> jobs'[c] > 0
    <3> SUFFICES ASSUME NEW c \in created PROVE jobs[c] > 0 <=> jobs'[c] > 0
      OBVIOUS
    <3>1. CASE c = p
      BY <3>1, <1>1, <1>2, <1>3 DEF TaskTypes
    <3>2. CASE c # p
      BY <3>2, <1>1, <1>2, <1>3, TasksAreAddedOnce
    <3> QED BY <3>1, <3>2
  <2>4. ASSUME NEW u \in created, u # Parent(t) PROVE Owed(u)' = Owed(u) /\ jobs'[u] = jobs[u]
    <3>1. \A c : c \in created /\ Parent(c) = u /\ jobs[c] > 0 <=> (c \in created /\ Parent(c) = u /\ jobs[c] > 0)'
      BY <2>3, <2>4, <1>1, <1>3
    <3>2. \A v \in Threads : Busy(v) /\ Top(v).up = u <=> (Busy(v) /\ Top(v).up = u)'
      BY <2>1
    <3>3. u \in Tasks /\ u # t
      BY <1>1, <1>2
    <3>4. Owed(u)' = Owed(u)
      BY <2>2, <3>1, <3>2, <3>3, OwedTheSame
    <3> QED BY <3>3, <3>4, <2>4, <1>3
  <2>5. ASSUME NEW u \in created, u = Parent(t)
        PROVE  IsFiniteSet(Owed(u)') /\ jobs'[u] = Cardinality(Owed(u)')
    <3> DEFINE x == <<"child", t>>
    <3>1. u = p /\ u # t /\ u \in Tasks /\ jobs'[u] = jobs[u] + 1 /\ jobs'[t] = 1 /\ t \in created'
      BY <2>5, <1>1, <1>2, <1>3, TasksAreAddedOnce
    <3>2. x \notin Owed(u)
      BY <1>1, OwedMembers
    <3>3. Owed(u)' = Owed(u) \union {x}
      <4>1. {c \in created : Parent(c) = u /\ jobs[c] > 0}' = {c \in created : Parent(c) = u /\ jobs[c] > 0} \union {t}
        <5>1. ASSUME NEW c PROVE (c \in created /\ Parent(c) = u /\ jobs[c] > 0)'
                                 <=> (c \in created /\ Parent(c) = u /\ jobs[c] > 0) \/ c = t
          <6>1. CASE c = t
            BY <6>1, <2>5, <3>1, <1>3
          <6>2. CASE c # t
            BY <6>2, <2>3, <1>3
          <6> QED BY <6>1, <6>2
        <5> QED BY <5>1
      <4>2. {v \in Threads : Busy(v) /\ Top(v).up = u}' = {v \in Threads : Busy(v) /\ Top(v).up = u}
        BY <2>1
      <4>3. {b \in {u} : OpenBody(u)}' = {b \in {u} : OpenBody(u)}
        BY <2>2, <3>1
      <4> QED BY <4>1, <4>2, <4>3 DEF Owed
    <3> QED BY <3>1, <3>2, <3>3, OneMoreOwed DEF TaskInv
  <2>6. IsFiniteSet(Owed(t)') /\ jobs'[t] = Cardinality(Owed(t)')
    <3>1. OpenBody(t)'
      BY <1>1, <1>3 DEF OpenBody
    <3>2. \A c \in created' : Parent(c) # t
      BY <1>1, <1>3, TasksAreAddedOnce DEF TaskInv, Born
    <3>3. \A v \in Threads : ~(Busy(v) /\ Top(v).up = t)'
      <4> SUFFICES ASSUME NEW v \in Threads, Busy(v), Top(v).up = t PROVE FALSE
        BY <2>1
      <4>1. Len(stack[v]) \in 1 .. Len(stack[v]) /\ Top(v) = stack[v][Len(stack[v])]
        BY <1>2, TopOfStack
      <4>2. t # None
        BY <1>1, TasksAreAddedOnce
      <4> QED BY <4>1, <4>2, <1>1 DEF TaskInv, Places, Executed
    <3>4. {c \in created : Parent(c) = t /\ jobs[c] > 0}' = {}
      BY <3>2
    <3>5. {v \in Threads : Busy(v) /\ Top(v).up = t}' = {}
      BY <3>3
    <3>6. {b \in {t} : OpenBody(t)}' = {t}
      BY <3>1
    <3>7. Owed(t)' = {<<"body", t>>}
      BY <3>4, <3>5, <3>6 DEF Owed
    <3>8. jobs'[t] = 1
      BY <1>1, <1>3
    <3> QED BY <3>7, <3>8, FS_Singleton
  <2>7. \A u \in created : IsFiniteSet(Owed(u)) /\ jobs[u] = Cardinality(Owed(u))
    BY DEF TaskInv, Counted
  <2>8. ASSUME NEW u \in created' PROVE IsFiniteSet(Owed(u)') /\ jobs'[u] = Cardinality(Owed(u)')
    BY <2>4, <2>5, <2>6, <2>7, <1>3
  <2> QED BY <2>8 DEF Counted
<1> QED BY <1>8, <1>9, <1>10, <1>11, <1>12, <1>13, <1>14, <1>15 DEF TaskInv, Places

LEMMA SetNewWorkKeepsTasks == ASSUME TaskInv, Control, NEW w \in Threads, SetNewWork(w) PROVE TaskInv'
<1> DEFINE f == [Top(w) EXCEPT !.pushed = FALSE, !.at = @ + 1]
<1>1. ControlTypes /\ Busy(w) /\ Top(w).pushed /\ SetTop(w, f) /\ UNCHANGED <<queue, jobs, created, ran, search>>
  BY DEF Control, SetNewWork, InBody, taskVars
<1>2. Top(w) \in Frames /\ Top(w).at \in Nat \ {0} /\ Top(w).at + 1 \in Nat \ {0}
  BY <1>1, TopOfStack DEF Frames
<1>3. f \in Frames /\ f.task = Top(w).task /\ f.up = Top(w).up /\ f.at = Top(w).at + 1
  BY <1>2 DEF Frames
<1>4. \A i \in Calls(f.task) : i \in Int
  BY <1>2, <1>3, TasksAreAddedOnce, LenProperties DEF Calls, Frames
<1>5. Ahead(f) \subseteq Ahead(Top(w))
  BY <1>2, <1>3, <1>4 DEF Ahead
<1> QED BY <1>1, <1>3, <1>5, MovesOn

LEMMA WaitEndsKeepsTasks == ASSUME TaskInv, Control, NEW w \in Threads, WaitEnds(w) PROVE TaskInv'
<1> DEFINE f == [Top(w) EXCEPT !.at = @ + 1]
<1>1. ControlTypes /\ Busy(w) /\ SetTop(w, f) /\ UNCHANGED <<queue, jobs, created, ran, search>>
  BY DEF Control, WaitEnds, InBody, taskVars
<1>2. Top(w) \in Frames /\ Top(w).at \in Nat \ {0} /\ Top(w).at + 1 \in Nat \ {0}
  BY <1>1, TopOfStack DEF Frames
<1>3. f \in Frames /\ f.task = Top(w).task /\ f.up = Top(w).up /\ f.at = Top(w).at + 1
  BY <1>2 DEF Frames
<1>4. \A i \in Calls(f.task) : i \in Int
  BY <1>2, <1>3, TasksAreAddedOnce, LenProperties DEF Calls, Frames
<1>5. Ahead(f) \subseteq Ahead(Top(w))
  <2>1. ASSUME NEW i \in Ahead(f) PROVE i \in Calls(Top(w).task) /\ i > Top(w).at
    BY <1>2, <1>3, <1>4 DEF Ahead
  <2> QED BY <2>1 DEF Ahead
<1> QED BY <1>1, <1>3, <1>5, MovesOn

-----------------------------------------------------------------------------
(* The end of a body, and the way up: one count less.                      *)
LEMMA FinishKeepsTasks == ASSUME TaskInv, Control, NEW w \in Threads, Finish(w) PROVE TaskInv'
<1>0. PICK t, n, x : /\ t = IF Top(w).up = None THEN Top(w).task ELSE Top(w).up
                     /\ n = Len(stack[w])
                     /\ x = IF Top(w).up = None THEN <<"body", t>> ELSE <<"thread", w>>
  OBVIOUS
<1>1. ControlTypes /\ Busy(w) /\ TaskTypes /\ created \subseteq Tasks
  BY DEF Control, Finish, TaskInv, TaskTypes
<1>2. n \in Nat \ {0} /\ n \in 1 .. n /\ Top(w) = stack[w][n] /\ Top(w) \in Frames
  BY <1>0, <1>1, TopOfStack
<1>3. t \in created /\ t \in Tasks /\ t # None /\ ran[Top(w).task] = 1
  BY <1>0, <1>1, <1>2, TasksAreAddedOnce DEF TaskInv, Places, Executed
<1>4. x \in Owed(t)
  <2>1. CASE Top(w).up = None
    <3>1. Open(stack[w][n], t)
      BY <2>1, <1>0, <1>2 DEF Open
    <3>2. OpenBody(t)
      BY <3>1, <1>0, <1>2 DEF OpenBody
    <3> QED BY <2>1, <3>2, <1>0, <1>3, OwedMembers
  <2>2. CASE Top(w).up # None
    BY <2>2, <1>0, <1>1, <1>3, OwedMembers
  <2> QED BY <2>1, <2>2
<1>5. jobs[t] >= 1 /\ jobs[t] \in Nat
  BY <1>3, <1>4, OwedIsCounted DEF TaskInv
<1>6. /\ jobs' = [jobs EXCEPT ![t] = @ - 1] /\ UNCHANGED <<queue, created, ran, search>>
      /\ StopsAt(t) => stack' = [stack EXCEPT ![w] = SubSeq(@, 1, Len(@) - 1)]
      /\ ~StopsAt(t) => SetTop(w, [Top(w) EXCEPT !.up = Parent(t)])
  BY <1>0 DEF Finish
<1>7. TaskTypes' /\ Queued' /\ Taken' /\ Born'
  <2>1. jobs' \in [Tasks -> Int]
    BY <1>1, <1>3, <1>5, <1>6 DEF TaskTypes
  <2> QED BY <2>1, <1>6 DEF TaskInv, Places, TaskTypes, Queued, Taken, Born, Waits, Stolen
<1>8. Unborn' /\ jobs'[t] = jobs[t] - 1 /\ \A u \in Tasks \ {t} : jobs'[u] = jobs[u]
  BY <1>1, <1>3, <1>6 DEF TaskInv, Places, Unborn, TaskTypes
<1>9. \A i \in 1 .. n : stack[w][i].up # None => i = n
  BY <1>0 DEF TaskInv, Places, Executed
<1>10. \A u \in Tasks : \A v \in Threads : \A i \in 1 .. Len(stack[v]) :
          Open(stack[v][i], u) /\ v = w /\ i = n => u = t /\ x = <<"body", t>>
  BY <1>0, <1>2 DEF Open
<1>11. x = <<"body", t>> => \A v \in Threads : \A i \in 1 .. Len(stack[v]) :
          Open(stack[v][i], t) => v = w /\ i = n
  <2> SUFFICES ASSUME Top(w).up = None, NEW v \in Threads, NEW i \in 1 .. Len(stack[v]), Open(stack[v][i], t)
               PROVE  v = w /\ i = n
    BY <1>0
  <2>1. t = stack[w][n].task /\ t = stack[v][i].task
    BY <1>0, <1>2 DEF Open
  <2>2. \A a, b \in Threads : \A k \in 1 .. Len(stack[a]), j \in 1 .. Len(stack[b]) :
          stack[a][k].task = stack[b][j].task => a = b /\ k = j
    BY DEF TaskInv, Places, Executed
  <2>3. n \in 1 .. Len(stack[w]) /\ stack[v][i].task = stack[w][n].task
    BY <2>1, <1>0, <1>2
  <2> QED BY <2>2, <2>3
<1>12. CASE StopsAt(t)
  <2>1. /\ \A v \in Threads \ {w} : stack'[v] = stack[v]
        /\ Len(stack'[w]) = n - 1
        /\ \A i \in 1 .. n - 1 : stack'[w][i] = stack[w][i]
        /\ stack' \in [Threads -> Seq(Frames)]
    BY <1>0, <1>1, <1>6, <1>12, Popped
  <2>2. \A v \in Threads : \A i \in 1 .. Len(stack'[v]) :
          /\ i \in 1 .. Len(stack[v]) /\ stack'[v][i] = stack[v][i]
          /\ ~(v = w /\ i = n)
    BY <2>1, <1>0, <1>2
  <2>3. \A v \in Threads : \A i \in 1 .. Len(stack[v]) : ~(v = w /\ i = n) => i \in 1 .. Len(stack'[v])
    BY <2>1, <1>0, <1>2
  <2>4. Executed'
    <3>1. \A v \in Threads : \A i \in 1 .. Len(stack'[v]) :
            stack'[v][i].up # None => i = Len(stack'[v]) /\ stack'[v][i].up \in created'
      <4> SUFFICES ASSUME NEW v \in Threads, NEW i \in 1 .. Len(stack'[v]), stack'[v][i].up # None
                   PROVE  i = Len(stack'[v]) /\ stack'[v][i].up \in created'
        OBVIOUS
      <4>1. v # w
        BY <2>2, <1>0, <1>9
      <4> QED BY <4>1, <2>1, <1>6 DEF TaskInv, Places, Executed
    <3> QED BY <3>1, <2>2, <1>6, FramesKept DEF TaskInv, Places
  <2>5. ToCome'
    BY <2>2, <1>6, NothingToCome DEF TaskInv
  <2>6. \A u \in Tasks : \A v \in Threads :
          (Busy(v) /\ Top(v).up = u)' <=> Busy(v) /\ Top(v).up = u /\ ~(u = t /\ x = <<"thread", w>> /\ v = w)
    <3> SUFFICES ASSUME NEW u \in Tasks, NEW v \in Threads
                 PROVE  (Busy(v) /\ Top(v).up = u)'
                          <=> Busy(v) /\ Top(v).up = u /\ ~(u = t /\ x = <<"thread", w>> /\ v = w)
      OBVIOUS
    <3>1. CASE v # w
      BY <3>1, <2>1 DEF Busy, Top
    <3>2. CASE v = w
      <4>1. ~(Busy(w)' /\ Top(w)'.up = u)
        <5> SUFFICES ASSUME Busy(w)', Top(w)'.up = u PROVE FALSE
          OBVIOUS
        <5>1. stack'[w] \in Seq(Frames) /\ stack'[w] # << >>
          BY <2>1 DEF Busy
        <5>2. n - 1 \in 1 .. n - 1
          BY <5>1, <2>1, EmptySeq
        <5>3. stack'[w][n - 1].up = u /\ stack'[w][n - 1] = stack[w][n - 1]
          BY <5>2, <2>1 DEF Top
        <5>4. u # None
          BY TasksAreAddedOnce
        <5> QED BY <5>2, <5>3, <5>4, <1>2, <1>9
      <4>2. Top(w).up = u => u = t /\ x = <<"thread", w>>
        BY <1>0, TasksAreAddedOnce
      <4> QED BY <3>2, <4>1, <4>2
    <3> QED BY <3>1, <3>2
  <2>7. \A u \in Tasks : OpenBody(u)' <=> OpenBody(u) /\ ~(u = t /\ x = <<"body", t>>)
    <3> SUFFICES ASSUME NEW u \in Tasks PROVE OpenBody(u)' <=> OpenBody(u) /\ ~(u = t /\ x = <<"body", t>>)
      OBVIOUS
    <3>1. CASE u = t /\ x = <<"body", t>>
      <4>1. ran[t] = 1
        BY <3>1, <1>0, <1>3
      <4>2. \A v \in Threads : \A i \in 1 .. Len(stack'[v]) : ~Open(stack'[v][i], t)
        BY <3>1, <2>2, <1>11
      <4> QED BY <3>1, <4>1, <4>2, <1>6 DEF OpenBody
    <3>2. CASE ~(u = t /\ x = <<"body", t>>)
      <4>1. \A v \in Threads : \A i \in 1 .. Len(stack[v]) : Open(stack[v][i], u) => ~(v = w /\ i = n)
        BY <3>2, <1>10
      <4> QED BY <3>2, <4>1, <2>2, <2>3, <1>6 DEF OpenBody
    <3> QED BY <3>1, <3>2
  <2>8. \A u \in Tasks : \A c : (c \in created /\ Parent(c) = u /\ jobs[c] > 0)'
                                 <=> c \in created /\ Parent(c) = u /\ jobs[c] > 0
    <3> SUFFICES ASSUME NEW u \in Tasks, NEW c \in created, Parent(c) = u
                 PROVE  jobs'[c] > 0 <=> jobs[c] > 0
      BY <1>6
    <3>1. CASE c = t
      <4>1. jobs[t] > 1
        BY <3>1, <1>12, TasksAreAddedOnce DEF StopsAt
      <4> QED BY <3>1, <4>1, <1>5, <1>8
    <3>2. CASE c # t
      BY <3>2, <1>1, <1>8
    <3> QED BY <3>1, <3>2
  <2>9. Counted'
    <3>1. ASSUME NEW u \in created, u # t PROVE Owed(u)' = Owed(u) /\ jobs'[u] = jobs[u]
      BY <3>1, <2>6, <2>7, <2>8, <1>1, <1>8, OwedTheSame
    <3>2. Owed(t)' = Owed(t) \ {x}
      <4> DEFINE K == {c \in created : Parent(c) = t /\ jobs[c] > 0}
                 U == {v \in Threads : Busy(v) /\ Top(v).up = t}
                 B == {b \in {t} : OpenBody(t)}
      <4>1. K' = K
        BY <2>8, <1>3
      <4>2. CASE x = <<"body", t>>
        <5>1. U' = U /\ B' = {}
          BY <4>2, <2>6, <2>7, <1>3
        <5> QED BY <4>1, <4>2, <5>1 DEF Owed
      <4>3. CASE x = <<"thread", w>>
        <5>1. U' = U \ {w} /\ B' = B
          BY <4>3, <2>6, <2>7, <1>3
        <5> QED BY <4>1, <4>3, <5>1 DEF Owed
      <4> QED BY <4>2, <4>3, <1>0
    <3>3. IsFiniteSet(Owed(t)') /\ jobs'[t] = Cardinality(Owed(t)')
      BY <3>2, <1>3, <1>4, <1>8, OneLessOwed DEF TaskInv
    <3>4. \A u \in created : IsFiniteSet(Owed(u)) /\ jobs[u] = Cardinality(Owed(u))
      BY DEF TaskInv, Counted
    <3>5. ASSUME NEW u \in created PROVE IsFiniteSet(Owed(u)') /\ jobs'[u] = Cardinality(Owed(u)')
      BY <3>1, <3>3, <3>4
    <3> QED BY <3>5, <1>6 DEF Counted
  <2> QED BY <1>7, <1>8, <2>4, <2>5, <2>9 DEF TaskInv, Places
<1>13. CASE ~StopsAt(t)
  <2>0. PICK p, f : p = Parent(t) /\ f = [Top(w) EXCEPT !.up = p]
    OBVIOUS
  <2>1. p \in Tasks /\ p # t /\ p # None /\ p \in created /\ jobs[t] = 1 /\ jobs'[t] = 0
    <3>1. p # Nobody /\ jobs[t] = 1
      BY <2>0, <1>5, <1>13 DEF StopsAt
    <3>2. p \in Tasks /\ p # t /\ ran[p] = 1
      BY <3>1, <2>0, <1>3, TasksAreAddedOnce DEF TaskInv, Born
    <3> QED BY <3>1, <3>2, <1>8, TasksAreAddedOnce DEF TaskInv, Places, Unborn
  <2>2. f \in Frames /\ f.task = Top(w).task /\ f.up = p /\ f.at = Top(w).at /\ f.pushed = Top(w).pushed
    BY <2>0, <2>1, <1>2 DEF Frames
  <2>3. /\ \A v \in Threads \ {w} : stack'[v] = stack[v]
        /\ \A v \in Threads : Len(stack'[v]) = Len(stack[v])
        /\ \A i \in 1 .. n : stack'[w][i] = IF i = n THEN f ELSE stack[w][i]
        /\ Busy(w)' /\ Top(w)' = f
    BY <2>0, <2>2, <1>0, <1>1, <1>6, <1>13, Changed
  <2>4. \A v \in Threads : \A i \in 1 .. Len(stack'[v]) :
          /\ i \in 1 .. Len(stack[v]) /\ stack'[v][i].task = stack[v][i].task
          /\ ~(v = w /\ i = n) => stack'[v][i] = stack[v][i]
          /\ v = w /\ i = n => stack'[v][i] = f
          /\ Ahead(stack'[v][i]) \subseteq Ahead(stack[v][i])
    <3> SUFFICES ASSUME NEW v \in Threads, NEW i \in 1 .. Len(stack'[v])
                 PROVE  /\ i \in 1 .. Len(stack[v]) /\ stack'[v][i].task = stack[v][i].task
                        /\ ~(v = w /\ i = n) => stack'[v][i] = stack[v][i]
                        /\ v = w /\ i = n => stack'[v][i] = f
                        /\ Ahead(stack'[v][i]) \subseteq Ahead(stack[v][i])
      OBVIOUS
    <3>1. i \in 1 .. Len(stack[v])
      BY <2>3
    <3>2. CASE v = w /\ i = n
      <4>1. stack'[v][i] = f /\ stack[v][i] = Top(w)
        BY <3>1, <3>2, <2>3, <1>0, <1>2
      <4>2. Ahead(f) = Ahead(Top(w))
        BY <2>2 DEF Ahead
      <4> QED BY <3>1, <3>2, <4>1, <4>2, <2>2
    <3>3. CASE ~(v = w /\ i = n)
      BY <3>1, <3>3, <2>3, <1>0
    <3> QED BY <3>2, <3>3
  <2>5. Executed'
    <3>1. \A v \in Threads : \A i \in 1 .. Len(stack'[v]) :
            stack'[v][i].up # None => i = Len(stack'[v]) /\ stack'[v][i].up \in created'
      <4> SUFFICES ASSUME NEW v \in Threads, NEW i \in 1 .. Len(stack'[v]), stack'[v][i].up # None
                   PROVE  i = Len(stack'[v]) /\ stack'[v][i].up \in created'
        OBVIOUS
      <4>1. CASE v = w /\ i = n
        BY <4>1, <2>1, <2>2, <2>3, <2>4, <1>0, <1>6
      <4>2. CASE ~(v = w /\ i = n)
        BY <4>2, <2>3, <2>4, <1>6 DEF TaskInv, Places, Executed
      <4> QED BY <4>1, <4>2
    <3> QED BY <3>1, <2>4, <1>6, FramesKept DEF TaskInv, Places
  <2>6. ToCome'
    BY <2>4, <1>6, NothingToCome DEF TaskInv
  <2>7. \A u \in Tasks : \A v \in Threads :
          (Busy(v) /\ Top(v).up = u)'
            <=> \/ Busy(v) /\ Top(v).up = u /\ ~(u = t /\ x = <<"thread", w>> /\ v = w)
                \/ u = p /\ v = w
    <3> SUFFICES ASSUME NEW u \in Tasks, NEW v \in Threads
                 PROVE  (Busy(v) /\ Top(v).up = u)'
                          <=> \/ Busy(v) /\ Top(v).up = u /\ ~(u = t /\ x = <<"thread", w>> /\ v = w)
                              \/ u = p /\ v = w
      OBVIOUS
    <3>1. CASE v # w
      BY <3>1, <2>3 DEF Busy, Top
    <3>2. CASE v = w
      <4>1. Top(w).up = u => u = t /\ x = <<"thread", w>>
        BY <1>0, TasksAreAddedOnce
      <4> QED BY <3>2, <4>1, <2>2, <2>3, <1>1
    <3> QED BY <3>1, <3>2
  <2>8. \A u \in Tasks : OpenBody(u)' <=> OpenBody(u) /\ ~(u = t /\ x = <<"body", t>>)
    <3> SUFFICES ASSUME NEW u \in Tasks PROVE OpenBody(u)' <=> OpenBody(u) /\ ~(u = t /\ x = <<"body", t>>)
      OBVIOUS
    <3>0. ~Open(f, u)
      BY <2>1, <2>2 DEF Open
    <3>1. CASE u = t /\ x = <<"body", t>>
      <4>1. ran[t] = 1
        BY <3>1, <1>0, <1>3
      <4>2. \A v \in Threads : \A i \in 1 .. Len(stack'[v]) : ~Open(stack'[v][i], t)
        BY <3>0, <3>1, <2>4, <1>11
      <4> QED BY <3>1, <4>1, <4>2, <1>6 DEF OpenBody
    <3>2. CASE ~(u = t /\ x = <<"body", t>>)
      <4>1. \A v \in Threads : \A i \in 1 .. Len(stack[v]) : Open(stack[v][i], u) => ~(v = w /\ i = n)
        BY <3>2, <1>10
      <4>2. \A v \in Threads : \A i \in 1 .. Len(stack[v]) :
              i \in 1 .. Len(stack'[v]) /\ (Open(stack'[v][i], u) <=> Open(stack[v][i], u))
        BY <3>0, <4>1, <2>3, <2>4
      <4>3. \A v \in Threads : \A i \in 1 .. Len(stack'[v]) : i \in 1 .. Len(stack[v])
        BY <2>3
      <4> QED BY <3>2, <4>2, <4>3, <1>6 DEF OpenBody
    <3> QED BY <3>1, <3>2
  <2>9. \A u \in Tasks : \A c : (c \in created /\ Parent(c) = u /\ jobs[c] > 0)'
                                 <=> c \in created /\ Parent(c) = u /\ jobs[c] > 0 /\ c # t
    <3> SUFFICES ASSUME NEW u \in Tasks, NEW c \in created, Parent(c) = u
                 PROVE  jobs'[c] > 0 <=> jobs[c] > 0 /\ c # t
      BY <1>6
    <3>1. CASE c = t
      BY <3>1, <2>1
    <3>2. CASE c # t
      BY <3>2, <1>1, <1>8
    <3> QED BY <3>1, <3>2
  <2>10. Counted'
    <3>1. ASSUME NEW u \in created, u # t, u # p PROVE Owed(u)' = Owed(u) /\ jobs'[u] = jobs[u]
      <4>1. \A c : c \in created /\ Parent(c) = u /\ jobs[c] > 0
                     <=> (c \in created /\ Parent(c) = u /\ jobs[c] > 0)'
        BY <3>1, <2>0, <2>9, <1>1
      <4> QED BY <3>1, <4>1, <2>7, <2>8, <1>1, <1>8, OwedTheSame
    <3>2. Owed(t)' = Owed(t) \ {x}
      <4> DEFINE K == {c \in created : Parent(c) = t /\ jobs[c] > 0}
                 U == {v \in Threads : Busy(v) /\ Top(v).up = t}
                 B == {b \in {t} : OpenBody(t)}
      <4>1. K' = K
        BY <2>0, <2>1, <2>9, <1>3
      <4>2. CASE x = <<"body", t>>
        <5>1. U' = U /\ B' = {}
          BY <4>2, <2>1, <2>7, <2>8, <1>3
        <5> QED BY <4>1, <4>2, <5>1 DEF Owed
      <4>3. CASE x = <<"thread", w>>
        <5>1. U' = U \ {w} /\ B' = B
          BY <4>3, <2>1, <2>7, <2>8, <1>3
        <5> QED BY <4>1, <4>3, <5>1 DEF Owed
      <4> QED BY <4>2, <4>3, <1>0
    <3>3. IsFiniteSet(Owed(t)') /\ jobs'[t] = Cardinality(Owed(t)')
      BY <3>2, <1>3, <1>4, <1>8, OneLessOwed DEF TaskInv
    <3>4. IsFiniteSet(Owed(p)') /\ jobs'[p] = Cardinality(Owed(p)')
      <4> DEFINE y == <<"child", t>>  z == <<"thread", w>>
                 K == {c \in created : Parent(c) = p /\ jobs[c] > 0}
                 U == {v \in Threads : Busy(v) /\ Top(v).up = p}
                 B == {b \in {p} : OpenBody(p)}
      <4>1. y \in Owed(p)
        BY <2>0, <2>1, <1>3, OwedMembers
      <4>2. z \notin Owed(p)
        <5>1. Top(w).up # p
          BY <2>1, <1>0
        <5> QED BY <5>1, <2>1, OwedMembers
      <4>3. K' = K \ {t}
        BY <2>1, <2>9
      <4>4. U' = U \union {w}
        BY <2>1, <2>7
      <4>5. B' = B
        BY <2>1, <2>8
      <4>6. Owed(p)' = (Owed(p) \ {y}) \union {z}
        BY <4>3, <4>4, <4>5 DEF Owed
      <4>7. jobs'[p] = jobs[p]
        BY <2>1, <1>8
      <4> QED BY <4>1, <4>2, <4>6, <4>7, <2>1, OneForAnother DEF TaskInv
    <3>5. \A u \in created : IsFiniteSet(Owed(u)) /\ jobs[u] = Cardinality(Owed(u))
      BY DEF TaskInv, Counted
    <3>6. ASSUME NEW u \in created PROVE IsFiniteSet(Owed(u)') /\ jobs'[u] = Cardinality(Owed(u)')
      BY <3>1, <3>3, <3>4, <3>5
    <3> QED BY <3>6, <1>6 DEF Counted
  <2> QED BY <1>7, <1>8, <2>5, <2>6, <2>10 DEF TaskInv, Places
<1> QED BY <1>12, <1>13

-----------------------------------------------------------------------------
(* What the exchange of a pop takes away from the queues.                  *)
LEMMA TakenFromQueue ==
    ASSUME TaskInv, Control, NEW w \in Threads, Take(w), NEW t, t = search[w].task
    PROVE  /\ t \in created /\ ran[t] = 0
           /\ \A v \in Threads : Stolen(v) => search[v].task # t
           /\ \A v \in Threads : \A i \in 1 .. Len(queue'[v]) :
                /\ \E k \in 1 .. Len(queue[v]) : queue'[v][i] = queue[v][k]
                /\ queue'[v][i] # t
           /\ \A u, v \in Threads : \A i \in 1 .. Len(queue'[u]), j \in 1 .. Len(queue'[v]) :
                queue'[u][i] = queue'[v][j] => u = v /\ i = j
<1>0. PICK a, q : a = search[w].from /\ q = queue[a]
  OBVIOUS
<1>1. /\ a \in Threads /\ t \in Tasks /\ queue \in [Threads -> Seq(Tasks)]
      /\ q # << >> /\ Head(q) = t /\ queue' = [queue EXCEPT ![a] = Tail(q)]
  BY <1>0 DEF Control, Sought, ControlTypes, Take, Wins
<1>2. q \in Seq(Tasks) /\ Len(q) \in Nat \ {0} /\ q[1] = t
  BY <1>0, <1>1, EmptySeq
<1>3. /\ Len(Tail(q)) = Len(q) - 1
      /\ \A i \in 1 .. Len(Tail(q)) : Tail(q)[i] = q[i + 1]
  BY <1>1, <1>2, HeadTailProperties
<1>4. queue'[a] = Tail(q) /\ \A v \in Threads \ {a} : queue'[v] = queue[v]
  BY <1>1
<1>5. 1 \in 1 .. Len(queue[a]) /\ queue[a][1] = t
  BY <1>0, <1>2
<1>6. /\ \A v \in Threads : \A i \in 1 .. Len(queue[v]) : queue[v][i] \in created /\ ran[queue[v][i]] = 0
      /\ \A u, v \in Threads : \A i \in 1 .. Len(queue[u]), j \in 1 .. Len(queue[v]) :
            queue[u][i] = queue[v][j] => u = v /\ i = j
  BY DEF TaskInv, Places, Queued, Waits
<1>7. t \in created /\ ran[t] = 0
  BY <1>1, <1>5, <1>6
<1>8. \A v \in Threads : Stolen(v) => search[v].task # t
  BY <1>1, <1>5 DEF TaskInv, Places, Taken
<1>9. \A v \in Threads : \A i \in 1 .. Len(queue'[v]) :
        LET k == IF v = a THEN i + 1 ELSE i
        IN  k \in 1 .. Len(queue[v]) /\ queue'[v][i] = queue[v][k] /\ ~(v = a /\ k = 1)
  <2> SUFFICES ASSUME NEW v \in Threads, NEW i \in 1 .. Len(queue'[v])
               PROVE  LET k == IF v = a THEN i + 1 ELSE i
                      IN  k \in 1 .. Len(queue[v]) /\ queue'[v][i] = queue[v][k] /\ ~(v = a /\ k = 1)
    OBVIOUS
  <2>1. CASE v = a
    BY <2>1, <1>0, <1>2, <1>3, <1>4
  <2>2. CASE v # a
    BY <2>2, <1>4
  <2> QED BY <2>1, <2>2
<1>10. ASSUME NEW v \in Threads, NEW i \in 1 .. Len(queue'[v])
       PROVE  (\E k \in 1 .. Len(queue[v]) : queue'[v][i] = queue[v][k]) /\ queue'[v][i] # t
  <2> DEFINE k == IF v = a THEN i + 1 ELSE i
  <2>1. k \in 1 .. Len(queue[v]) /\ queue'[v][i] = queue[v][k] /\ ~(v = a /\ k = 1)
    BY <1>9
  <2> HIDE DEF k
  <2>2. queue[v][k] # queue[a][1]
    BY <2>1, <1>1, <1>5, <1>6
  <2> QED BY <2>1, <2>2, <1>5
<1>11. ASSUME NEW u \in Threads, NEW v \in Threads,
              NEW i \in 1 .. Len(queue'[u]), NEW j \in 1 .. Len(queue'[v]), queue'[u][i] = queue'[v][j]
       PROVE  u = v /\ i = j
  <2> DEFINE k == IF u = a THEN i + 1 ELSE i  l == IF v = a THEN j + 1 ELSE j
  <2>1. k \in 1 .. Len(queue[u]) /\ l \in 1 .. Len(queue[v]) /\ queue[u][k] = queue[v][l]
    BY <1>9, <1>11
  <2>2. u = v /\ k = l
    BY <2>1, <1>6
  <2>3. i \in Int /\ j \in Int
    OBVIOUS
  <2> QED BY <2>2, <2>3
<1> QED BY <1>7, <1>8, <1>10, <1>11

(* A task of nobody's is executed.                                         *)
LEMMA ExecuteKeepsTasks ==
    ASSUME TaskInv, Control, NEW w \in Threads, Execute(w), NEW t, t = search[w].task,
           search[w].phase \in {"take", "stolen"}, t \in created, ran[t] = 0,
           \A v \in Threads \ {w} : Stolen(v) => search[v].task # t,
           \A v \in Threads : \A i \in 1 .. Len(queue'[v]) :
                /\ \E k \in 1 .. Len(queue[v]) : queue'[v][i] = queue[v][k]
                /\ queue'[v][i] # t,
           \A u, v \in Threads : \A i \in 1 .. Len(queue'[u]), j \in 1 .. Len(queue'[v]) :
                queue'[u][i] = queue'[v][j] => u = v /\ i = j,
           UNCHANGED <<jobs, created>>
    PROVE  TaskInv'
<1>0. PICK n, f : n = Len(stack[w]) /\ f = Frame(t)
  OBVIOUS
<1>1. ControlTypes /\ TaskTypes /\ created \subseteq Tasks /\ t \in Tasks /\ Searching(w)
  BY DEF Control, TaskInv, TaskTypes, Searching
<1>2. f \in Frames /\ f.task = t /\ f.up = None /\ f.at = 1 /\ ~f.pushed
  BY <1>0, <1>1 DEF Frame, Frames
<1>3. /\ ran' = [ran EXCEPT ![t] = @ + 1] /\ search' = [search EXCEPT ![w] = NoSearch]
      /\ stack' = [stack EXCEPT ![w] = Append(@, f)]
  BY <1>0 DEF Execute
<1>4. /\ \A v \in Threads \ {w} : stack'[v] = stack[v]
      /\ n \in Nat /\ Len(stack'[w]) = n + 1
      /\ \A i \in 1 .. n : stack'[w][i] = stack[w][i]
      /\ stack'[w][n + 1] = f /\ Busy(w)' /\ Top(w)' = f
  <2>1. /\ \A v \in Threads \ {w} : stack'[v] = stack[v]
        /\ Len(stack[w]) \in Nat /\ Len(stack'[w]) = Len(stack[w]) + 1
        /\ \A i \in 1 .. Len(stack[w]) : stack'[w][i] = stack[w][i]
        /\ stack'[w][Len(stack[w]) + 1] = f /\ Busy(w)' /\ Top(w)' = f
    BY <1>1, <1>2, <1>3, Pushed
  <2> QED BY <2>1, <1>0
<1>5. \A v \in Threads : \A i \in 1 .. Len(stack'[v]) :
        \/ i \in 1 .. Len(stack[v]) /\ stack'[v][i] = stack[v][i]
        \/ v = w /\ i = n + 1 /\ stack'[v][i] = f
  <2> SUFFICES ASSUME NEW v \in Threads, NEW i \in 1 .. Len(stack'[v])
               PROVE  \/ i \in 1 .. Len(stack[v]) /\ stack'[v][i] = stack[v][i]
                      \/ v = w /\ i = n + 1 /\ stack'[v][i] = f
    OBVIOUS
  <2>1. CASE v = w
    BY <2>1, <1>0, <1>4
  <2>2. CASE v # w
    BY <2>2, <1>4
  <2> QED BY <2>1, <2>2
<1>6. \A v \in Threads : \A i \in 1 .. Len(stack[v]) : i \in 1 .. Len(stack'[v]) /\ stack'[v][i] = stack[v][i]
  <2> SUFFICES ASSUME NEW v \in Threads, NEW i \in 1 .. Len(stack[v])
               PROVE  i \in 1 .. Len(stack'[v]) /\ stack'[v][i] = stack[v][i]
    OBVIOUS
  <2>1. CASE v = w
    BY <2>1, <1>0, <1>4
  <2>2. CASE v # w
    BY <2>2, <1>4
  <2> QED BY <2>1, <2>2
<1>7. ran'[t] = 1 /\ ran' \in [Tasks -> {0, 1}] /\ \A u \in Tasks \ {t} : ran'[u] = ran[u]
  BY <1>1, <1>3 DEF TaskTypes
<1>8. \A i \in 1 .. n : stack[w][i].up = None
  <2> SUFFICES ASSUME NEW i \in 1 .. n, stack[w][i].up # None PROVE FALSE
    OBVIOUS
  <2>1. i = n
    BY <1>0 DEF TaskInv, Places, Executed
  <2>2. stack[w] # << >>
    <3>1. Len(stack[w]) # 0
      BY <1>0, <1>4
    <3> QED BY <3>1, EmptySeq
  <2>3. InBody(w)
    BY <1>1, <2>2 DEF Control, Waiting, Busy
  <2> QED BY <2>1, <2>3, <1>0 DEF InBody, Top
<1>9. TaskTypes' /\ Unborn'
  BY <1>1, <1>7 DEF TaskInv, Places, TaskTypes, Unborn
<1>10. Queued'
  <2>1. ASSUME NEW v \in Threads, NEW i \in 1 .. Len(queue'[v])
        PROVE  queue'[v][i] \in created' /\ ran'[queue'[v][i]] = 0
    <3>1. PICK k \in 1 .. Len(queue[v]) : queue'[v][i] = queue[v][k]
      OBVIOUS
    <3>2. queue[v][k] \in created /\ ran[queue[v][k]] = 0 /\ queue[v][k] # t
      BY <3>1 DEF TaskInv, Places, Queued, Waits
    <3> QED BY <3>1, <3>2, <1>1, <1>7
  <2> QED BY <2>1 DEF Queued, Waits
<1>11. Taken'
  <2>1. \A u \in Threads : Stolen(u)' => u # w /\ Stolen(u) /\ search'[u] = search[u]
    BY <1>1, <1>3 DEF Stolen, NoSearch, ControlTypes
  <2> SUFFICES ASSUME NEW u \in Threads, Stolen(u)'
               PROVE  /\ search'[u].task \in created' /\ ran'[search'[u].task] = 0
                      /\ \A v \in Threads : \A i \in 1 .. Len(queue'[v]) : queue'[v][i] # search'[u].task
                      /\ \A v \in Threads : Stolen(v)' /\ search'[v].task = search'[u].task => v = u
    BY DEF Taken, Waits
  <2>2. /\ Stolen(u) /\ search'[u] = search[u] /\ search[u].task \in created /\ ran[search[u].task] = 0
        /\ \A v \in Threads : \A i \in 1 .. Len(queue[v]) : queue[v][i] # search[u].task
        /\ \A v \in Threads : Stolen(v) /\ search[v].task = search[u].task => v = u
        /\ search[u].task # t
    BY <2>1 DEF TaskInv, Places, Taken, Waits
  <2>3. \A v \in Threads : \A i \in 1 .. Len(queue'[v]) : queue'[v][i] # search[u].task
    BY <2>2
  <2>4. ran'[search[u].task] = 0
    BY <2>2, <1>1, <1>7
  <2> QED BY <2>1, <2>2, <2>3, <2>4
<1>12. Executed'
  <2>1. \A v \in Threads : \A i \in 1 .. Len(stack[v]) :
          /\ stack[v][i].task \in created /\ ran[stack[v][i].task] = 1 /\ stack[v][i].task # t
          /\ stack[v][i].up # None => i = Len(stack[v]) /\ stack[v][i].up \in created
    BY DEF TaskInv, Places, Executed
  <2>2. ASSUME NEW v \in Threads, NEW i \in 1 .. Len(stack'[v])
        PROVE  /\ stack'[v][i].task \in created' /\ ran'[stack'[v][i].task] = 1
               /\ stack'[v][i].up # None => i = Len(stack'[v]) /\ stack'[v][i].up \in created'
    <3>1. CASE v = w /\ i = n + 1 /\ stack'[v][i] = f
      BY <3>1, <1>2, <1>7
    <3>2. CASE i \in 1 .. Len(stack[v]) /\ stack'[v][i] = stack[v][i]
      <4>1. stack[v][i].up # None => v # w
        BY <3>2, <1>0, <1>8
      <4> QED BY <3>2, <4>1, <2>1, <1>1, <1>4, <1>7
    <3> QED BY <3>1, <3>2, <1>5
  <2>3. ASSUME NEW u \in Threads, NEW v \in Threads, NEW i \in 1 .. Len(stack'[u]), NEW j \in 1 .. Len(stack'[v]),
               stack'[u][i].task = stack'[v][j].task
        PROVE  u = v /\ i = j
    <3>1. CASE i \in 1 .. Len(stack[u]) /\ stack'[u][i] = stack[u][i]
      <4>1. j \in 1 .. Len(stack[v]) /\ stack'[v][j] = stack[v][j]
        BY <3>1, <2>1, <2>3, <1>2, <1>5
      <4> QED BY <3>1, <4>1, <2>3 DEF TaskInv, Places, Executed
    <3>2. CASE u = w /\ i = n + 1 /\ stack'[u][i] = f
      <4>1. v = w /\ j = n + 1
        BY <3>2, <2>1, <2>3, <1>2, <1>5
      <4> QED BY <3>2, <4>1
    <3> QED BY <3>1, <3>2, <1>5
  <2> QED BY <2>2, <2>3 DEF Executed
<1>13. ToCome'
  <2>1. ASSUME NEW v \in Threads, NEW i \in 1 .. Len(stack'[v]), NEW j \in Ahead(stack'[v][i])
        PROVE  Body(stack'[v][i].task)[j][2] \notin created'
    <3>1. CASE i \in 1 .. Len(stack[v]) /\ stack'[v][i] = stack[v][i]
      BY <3>1 DEF TaskInv, ToCome
    <3>2. CASE stack'[v][i] = f
      <4>1. j \in Calls(t)
        BY <3>2, <1>2 DEF Ahead
      <4> QED BY <3>2, <4>1, <1>1, <1>2 DEF TaskInv, ToCome
    <3> QED BY <3>1, <3>2, <1>5
  <2>2. ASSUME NEW p \in Tasks, ran'[p] = 0, NEW j \in Calls(p) PROVE Body(p)[j][2] \notin created'
    BY <2>2, <1>7 DEF TaskInv, ToCome
  <2> QED BY <2>1, <2>2 DEF ToCome
<1>14. Born'
  <2>1. ASSUME NEW c \in created, Parent(c) # Nobody PROVE Parent(c) # c /\ ran'[Parent(c)] = 1
    BY <2>1, <1>1, <1>7, TasksAreAddedOnce DEF TaskInv, Born
  <2> QED BY <2>1 DEF Born
<1>15. Counted'
  <2> SUFFICES ASSUME NEW u \in created PROVE Owed(u)' = Owed(u)
    BY DEF TaskInv, Counted
  <2>1. u \in Tasks /\ u # None
    BY <1>1, TasksAreAddedOnce
  <2>2. \A v \in Threads : Busy(v) /\ Top(v).up = u <=> (Busy(v) /\ Top(v).up = u)'
    <3> SUFFICES ASSUME NEW v \in Threads PROVE Busy(v) /\ Top(v).up = u <=> (Busy(v) /\ Top(v).up = u)'
      OBVIOUS
    <3>1. CASE v # w
      BY <3>1, <1>4 DEF Busy, Top
    <3>2. CASE v = w
      <4>1. ~(Busy(w) /\ Top(w).up = u)
        BY <2>1, <1>0, <1>1, <1>8, TopOfStack
      <4> QED BY <3>2, <4>1, <2>1, <1>2, <1>4
    <3> QED BY <3>1, <3>2
  <2>3. OpenBody(u) <=> OpenBody(u)'
    <3>1. CASE u = t
      <4>1. n + 1 \in 1 .. Len(stack'[w]) /\ Open(stack'[w][n + 1], t)
        BY <1>2, <1>4 DEF Open
      <4>2. OpenBody(t)'
        BY <4>1 DEF OpenBody
      <4> QED BY <3>1, <4>2 DEF OpenBody
    <3>2. CASE u # t
      <4>1. \A v \in Threads : \A i \in 1 .. Len(stack'[v]) :
              Open(stack'[v][i], u) => i \in 1 .. Len(stack[v]) /\ stack'[v][i] = stack[v][i]
        BY <3>2, <1>2, <1>5 DEF Open
      <4> QED BY <3>2, <4>1, <2>1, <1>6, <1>7 DEF OpenBody
    <3> QED BY <3>1, <3>2
  <2> QED BY <2>1, <2>2, <2>3, OwedTheSame
<1> QED BY <1>9, <1>10, <1>11, <1>12, <1>13, <1>14, <1>15 DEF TaskInv, Places

LEMMA TakeKeepsTasks == ASSUME TaskInv, Control, NEW w \in Threads, Take(w) PROVE TaskInv'
<1>0. PICK t : t = search[w].task
  OBVIOUS
<1>1. /\ t \in created /\ ran[t] = 0
      /\ \A v \in Threads : Stolen(v) => search[v].task # t
      /\ \A v \in Threads : \A i \in 1 .. Len(queue'[v]) :
           /\ \E k \in 1 .. Len(queue[v]) : queue'[v][i] = queue[v][k]
           /\ queue'[v][i] # t
      /\ \A u, v \in Threads : \A i \in 1 .. Len(queue'[u]), j \in 1 .. Len(queue'[v]) :
           queue'[u][i] = queue'[v][j] => u = v /\ i = j
  BY <1>0, TakenFromQueue
<1>2. search[w].phase = "take" /\ UNCHANGED <<jobs, created>>
  BY DEF Take
<1>3. CASE search[w].from = w
  <2>1. Execute(w)
    BY <1>3 DEF Take
  <2>2. search[w].phase \in {"take", "stolen"}
    BY <1>2
  <2>3. t \in created /\ ran[t] = 0 /\ \A v \in Threads \ {w} : Stolen(v) => search[v].task # t
    BY <1>1
  <2>4. \A v \in Threads : \A i \in 1 .. Len(queue'[v]) :
           /\ \E k \in 1 .. Len(queue[v]) : queue'[v][i] = queue[v][k]
           /\ queue'[v][i] # t
    BY <1>1
  <2>5. \A u, v \in Threads : \A i \in 1 .. Len(queue'[u]), j \in 1 .. Len(queue'[v]) :
           queue'[u][i] = queue'[v][j] => u = v /\ i = j
    BY <1>1
  <2> QED BY ONLY <2>1, <2>2, <2>3, <2>4, <2>5, <1>0, <1>2, ExecuteKeepsTasks, TaskInv, Control
<1>4. CASE search[w].from # w
  <2>1. search' = [search EXCEPT ![w].phase = "stolen"] /\ UNCHANGED <<stack, ran>>
    BY <1>4 DEF Take
  <2>2. search[w] \in Searches /\ search \in [Threads -> Searches]
    BY DEF Control, ControlTypes
  <2>3. /\ search'[w].phase = "stolen" /\ search'[w].task = t
        /\ \A v \in Threads \ {w} : search'[v] = search[v]
    BY <2>1, <2>2, <1>0 DEF Searches
  <2>4. TaskTypes' /\ Executed' /\ Unborn' /\ ToCome' /\ Born' /\ Counted'
    <3>1. TaskTypes' /\ Executed' /\ Unborn'
      BY <2>1, <1>2 DEF TaskInv, Places, TaskTypes, Executed, Unborn
    <3>2. ToCome' /\ Born'
      BY <2>1, <1>2 DEF TaskInv, ToCome, Born
    <3>3. Counted'
      BY <2>1, <1>2 DEF TaskInv, Counted, Owed, OpenBody, Busy, Top
    <3> QED BY <3>1, <3>2, <3>3
  <2>5. Queued'
    <3>1. ASSUME NEW v \in Threads, NEW i \in 1 .. Len(queue'[v])
          PROVE  queue'[v][i] \in created' /\ ran'[queue'[v][i]] = 0
      BY <1>1, <1>2, <2>1 DEF TaskInv, Places, Queued, Waits
    <3> QED BY <3>1, <1>1 DEF Queued, Waits
  <2>6. Taken'
    <3> SUFFICES ASSUME NEW u \in Threads, Stolen(u)'
                 PROVE  /\ search'[u].task \in created' /\ ran'[search'[u].task] = 0
                        /\ \A v \in Threads : \A i \in 1 .. Len(queue'[v]) : queue'[v][i] # search'[u].task
                        /\ \A v \in Threads : Stolen(v)' /\ search'[v].task = search'[u].task => v = u
      BY DEF Taken, Waits
    <3>1. \A v \in Threads \ {w} : Stolen(v)' => Stolen(v) /\ search[v].task # t
      BY <2>3, <1>1 DEF Stolen
    <3>2. CASE u = w
      BY <3>1, <3>2, <2>1, <2>3, <1>1, <1>2
    <3>3. CASE u # w
      <4>1. /\ Stolen(u) /\ search'[u] = search[u] /\ search[u].task \in created /\ ran[search[u].task] = 0
            /\ \A v \in Threads : \A i \in 1 .. Len(queue[v]) : queue[v][i] # search[u].task
            /\ \A v \in Threads : Stolen(v) /\ search[v].task = search[u].task => v = u
            /\ search[u].task # t
        BY <3>1, <3>3, <2>3 DEF TaskInv, Places, Taken, Waits
      <4>2. \A v \in Threads : \A i \in 1 .. Len(queue'[v]) : queue'[v][i] # search[u].task
        BY <4>1, <1>1
      <4> QED BY <3>1, <4>1, <4>2, <2>1, <2>3, <1>2
    <3> QED BY <3>2, <3>3
  <2> QED BY <2>4, <2>5, <2>6 DEF TaskInv, Places
<1> QED BY <1>3, <1>4

LEMMA PassOnKeepsTasks == ASSUME TaskInv, Control, NEW w \in Threads, PassOn(w) PROVE TaskInv'
<1>0. PICK t : t = search[w].task
  OBVIOUS
<1>1. /\ Stolen(w) /\ search[w].phase \in {"take", "stolen"} /\ Execute(w)
      /\ UNCHANGED <<queue, jobs, created>>
  BY DEF PassOn, Stolen
<1>2. /\ t \in created /\ ran[t] = 0
      /\ \A v \in Threads : \A i \in 1 .. Len(queue[v]) : queue[v][i] # t
      /\ \A v \in Threads \ {w} : Stolen(v) => search[v].task # t
  BY <1>0, <1>1 DEF TaskInv, Places, Taken, Waits
<1>3. \A u, v \in Threads : \A i \in 1 .. Len(queue[u]), j \in 1 .. Len(queue[v]) :
        queue[u][i] = queue[v][j] => u = v /\ i = j
  BY DEF TaskInv, Places, Queued
<1> QED BY <1>0, <1>1, <1>2, <1>3, ExecuteKeepsTasks

-----------------------------------------------------------------------------
(* A search that goes on, or begins, holds no task.                        *)
LEMMA SearchKeepsTasks ==
    ASSUME TaskInv, ControlTypes, NEW w \in Threads, NEW s, s.phase # "stolen",
           search' = [search EXCEPT ![w] = s], UNCHANGED <<queue, jobs, created, ran, stack>>
    PROVE  TaskInv'
<1>1. \A v \in Threads : Stolen(v)' => Stolen(v) /\ search'[v].task = search[v].task
  BY DEF Stolen, ControlTypes
<1> QED BY <1>1, TasksAlone

LEMMA BeginSearchKeepsTasks ==
    ASSUME TaskInv, ControlTypes, NEW w \in Threads, BeginSearch(w), UNCHANGED <<taskVars, stack>>
    PROVE  TaskInv'
<1>1. [NoSearch EXCEPT !.phase = "peek", !.from = w].phase # "stolen"
  BY DEF NoSearch
<1> QED BY <1>1, SearchKeepsTasks DEF BeginSearch, taskVars

LEMMA PeekKeepsTasks == ASSUME TaskInv, Control, NEW w \in Threads, Peek(w) PROVE TaskInv'
<1>1. ControlTypes /\ search[w] \in Searches /\ search[w].phase = "peek" /\ UNCHANGED <<queue, jobs, created, ran, stack>>
  BY DEF Control, ControlTypes, Peek, taskVars
<1>2. CASE queue[search[w].from] = << >>
  <2>1. NextVictim(w)
    BY <1>2 DEF Peek
  <2> QED BY <1>1, <2>1, NextVictimFound, SearchKeepsTasks
<1>3. CASE queue[search[w].from] # << >>
  <2> DEFINE s == [search[w] EXCEPT !.phase = "take", !.task = Head(queue[search[w].from])]
  <2>1. s.phase = "take"
    BY <1>1 DEF Searches
  <2>2. search' = [search EXCEPT ![w] = s]
    BY <1>1, <1>3 DEF Peek
  <2> QED BY <1>1, <2>1, <2>2, SearchKeepsTasks
<1> QED BY <1>2, <1>3

LEMMA TakeFailsKeepsTasks == ASSUME TaskInv, Control, NEW w \in Threads, TakeFails(w) PROVE TaskInv'
<1>1. ControlTypes /\ NextVictim(w) /\ search[w].phase = "take" /\ UNCHANGED <<queue, jobs, created, ran, stack>>
  BY DEF Control, TakeFails, taskVars
<1> QED BY <1>1, NextVictimFound, SearchKeepsTasks

LEMMA NothingFoundKeepsTasks == ASSUME TaskInv, Control, NEW w \in Threads, NothingFound(w) PROVE TaskInv'
<1>1. NoSearch.phase # "stolen"
  BY DEF NoSearch
<1> QED BY <1>1, SearchKeepsTasks DEF Control, NothingFound, taskVars

LEMMA TaskInit == Init => TaskInv
<1> SUFFICES ASSUME Init PROVE TaskInv
  OBVIOUS
<1>1. Program \in Tasks /\ Main \in Threads /\ Parent(Program) = Nobody
  BY TasksAreAddedOnce DEF Threads
<1>2. /\ created = {Program} /\ jobs[Program] = 1 /\ ran[Program] = 1
      /\ \A t \in Tasks \ {Program} : jobs[t] = 0 /\ ran[t] = 0
      /\ \A w \in Threads : queue[w] = << >> /\ ~Stolen(w)
      /\ \A w \in Threads \ {Main} : stack[w] = << >>
      /\ stack[Main] = <<Frame(Program)>>
  BY <1>1 DEF Init, Stolen, NoSearch
<1>3. \A w \in Threads : Len(queue[w]) = 0
  BY <1>2
<1>4. \A w \in Threads : \A i \in 1 .. Len(stack[w]) : w = Main /\ i = 1 /\ stack[w][i] = Frame(Program)
  <2>1. Len(stack[Main]) = 1 /\ stack[Main][1] = Frame(Program)
    BY <1>2
  <2>2. \A w \in Threads \ {Main} : Len(stack[w]) = 0
    BY <1>2
  <2>3. ASSUME NEW w \in Threads, NEW i \in 1 .. Len(stack[w]) PROVE w = Main /\ i = 1
    <3>1. CASE w = Main
      <4>1. Len(stack[w]) = 1
        BY <2>1, <3>1
      <4>2. i \in 1 .. 1
        BY <4>1
      <4> QED BY <3>1, <4>2
    <3>2. CASE w # Main
      BY <2>2, <3>2
    <3> QED BY <3>1, <3>2
  <2> QED BY <2>1, <2>3
<1>5. Frame(Program).task = Program /\ Frame(Program).up = None /\ Frame(Program).at = 1 /\ ~Frame(Program).pushed
  BY DEF Frame
<1>6. TaskTypes /\ Unborn
  BY <1>1, <1>2 DEF Init, TaskTypes, Unborn
<1>7. Queued /\ Taken
  BY <1>2, <1>3 DEF Queued, Taken
<1>8. Executed
  BY <1>2, <1>4, <1>5 DEF Executed
<1>9. ToCome
  <2>1. \A p \in Tasks : \A j \in Calls(p) : Body(p)[j][2] \notin created
    BY <1>2, TasksAreAddedOnce
  <2> QED BY <1>1, <1>4, <1>5, <2>1 DEF ToCome, Ahead
<1>10. Born
  BY <1>1, <1>2 DEF Born
<1>11. Counted
  <2>1. 1 \in 1 .. Len(stack[Main]) /\ stack[Main][1] = Frame(Program)
    BY <1>2
  <2>2. OpenBody(Program)
    BY <1>1, <1>5, <2>1 DEF OpenBody, Open
  <2>3. \A w \in Threads : Busy(w) => Top(w) = Frame(Program)
    <3>1. Top(Main) = Frame(Program)
      BY <1>2 DEF Top
    <3> QED BY <3>1, <1>2 DEF Busy
  <2>4. {w \in Threads : Busy(w) /\ Top(w).up = Program} = {}
    BY <2>3, <1>1, <1>5, TasksAreAddedOnce
  <2>5. {c \in created : Parent(c) = Program /\ jobs[c] > 0} = {}
    BY <1>1, <1>2, TasksAreAddedOnce
  <2>6. {b \in {Program} : OpenBody(Program)} = {Program}
    BY <2>2
  <2>7. Owed(Program) = {<<"body", Program>>}
    BY <2>4, <2>5, <2>6 DEF Owed
  <2>8. IsFiniteSet(Owed(Program)) /\ Cardinality(Owed(Program)) = 1
    BY <2>7, FS_Singleton
  <2> QED BY <2>8, <1>2 DEF Counted
<1> QED BY <1>6, <1>7, <1>8, <1>9, <1>10, <1>11 DEF TaskInv, Places

LEMMA TaskNext == TaskInv /\ Control /\ [Next]_vars => TaskInv'
<1> SUFFICES ASSUME TaskInv, Control, [Next]_vars PROVE TaskInv'
  OBVIOUS
<1>1. ASSUME UNCHANGED <<taskVars, workVars>> PROVE TaskInv'
  BY <1>1, TasksAlone DEF taskVars, workVars, Stolen
<1>2. CASE Focus \/ Stop \/ Settle \/ UNCHANGED vars
  BY <1>1, <1>2 DEF Focus, Stop, Settle, vars
<1>3. ASSUME NEW w \in Threads, Executing(w) PROVE TaskInv'
  <2>1. CASE WaitHelps(w)
    BY <2>1, BeginSearchKeepsTasks DEF WaitHelps, Control
  <2> QED BY <2>1, <1>3, AddKeepsTasks, SetNewWorkKeepsTasks, WaitEndsKeepsTasks, FinishKeepsTasks DEF Executing
<1>4. ASSUME NEW w \in Threads, Seeking(w) PROVE TaskInv'
  BY <1>4, PeekKeepsTasks, TakeFailsKeepsTasks, TakeKeepsTasks, PassOnKeepsTasks, NothingFoundKeepsTasks DEF Seeking
<1>5. ASSUME NEW w \in Threads, Living(w) PROVE TaskInv'
  <2>1. CASE Loop(w)
    <3>1. UNCHANGED <<taskVars, stack>> /\ (BeginSearch(w) \/ UNCHANGED search)
      BY <2>1 DEF Loop
    <3> QED BY <3>1, <1>1, BeginSearchKeepsTasks DEF Control, workVars
  <2>2. CASE DrainOn(w)
    BY <2>2, BeginSearchKeepsTasks DEF DrainOn, Control
  <2>3. CASE Register(w) \/ SetActive(w) \/ Wake(w) \/ Pause(w) \/ SeeNobodyActive(w) \/ Erase(w)
    BY <2>3, <1>1 DEF Register, SetActive, Wake, Pause, SeeNobodyActive, Erase
  <2> QED BY <2>1, <2>2, <2>3, <1>5 DEF Living
<1> QED BY <1>2, <1>3, <1>4, <1>5 DEF Next, Step

LEMMA TasksKept == Spec => []TaskInv
<1> QED BY TaskInit, TaskNext, ControlInit, ControlNext, PTL DEF Spec

(* A task that counts as finished, so that somebody may stop waiting for   *)
(* it, has run once, is executed by nobody, and its children are finished. *)
THEOREM FinishedStaysOver == Spec => []FinishedIsOver
<1>1. TaskInv => FinishedIsOver
  <2> SUFFICES ASSUME TaskInv, NEW t \in created, IsFinished(t)
               PROVE  /\ ran[t] = 1
                      /\ \A w \in Threads : t \notin Running(w)
                      /\ \A c \in created : Parent(c) = t => IsFinished(c)
    BY DEF FinishedIsOver
  <2>1. jobs[t] = 0 /\ t \in Tasks /\ ran[t] \in {0, 1} /\ Counted /\ created \subseteq Tasks
    BY DEF IsFinished, TaskInv, TaskTypes
  <2>2. \A x : x \notin Owed(t)
    BY <2>1, OwedIsCounted
  <2>3. ~OpenBody(t)
    BY <2>2, OwedMembers
  <2>4. ran[t] = 1
    BY <2>1, <2>3 DEF OpenBody
  <2>5. \A w \in Threads : t \notin Running(w)
    BY <2>3 DEF OpenBody, Open, Running
  <2>6. ASSUME NEW c \in created, Parent(c) = t PROVE jobs[c] = 0
    <3>1. ~(jobs[c] > 0)
      BY <2>2, <2>6, OwedMembers
    <3>2. jobs[c] \in Nat
      BY <2>1, OwedIsCounted
    <3> QED BY <3>1, <3>2
  <2> QED BY <2>4, <2>5, <2>6 DEF IsFinished
<1> QED BY <1>1, TasksKept, PTL

-----------------------------------------------------------------------------
Signals ==
    /\ lock \in Threads \union {Nobody}
    /\ signal \in BOOLEAN /\ shouldPause \in BOOLEAN

(* The types of the state: no count of jobs ever goes below zero.          *)
THEOREM TypeCorrect == Spec => []TypeOK
<1>1. Init => Signals
  BY DEF Init, Signals
<1>2. Signals /\ [Next]_vars => Signals'
  <2> SUFFICES ASSUME Signals, [Next]_vars PROVE Signals'
    OBVIOUS
  <2>1. CASE Focus \/ Stop \/ Settle \/ UNCHANGED vars
    BY <2>1 DEF Signals, Focus, Stop, Settle, vars, listVars
  <2>2. ASSUME NEW w \in Threads, Executing(w) PROVE Signals'
    BY <2>2 DEF Signals, Executing, Add, SetNewWork, WaitEnds, WaitHelps, Finish, listVars
  <2>3. ASSUME NEW w \in Threads, Seeking(w) PROVE Signals'
    BY <2>3 DEF Signals, Seeking, Peek, TakeFails, Take, PassOn, NothingFound, listVars
  <2>4. ASSUME NEW w \in Threads, Living(w) PROVE Signals'
    BY <2>4 DEF Signals, Living, Register, SetActive, Loop, Wake, DrainOn, Pause, SeeNobodyActive, Erase, listVars
  <2> QED BY <2>1, <2>2, <2>3, <2>4 DEF Next, Step
<1>3. Control /\ TaskInv /\ Signals => TypeOK
  <2> SUFFICES ASSUME Control, TaskInv, Signals PROVE TypeOK
    OBVIOUS
  <2>1. \A t \in Tasks : jobs[t] \in Nat
    BY OwedIsCounted DEF TaskInv, Places, Unborn
  <2>2. jobs \in [Tasks -> Nat] /\ ran \in [Tasks -> Nat] /\ created \subseteq Tasks
    BY <2>1 DEF TaskInv, TaskTypes
  <2> QED BY <2>2 DEF TypeOK, Control, ControlTypes, Signals
<1> QED BY <1>1, <1>2, <1>3, Controlled, TasksKept, PTL DEF Spec
=============================================================================
