---------------------------- MODULE SavePipeline ----------------------------
(* Saving without stopping the game.  The main thread queues requests, takes *)
(* a snapshot of the world in slices of a few milliseconds a frame, and      *)
(* hands it to the writer thread; the writer shares the work on a job with   *)
(* an I/O thread; results go back to the main thread.  Loading, leaving or   *)
(* changing the level first drains all of it.  Source:                       *)
(* src/xrGame/alife_storage_manager.cpp, and the callers it names.           *)
(*                                                                           *)
(* Every critical section is one step, the notification after it included.   *)
(* A thread that waits on a condition variable sleeps until it is notified   *)
(* (or for no reason) and then looks at its condition again.                 *)
EXTENDS SequencesExt, FiniteSets, Naturals

CONSTANTS MaxSaves,  \* saves asked for in a behaviour
          Captures   \* what scripts offer: "memory", "legacy" (before_save)

ASSUME SavePipelineAssumption == MaxSaves \in Nat /\ Captures \subseteq {"memory", "legacy"}

Save == 1..MaxSaves

\* SaveCaptureQueue::Pending::phase: 0, 1, 2 to 8, and 9.
Stage == {"prepare", "encode", "world", "extensions"}

Caller == {"frame", "load", "leave", "first", "second", "stop", "destroy"}
MainLabel == {"play", "requests", "captures", "report", "drain", "await", "save",
              "legacy_await", "legacy_capture", "reading", "hook", "moved", "teardown",
              "menu", "exit_await", "exit_join", "exit_io", "exited"}
WriterLabel == {"work", "start", "publish", "finish", "commit", "done", "failed", "exited"}
IoLabel == {"work", "prepare", "main_temp", "write", "exited"}
Thread == {"main", "writer", "io"}
Condition == {"awake", "workAvailable", "idle", "ioWork", "mainTempAvailable", "resultAvailable"}
Job == Save \cup {0}     \* 0: no job

VARIABLES main, caller,  \* the main thread: its step, and who waits for the saves
          requests,      \* m_save_requests: the saves asked for
          snapshotted,   \* is the client part of the first request taken?
          captures,      \* m_save_captures: a save and its stage each
          failed,        \* the failed flags of both queues
          auto, latched, \* the autosave of a level change; m_changing_level
          jobs, completions, active, stopping,          \* AsyncSaveCoordinator
          writer, early, \* the writer's step; does the I/O thread share its job?
          io, ioJob,     \* the I/O thread's step; the job whose buffers it uses
          ioRequest, ioMainTemp, ioReady, ioStopping,   \* AsyncSaveIoWorker's slots
          asleep,        \* the condition each thread sleeps on
          made,          \* saves numbered so far
          shown, verdict \* history: what the slot shows; what became of each save

requestVars == <<requests, snapshotted, made>>
levelVars   == <<auto, latched>>
queueVars   == <<jobs, completions, active, stopping>>
writerVars  == <<writer, early, shown>>
ioVars      == <<io, ioJob, ioRequest, ioMainTemp, ioReady, ioStopping>>
vars == <<main, caller, requestVars, captures, failed, levelVars, queueVars,
          writerVars, ioVars, asleep, verdict>>

Verdict == {"none", "waiting", "done", "failed"}

\* TypeOK: every queue holds saves that were asked for, every slot of the two
\* workers one of them, and every thread is at a step it has.
TypeOK ==
    /\ main \in MainLabel /\ caller \in Caller
    /\ requests \in Seq(Save) /\ snapshotted \in BOOLEAN /\ made \in 0..MaxSaves
    /\ captures \in Seq([id : Save, stage : Stage])
    /\ failed \in BOOLEAN /\ auto \in Job /\ latched \in BOOLEAN
    /\ jobs \in Seq(Save) /\ completions \in Seq([id : Save, ok : BOOLEAN])
    /\ active \in Job /\ stopping \in BOOLEAN
    /\ writer \in WriterLabel /\ early \in BOOLEAN /\ shown \in Job
    /\ io \in IoLabel /\ ioJob \in Job /\ ioRequest \in Job /\ ioMainTemp \in Job
    /\ ioReady \in Job /\ ioStopping \in BOOLEAN
    /\ asleep \in [Thread -> Condition] /\ verdict \in [Save -> Verdict]

Init ==
    /\ main = "play" /\ caller = "frame"
    /\ requests = <<>> /\ snapshotted = FALSE /\ made = 0
    /\ captures = <<>> /\ failed = FALSE /\ auto = 0 /\ latched = FALSE
    /\ jobs = <<>> /\ completions = <<>> /\ active = 0 /\ stopping = FALSE
    /\ writer = "work" /\ early = FALSE /\ shown = 0
    /\ io = "work" /\ ioJob = 0 /\ ioRequest = 0 /\ ioMainTemp = 0
    /\ ioReady = 0 /\ ioStopping = FALSE
    /\ asleep = [t \in Thread |-> "awake"] /\ verdict = [s \in Save |-> "none"]
-----------------------------------------------------------------------------
(* Threads.                                                                  *)

Awake(t)    == asleep[t] = "awake"
Sleep(t, c) == asleep' = [asleep EXCEPT ![t] = c]
NoWake(c)   == UNCHANGED asleep          \* broken variant: a forgotten notify
Notify(c)   == asleep' = [t \in Thread |-> IF asleep[t] = c THEN "awake" ELSE asleep[t]]

Spurious(t) ==
    /\ ~Awake(t) /\ asleep' = [asleep EXCEPT ![t] = "awake"]
    /\ UNCHANGED <<main, caller, requestVars, captures, failed, levelVars, queueVars,
                   writerVars, ioVars, verdict>>

At(l) == main = l /\ Awake("main")
Goto(l) == main' = l
OthersSteady == UNCHANGED <<writerVars, ioVars, active, stopping>>
-----------------------------------------------------------------------------
(* Requests.  A player or a script asks for a save; the request waits until   *)
(* its client objects are written and no other capture is under way.          *)

ScriptsRun == \/ main \in {"play", "requests", "captures", "save", "legacy_capture", "hook", "teardown"}
              \/ main = "report" /\ \E i \in DOMAIN completions : completions[i].ok

RequestSave ==
    /\ ScriptsRun /\ caller # "destroy" /\ made < MaxSaves
    /\ made' = made + 1 /\ requests' = Append(requests, made + 1)
    /\ verdict' = [verdict EXCEPT ![made + 1] = "waiting"]
    /\ UNCHANGED <<main, caller, snapshotted, captures, failed, levelVars, queueVars, asleep>>
    /\ OthersSteady

StartFrame ==
    /\ At("play") /\ Goto("requests") /\ caller' = "frame"
    /\ UNCHANGED <<requestVars, captures, failed, levelVars, queueVars, asleep, verdict>>
    /\ OthersSteady

\* Only the frame works on a budget; a wait works until nothing is left.
Budgeted == caller = "frame"
LeaveRequests == Goto(IF Budgeted THEN "captures" ELSE "drain")
OutOfBudget == Budgeted /\ Goto("report")

QueueOnly == requests = <<>>             \* broken variant: ignores a capture under way
Blocked == requests = <<>> \/ captures # <<>>

ProcessRequests ==
    /\ At("requests")
    /\ \/ Blocked /\ LeaveRequests /\ UNCHANGED snapshotted
       \/ ~Blocked /\ snapshotted /\ Goto("save") /\ UNCHANGED snapshotted
       \/ ~Blocked /\ ~snapshotted /\ OutOfBudget /\ UNCHANGED snapshotted
    /\ UNCHANGED <<caller, requests, made, captures, failed, levelVars, queueVars, asleep, verdict>>
    /\ OthersSteady

\* The last slice of the client part; a frame takes the save up next time.
FinishSnapshot ==
    /\ At("requests") /\ ~Blocked /\ ~snapshotted /\ snapshotted' = TRUE
    /\ IF Budgeted THEN OutOfBudget \/ LeaveRequests ELSE Goto("save")
    /\ UNCHANGED <<caller, requests, made, captures, failed, levelVars, queueVars, asleep, verdict>>
    /\ OthersSteady
-----------------------------------------------------------------------------
(* save(): for the first request, or for the autosave of a level change.      *)

Subject == IF snapshotted THEN Head(requests) ELSE auto

\* What a wait or a direct save does next when it did not succeed.
TransitionFailed ==
    IF caller = "first" THEN caller' = "second" /\ auto' = auto + 1 /\ Goto("save")
                        ELSE Goto("play") /\ UNCHANGED <<caller, auto>>

SaveReturns(ok) ==
    IF snapshotted
      THEN /\ requests' = Tail(requests) /\ snapshotted' = FALSE
           /\ failed' = (failed \/ ~ok)
           /\ Goto("requests") \/ OutOfBudget
           /\ UNCHANGED <<caller, auto>>
      ELSE /\ IF ok THEN Goto("drain") /\ UNCHANGED <<caller, auto>> ELSE TransitionFailed
           /\ UNCHANGED <<requests, snapshotted, failed>>

\* The Lua interface found decides the stage the capture starts in.
BeginCapture(stage) ==
    /\ captures' = Append(captures, [id |-> Subject, stage |-> stage])
    /\ verdict' = [verdict EXCEPT ![Subject] = "waiting"]
    /\ SaveReturns(TRUE)

RefuseCapture ==
    /\ verdict' = [verdict EXCEPT ![Subject] = "failed"]
    /\ SaveReturns(FALSE) /\ UNCHANGED captures

DoSave ==
    /\ At("save")
    /\ \/ /\ "memory" \in Captures /\ captures = <<>>
          /\ \E stage \in Stage \ {"extensions"} : BeginCapture(stage)
       \/ "legacy" \in Captures /\ captures = <<>> /\ Goto("legacy_await")
          /\ UNCHANGED <<caller, requests, snapshotted, captures, failed, auto, verdict>>
       \/ RefuseCapture
    /\ UNCHANGED <<made, latched, queueVars, asleep>> /\ OthersSteady

JobsOnly   == jobs = <<>>                \* broken variant: forgets the job being written
WriterIdle == jobs = <<>> /\ active = 0

\* coordinator.wait(): sleep until the writer is idle, then go on at l.
WaitIdle(l) ==
    /\ IF WriterIdle THEN Goto(l) /\ UNCHANGED asleep
                     ELSE Sleep("main", "idle") /\ UNCHANGED main
    /\ UNCHANGED <<caller, requestVars, captures, failed, levelVars, queueVars, verdict>>
    /\ OthersSteady

LegacyAwait == At("legacy_await") /\ WaitIdle("legacy_capture")

\* The callback and the final .scoc file: SaveTransaction's legacy steps.
LegacyCapture ==
    /\ At("legacy_capture")
    /\ BeginCapture("world") \/ RefuseCapture
    /\ UNCHANGED <<made, latched, queueVars, asleep>> /\ OthersSteady
-----------------------------------------------------------------------------
(* process_save_captures.                                                    *)

NextStage  == [prepare |-> "encode", encode |-> "world", world |-> "extensions"]

\* Broken variant: a capture that fails is tried again.
RetryCapture ==
    /\ Head(captures).stage # "world"
    /\ failed' = TRUE /\ UNCHANGED <<captures, verdict, jobs, asleep>>

FailCapture ==
    /\ Head(captures).stage # "world"
    /\ verdict' = [verdict EXCEPT ![Head(captures).id] = "failed"]
    /\ captures' = Tail(captures) /\ failed' = TRUE /\ UNCHANGED <<jobs, asleep>>

AdvanceCapture ==
    /\ At("captures") /\ captures # <<>>
    /\ \/ /\ Head(captures).stage = "extensions"
          /\ jobs' = Append(jobs, Head(captures).id) /\ captures' = Tail(captures)
          /\ Notify("workAvailable") /\ UNCHANGED <<failed, verdict>>
       \/ /\ Head(captures).stage # "extensions"
          /\ captures' = [captures EXCEPT ![1].stage = NextStage[@]]
          /\ UNCHANGED <<jobs, asleep, failed, verdict>>
       \/ FailCapture
    /\ UNCHANGED <<main, caller, requestVars, levelVars, completions>> /\ OthersSteady

LeaveCaptures ==
    /\ At("captures")
    /\ \/ Budgeted /\ Goto("report")
       \/ ~Budgeted /\ captures = <<>> /\ Goto("drain")
    /\ UNCHANGED <<caller, requestVars, captures, failed, levelVars, queueVars, asleep, verdict>>
    /\ OthersSteady
-----------------------------------------------------------------------------
(* wait_for_pending_saves and what its callers do with the answer.            *)

StartWait(c) == Goto("drain") /\ caller' = c

Load == At("play") /\ StartWait("load") /\ UNCHANGED <<made, levelVars>>

\* The autosave and its second try get the next two numbers.
ChangeLevel == /\ At("play") /\ ~latched /\ made + 2 <= MaxSaves
               /\ StartWait("leave") /\ made' = made + 2 /\ auto' = made + 1
               /\ UNCHANGED latched

Stop == At("play") /\ StartWait("stop") /\ UNCHANGED <<made, levelVars>>

NetStop == At("moved") /\ StartWait("stop") /\ UNCHANGED <<made, levelVars>>

Teardown == At("teardown") /\ StartWait("destroy") /\ UNCHANGED <<made, levelVars>>

\* The script hook is over; the level change saves before it leaves.
LeaveLevel == /\ At("hook") /\ Goto("save") /\ caller' = "first" /\ latched' = TRUE
              /\ UNCHANGED <<made, auto>>

ReadSave == At("reading") /\ Goto("play") /\ UNCHANGED <<caller, made, levelVars>>

NewGame == At("menu") /\ Goto("play") /\ latched' = FALSE /\ UNCHANGED <<caller, made, auto>>

Turn == /\ Load \/ ChangeLevel \/ Stop \/ NetStop \/ Teardown \/ LeaveLevel \/ ReadSave \/ NewGame
        /\ UNCHANGED <<requests, snapshotted, captures, failed, queueVars, asleep, verdict>>
        /\ OthersSteady

Drain ==
    /\ At("drain")
    /\ Goto(IF captures # <<>> THEN "captures" ELSE IF requests # <<>> THEN "requests" ELSE "await")
    /\ UNCHANGED <<caller, requestVars, captures, failed, levelVars, queueVars, asleep, verdict>>
    /\ OthersSteady

Await == At("await") /\ WaitIdle("report")

\* What the caller of wait_for_pending_saves does with its answer.
WaitReturned(ok) ==
    CASE caller = "frame"   -> Goto("play") /\ UNCHANGED <<caller, auto>>
      [] caller = "load"    -> Goto("reading") /\ UNCHANGED <<caller, auto>>
      [] caller = "leave"   -> Goto(IF ok THEN "hook" ELSE "play") /\ UNCHANGED <<caller, auto>>
      [] caller \in {"first", "second"} ->
             IF ok THEN Goto("moved") /\ UNCHANGED <<caller, auto>> ELSE TransitionFailed
      [] caller = "stop"    -> Goto("teardown") /\ UNCHANGED <<caller, auto>>
      [] caller = "destroy" -> Goto("menu") /\ UNCHANGED <<caller, auto>>

AllDone  == TRUE                         \* broken variant: failures are not passed on
AllSaved == ~failed /\ \A i \in DOMAIN completions : completions[i].ok

Outcome(s) == IF \E i \in DOMAIN completions : completions[i] = [id |-> s, ok |-> TRUE]
              THEN "done"
              ELSE IF \E i \in DOMAIN completions : completions[i].id = s THEN "failed"
              ELSE verdict[s]

Report ==
    /\ At("report")
    /\ verdict' = [s \in Save |-> Outcome(s)]
    /\ completions' = <<>> /\ failed' = FALSE
    /\ WaitReturned(AllSaved)
    /\ UNCHANGED <<requestVars, captures, latched, jobs, asleep>> /\ OthersSteady
-----------------------------------------------------------------------------
(* The writer thread, AsyncSaveCoordinator::worker_main and execute_save_job. *)

MainSteady == UNCHANGED <<main, caller, requestVars, captures, failed, levelVars, verdict>>
WriterAt(l) == writer = l /\ Awake("writer")

\* Broken variant: the newest job first.
TakeNewest ==
    /\ WriterAt("work")
    /\ IF jobs # <<>>
         THEN /\ active' = Last(jobs) /\ jobs' = Front(jobs)
              /\ writer' = "start" /\ UNCHANGED asleep
       ELSE /\ IF stopping THEN writer' = "exited" /\ UNCHANGED asleep
                           ELSE Sleep("writer", "workAvailable") /\ UNCHANGED writer
            /\ UNCHANGED <<active, jobs>>
    /\ UNCHANGED <<completions, stopping, early, shown, ioVars>> /\ MainSteady

TakeJob ==
    /\ WriterAt("work")
    /\ IF jobs # <<>>
         THEN /\ active' = Head(jobs) /\ jobs' = Tail(jobs)
              /\ writer' = "start" /\ UNCHANGED asleep
       ELSE /\ IF stopping THEN writer' = "exited" /\ UNCHANGED asleep
                           ELSE Sleep("writer", "workAvailable") /\ UNCHANGED writer
            /\ UNCHANGED <<active, jobs>>
    /\ UNCHANGED <<completions, stopping, early, shown, ioVars>> /\ MainSteady

\* An oversized source fails at once; the I/O thread joins in when it may.
StartJob ==
    /\ WriterAt("start")
    /\ \/ writer' = "failed" /\ early' = FALSE /\ UNCHANGED <<ioRequest, asleep>>
       \/ writer' = "publish" /\ early' = FALSE /\ UNCHANGED <<ioRequest, asleep>>
       \/ writer' = "publish" /\ early' = TRUE /\ ioRequest' = active /\ Notify("ioWork")
    /\ UNCHANGED <<queueVars, shown, io, ioJob, ioMainTemp, ioReady, ioStopping>> /\ MainSteady

\* The source is compressed; its buffers are lent to the I/O thread.
Publish ==
    /\ WriterAt("publish") /\ writer' = "finish"
    /\ IF early THEN ioMainTemp' = active /\ Notify("mainTempAvailable")
                ELSE UNCHANGED <<ioMainTemp, asleep>>
    /\ UNCHANGED <<queueVars, early, shown, io, ioJob, ioRequest, ioReady, ioStopping>> /\ MainSteady

\* Broken variant: a job that fails its validation returns at once.
FinishOrQuit ==
    /\ WriterAt("finish")
    /\ \/ IF early /\ ioReady = 0
            THEN Sleep("writer", "resultAvailable") /\ UNCHANGED <<writer, ioReady>>
            ELSE writer' = "commit" /\ ioReady' = 0 /\ UNCHANGED asleep
       \/ writer' = "failed" /\ UNCHANGED <<ioReady, asleep>>
    /\ UNCHANGED <<queueVars, early, shown, io, ioJob, ioRequest, ioMainTemp, ioStopping>> /\ MainSteady

\* Broken variant: the result is read but stays in its slot.
FinishAndKeep ==
    /\ WriterAt("finish")
    /\ IF early /\ ioReady = 0
         THEN Sleep("writer", "resultAvailable") /\ UNCHANGED writer
         ELSE writer' = "commit" /\ UNCHANGED asleep
    /\ UNCHANGED <<queueVars, early, shown, ioVars>> /\ MainSteady

Finish ==
    /\ WriterAt("finish")
    /\ IF early /\ ioReady = 0
         THEN Sleep("writer", "resultAvailable") /\ UNCHANGED <<writer, ioReady>>
         ELSE writer' = "commit" /\ ioReady' = 0 /\ UNCHANGED asleep
    /\ UNCHANGED <<queueVars, early, shown, io, ioJob, ioRequest, ioMainTemp, ioStopping>> /\ MainSteady

\* The transaction of SaveTransaction, or a job that never gets to it.
Commit ==
    /\ WriterAt("commit")
    /\ \/ writer' = "done" /\ shown' = active
       \/ writer' = "failed" /\ UNCHANGED shown
    /\ UNCHANGED <<queueVars, early, ioVars, asleep>> /\ MainSteady

Complete ==
    /\ WriterAt(writer) /\ writer \in {"done", "failed"} /\ writer' = "work"
    /\ completions' = Append(completions, [id |-> active, ok |-> writer = "done"])
    /\ active' = 0 /\ Notify("idle")
    /\ UNCHANGED <<jobs, stopping, early, shown, ioVars>> /\ MainSteady
-----------------------------------------------------------------------------
(* The I/O thread, AsyncSaveIoWorker::worker_main.                            *)

IoAt(l) == io = l /\ Awake("io")
IoActive == io \in {"prepare", "main_temp", "write"}

TakeRequest ==
    /\ IoAt("work")
    /\ IF ioRequest # 0
         THEN ioJob' = ioRequest /\ ioRequest' = 0 /\ io' = "prepare" /\ UNCHANGED asleep
       ELSE /\ IF ioStopping THEN io' = "exited" /\ UNCHANGED asleep
                             ELSE Sleep("io", "ioWork") /\ UNCHANGED io
            /\ UNCHANGED <<ioJob, ioRequest>>
    /\ UNCHANGED <<queueVars, writerVars, ioMainTemp, ioReady, ioStopping>> /\ MainSteady

Prepare ==
    /\ IoAt("prepare") /\ io' = "main_temp"
    /\ UNCHANGED <<queueVars, writerVars, ioJob, ioRequest, ioMainTemp, ioReady, ioStopping, asleep>>
    /\ MainSteady

TakeMainTemp ==
    /\ IoAt("main_temp")
    /\ IF ioMainTemp # 0 THEN io' = "write" /\ ioMainTemp' = 0 /\ UNCHANGED asleep
                         ELSE Sleep("io", "mainTempAvailable") /\ UNCHANGED <<io, ioMainTemp>>
    /\ UNCHANGED <<queueVars, writerVars, ioJob, ioRequest, ioReady, ioStopping>> /\ MainSteady

WriteMainTemp ==
    /\ IoAt("write") /\ io' = "work"
    /\ ioReady' = ioJob /\ ioJob' = 0 /\ Notify("resultAvailable")
    /\ UNCHANGED <<queueVars, writerVars, ioRequest, ioMainTemp, ioStopping>> /\ MainSteady
-----------------------------------------------------------------------------
(* The end of the program: the destructors of both workers.                   *)

ExitSteady == UNCHANGED <<caller, requestVars, captures, failed, levelVars, jobs, completions,
                          active, writerVars, verdict, io, ioJob, ioRequest, ioMainTemp, ioReady>>

Exit == At("menu") /\ Goto("exit_await") /\ UNCHANGED <<stopping, ioStopping, asleep>> /\ ExitSteady

\* Broken variant: asks the writer to stop without waking it.
StopAsleep ==
    /\ At("exit_await")
    /\ IF WriterIdle THEN Goto("exit_join") /\ stopping' = TRUE /\ UNCHANGED asleep
                     ELSE Sleep("main", "idle") /\ UNCHANGED <<main, stopping>>
    /\ UNCHANGED ioStopping /\ ExitSteady

StopWriter ==
    /\ At("exit_await")
    /\ IF WriterIdle THEN Goto("exit_join") /\ stopping' = TRUE /\ Notify("workAvailable")
                     ELSE Sleep("main", "idle") /\ UNCHANGED <<main, stopping>>
    /\ UNCHANGED ioStopping /\ ExitSteady

StopIo ==
    /\ At("exit_join") /\ writer = "exited" /\ ioRequest = 0 /\ ~IoActive
    /\ Goto("exit_io") /\ ioStopping' = TRUE /\ Notify("ioWork")
    /\ UNCHANGED stopping /\ ExitSteady

JoinIo == /\ At("exit_io") /\ io = "exited" /\ Goto("exited")
          /\ UNCHANGED <<stopping, ioStopping, asleep>> /\ ExitSteady

Ended == main = "exited" /\ UNCHANGED vars
-----------------------------------------------------------------------------
PlayerTurn == At("play") \/ At("menu")

MainStep == \/ StartFrame \/ ProcessRequests \/ FinishSnapshot \/ DoSave \/ LegacyAwait
            \/ LegacyCapture \/ AdvanceCapture \/ LeaveCaptures \/ Drain \/ Await \/ Report
            \/ (~PlayerTurn /\ Turn) \/ StopWriter \/ StopIo \/ JoinIo
WriterStep == TakeJob \/ StartJob \/ Publish \/ Finish \/ Commit \/ Complete
IoStep == TakeRequest \/ Prepare \/ TakeMainTemp \/ WriteMainTemp

Next == \/ RequestSave \/ (PlayerTurn /\ (Turn \/ Exit)) \/ MainStep \/ WriterStep \/ IoStep
        \/ (\E t \in Thread : Spurious(t)) \/ Ended

\* The system runs every thread; a slice that keeps coming gets its work done in
\* the end, because every slice does at least one object, record or script step.
Fairness == /\ WF_vars(MainStep) /\ WF_vars(WriterStep) /\ WF_vars(IoStep)
            /\ SF_vars(FinishSnapshot) /\ SF_vars(AdvanceCapture)

Spec == Init /\ [][Next]_vars
FairSpec == Spec /\ Fairness
-----------------------------------------------------------------------------
\* SavesInOrder: snapshots reach the disk in the order they were taken, so the
\* slot never goes back to an older one, whatever fails in between
\* (AsyncSaveCoordinator, process_save_captures).
Waiting == (IF active # 0 /\ writer # "done" /\ writer # "failed" THEN <<active>> ELSE <<>>)
             \o jobs \o [i \in DOMAIN captures |-> captures[i].id]

Queue == INSTANCE SaveQueue WITH Saves <- Save, waiting <- Waiting, shown <- shown

SavesInOrder == Queue!Spec

\* DiskIsQuiet: while the main thread recovers or reads a save, runs the legacy
\* callback over the final .scoc or leaves a level, neither worker has a job
\* (wait_for_pending_saves, AsyncSaveCoordinator::wait).
DiskIsQuiet ==
    main \in {"reading", "legacy_capture", "moved", "teardown", "menu"} =>
        jobs = <<>> /\ active = 0 /\ ~IoActive /\ ioRequest = 0

\* HandshakeHolds: the two VERIFYs of AsyncSaveIoWorker: nothing of an earlier
\* job is left when one begins, and the main part goes to a job under way.
HandshakeHolds ==
    /\ writer = "start" => ioRequest = 0 /\ ioMainTemp = 0 /\ ~IoActive /\ ioReady = 0
    /\ writer = "publish" /\ early => (ioRequest # 0 \/ IoActive) /\ ioMainTemp = 0

\* BorrowedBuffersLive: the I/O thread reads buffers the writer owns (the custom
\* data of the job, the compressed source) only while the writer is still in that
\* job and has not collected the result (execute_save_job).
BorrowedBuffersLive ==
    /\ \A j \in {ioJob, ioRequest} \ {0} : j = active /\ writer \in {"publish", "finish"}
    /\ ioMainTemp # 0 \/ io = "write" => writer = "finish"

\* NoConcurrentCapture: save() never finds a capture under way: the capture
\* state of the scripts is process-global (save, process_save_requests).
NoConcurrentCapture == main = "save" => captures = <<>>

\* MovedOnDisk: a level change goes through only with its autosave committed
\* and reported (change_level).
MovedOnDisk == main = "moved" => verdict[auto] = "done"

\* NothingLost: a save that has no outcome yet is in exactly one place of the
\* pipeline, so save_in_flight stays true until the player is told.
Places(s) == {<<"request", i>> : i \in {n \in DOMAIN requests : requests[n] = s}}
        \cup {<<"capture", i>> : i \in {n \in DOMAIN captures : captures[n].id = s}}
        \cup {<<"job", i>> : i \in {n \in DOMAIN jobs : jobs[n] = s}}
        \cup {<<"writer", i>> : i \in {active} \cap {s}}
        \cup {<<"completion", i>> : i \in {n \in DOMAIN completions : completions[n].id = s}}

NothingLost == \A s \in Save : verdict[s] = "waiting" <=> Cardinality(Places(s)) = 1

\* EverySaveSettles: every save asked for is reported to the player as done or
\* failed in the end (process_async_save_completions).
EverySaveSettles == \A s \in Save : verdict[s] = "waiting" ~> verdict[s] \in {"done", "failed"}

\* WorldResumes: the ALife simulation, which stands still while a capture is
\* active, runs again (CALifeUpdateManager::update, save_capture_active).
CaptureActive == requests # <<>> \/ captures # <<>>
WorldResumes == CaptureActive ~> ~CaptureActive

\* ExitCompletes: the program that begins to exit ends: no destructor waits for
\* a thread that was never woken (~AsyncSaveCoordinator, ~AsyncSaveIoWorker).
ExitCompletes == main = "exit_await" ~> main = "exited"
=============================================================================
