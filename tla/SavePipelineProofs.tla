------------------------- MODULE SavePipelineProofs -------------------------
(* Theorems of SavePipeline for any number of saves and both Lua interfaces. *)
EXTENDS SavePipeline, SequenceTheorems, TLAPS

\* Which save the main thread is at: a request, or the autosave of a level change.
SubjectKnown ==
    /\ snapshotted => requests # <<>>
    /\ main \in {"save", "legacy_await", "legacy_capture"} /\ ~snapshotted =>
           caller \in {"first", "second"}
    /\ caller \in {"leave", "first", "second"} => auto \in Save
    /\ caller \in {"leave", "first"} => auto + 1 \in Save
    /\ main = "hook" => caller = "leave"

Working == active # 0 <=> writer \notin {"work", "exited"}

LineInv == TypeOK /\ SubjectKnown /\ Working

LEMMA InitLine == Init => LineInv
  <1> SUFFICES ASSUME Init PROVE LineInv
    OBVIOUS
  <1>1. /\ requests \in Seq(Save) /\ captures \in Seq([id : Save, stage : Stage])
        /\ jobs \in Seq(Save) /\ completions \in Seq([id : Save, ok : BOOLEAN])
    BY DEF Init
  <1>2. made \in 0..MaxSaves
    BY SavePipelineAssumption DEF Init
  <1>3. asleep \in [Thread -> Condition] /\ verdict \in [Save -> Verdict]
    BY DEF Init, Condition, Verdict
  <1>4. TypeOK
    BY <1>1, <1>2, <1>3 DEF Init, TypeOK, Job, MainLabel, Caller, WriterLabel, IoLabel
  <1>5. SubjectKnown /\ Working
    BY DEF Init, SubjectKnown, Working
  <1> QED BY <1>4, <1>5 DEF LineInv

LEMMA WakesTyped ==
  ASSUME asleep \in [Thread -> Condition], NEW c \in Condition, NEW t \in Thread,
         Notify(c) \/ Sleep(t, c) \/ UNCHANGED asleep
  PROVE  asleep' \in [Thread -> Condition]
  BY DEF Notify, Sleep, Condition

LEMMA SubjectTyped ==
  ASSUME LineInv, main \in {"save", "legacy_capture"}
  PROVE  Subject \in Save
  BY DEF LineInv, TypeOK, SubjectKnown, Subject

\* What only the main thread writes, and what only the two workers write.
MainTyped ==
    /\ main \in MainLabel /\ caller \in Caller
    /\ requests \in Seq(Save) /\ snapshotted \in BOOLEAN /\ made \in 0..MaxSaves
    /\ captures \in Seq([id : Save, stage : Stage])
    /\ failed \in BOOLEAN /\ auto \in Job /\ latched \in BOOLEAN
    /\ verdict \in [Save -> Verdict]

QueuesTyped ==
    /\ jobs \in Seq(Save) /\ completions \in Seq([id : Save, ok : BOOLEAN])
    /\ active \in Job /\ stopping \in BOOLEAN /\ asleep \in [Thread -> Condition]

WorkersTyped ==
    /\ writer \in WriterLabel /\ early \in BOOLEAN /\ shown \in Job
    /\ io \in IoLabel /\ ioJob \in Job /\ ioRequest \in Job /\ ioMainTemp \in Job
    /\ ioReady \in Job /\ ioStopping \in BOOLEAN

LEMMA TypeParts == /\ TypeOK <=> MainTyped /\ QueuesTyped /\ WorkersTyped
                   /\ TypeOK' <=> MainTyped' /\ QueuesTyped' /\ WorkersTyped'
  BY DEF TypeOK, MainTyped, QueuesTyped, WorkersTyped

LEMMA Zero == 0 \in Job /\ \A s \in Save : s \in Job
  BY DEF Job

\* The steps of the main thread keep the types.
LEMMA TransitionTyped ==
  ASSUME LineInv, TransitionFailed
  PROVE  main' \in MainLabel /\ caller' \in Caller /\ auto' \in Job
  BY DEF LineInv, TypeOK, SubjectKnown, TransitionFailed, Goto, MainLabel, Caller, Job

LEMMA SaveReturnsTyped ==
  ASSUME LineInv, NEW ok \in BOOLEAN, SaveReturns(ok)
  PROVE  /\ main' \in MainLabel /\ caller' \in Caller /\ auto' \in Job
         /\ requests' \in Seq(Save) /\ snapshotted' \in BOOLEAN /\ failed' \in BOOLEAN
  <1>1. CASE snapshotted
    <2>1. requests # <<>> /\ requests \in Seq(Save)
      BY <1>1 DEF LineInv, TypeOK, SubjectKnown
    <2>2. Tail(requests) \in Seq(Save)
      BY <2>1
    <2> QED BY <1>1, <2>2 DEF SaveReturns, LineInv, TypeOK, OutOfBudget, Goto, MainLabel
  <1>2. CASE ~snapshotted
    BY <1>2, TransitionTyped DEF SaveReturns, LineInv, TypeOK, Goto, MainLabel
  <1> QED BY <1>1, <1>2

LEMMA AppendTyped ==
  ASSUME NEW S, NEW q \in Seq(S), NEW x \in S
  PROVE  Append(q, x) \in Seq(S)
  OBVIOUS

LEMMA AppendIsLonger ==
  ASSUME NEW S, NEW q \in Seq(S), NEW x \in S
  PROVE  Append(q, x) # <<>>
  BY AppendProperties

LEMMA TailTyped ==
  ASSUME NEW S, NEW q \in Seq(S), q # <<>>
  PROVE  Head(q) \in S /\ Tail(q) \in Seq(S)
  OBVIOUS

LEMMA BeginTyped ==
  ASSUME LineInv, main \in {"save", "legacy_capture"}, NEW stage \in Stage,
         BeginCapture(stage) \/ RefuseCapture, made' = made, latched' = latched
  PROVE  MainTyped'
  <1>1. Subject \in Save
    BY SubjectTyped
  <1>2. captures' \in Seq([id : Save, stage : Stage])
    <2>1. captures \in Seq([id : Save, stage : Stage])
      BY DEF LineInv, TypeOK
    <2>2. captures' = Append(captures, [id |-> Subject, stage |-> stage]) \/ UNCHANGED captures
      BY DEF BeginCapture, RefuseCapture
    <2> DEFINE R == [id : Save, stage : Stage]
    <2> DEFINE r == [id |-> Subject, stage |-> stage]
    <2>3. r \in R
      BY <1>1
    <2>4. captures \in Seq(R) /\ (captures' = Append(captures, r) \/ captures' = captures)
      BY <2>1, <2>2
    <2> HIDE DEF R, r
    <2>5. captures' \in Seq(R)
      BY <2>3, <2>4, AppendTyped
    <2> QED BY <2>5 DEF R
  <1>3. verdict' \in [Save -> Verdict]
    BY <1>1 DEF BeginCapture, RefuseCapture, LineInv, TypeOK, Verdict
  <1> QED BY <1>2, <1>3, SaveReturnsTyped DEF BeginCapture, RefuseCapture, MainTyped, LineInv, TypeOK

LEMMA WaitTyped ==
  ASSUME LineInv, NEW l \in MainLabel, WaitIdle(l)
  PROVE  TypeOK'
  BY DEF WaitIdle, Goto, Sleep, OthersSteady, LineInv, TypeOK, requestVars, levelVars, queueVars,
         writerVars, ioVars, Thread, Condition

LEMMA RequestsTyped ==
  ASSUME LineInv, RequestSave \/ StartFrame \/ ProcessRequests \/ FinishSnapshot \/ LeaveCaptures
                  \/ Drain \/ Exit
  PROVE  TypeOK'
  <1> USE DEF LineInv, TypeOK, requestVars, levelVars, queueVars, writerVars, ioVars,
              OthersSteady, ExitSteady, Goto, MainLabel
  <1>1. CASE RequestSave
    <2>1. made + 1 \in Save /\ made + 1 \in 0..MaxSaves
      BY <1>1, SavePipelineAssumption DEF RequestSave, Save
    <2>2. requests' \in Seq(Save) /\ verdict' \in [Save -> Verdict]
      BY <1>1, <2>1 DEF RequestSave, Verdict
    <2> QED BY <1>1, <2>1, <2>2 DEF RequestSave
  <1>2. CASE StartFrame
    BY <1>2 DEF StartFrame, Caller
  <1>3. CASE ProcessRequests
    BY <1>3 DEF ProcessRequests, LeaveRequests, OutOfBudget
  <1>4. CASE FinishSnapshot
    BY <1>4 DEF FinishSnapshot, LeaveRequests, OutOfBudget
  <1>5. CASE LeaveCaptures
    BY <1>5 DEF LeaveCaptures
  <1>6. CASE Drain
    BY <1>6 DEF Drain
  <1>7. CASE Exit
    BY <1>7 DEF Exit
  <1> QED BY <1>1, <1>2, <1>3, <1>4, <1>5, <1>6, <1>7

LEMMA SavesTyped ==
  ASSUME LineInv, DoSave \/ LegacyAwait \/ LegacyCapture
  PROVE  TypeOK'
  <1>0. {"world"} \cup (Stage \ {"extensions"}) \subseteq Stage
    BY DEF Stage
  <1>1. CASE DoSave
    <2>1. MainTyped'
      BY <1>1, <1>0, BeginTyped DEF DoSave, At, Goto, MainTyped, LineInv, TypeOK, MainLabel, levelVars
    <2> QED BY <1>1, <2>1, TypeParts
            DEF DoSave, LineInv, QueuesTyped, WorkersTyped, OthersSteady, queueVars, writerVars, ioVars
  <1>2. CASE LegacyAwait
    BY <1>2, WaitTyped DEF LegacyAwait, MainLabel
  <1>3. CASE LegacyCapture
    <2>1. MainTyped'
      BY <1>3, <1>0, BeginTyped DEF LegacyCapture, At, levelVars
    <2> QED BY <1>3, <2>1, TypeParts
            DEF LegacyCapture, LineInv, QueuesTyped, WorkersTyped, OthersSteady, queueVars, writerVars, ioVars
  <1> QED BY <1>1, <1>2, <1>3

LEMMA CapturesTyped ==
  ASSUME LineInv, AdvanceCapture
  PROVE  TypeOK'
  <1>1. captures # <<>> /\ captures \in Seq([id : Save, stage : Stage])
    BY DEF AdvanceCapture, LineInv, TypeOK
  <1>2. Head(captures) \in [id : Save, stage : Stage] /\ Tail(captures) \in Seq([id : Save, stage : Stage])
    BY <1>1, TailTyped
  <1>3. /\ captures' \in Seq([id : Save, stage : Stage])
        /\ jobs' \in Seq(Save) /\ verdict' \in [Save -> Verdict] /\ failed' \in BOOLEAN
        /\ asleep' \in [Thread -> Condition]
    <2>1. CASE /\ jobs' = Append(jobs, Head(captures).id) /\ captures' = Tail(captures)
               /\ Notify("workAvailable") /\ UNCHANGED <<failed, verdict>>
      <3>1. asleep' \in [Thread -> Condition]
        BY <2>1 DEF Notify, LineInv, TypeOK, Condition
      <3>2. jobs' \in Seq(Save)
        BY <2>1, <1>2, AppendTyped DEF LineInv, TypeOK
      <3> QED BY <2>1, <1>2, <3>1, <3>2 DEF LineInv, TypeOK
    <2>2. CASE /\ Head(captures).stage # "extensions"
               /\ captures' = [captures EXCEPT ![1].stage = NextStage[@]]
               /\ UNCHANGED <<jobs, asleep, failed, verdict>>
      <3>1. captures[1] = Head(captures) /\ 1 \in DOMAIN captures
        BY <1>1
      <3>2. NextStage[captures[1].stage] \in Stage
        BY <1>2, <2>2, <3>1 DEF Stage, NextStage
      <3>3. [captures[1] EXCEPT !.stage = NextStage[@]] \in [id : Save, stage : Stage]
        BY <1>2, <3>1, <3>2
      <3>4. captures' \in Seq([id : Save, stage : Stage])
        BY <1>1, <2>2, <3>3
      <3> QED BY <2>2, <3>4 DEF LineInv, TypeOK
    <2>3. CASE FailCapture
      BY <2>3, <1>2 DEF FailCapture, LineInv, TypeOK, Verdict
    <2> QED BY <2>1, <2>2, <2>3 DEF AdvanceCapture
  <1> QED BY <1>3 DEF AdvanceCapture, LineInv, TypeOK, requestVars, levelVars, OthersSteady, writerVars, ioVars

LEMMA TurnTyped ==
  ASSUME LineInv, Turn
  PROVE  TypeOK'
  <1>1. /\ main' \in MainLabel /\ caller' \in Caller /\ made' \in 0..MaxSaves
        /\ auto' \in Job /\ latched' \in BOOLEAN
    <2>1. CASE ChangeLevel
      <3>1. made \in Nat /\ MaxSaves \in Nat /\ made + 2 <= MaxSaves
        BY <2>1, SavePipelineAssumption DEF ChangeLevel, LineInv, TypeOK
      <3>2. made + 1 \in Job /\ made + 2 \in 0..MaxSaves
        BY <3>1 DEF Job, Save
      <3> QED BY <2>1, <3>2 DEF ChangeLevel, StartWait, Goto, LineInv, TypeOK, MainLabel, Caller
    <2>2. CASE Load \/ Stop \/ NetStop \/ Teardown
      BY <2>2 DEF Load, Stop, NetStop, Teardown, StartWait, Goto, levelVars, LineInv, TypeOK, MainLabel, Caller
    <2>3. CASE LeaveLevel \/ ReadSave \/ NewGame
      BY <2>3 DEF LeaveLevel, ReadSave, NewGame, Goto, levelVars, LineInv, TypeOK, MainLabel, Caller
    <2> QED BY <2>1, <2>2, <2>3 DEF Turn
  <1> QED BY <1>1 DEF Turn, LineInv, TypeOK, queueVars, OthersSteady, writerVars, ioVars

LEMMA ReportTyped ==
  ASSUME LineInv, Await \/ Report
  PROVE  TypeOK'
  <1>1. CASE Await
    BY <1>1, WaitTyped DEF Await, MainLabel
  <1>2. CASE Report
    <2>1. main' \in MainLabel /\ caller' \in Caller /\ auto' \in Job
      <3>1. caller \in Caller /\ WaitReturned(AllSaved)
        BY <1>2 DEF Report, LineInv, TypeOK
      <3> QED BY <3>1, TransitionTyped DEF WaitReturned, Goto, LineInv, TypeOK, MainLabel, Caller
    <2>2. verdict' \in [Save -> Verdict]
      BY <1>2 DEF Report, Outcome, LineInv, TypeOK, Verdict
    <2>3. completions' \in Seq([id : Save, ok : BOOLEAN]) /\ failed' \in BOOLEAN
      <3>1. completions' = <<>> /\ failed' = FALSE
        BY <1>2 DEF Report
      <3>2. <<>> \in Seq([id : Save, ok : BOOLEAN])
        OBVIOUS
      <3> QED BY <3>1, <3>2, Zenon
    <2>4. UNCHANGED <<requests, snapshotted, made, captures, latched, jobs, asleep, writer, early, shown,
                      io, ioJob, ioRequest, ioMainTemp, ioReady, ioStopping, active, stopping>>
      BY <1>2 DEF Report, requestVars, OthersSteady, writerVars, ioVars
    <2> QED BY <2>1, <2>2, <2>3, <2>4 DEF LineInv, TypeOK
  <1> QED BY <1>1, <1>2

LEMMA ExitTyped ==
  ASSUME LineInv, StopWriter \/ StopIo \/ JoinIo
  PROVE  TypeOK'
  <1>1. asleep' \in [Thread -> Condition]
    BY WakesTyped DEF StopWriter, StopIo, JoinIo, LineInv, TypeOK, Thread, Condition
  <1>2. main' \in MainLabel /\ stopping' \in BOOLEAN /\ ioStopping' \in BOOLEAN
    BY DEF StopWriter, StopIo, JoinIo, Goto, LineInv, TypeOK, MainLabel
  <1>3. ExitSteady
    BY DEF StopWriter, StopIo, JoinIo
  <1> QED BY <1>1, <1>2, <1>3 DEF ExitSteady, LineInv, TypeOK, requestVars, levelVars, writerVars

\* The steps of the two workers keep the types.
LEMMA WriterTyped ==
  ASSUME LineInv, WriterStep
  PROVE  TypeOK'
  <1>1. MainTyped'
    BY TypeParts DEF LineInv, WriterStep, TakeJob, StartJob, Publish, Finish, Commit, Complete,
       MainSteady, MainTyped, requestVars, levelVars
  <1>2. CASE TakeJob
    <2>1. jobs \in Seq(Save)
      BY DEF LineInv, TypeOK
    <2>2. jobs' \in Seq(Save) /\ active' \in Job
      <3>1. jobs # <<>> => Head(jobs) \in Save /\ Tail(jobs) \in Seq(Save)
        BY <2>1, TailTyped
      <3>2. active \in Job /\ \A s \in Save : s \in Job
        BY Zero DEF LineInv, TypeOK
      <3> QED BY <1>2, <2>1, <3>1, <3>2 DEF TakeJob
    <2>3. asleep' \in [Thread -> Condition] /\ writer' \in WriterLabel
      BY <1>2 DEF TakeJob, Sleep, LineInv, TypeOK, WriterLabel, Thread, Condition
    <2> QED BY <1>1, <1>2, <2>2, <2>3, TypeParts
            DEF TakeJob, LineInv, MainTyped, QueuesTyped, WorkersTyped, ioVars
  <1>3. CASE StartJob
    <2>1. asleep' \in [Thread -> Condition]
      BY <1>3, WakesTyped DEF StartJob, LineInv, TypeOK, Thread, Condition
    <2> QED BY <1>1, <1>3, <2>1, TypeParts
            DEF StartJob, LineInv, QueuesTyped, WorkersTyped, queueVars, WriterLabel
  <1>4. CASE Publish
    <2>1. asleep' \in [Thread -> Condition]
      BY <1>4, WakesTyped DEF Publish, LineInv, TypeOK, Thread, Condition
    <2> QED BY <1>1, <1>4, <2>1, TypeParts
            DEF Publish, LineInv, QueuesTyped, WorkersTyped, queueVars, WriterLabel
  <1>5. CASE Finish
    <2>1. asleep' \in [Thread -> Condition]
      BY <1>5, WakesTyped DEF Finish, LineInv, TypeOK, Thread, Condition
    <2> QED BY <1>1, <1>5, <2>1, TypeParts, Zero
            DEF Finish, LineInv, QueuesTyped, WorkersTyped, queueVars, WriterLabel
  <1>6. CASE Commit
    BY <1>1, <1>6, TypeParts DEF Commit, LineInv, QueuesTyped, WorkersTyped, queueVars, ioVars, WriterLabel
  <1>7. CASE Complete
    <2>1. active \in Save
      BY <1>7 DEF Complete, LineInv, TypeOK, Working, Job
    <2>2. [id |-> active, ok |-> writer = "done"] \in [id : Save, ok : BOOLEAN]
      BY <2>1
    <2>3. completions' \in Seq([id : Save, ok : BOOLEAN])
      BY <1>7, <2>2, AppendTyped DEF Complete, LineInv, TypeOK
    <2>4. asleep' \in [Thread -> Condition]
      BY <1>7 DEF Complete, Notify, LineInv, TypeOK, Condition
    <2> QED BY <1>1, <1>7, <2>3, <2>4, TypeParts, Zero
            DEF Complete, LineInv, QueuesTyped, WorkersTyped, ioVars, WriterLabel
  <1> QED BY <1>2, <1>3, <1>4, <1>5, <1>6, <1>7 DEF WriterStep

LEMMA IoTyped ==
  ASSUME LineInv, IoStep
  PROVE  TypeOK'
  <1>1. MainTyped'
    BY TypeParts DEF LineInv, IoStep, TakeRequest, Prepare, TakeMainTemp, WriteMainTemp,
       MainSteady, MainTyped, requestVars, levelVars
  <1>2. asleep' \in [Thread -> Condition]
    BY WakesTyped DEF LineInv, TypeOK, IoStep, TakeRequest, Prepare, TakeMainTemp, WriteMainTemp,
       Thread, Condition
  <1>3. UNCHANGED <<queueVars, writerVars>>
    BY DEF IoStep, TakeRequest, Prepare, TakeMainTemp, WriteMainTemp
  <1>4. /\ io' \in IoLabel /\ ioJob' \in Job /\ ioRequest' \in Job
        /\ ioMainTemp' \in Job /\ ioReady' \in Job /\ ioStopping' \in BOOLEAN
    <2>1. CASE TakeRequest
      BY <2>1, Zero DEF TakeRequest, LineInv, TypeOK, IoLabel
    <2>2. CASE Prepare \/ TakeMainTemp \/ WriteMainTemp
      BY <2>2, Zero DEF Prepare, TakeMainTemp, WriteMainTemp, LineInv, TypeOK, IoLabel
    <2> QED BY <2>1, <2>2 DEF IoStep
  <1> QED BY <1>1, <1>2, <1>3, <1>4, TypeParts
          DEF LineInv, QueuesTyped, WorkersTyped, queueVars, writerVars

LEMMA RestTyped ==
  ASSUME LineInv, (\E t \in Thread : Spurious(t)) \/ Ended \/ UNCHANGED vars
  PROVE  TypeOK'
  <1>1. asleep' \in [Thread -> Condition]
    BY DEF LineInv, TypeOK, Spurious, Ended, vars, Condition
  <1> QED BY <1>1 DEF Spurious, Ended, vars, LineInv, TypeOK, requestVars, levelVars, queueVars,
                      writerVars, ioVars

LEMMA RequestWaits ==
  ASSUME LineInv, RequestSave
  PROVE  requests' # <<>>
  <1>1. requests' = Append(requests, made + 1) /\ made < MaxSaves
    BY DEF RequestSave
  <1>2. requests \in Seq(Save) /\ made \in 0..MaxSaves
    BY DEF LineInv, TypeOK
  <1>3. made + 1 \in Save
    BY <1>1, <1>2, SavePipelineAssumption DEF Save
  <1> QED BY <1>1, <1>2, <1>3, AppendIsLonger

\* The first request, or the number of the autosave, is known wherever it is used.
LEMMA SubjectStep ==
  ASSUME LineInv, [Next]_vars
  PROVE  SubjectKnown'
  <1> USE DEF LineInv, SubjectKnown, Goto
  <1>1. CASE RequestSave
    BY <1>1, RequestWaits DEF RequestSave, levelVars
  <1>2. CASE StartFrame \/ ProcessRequests \/ LeaveCaptures \/ Drain \/ Exit
    BY <1>2 DEF StartFrame, ProcessRequests, LeaveCaptures, Drain, Exit, ExitSteady, LeaveRequests,
       OutOfBudget, requestVars, levelVars
  <1>3. CASE FinishSnapshot
    BY <1>3 DEF FinishSnapshot, Blocked, LeaveRequests, OutOfBudget, levelVars
  <1>4. CASE DoSave \/ LegacyCapture
    <2>1. At("save") \/ At("legacy_capture")
      BY <1>4 DEF DoSave, LegacyCapture
    <2>2. CASE \E ok \in BOOLEAN : SaveReturns(ok)
      <3>1. PICK ok \in BOOLEAN : SaveReturns(ok)
        BY <2>2
      <3>2. CASE snapshotted
        BY <3>1, <3>2 DEF SaveReturns, OutOfBudget
      <3>3. CASE ~snapshotted
        <4>1. auto \in Nat
          BY SavePipelineAssumption DEF TypeOK, Job, Save
        <4>2. UNCHANGED <<requests, snapshotted>> /\ caller \in {"first", "second"}
          BY <2>1, <3>1, <3>3 DEF SaveReturns, At
        <4>3. CASE ok
          BY <3>1, <3>3, <4>2, <4>3 DEF SaveReturns
        <4>4. CASE ~ok
          BY <3>1, <3>3, <4>1, <4>2, <4>4 DEF SaveReturns, TransitionFailed
        <4> QED BY <4>3, <4>4
      <3> QED BY <3>2, <3>3
    <2>3. CASE Goto("legacy_await") /\ UNCHANGED <<caller, requests, snapshotted, auto>>
      BY <2>1, <2>3 DEF At
    <2> QED BY <1>4, <2>2, <2>3 DEF DoSave, LegacyCapture, BeginCapture, RefuseCapture
  <1>5. CASE LegacyAwait \/ Await
    BY <1>5 DEF LegacyAwait, Await, WaitIdle, At, requestVars, levelVars
  <1>6. CASE AdvanceCapture
    BY <1>6 DEF AdvanceCapture, requestVars, levelVars
  <1>7. CASE Turn
    <2>1. CASE ChangeLevel
      <3>1. made \in Nat /\ MaxSaves \in Nat /\ made + 2 <= MaxSaves
        BY <2>1, SavePipelineAssumption DEF ChangeLevel, TypeOK
      <3>2. made + 1 \in Save /\ (made + 1) + 1 \in Save
        BY <3>1 DEF Save
      <3> QED BY <1>7, <2>1, <3>2 DEF Turn, ChangeLevel, StartWait
    <2>2. CASE Load \/ Stop \/ NetStop \/ Teardown
      BY <1>7, <2>2 DEF Turn, Load, Stop, NetStop, Teardown, StartWait, levelVars
    <2>3. CASE LeaveLevel \/ ReadSave \/ NewGame
      BY <1>7, <2>3 DEF Turn, LeaveLevel, ReadSave, NewGame, At, levelVars
    <2> QED BY <1>7, <2>1, <2>2, <2>3 DEF Turn
  <1>8. CASE Report
    <2>1. UNCHANGED <<requests, snapshotted>> /\ WaitReturned(AllSaved) /\ caller \in Caller
      BY <1>8 DEF Report, requestVars, TypeOK
    <2>2. auto \in Nat
      BY SavePipelineAssumption DEF TypeOK, Job, Save
    <2>3. CASE TransitionFailed /\ caller \in {"first", "second"}
      BY <2>1, <2>2, <2>3 DEF TransitionFailed
    <2>4. CASE UNCHANGED <<caller, auto>>
      BY <2>1, <2>4 DEF WaitReturned, Caller, TransitionFailed
    <2> QED BY <2>1, <2>3, <2>4 DEF WaitReturned, Caller
  <1>9. CASE StopWriter \/ StopIo \/ JoinIo
    BY <1>9 DEF StopWriter, StopIo, JoinIo, At, ExitSteady, requestVars, levelVars
  <1>10. CASE WriterStep \/ IoStep
    <2>1. MainSteady
      BY <1>10 DEF WriterStep, TakeJob, StartJob, Publish, Finish, Commit, Complete,
         IoStep, TakeRequest, Prepare, TakeMainTemp, WriteMainTemp
    <2> QED BY <2>1 DEF MainSteady, requestVars, levelVars
  <1>11. CASE (\E t \in Thread : Spurious(t)) \/ Ended \/ UNCHANGED vars
    BY <1>11 DEF Spurious, Ended, vars, requestVars, levelVars
  <1> QED BY <1>1, <1>2, <1>3, <1>4, <1>5, <1>6, <1>7, <1>8, <1>9, <1>10, <1>11 DEF Next, MainStep

\* Only the writer's and the I/O thread's own steps change what they keep.
LEMMA OthersStep ==
  ASSUME [Next]_vars
  PROVE  \/ WriterStep
         \/ UNCHANGED <<active, writer, early>> /\ IoStep
         \/ UNCHANGED <<active, writer, early, io, ioJob, ioRequest, ioMainTemp, ioReady>>
  <1> USE DEF OthersSteady, ExitSteady, queueVars, writerVars, ioVars
  <1>1. CASE RequestSave \/ StartFrame \/ ProcessRequests \/ FinishSnapshot \/ LeaveCaptures \/ Drain
    BY <1>1 DEF RequestSave, StartFrame, ProcessRequests, FinishSnapshot, LeaveCaptures, Drain
  <1>2. CASE DoSave \/ LegacyAwait \/ LegacyCapture \/ AdvanceCapture \/ Await \/ Report \/ Turn
    BY <1>2 DEF DoSave, LegacyAwait, LegacyCapture, AdvanceCapture, Await, Report, Turn, WaitIdle
  <1>3. CASE StopWriter \/ StopIo \/ JoinIo \/ Exit
    BY <1>3 DEF StopWriter, StopIo, JoinIo, Exit
  <1>4. CASE IoStep
    BY <1>4 DEF IoStep, TakeRequest, Prepare, TakeMainTemp, WriteMainTemp
  <1>5. CASE (\E t \in Thread : Spurious(t)) \/ Ended \/ UNCHANGED vars
    BY <1>5 DEF Spurious, Ended, vars
  <1> QED BY <1>1, <1>2, <1>3, <1>4, <1>5 DEF Next, MainStep

\* The coordinator has an active job exactly while the writer works on one.
LEMMA WorkingStep ==
  ASSUME LineInv, [Next]_vars
  PROVE  Working'
  <1>0. active \in Job /\ (jobs # <<>> => Head(jobs) \in Save) /\ 0 \notin Save
    <2>1. active \in Job /\ jobs \in Seq(Save)
      BY DEF LineInv, TypeOK
    <2>2. jobs # <<>> => Head(jobs) \in Save
      BY <2>1, TailTyped
    <2> QED BY <2>1, <2>2 DEF Save
  <1>1. CASE TakeJob
    BY <1>0, <1>1 DEF TakeJob, WriterAt, Working, LineInv
  <1>2. CASE StartJob \/ Publish \/ Finish \/ Commit
    BY <1>2 DEF StartJob, Publish, Finish, Commit, WriterAt, Working, LineInv, queueVars
  <1>3. CASE Complete
    BY <1>3 DEF Complete, Working
  <1>4. CASE UNCHANGED <<active, writer>>
    BY <1>4 DEF Working, LineInv
  <1> QED BY <1>1, <1>2, <1>3, <1>4, OthersStep DEF WriterStep

LEMMA LineHolds == Spec => []LineInv
  <1>1. LineInv /\ [Next]_vars => LineInv'
    BY RequestsTyped, SavesTyped, CapturesTyped, TurnTyped, ReportTyped, ExitTyped, WriterTyped,
       IoTyped, RestTyped, SubjectStep, WorkingStep DEF LineInv, Next, MainStep
  <1> QED BY InitLine, <1>1, PTL DEF Spec

\* TypeCorrect: every queue and slot of the pipeline always holds known saves.
THEOREM TypeCorrect == Spec => []TypeOK
  BY LineHolds, PTL DEF LineInv
-----------------------------------------------------------------------------
(* The two workers.  While they share a job it is in one of three states:    *)
(* asked for, being prepared or written, and ready.                          *)

Asked == ioRequest = active /\ ioJob = 0 /\ ~IoActive /\ ioReady = 0
Begun == ioRequest = 0 /\ ioJob = active /\ io \in {"prepare", "main_temp"} /\ ioReady = 0
Written == ioRequest = 0 /\ ioJob = active /\ io = "write" /\ ioReady = 0
Ready == ioRequest = 0 /\ ioJob = 0 /\ ~IoActive /\ ioReady = active
Idle  == ioRequest = 0 /\ ioJob = 0 /\ ~IoActive /\ ioReady = 0

\* The buffers of the main part are lent in the first two of them.
HandshakeInv ==
    /\ writer \notin {"publish", "finish"} \/ ~early => Idle /\ ioMainTemp = 0
    /\ writer = "publish" /\ early => (Asked \/ Begun) /\ ioMainTemp = 0
    /\ writer = "finish" /\ early =>
           \/ (Asked \/ Begun) /\ ioMainTemp = active
           \/ (Written \/ Ready) /\ ioMainTemp = 0

LEMMA HandshakeStep ==
  ASSUME LineInv, HandshakeInv, [Next]_vars
  PROVE  HandshakeInv'
  <1> USE DEF HandshakeInv, Asked, Begun, Written, Ready, Idle, IoActive, WriterAt, IoAt
  <1>0. active # 0 <=> writer \notin {"work", "exited"}
    BY DEF LineInv, Working
  <1>1. CASE TakeJob
    BY <1>1 DEF TakeJob, ioVars
  <1>2. CASE StartJob
    BY <1>2 DEF StartJob, queueVars
  <1>3. CASE Publish
    BY <1>0, <1>3 DEF Publish, queueVars
  <1>4. CASE Finish
    BY <1>0, <1>4 DEF Finish, queueVars
  <1>5. CASE Commit
    BY <1>5 DEF Commit, queueVars, ioVars
  <1>6. CASE Complete
    BY <1>6 DEF Complete, ioVars
  <1>7. CASE UNCHANGED <<active, writer, early>> /\ TakeRequest
    BY <1>0, <1>7 DEF TakeRequest
  <1>8. CASE UNCHANGED <<active, writer, early>> /\ Prepare
    BY <1>8 DEF Prepare
  <1>9. CASE UNCHANGED <<active, writer, early>> /\ TakeMainTemp
    BY <1>0, <1>9 DEF TakeMainTemp
  <1>10. CASE UNCHANGED <<active, writer, early>> /\ WriteMainTemp
    BY <1>0, <1>10 DEF WriteMainTemp
  <1>11. CASE UNCHANGED <<active, writer, early, io, ioJob, ioRequest, ioMainTemp, ioReady>>
    BY <1>11
  <1> QED BY <1>1, <1>2, <1>3, <1>4, <1>5, <1>6, <1>7, <1>8, <1>9, <1>10, <1>11, OthersStep
          DEF WriterStep, IoStep

LEMMA HandshakeAlways == Spec => [](LineInv /\ HandshakeInv)
  <1>1. Init => HandshakeInv
    BY DEF Init, HandshakeInv, Idle, IoActive
  <1> QED BY <1>1, LineHolds, HandshakeStep, PTL DEF Spec

\* Handshake: neither VERIFY of AsyncSaveIoWorker can fail, however the two
\* workers interleave and whichever job fails.
THEOREM Handshake == Spec => []HandshakeHolds
  <1>1. LineInv /\ HandshakeInv => HandshakeHolds
    BY DEF LineInv, Working, HandshakeInv, HandshakeHolds, Asked, Begun, Idle, IoActive
  <1> QED BY <1>1, HandshakeAlways, PTL

\* BuffersLive: the I/O thread reads the writer's buffers only while the writer
\* is in the job they belong to and has not collected the result.
THEOREM BuffersLive == Spec => []BorrowedBuffersLive
  <1>1. LineInv /\ HandshakeInv => BorrowedBuffersLive
    BY DEF LineInv, Working, HandshakeInv, BorrowedBuffersLive, Asked, Begun, Written, Ready, Idle, IoActive
  <1> QED BY <1>1, HandshakeAlways, PTL
-----------------------------------------------------------------------------
(* The main thread after a wait.                                             *)

\* Where a wait of a caller other than the frame has found the pipeline drained.
Waited == main \in {"reading", "legacy_capture", "moved", "teardown", "menu"}
            \/ (main = "report" /\ caller # "frame")

Drained == main \in {"save", "legacy_await", "legacy_capture", "await", "hook"}
             \/ (main = "report" /\ caller # "frame")

QuietInv == /\ Waited => jobs = <<>> /\ active = 0
            /\ Drained => captures = <<>>

LEMMA QuietStep ==
  ASSUME LineInv, QuietInv, [Next]_vars
  PROVE  QuietInv'
  <1> USE DEF QuietInv, Waited, Drained, Goto, At
  <1>1. CASE RequestSave \/ StartFrame \/ Drain
    BY <1>1 DEF RequestSave, StartFrame, Drain, queueVars
  <1>2. CASE ProcessRequests \/ FinishSnapshot \/ LeaveCaptures
    BY <1>2 DEF ProcessRequests, FinishSnapshot, LeaveCaptures, Blocked, LeaveRequests, OutOfBudget,
       Budgeted, queueVars
  <1>3. CASE DoSave \/ LegacyCapture
    <2>1. captures = <<>> /\ UNCHANGED <<jobs, active>>
      BY <1>3 DEF DoSave, LegacyCapture, queueVars
    <2>2. CASE \E stage : BeginCapture(stage)
      BY <2>1, <2>2 DEF BeginCapture, SaveReturns, OutOfBudget, Budgeted
    <2>3. CASE RefuseCapture
      BY <2>1, <2>3 DEF RefuseCapture, SaveReturns, TransitionFailed, OutOfBudget, Budgeted
    <2>4. CASE Goto("legacy_await") /\ UNCHANGED captures
      BY <2>1, <2>4
    <2> QED BY <1>3, <2>2, <2>3, <2>4 DEF DoSave, LegacyCapture
  <1>4. CASE LegacyAwait \/ Await
    BY <1>4 DEF LegacyAwait, Await, WaitIdle, WriterIdle, queueVars
  <1>5. CASE AdvanceCapture
    BY <1>5 DEF AdvanceCapture
  <1>6. CASE Turn
    BY <1>6 DEF Turn, Load, ChangeLevel, Stop, NetStop, Teardown, LeaveLevel, ReadSave, NewGame,
       StartWait, queueVars, LineInv, SubjectKnown
  <1>7. CASE Report
    BY <1>7 DEF Report, WaitReturned, TransitionFailed, LineInv, TypeOK, Caller, OthersSteady
  <1>8. CASE StopWriter \/ StopIo \/ JoinIo \/ Exit
    BY <1>8 DEF StopWriter, StopIo, JoinIo, Exit, ExitSteady
  <1>9. CASE TakeJob
    BY <1>9 DEF TakeJob, MainSteady
  <1>10. CASE StartJob \/ Publish \/ Finish \/ Commit \/ Complete
    BY <1>10 DEF StartJob, Publish, Finish, Commit, Complete, MainSteady, queueVars
  <1>11. CASE IoStep
    BY <1>11 DEF IoStep, TakeRequest, Prepare, TakeMainTemp, WriteMainTemp, MainSteady, queueVars
  <1>12. CASE (\E t \in Thread : Spurious(t)) \/ Ended \/ UNCHANGED vars
    BY <1>12 DEF Spurious, Ended, vars, queueVars
  <1> QED BY <1>1, <1>2, <1>3, <1>4, <1>5, <1>6, <1>7, <1>8, <1>9, <1>10, <1>11, <1>12
          DEF Next, MainStep, WriterStep

LEMMA QuietAlways == Spec => [](LineInv /\ QuietInv)
  <1>1. Init => QuietInv
    BY DEF Init, QuietInv, Waited, Drained
  <1> QED BY <1>1, LineHolds, QuietStep, PTL DEF Spec

\* QuietDisk: nobody writes a save while the main thread recovers or reads one,
\* runs the legacy callback or has left the level.
THEOREM QuietDisk == Spec => []DiskIsQuiet
  <1>1. LineInv /\ QuietInv /\ HandshakeInv => DiskIsQuiet
    BY DEF LineInv, Working, QuietInv, Waited, HandshakeInv, Idle, IoActive, DiskIsQuiet
  <1> QED BY <1>1, HandshakeAlways, QuietAlways, PTL

\* OneCapture: save() never finds a capture under way.
THEOREM OneCapture == Spec => []NoConcurrentCapture
  <1>1. QuietInv => NoConcurrentCapture
    BY DEF QuietInv, Drained, NoConcurrentCapture
  <1> QED BY <1>1, QuietAlways, PTL
-----------------------------------------------------------------------------
(* Where a save is: asked for, in the line to the disk, or reported by the   *)
(* writer and not yet told to the player.                                    *)

Captured == {c.id : c \in Range(captures)}
Line == Captured \cup Range(jobs) \cup ({active} \ {0})
Reported == {c.id : c \in Range(completions)}

LEMMA RangeAppend ==
  ASSUME NEW S, NEW q \in Seq(S), NEW x \in S
  PROVE  Range(Append(q, x)) = Range(q) \cup {x}
  <1>1. DOMAIN Append(q, x) = 1..(Len(q) + 1) /\ DOMAIN q = 1..Len(q) /\ Len(q) \in Nat
    BY AppendProperties, LenProperties
  <1>2. \A i \in 1..Len(q) : Append(q, x)[i] = q[i]
    BY AppendProperties
  <1>3. Append(q, x)[Len(q) + 1] = x
    BY AppendProperties
  <1>4. 1..(Len(q) + 1) = (1..Len(q)) \cup {Len(q) + 1}
    BY <1>1
  <1> QED BY <1>1, <1>2, <1>3, <1>4 DEF Range

LEMMA RangeTail ==
  ASSUME NEW S, NEW q \in Seq(S), q # <<>>
  PROVE  Range(q) = {Head(q)} \cup Range(Tail(q))
  <1>1. /\ DOMAIN q = 1..Len(q) /\ Len(q) \in Nat \ {0}
        /\ DOMAIN Tail(q) = 1..(Len(q) - 1) /\ Head(q) = q[1]
    BY HeadTailProperties, LenProperties, EmptySeq
  <1>2. \A i \in 1..(Len(q) - 1) : Tail(q)[i] = q[i + 1]
    BY <1>1, HeadTailProperties
  <1>3. ASSUME NEW y \in Range(q) PROVE y \in {Head(q)} \cup Range(Tail(q))
    <2>1. PICK i \in 1..Len(q) : y = q[i]
      BY <1>1, <1>3 DEF Range
    <2>2. CASE i = 1
      BY <1>1, <2>1, <2>2
    <2>3. CASE i # 1
      <3>1. i - 1 \in 1..(Len(q) - 1) /\ (i - 1) + 1 = i
        BY <1>1, <2>1, <2>3
      <3> QED BY <1>1, <1>2, <2>1, <3>1 DEF Range
    <2> QED BY <2>2, <2>3
  <1>4. ASSUME NEW y \in Range(Tail(q)) PROVE y \in Range(q)
    <2>1. PICK i \in 1..(Len(q) - 1) : y = Tail(q)[i]
      BY <1>1, <1>4 DEF Range
    <2>2. i + 1 \in 1..Len(q)
      BY <1>1, <2>1
    <2> QED BY <1>1, <1>2, <2>1, <2>2 DEF Range
  <1>5. Head(q) \in Range(q)
    BY <1>1 DEF Range
  <1> QED BY <1>3, <1>4, <1>5

LEMMA OneMore ==
  ASSUME NEW A, NEW e
  PROVE  {c.id : c \in A \cup {e}} = {c.id : c \in A} \cup {e.id}
  OBVIOUS

\* A capture that goes to its next stage is the same save.
LEMMA Advanced ==
  ASSUME LineInv, captures # <<>>, captures' = [captures EXCEPT ![1].stage = NextStage[@]]
  PROVE  /\ DOMAIN captures' = DOMAIN captures
         /\ \A i \in DOMAIN captures : captures'[i].id = captures[i].id
  <1>1. captures \in Seq([id : Save, stage : Stage])
    BY DEF LineInv, TypeOK
  <1>2. DOMAIN captures = 1..Len(captures) /\ Len(captures) \in Nat
    BY <1>1, LenProperties
  <1>3. \A i \in DOMAIN captures : captures[i] \in [id : Save, stage : Stage]
    BY <1>1, <1>2, ElementOfSeq
  <1>4. captures' = [captures EXCEPT ![1] = [captures[1] EXCEPT !.stage = NextStage[captures[1].stage]]]
    OBVIOUS
  <1> QED BY <1>2, <1>3, <1>4

LEMMA QueuesAre ==
  ASSUME LineInv
  PROVE  /\ captures \in Seq([id : Save, stage : Stage]) /\ jobs \in Seq(Save)
         /\ completions \in Seq([id : Save, ok : BOOLEAN]) /\ requests \in Seq(Save)
         /\ active \in Save \cup {0} /\ 0 \notin Save
  BY DEF LineInv, TypeOK, Job, Save

\* The steps that leave the line alone.
LEMMA LineAlone ==
  ASSUME [Next]_vars
  PROVE  \/ DoSave \/ LegacyCapture \/ AdvanceCapture \/ TakeJob \/ Complete
         \/ Report /\ UNCHANGED <<captures, jobs, active>>
         \/ UNCHANGED <<captures, jobs, active, completions, failed>>
  <1> USE DEF OthersSteady, ExitSteady, MainSteady, queueVars, writerVars, ioVars
  <1>1. CASE RequestSave \/ StartFrame \/ ProcessRequests \/ FinishSnapshot \/ LeaveCaptures \/ Drain
    BY <1>1 DEF RequestSave, StartFrame, ProcessRequests, FinishSnapshot, LeaveCaptures, Drain
  <1>2. CASE LegacyAwait \/ Await \/ Report \/ Turn
    BY <1>2 DEF LegacyAwait, Await, Report, Turn, WaitIdle
  <1>3. CASE StopWriter \/ StopIo \/ JoinIo \/ Exit
    BY <1>3 DEF StopWriter, StopIo, JoinIo, Exit
  <1>4. CASE IoStep
    BY <1>4 DEF IoStep, TakeRequest, Prepare, TakeMainTemp, WriteMainTemp
  <1>5. CASE StartJob \/ Publish \/ Finish \/ Commit
    BY <1>5 DEF StartJob, Publish, Finish, Commit
  <1>6. CASE (\E t \in Thread : Spurious(t)) \/ Ended \/ UNCHANGED vars
    BY <1>6 DEF Spurious, Ended, vars
  <1> QED BY <1>1, <1>2, <1>3, <1>4, <1>5, <1>6 DEF Next, MainStep, WriterStep

\* save() puts its subject into the line, or refuses it.
LEMMA SaveMoves ==
  ASSUME LineInv, DoSave \/ LegacyCapture
  PROVE  /\ UNCHANGED <<jobs, active, completions>> /\ (failed => failed')
         /\ \/ main' = "legacy_await" /\ UNCHANGED <<captures, requests, snapshotted, caller, auto, made>>
            \/ /\ Captured' = Captured \cup {Subject} /\ Subject \in Save
               /\ SaveReturns(TRUE) /\ UNCHANGED made
            \/ captures' = captures /\ SaveReturns(FALSE) /\ Subject \in Save /\ UNCHANGED made
  <1>1. UNCHANGED <<jobs, active, completions, made>>
    BY DEF DoSave, LegacyCapture, OthersSteady, queueVars
  <1>2. CASE Goto("legacy_await") /\ UNCHANGED <<caller, requests, snapshotted, captures, failed, auto, verdict>>
    BY <1>1, <1>2 DEF Goto
  <1>3. Subject \in Save
    BY SubjectTyped DEF DoSave, LegacyCapture, At
  <1>4. CASE \E stage \in Stage : BeginCapture(stage)
    <2>1. PICK stage \in Stage : BeginCapture(stage)
      BY <1>4
    <2>2. captures' = Append(captures, [id |-> Subject, stage |-> stage]) /\ SaveReturns(TRUE)
      BY <2>1 DEF BeginCapture
    <2>3. [id |-> Subject, stage |-> stage] \in [id : Save, stage : Stage]
      BY <1>3
    <2>4. Range(captures') = Range(captures) \cup {[id |-> Subject, stage |-> stage]}
      <3> DEFINE R == [id : Save, stage : Stage]
      <3> DEFINE e == [id |-> Subject, stage |-> stage]
      <3>1. captures \in Seq(R) /\ e \in R /\ captures' = Append(captures, e)
        BY <2>2, <2>3, QueuesAre
      <3> HIDE DEF R, e
      <3>2. Range(Append(captures, e)) = Range(captures) \cup {e}
        BY <3>1, RangeAppend
      <3>3. Range(captures') = Range(captures) \cup {e}
        BY <3>1, <3>2
      <3> QED BY <3>3 DEF e
    <2>5. Captured' = Captured \cup {Subject}
      <3>1. [id |-> Subject, stage |-> stage].id = Subject
        OBVIOUS
      <3>2. Captured' = {c.id : c \in Range(captures')}
        BY DEF Captured
      <3> QED BY <2>4, <3>1, <3>2, Zenon DEF Captured
    <2>6. failed => failed'
      BY <2>2 DEF SaveReturns
    <2> QED BY <1>1, <1>3, <2>2, <2>5, <2>6
  <1>5. CASE RefuseCapture
    BY <1>1, <1>3, <1>5 DEF RefuseCapture, SaveReturns
  <1>6. "world" \in Stage
    BY DEF Stage
  <1> QED BY <1>2, <1>4, <1>5, <1>6 DEF DoSave, LegacyCapture

\* A slice of the first capture, the last of which hands it to the writer.
LEMMA AdvanceMoves ==
  ASSUME LineInv, AdvanceCapture
  PROVE  /\ UNCHANGED <<active, completions, requests>> /\ Line' \subseteq Line
         /\ failed' \/ (Line' = Line /\ UNCHANGED failed)
  <1>1. captures # <<>> /\ UNCHANGED <<active, completions, requests>>
    BY DEF AdvanceCapture, OthersSteady, requestVars
  <1>2. Range(captures) = {Head(captures)} \cup Range(Tail(captures))
        /\ Head(captures).id \in Save
    <2> DEFINE R == [id : Save, stage : Stage]
    <2>1. captures \in Seq(R)
      BY QueuesAre
    <2> HIDE DEF R
    <2>2. Range(captures) = {Head(captures)} \cup Range(Tail(captures)) /\ Head(captures) \in R
      BY <1>1, <2>1, RangeTail, HeadTailProperties
    <2> QED BY <2>2 DEF R
  <1>3. Captured = {Head(captures).id} \cup {c.id : c \in Range(Tail(captures))}
    BY <1>2 DEF Captured
  <1>4. CASE /\ jobs' = Append(jobs, Head(captures).id) /\ captures' = Tail(captures)
             /\ UNCHANGED failed
    <2>1. Range(jobs') = Range(jobs) \cup {Head(captures).id}
      BY <1>2, <1>4, RangeAppend, QueuesAre
    <2>2. Captured' = {c.id : c \in Range(Tail(captures))}
      BY <1>4 DEF Captured
    <2> QED BY <1>1, <1>3, <1>4, <2>1, <2>2 DEF Line
  <1>5. CASE captures' = [captures EXCEPT ![1].stage = NextStage[@]] /\ UNCHANGED <<jobs, failed>>
    <2>1. /\ DOMAIN captures' = DOMAIN captures
          /\ \A i \in DOMAIN captures : captures'[i].id = captures[i].id
      BY <1>1, <1>5, Advanced
    <2>2. Captured' = {captures'[i].id : i \in DOMAIN captures'}
          /\ Captured = {captures[i].id : i \in DOMAIN captures}
      BY DEF Captured, Range
    <2>3. Captured' = Captured
      BY <2>1, <2>2
    <2> QED BY <1>1, <1>5, <2>3 DEF Line
  <1>6. CASE captures' = Tail(captures) /\ failed' = TRUE /\ UNCHANGED jobs
    <2>1. Captured' = {c.id : c \in Range(Tail(captures))}
      BY <1>6 DEF Captured
    <2> QED BY <1>1, <1>3, <1>6, <2>1 DEF Line
  <1> QED BY <1>4, <1>5, <1>6 DEF AdvanceCapture, FailCapture

\* The writer takes a job, and reports it.
LEMMA TakeMoves ==
  ASSUME LineInv, TakeJob
  PROVE  Line' = Line /\ UNCHANGED <<completions, failed, requests>>
  <1>1. UNCHANGED <<captures, completions, failed, requests>>
    BY DEF TakeJob, MainSteady, requestVars
  <1>2. active = 0
    BY DEF TakeJob, WriterAt, LineInv, Working
  <1>3. CASE jobs # <<>> /\ active' = Head(jobs) /\ jobs' = Tail(jobs)
    <2>1. Range(jobs) = {Head(jobs)} \cup Range(Tail(jobs)) /\ Head(jobs) \in Save
      BY <1>3, RangeTail, QueuesAre, HeadTailProperties
    <2> QED BY <1>1, <1>2, <1>3, <2>1, QueuesAre DEF Line, Captured
  <1>4. CASE UNCHANGED <<active, jobs>>
    BY <1>1, <1>4 DEF Line, Captured
  <1> QED BY <1>1, <1>3, <1>4 DEF TakeJob

LEMMA CompleteMoves ==
  ASSUME LineInv, Complete
  PROVE  /\ Line' \subseteq Line /\ Line = Line' \cup {active}
         /\ Reported' = Reported \cup {active} /\ UNCHANGED <<failed, requests>>
  <1>1. UNCHANGED <<captures, jobs, failed, requests>> /\ active' = 0
    BY DEF Complete, MainSteady, requestVars
  <1>2. active # 0 /\ active \in Save
    BY QueuesAre DEF Complete, LineInv, Working
  <1>3. [id |-> active, ok |-> writer = "done"] \in [id : Save, ok : BOOLEAN]
    BY <1>2
  <1>4. Range(completions') = Range(completions) \cup {[id |-> active, ok |-> writer = "done"]}
    <2> DEFINE R == [id : Save, ok : BOOLEAN]
    <2> DEFINE e == [id |-> active, ok |-> writer = "done"]
    <2>1. completions \in Seq(R) /\ e \in R /\ completions' = Append(completions, e)
      BY <1>3, QueuesAre DEF Complete
    <2> HIDE DEF R, e
    <2>2. Range(Append(completions, e)) = Range(completions) \cup {e}
      BY <2>1, RangeAppend
    <2>3. Range(completions') = Range(completions) \cup {e}
      BY <2>1, <2>2
    <2> QED BY <2>3 DEF e
  <1>5. Reported' = Reported \cup {active}
    <2> DEFINE e == [id |-> active, ok |-> writer = "done"]
    <2>1. e.id = active
      OBVIOUS
    <2>2. Range(completions') = Range(completions) \cup {e}
      BY <1>4
    <2> HIDE DEF e
    <2>3. {c.id : c \in Range(completions')} = {c.id : c \in Range(completions)} \cup {e.id}
      BY <2>2, OneMore
    <2> QED BY <2>1, <2>3 DEF Reported
  <1>6. Captured' = Captured
    BY <1>1 DEF Captured
  <1> QED BY <1>1, <1>2, <1>5, <1>6 DEF Line

\* Nothing leaves the line unless the writer reports it or a flag says it failed.
LEMMA LineStays ==
  ASSUME LineInv, [Next]_vars, NEW s, ~Report, failed \/ s \in Line \/ s \in Reported
  PROVE  failed' \/ s \in Line' \/ s \in Reported'
  <1>1. CASE DoSave \/ LegacyCapture
    BY <1>1, SaveMoves DEF Line, Captured, Reported
  <1>2. CASE AdvanceCapture
    BY <1>2, AdvanceMoves DEF Reported
  <1>3. CASE TakeJob
    BY <1>3, TakeMoves DEF Reported
  <1>4. CASE Complete
    BY <1>4, CompleteMoves
  <1>5. CASE UNCHANGED <<captures, jobs, active, completions, failed>>
    BY <1>5 DEF Line, Captured, Reported
  <1> QED BY <1>1, <1>2, <1>3, <1>4, <1>5, LineAlone
-----------------------------------------------------------------------------
(* A level change and its autosave.                                          *)

Saving == main \in {"save", "legacy_await", "legacy_capture"}
Untaken == Saving /\ ~snapshotted

\* Once the wait is over no request has its snapshot.
NoSnapshot == main \in {"await", "hook"} \/ (main = "report" /\ caller # "frame") => ~snapshotted

\* From save() to the report, the autosave is in the line, reported or failed.
AutoTaken == /\ caller \in {"first", "second"} /\ ~Untaken
             /\ Saving \/ main \in {"requests", "captures", "drain", "await", "report"}

AutoInv == /\ NoSnapshot
           /\ AutoTaken => failed \/ auto \in Line \/ auto \in Reported
           /\ MovedOnDisk

LEMMA NoSnapshotStep ==
  ASSUME LineInv, NoSnapshot, [Next]_vars
  PROVE  NoSnapshot'
  <1> USE DEF NoSnapshot, Goto, At
  <1>1. CASE RequestSave \/ StartFrame \/ ProcessRequests \/ FinishSnapshot \/ LeaveCaptures \/ Drain \/ Exit
    BY <1>1 DEF RequestSave, StartFrame, ProcessRequests, FinishSnapshot, LeaveCaptures, Drain, Exit, ExitSteady,
       LeaveRequests, OutOfBudget, Budgeted, requestVars, LineInv, SubjectKnown
  <1>2. CASE DoSave \/ LegacyCapture
    BY <1>2, SaveMoves DEF SaveReturns, TransitionFailed, OutOfBudget, Budgeted
  <1>3. CASE LegacyAwait \/ Await
    BY <1>3 DEF LegacyAwait, Await, WaitIdle, requestVars
  <1>4. CASE AdvanceCapture
    BY <1>4 DEF AdvanceCapture, requestVars
  <1>5. CASE Turn
    BY <1>5 DEF Turn, Load, ChangeLevel, Stop, NetStop, Teardown, LeaveLevel, ReadSave, NewGame, StartWait
  <1>6. CASE Report
    BY <1>6 DEF Report, WaitReturned, TransitionFailed, LineInv, TypeOK, Caller, requestVars
  <1>7. CASE StopWriter \/ StopIo \/ JoinIo
    BY <1>7 DEF StopWriter, StopIo, JoinIo, ExitSteady, requestVars
  <1>8. CASE WriterStep \/ IoStep
    <2>1. MainSteady
      BY <1>8 DEF WriterStep, TakeJob, StartJob, Publish, Finish, Commit, Complete,
         IoStep, TakeRequest, Prepare, TakeMainTemp, WriteMainTemp
    <2> QED BY <2>1 DEF MainSteady, requestVars
  <1>9. CASE (\E t \in Thread : Spurious(t)) \/ Ended \/ UNCHANGED vars
    BY <1>9 DEF Spurious, Ended, vars, requestVars
  <1> QED BY <1>1, <1>2, <1>3, <1>4, <1>5, <1>6, <1>7, <1>8, <1>9 DEF Next, MainStep

\* The autosave is taken by save() and stays taken until the report.
LEMMA AutoSteady ==
  ASSUME LineInv, NoSnapshot, [Next]_vars, AutoTaken'
  PROVE  \/ AutoTaken /\ auto' = auto /\ ~Report
         \/ (DoSave \/ LegacyCapture) /\ ~snapshotted /\ SaveReturns(TRUE)
  <1> USE DEF AutoTaken, Untaken, Saving, Goto, At
  <1>0. ASSUME Report PROVE FALSE
    <2>1. main = "report" /\ WaitReturned(AllSaved) /\ snapshotted' = snapshotted /\ caller \in Caller
      BY <1>0 DEF Report, requestVars, LineInv, TypeOK
    <2>2. CASE TransitionFailed /\ caller \in {"first", "second"}
      BY <2>1, <2>2 DEF TransitionFailed, NoSnapshot
    <2>3. CASE main' \in {"play", "reading", "hook", "moved", "teardown", "menu"}
      BY <2>3
    <2> QED BY <2>1, <2>2, <2>3 DEF WaitReturned, Caller
  <1>1. CASE RequestSave \/ StartFrame \/ ProcessRequests \/ FinishSnapshot \/ LeaveCaptures \/ Drain \/ Exit
    BY <1>0, <1>1 DEF RequestSave, StartFrame, ProcessRequests, FinishSnapshot, LeaveCaptures, Drain, Exit, ExitSteady,
       LeaveRequests, OutOfBudget, Budgeted, requestVars, levelVars
  <1>2. CASE DoSave \/ LegacyCapture
    <2>1. Saving
      BY <1>0, <1>2 DEF DoSave, LegacyCapture
    <2>2. CASE SaveReturns(TRUE)
      <3>1. CASE snapshotted
        BY <1>0, <2>1, <2>2, <3>1 DEF SaveReturns, OutOfBudget
      <3>2. CASE ~snapshotted
        BY <1>2, <2>2, <3>2
      <3> QED BY <3>1, <3>2
    <2>3. CASE SaveReturns(FALSE)
      <3>1. CASE snapshotted
        BY <1>0, <2>1, <2>3, <3>1 DEF SaveReturns, OutOfBudget
      <3>2. CASE ~snapshotted
        BY <2>1, <2>3, <3>2 DEF SaveReturns, TransitionFailed
      <3> QED BY <3>1, <3>2
    <2>4. CASE main' = "legacy_await" /\ UNCHANGED <<captures, requests, snapshotted, caller, auto, made>>
      BY <1>0, <2>1, <2>4
    <2> QED BY <1>2, <2>2, <2>3, <2>4, SaveMoves
  <1>3. CASE LegacyAwait \/ Await
    BY <1>0, <1>3 DEF LegacyAwait, Await, WaitIdle, requestVars, levelVars
  <1>4. CASE AdvanceCapture
    BY <1>0, <1>4 DEF AdvanceCapture, requestVars, levelVars
  <1>5. CASE Turn
    BY <1>0, <1>5 DEF Turn, Load, ChangeLevel, Stop, NetStop, Teardown, LeaveLevel, ReadSave, NewGame, StartWait, NoSnapshot
  <1>6. CASE StopWriter \/ StopIo \/ JoinIo
    BY <1>0, <1>6 DEF StopWriter, StopIo, JoinIo, ExitSteady, requestVars
  <1>7. CASE WriterStep \/ IoStep
    <2>1. MainSteady
      BY <1>0, <1>7 DEF WriterStep, TakeJob, StartJob, Publish, Finish, Commit, Complete,
         IoStep, TakeRequest, Prepare, TakeMainTemp, WriteMainTemp
    <2> QED BY <1>0, <2>1 DEF MainSteady, requestVars, levelVars
  <1>8. CASE (\E t \in Thread : Spurious(t)) \/ Ended \/ UNCHANGED vars
    BY <1>0, <1>8 DEF Spurious, Ended, vars, requestVars, levelVars
  <1> QED BY <1>0, <1>1, <1>2, <1>3, <1>4, <1>5, <1>6, <1>7, <1>8 DEF Next, MainStep

\* The level changes only by the report of the wait after the autosave.
LEMMA MovedStep ==
  ASSUME LineInv, [Next]_vars, main' = "moved"
  PROVE  \/ main = "moved" /\ UNCHANGED <<verdict, auto>>
         \/ Report /\ caller \in {"first", "second"} /\ AllSaved /\ auto' = auto
  <1> USE DEF Goto, At
  <1>1. CASE RequestSave \/ StartFrame \/ ProcessRequests \/ FinishSnapshot \/ LeaveCaptures \/ Drain \/ Exit
    BY <1>1 DEF RequestSave, StartFrame, ProcessRequests, FinishSnapshot, LeaveCaptures, Drain, Exit,
       LeaveRequests, OutOfBudget, ScriptsRun
  <1>2. CASE DoSave \/ LegacyCapture
    BY <1>2, SaveMoves DEF SaveReturns, TransitionFailed, OutOfBudget
  <1>3. CASE LegacyAwait \/ Await
    BY <1>3 DEF LegacyAwait, Await, WaitIdle
  <1>4. CASE AdvanceCapture
    BY <1>4 DEF AdvanceCapture
  <1>5. CASE Turn
    BY <1>5 DEF Turn, Load, ChangeLevel, Stop, NetStop, Teardown, LeaveLevel, ReadSave, NewGame, StartWait
  <1>6. CASE Report
    BY <1>6 DEF Report, WaitReturned, TransitionFailed, LineInv, TypeOK, Caller
  <1>7. CASE StopWriter \/ StopIo \/ JoinIo
    BY <1>7 DEF StopWriter, StopIo, JoinIo
  <1>8. CASE WriterStep \/ IoStep
    <2>1. MainSteady
      BY <1>8 DEF WriterStep, TakeJob, StartJob, Publish, Finish, Commit, Complete,
         IoStep, TakeRequest, Prepare, TakeMainTemp, WriteMainTemp
    <2> QED BY <2>1 DEF MainSteady, levelVars
  <1>9. CASE (\E t \in Thread : Spurious(t)) \/ Ended \/ UNCHANGED vars
    BY <1>9 DEF Spurious, Ended, vars, levelVars
  <1> QED BY <1>1, <1>2, <1>3, <1>4, <1>5, <1>6, <1>7, <1>8, <1>9 DEF Next, MainStep

LEMMA AutoStep ==
  ASSUME LineInv, QuietInv, AutoInv, [Next]_vars
  PROVE  AutoInv'
  <1>1. NoSnapshot'
    BY NoSnapshotStep DEF AutoInv
  <1>2. ASSUME AutoTaken' PROVE failed' \/ auto' \in Line' \/ auto' \in Reported'
    <2>1. CASE AutoTaken /\ auto' = auto /\ ~Report
      <3>1. PICK a : a = auto
        OBVIOUS
      <3>2. failed' \/ a \in Line' \/ a \in Reported'
        BY <2>1, <3>1, LineStays DEF AutoInv
      <3> QED BY <2>1, <3>1, <3>2
    <2>2. CASE (DoSave \/ LegacyCapture) /\ ~snapshotted /\ SaveReturns(TRUE)
      <3>1. auto' = auto /\ Subject = auto /\ main' = "drain"
        BY <2>2 DEF SaveReturns, Subject, Goto
      <3>2. Captured' = Captured \cup {Subject}
        <4>1. ~SaveReturns(FALSE)
          BY <2>2, <3>1 DEF SaveReturns, TransitionFailed, Goto
        <4> QED BY <2>2, <3>1, <4>1, SaveMoves
      <3> QED BY <3>1, <3>2 DEF Line
    <2> QED BY <1>2, <2>1, <2>2, AutoSteady DEF AutoInv
  <1>3. ASSUME main' = "moved" PROVE verdict'[auto'] = "done"
    <2>1. CASE main = "moved" /\ UNCHANGED <<verdict, auto>>
      BY <2>1 DEF AutoInv, MovedOnDisk
    <2>2. CASE Report /\ caller \in {"first", "second"} /\ AllSaved /\ auto' = auto
      <3>1. main = "report" /\ caller # "frame" /\ AutoTaken
        BY <2>2 DEF Report, At, AutoTaken, Untaken, Saving
      <3>2. captures = <<>> /\ jobs = <<>> /\ active = 0
        BY <3>1 DEF QuietInv, Waited, Drained
      <3>3. auto \notin Line
        BY <3>2 DEF Line, Captured, Range
      <3>4. auto \in Reported
        BY <2>2, <3>1, <3>3 DEF AutoInv, AllSaved
      <3>5. PICK i \in DOMAIN completions : completions[i].id = auto
        BY <3>4 DEF Reported, Range
      <3>6. completions[i] \in [id : Save, ok : BOOLEAN] /\ completions[i].ok
        <4>1. DOMAIN completions = 1..Len(completions)
          BY QueuesAre, LenProperties
        <4> QED BY <2>2, <3>5, <4>1, QueuesAre, ElementOfSeq DEF AllSaved
      <3>7. completions[i] = [id |-> auto, ok |-> TRUE]
        BY <3>5, <3>6
      <3>8. Outcome(auto) = "done" /\ auto \in Save
        BY <3>5, <3>6, <3>7 DEF Outcome
      <3> QED BY <2>2, <3>8 DEF Report
    <2> QED BY <1>3, <2>1, <2>2, MovedStep
  <1> QED BY <1>1, <1>2, <1>3 DEF AutoInv, MovedOnDisk

\* Moved: the level is left only with its autosave on the disk and reported.
THEOREM Moved == Spec => []MovedOnDisk
  <1>1. Init => AutoInv
    BY DEF Init, AutoInv, NoSnapshot, AutoTaken, MovedOnDisk
  <1>2. AutoInv => MovedOnDisk
    BY DEF AutoInv
  <1> QED BY <1>1, <1>2, QuietAlways, AutoStep, PTL DEF Spec
-----------------------------------------------------------------------------
(* The order of the snapshots.  Every save has one number for its whole way  *)
(* through the pipeline: what is asked for, what is in the line and what is  *)
(* kept for the autosave of a level change are different numbers.            *)

\* The numbers of the autosave and of its second try that save() has not begun.
Reserved == (IF caller = "leave" \/ (caller \in {"first", "second"} /\ Untaken) THEN {auto} ELSE {})
            \cup (IF caller \in {"leave", "first"} THEN {auto + 1} ELSE {})

Rising == \A i, j \in 1..Len(requests) : i < j => requests[i] < requests[j]

Numbers == /\ Rising
           /\ \A s \in Range(requests) \cup Line \cup Reserved : s <= made
           /\ Line \cap Range(requests) = {}
           /\ Reserved \cap (Line \cup Range(requests)) = {}

LEMMA InitNumbers == Init => Numbers
  <1> SUFFICES ASSUME Init PROVE Numbers
    OBVIOUS
  <1>1. requests = <<>> /\ Range(requests) = {} /\ Captured = {} /\ Range(jobs) = {}
    BY DEF Init, Range, Captured
  <1>2. Line = {} /\ Reserved = {}
    BY <1>1 DEF Init, Line, Reserved
  <1> QED BY <1>1, <1>2 DEF Numbers, Rising

LEMMA NumbersAre ==
  ASSUME LineInv
  PROVE  /\ made \in Nat /\ made \in 0..MaxSaves /\ auto \in Nat
         /\ Range(requests) \subseteq Save /\ Line \subseteq Save /\ Save \subseteq Nat
         /\ Reserved \subseteq Nat
  <1>1. made \in Nat /\ made \in 0..MaxSaves /\ auto \in Nat /\ Save \subseteq Nat
    BY SavePipelineAssumption DEF LineInv, TypeOK, Job, Save
  <1>2. Range(requests) \subseteq Save /\ Range(jobs) \subseteq Save
    BY QueuesAre, RangeOfSeq
  <1>3. Range(captures) \subseteq [id : Save, stage : Stage]
    <2> DEFINE R == [id : Save, stage : Stage]
    <2>1. captures \in Seq(R)
      BY QueuesAre
    <2> HIDE DEF R
    <2>2. Range(captures) \subseteq R
      BY <2>1, RangeOfSeq
    <2> QED BY <2>2 DEF R
  <1>4. Captured \subseteq Save
    BY <1>3 DEF Captured
  <1>5. Line \subseteq Save
    BY <1>2, <1>4, QueuesAre DEF Line
  <1> QED BY <1>1, <1>2, <1>5 DEF Reserved

\* The numbers kept for a level change are given out by it and used in order.
LEMMA ReservedStep ==
  ASSUME LineInv, [Next]_vars
  PROVE  \/ Turn /\ ChangeLevel
         \/ Reserved' \subseteq Reserved
  <1> USE DEF Reserved, Untaken, Saving, Goto, At
  <1>1. CASE RequestSave \/ StartFrame \/ ProcessRequests \/ FinishSnapshot \/ LeaveCaptures \/ Drain \/ Exit
    BY <1>1 DEF RequestSave, StartFrame, ProcessRequests, FinishSnapshot, LeaveCaptures, Drain, Exit, ExitSteady,
       LeaveRequests, OutOfBudget, Budgeted, requestVars, levelVars
  <1>2. CASE DoSave \/ LegacyCapture
    <2>1. Saving /\ auto \in Nat
      BY <1>2, NumbersAre DEF DoSave, LegacyCapture
    <2>2. CASE \E ok \in BOOLEAN : SaveReturns(ok)
      <3>1. CASE snapshotted
        BY <2>1, <2>2, <3>1 DEF SaveReturns, OutOfBudget
      <3>2. CASE ~snapshotted
        BY <2>1, <2>2, <3>2 DEF SaveReturns, TransitionFailed
      <3> QED BY <3>1, <3>2
    <2>3. CASE main' = "legacy_await" /\ UNCHANGED <<captures, requests, snapshotted, caller, auto, made>>
      BY <2>1, <2>3
    <2> QED BY <1>2, <2>2, <2>3, SaveMoves
  <1>3. CASE LegacyAwait \/ Await
    BY <1>3 DEF LegacyAwait, Await, WaitIdle, requestVars, levelVars
  <1>4. CASE AdvanceCapture
    BY <1>4 DEF AdvanceCapture, requestVars, levelVars
  <1>5. CASE Turn /\ ~ChangeLevel
    BY <1>5 DEF Turn, Load, Stop, NetStop, Teardown, LeaveLevel, ReadSave, NewGame, StartWait, levelVars,
       LineInv, SubjectKnown
  <1>6. CASE Report
    <2>1. /\ main = "report" /\ WaitReturned(AllSaved) /\ snapshotted' = snapshotted
          /\ caller \in Caller /\ auto \in Nat
      BY <1>6, NumbersAre DEF Report, requestVars, LineInv, TypeOK
    <2>2. CASE TransitionFailed /\ caller \in {"first", "second"}
      BY <2>1, <2>2 DEF TransitionFailed
    <2>3. CASE main' \in {"play", "reading", "hook", "moved", "teardown", "menu"} /\ UNCHANGED <<caller, auto>>
      BY <2>1, <2>3
    <2> QED BY <2>1, <2>2, <2>3 DEF WaitReturned, Caller
  <1>7. CASE StopWriter \/ StopIo \/ JoinIo
    BY <1>7 DEF StopWriter, StopIo, JoinIo, ExitSteady, requestVars, levelVars
  <1>8. CASE WriterStep \/ IoStep
    <2>1. MainSteady
      BY <1>8 DEF WriterStep, TakeJob, StartJob, Publish, Finish, Commit, Complete,
         IoStep, TakeRequest, Prepare, TakeMainTemp, WriteMainTemp
    <2> QED BY <2>1 DEF MainSteady, requestVars, levelVars
  <1>9. CASE (\E t \in Thread : Spurious(t)) \/ Ended \/ UNCHANGED vars
    BY <1>9 DEF Spurious, Ended, vars, requestVars, levelVars
  <1> QED BY <1>1, <1>2, <1>3, <1>4, <1>5, <1>6, <1>7, <1>8, <1>9 DEF Next, MainStep

\* Who asks for a save, and who takes a request.
LEMMA RequestsStep ==
  ASSUME [Next]_vars
  PROVE  \/ RequestSave \/ (Turn /\ ChangeLevel) \/ DoSave \/ LegacyCapture
         \/ UNCHANGED <<requests, made>>
  <1> USE DEF requestVars, ExitSteady, MainSteady
  <1>1. CASE StartFrame \/ ProcessRequests \/ FinishSnapshot \/ LeaveCaptures \/ Drain \/ Exit
    BY <1>1 DEF StartFrame, ProcessRequests, FinishSnapshot, LeaveCaptures, Drain, Exit
  <1>2. CASE LegacyAwait \/ Await \/ AdvanceCapture \/ Report
    BY <1>2 DEF LegacyAwait, Await, WaitIdle, AdvanceCapture, Report
  <1>3. CASE Turn /\ ~ChangeLevel
    BY <1>3 DEF Turn, Load, Stop, NetStop, Teardown, LeaveLevel, ReadSave, NewGame
  <1>4. CASE StopWriter \/ StopIo \/ JoinIo
    BY <1>4 DEF StopWriter, StopIo, JoinIo
  <1>5. CASE WriterStep \/ IoStep
    BY <1>5 DEF WriterStep, TakeJob, StartJob, Publish, Finish, Commit, Complete,
       IoStep, TakeRequest, Prepare, TakeMainTemp, WriteMainTemp
  <1>6. CASE (\E t \in Thread : Spurious(t)) \/ Ended \/ UNCHANGED vars
    BY <1>6 DEF Spurious, Ended, vars
  <1> QED BY <1>1, <1>2, <1>3, <1>4, <1>5, <1>6 DEF Next, MainStep

\* The line grows by save() only.
LEMMA LineGrows ==
  ASSUME LineInv, [Next]_vars, ~DoSave, ~LegacyCapture
  PROVE  Line' \subseteq Line
  <1>1. CASE UNCHANGED <<captures, jobs, active>>
    BY <1>1 DEF Line, Captured
  <1> QED BY <1>1, AdvanceMoves, TakeMoves, CompleteMoves, LineAlone

LEMMA TailRises ==
  ASSUME LineInv, Rising, requests # <<>>
  PROVE  /\ \A i, j \in 1..Len(Tail(requests)) : i < j => Tail(requests)[i] < Tail(requests)[j]
         /\ Head(requests) \notin Range(Tail(requests))
         /\ Range(requests) = {Head(requests)} \cup Range(Tail(requests))
  <1>1. requests \in Seq(Save) /\ Save \subseteq Nat
    BY QueuesAre, NumbersAre
  <1>2. /\ Len(requests) \in Nat \ {0} /\ Len(Tail(requests)) = Len(requests) - 1
        /\ \A i \in 1..Len(Tail(requests)) : Tail(requests)[i] = requests[i + 1]
        /\ Head(requests) = requests[1] /\ requests[1] \in Nat
        /\ DOMAIN Tail(requests) = 1..Len(Tail(requests))
    <2>1. Tail(requests) \in Seq(Save) /\ Head(requests) \in Save /\ Head(requests) = requests[1]
      BY <1>1, HeadTailProperties
    <2> QED BY <1>1, <2>1, HeadTailProperties, EmptySeq, LenProperties
  <1>3. \A i \in 1..Len(Tail(requests)) : i + 1 \in 1..Len(requests) /\ 1 < i + 1
    BY <1>2
  <1>4. \A i, j \in 1..Len(Tail(requests)) : i < j => Tail(requests)[i] < Tail(requests)[j]
    BY <1>2, <1>3 DEF Rising
  <1>5. \A i \in 1..Len(Tail(requests)) : requests[1] < Tail(requests)[i]
    BY <1>2, <1>3 DEF Rising
  <1>6. Head(requests) \notin Range(Tail(requests))
    BY <1>2, <1>5 DEF Range
  <1> QED BY <1>1, <1>4, <1>6, RangeTail

LEMMA NumbersStep ==
  ASSUME LineInv, Numbers, [Next]_vars
  PROVE  Numbers'
  <1>0. /\ made \in Nat /\ Range(requests) \subseteq Nat /\ Line \subseteq Nat /\ Reserved \subseteq Nat
        /\ auto \in Nat
    BY NumbersAre
  <1>a. \A s \in Range(requests) \cup Line \cup Reserved : s \in Nat /\ s <= made /\ s < made + 1 /\ s <= made + 2
    <2>1. \A s \in Range(requests) \cup Line \cup Reserved : s <= made /\ s \in Nat
      BY <1>0 DEF Numbers
    <2> QED BY <1>0, <2>1
  <1>b. made + 1 \notin Range(requests) \cup Line \cup Reserved /\ made + 2 \notin Range(requests) \cup Line \cup Reserved
    BY <1>0, <1>a
  <1>1. CASE RequestSave
    <2>1. made + 1 \in Save /\ made' = made + 1 /\ requests' = Append(requests, made + 1)
      BY <1>1, SavePipelineAssumption, NumbersAre DEF RequestSave, Save
    <2>2. Range(requests') = Range(requests) \cup {made + 1}
      BY <2>1, QueuesAre, RangeAppend
    <2>3. Line' = Line
      BY <1>1 DEF RequestSave, queueVars, OthersSteady, Line, Captured
    <2>4. Reserved' = Reserved
      BY <1>1 DEF RequestSave, levelVars, Reserved, Untaken, Saving
    <2>5. Rising'
      <3>1. /\ Len(requests') = Len(requests) + 1 /\ Len(requests) \in Nat
            /\ \A i \in 1..Len(requests) : requests'[i] = requests[i]
            /\ requests'[Len(requests) + 1] = made + 1
        BY <2>1, QueuesAre, AppendProperties, LenProperties
      <3>2. \A i \in 1..Len(requests) : requests[i] \in Nat /\ requests[i] <= made
        <4>1. DOMAIN requests = 1..Len(requests)
          BY QueuesAre, LenProperties
        <4> QED BY <1>0, <4>1 DEF Numbers, Range
      <3>3. SUFFICES ASSUME NEW i \in 1..Len(requests'), NEW j \in 1..Len(requests'), i < j
                     PROVE  requests'[i] < requests'[j]
        BY DEF Rising
      <3>4. i \in 1..Len(requests)
        BY <3>1, <3>3
      <3>5. CASE j \in 1..Len(requests)
        BY <3>1, <3>3, <3>4, <3>5 DEF Numbers, Rising
      <3>6. CASE j = Len(requests) + 1
        BY <1>0, <3>1, <3>2, <3>4, <3>6
      <3> QED BY <3>1, <3>5, <3>6
    <2>6. \A s \in Range(requests') \cup Line' \cup Reserved' : s <= made'
      <3>1. \A s \in Range(requests) \cup Line \cup Reserved \cup {made + 1} : s <= made + 1
        BY <1>0, <1>a
      <3> QED BY <2>1, <2>2, <2>3, <2>4, <3>1
    <2> QED BY <1>b, <2>2, <2>3, <2>4, <2>5, <2>6 DEF Numbers
  <1>2. CASE Turn /\ ChangeLevel
    <2>1. made' = made + 2 /\ auto' = made + 1 /\ requests' = requests
      BY <1>2 DEF Turn, ChangeLevel
    <2>2. Line' = Line
      BY <1>2 DEF Turn, queueVars, OthersSteady, Line, Captured
    <2>3. Reserved' \subseteq {made + 1, made + 2}
      <3>1. Reserved' \subseteq {auto', auto' + 1}
        BY DEF Reserved
      <3>2. auto' + 1 = made + 2
        BY <1>0, <2>1
      <3> QED BY <2>1, <3>1, <3>2
    <2>4. \A s \in Range(requests') \cup Line' \cup Reserved' : s <= made'
      <3>1. \A s \in Range(requests) \cup Line \cup {made + 1, made + 2} : s <= made + 2
        BY <1>0, <1>a
      <3> QED BY <2>1, <2>2, <2>3, <3>1
    <2>5. Reserved' \cap (Line \cup Range(requests)) = {}
      BY <1>b, <2>3
    <2> QED BY <2>1, <2>2, <2>4, <2>5 DEF Numbers, Rising
  <1>3. CASE (DoSave \/ LegacyCapture) /\ SaveReturns(TRUE) /\ Captured' = Captured \cup {Subject} /\ made' = made
    <2>0. At("save") \/ At("legacy_capture")
      BY <1>3 DEF DoSave, LegacyCapture
    <2>1. Line' = Line \cup {Subject}
      BY <1>3, SaveMoves DEF Line
    <2>2. CASE snapshotted
      <3>1. requests # <<>> /\ requests' = Tail(requests) /\ Subject = Head(requests)
        BY <1>3, <2>2 DEF SaveReturns, Subject, LineInv, SubjectKnown
      <3>2. Reserved' \subseteq Reserved
        BY <2>0, <1>3, <2>2 DEF SaveReturns, OutOfBudget, Goto, Reserved, Untaken, Saving
      <3> QED BY <1>3, <2>1, <3>1, <3>2, TailRises DEF Numbers, Rising
    <2>3. CASE ~snapshotted
      <3>1. requests' = requests /\ Subject = auto /\ auto' = auto /\ caller' = caller /\ main' = "drain"
            /\ caller \in {"first", "second"} /\ Untaken
        BY <2>0, <1>3, <2>3 DEF SaveReturns, Subject, LineInv, SubjectKnown, Goto, At, Untaken, Saving
      <3>2. auto \in Reserved /\ Reserved' \subseteq Reserved /\ auto \notin Reserved'
        BY <1>0, <3>1 DEF Reserved, Untaken, Saving
      <3> QED BY <1>3, <2>1, <3>1, <3>2 DEF Numbers, Rising
    <2> QED BY <2>2, <2>3
  <1>4. CASE (DoSave \/ LegacyCapture) /\ captures' = captures /\ SaveReturns(FALSE) /\ made' = made
    <2>1. Line' = Line /\ Reserved' \subseteq Reserved
      <3>1. ~ChangeLevel
        BY <1>4 DEF DoSave, LegacyCapture, ChangeLevel, At
      <3> QED BY <1>4, <3>1, SaveMoves, ReservedStep DEF Line, Captured
    <2>2. CASE snapshotted
      <3>1. requests # <<>> /\ requests' = Tail(requests)
        BY <1>4, <2>2 DEF SaveReturns, LineInv, SubjectKnown
      <3> QED BY <1>4, <2>1, <3>1, TailRises DEF Numbers, Rising
    <2>3. CASE ~snapshotted
      <3>1. requests' = requests
        BY <1>4, <2>3 DEF SaveReturns
      <3> QED BY <1>4, <2>1, <3>1 DEF Numbers, Rising
    <2> QED BY <2>2, <2>3
  <1>5. CASE UNCHANGED <<requests, made>> /\ Line' \subseteq Line /\ Reserved' \subseteq Reserved
    BY <1>5 DEF Numbers, Rising
  <1>6. CASE DoSave \/ LegacyCapture
    <2>1. CASE main' = "legacy_await" /\ UNCHANGED <<captures, requests, snapshotted, caller, auto, made>>
      <3>1. ~ChangeLevel
        BY <1>6 DEF DoSave, LegacyCapture, ChangeLevel, At
      <3> QED BY <1>5, <1>6, <2>1, <3>1, SaveMoves, ReservedStep DEF Line, Captured
    <2> QED BY <1>3, <1>4, <1>6, <2>1, SaveMoves
  <1> QED BY <1>1, <1>2, <1>5, <1>6, RequestsStep, ReservedStep, LineGrows

LEMMA NumbersAlways == Spec => [](LineInv /\ QuietInv /\ Numbers)
  BY InitNumbers, NumbersStep, QuietAlways, PTL DEF Spec
-----------------------------------------------------------------------------
(* The line as a sequence: the job being written until its commit, the jobs  *)
(* behind it, the captures behind those.                                     *)

Uncommitted == IF active # 0 /\ writer # "done" /\ writer # "failed" THEN <<active>> ELSE <<>>
Ids(q) == [i \in DOMAIN q |-> q[i].id]

LEMMA WaitingIs ==
  /\ Waiting = (Uncommitted \o jobs) \o Ids(captures)
  /\ Waiting' = (Uncommitted' \o jobs') \o Ids(captures')
  BY DEF Waiting, Uncommitted, Ids

LEMMA IdsOf ==
  ASSUME NEW q \in Seq([id : Save, stage : Stage])
  PROVE  /\ Ids(q) \in Seq(Save) /\ Len(Ids(q)) = Len(q)
         /\ \A i \in 1..Len(q) : Ids(q)[i] = q[i].id
  <1>1. DOMAIN q = 1..Len(q) /\ Len(q) \in Nat
    BY LenProperties
  <1>2. \A i \in 1..Len(q) : q[i] \in [id : Save, stage : Stage]
    BY ElementOfSeq
  <1>3. Ids(q) = [i \in 1..Len(q) |-> q[i].id]
    BY <1>1 DEF Ids
  <1>4. Ids(q) \in Seq(Save)
    BY <1>1, <1>2, <1>3
  <1>5. Len(Ids(q)) = Len(q)
    BY <1>1, <1>3, <1>4, LenProperties
  <1> QED BY <1>3, <1>4, <1>5

LEMMA IdsAppend ==
  ASSUME NEW q \in Seq([id : Save, stage : Stage]), NEW e \in [id : Save, stage : Stage]
  PROVE  Ids(Append(q, e)) = Append(Ids(q), e.id)
  <1> DEFINE R == [id : Save, stage : Stage]
  <1>1. q \in Seq(R) /\ e \in R /\ e.id \in Save
    OBVIOUS
  <1>2. /\ Ids(q) \in Seq(Save) /\ Len(Ids(q)) = Len(q) /\ Len(q) \in Nat
        /\ \A i \in 1..Len(q) : Ids(q)[i] = q[i].id
    BY IdsOf, LenProperties
  <1>3. Append(q, e) \in Seq(R)
    <2> HIDE DEF R
    <2> QED BY <1>1, AppendProperties
  <1>4. /\ Ids(Append(q, e)) \in Seq(Save) /\ Len(Ids(Append(q, e))) = Len(Append(q, e))
        /\ \A i \in 1..Len(Append(q, e)) : Ids(Append(q, e))[i] = Append(q, e)[i].id
    BY <1>3, IdsOf
  <1>5. /\ Len(Append(q, e)) = Len(q) + 1 /\ Append(q, e)[Len(q) + 1] = e
        /\ \A i \in 1..Len(q) : Append(q, e)[i] = q[i]
    <2> HIDE DEF R
    <2> QED BY <1>1, AppendProperties
  <1>6. /\ Append(Ids(q), e.id) \in Seq(Save) /\ Len(Append(Ids(q), e.id)) = Len(q) + 1
        /\ Append(Ids(q), e.id)[Len(q) + 1] = e.id
        /\ \A i \in 1..Len(q) : Append(Ids(q), e.id)[i] = Ids(q)[i]
    BY <1>1, <1>2, AppendProperties
  <1>7. ASSUME NEW i \in 1..(Len(q) + 1) PROVE Ids(Append(q, e))[i] = Append(Ids(q), e.id)[i]
    <2>1. CASE i \in 1..Len(q)
      BY <1>2, <1>4, <1>5, <1>6, <2>1
    <2>2. CASE i = Len(q) + 1
      BY <1>4, <1>5, <1>6, <2>2
    <2> QED BY <1>2, <1>7, <2>1, <2>2
  <1> QED BY <1>4, <1>5, <1>6, <1>7, SeqEqual

LEMMA HeadAgain ==
  ASSUME NEW S, NEW q \in Seq(S), q # <<>>
  PROVE  q = <<Head(q)>> \o Tail(q)
  <1>1. Len(q) \in Nat \ {0} /\ Head(q) = q[1]
    BY EmptySeq
  <1>2. SubSeq(q, 1, Len(q)) = <<q[1]>> \o SubSeq(q, 2, Len(q))
    <2>1. 1 \in 1..Len(q) /\ Len(q) \in 1..Len(q) /\ 1 + 1 = 2
      BY <1>1
    <2>2. SubSeq(q, 1, Len(q)) = <<q[1]>> \o SubSeq(q, 1 + 1, Len(q))
      BY <2>1, SubSeqRecursiveFirst
    <2> QED BY <2>1, <2>2
  <1> QED BY <1>1, <1>2, SubSeqFull, TailIsSubSeq

LEMMA IdsTail ==
  ASSUME NEW q \in Seq([id : Save, stage : Stage]), q # <<>>
  PROVE  /\ Head(q).id \in Save /\ Ids(Tail(q)) \in Seq(Save)
         /\ Ids(q) = <<Head(q).id>> \o Ids(Tail(q))
  <1> DEFINE R == [id : Save, stage : Stage]
  <1>1. q \in Seq(R)
    OBVIOUS
  <1>2. Head(q) \in R /\ Tail(q) \in Seq(R) /\ Head(q) = q[1]
    <2> HIDE DEF R
    <2> QED BY <1>1, HeadTailProperties
  <1>3. /\ Len(q) \in Nat \ {0} /\ Len(Tail(q)) = Len(q) - 1
        /\ \A i \in 1..Len(Tail(q)) : Tail(q)[i] = q[i + 1]
    <2> HIDE DEF R
    <2> QED BY <1>1, HeadTailProperties, EmptySeq
  <1>4. /\ Ids(q) \in Seq(Save) /\ Len(Ids(q)) = Len(q)
        /\ \A i \in 1..Len(q) : Ids(q)[i] = q[i].id
    BY IdsOf
  <1>5. /\ Ids(Tail(q)) \in Seq(Save) /\ Len(Ids(Tail(q))) = Len(q) - 1
        /\ \A i \in 1..(Len(q) - 1) : Ids(Tail(q))[i] = q[i + 1].id
    <2>1. PICK r \in Seq([id : Save, stage : Stage]) : r = Tail(q)
      BY <1>2
    <2>2. /\ Ids(r) \in Seq(Save) /\ Len(Ids(r)) = Len(r)
          /\ \A i \in 1..Len(r) : Ids(r)[i] = r[i].id
      BY IdsOf
    <2> QED BY <1>3, <2>1, <2>2
  <1>6. Ids(q) # <<>> /\ Head(Ids(q)) = Head(q).id
    <2>1. Ids(q) # <<>>
      BY <1>3, <1>4, EmptySeq
    <2>2. Head(Ids(q)) = Ids(q)[1] /\ 1 \in 1..Len(q)
      BY <1>3
    <2> QED BY <1>2, <1>4, <2>1, <2>2
  <1>7. Tail(Ids(q)) = Ids(Tail(q))
    <2>1. /\ Tail(Ids(q)) \in Seq(Save) /\ Len(Tail(Ids(q))) = Len(q) - 1
          /\ \A i \in 1..(Len(q) - 1) : Tail(Ids(q))[i] = Ids(q)[i + 1]
      BY <1>4, <1>6, HeadTailProperties
    <2>2. \A i \in 1..(Len(q) - 1) : i + 1 \in 1..Len(q)
      BY <1>3
    <2>3. \A i \in 1..(Len(q) - 1) : Tail(Ids(q))[i] = Ids(Tail(q))[i]
      BY <1>4, <1>5, <2>1, <2>2
    <2> QED BY <1>5, <2>1, <2>3, SeqEqual
  <1>8. Ids(q) = <<Head(Ids(q))>> \o Tail(Ids(q))
    <2> HIDE DEF R
    <2>1. \A z \in Seq(Save) : z # <<>> => z = <<Head(z)>> \o Tail(z)
      BY HeadAgain
    <2> QED BY <1>4, <1>6, <2>1
  <1> QED BY <1>2, <1>5, <1>6, <1>7, <1>8

LEMMA PartsAre ==
  ASSUME LineInv
  PROVE  /\ Uncommitted \in Seq(Save) /\ jobs \in Seq(Save) /\ Ids(captures) \in Seq(Save)
         /\ captures \in Seq([id : Save, stage : Stage])
  <1>1. Uncommitted \in Seq(Save) /\ jobs \in Seq(Save)
    BY QueuesAre DEF Uncommitted
  <1>2. captures \in Seq([id : Save, stage : Stage])
    BY QueuesAre
  <1> QED BY <1>1, <1>2, IdsOf

LEMMA AppendAfter ==
  ASSUME NEW S, NEW q \in Seq(S), NEW r \in Seq(S), NEW x \in S
  PROVE  q \o Append(r, x) = Append(q \o r, x)
  <1>1. <<x>> \in Seq(S) /\ q \o r \in Seq(S)
    BY ConcatProperties
  <1>2. Append(r, x) = r \o <<x>> /\ Append(q \o r, x) = (q \o r) \o <<x>>
    BY <1>1, AppendIsConcat
  <1> QED BY <1>1, <1>2, ConcatAssociative

\* What is behind q is left when the element after q goes.
LEMMA RemoveAfter ==
  ASSUME NEW S, NEW q \in Seq(S), NEW x \in S, NEW r \in Seq(S)
  PROVE  /\ Len(q) + 1 \in DOMAIN (q \o (<<x>> \o r))
         /\ RemoveAt(q \o (<<x>> \o r), Len(q) + 1) = q \o r
  <1> DEFINE t == <<x>> \o r
  <1> DEFINE w == q \o t
  <1>1. /\ <<x>> \in Seq(S) /\ Len(<<x>>) = 1 /\ Len(q) \in Nat /\ Len(r) \in Nat
        /\ DOMAIN q = 1..Len(q)
    BY LenProperties
  <1>2. /\ t \in Seq(S) /\ Len(t) = 1 + Len(r)
        /\ \A i \in 1..(1 + Len(r)) : t[i] = IF i <= 1 THEN <<x>>[i] ELSE r[i - 1]
    BY <1>1, ConcatProperties
  <1> HIDE DEF t
  <1>3. /\ w \in Seq(S) /\ Len(w) = Len(q) + Len(t)
        /\ \A i \in 1..(Len(q) + Len(t)) : w[i] = IF i <= Len(q) THEN q[i] ELSE t[i - Len(q)]
    BY <1>2, ConcatProperties
  <1>4. DOMAIN w = 1..Len(w)
    BY <1>3, LenProperties
  <1> HIDE DEF w
  <1>5. Len(q) + 1 \in DOMAIN w
    BY <1>1, <1>2, <1>3, <1>4
  <1> DEFINE a == SubSeq(w, 1, Len(q))
  <1> DEFINE b == SubSeq(w, Len(q) + 2, Len(w))
  <1>6. a \in Seq(S) /\ Len(a) = Len(q) /\ \A i \in 1..Len(q) : a[i] = w[i]
    <2>1. \A i \in 1..Len(q) : w[i] \in S
      BY <1>1, <1>2, <1>3, ElementOfSeq
    <2>2. /\ a \in Seq(S) /\ Len(a) = IF 1 <= Len(q) THEN Len(q) - 1 + 1 ELSE 0
          /\ \A i \in 1..(Len(q) - 1 + 1) : a[i] = w[1 + i - 1]
      BY <1>1, <2>1, SubSeqProperties
    <2> HIDE DEF a
    <2> QED BY <1>1, <2>2
  <1>7. b \in Seq(S) /\ Len(b) = Len(r) /\ \A i \in 1..Len(r) : b[i] = w[Len(q) + 1 + i]
    <2>1. \A i \in (Len(q) + 2)..Len(w) : w[i] \in S
      BY <1>1, <1>2, <1>3, ElementOfSeq
    <2>2. /\ b \in Seq(S)
          /\ Len(b) = IF Len(q) + 2 <= Len(w) THEN Len(w) - (Len(q) + 2) + 1 ELSE 0
          /\ \A i \in 1..(Len(w) - (Len(q) + 2) + 1) : b[i] = w[(Len(q) + 2) + i - 1]
      <3>1. PICK m \in Int : m = Len(q) + 2
        BY <1>1
      <3>2. Len(w) \in Int /\ \A i \in m..Len(w) : w[i] \in S
        BY <1>1, <1>2, <1>3, <2>1, <3>1
      <3>3. /\ SubSeq(w, m, Len(w)) \in Seq(S)
            /\ Len(SubSeq(w, m, Len(w))) = IF m <= Len(w) THEN Len(w) - m + 1 ELSE 0
            /\ \A i \in 1..(Len(w) - m + 1) : SubSeq(w, m, Len(w))[i] = w[m + i - 1]
        BY <3>2, SubSeqProperties
      <3> QED BY <3>1, <3>3
    <2> HIDE DEF b
    <2>3. Len(w) - (Len(q) + 2) + 1 = Len(r) /\ Len(b) = Len(r)
      BY <1>1, <1>2, <1>3, <2>2
    <2>4. \A i \in 1..Len(r) : (Len(q) + 2) + i - 1 = Len(q) + 1 + i
      BY <1>1
    <2>5. \A i \in 1..Len(r) : b[i] = w[(Len(q) + 2) + i - 1]
      BY <2>2, <2>3
    <2> QED BY <2>2, <2>3, <2>4, <2>5
  <1>8. a = q
    <2>1. \A i \in 1..Len(a) : a[i] = q[i]
      BY <1>1, <1>2, <1>3, <1>6
    <2> HIDE DEF a
    <2> QED BY <1>6, <2>1, SeqEqual
  <1>9. b = r
    <2> HIDE DEF b
    <2>1. \A i \in 1..Len(b) : b[i] = r[i]
      <3> SUFFICES ASSUME NEW i \in 1..Len(b) PROVE b[i] = r[i]
        OBVIOUS
      <3>1. b[i] = w[Len(q) + 1 + i] /\ i \in Nat \ {0} /\ i <= Len(r)
        BY <1>1, <1>7
      <3>2. w[Len(q) + 1 + i] = t[1 + i]
        BY <1>1, <1>2, <1>3, <3>1
      <3>3. t[1 + i] = r[i]
        BY <1>1, <1>2, <3>1
      <3> QED BY <3>1, <3>2, <3>3
    <2> QED BY <1>7, <2>1, SeqEqual
  <1>10. RemoveAt(w, Len(q) + 1) = a \o b
    <2>1. RemoveAt(w, Len(q) + 1) = SubSeq(w, 1, (Len(q) + 1) - 1) \o SubSeq(w, (Len(q) + 1) + 1, Len(w))
      BY DEF RemoveAt
    <2>2. (Len(q) + 1) - 1 = Len(q) /\ (Len(q) + 1) + 1 = Len(q) + 2
      BY <1>1
    <2> QED BY <2>1, <2>2
  <1> QED BY <1>5, <1>8, <1>9, <1>10 DEF w, t

LEMMA RemoveSave ==
  ASSUME NEW q \in Seq(Save), NEW x \in Save, NEW r \in Seq(Save)
  PROVE  /\ Len(q) + 1 \in DOMAIN (q \o (<<x>> \o r))
         /\ RemoveAt(q \o (<<x>> \o r), Len(q) + 1) = q \o r
  BY RemoveAfter

LEMMA LineTogether ==
  ASSUME NEW q \in Seq(Save), NEW r \in Seq(Save)
  PROVE  q \o r \in Seq(Save) /\ Range(q \o r) = Range(q) \cup Range(r)
  BY ConcatProperties, RangeConcatenation

LEMMA RangeOfWaiting ==
  ASSUME LineInv
  PROVE  /\ Waiting \in Seq(Save)
         /\ \A i \in DOMAIN Waiting : Waiting[i] \in Line
  <1>1. /\ Uncommitted \o jobs \in Seq(Save) /\ Waiting \in Seq(Save)
        /\ Range(Waiting) = (Range(Uncommitted) \cup Range(jobs)) \cup Range(Ids(captures))
    <2>1. Uncommitted \o jobs \in Seq(Save)
      BY PartsAre, LineTogether
    <2>2. Range(Uncommitted \o jobs) = Range(Uncommitted) \cup Range(jobs)
      BY PartsAre, LineTogether
    <2>3. /\ (Uncommitted \o jobs) \o Ids(captures) \in Seq(Save)
          /\ Range((Uncommitted \o jobs) \o Ids(captures)) = Range(Uncommitted \o jobs) \cup Range(Ids(captures))
      <3>1. Ids(captures) \in Seq(Save)
        BY PartsAre
      <3>2. PICK u \in Seq(Save) : u = Uncommitted \o jobs
        BY <2>1
      <3> QED BY <3>1, <3>2, LineTogether
    <2> QED BY <2>1, <2>2, <2>3, WaitingIs
  <1>2. Range(Uncommitted) \subseteq {active} \ {0}
    BY DEF Uncommitted, Range
  <1>3. Range(Ids(captures)) \subseteq Captured
    BY DEF Ids, Captured, Range
  <1>4. Range(Waiting) \subseteq Line
    BY <1>1, <1>2, <1>3 DEF Line
  <1> QED BY <1>1, <1>4 DEF Range
\* The steps that touch neither the line nor the slot.
LEMMA SlotAlone ==
  ASSUME [Next]_vars
  PROVE  \/ DoSave \/ LegacyCapture \/ AdvanceCapture \/ TakeJob \/ StartJob \/ Commit \/ Complete
         \/ UNCHANGED <<captures, jobs, Uncommitted, shown>>
  <1> USE DEF OthersSteady, ExitSteady, MainSteady, queueVars, writerVars, ioVars, Uncommitted
  <1>1. CASE RequestSave \/ StartFrame \/ ProcessRequests \/ FinishSnapshot \/ LeaveCaptures \/ Drain
    BY <1>1 DEF RequestSave, StartFrame, ProcessRequests, FinishSnapshot, LeaveCaptures, Drain
  <1>2. CASE LegacyAwait \/ Await \/ Report \/ Turn
    BY <1>2 DEF LegacyAwait, Await, Report, Turn, WaitIdle
  <1>3. CASE StopWriter \/ StopIo \/ JoinIo \/ Exit
    BY <1>3 DEF StopWriter, StopIo, JoinIo, Exit
  <1>4. CASE IoStep
    BY <1>4 DEF IoStep, TakeRequest, Prepare, TakeMainTemp, WriteMainTemp
  <1>5. CASE Publish \/ Finish
    BY <1>5 DEF Publish, Finish, WriterAt
  <1>6. CASE (\E t \in Thread : Spurious(t)) \/ Ended \/ UNCHANGED vars
    BY <1>6 DEF Spurious, Ended, vars
  <1> QED BY <1>1, <1>2, <1>3, <1>4, <1>5, <1>6 DEF Next, MainStep, WriterStep

LEMMA SaveImplements ==
  ASSUME LineInv, Numbers, DoSave \/ LegacyCapture
  PROVE  Queue!Next \/ UNCHANGED <<Waiting, shown>>
  <1>1. UNCHANGED <<jobs, shown>> /\ Uncommitted' = Uncommitted
    BY DEF DoSave, LegacyCapture, OthersSteady, queueVars, writerVars, Uncommitted
  <1>2. CASE captures' = captures
    BY <1>1, <1>2, WaitingIs
  <1>3. CASE \E stage \in Stage : BeginCapture(stage)
    <2>1. PICK stage \in Stage : captures' = Append(captures, [id |-> Subject, stage |-> stage])
      BY <1>3 DEF BeginCapture
    <2>2. Subject \in Save
      BY SubjectTyped DEF DoSave, LegacyCapture, At
    <2>3. Ids(captures') = Append(Ids(captures), Subject)
      <3>1. [id |-> Subject, stage |-> stage] \in [id : Save, stage : Stage]
            /\ [id |-> Subject, stage |-> stage].id = Subject
        BY <2>2
      <3>2. Ids(Append(captures, [id |-> Subject, stage |-> stage])) = Append(Ids(captures), Subject)
        BY <3>1, IdsAppend, PartsAre
      <3> QED BY <2>1, <3>2
    <2>4. Waiting' = Append(Waiting, Subject)
      <3>1. Uncommitted \o jobs \in Seq(Save)
        BY PartsAre, ConcatProperties
      <3>2. (Uncommitted \o jobs) \o Append(Ids(captures), Subject)
              = Append((Uncommitted \o jobs) \o Ids(captures), Subject)
        BY <2>2, <3>1, PartsAre, AppendAfter
      <3> QED BY <1>1, <2>3, <3>2, WaitingIs
    <2>5. Subject \notin Line
      <3>1. CASE snapshotted
        <4>1. Subject = Head(requests) /\ requests # <<>>
          BY <3>1 DEF Subject, LineInv, SubjectKnown
        <4>2. Subject \in Range(requests)
          BY <4>1, QueuesAre, RangeTail
        <4> QED BY <4>2 DEF Numbers
      <3>2. CASE ~snapshotted
        <4>1. Subject = auto /\ auto \in Reserved
          BY <3>2 DEF DoSave, LegacyCapture, At, Subject, Reserved, Untaken, Saving, LineInv, SubjectKnown
        <4> QED BY <4>1 DEF Numbers
      <3> QED BY <3>1, <3>2
    <2>6. \A i \in DOMAIN Waiting : Waiting[i] # Subject
      BY <2>5, RangeOfWaiting
    <2>7. Queue!Capture(Subject)
      BY <1>1, <2>4, <2>6 DEF Queue!Capture
    <2> QED BY <2>2, <2>7 DEF Queue!Next
  <1>4. "world" \in Stage
    BY DEF Stage
  <1> QED BY <1>2, <1>3, <1>4 DEF DoSave, LegacyCapture, RefuseCapture

LEMMA AdvanceImplements ==
  ASSUME LineInv, AdvanceCapture
  PROVE  Queue!Next \/ UNCHANGED <<Waiting, shown>>
  <1>1. captures # <<>> /\ shown' = shown /\ Uncommitted' = Uncommitted
    BY DEF AdvanceCapture, OthersSteady, writerVars, Uncommitted
  <1>2. /\ Head(captures).id \in Save /\ Ids(Tail(captures)) \in Seq(Save)
        /\ Ids(captures) = <<Head(captures).id>> \o Ids(Tail(captures))
    BY <1>1, PartsAre, IdsTail
  <1>3. PICK h \in Save, r \in Seq(Save) : h = Head(captures).id /\ r = Ids(Tail(captures))
    BY <1>2
  <1>4. PICK q \in Seq(Save) : q = Uncommitted \o jobs
    BY PartsAre, ConcatProperties
  <1>5. Waiting = q \o (<<h>> \o r) /\ <<h>> \in Seq(Save)
    BY <1>2, <1>3, <1>4, WaitingIs
  <1>6. CASE jobs' = Append(jobs, Head(captures).id) /\ captures' = Tail(captures)
    <2>1. Uncommitted' \o jobs' = q \o <<h>>
      <3>1. Uncommitted \o Append(jobs, h) = Append(q, h)
        BY <1>4, PartsAre, AppendAfter
      <3>2. Append(q, h) = q \o <<h>>
        BY AppendIsConcat
      <3> QED BY <1>1, <1>3, <1>6, <3>1, <3>2
    <2>2. Waiting' = (q \o <<h>>) \o r
      BY <1>3, <1>6, <2>1, WaitingIs
    <2>3. (q \o <<h>>) \o r = q \o (<<h>> \o r)
      BY <1>5, ConcatAssociative
    <2> QED BY <1>1, <1>5, <2>2, <2>3
  <1>7. CASE captures' = [captures EXCEPT ![1].stage = NextStage[@]] /\ UNCHANGED jobs
    <2>1. /\ DOMAIN captures' = DOMAIN captures
          /\ \A i \in DOMAIN captures : captures'[i].id = captures[i].id
      BY <1>1, <1>7, Advanced
    <2>2. Ids(captures') = Ids(captures)
      BY <2>1 DEF Ids
    <2> QED BY <1>1, <1>7, <2>2, WaitingIs
  <1>8. CASE captures' = Tail(captures) /\ UNCHANGED jobs
    <2>1. Waiting' = q \o r
      BY <1>1, <1>3, <1>4, <1>8, WaitingIs
    <2>2. /\ Len(q) + 1 \in DOMAIN Waiting
          /\ RemoveAt(Waiting, Len(q) + 1) = q \o r
      <3>1. /\ Len(q) + 1 \in DOMAIN (q \o (<<h>> \o r))
            /\ RemoveAt(q \o (<<h>> \o r), Len(q) + 1) = q \o r
        BY RemoveSave
      <3> QED BY <1>5, <3>1
    <2>3. Queue!Abandon(Len(q) + 1)
      BY <1>1, <2>1, <2>2 DEF Queue!Abandon, Queue!RemoveAt, RemoveAt
    <2> QED BY <2>2, <2>3 DEF Queue!Next
  <1> QED BY <1>6, <1>7, <1>8 DEF AdvanceCapture, FailCapture

\* While the job is not committed it is the head of the line.
LEMMA HeadOfLine ==
  ASSUME LineInv, active # 0, writer \notin {"done", "failed"}
  PROVE  /\ Waiting = <<active>> \o (jobs \o Ids(captures)) /\ active \in Save
         /\ jobs \o Ids(captures) \in Seq(Save) /\ <<active>> \in Seq(Save)
  <1>1. Uncommitted = <<active>> /\ active \in Save
    BY QueuesAre DEF Uncommitted
  <1>2. <<active>> \in Seq(Save) /\ jobs \o Ids(captures) \in Seq(Save)
    BY <1>1, PartsAre, ConcatProperties
  <1>3. (<<active>> \o jobs) \o Ids(captures) = <<active>> \o (jobs \o Ids(captures))
    BY <1>2, PartsAre, ConcatAssociative
  <1> QED BY <1>1, <1>2, <1>3, WaitingIs

\* The line after the job in work has its outcome.
LEMMA LineWithout ==
  ASSUME LineInv, Uncommitted' = <<>>, UNCHANGED <<jobs, captures>>
  PROVE  Waiting' = jobs \o Ids(captures)
  <1>1. <<>> \o jobs = jobs
    BY PartsAre, ConcatEmptySeq
  <1> QED BY <1>1, WaitingIs

LEMMA OutcomeImplements ==
  ASSUME LineInv, active # 0, writer \notin {"done", "failed"}, writer' \in {"done", "failed"},
         UNCHANGED <<active, jobs, captures>>,
         (writer' = "done" /\ shown' = active) \/ (writer' = "failed" /\ shown' = shown)
  PROVE  Queue!Next
  <1>1. PICK r \in Seq(Save) : r = jobs \o Ids(captures) /\ Waiting = <<active>> \o r /\ active \in Save
    BY HeadOfLine
  <1>2. Waiting' = r
    BY <1>1, LineWithout DEF Uncommitted
  <1>3. CASE writer' = "done" /\ shown' = active
    <2>1. Waiting # <<>> /\ Head(Waiting) = active /\ Tail(Waiting) = r
      <3>1. <<active>> \in Seq(Save) /\ Len(<<active>>) = 1 /\ <<active>>[1] = active /\ Len(r) \in Nat
        BY <1>1, LenProperties
      <3>2. /\ <<active>> \o r \in Seq(Save) /\ Len(<<active>> \o r) = 1 + Len(r)
            /\ \A i \in 1..(1 + Len(r)) : (<<active>> \o r)[i] = IF i <= 1 THEN <<active>>[i] ELSE r[i - 1]
        BY <3>1, ConcatProperties
      <3>3. PICK w \in Seq(Save) : w = <<active>> \o r
        BY <3>2
      <3>4. /\ w # <<>> /\ w[1] = active
            /\ \A i \in 1..Len(r) : w[i + 1] = r[i]
        <4>1. Len(w) # 0
          BY <3>1, <3>2, <3>3
        <4>2. w # <<>>
          BY <4>1, EmptySeq
        <4>3. 1 \in 1..(1 + Len(r))
          BY <3>1
        <4>4. \A i \in 1..Len(r) : i + 1 \in 1..(1 + Len(r)) /\ ~(i + 1 <= 1) /\ (i + 1) - 1 = i
          BY <3>1
        <4> QED BY <3>1, <3>2, <3>3, <4>2, <4>3, <4>4
      <3>5. Head(w) = w[1]
        OBVIOUS
      <3>6. /\ Tail(w) \in Seq(Save) /\ Len(Tail(w)) = Len(r)
            /\ \A i \in 1..Len(Tail(w)) : Tail(w)[i] = w[i + 1]
        BY <3>1, <3>2, <3>3, <3>4, HeadTailProperties
      <3>7. Tail(w) = r
        BY <3>4, <3>6, SeqEqual
      <3> QED BY <1>1, <3>3, <3>4, <3>5, <3>7
    <2> QED BY <1>2, <1>3, <2>1 DEF Queue!Commit, Queue!Next
  <1>4. CASE writer' = "failed" /\ shown' = shown
    <2>1. PICK z \in Seq(Save) : z = <<>>
      BY EmptySeq
    <2>2. /\ Len(z) + 1 \in DOMAIN (z \o (<<active>> \o r))
          /\ RemoveAt(z \o (<<active>> \o r), Len(z) + 1) = z \o r
      <3>1. PICK a \in Save : a = active
        BY <1>1
      <3>2. /\ Len(z) + 1 \in DOMAIN (z \o (<<a>> \o r))
            /\ RemoveAt(z \o (<<a>> \o r), Len(z) + 1) = z \o r
        BY RemoveSave
      <3> QED BY <3>1, <3>2
    <2>3. z \o r = r /\ z \o (<<active>> \o r) = <<active>> \o r /\ Len(z) + 1 = 1
      <3>1. <<active>> \in Seq(Save) /\ Len(z) = 0
        BY <1>1, <2>1, EmptySeq
      <3>2. <<active>> \o r \in Seq(Save)
        BY <3>1, ConcatProperties
      <3> QED BY <2>1, <3>1, <3>2, ConcatEmptySeq
    <2>4. 1 \in DOMAIN Waiting /\ RemoveAt(Waiting, 1) = r
      <3>1. Waiting = z \o (<<active>> \o r)
        BY <1>1, <2>3
      <3>2. Len(z) + 1 \in DOMAIN Waiting /\ RemoveAt(Waiting, Len(z) + 1) = z \o r
        BY <2>2, <3>1
      <3> QED BY <2>3, <3>2
    <2> QED BY <1>2, <1>4, <2>4 DEF Queue!Abandon, Queue!Next, Queue!RemoveAt, RemoveAt
  <1> QED BY <1>3, <1>4

LEMMA QueueStep ==
  ASSUME LineInv, Numbers, [Next]_vars
  PROVE  [Queue!Next]_<<Waiting, shown>>
  <1>1. CASE DoSave \/ LegacyCapture
    BY <1>1, SaveImplements
  <1>2. CASE AdvanceCapture
    BY <1>2, AdvanceImplements
  <1>3. CASE TakeJob
    <2>1. shown' = shown /\ captures' = captures /\ active = 0
      BY <1>3 DEF TakeJob, WriterAt, LineInv, Working, MainSteady
    <2>2. CASE jobs # <<>> /\ active' = Head(jobs) /\ jobs' = Tail(jobs) /\ writer' = "start"
      <3>1. Head(jobs) \in Save /\ jobs = <<Head(jobs)>> \o Tail(jobs)
        BY <2>2, QueuesAre, HeadTailProperties, HeadAgain
      <3>2. Uncommitted = <<>> /\ Uncommitted' = <<Head(jobs)>>
        BY <2>1, <2>2, <3>1, QueuesAre DEF Uncommitted
      <3>3. <<>> \o jobs = jobs
        BY QueuesAre, ConcatEmptySeq
      <3> QED BY <2>1, <2>2, <3>1, <3>2, <3>3, WaitingIs
    <2>3. CASE UNCHANGED <<active, jobs>>
      BY <2>1, <2>3, WaitingIs DEF Uncommitted
    <2> QED BY <1>3, <2>2, <2>3 DEF TakeJob
  <1>4. CASE StartJob
    <2>1. /\ active # 0 /\ writer = "start" /\ UNCHANGED <<active, jobs, captures, shown>>
          /\ writer' \in {"failed", "publish"}
      BY <1>4 DEF StartJob, WriterAt, LineInv, Working, queueVars, MainSteady
    <2>2. CASE writer' = "failed"
      BY <2>1, <2>2, OutcomeImplements
    <2>3. CASE writer' = "publish"
      BY <2>1, <2>3, WaitingIs DEF Uncommitted
    <2> QED BY <2>1, <2>2, <2>3
  <1>5. CASE Commit
    <2>1. /\ active # 0 /\ writer = "commit" /\ UNCHANGED <<active, jobs, captures>>
          /\ (writer' = "done" /\ shown' = active) \/ (writer' = "failed" /\ shown' = shown)
      BY <1>5 DEF Commit, WriterAt, LineInv, Working, queueVars, MainSteady
    <2> QED BY <2>1, OutcomeImplements
  <1>6. CASE Complete
    BY <1>6, WaitingIs DEF Complete, Uncommitted, MainSteady
  <1>7. CASE UNCHANGED <<captures, jobs, Uncommitted, shown>>
    BY <1>7, WaitingIs
  <1> QED BY <1>1, <1>2, <1>3, <1>4, <1>5, <1>6, <1>7, SlotAlone

LEMMA QueueInit == Init => Queue!Init
  <1> SUFFICES ASSUME Init PROVE Queue!Init
    OBVIOUS
  <1>1. Uncommitted = <<>> /\ jobs = <<>> /\ captures = <<>>
    BY DEF Init, Uncommitted
  <1>2. PICK z \in Seq(Save) : z = <<>>
    BY EmptySeq
  <1>3. Ids(captures) = <<>>
    <2>1. LineInv
      BY InitLine
    <2>2. Ids(captures) \in Seq(Save) /\ Len(Ids(captures)) = Len(captures) /\ Len(captures) = 0
      BY <1>1, <2>1, QueuesAre, IdsOf
    <2> QED BY <2>2, EmptySeq
  <1>4. z \o z = z
    BY ConcatEmptySeq, <1>2
  <1> QED BY <1>1, <1>2, <1>3, <1>4, WaitingIs DEF Init, Queue!Init

\* SnapshotsInOrder: for any number of saves, whichever captures and jobs fail,
\* the slot shows the snapshots in the order they were taken: the pipeline
\* implements SaveQueue.
THEOREM SnapshotsInOrder == Spec => SavesInOrder
  <1>1. LineInv /\ Numbers /\ [Next]_vars => [Queue!Next]_<<Waiting, shown>>
    BY QueueStep
  <1> QED BY QueueInit, <1>1, NumbersAlways, PTL DEF Spec, SavesInOrder, Queue!Spec, Queue!vars
=============================================================================
