----------------------- MODULE SaveTransactionProofs -----------------------
(* Theorems of SaveTransaction and SaveReports for every number of saves,     *)
(* failures and crashes, every initial slot and every kind of crash.          *)
EXTENDS SaveReports, TLAPS

FilesOK == disk \in [File -> Content] /\ dirty \subseteq File \cup {MarkerFile}
StepOK  == pc \in Label /\ at \in Comp

\* Every name the transaction uses is a file of the slot.
LEMMA Names ==
  ASSUME NEW c \in Comp, NEW g \in Gen
  PROVE  /\ Final(c) \in File /\ Bak(c) \in File /\ Staged(c) \in File
         /\ Temp(g, c) \in File /\ Preserved(g) \in File /\ CallbackTmp \in File
  BY DEF File

LEMMA Contents ==
  /\ Absent \in Content /\ Torn \in Content /\ \A g \in Gen : g \in Content
  BY DEF Content

\* A file operation on a known name leaves known contents in known files.
LEMMA PutTyped ==
  ASSUME FilesOK, NEW f \in File, NEW v \in Content, Put(f, v) \/ PutLazy(f, v)
  PROVE  FilesOK'
  BY DEF FilesOK, Put, PutLazy

LEMMA DeleteTyped ==
  ASSUME FilesOK, NEW f \in File, Delete(f)
  PROVE  FilesOK'
  BY PutTyped, Contents DEF Delete

LEMMA MoveTyped ==
  ASSUME FilesOK, NEW s \in File, NEW d \in File, Move(s, d)
  PROVE  FilesOK'
  BY DEF FilesOK, Move, Content

LEMMA FlushTyped ==
  ASSUME FilesOK, NEW f \in File, Flush(f) \/ KeepFiles
  PROVE  FilesOK'
  BY DEF FilesOK, Flush, KeepFiles

LEMMA BotchTyped ==
  ASSUME FilesOK, NEW f \in File, NEW v \in Content, Botch(f, v)
  PROVE  FilesOK'
  <1>1. PICK left \in {disk[f], Absent, Torn, v} : PutLazy(f, left)
    BY DEF Botch
  <1>2. left \in Content
    BY Contents DEF FilesOK
  <1> QED BY <1>1, <1>2, PutTyped

LEMMA FaultsTyped ==
  ASSUME faults \in 0..MaxFaults, Works \/ Fails
  PROVE  faults' \in 0..MaxFaults
  BY SaveTransactionAssumption DEF Works, Fails

\* The loops over the components stay within the group.
LEMMA GotoTyped ==
  ASSUME NEW p \in Label, Goto(p)
  PROVE  StepOK'
  BY DEF Goto, StepOK, Comp

LEMMA AdvanceTyped ==
  ASSUME StepOK, NEW p \in Label, Advance(p)
  PROVE  StepOK'
  BY GotoTyped DEF Advance, StepOK, Comp, Succ, Last

LEMMA NoJobTyped == NoJob \in Job
  BY SaveTransactionAssumption DEF NoJob, Job, Gen

LEMMA ReturnTyped ==
  ASSUME StepOK, job \in Job, NEW r \in BOOLEAN, Return(r)
  PROVE  StepOK' /\ job' \in Job
  BY NoJobTyped, GotoTyped DEF Return, Label

\* A write of the marker, done or failed, leaves a marker that can be read.
LEMMA MarkerTyped ==
  ASSUME FilesOK, marker \in Marker, NEW m \in Marker,
         PutMarker(m) \/ BotchMarker(m) \/ DropMarker \/ KeepMarker
  PROVE  FilesOK' /\ marker' \in Marker
  <1>1. \A s \in {"missing", "invalid", "valid"} : Unmarked(s) \in Marker
    BY SaveTransactionAssumption DEF Unmarked, Marker, Gen
  <1> QED BY <1>1 DEF PutMarker, BotchMarker, DropMarker, KeepMarker, FilesOK, KeepFiles

LEMMA NewMarkerTyped ==
  ASSUME job \in Job
  PROVE  NewMarker \in Marker
  BY DEF NewMarker, Marker, Job

LEMMA InitTyped == Init => TypeOK
  BY SaveTransactionAssumption, Contents
  DEF Init, TypeOK, Content, Gen, Marker, Unmarked, Job, NoJob, NoGroup, Label, Comp

CountersOK == /\ group \in [Gen -> [Comp -> Content]] /\ saves \in 0..MaxSaves
              /\ faults \in 0..MaxFaults /\ crashes \in 0..MaxCrashes

LEMMA TypeParts ==
  /\ TypeOK <=> FilesOK /\ StepOK /\ CountersOK /\ marker \in Marker /\ job \in Job
  /\ TypeOK' <=> FilesOK' /\ StepOK' /\ CountersOK' /\ marker' \in Marker /\ job' \in Job
  BY DEF TypeOK, FilesOK, StepOK, CountersOK

LEMMA RestTyped ==
  ASSUME CountersOK, Rest, faults' \in 0..MaxFaults
  PROVE  CountersOK'
  BY DEF CountersOK, Rest

\* One lemma for each part of TypeOK, one step in it for each action.
JobSteps == WriterStep \/ LegacyStep \/ RecoveryStep

LEMMA JobFiles ==
  ASSUME FilesOK, StepOK, CountersOK, marker \in Marker, job \in Job
  PROVE  /\ job.id \in Gen /\ job.id \in Content /\ marker.id \in Gen
         /\ at \in Comp /\ "scop" \in Comp /\ "scoc" \in Comp /\ "scov" \in Comp
         /\ group[job.id]["scoc"] \in Content
         /\ \A c \in Comp : /\ Final(c) \in File /\ Bak(c) \in File /\ Staged(c) \in File
                             /\ Temp(job.id, c) \in File /\ Temp(marker.id, c) \in File
                             /\ NewSource(c) \in File
         /\ Preserved(job.id) \in File /\ Preserved(marker.id) \in File
         /\ CallbackTmp \in File /\ Collected \in File
         /\ \A f \in File : disk[f] \in Content
  <1>1. job.id \in Gen /\ marker.id \in Gen
    BY DEF Job, Marker
  <1>2. "scop" \in Comp /\ "scoc" \in Comp /\ "scov" \in Comp
    BY DEF Comp
  <1> QED BY <1>1, <1>2, Names, Contents DEF FilesOK, StepOK, CountersOK, NewSource, Collected

LEMMA FilesStep ==
  ASSUME FilesOK, StepOK, CountersOK, marker \in Marker, job \in Job, JobSteps
  PROVE  FilesOK'
  <1>1. CASE WriterStep
    <2>1. CASE StartJob
      BY <2>1, JobFiles, FlushTyped DEF StartJob
    <2>2. CASE EarlyCustom
      BY <2>2, JobFiles, FlushTyped, PutTyped, BotchTyped DEF EarlyCustom
    <2>3. CASE EarlyBackup
      BY <2>3, JobFiles, PutTyped, BotchTyped DEF EarlyBackup
    <2>4. CASE EarlyMain
      BY <2>4, JobFiles, PutTyped, BotchTyped DEF EarlyMain
    <2>5. CASE Encode
      BY <2>5, JobFiles, FlushTyped DEF Encode
    <2>6. CASE WriteTemp
      BY <2>6, JobFiles, FlushTyped, PutTyped, BotchTyped DEF WriteTemp
    <2>7. CASE CheckMarker
      BY <2>7, JobFiles, FlushTyped DEF CheckMarker
    <2>8. CASE Preflight
      BY <2>8, JobFiles, FlushTyped, Contents DEF Preflight, FilesOK
    <2>9. CASE BackUp
      BY <2>9, JobFiles, FlushTyped, PutTyped, BotchTyped DEF BackUp
    <2>10. CASE WriteMarker
      BY <2>10, JobFiles, MarkerTyped, NewMarkerTyped DEF WriteMarker
    <2>11. CASE DropMain
      BY <2>11, JobFiles, FlushTyped, DeleteTyped DEF DropMain
    <2>12. CASE Install
      BY <2>12, JobFiles, FlushTyped, DeleteTyped, MoveTyped DEF Install
    <2>13. CASE Succeed
      BY <2>13, JobFiles, MarkerTyped, NewMarkerTyped DEF Succeed
    <2>14. CASE RestorePrevious
      BY <2>14, JobFiles, FlushTyped, PutTyped, DeleteTyped, BotchTyped DEF RestorePrevious
    <2>15. CASE Unmark
      BY <2>15, JobFiles, MarkerTyped, NewMarkerTyped DEF Unmark
    <2>16. CASE CleanUp
      BY <2>16, JobFiles, FlushTyped, DeleteTyped DEF CleanUp
    <2> QED BY <1>1, <2>1, <2>2, <2>3, <2>4, <2>5, <2>6, <2>7, <2>8, <2>9, <2>10, <2>11,
         <2>12, <2>13, <2>14, <2>15, <2>16 DEF WriterStep
  <1>2. CASE LegacyStep
    <2>1. CASE LegacyMarker
      BY <2>1, JobFiles, MarkerTyped, NewMarkerTyped DEF LegacyMarker
    <2>2. CASE LegacyPreserve
      BY <2>2, JobFiles, PutTyped, BotchTyped DEF LegacyPreserve
    <2>3. CASE LegacyAbort
      BY <2>3, JobFiles, FlushTyped, MoveTyped DEF LegacyAbort
    <2>4. CASE LegacyQuit
      BY <2>4, JobFiles, MarkerTyped, NewMarkerTyped DEF LegacyQuit
    <2>5. CASE LegacyCallback
      BY <2>5, JobFiles, FlushTyped, PutTyped, DeleteTyped DEF LegacyCallback, CallbackFiles
    <2>6. CASE LegacyCollect
      BY <2>6, JobFiles, FlushTyped, PutTyped, MoveTyped, BotchTyped DEF LegacyCollect
    <2>7. CASE LegacyRestore
      BY <2>7, JobFiles, FlushTyped, DeleteTyped, MoveTyped DEF LegacyRestore
    <2>8. CASE LegacyUnmark
      BY <2>8, JobFiles, MarkerTyped, NewMarkerTyped DEF LegacyUnmark, FilesOK
    <2>9. CASE LegacyDiscard
      BY <2>9, JobFiles, FlushTyped, DeleteTyped DEF LegacyDiscard
    <2> QED BY <1>2, <2>1, <2>2, <2>3, <2>4, <2>5, <2>6, <2>7, <2>8, <2>9 DEF LegacyStep
  <1>3. CASE RecoveryStep
    <2>1. CASE Recover
      BY <2>1, JobFiles, FlushTyped DEF Recover
    <2>2. CASE RecoverLegacy
      BY <2>2, JobFiles, FlushTyped, DeleteTyped, MoveTyped DEF RecoverLegacy
    <2>3. CASE PurgeLegacy
      BY <2>3, JobFiles, Contents DEF PurgeLegacy, FilesOK
    <2>4. CASE StageRecovery
      BY <2>4, JobFiles, FlushTyped, PutTyped, DeleteTyped, BotchTyped DEF StageRecovery,
         RecoverySource
    <2>5. CASE InstallRecovery
      BY <2>5, JobFiles, FlushTyped, DeleteTyped, MoveTyped DEF InstallRecovery
    <2>6. CASE CleanRecovered
      BY <2>6, JobFiles, FlushTyped, DeleteTyped DEF CleanRecovered
    <2>7. CASE UnmarkRecovered
      BY <2>7, JobFiles, MarkerTyped, NewMarkerTyped DEF UnmarkRecovered
    <2> QED BY <1>3, <2>1, <2>2, <2>3, <2>4, <2>5, <2>6, <2>7 DEF RecoveryStep
  <1> QED BY <1>1, <1>2, <1>3 DEF JobSteps

LEMMA ControlStep ==
  ASSUME FilesOK, StepOK, CountersOK, marker \in Marker, job \in Job, JobSteps
  PROVE  StepOK'
  <1>1. CASE WriterStep
    <2>1. CASE StartJob
      BY <2>1, GotoTyped DEF StartJob, Label
    <2>2. CASE EarlyCustom
      BY <2>2, GotoTyped DEF EarlyCustom, Label
    <2>3. CASE EarlyBackup
      BY <2>3, GotoTyped, AdvanceTyped DEF EarlyBackup, Label
    <2>4. CASE EarlyMain
      BY <2>4, GotoTyped DEF EarlyMain, Label
    <2>5. CASE Encode
      BY <2>5, GotoTyped DEF Encode, Label
    <2>6. CASE WriteTemp
      BY <2>6, GotoTyped, AdvanceTyped DEF WriteTemp, Label
    <2>7. CASE CheckMarker
      BY <2>7, GotoTyped DEF CheckMarker, Label
    <2>8. CASE Preflight
      BY <2>8, GotoTyped, AdvanceTyped DEF Preflight, Label
    <2>9. CASE BackUp
      BY <2>9, GotoTyped, AdvanceTyped DEF BackUp, Label
    <2>10. CASE WriteMarker
      BY <2>10, GotoTyped DEF WriteMarker, Label
    <2>11. CASE DropMain
      BY <2>11, GotoTyped DEF DropMain, Label
    <2>12. CASE Install
      BY <2>12, GotoTyped, AdvanceTyped DEF Install, Label
    <2>13. CASE Succeed
      BY <2>13, GotoTyped DEF Succeed, Label
    <2>14. CASE RestorePrevious
      BY <2>14, GotoTyped, AdvanceTyped DEF RestorePrevious, Label
    <2>15. CASE Unmark
      BY <2>15, GotoTyped DEF Unmark, Label
    <2>16. CASE CleanUp
      BY <2>16, AdvanceTyped DEF CleanUp, Label
    <2> QED BY <1>1, <2>1, <2>2, <2>3, <2>4, <2>5, <2>6, <2>7, <2>8, <2>9, <2>10, <2>11,
         <2>12, <2>13, <2>14, <2>15, <2>16 DEF WriterStep
  <1>2. CASE LegacyStep
    <2>1. CASE LegacyMarker
      BY <2>1, GotoTyped DEF LegacyMarker, Label
    <2>2. CASE LegacyPreserve
      BY <2>2, GotoTyped DEF LegacyPreserve, Label
    <2>3. CASE LegacyAbort
      BY <2>3, GotoTyped DEF LegacyAbort, Label
    <2>4. CASE LegacyQuit
      BY <2>4, GotoTyped DEF LegacyQuit, Label
    <2>5. CASE LegacyCallback
      BY <2>5, GotoTyped DEF LegacyCallback, Label
    <2>6. CASE LegacyCollect
      BY <2>6, GotoTyped DEF LegacyCollect, Label
    <2>7. CASE LegacyRestore
      BY <2>7, GotoTyped DEF LegacyRestore, Label
    <2>8. CASE LegacyUnmark
      BY <2>8, GotoTyped DEF LegacyUnmark, Label
    <2>9. CASE LegacyDiscard
      BY <2>9, GotoTyped DEF LegacyDiscard, Label
    <2> QED BY <1>2, <2>1, <2>2, <2>3, <2>4, <2>5, <2>6, <2>7, <2>8, <2>9 DEF LegacyStep
  <1>3. CASE RecoveryStep
    <2>1. CASE Recover
      BY <2>1, GotoTyped, ReturnTyped DEF Recover, Label, Rebuild
    <2>2. CASE RecoverLegacy
      BY <2>2, GotoTyped, ReturnTyped DEF RecoverLegacy, Label, Rebuild
    <2>3. CASE PurgeLegacy
      BY <2>3, GotoTyped DEF PurgeLegacy, Label
    <2>4. CASE StageRecovery
      BY <2>4, AdvanceTyped, ReturnTyped DEF StageRecovery, Label
    <2>5. CASE InstallRecovery
      BY <2>5, AdvanceTyped, ReturnTyped DEF InstallRecovery, Label
    <2>6. CASE CleanRecovered
      BY <2>6, AdvanceTyped DEF CleanRecovered, Label
    <2>7. CASE UnmarkRecovered
      BY <2>7, ReturnTyped DEF UnmarkRecovered, Label
    <2> QED BY <1>3, <2>1, <2>2, <2>3, <2>4, <2>5, <2>6, <2>7 DEF RecoveryStep
  <1> QED BY <1>1, <1>2, <1>3 DEF JobSteps

LEMMA CountersStep ==
  ASSUME FilesOK, StepOK, CountersOK, marker \in Marker, job \in Job, JobSteps
  PROVE  CountersOK'
  <1>1. CASE WriterStep
    <2>1. CASE StartJob
      BY <2>1, FaultsTyped, RestTyped DEF StartJob, CountersOK
    <2>2. CASE EarlyCustom
      BY <2>2, FaultsTyped, RestTyped DEF EarlyCustom, CountersOK, Botch
    <2>3. CASE EarlyBackup
      BY <2>3, FaultsTyped, RestTyped DEF EarlyBackup, CountersOK, Botch
    <2>4. CASE EarlyMain
      BY <2>4, FaultsTyped, RestTyped DEF EarlyMain, CountersOK, Botch
    <2>5. CASE Encode
      BY <2>5, FaultsTyped, RestTyped DEF Encode, CountersOK
    <2>6. CASE WriteTemp
      BY <2>6, FaultsTyped, RestTyped DEF WriteTemp, CountersOK, Botch
    <2>7. CASE CheckMarker
      BY <2>7, FaultsTyped, RestTyped DEF CheckMarker, CountersOK
    <2>8. CASE Preflight
      BY <2>8, FaultsTyped, RestTyped DEF Preflight, CountersOK
    <2>9. CASE BackUp
      BY <2>9, FaultsTyped, RestTyped DEF BackUp, CountersOK, Botch
    <2>10. CASE WriteMarker
      BY <2>10, FaultsTyped, RestTyped DEF WriteMarker, CountersOK, BotchMarker, PutMarker
    <2>11. CASE DropMain
      BY <2>11, FaultsTyped, RestTyped DEF DropMain, CountersOK
    <2>12. CASE Install
      BY <2>12, FaultsTyped, RestTyped DEF Install, CountersOK
    <2>13. CASE Succeed
      BY <2>13, FaultsTyped, RestTyped DEF Succeed, CountersOK, PutMarker, DropMarker,
         KeepMarker
    <2>14. CASE RestorePrevious
      BY <2>14, FaultsTyped, RestTyped DEF RestorePrevious, CountersOK, Botch
    <2>15. CASE Unmark
      BY <2>15, FaultsTyped, RestTyped DEF Unmark, CountersOK, PutMarker, DropMarker,
         KeepMarker
    <2>16. CASE CleanUp
      BY <2>16, FaultsTyped, RestTyped DEF CleanUp, CountersOK
    <2> QED BY <1>1, <2>1, <2>2, <2>3, <2>4, <2>5, <2>6, <2>7, <2>8, <2>9, <2>10, <2>11,
         <2>12, <2>13, <2>14, <2>15, <2>16 DEF WriterStep
  <1>2. CASE LegacyStep
    <2>1. CASE LegacyMarker
      BY <2>1, FaultsTyped, RestTyped DEF LegacyMarker, CountersOK, BotchMarker, PutMarker
    <2>2. CASE LegacyPreserve
      BY <2>2, FaultsTyped, RestTyped DEF LegacyPreserve, CountersOK, Botch
    <2>3. CASE LegacyAbort
      BY <2>3, FaultsTyped, RestTyped DEF LegacyAbort, CountersOK
    <2>4. CASE LegacyQuit
      BY <2>4, FaultsTyped, RestTyped DEF LegacyQuit, CountersOK, PutMarker, DropMarker,
         KeepMarker
    <2>5. CASE LegacyCallback
      BY <2>5, FaultsTyped, RestTyped DEF LegacyCallback, CountersOK
    <2>6. CASE LegacyCollect
      BY <2>6, FaultsTyped, RestTyped, JobFiles DEF LegacyCollect, CountersOK, Botch
    <2>7. CASE LegacyRestore
      BY <2>7, FaultsTyped, RestTyped DEF LegacyRestore, CountersOK
    <2>8. CASE LegacyUnmark
      BY <2>8, FaultsTyped, RestTyped DEF LegacyUnmark, CountersOK, PutMarker,
         DropMarker, KeepMarker
    <2>9. CASE LegacyDiscard
      BY <2>9, FaultsTyped, RestTyped DEF LegacyDiscard, CountersOK
    <2> QED BY <1>2, <2>1, <2>2, <2>3, <2>4, <2>5, <2>6, <2>7, <2>8, <2>9 DEF LegacyStep
  <1>3. CASE RecoveryStep
    <2>1. CASE Recover
      BY <2>1, FaultsTyped, RestTyped DEF Recover, CountersOK
    <2>2. CASE RecoverLegacy
      BY <2>2, FaultsTyped, RestTyped DEF RecoverLegacy, CountersOK
    <2>3. CASE PurgeLegacy
      BY <2>3, FaultsTyped, RestTyped DEF PurgeLegacy, CountersOK
    <2>4. CASE StageRecovery
      BY <2>4, FaultsTyped, RestTyped DEF StageRecovery, CountersOK, Botch
    <2>5. CASE InstallRecovery
      BY <2>5, FaultsTyped, RestTyped DEF InstallRecovery, CountersOK
    <2>6. CASE CleanRecovered
      BY <2>6, FaultsTyped, RestTyped DEF CleanRecovered, CountersOK
    <2>7. CASE UnmarkRecovered
      BY <2>7, FaultsTyped, RestTyped DEF UnmarkRecovered, CountersOK, PutMarker,
         DropMarker, KeepMarker
    <2> QED BY <1>3, <2>1, <2>2, <2>3, <2>4, <2>5, <2>6, <2>7 DEF RecoveryStep
  <1> QED BY <1>1, <1>2, <1>3 DEF JobSteps

LEMMA Rebuilt ==
  ASSUME StepOK, marker \in Marker, job \in Job, Rebuild
  PROVE  job' \in Job
  <1>1. marker.prev \in SUBSET Comp /\ NewComps \in SUBSET Comp
    BY DEF Marker, NewComps
  <1>2. \A s \in {"bak", "new"}, e \in SUBSET Comp :
          [job EXCEPT !.source = s, !.expect = e] \in Job
    BY DEF Job
  <1> QED BY <1>1, <1>2, ReturnTyped DEF Rebuild

LEMMA RecordsStep ==
  ASSUME FilesOK, StepOK, CountersOK, marker \in Marker, job \in Job, JobSteps
  PROVE  marker' \in Marker /\ job' \in Job
  <1>1. CASE WriterStep
    <2>1. CASE StartJob
      BY <2>1, JobFiles DEF StartJob
    <2>2. CASE EarlyCustom
      BY <2>2, JobFiles DEF EarlyCustom, Job, Comp
    <2>3. CASE EarlyBackup
      BY <2>3, JobFiles DEF EarlyBackup, Job, Comp
    <2>4. CASE EarlyMain
      <3>1. \A b \in BOOLEAN, d \in SUBSET Comp :
              /\ [job EXCEPT !.backups = b, !.durable = d] \in Job
              /\ [job EXCEPT !.durable = d] \in Job
        BY DEF Job
      <3>2. job.durable \cup {"scop"} \in SUBSET Comp /\ {} \in SUBSET Comp
        BY JobFiles DEF Job
      <3> QED BY <2>4, <3>1, <3>2 DEF EarlyMain
    <2>5. CASE Encode
      BY <2>5, JobFiles DEF Encode
    <2>6. CASE WriteTemp
      BY <2>6, JobFiles DEF WriteTemp
    <2>7. CASE CheckMarker
      BY <2>7, JobFiles DEF CheckMarker, Job, Comp
    <2>8. CASE Preflight
      BY <2>8, JobFiles DEF Preflight, Job, Comp
    <2>9. CASE BackUp
      BY <2>9, JobFiles DEF BackUp
    <2>10. CASE WriteMarker
      BY <2>10, MarkerTyped, NewMarkerTyped DEF WriteMarker
    <2>11. CASE DropMain
      BY <2>11, JobFiles DEF DropMain
    <2>12. CASE Install
      BY <2>12, JobFiles DEF Install
    <2>13. CASE Succeed
      BY <2>13, NoJobTyped, MarkerTyped, NewMarkerTyped DEF Succeed
    <2>14. CASE RestorePrevious
      BY <2>14, JobFiles DEF RestorePrevious
    <2>15. CASE Unmark
      BY <2>15, MarkerTyped, NewMarkerTyped DEF Unmark
    <2>16. CASE CleanUp
      BY <2>16, NoJobTyped DEF CleanUp
    <2> QED BY <1>1, <2>1, <2>2, <2>3, <2>4, <2>5, <2>6, <2>7, <2>8, <2>9, <2>10, <2>11,
         <2>12, <2>13, <2>14, <2>15, <2>16 DEF WriterStep
  <1>2. CASE LegacyStep
    <2>1. CASE LegacyMarker
      BY <2>1, MarkerTyped, NewMarkerTyped DEF LegacyMarker
    <2>2. CASE LegacyPreserve
      BY <2>2, JobFiles DEF LegacyPreserve
    <2>3. CASE LegacyAbort
      BY <2>3, JobFiles DEF LegacyAbort
    <2>4. CASE LegacyQuit
      BY <2>4, NoJobTyped, MarkerTyped, NewMarkerTyped DEF LegacyQuit
    <2>5. CASE LegacyCallback
      BY <2>5, JobFiles DEF LegacyCallback
    <2>6. CASE LegacyCollect
      BY <2>6, JobFiles DEF LegacyCollect, Job, Comp, Exists
    <2>7. CASE LegacyRestore
      BY <2>7, JobFiles DEF LegacyRestore
    <2>8. CASE LegacyUnmark
      <3>1. [job EXCEPT !.staged = job.custom, !.had = {}] \in Job
        BY DEF Job
      <3>2. Unmarked("missing") \in Marker
        BY SaveTransactionAssumption DEF Unmarked, Marker, Gen
      <3> QED BY <2>8, <3>1, <3>2, MarkerTyped, NewMarkerTyped, NoJobTyped DEF LegacyUnmark
    <2>9. CASE LegacyDiscard
      BY <2>9, NoJobTyped DEF LegacyDiscard
    <2> QED BY <1>2, <2>1, <2>2, <2>3, <2>4, <2>5, <2>6, <2>7, <2>8, <2>9 DEF LegacyStep
  <1>3. CASE RecoveryStep
    <2>1. CASE Recover
      BY <2>1, ReturnTyped, Rebuilt DEF Recover
    <2>2. CASE RecoverLegacy
      BY <2>2, ReturnTyped, Rebuilt DEF RecoverLegacy
    <2>3. CASE PurgeLegacy
      BY <2>3, JobFiles DEF PurgeLegacy
    <2>4. CASE StageRecovery
      BY <2>4, ReturnTyped DEF StageRecovery
    <2>5. CASE InstallRecovery
      BY <2>5, ReturnTyped DEF InstallRecovery
    <2>6. CASE CleanRecovered
      BY <2>6, JobFiles DEF CleanRecovered
    <2>7. CASE UnmarkRecovered
      BY <2>7, MarkerTyped, NewMarkerTyped, ReturnTyped DEF UnmarkRecovered
    <2> QED BY <1>3, <2>1, <2>2, <2>3, <2>4, <2>5, <2>6, <2>7 DEF RecoveryStep
  <1> QED BY <1>1, <1>2, <1>3 DEF JobSteps

-----------------------------------------------------------------------------

LEMMA NextGen ==
  ASSUME saves \in 0..MaxSaves, saves < MaxSaves
  PROVE  saves + 1 \in Gen /\ saves + 1 \in 0..MaxSaves
  BY SaveTransactionAssumption DEF Gen

LEMMA RequestsTyped ==
  ASSUME TypeOK, BeginLegacy \/ RequestRecovery \/ (\E custom \in BOOLEAN : BeginSave(custom))
  PROVE  TypeOK'
  <1>1. CASE BeginLegacy
    <2>1. saves + 1 \in Gen /\ saves' \in 0..MaxSaves
      BY <1>1, NextGen DEF TypeOK, BeginLegacy
    <2>2. StepOK'
      BY <1>1, GotoTyped DEF BeginLegacy, Label
    <2>3. {c \in {"scop", "scoc"} : Exists(Final(c))} \in SUBSET Comp
      BY DEF Comp
    <2>4. job' \in Job
      BY <1>1, <2>1, <2>3, NoJobTyped DEF BeginLegacy, Job
    <2> QED BY <1>1, <2>1, <2>2, <2>4 DEF TypeOK, BeginLegacy, StepOK
  <1>2. CASE RequestRecovery
    <2>1. StepOK'
      BY <1>2, GotoTyped DEF RequestRecovery, Label
    <2> QED BY <1>2, <2>1 DEF TypeOK, RequestRecovery, KeepFiles, Works, Rest, StepOK
  <1>3. ASSUME NEW custom \in BOOLEAN, BeginSave(custom)
        PROVE  TypeOK'
    <2>1. saves + 1 \in Gen /\ saves' \in 0..MaxSaves
      BY <1>3, NextGen DEF TypeOK, BeginSave
    <2>2. StepOK'
      BY <1>3, GotoTyped DEF BeginSave, Label
    <2>3. job' \in Job
      BY <1>3, <2>1, NoJobTyped DEF BeginSave, Job
    <2>4. [c \in Comp |-> IF c = "scoc" /\ ~custom THEN Absent ELSE saves + 1]
            \in [Comp -> Content]
      BY <2>1, Contents
    <2>5. group' \in [Gen -> [Comp -> Content]]
      BY <1>3, <2>1, <2>4 DEF TypeOK, BeginSave
    <2> QED BY <1>3, <2>1, <2>2, <2>3, <2>5 DEF TypeOK, BeginSave, StepOK
  <1> QED BY <1>1, <1>2, <1>3

LEMMA InFlightTyped ==
  ASSUME FilesOK, StepOK, CountersOK, marker \in Marker, job \in Job
  PROVE  \A w \in InFlight : w[1] \in File /\ w[2] \in Content
  BY JobFiles DEF InFlight, CallbackFiles, RecoverySource

LEMMA CrashTyped ==
  ASSUME TypeOK, Kill \/ LosePower
  PROVE  TypeOK'
  <1>1. /\ FilesOK /\ StepOK /\ CountersOK /\ marker \in Marker /\ job \in Job
    BY TypeParts
  <1>2. StepOK' /\ CountersOK' /\ job' \in Job
    BY <1>1, GotoTyped, NoJobTyped, SaveTransactionAssumption
    DEF Kill, LosePower, Forget, CountersOK, Label
  <1>3. Unmarked("invalid") \in Marker /\ NewMarker \in Marker
    BY <1>1, NewMarkerTyped, SaveTransactionAssumption DEF Unmarked, Marker, Gen
  <1>4. marker' \in Marker
    BY <1>1, <1>3 DEF Kill, LosePower
  <1>5. ASSUME NEW whole \in SUBSET InFlight, NEW torn
        PROVE  Landed(torn, whole) \in [File -> Content]
    <2>1. ASSUME NEW f \in File, \E w \in whole : w[1] = f
          PROVE  (CHOOSE w \in whole : w[1] = f)[2] \in Content
      <3>1. (CHOOSE w \in whole : w[1] = f) \in InFlight
        BY <1>5, <2>1
      <3> QED BY <1>1, <3>1, InFlightTyped
    <2> QED BY <1>1, <2>1, Contents DEF Landed, FilesOK
  <1>6. FilesOK'
    <2>1. CASE Kill
      BY <2>1, <1>1, <1>5, InFlightTyped DEF Kill, FilesOK
    <2>2. CASE LosePower
      BY <2>2, <1>5 DEF LosePower, FilesOK
    <2> QED BY <2>1, <2>2
  <1> QED BY <1>2, <1>4, <1>6, TypeParts

\* TypeCorrect: no step, failure or crash takes a file, the marker or a local of
\* the writer outside the values the code can give it.
THEOREM TypeCorrect == Spec => []TypeOK
  <1>1. TypeOK /\ [Next]_vars => TypeOK'
    <2> SUFFICES ASSUME TypeOK, [Next]_vars PROVE TypeOK'
      OBVIOUS
    <2>1. CASE JobSteps
      <3>1. /\ FilesOK /\ StepOK /\ CountersOK /\ marker \in Marker /\ job \in Job
        BY TypeParts
      <3> QED BY <2>1, <3>1, FilesStep, ControlStep, CountersStep, RecordsStep, TypeParts
    <2>2. CASE BeginLegacy \/ RequestRecovery \/ \E custom \in BOOLEAN : BeginSave(custom)
      BY <2>2, RequestsTyped
    <2>3. CASE Kill \/ LosePower
      BY <2>3, CrashTyped
    <2>4. CASE Quiet \/ UNCHANGED vars
      BY <2>4 DEF Quiet, vars, TypeOK
    <2> QED BY <2>1, <2>2, <2>3, <2>4 DEF Next, JobSteps
  <1> QED BY <1>1, InitTyped, PTL DEF Spec
-----------------------------------------------------------------------------
(* Recovery never goes back.  Without the legacy capture a rebuild starts     *)
(* only while the main file is not valid, and it stays so until the rebuild   *)
(* installs the main file itself, as its last file.                           *)

LegacyLabel == {"legacy_marker", "legacy_preserve", "legacy_abort", "legacy_quit",
                "legacy_callback", "legacy_collect", "legacy_restore", "legacy_unmark",
                "legacy_discard", "rec_legacy", "rec_purge"}

RebuildsOnlyDamage ==
    /\ pc \in {"rec_stage", "rec_install"} => ~Valid(Final("scop"))
    /\ pc \notin LegacyLabel /\ ~marker.legacy

\* The companions' names and the temporary names are not the main file's.
LEMMA MainApart ==
  ASSUME NEW c \in Comp, NEW g
  PROVE  /\ Final("scop") \in File
         /\ Staged(c) # Final("scop") /\ Bak(c) # Final("scop") /\ Temp(g, c) # Final("scop")
         /\ c # "scop" => Final(c) # Final("scop")
  BY Names DEF Final, Staged, Bak, Temp, Comp, File

LEMMA KeepsMain ==
  ASSUME FilesOK, NEW f, f # Final("scop"), NEW v,
         Put(f, v) \/ PutLazy(f, v) \/ Delete(f) \/ Botch(f, v) \/ Flush(f) \/ KeepFiles
  PROVE  disk'[Final("scop")] = disk[Final("scop")]
  BY MainApart DEF FilesOK, Put, PutLazy, Delete, Botch, Flush, KeepFiles, Comp, File

LEMMA PlainMarkers ==
  /\ \A s : ~Unmarked(s).legacy
  /\ pc # "legacy_marker" => ~NewMarker.legacy
  BY DEF Unmarked, NewMarker

\* The writer's own steps start no rebuild and write no legacy marker.
LEMMA WriterRebuildsNothing ==
  ASSUME RebuildsOnlyDamage, WriterStep
  PROVE  pc' \notin LegacyLabel \cup {"rec_stage", "rec_install"} /\ ~marker'.legacy
  <1> USE DEF RebuildsOnlyDamage, LegacyLabel
  <1>1. CASE StartJob
    BY <1>1 DEF StartJob, Goto
  <1>2. CASE EarlyCustom
    BY <1>2 DEF EarlyCustom, Goto
  <1>3. CASE EarlyBackup
    BY <1>3 DEF EarlyBackup, Goto, Advance
  <1>4. CASE EarlyMain
    BY <1>4 DEF EarlyMain, Goto
  <1>5. CASE Encode
    BY <1>5 DEF Encode, Goto
  <1>6. CASE WriteTemp
    BY <1>6 DEF WriteTemp, Goto, Advance
  <1>7. CASE CheckMarker
    BY <1>7 DEF CheckMarker, Goto
  <1>8. CASE Preflight
    BY <1>8 DEF Preflight, Goto, Advance
  <1>9. CASE BackUp
    BY <1>9 DEF BackUp, Goto, Advance
  <1>10. CASE WriteMarker
    BY <1>10, PlainMarkers DEF WriteMarker, Goto, PutMarker, BotchMarker
  <1>11. CASE DropMain
    BY <1>11 DEF DropMain, Goto
  <1>12. CASE Install
    BY <1>12 DEF Install, Goto, Advance
  <1>13. CASE Succeed
    BY <1>13 DEF Succeed, Goto, DropMarker, KeepMarker, PutMarker, Unmarked
  <1>14. CASE RestorePrevious
    BY <1>14 DEF RestorePrevious, Goto, Advance
  <1>15. CASE Unmark
    BY <1>15 DEF Unmark, Goto, DropMarker, KeepMarker, PutMarker, Unmarked
  <1>16. CASE CleanUp
    BY <1>16 DEF CleanUp, Advance, Goto
  <1> QED BY <1>1, <1>2, <1>3, <1>4, <1>5, <1>6, <1>7, <1>8, <1>9, <1>10,
            <1>11, <1>12, <1>13, <1>14, <1>15, <1>16 DEF WriterStep

LEMMA NoLegacyStep ==
  ASSUME RebuildsOnlyDamage
  PROVE  ~LegacyStep /\ ~RecoverLegacy /\ ~PurgeLegacy
  BY DEF RebuildsOnlyDamage, LegacyLabel, LegacyStep, LegacyMarker, LegacyPreserve,
     LegacyAbort, LegacyQuit, LegacyCallback, LegacyCollect, LegacyRestore, LegacyUnmark,
     LegacyDiscard, RecoverLegacy, PurgeLegacy

\* A recovery step keeps a valid main, and rebuilds only a damaged one.
LEMMA RecoveryRebuildsDamage ==
  ASSUME TypeOK, RebuildsOnlyDamage, RecoveryStep
  PROVE  /\ Valid(Final("scop")) => disk'[Final("scop")] = disk[Final("scop")]
         /\ RebuildsOnlyDamage'
  <1>t. /\ FilesOK /\ marker.id \in Gen /\ at \in Comp
    BY DEF TypeOK, FilesOK, Marker
  <1>1. CASE Recover
    BY <1>1 DEF Recover, Rebuild, Return, Complete, Goto, KeepFiles, Valid, RebuildsOnlyDamage,
           LegacyLabel
  <1>2. CASE StageRecovery
    <2>1. disk'[Final("scop")] = disk[Final("scop")]
      BY <1>2, <1>t, KeepsMain, MainApart DEF StageRecovery
    <2>2. pc' \notin LegacyLabel /\ marker' = marker
      BY <1>2 DEF StageRecovery, Return, Goto, Advance, RebuildsOnlyDamage, LegacyLabel
    <2>3. ~Valid(Final("scop"))
      BY <1>2 DEF StageRecovery, RebuildsOnlyDamage
    <2> QED BY <2>1, <2>2, <2>3 DEF RebuildsOnlyDamage, Valid
  <1>3. CASE InstallRecovery
    <2>1. ~Valid(Final("scop"))
      BY <1>3 DEF InstallRecovery, RebuildsOnlyDamage
    <2>2. pc' \notin LegacyLabel /\ marker' = marker
      BY <1>3 DEF InstallRecovery, Return, Goto, Advance, RebuildsOnlyDamage, LegacyLabel
    <2>3. CASE pc' = "rec_install"
      <3>1. at # "scop" /\ (Move(Staged(at), Final(at)) \/ Delete(Final(at)))
        BY <1>3, <2>3 DEF InstallRecovery, Return, Goto, Advance, Last, CompanionsFirst
      <3>2. disk'[Final("scop")] = disk[Final("scop")]
        BY <3>1, <1>t, MainApart, KeepsMain DEF Move, FilesOK
      <3> QED BY <2>1, <2>2, <3>2 DEF RebuildsOnlyDamage, Valid
    <2>4. CASE pc' # "rec_install"
      <3>1. pc' # "rec_stage"
        BY <1>3 DEF InstallRecovery, Return, Goto, Advance
      <3> QED BY <2>1, <2>2, <2>4, <3>1 DEF RebuildsOnlyDamage
    <2> QED BY <2>1, <2>3, <2>4
  <1>4. CASE CleanRecovered
    <2>1. disk'[Final("scop")] = disk[Final("scop")]
      BY <1>4, <1>t, KeepsMain, MainApart DEF CleanRecovered
    <2> QED BY <1>4, <2>1 DEF CleanRecovered, Advance, Goto, RebuildsOnlyDamage, LegacyLabel
  <1>5. CASE UnmarkRecovered
    BY <1>5 DEF UnmarkRecovered, DropMarker, KeepMarker, PutMarker, KeepFiles, Unmarked, Return,
           Goto, RebuildsOnlyDamage, LegacyLabel
  <1> QED BY <1>1, <1>2, <1>3, <1>4, <1>5, NoLegacyStep DEF RecoveryStep

\* NeverGoesBack: where no script uses the destructive legacy callback, recovery
\* never replaces a valid main save, whatever fails and whenever it is cut off.
THEOREM NeverGoesBack ==
  ASSUME "legacy" \notin Captures
  PROVE  Spec => RecoveryKeepsMain
  <1>1. Init => RebuildsOnlyDamage
    BY DEF Init, RebuildsOnlyDamage, LegacyLabel, Unmarked
  <1>2. TypeOK /\ RebuildsOnlyDamage /\ [Next]_vars => RebuildsOnlyDamage'
    <2> SUFFICES ASSUME TypeOK, RebuildsOnlyDamage, [Next]_vars PROVE RebuildsOnlyDamage'
      OBVIOUS
    <2>1. CASE WriterStep
      BY <2>1, WriterRebuildsNothing DEF RebuildsOnlyDamage
    <2>2. CASE RecoveryStep
      BY <2>2, RecoveryRebuildsDamage
    <2>3. CASE BeginLegacy \/ RequestRecovery \/ \E custom \in BOOLEAN : BeginSave(custom)
      BY <2>3 DEF BeginLegacy, RequestRecovery, BeginSave, Goto, RebuildsOnlyDamage, LegacyLabel
    <2>4. CASE Kill \/ LosePower
      <3>1. pc' = "idle"
        BY <2>4 DEF Kill, LosePower, Forget, Goto
      <3>2. ~marker'.legacy
        BY <2>4, PlainMarkers DEF Kill, LosePower, RebuildsOnlyDamage, LegacyLabel
      <3> QED BY <3>1, <3>2 DEF RebuildsOnlyDamage, LegacyLabel
    <2>5. CASE Quiet \/ UNCHANGED vars
      BY <2>5 DEF Quiet, vars, RebuildsOnlyDamage, Valid
    <2> QED BY <2>1, <2>2, <2>3, <2>4, <2>5, NoLegacyStep DEF Next
  <1>3. TypeOK /\ RebuildsOnlyDamage
          => (RecoveryStep /\ Valid(Final("scop")) => disk'[Final("scop")] = disk[Final("scop")])
    BY RecoveryRebuildsDamage
  <1> QED BY <1>1, <1>2, <1>3, TypeCorrect, PTL DEF Spec, RecoveryKeepsMain
-----------------------------------------------------------------------------
(* What a save reported as done or as failed means, for every way to capture  *)
(* it and every kind of crash.                                                *)

Saving     == {"start", "early_custom", "early_backup", "early_main", "encode", "temps", "check"}
Committing == {"preflight", "backup", "marker"}
Installing == {"drop_main", "install", "done", "restore"}
Recovering == {"recover", "rec_legacy", "rec_purge", "rec_stage", "rec_install", "rec_clean", "rec_unmark"}
Capturing  == {"legacy_marker", "legacy_preserve", "legacy_abort", "legacy_quit", "legacy_callback",
               "legacy_collect", "legacy_restore", "legacy_unmark", "legacy_discard"}
Working    == Saving \cup Committing \cup Installing \cup Capturing \cup {"unmark", "cleanup"}

\* The marker a job meets is that of an older save.
IdsOK ==
    /\ job.id <= saves /\ marker.id <= saves
    /\ pc \in Working => job.id # 0
    /\ job.caller = "commit" => job.id # 0
    /\ pc = "idle" => job = NoJob
    /\ job.id # 0 /\ pc \in Saving \cup Committing \cup Recovering => marker.id < job.id

\* No main file is younger than the last save begun, and none shows the save
\* in progress before it is done.
MainNames == {Final("scop"), Bak("scop"), Staged("scop")}
Ages ==
    /\ \A f \in MainNames : disk[f] \in Gen => disk[f] <= saves
    /\ \A g \in Gen : disk[Temp(g, "scop")] \in {Absent, Torn, g}
Fresh == job.id # 0 /\ pc # "done" => \A f \in MainNames : disk[f] # job.id

FreshInv == IdsOK /\ Ages /\ Fresh

\* The names of the files of a slot are all different.
LEMMA Apart ==
  ASSUME NEW c \in Comp, NEW d \in Comp, NEW g, NEW h
  PROVE  /\ Final(c) = Final(d) => c = d
         /\ Bak(c) = Bak(d) => c = d
         /\ Staged(c) = Staged(d) => c = d
         /\ Temp(g, c) = Temp(h, d) => g = h /\ c = d
         /\ Final(c) # Bak(d) /\ Final(c) # Staged(d) /\ Final(c) # Temp(g, d)
         /\ Bak(c) # Staged(d) /\ Bak(c) # Temp(g, d) /\ Staged(c) # Temp(g, d)
         /\ Preserved(g) # Final(c) /\ Preserved(g) # Bak(c) /\ Preserved(g) # Staged(c)
         /\ Preserved(g) # Temp(h, c)
         /\ CallbackTmp # Final(c) /\ CallbackTmp # Bak(c) /\ CallbackTmp # Staged(c)
         /\ CallbackTmp # Temp(h, c)
         /\ CallbackTmp # Preserved(g)
         /\ MarkerFile # Final(c) /\ MarkerFile # Bak(c) /\ MarkerFile # Staged(c) /\ MarkerFile # Temp(h, c)
  BY DEF Final, Bak, Staged, Temp, Preserved, CallbackTmp, MarkerFile, Comp

LEMMA PutEffect ==
  ASSUME FilesOK, NEW f \in File, NEW v, Put(f, v) \/ PutLazy(f, v)
  PROVE  /\ disk'[f] = v
         /\ \A x \in File : x # f => disk'[x] = disk[x]
         /\ Put(f, v) => dirty' = dirty \ {f}
         /\ dirty' \subseteq dirty \cup {f}
  BY DEF Put, PutLazy, FilesOK

LEMMA DeleteEffect ==
  ASSUME FilesOK, NEW f \in File, Delete(f)
  PROVE  /\ disk'[f] = Absent
         /\ \A x \in File : x # f => disk'[x] = disk[x]
         /\ dirty' = dirty \ {f}
  BY PutEffect DEF Delete

LEMMA BotchEffect ==
  ASSUME FilesOK, NEW f \in File, NEW v, Botch(f, v)
  PROVE  /\ disk'[f] \in {disk[f], Absent, Torn, v}
         /\ \A x \in File : x # f => disk'[x] = disk[x]
         /\ dirty' \subseteq dirty \cup {f}
  BY PutEffect DEF Botch

LEMMA MoveEffect ==
  ASSUME FilesOK, NEW s \in File, NEW d \in File, s # d, Move(s, d)
  PROVE  /\ disk'[d] = disk[s] /\ disk'[s] = Absent
         /\ \A x \in File : x # s /\ x # d => disk'[x] = disk[x]
         /\ dirty' \subseteq dirty \cup {d}
         /\ s \notin dirty => dirty' = dirty \ {d}
  BY DEF Move, FilesOK

LEMMA KeepEffect ==
  ASSUME FilesOK, NEW f \in File, Flush(f) \/ KeepFiles
  PROVE  disk' = disk /\ dirty' \subseteq dirty
  BY DEF Flush, KeepFiles

LEMMA MarkEffect ==
  ASSUME FilesOK, NEW m, PutMarker(m) \/ BotchMarker(m) \/ DropMarker \/ KeepMarker
  PROVE  /\ disk' = disk /\ dirty' \subseteq dirty \cup {MarkerFile}
         /\ marker' \in {marker, m, Unmarked("invalid"), Unmarked("missing")}
  BY DEF PutMarker, BotchMarker, DropMarker, KeepMarker, KeepFiles, FilesOK

LEMMA IdsTyped ==
  ASSUME TypeOK
  PROVE  job.id \in Nat /\ marker.id \in Nat /\ saves \in Nat
         /\ NewMarker.id = job.id /\ NoJob.id = 0 /\ \A s : Unmarked(s).id = 0 
         /\ NoJob.caller # "commit"
  BY DEF TypeOK, Marker, Job, Gen, NewMarker, NoJob, Unmarked

\* A rebuild changes only what the job knows of its sources.
SameJob == /\ job'.id = job.id /\ job'.caller = job.caller /\ job'.custom = job.custom
           /\ job'.staged = job.staged /\ job'.durable = job.durable
           /\ job'.backups = job.backups /\ job'.had = job.had

LEMMA RebuildIds ==
  ASSUME TypeOK, Rebuild
  PROVE  \/ Goto("rec_stage") /\ SameJob
         \/ Return(FALSE)
  <1>1. \A s, e : LET new == [job EXCEPT !.source = s, !.expect = e] IN
                    /\ new.id = job.id /\ new.caller = job.caller /\ new.custom = job.custom
                    /\ new.staged = job.staged /\ new.durable = job.durable
                    /\ new.backups = job.backups /\ new.had = job.had
    BY DEF TypeOK, Job
  <1>2. ASSUME NEW s, NEW e, job' = [job EXCEPT !.source = s, !.expect = e] PROVE SameJob
    BY <1>1, <1>2 DEF SameJob
  <1> QED BY <1>2 DEF Rebuild

LEMMA IdsStep ==
  ASSUME TypeOK, IdsOK, JobSteps
  PROVE  IdsOK'
  <1> USE IdsTyped, SaveTransactionAssumption
      DEF IdsOK, Working, Saving, Committing, Installing, Recovering, Capturing, Goto, Rest
  <1>1. CASE WriterStep
    <2>1. CASE StartJob
      BY <2>1 DEF StartJob
    <2>2. CASE EarlyCustom
      BY <2>2 DEF EarlyCustom, TypeOK, Job
    <2>3. CASE EarlyBackup
      BY <2>3 DEF EarlyBackup, Advance, TypeOK, Job
    <2>4. CASE EarlyMain
      BY <2>4 DEF EarlyMain, TypeOK, Job
    <2>5. CASE Encode
      BY <2>5 DEF Encode
    <2>6. CASE WriteTemp
      BY <2>6 DEF WriteTemp, Advance
    <2>7. CASE CheckMarker
      BY <2>7 DEF CheckMarker, TypeOK, Job
    <2>8. CASE Preflight
      BY <2>8 DEF Preflight, Advance, TypeOK, Job
    <2>9. CASE BackUp
      BY <2>9 DEF BackUp, Advance
    <2>10. CASE WriteMarker
      BY <2>10, NewMarkerTyped DEF WriteMarker, PutMarker, BotchMarker, TypeOK
    <2>11. CASE DropMain
      BY <2>11 DEF DropMain
    <2>12. CASE Install
      BY <2>12 DEF Install, Advance
    <2>13. CASE Succeed
      BY <2>13 DEF Succeed, DropMarker, PutMarker, KeepMarker
    <2>14. CASE RestorePrevious
      BY <2>14 DEF RestorePrevious, Advance
    <2>15. CASE Unmark
      BY <2>15 DEF Unmark, DropMarker, PutMarker, KeepMarker
    <2>16. CASE CleanUp
      BY <2>16 DEF CleanUp, Advance, Last, CompanionsFirst
    <2> QED BY <1>1, <2>1, <2>2, <2>3, <2>4, <2>5, <2>6, <2>7, <2>8, <2>9, <2>10, <2>11,
         <2>12, <2>13, <2>14, <2>15, <2>16 DEF WriterStep
  <1>2. CASE LegacyStep
    <2>1. CASE LegacyMarker
      BY <2>1 DEF LegacyMarker, PutMarker, BotchMarker
    <2>2. CASE LegacyPreserve
      BY <2>2 DEF LegacyPreserve
    <2>3. CASE LegacyAbort
      BY <2>3 DEF LegacyAbort
    <2>4. CASE LegacyQuit
      BY <2>4 DEF LegacyQuit, DropMarker, PutMarker, KeepMarker
    <2>5. CASE LegacyCallback
      BY <2>5 DEF LegacyCallback
    <2>6. CASE LegacyCollect
      BY <2>6 DEF LegacyCollect, TypeOK, Job
    <2>7. CASE LegacyRestore
      BY <2>7 DEF LegacyRestore
    <2>8. CASE LegacyUnmark
      <3>1. job'.id \in {job.id, 0} /\ (job'.id = 0 => job' = job) /\ job'.caller = job.caller
        BY <2>8 DEF LegacyUnmark, TypeOK, Job
      <3>2. marker'.id \in {marker.id, 0} /\ (pc' = "start" => marker'.id = 0) /\ saves' = saves
        BY <2>8 DEF LegacyUnmark, DropMarker, PutMarker, KeepMarker
      <3> QED BY <2>8, <3>1, <3>2 DEF LegacyUnmark
    <2>9. CASE LegacyDiscard
      BY <2>9 DEF LegacyDiscard
    <2> QED BY <1>2, <2>1, <2>2, <2>3, <2>4, <2>5, <2>6, <2>7, <2>8, <2>9 DEF LegacyStep
  <1>3. CASE RecoveryStep
    <2> USE DEF Return
    <2>1. CASE Recover
      <3>1. CASE Rebuild
        BY RebuildIds, <2>1, <3>1 DEF Recover, SameJob
      <3> QED BY <2>1, <3>1 DEF Recover
    <2>2. CASE RecoverLegacy
      <3>1. CASE Rebuild
        BY RebuildIds, <2>2, <3>1 DEF RecoverLegacy, SameJob
      <3> QED BY <2>2, <3>1 DEF RecoverLegacy
    <2>3. CASE PurgeLegacy
      BY <2>3 DEF PurgeLegacy
    <2>4. CASE StageRecovery
      BY <2>4 DEF StageRecovery, Advance
    <2>5. CASE InstallRecovery
      BY <2>5 DEF InstallRecovery, Advance
    <2>6. CASE CleanRecovered
      BY <2>6 DEF CleanRecovered, Advance
    <2>7. CASE UnmarkRecovered
      BY <2>7 DEF UnmarkRecovered, DropMarker, PutMarker, KeepMarker
    <2> QED BY <1>3, <2>1, <2>2, <2>3, <2>4, <2>5, <2>6, <2>7 DEF RecoveryStep
  <1> QED BY <1>1, <1>2, <1>3 DEF JobSteps

LEMMA IdsOthers ==
  ASSUME TypeOK, IdsOK,
         BeginLegacy \/ RequestRecovery \/ (\E custom \in BOOLEAN : BeginSave(custom)) \/ Kill \/ LosePower
  PROVE  IdsOK'
  <1> USE IdsTyped, SaveTransactionAssumption
      DEF IdsOK, Working, Saving, Committing, Installing, Recovering, Capturing, Goto
  <1>1. CASE BeginLegacy
    BY <1>1 DEF BeginLegacy, NoJob, TypeOK, Gen
  <1>2. CASE RequestRecovery
    BY <1>2 DEF RequestRecovery, Rest
  <1>3. ASSUME NEW custom \in BOOLEAN, BeginSave(custom) PROVE IdsOK'
    <2>1. job' = [NoJob EXCEPT !.id = saves + 1, !.custom = custom]
      BY <1>3 DEF BeginSave
    <2>3. job'.id = saves + 1 /\ job'.caller # "commit"
      BY <2>1, NoJobTyped DEF Job
    <2>4. saves + 1 \in Nat /\ saves + 1 # 0
      OBVIOUS
    <2>2. saves' = saves + 1 /\ marker' = marker /\ pc' = "start"
      BY <1>3 DEF BeginSave
    <2> QED BY <2>3, <2>4, <2>2
  <1>4. CASE Kill \/ LosePower
    <2>1. marker'.id \in {marker.id, 0, job.id} /\ saves' = saves /\ job' = NoJob /\ pc' = "idle"
      BY <1>4 DEF Kill, LosePower, Forget
    <2> QED BY <2>1
  <1> QED BY <1>1, <1>2, <1>3, <1>4

LEMMA JobIds ==
  ASSUME TypeOK, JobSteps
  PROVE  job'.id \in {job.id, 0} /\ (pc = "done" => job'.id = 0)
  <1> USE IdsTyped DEF Return
  <1>0. \A r, e : LET new == [job EXCEPT !.custom = r, !.ready = e] IN new.id = job.id
    BY DEF TypeOK, Job
  <1>1. CASE WriterStep
    BY <1>1 DEF WriterStep, StartJob, EarlyCustom, EarlyBackup, EarlyMain, Encode, WriteTemp,
           CheckMarker, Preflight, BackUp, WriteMarker, DropMain, Install, Succeed,
           RestorePrevious, Unmark, CleanUp, TypeOK, Job
  <1>2. CASE LegacyStep
    BY <1>2 DEF LegacyStep, LegacyMarker, LegacyPreserve, LegacyAbort, LegacyQuit,
           LegacyCallback, LegacyCollect, LegacyRestore, LegacyUnmark, LegacyDiscard, TypeOK, Job
  <1>3. CASE RecoveryStep
    BY <1>3, RebuildIds DEF SameJob, RecoveryStep, Recover, RecoverLegacy, PurgeLegacy, StageRecovery,
           InstallRecovery, CleanRecovered, UnmarkRecovered
  <1> QED BY <1>1, <1>2, <1>3 DEF JobSteps

LEMMA BeginIds ==
  ASSUME TypeOK, IdsOK, BeginLegacy \/ RequestRecovery \/ \E custom \in BOOLEAN : BeginSave(custom)
  PROVE  disk' = disk /\ saves' \in {saves, saves + 1} /\ job'.id \in {0, saves'}
         /\ (job'.id # 0 => saves' = saves + 1)
  <1>1. \A g, h, b : [NoJob EXCEPT !.id = g, !.had = h].id = g /\ [NoJob EXCEPT !.id = g, !.custom = b].id = g
    BY NoJobTyped DEF Job
  <1>2. CASE BeginLegacy
    BY <1>1, <1>2 DEF BeginLegacy
  <1>3. CASE RequestRecovery
    BY <1>3, IdsTyped DEF RequestRecovery, KeepFiles, Rest, IdsOK
  <1>4. ASSUME NEW custom \in BOOLEAN, BeginSave(custom)
        PROVE  disk' = disk /\ saves' = saves + 1 /\ job'.id = saves'
    BY <1>1, <1>4 DEF BeginSave
  <1> QED BY <1>2, <1>3, <1>4

LEMMA OneFile ==
  ASSUME FilesOK, NEW f \in File, NEW v,
         Put(f, v) \/ PutLazy(f, v) \/ Botch(f, v) \/ Delete(f) \/ Flush(f) \/ KeepFiles
  PROVE  \A x \in File : disk'[x] = disk[x] \/ (x = f /\ disk'[x] \in {Absent, Torn, v})
  BY PutEffect, BotchEffect, DeleteEffect, KeepEffect

\* What a step that commits nothing may do to the main files and their temporaries.
Tame ==
    /\ \A f \in MainNames :
          \/ \E x \in MainNames : disk'[f] = disk[x]
          \/ disk'[f] \in {Absent, Torn}
          \/ /\ disk'[f] = marker.id /\ (job.id # 0 => marker.id < job.id)
             /\ pc = "rec_stage" /\ job.source = "new"
          \/ disk'[f] = job.id /\ pc' = "done"
    /\ \A g \in Gen : disk'[Temp(g, "scop")] \in {disk[Temp(g, "scop")], Absent, Torn, g}

LEMMA MainFiles ==
  /\ MainNames \subseteq File
  /\ \A g \in Gen : Temp(g, "scop") \in File /\ Temp(g, "scop") \notin MainNames
  <1>1. "scop" \in Comp
    BY DEF Comp
  <1>2. MainNames \subseteq File /\ \A g \in Gen : Temp(g, "scop") \in File
    BY <1>1 DEF MainNames, File
  <1> QED BY <1>2 DEF MainNames, Final, Bak, Staged, Temp

LEMMA OtherFiles ==
  ASSUME NEW c \in Comp, NEW g
  PROVE  /\ Temp(g, c) \notin MainNames /\ Preserved(g) \notin MainNames
         /\ CallbackTmp \notin MainNames
         /\ c # "scop" => /\ Final(c) \notin MainNames /\ Bak(c) \notin MainNames
                          /\ Staged(c) \notin MainNames
                          /\ \A h : Temp(g, c) # Temp(h, "scop")
  BY DEF MainNames, Final, Bak, Staged, Temp, Preserved, CallbackTmp

LEMMA TameKeeps ==
  ASSUME TypeOK, IdsOK, Ages, Fresh, Tame, saves' = saves,
         job'.id = 0 \/ pc' = "done" \/ (job'.id = job.id /\ pc # "done")
  PROVE  Ages' /\ Fresh'
  <1>1. Absent \notin Gen /\ Torn \notin Gen /\ 0 \in Nat
    BY SaveTransactionAssumption DEF Gen
  <1>2. Absent # job.id /\ Torn # job.id /\ job.id \in Nat /\ marker.id \in Nat /\ saves \in Nat
    BY IdsTyped, SaveTransactionAssumption
  <1>3. Ages'
    BY <1>1, <1>2 DEF Tame, Ages, IdsOK
  <1>4. Fresh'
    BY <1>1, <1>2 DEF Tame, Fresh
  <1> QED BY <1>3, <1>4

\* The ways the actions use the file operations, each tame.
LEMMA WipeTame ==
  ASSUME FilesOK, \A x \in File : disk'[x] \in {disk[x], Absent, Torn}
  PROVE  Tame
  BY MainFiles, OtherFiles DEF Tame

LEMMA DropTame ==
  ASSUME FilesOK, NEW f \in File, Delete(f) \/ Flush(f) \/ KeepFiles
  PROVE  Tame
  BY OneFile, WipeTame DEF Delete, Put, FilesOK, Flush, KeepFiles

LEMMA TempTame ==
  ASSUME FilesOK, NEW c \in Comp, NEW g \in Gen, NEW v, c = "scop" => v = g,
         Put(Temp(g, c), v) \/ PutLazy(Temp(g, c), v) \/ Botch(Temp(g, c), v)
  PROVE  Tame
  <1>1. Temp(g, c) \in File
    BY Names
  <1>2. \A x \in File : disk'[x] = disk[x] \/ (x = Temp(g, c) /\ disk'[x] \in {Absent, Torn, v})
    BY <1>1, OneFile
  <1> QED BY <1>2, MainFiles, OtherFiles, Apart DEF Tame, Comp

\* Any write to a file that is no main file and no temporary of one.
Elsewhere(f) == f \notin MainNames /\ \A g \in Gen : f # Temp(g, "scop")

LEMMA ElsewhereTame ==
  ASSUME FilesOK, NEW f \in File, Elsewhere(f), \A x \in File : x # f => disk'[x] = disk[x]
  PROVE  Tame
  BY MainFiles, OtherFiles DEF Tame, Elsewhere

LEMMA CopyTame ==
  ASSUME FilesOK, NEW c \in Comp, NEW f \in File, NEW s \in File,
         <<f, s>> \in {<<Final(c), Bak(c)>>, <<Bak(c), Final(c)>>, <<Staged(c), Bak(c)>>},
         Put(f, disk[s]) \/ Botch(f, disk[s])
  PROVE  Tame
  <1>1. \A x \in File : disk'[x] = disk[x] \/ (x = f /\ disk'[x] \in {Absent, Torn, disk[s]})
    BY OneFile
  <1>2. CASE c = "scop"
    <2>1. f \in MainNames /\ s \in MainNames
      BY <1>2 DEF MainNames
    <2> QED BY <1>1, <2>1, MainFiles, OtherFiles DEF Tame
  <1>3. CASE c # "scop"
    <2>1. Elsewhere(f)
      BY <1>3, MainFiles, OtherFiles, Apart DEF Elsewhere, Comp
    <2> QED BY <1>1, <2>1, ElsewhereTame
  <1> QED BY <1>2, <1>3

LEMMA MoveTame ==
  ASSUME FilesOK, NEW s \in File, NEW d \in File, s # d, Move(s, d),
         Elsewhere(d) \/ (s \in MainNames /\ d \in MainNames)
  PROVE  Tame
  BY MoveEffect, MainFiles, OtherFiles DEF Tame, Elsewhere

LEMMA TameWriter ==
  ASSUME TypeOK, IdsOK, Ages, WriterStep
  PROVE  Tame
  <1>t. /\ FilesOK /\ StepOK /\ CountersOK /\ marker \in Marker /\ job \in Job
    BY TypeParts
  <1> USE <1>t, JobFiles
  <1>1. CASE StartJob \/ Encode \/ CheckMarker \/ WriteMarker \/ Succeed \/ Unmark
    <2>1. disk' = disk
      BY <1>1 DEF StartJob, Encode, CheckMarker, WriteMarker, Succeed, Unmark, KeepFiles, Flush,
           PutMarker, BotchMarker, DropMarker, KeepMarker
    <2> QED BY <2>1, WipeTame
  <1>2. CASE EarlyCustom
    <2>1. CASE Flush(Temp(job.id, "scoc")) \/ KeepFiles
      BY <2>1, DropTame
    <2> QED BY <1>2, <2>1, TempTame DEF EarlyCustom
  <1>3. CASE EarlyBackup
    BY <1>3, CopyTame DEF EarlyBackup
  <1>4. CASE EarlyMain
    BY <1>4, TempTame DEF EarlyMain
  <1>6. CASE WriteTemp
    BY <1>6, TempTame, DropTame DEF WriteTemp
  <1>8. CASE Preflight
    <2>1. \A x \in File : disk'[x] \in {disk[x], Absent}
      BY <1>8 DEF Preflight, KeepFiles
    <2> QED BY <2>1, WipeTame
  <1>9. CASE BackUp
    BY <1>9, CopyTame, DropTame DEF BackUp
  <1>11. CASE DropMain
    BY <1>11, DropTame DEF DropMain
  <1>12. CASE Install
    <2>1. CASE Move(Temp(job.id, at), Final(at)) /\ Advance("done") /\ pc = "install"
      <3>1. \A x \in File : disk'[x] = disk[x] \/ disk'[x] = Absent
                              \/ (x = Final(at) /\ disk'[x] = disk[Temp(job.id, at)])
        BY <2>1, MoveEffect, Apart
      <3>2. CASE at = "scop"
        <4>1. pc' = "done"
          BY <2>1, <3>2 DEF Advance, Last, CompanionsFirst, Goto
        <4>2. disk[Temp(job.id, at)] \in {Absent, Torn, job.id}
          BY <3>2 DEF Ages
        <4> QED BY <3>1, <3>2, <4>1, <4>2, MainFiles, OtherFiles, Apart DEF Tame
      <3>3. CASE at # "scop"
        BY <2>1, <3>3, MoveTame, MainFiles, OtherFiles, Apart DEF Elsewhere, Comp
      <3> QED BY <3>2, <3>3
    <2> QED BY <1>12, <2>1, DropTame DEF Install
  <1>14. CASE RestorePrevious
    BY <1>14, CopyTame, DropTame DEF RestorePrevious
  <1>16. CASE CleanUp
    BY <1>16, DropTame DEF CleanUp
  <1> QED BY <1>1, <1>2, <1>3, <1>4, <1>6, <1>8, <1>9, <1>11, <1>12, <1>14, <1>16 DEF WriterStep

LEMMA TameLegacy ==
  ASSUME TypeOK, IdsOK, Ages, LegacyStep
  PROVE  Tame
  <1>t. /\ FilesOK /\ StepOK /\ CountersOK /\ marker \in Marker /\ job \in Job
    BY TypeParts
  <1> USE <1>t, JobFiles
  <1>e. /\ Elsewhere(Temp(job.id, "scoc")) /\ Elsewhere(Preserved(job.id))
        /\ Elsewhere(Final("scoc")) /\ Elsewhere(CallbackTmp)
    BY MainFiles, OtherFiles, Apart DEF Elsewhere, Comp
  <1>1. CASE LegacyMarker \/ LegacyQuit \/ LegacyUnmark
    <2>1. disk' = disk
      BY <1>1 DEF LegacyMarker, LegacyQuit, LegacyUnmark, KeepFiles,
           PutMarker, BotchMarker, DropMarker, KeepMarker
    <2> QED BY <2>1, WipeTame
  <1>2. CASE LegacyPreserve
    BY <1>2, <1>e, OneFile, ElsewhereTame DEF LegacyPreserve
  <1>3. CASE LegacyAbort
    BY <1>3, <1>e, Apart, DropTame, MoveTame DEF LegacyAbort
  <1>5. CASE LegacyCallback
    BY <1>5, <1>e, OneFile, ElsewhereTame, DropTame DEF LegacyCallback, CallbackFiles
  <1>6. CASE LegacyCollect
    <2>1. Temp(job.id, "scoc") # CallbackTmp
      BY Apart
    <2>2. CASE Move(CallbackTmp, Temp(job.id, "scoc"))
      BY <2>1, <2>2, <1>e, MoveTame
    <2>3. CASE KeepFiles
      BY <2>3, DropTame
    <2>4. CASE \E v : Put(Temp(job.id, "scoc"), v) \/ Botch(Temp(job.id, "scoc"), v)
      BY <2>4, <1>e, OneFile, ElsewhereTame
    <2> QED BY <1>6, <2>2, <2>3, <2>4 DEF LegacyCollect
  <1>7. CASE LegacyRestore
    BY <1>7, <1>e, Apart, DropTame, MoveTame DEF LegacyRestore
  <1>9. CASE LegacyDiscard
    BY <1>9, DropTame DEF LegacyDiscard
  <1> QED BY <1>1, <1>2, <1>3, <1>5, <1>6, <1>7, <1>9 DEF LegacyStep

LEMMA TameRecovery ==
  ASSUME TypeOK, IdsOK, Ages, RecoveryStep
  PROVE  Tame
  <1>t. /\ FilesOK /\ StepOK /\ CountersOK /\ marker \in Marker /\ job \in Job
    BY TypeParts
  <1> USE <1>t, JobFiles
  <1>1. CASE Recover \/ UnmarkRecovered
    <2>1. disk' = disk
      BY <1>1 DEF Recover, UnmarkRecovered, KeepFiles, PutMarker, DropMarker, KeepMarker
    <2> QED BY <2>1, WipeTame
  <1>2. CASE RecoverLegacy
    <2>1. Elsewhere(Final("scoc"))
      BY MainFiles, OtherFiles, Apart DEF Elsewhere, Comp
    <2> QED BY <1>2, <2>1, Apart, DropTame, MoveTame DEF RecoverLegacy
  <1>3. CASE PurgeLegacy
    <2>1. \A x \in File : disk'[x] \in {disk[x], Absent}
      BY <1>3 DEF PurgeLegacy
    <2> QED BY <2>1, WipeTame
  <1>4. CASE StageRecovery
    <2>1. CASE Delete(Staged(at)) \/ KeepFiles
      BY <2>1, DropTame
    <2>2. CASE Put(Staged(at), disk[RecoverySource(at)]) \/ Botch(Staged(at), disk[RecoverySource(at)])
      <3>1. CASE job.source = "bak"
        BY <2>2, <3>1, CopyTame DEF RecoverySource
      <3>2. CASE job.source # "bak" /\ at = "scop"
        <4>1. RecoverySource(at) = Temp(marker.id, "scop")
          BY <3>2 DEF RecoverySource, NewSource
        <4>2. disk[Temp(marker.id, "scop")] \in {Absent, Torn, marker.id}
          BY DEF Ages
        <4>3. /\ job.id # 0 => marker.id < job.id
              /\ pc = "rec_stage" /\ job.source = "new"
          BY <1>4, <3>2 DEF StageRecovery, IdsOK, Recovering, TypeOK, Job
        <4> QED BY <2>2, <3>2, <4>1, <4>2, <4>3, OneFile, MainFiles, OtherFiles, Apart DEF Tame, MainNames
      <3>3. CASE at # "scop"
        <4>1. Elsewhere(Staged(at))
          BY <3>3, MainFiles, OtherFiles, Apart DEF Elsewhere, Comp
        <4> QED BY <2>2, <4>1, OneFile, ElsewhereTame
      <3> QED BY <3>1, <3>2, <3>3
    <2> QED BY <1>4, <2>1, <2>2 DEF StageRecovery
  <1>5. CASE InstallRecovery
    <2>1. CASE Delete(Final(at)) \/ KeepFiles
      BY <2>1, DropTame
    <2>2. CASE Move(Staged(at), Final(at))
      <3>1. CASE at = "scop"
        BY <2>2, <3>1, Apart, MoveTame DEF MainNames
      <3>2. CASE at # "scop"
        <4>1. Elsewhere(Final(at))
          BY <3>2, MainFiles, OtherFiles, Apart DEF Elsewhere, Comp
        <4> QED BY <2>2, <4>1, Apart, MoveTame
      <3> QED BY <3>1, <3>2
    <2> QED BY <1>5, <2>1, <2>2 DEF InstallRecovery
  <1>6. CASE CleanRecovered
    BY <1>6, DropTame DEF CleanRecovered
  <1> QED BY <1>1, <1>2, <1>3, <1>4, <1>5, <1>6 DEF RecoveryStep

\* A crash leaves each file as it was, torn, or with a write that was on its way.
LEMMA LandedEffect ==
  ASSUME TypeOK, Kill \/ LosePower, NEW f \in File
  PROVE  disk'[f] \in {disk[f], Torn} \/ <<f, disk'[f]>> \in InFlight
  <1>1. CASE Kill
    <2>1. PICK whole \in SUBSET InFlight, partial \in SUBSET InFlight :
              disk' = Landed({w[1] : w \in partial}, whole)
      BY <1>1 DEF Kill
    <2>2. CASE f \in {w[1] : w \in partial}
      BY <2>1, <2>2 DEF Landed
    <2>3. CASE f \notin {w[1] : w \in partial} /\ \E w \in whole : w[1] = f
      <3>1. PICK w \in whole : w = (CHOOSE x \in whole : x[1] = f) /\ w[1] = f
        BY <2>3
      <3>2. disk'[f] = w[2]
        BY <2>1, <2>3, <3>1 DEF Landed
      <3>3. w \in InFlight
        BY <3>1, <2>1
      <3>4. w = <<w[1], w[2]>>
        BY <3>3 DEF InFlight
      <3>5. w[1] = f
        BY <3>1
      <3>6. w = <<f, disk'[f]>>
        BY <3>2, <3>4, <3>5
      <3> QED BY <3>3, <3>6
    <2>4. CASE f \notin {w[1] : w \in partial} /\ ~\E w \in whole : w[1] = f
      BY <2>1, <2>4 DEF Landed
    <2> QED BY <2>2, <2>3, <2>4
  <1>2. CASE LosePower
    BY <1>2 DEF LosePower, Landed
  <1> QED BY <1>1, <1>2

LEMMA InFlightMain ==
  ASSUME TypeOK, NEW f, NEW v, <<f, v>> \in InFlight
  PROVE  /\ f \in MainNames => \/ \E x \in MainNames : v = disk[x]
                              \/ /\ v = disk[Temp(marker.id, "scop")]
                                 /\ pc = "rec_stage" /\ job.source = "new"
         /\ \A g \in Gen : f = Temp(g, "scop") => v = g
  <1>t. /\ FilesOK /\ StepOK /\ CountersOK /\ marker \in Marker /\ job \in Job
    BY TypeParts
  <1> USE <1>t, JobFiles
  <1>1. CASE f = Temp(job.id, "scoc")
    BY <1>1, MainFiles, OtherFiles
  <1>2. CASE f = Temp(job.id, at) /\ v = job.id
    BY <1>2, MainFiles, OtherFiles, Apart
  <1>3. CASE f \in {Preserved(job.id), CallbackTmp, Final("scoc")}
    BY <1>3, MainFiles, OtherFiles, Apart DEF Comp
  <1>4. CASE <<f, v>> \in {<<Bak(at), disk[Final(at)]>>, <<Final(at), disk[Bak(at)]>>}
    BY <1>4, MainFiles, OtherFiles, Apart DEF MainNames
  <1>6. CASE pc = "rec_stage" /\ <<f, v>> = <<Staged(at), disk[RecoverySource(at)]>>
    <2>1. f = Staged(at) /\ v = disk[RecoverySource(at)]
      BY <1>6
    <2>2. job.source \in {"bak", "new"}
      BY DEF TypeOK, Job
    <2> QED BY <1>6, <2>1, <2>2, MainFiles, OtherFiles, Apart DEF MainNames, RecoverySource, NewSource
  <1>5. CASE <<f, v>> = <<Temp(job.id, "scop"), job.id>>
    BY <1>5, MainFiles, OtherFiles, Apart
  <1> QED BY <1>1, <1>2, <1>3, <1>4, <1>5, <1>6 DEF InFlight, CallbackFiles

LEMMA TameCrash ==
  ASSUME TypeOK, IdsOK, Ages, Kill \/ LosePower
  PROVE  Ages' /\ Fresh'
  <1>t. /\ FilesOK /\ StepOK /\ CountersOK /\ marker \in Marker /\ job \in Job
    BY TypeParts
  <1>1. job'.id = 0 /\ saves' = saves
    BY IdsTyped DEF Kill, LosePower, Forget
  <1>2. ASSUME NEW f \in MainNames, disk'[f] \in Gen PROVE disk'[f] <= saves
    <2>1. f \in File /\ Torn \notin Gen /\ Absent \notin Gen
      BY MainFiles, OtherFiles, SaveTransactionAssumption DEF Gen
    <2>2. CASE <<f, disk'[f]>> \in InFlight
      <3>1. \/ \E x \in MainNames : disk'[f] = disk[x]
            \/ disk'[f] = disk[Temp(marker.id, "scop")]
        BY <2>2, InFlightMain
      <3>2. disk[Temp(marker.id, "scop")] \in {Absent, Torn, marker.id}
        BY <1>t, JobFiles DEF Ages
      <3> QED BY <1>2, <2>1, <3>1, <3>2 DEF Ages, IdsOK
    <2> QED BY <1>2, <2>1, <2>2, LandedEffect DEF Ages
  <1>3. ASSUME NEW g \in Gen PROVE disk'[Temp(g, "scop")] \in {Absent, Torn, g}
    <2>1. Temp(g, "scop") \in File
      BY MainFiles, OtherFiles
    <2> QED BY <2>1, LandedEffect, InFlightMain DEF Ages
  <1> QED BY <1>1, <1>2, <1>3 DEF Ages, Fresh

LEMMA FreshInductive ==
  ASSUME TypeOK, FreshInv, [Next]_vars
  PROVE  FreshInv'
  <1> USE DEF FreshInv
  <1>1. CASE JobSteps
    <2>1. Tame
      BY <1>1, TameWriter, TameLegacy, TameRecovery DEF JobSteps
    <2>2. saves' = saves
      BY <1>1 DEF JobSteps, WriterStep, StartJob, EarlyCustom, EarlyBackup, EarlyMain, Encode,
           WriteTemp, CheckMarker, Preflight, BackUp, WriteMarker, DropMain, Install, Succeed,
           RestorePrevious, Unmark, CleanUp, LegacyStep, LegacyMarker, LegacyPreserve,
           LegacyAbort, LegacyQuit, LegacyCallback, LegacyCollect, LegacyRestore,
           LegacyUnmark, LegacyDiscard, RecoveryStep, Recover, RecoverLegacy, PurgeLegacy,
           StageRecovery, InstallRecovery, CleanRecovered, UnmarkRecovered, Rest
    <2>3. job'.id \in {job.id, 0} /\ (pc = "done" => job'.id = 0)
      BY <1>1, JobIds
    <2>4. IdsOK'
      BY <1>1, IdsStep
    <2> QED BY <2>1, <2>2, <2>3, <2>4, TameKeeps
  <1>2. CASE BeginLegacy \/ RequestRecovery \/ \E custom \in BOOLEAN : BeginSave(custom)
    <2>1. IdsOK'
      BY <1>2, IdsOthers
    <2>2. /\ disk' = disk /\ saves' \in {saves, saves + 1}
          /\ job'.id \in {0, saves'} /\ (job'.id # 0 => saves' = saves + 1)
      BY <1>2, BeginIds
    <2>3. job'.id \in Gen /\ saves \in Nat /\ \A g \in Gen : g \in Nat
      BY <1>2, RequestsTyped, IdsTyped DEF TypeOK, Job, Gen
    <2>4. Ages' /\ Fresh'
      BY <2>2, <2>3 DEF Ages, Fresh
    <2> QED BY <2>1, <2>4
  <1>3. CASE Kill \/ LosePower
    BY <1>3, IdsOthers, TameCrash
  <1>4. CASE Quiet \/ UNCHANGED vars
    BY <1>4 DEF Quiet, vars, IdsOK, Ages, Fresh
  <1> QED BY <1>1, <1>2, <1>3, <1>4 DEF Next, JobSteps

LEMMA FreshAlways == Spec => []FreshInv
  <1>1. ASSUME Init PROVE FreshInv
    <2>1. IdsOK /\ Fresh
      BY <1>1 DEF Init, IdsOK, Fresh, NoJob, Unmarked, Working, Saving, Committing, Installing,
           Recovering, Capturing
    <2>2. PICK first \in FirstGroups :
            disk = [f \in File |-> IF \E c \in first : f = Final(c) THEN 0 ELSE Absent]
      BY <1>1 DEF Init
    <2>3. \A f \in File : disk[f] \in {0, Absent} /\ saves = 0
      BY <1>1, <2>2 DEF Init
    <2>4. \A g \in Gen : disk[Temp(g, "scop")] = Absent
      <3>1. "scop" \in Comp /\ first \subseteq Comp
        BY SaveTransactionAssumption DEF Comp
      <3>2. \A g \in Gen, c \in first : Final(c) # Temp(g, "scop")
        BY <3>1, Apart
      <3> QED BY <2>2, <3>2, MainFiles, OtherFiles
    <2>5. Ages
      BY <2>3, <2>4, MainFiles, OtherFiles, SaveTransactionAssumption DEF Ages, Gen
    <2> QED BY <2>1, <2>5 DEF FreshInv
  <1> QED BY <1>1, FreshInductive, TypeCorrect, PTL DEF Spec

-----------------------------------------------------------------------------
(* A save reported as failed.  Its files are in no main name, nothing but the *)
(* save in progress and a rebuild brings a temporary under one, and a marker  *)
(* that leads a rebuild to temporaries is never that of a failed save.        *)

\* A rebuild from temporary files is that of a first save's marker.
NewOnly == pc = "rec_stage" /\ job.source = "new" => ~marker.legacy /\ "scop" \notin marker.prev

\* What holds of a failed save for good.
Gone(g) == /\ g \in Gen /\ g # 0 /\ g <= saves /\ g # job.id
           /\ \A f \in MainNames : disk[f] # g
           /\ marker.id = g => marker.legacy \/ "scop" \in marker.prev

Forgone == NewOnly /\ \A g \in failed : Gone(g)

LEMMA RebuildNew ==
  ASSUME TypeOK, Rebuild, pc # "rec_stage", marker' = marker
  PROVE  NewOnly'
  <1>1. \A s, e : [job EXCEPT !.source = s, !.expect = e].source = s
    BY DEF TypeOK, Job
  <1>2. CASE Finishable
    BY <1>2 DEF Finishable, NewOnly
  <1>3. CASE ~Finishable
    <2>1. pc' = "rec_stage" => job'.source = "bak"
      BY <1>1, <1>3 DEF Rebuild, Return, Goto
    <2> QED BY <2>1 DEF NewOnly
  <1> QED BY <1>2, <1>3

LEMMA NewOnlyStep ==
  ASSUME TypeOK, NewOnly, [Next]_vars
  PROVE  NewOnly'
  <1>1. CASE WriterStep
    <2>1. pc' # "rec_stage"
      BY <1>1 DEF WriterStep, StartJob, EarlyCustom, EarlyBackup, EarlyMain, Encode, WriteTemp,
           CheckMarker, Preflight, BackUp, WriteMarker, DropMain, Install, Succeed,
           RestorePrevious, Unmark, CleanUp, Goto, Advance
    <2> QED BY <2>1 DEF NewOnly
  <1>2. CASE LegacyStep
    <2>1. pc' # "rec_stage"
      BY <1>2 DEF LegacyStep, LegacyMarker, LegacyPreserve, LegacyAbort, LegacyQuit,
           LegacyCallback, LegacyCollect, LegacyRestore, LegacyUnmark, LegacyDiscard, Goto
    <2> QED BY <2>1 DEF NewOnly
  <1>3. CASE RecoveryStep
    <2>1. CASE Recover
      <3>1. CASE Rebuild
        BY <2>1, <3>1, RebuildNew DEF Recover
      <3>2. CASE ~Rebuild
        <4>1. pc' # "rec_stage"
          BY <2>1, <3>2 DEF Recover, Return, Goto
        <4> QED BY <4>1 DEF NewOnly
      <3> QED BY <3>1, <3>2
    <2>2. CASE RecoverLegacy
      <3>1. CASE Rebuild
        BY <2>2, <3>1, RebuildNew DEF RecoverLegacy
      <3>2. CASE ~Rebuild
        <4>1. pc' # "rec_stage"
          BY <2>2, <3>2 DEF RecoverLegacy, Goto
        <4> QED BY <4>1 DEF NewOnly
      <3> QED BY <3>1, <3>2
    <2>3. CASE StageRecovery
      <3>1. pc = "rec_stage" /\ marker' = marker /\ (pc' = "rec_stage" => job' = job)
        BY <2>3 DEF StageRecovery, Return, Goto
      <3> QED BY <3>1 DEF NewOnly
    <2>4. CASE PurgeLegacy \/ InstallRecovery \/ CleanRecovered \/ UnmarkRecovered
      <3>1. pc' # "rec_stage"
        BY <2>4 DEF PurgeLegacy, InstallRecovery, CleanRecovered, UnmarkRecovered, Return, Goto,
             Advance
      <3> QED BY <3>1 DEF NewOnly
    <2> QED BY <1>3, <2>1, <2>2, <2>3, <2>4 DEF RecoveryStep
  <1>4. CASE BeginLegacy \/ RequestRecovery \/ (\E custom \in BOOLEAN : BeginSave(custom))
             \/ Kill \/ LosePower
    <2>1. pc' \in {"legacy_marker", "recover", "start", "idle"}
      <3>1. CASE BeginLegacy
        BY <3>1 DEF BeginLegacy, Goto
      <3>2. CASE RequestRecovery
        BY <3>2 DEF RequestRecovery, Goto
      <3>3. CASE \E custom \in BOOLEAN : BeginSave(custom)
        BY <3>3 DEF BeginSave, Goto
      <3>4. CASE Kill \/ LosePower
        BY <3>4 DEF Kill, LosePower, Forget, Goto
      <3> QED BY <1>4, <3>1, <3>2, <3>3, <3>4
    <2> QED BY <2>1 DEF NewOnly
  <1>5. CASE Quiet \/ UNCHANGED vars
    BY <1>5 DEF Quiet, vars, NewOnly
  <1> QED BY <1>1, <1>2, <1>3, <1>4, <1>5 DEF Next

\* Every step keeps the marker, removes or damages it, or writes the job's own.
LEMMA MarkerStep ==
  ASSUME [Next]_vars
  PROVE  marker' \in {marker, NewMarker, Unmarked("missing"), Unmarked("invalid")}
  <1> USE DEF PutMarker, BotchMarker, DropMarker, KeepMarker
  <1>1. CASE WriterStep
    BY <1>1 DEF WriterStep, StartJob, EarlyCustom, EarlyBackup, EarlyMain, Encode, WriteTemp,
         CheckMarker, Preflight, BackUp, WriteMarker, DropMain, Install, Succeed,
         RestorePrevious, Unmark, CleanUp
  <1>2. CASE LegacyStep
    BY <1>2 DEF LegacyStep, LegacyMarker, LegacyPreserve, LegacyAbort, LegacyQuit,
         LegacyCallback, LegacyCollect, LegacyRestore, LegacyUnmark, LegacyDiscard
  <1>3. CASE RecoveryStep
    BY <1>3 DEF RecoveryStep, Recover, RecoverLegacy, PurgeLegacy, StageRecovery,
         InstallRecovery, CleanRecovered, UnmarkRecovered
  <1>4. CASE BeginLegacy \/ RequestRecovery \/ \E custom \in BOOLEAN : BeginSave(custom)
    <2>1. ASSUME NEW custom \in BOOLEAN, BeginSave(custom) PROVE marker' = marker
      BY <2>1 DEF BeginSave
    <2>2. ASSUME BeginLegacy PROVE marker' = marker
      BY <2>2 DEF BeginLegacy
    <2> QED BY <1>4, <2>1, <2>2 DEF RequestRecovery
  <1>5. CASE Kill \/ LosePower
    BY <1>5 DEF Kill, LosePower
  <1>6. CASE Quiet \/ UNCHANGED vars
    BY <1>6 DEF Quiet, vars
  <1> QED BY <1>1, <1>2, <1>3, <1>4, <1>5, <1>6 DEF Next

\* No step brings a failed save under a main name: not the save in progress,
\* which is another, and not a rebuild, whose marker is another's.
LEMMA MainStaysGone ==
  ASSUME TypeOK, FreshInv, NewOnly, [Next]_vars, NEW g, Gone(g), NEW f \in MainNames
  PROVE  disk'[f] # g
  <1>1. f \in File /\ g # Absent /\ g # Torn /\ \A x \in MainNames : disk[x] # g
    BY MainFiles, SaveTransactionAssumption DEF Gone, Gen
  <1>2. ~(pc = "rec_stage" /\ job.source = "new" /\ marker.id = g) /\ g # job.id
    BY DEF Gone, NewOnly
  <1>3. CASE JobSteps
    <2>1. Tame
      BY <1>3, TameWriter, TameLegacy, TameRecovery DEF JobSteps, FreshInv
    <2> QED BY <1>1, <1>2, <2>1 DEF Tame
  <1>4. CASE BeginLegacy \/ RequestRecovery \/ \E custom \in BOOLEAN : BeginSave(custom)
    BY <1>1, <1>4, BeginIds DEF FreshInv
  <1>5. CASE Kill \/ LosePower
    <2>1. CASE <<f, disk'[f]>> \in InFlight
      <3>1. \/ \E x \in MainNames : disk'[f] = disk[x]
            \/ /\ disk'[f] = disk[Temp(marker.id, "scop")]
               /\ pc = "rec_stage" /\ job.source = "new"
        BY <2>1, InFlightMain
      <3>2. disk[Temp(marker.id, "scop")] \in {Absent, Torn, marker.id}
        BY DEF FreshInv, Ages, TypeOK, Marker
      <3> QED BY <1>1, <1>2, <3>1, <3>2
    <2> QED BY <1>1, <1>5, <2>1, LandedEffect
  <1>6. CASE Quiet \/ UNCHANGED vars
    BY <1>1, <1>6 DEF Quiet, vars
  <1> QED BY <1>3, <1>4, <1>5, <1>6 DEF Next, JobSteps

\* No step takes up the name of a failed save again.
LEMMA NamesStayGone ==
  ASSUME TypeOK, FreshInv, [Next]_vars, NEW g, Gone(g)
  PROVE  g <= saves' /\ g # job'.id
  <1>1. g \in Nat /\ g # 0 /\ g <= saves /\ g # job.id /\ saves \in Nat
    BY IdsTyped DEF Gone, Gen
  <1>2. CASE JobSteps
    <2>1. saves' = saves
      BY <1>2 DEF JobSteps, WriterStep, StartJob, EarlyCustom, EarlyBackup, EarlyMain, Encode,
           WriteTemp, CheckMarker, Preflight, BackUp, WriteMarker, DropMain, Install, Succeed,
           RestorePrevious, Unmark, CleanUp, LegacyStep, LegacyMarker, LegacyPreserve,
           LegacyAbort, LegacyQuit, LegacyCallback, LegacyCollect, LegacyRestore,
           LegacyUnmark, LegacyDiscard, RecoveryStep, Recover, RecoverLegacy, PurgeLegacy,
           StageRecovery, InstallRecovery, CleanRecovered, UnmarkRecovered, Rest
    <2> QED BY <1>1, <1>2, <2>1, JobIds
  <1>3. CASE BeginLegacy \/ RequestRecovery \/ \E custom \in BOOLEAN : BeginSave(custom)
    BY <1>1, <1>3, BeginIds DEF FreshInv
  <1>4. CASE Kill \/ LosePower
    BY <1>1, <1>4, IdsTyped DEF Kill, LosePower, Forget
  <1>5. CASE Quiet \/ UNCHANGED vars
    BY <1>1, <1>5 DEF Quiet, vars
  <1> QED BY <1>2, <1>3, <1>4, <1>5 DEF Next, JobSteps

LEMMA GoneStays ==
  ASSUME TypeOK, FreshInv, NewOnly, [Next]_vars, NEW g, Gone(g)
  PROVE  Gone(g)'
  <1>1. marker'.id = g => marker' = marker
    BY MarkerStep, IdsTyped DEF Gone
  <1> QED BY <1>1, MainStaysGone, NamesStayGone DEF Gone

\* The step that reports a failure leaves nothing under a main name.
LEMMA ReportedGone ==
  ASSUME TypeOK, FreshInv, ReportsFailure, ~Unfinished, NEW g, g = job.id
  PROVE  Gone(g)'
  <1>1. /\ pc \in {"cleanup", "legacy_quit", "legacy_discard"} /\ pc' = "idle"
        /\ saves' = saves /\ job' = NoJob
    BY DEF ReportsFailure, CleanUp, LegacyQuit, LegacyDiscard, Rest, Advance, Goto, Last,
       CompanionsFirst
  <1>2. /\ job.id \in Gen /\ job.id # 0 /\ job.id <= saves
        /\ \A f \in MainNames : disk[f] # job.id
    BY <1>1 DEF TypeOK, Job, FreshInv, IdsOK, Fresh, Working, Capturing
  <1>3. job.id # Absent /\ job.id # Torn
    BY <1>2, SaveTransactionAssumption DEF Gen
  <1>4. ASSUME NEW f \in MainNames PROVE disk'[f] # job.id
    <2>1. Tame
      BY TameWriter, TameLegacy DEF ReportsFailure, WriterStep, LegacyStep, FreshInv
    <2> QED BY <1>1, <1>2, <1>3, <2>1 DEF Tame
  <1>5. marker' = marker \/ marker'.id = 0
    BY IdsTyped DEF ReportsFailure, CleanUp, LegacyQuit, LegacyDiscard, DropMarker, KeepMarker,
       PutMarker
  <1>6. marker'.id = job.id => marker'.legacy \/ "scop" \in marker'.prev
    BY <1>2, <1>5 DEF Unfinished
  <1>7. job'.id = 0
    BY <1>1, IdsTyped
  <1> QED BY <1>1, <1>2, <1>4, <1>6, <1>7 DEF Gone

\* FailuresStayFailed: a save reported as failed never becomes what the slot
\* shows: however it was captured, whatever failed, and whatever crashes, saves
\* and recoveries follow the report.
THEOREM FailuresStayFailed == ReportsSpec => []FailureIsForGood
  <1>1. ReportsInit => Init /\ Forgone
    BY DEF ReportsInit, Init, Forgone, NewOnly
  <1>2. TypeOK /\ FreshInv /\ Forgone /\ [ReportsNext]_<<vars, failed>> => Forgone'
    <2> SUFFICES ASSUME TypeOK, FreshInv, Forgone, [ReportsNext]_<<vars, failed>>
                 PROVE  Forgone'
      OBVIOUS
    <2>1. [Next]_vars
      BY DEF ReportsNext
    <2>2. NewOnly'
      BY <2>1, NewOnlyStep DEF Forgone
    <2>3. ASSUME NEW g \in failed PROVE Gone(g)'
      BY <2>1, <2>3, GoneStays DEF Forgone
    <2>4. ASSUME NEW g, ReportsFailure, ~Unfinished, g = job.id PROVE Gone(g)'
      BY <2>4, ReportedGone
    <2>5. ASSUME NEW g \in failed' PROVE Gone(g)'
      <3>1. g \in failed \/ (ReportsFailure /\ ~Unfinished /\ g = job.id)
        BY <2>5 DEF ReportsNext
      <3> QED BY <2>3, <2>4, <3>1
    <2> QED BY <2>2, <2>5 DEF Forgone
  <1>3. TypeOK /\ Forgone => FailureIsForGood
    <2>1. Shown["scop"] \in {Absent, disk[Final("scop")], disk[Bak("scop")]}
      BY DEF Shown, Comp, NoGroup
    <2> QED BY <2>1, SaveTransactionAssumption DEF Forgone, Gone, Gen, MainNames, FailureIsForGood
  <1>4. [ReportsNext]_<<vars, failed>> => [Next]_vars
    BY DEF ReportsNext
  <1> QED BY <1>1, <1>2, <1>3, <1>4, TypeCorrect, FreshAlways, PTL DEF Spec, ReportsSpec
-----------------------------------------------------------------------------
(* A save reported as done.  Its temporary files hold the group on record     *)
(* from the moment they are written until they are installed, and each is     *)
(* flushed before it is.                                                      *)

\* The components a loop has dealt with.
Passed == IF pc \in CompanionsFirst
            THEN CASE at = "scoc" -> {} [] at = "scov" -> {"scoc"} [] OTHER -> {"scoc", "scov"}
            ELSE CASE at = "scop" -> {} [] at = "scoc" -> {"scop"} [] OTHER -> {"scop", "scoc"}

LEMMA GotoEffect ==
  ASSUME NEW p, Goto(p)
  PROVE  pc' = p /\ Passed' = {}
  BY DEF Goto, Passed

LEMMA AdvanceEffect ==
  ASSUME StepOK, NEW p, Advance(p)
  PROVE  /\ at \notin Passed
         /\ \/ pc' = pc /\ at # Last(pc) /\ Passed' = Passed \cup {at}
            \/ pc' = p /\ at = Last(pc) /\ Passed' = {} /\ Comp = Passed \cup {at}
  BY DEF Advance, StepOK, Goto, Passed, Last, Succ, Comp, CompanionsFirst

\* The steps of a save that may still succeed.
Saved   == Saving \cup Committing \cup {"drop_main", "install", "done"}
Serving == Saved \cup Recovering
Capped  == {"legacy_restore", "legacy_unmark"}

\* The group on record, as the job that is to write it knows it.
GroupKnown ==
    /\ job.id # 0 /\ pc \in Serving \cup Capped =>
           /\ group[job.id]["scop"] = job.id /\ group[job.id]["scov"] = job.id
           /\ job.custom <=> group[job.id]["scoc"] # Absent
    /\ job.id # 0 /\ pc \in Serving /\ job.custom /\ ~job.staged => group[job.id]["scoc"] = job.id
    /\ pc \in {"start", "early_custom"} \cup Capturing => job.durable = {}
    /\ pc \in Saving => job.durable \subseteq {c \in {"scop", "scoc"} : Installs(c)}
    /\ pc = "early_custom" => job.custom
    /\ pc \in {"drop_main", "install", "done"} => ~marker.legacy

Same == /\ job'.id = job.id /\ job'.custom = job.custom /\ job'.staged = job.staged
        /\ group' = group

LEMMA JobKept ==
  ASSUME TypeOK, WriterStep \/ RecoveryStep
  PROVE  /\ group' = group
         /\ Same \/ job'.id = 0
         /\ pc' \in Serving \cup Capped => pc \in Serving /\ pc' \in Serving
  <1> USE DEF Same, Serving, Saved, Capped, Saving, Committing, Recovering, Return, Rest, Goto
  <1>1. CASE WriterStep
    BY <1>1, IdsTyped DEF WriterStep, StartJob, EarlyCustom, EarlyBackup, EarlyMain, Encode, WriteTemp,
           CheckMarker, Preflight, BackUp, WriteMarker, DropMain, Install, Succeed, Advance,
           RestorePrevious, Unmark, CleanUp, TypeOK, Job
  <1>2. CASE RecoveryStep
    BY <1>2, RebuildIds, IdsTyped DEF SameJob, RecoveryStep, Recover, RecoverLegacy, PurgeLegacy,
           StageRecovery, InstallRecovery, CleanRecovered, UnmarkRecovered, Advance
  <1> QED BY <1>1, <1>2

LEMMA KnownByWriter ==
  ASSUME TypeOK, GroupKnown, IdsOK, WriterStep \/ RecoveryStep
  PROVE  GroupKnown'
  <1>1. /\ job'.id # 0 /\ pc' \in Serving \cup Capped =>
               /\ group'[job'.id]["scop"] = job'.id /\ group'[job'.id]["scov"] = job'.id
               /\ job'.custom <=> group'[job'.id]["scoc"] # Absent
        /\ job'.id # 0 /\ pc' \in Serving /\ job'.custom /\ ~job'.staged
               => group'[job'.id]["scoc"] = job'.id
    BY JobKept DEF GroupKnown, Same
  <1> USE DEF GroupKnown, Saving, Capturing, Installs, Goto
  <1>2. CASE StartJob
    BY <1>1, <1>2 DEF StartJob
  <1>3. CASE EarlyCustom
    BY <1>1, <1>3 DEF EarlyCustom, TypeOK, Job
  <1>4. CASE EarlyBackup
    BY <1>1, <1>4 DEF EarlyBackup, Advance, TypeOK, Job
  <1>5. CASE EarlyMain
    <2>1. /\ job'.durable \subseteq job.durable \cup {"scop"} /\ job'.custom = job.custom
          /\ pc = "early_main" /\ pc' = "encode"
      BY <1>5 DEF EarlyMain, TypeOK, Job
    <2> QED BY <1>1, <2>1
  <1>6. CASE Encode \/ WriteTemp
    BY <1>1, <1>6 DEF Encode, WriteTemp, Advance
  <1>7. CASE WriteMarker
    <2>1. ~NewMarker.legacy
      BY <1>7, PlainMarkers DEF WriteMarker
    <2> QED BY <1>1, <1>7, <2>1 DEF WriteMarker, PutMarker
  <1>8. CASE DropMain \/ Install
    BY <1>1, <1>8 DEF DropMain, Install, Advance
  <1>9. CASE CheckMarker \/ Preflight \/ BackUp \/ Succeed \/ RestorePrevious \/ Unmark \/ CleanUp
    <2>1. pc' \notin Saving \cup Capturing \cup {"drop_main", "install", "done"}
      BY <1>9 DEF CheckMarker, Preflight, BackUp, Succeed, RestorePrevious, Unmark, CleanUp, Advance
    <2> QED BY <1>1, <2>1
  <1>10. CASE RecoveryStep
    <2>1. pc' \notin Saving \cup Capturing \cup {"drop_main", "install", "done"}
      BY <1>10 DEF RecoveryStep, Recover, RecoverLegacy, PurgeLegacy, StageRecovery, Rebuild,
           InstallRecovery, CleanRecovered, UnmarkRecovered, Advance, Return
    <2> QED BY <1>1, <2>1
  <1> QED BY <1>2, <1>3, <1>4, <1>5, <1>6, <1>7, <1>8, <1>9, <1>10 DEF WriterStep

LEMMA KnownByLegacy ==
  ASSUME TypeOK, GroupKnown, IdsOK, LegacyStep
  PROVE  GroupKnown'
  <1> USE DEF GroupKnown, Saving, Committing, Capturing, Recovering, Saved, Serving, Capped, Installs, Goto
  <1>1. CASE LegacyMarker \/ LegacyPreserve \/ LegacyAbort \/ LegacyQuit \/ LegacyCallback \/ LegacyDiscard
    BY <1>1 DEF LegacyMarker, LegacyPreserve, LegacyAbort, LegacyQuit, LegacyCallback, LegacyDiscard
  <1>2. CASE LegacyCollect
    <2>1. pc' = "legacy_restore" /\ job'.id = job.id /\ job.id \in Gen
      BY <1>2 DEF LegacyCollect, TypeOK, Job
    <2>2. group'[job.id] = [c \in Comp |-> IF c = "scoc" THEN disk[Collected] ELSE job.id]
      BY <1>2, <2>1 DEF LegacyCollect, TypeOK
    <2>3. job'.custom <=> disk[Collected] # Absent
      <3>1. \A r, e : LET new == [job EXCEPT !.custom = r, !.ready = e] IN new.custom = r
        BY DEF TypeOK, Job
      <3>2. \A r : LET new == [job EXCEPT !.custom = r] IN new.custom = r
        BY DEF TypeOK, Job
      <3>3. Collected = CallbackTmp => Exists(Collected)
        BY Apart DEF Collected, Comp
      <3> QED BY <1>2, <3>1, <3>2, <3>3 DEF LegacyCollect, Exists
    <2>4. job'.durable = job.durable /\ pc = "legacy_collect"
      BY <1>2 DEF LegacyCollect, TypeOK, Job
    <2> QED BY <2>1, <2>2, <2>3, <2>4 DEF Comp
  <1>3. CASE LegacyRestore
    BY <1>3 DEF LegacyRestore, Rest
  <1>4. CASE LegacyUnmark
    <2>1. CASE job' = [job EXCEPT !.staged = job.custom, !.had = {}] /\ pc' = "start"
      <3>1. /\ job'.id = job.id /\ job'.custom = job.custom /\ job'.staged = job.custom
            /\ job'.durable = job.durable
        BY <2>1 DEF TypeOK, Job
      <3>2. group' = group /\ pc = "legacy_unmark"
        BY <1>4 DEF LegacyUnmark, Rest
      <3> QED BY <2>1, <3>1, <3>2
    <2>2. CASE pc' = "legacy_discard"
      <3>1. job' = [job EXCEPT !.staged = job.custom, !.had = {}] => job'.durable = job.durable
        BY DEF TypeOK, Job
      <3>2. job' = job \/ job' = [job EXCEPT !.staged = job.custom, !.had = {}]
        BY <1>4 DEF LegacyUnmark
      <3>3. job'.durable = job.durable /\ pc = "legacy_unmark"
        BY <1>4, <3>1, <3>2 DEF LegacyUnmark
      <3> QED BY <2>2, <3>3
    <2> QED BY <1>4, <2>1, <2>2 DEF LegacyUnmark
  <1> QED BY <1>1, <1>2, <1>3, <1>4 DEF LegacyStep

LEMMA KnownByOthers ==
  ASSUME TypeOK, GroupKnown, IdsOK,
         BeginLegacy \/ RequestRecovery \/ (\E custom \in BOOLEAN : BeginSave(custom)) \/ Kill \/ LosePower
  PROVE  GroupKnown'
  <1> USE DEF GroupKnown, Saving, Committing, Capturing, Recovering, Saved, Serving, Capped, Installs, Goto
  <1>1. CASE BeginLegacy \/ Kill \/ LosePower
    <2>1. pc' \in {"legacy_marker", "idle"} /\ job'.durable = {}
      <3>1. \A g, h : [NoJob EXCEPT !.id = g, !.had = h].durable = {} /\ NoJob.durable = {}
        BY DEF NoJob
      <3> QED BY <1>1, <3>1 DEF BeginLegacy, Kill, LosePower, Forget
    <2> QED BY <2>1
  <1>2. CASE RequestRecovery
    BY <1>2, IdsTyped DEF RequestRecovery, IdsOK
  <1>3. ASSUME NEW custom \in BOOLEAN, BeginSave(custom) PROVE GroupKnown'
    <2>1. job' = [NoJob EXCEPT !.id = saves + 1, !.custom = custom]
      BY <1>3 DEF BeginSave
    <2>2. /\ job'.id = saves + 1 /\ job'.custom = custom /\ ~job'.staged /\ job'.durable = {}
      BY <2>1 DEF NoJob
    <2>3. saves + 1 \in Gen
      BY <1>3, NextGen DEF BeginSave, TypeOK
    <2>4. group'[job'.id] = [c \in Comp |-> IF c = "scoc" /\ ~custom THEN Absent ELSE saves + 1]
      BY <1>3, <2>2, <2>3 DEF BeginSave, TypeOK
    <2>5. saves + 1 # Absent
      BY <2>3, SaveTransactionAssumption DEF Gen
    <2>6. pc' = "start"
      BY <1>3 DEF BeginSave
    <2> QED BY <2>2, <2>4, <2>5, <2>6 DEF Comp
  <1> QED BY <1>1, <1>2, <1>3

\* Has the job written the temporary file of c, or been handed it by a capture?
Written(c) ==
    CASE pc \in {"start", "early_custom", "early_backup", "early_main", "encode"} ->
             c \in job.durable \/ (c = "scoc" /\ job.staged)
      [] pc = "temps" -> c \in job.durable \cup Passed \/ (c = "scoc" /\ job.staged)
      [] pc \in {"check", "drop_main"} \cup Committing \cup Recovering -> TRUE
      [] pc = "install" -> c \notin Passed
      [] pc \in Capped -> c = "scoc" /\ job.ready
      [] OTHER -> FALSE

\* Has the commit made it durable?
Secured(c) ==
    CASE pc = "preflight" -> c \in Passed
      [] pc \in {"backup", "marker", "drop_main"} -> TRUE
      [] pc = "install" -> c \notin Passed
      [] OTHER -> FALSE

\* Has it been installed?
Placed(c) ==
    CASE pc = "install" -> c \in Passed
      [] pc = "done" -> TRUE
      [] OTHER -> FALSE

Temped == job.id # 0 => \A c \in Comp : Installs(c) /\ Written(c)
                            => disk[Temp(job.id, c)] = group[job.id][c]
Synced == job.id # 0 => \A c \in Comp : Installs(c) /\ Secured(c) => Temp(job.id, c) \notin dirty
Landing == job.id # 0 => \A c \in Comp : Placed(c)
                            => disk[Final(c)] = group[job.id][c] /\ Final(c) \notin dirty

Durable == GroupKnown /\ Temped /\ Synced /\ Landing

\* A step that writes elsewhere spares a file of the job.
Spares(f) == disk'[f] = disk[f] /\ (f \in dirty' => f \in dirty)

LEMMA SparesOthers ==
  ASSUME FilesOK, NEW f \in File, NEW x \in File, f # x, NEW v,
         Put(f, v) \/ PutLazy(f, v) \/ Botch(f, v) \/ Delete(f) \/ Flush(f) \/ KeepFiles
  PROVE  Spares(x)
  BY PutEffect, BotchEffect, DeleteEffect, KeepEffect DEF Spares

LEMMA SparesMoved ==
  ASSUME FilesOK, NEW s \in File, NEW d \in File, NEW x \in File, s # x, d # x, s # d, Move(s, d)
  PROVE  Spares(x)
  BY MoveEffect DEF Spares

LEMMA SparesMarked ==
  ASSUME FilesOK, NEW x \in File, NEW m, PutMarker(m) \/ BotchMarker(m) \/ DropMarker \/ KeepMarker
  PROVE  Spares(x)
  <1>1. x # MarkerFile
    BY DEF File, Final, Bak, Staged, Temp, Preserved, CallbackTmp, MarkerFile
  <1> QED BY <1>1, MarkEffect DEF Spares

\* The steps of the writer and of recovery that leave the temporaries alone.
LEMMA SparesTemps ==
  ASSUME TypeOK, IdsOK, job.id # 0, NEW c \in Comp,
         \/ StartJob \/ EarlyBackup \/ CheckMarker \/ Preflight \/ BackUp \/ WriteMarker \/ DropMain
         \/ RecoveryStep
  PROVE  Spares(Temp(job.id, c))
  <1>t. /\ FilesOK /\ StepOK /\ CountersOK /\ marker \in Marker /\ job \in Job
    BY TypeParts
  <1> USE <1>t, JobFiles
  <1>1. CASE StartJob \/ CheckMarker
    BY <1>1 DEF StartJob, CheckMarker, KeepFiles, Spares
  <1>2. CASE EarlyBackup \/ BackUp
    BY <1>2, Apart, SparesOthers DEF EarlyBackup, BackUp
  <1>3. CASE Preflight
    <2>1. Temp(job.id, c) # Bak(at)
      BY Apart
    <2> QED BY <1>3, <2>1 DEF Preflight, KeepFiles, Spares, Stale
  <1>4. CASE WriteMarker
    BY <1>4, SparesMarked DEF WriteMarker
  <1>5. CASE DropMain
    BY <1>5, Apart, SparesOthers DEF DropMain
  <1>6. CASE Recover
    BY <1>6 DEF Recover, KeepFiles, Spares
  <1>7. CASE RecoverLegacy
    <2>1. /\ Final("scoc") # Temp(job.id, c) /\ Preserved(marker.id) # Temp(job.id, c)
          /\ Preserved(marker.id) # Final("scoc")
      BY Apart
    <2>2. CASE Move(Preserved(marker.id), Final("scoc"))
      BY <2>1, <2>2, SparesMoved
    <2>3. CASE Delete(Final("scoc")) \/ KeepFiles
      BY <2>1, <2>3, SparesOthers
    <2> QED BY <1>7, <2>2, <2>3 DEF RecoverLegacy
  <1>8. CASE PurgeLegacy
    <2>1. Temp(job.id, c) \notin {CallbackTmp, Preserved(marker.id)}
      BY Apart
    <2> QED BY <1>8, <2>1 DEF PurgeLegacy, Spares
  <1>9. CASE StageRecovery
    BY <1>9, Apart, SparesOthers DEF StageRecovery
  <1>10. CASE InstallRecovery
    <2>1. /\ Final(at) # Temp(job.id, c) /\ Staged(at) # Temp(job.id, c)
          /\ Staged(at) # Final(at)
      BY Apart
    <2>2. CASE Move(Staged(at), Final(at))
      BY <2>1, <2>2, SparesMoved
    <2>3. CASE Delete(Final(at)) \/ KeepFiles
      BY <2>1, <2>3, SparesOthers
    <2> QED BY <1>10, <2>2, <2>3 DEF InstallRecovery
  <1>11. CASE CleanRecovered
    <2>1. Temp(marker.id, at) # Temp(job.id, c)
      BY <1>11, Apart, IdsTyped DEF CleanRecovered, IdsOK, Recovering
    <2> QED BY <1>11, <2>1, SparesOthers DEF CleanRecovered
  <1>12. CASE UnmarkRecovered
    BY <1>12, SparesMarked DEF UnmarkRecovered
  <1> QED BY <1>1, <1>2, <1>3, <1>4, <1>5, <1>6, <1>7, <1>8, <1>9, <1>10, <1>11, <1>12 DEF RecoveryStep

LEMMA TempsKept ==
  ASSUME TypeOK, Temped, job.id # 0, Same,
         \A c \in Comp : Installs(c)' /\ Written(c)' =>
             \/ Written(c) /\ Spares(Temp(job.id, c))
             \/ disk'[Temp(job.id, c)] = group[job.id][c]
  PROVE  Temped'
  BY DEF Temped, Same, Spares, Installs

LEMMA SyncKept ==
  ASSUME TypeOK, Synced, job.id # 0, Same,
         \A c \in Comp : Installs(c)' /\ Secured(c)' =>
             \/ Secured(c) /\ Spares(Temp(job.id, c))
             \/ Temp(job.id, c) \notin dirty'
  PROVE  Synced'
  BY DEF Synced, Same, Spares, Installs

LEMMA OutOfService ==
  ASSUME pc' \notin Serving \cup Capped \/ job'.id = 0
  PROVE  Temped' /\ Synced' /\ Landing'
  <1>1. CASE job'.id = 0
    BY <1>1 DEF Temped, Synced, Landing
  <1>2. CASE pc' \notin Serving \cup Capped
    <2>1. \A c \in Comp : ~Written(c)' /\ ~Secured(c)' /\ ~Placed(c)'
      BY <1>2 DEF Written, Secured, Placed, Serving, Saved, Saving, Committing, Recovering, Capped
    <2> QED BY <2>1 DEF Temped, Synced, Landing
  <1> QED BY <1>1, <1>2

\* An installation touches the two names of its component.
LEMMA InstallSpares ==
  ASSUME TypeOK, Move(Temp(job.id, at), Final(at)) \/ Delete(Final(at)), NEW c \in Comp, c # at
  PROVE  Spares(Temp(job.id, c)) /\ Spares(Final(c)) /\ Spares(Bak(c))
  <1>t. /\ FilesOK /\ StepOK /\ CountersOK /\ marker \in Marker /\ job \in Job
    BY TypeParts
  <1> USE <1>t, JobFiles
  <1>1. \A f \in {Temp(job.id, c), Final(c), Bak(c)} : f \in File /\ f # Final(at) /\ f # Temp(job.id, at)
    BY Apart
  <1>2. Temp(job.id, at) # Final(at)
    BY Apart
  <1>3. CASE Move(Temp(job.id, at), Final(at))
    BY <1>1, <1>2, <1>3, SparesMoved
  <1>4. CASE Delete(Final(at))
    BY <1>1, <1>4, SparesOthers
  <1> QED BY <1>3, <1>4

LEMMA TempedStep ==
  ASSUME TypeOK, IdsOK, Durable, WriterStep \/ RecoveryStep
  PROVE  Temped'
  <1>t. /\ FilesOK /\ StepOK /\ CountersOK /\ marker \in Marker /\ job \in Job
    BY TypeParts
  <1> USE <1>t, JobFiles
  <1> SUFFICES ASSUME job'.id # 0, pc' \in Serving
               PROVE  Temped'
    BY JobKept, OutOfService
  <1>s. Same /\ pc \in Serving /\ job.id # 0
    BY JobKept DEF Same
  <1>d. Temped /\ GroupKnown
    BY DEF Durable
  <1>u. \A c \in Comp : Installs(c)' <=> Installs(c)
    BY <1>s DEF Installs, Same
  <1> USE DEF Saving, Committing, Recovering, Saved, Serving, Capped
  <1>1. CASE StartJob
    <2>1. \A c \in Comp : Written(c)' => Written(c)
      BY <1>1 DEF StartJob, Goto, Written
    <2> QED BY <1>1, <1>s, <1>d, <2>1, SparesTemps, TempsKept
  <1>2. CASE EarlyCustom
    <2>1. job.custom /\ job.durable = {} /\ (~job.staged => group[job.id]["scoc"] = job.id)
      BY <1>2, <1>s, <1>d DEF GroupKnown, EarlyCustom
    <2>2. \A c \in Comp : Written(c)' => c = "scoc" /\ (pc' = "encode" => job.staged)
      BY <1>2, <1>s, <2>1 DEF EarlyCustom, Goto, Written, Job
    <2>3. CASE job.staged
      <3>1. disk' = disk
        BY <1>2, <2>3 DEF EarlyCustom, Flush, KeepFiles
      <3>2. Written("scoc")
        BY <1>2, <2>3 DEF EarlyCustom, Written
      <3>3. disk[Temp(job.id, "scoc")] = group[job.id]["scoc"]
        BY <3>2, <2>1, <1>s, <1>d DEF Temped, Installs
      <3> QED BY <2>2, <3>1, <3>3, <1>s, <1>d, TempsKept
    <2>4. CASE ~job.staged
      <3>1. CASE Put(Temp(job.id, "scoc"), group[job.id]["scoc"])
        BY <3>1, <2>2, PutEffect, <1>s, <1>d, TempsKept
      <3>2. CASE pc' = "encode"
        BY <2>2, <2>4, <3>2, <1>s, <1>d, TempsKept
      <3> QED BY <1>2, <2>4, <3>1, <3>2 DEF EarlyCustom, Goto
    <2> QED BY <2>3, <2>4
  <1>3. CASE EarlyBackup
    <2>1. \A c \in Comp : Written(c)' => Written(c)
      BY <1>3 DEF EarlyBackup, Goto, Advance, Written, TypeOK, Job
    <2> QED BY <1>3, <1>s, <1>d, <2>1, SparesTemps, TempsKept
  <1>4. CASE EarlyMain
    <2>1. \A c \in Comp : c # "scop" => Spares(Temp(job.id, c))
      BY <1>4, Apart, SparesOthers DEF EarlyMain
    <2>2. \A c \in Comp : c # "scop" /\ Written(c)' => Written(c)
      <3>1. /\ pc = "early_main" /\ pc' = "encode" /\ job'.staged = job.staged
            /\ job'.durable \subseteq job.durable \cup {"scop"}
        BY <1>4 DEF EarlyMain, Goto, Job
      <3> QED BY <3>1 DEF Written
    <2>3. Written("scop")' => disk'[Temp(job.id, "scop")] = job.id
      <3>1. CASE job'.durable = {}
        BY <1>4, <3>1 DEF EarlyMain, Goto, Written
      <3>2. CASE Put(Temp(job.id, "scop"), job.id)
        BY <3>2, PutEffect
      <3> QED BY <1>4, <3>1, <3>2 DEF EarlyMain, Job
    <2>4. group[job.id]["scop"] = job.id
      BY <1>s, <1>d DEF GroupKnown
    <2> QED BY <1>s, <1>d, <2>1, <2>2, <2>3, <2>4, TempsKept
  <1>5. CASE Encode
    <2>1. pc' = "temps" /\ job' = job /\ disk' = disk /\ Passed' = {}
      BY <1>5, GotoEffect DEF Encode, Flush, KeepFiles, Goto
    <2>2. \A c \in Comp : Written(c)' => Written(c)
      BY <1>5, <2>1 DEF Encode, Written
    <2> QED BY <1>s, <1>d, <2>1, <2>2 DEF Temped, Installs, Same
  <1>6. CASE WriteTemp
    <2>1. /\ pc = "temps" /\ Advance("check") /\ job' = job
          /\ IF Due(at) THEN PutLazy(Temp(job.id, at), job.id) ELSE KeepFiles
      BY <1>6 DEF WriteTemp, Goto
    <2>2. \A c \in Comp : c # at => Spares(Temp(job.id, c))
      BY <2>1, Apart, SparesOthers DEF KeepFiles, Spares
    <2>3. \A c \in Comp : c # at /\ Written(c)' => Written(c)
      BY <2>1, AdvanceEffect DEF Written
    <2>4. Installs(at) => disk'[Temp(job.id, at)] = group[job.id][at]
      <3>1. CASE Due(at)
        <4>1. disk'[Temp(job.id, at)] = job.id
          BY <2>1, <3>1, PutEffect
        <4>2. group[job.id][at] = job.id
          BY <3>1, <1>s, <1>d DEF GroupKnown, Due, Comp
        <4> QED BY <4>1, <4>2
      <3>2. CASE ~Due(at)
        <4>1. disk' = disk
          BY <2>1, <3>2 DEF KeepFiles
        <4>2. Installs(at) => Written(at)
          BY <2>1, <3>2 DEF Due, Installs, Written
        <4> QED BY <4>1, <4>2, <1>s, <1>d DEF Temped
      <3> QED BY <3>1, <3>2
    <2> QED BY <1>s, <1>d, <1>u, <2>2, <2>3, <2>4, TempsKept
  <1>7. CASE CheckMarker \/ Preflight \/ BackUp \/ WriteMarker \/ DropMain \/ RecoveryStep
    <2>1. \A c \in Comp : Written(c)
      BY <1>7, <1>s DEF Written, CheckMarker, Preflight, BackUp, WriteMarker, DropMain,
           RecoveryStep, Recover, RecoverLegacy, PurgeLegacy, StageRecovery, InstallRecovery, CleanRecovered, UnmarkRecovered
    <2> QED BY <1>7, <1>s, <1>d, <2>1, SparesTemps, TempsKept
  <1>8. CASE Install
    <2>1. CASE pc' = "install"
      <3>1. Advance("done") /\ (Move(Temp(job.id, at), Final(at)) \/ Delete(Final(at))) /\ pc = "install"
        BY <1>8, <2>1 DEF Install, Goto
      <3>2. \A c \in Comp : c # at => Spares(Temp(job.id, c))
        BY <3>1, InstallSpares
      <3>3. \A c \in Comp : Written(c)' => c # at /\ Written(c)
        BY <2>1, <3>1, AdvanceEffect DEF Written
      <3> QED BY <1>s, <1>d, <3>2, <3>3, TempsKept
    <2>2. CASE pc' # "install"
      <3>1. pc' \in {"done", "restore"}
        BY <1>8, <2>2 DEF Install, Goto, Advance
      <3>2. \A c \in Comp : ~Written(c)'
        BY <3>1 DEF Written
      <3> QED BY <3>2 DEF Temped
    <2> QED BY <2>1, <2>2
  <1>9. CASE Succeed \/ RestorePrevious \/ Unmark \/ CleanUp
    <2>1. pc' \notin Serving \/ job'.id = 0
      BY <1>9, IdsTyped DEF Succeed, RestorePrevious, Unmark, CleanUp, Goto, Advance
    <2> QED BY <2>1
  <1> QED BY <1>1, <1>2, <1>3, <1>4, <1>5, <1>6, <1>7, <1>8, <1>9 DEF WriterStep

LEMMA SyncedStep ==
  ASSUME TypeOK, IdsOK, Durable, WriterStep \/ RecoveryStep
  PROVE  Synced'
  <1>t. /\ FilesOK /\ StepOK /\ CountersOK /\ marker \in Marker /\ job \in Job
    BY TypeParts
  <1> USE <1>t, JobFiles
  <1> SUFFICES ASSUME job'.id # 0, pc' \in Serving
               PROVE  Synced'
    BY JobKept, OutOfService
  <1>s. Same /\ pc \in Serving /\ job.id # 0
    BY JobKept DEF Same
  <1>d. Synced
    BY DEF Durable
  <1>u. \A c \in Comp : Installs(c)' <=> Installs(c)
    BY <1>s DEF Installs, Same
  <1>1. CASE pc \in {"backup", "marker", "drop_main"}
    <2>1. \A c \in Comp : Secured(c)
      BY <1>1 DEF Secured
    <2>2. BackUp \/ WriteMarker \/ DropMain
      BY <1>1 DEF WriterStep, StartJob, EarlyCustom, EarlyBackup, EarlyMain, Encode, WriteTemp,
           CheckMarker, Preflight, Install, Succeed, RestorePrevious, Unmark, CleanUp,
           RecoveryStep, Recover, RecoverLegacy, PurgeLegacy, StageRecovery, InstallRecovery,
           CleanRecovered, UnmarkRecovered
    <2> QED BY <1>s, <1>d, <2>1, <2>2, SparesTemps, SyncKept
  <1>2. CASE Preflight
    <2>1. CASE pc' \in {"preflight", "backup", "marker"}
      <3>1. /\ pc = "preflight" /\ (Advance("marker") \/ Advance("backup"))
            /\ dirty' = dirty \ (Stale(at) \cup Flushed(at))
        BY <1>2, <2>1 DEF Preflight, Goto
      <3>2. \A c \in Comp : Secured(c)' /\ c # at => Secured(c)
        BY <2>1, <3>1, AdvanceEffect DEF Secured
      <3>3. Installs(at) => Temp(job.id, at) \notin dirty'
        BY <3>1 DEF Flushed
      <3> QED BY <1>2, <1>s, <1>d, <1>u, <3>2, <3>3, SparesTemps, SyncKept
    <2>2. CASE pc' = "cleanup"
      BY <2>2 DEF Secured, Synced
    <2> QED BY <1>2, <2>1, <2>2 DEF Preflight, Goto, Advance
  <1>3. CASE Install
    <2>1. CASE pc' = "install"
      <3>1. Advance("done") /\ (Move(Temp(job.id, at), Final(at)) \/ Delete(Final(at))) /\ pc = "install"
        BY <1>3, <2>1 DEF Install, Goto
      <3>2. \A c \in Comp : c # at => Spares(Temp(job.id, c))
        BY <3>1, InstallSpares
      <3>3. \A c \in Comp : Secured(c)' => c # at /\ Secured(c)
        BY <2>1, <3>1, AdvanceEffect DEF Secured
      <3> QED BY <1>s, <1>d, <3>2, <3>3, SyncKept
    <2>2. CASE pc' # "install"
      <3>1. pc' \in {"done", "restore"}
        BY <1>3, <2>2 DEF Install, Goto, Advance
      <3> QED BY <3>1 DEF Synced, Secured
    <2> QED BY <2>1, <2>2
  <1>4. CASE ~Preflight /\ ~Install /\ pc \notin {"backup", "marker", "drop_main"}
    <2>1. pc' = "preflight" => Passed' = {}
      BY <1>4, GotoEffect DEF WriterStep, StartJob, EarlyCustom, EarlyBackup, EarlyMain, Encode,
           WriteTemp, CheckMarker, BackUp, WriteMarker, DropMain, Succeed, RestorePrevious, Unmark,
           CleanUp, RecoveryStep, Recover, RecoverLegacy, PurgeLegacy, StageRecovery,
           InstallRecovery, CleanRecovered, UnmarkRecovered, Rebuild, Return, Goto, Advance
    <2>2. pc' \notin {"backup", "marker", "drop_main", "install"}
      BY <1>4, GotoEffect DEF WriterStep, StartJob, EarlyCustom, EarlyBackup, EarlyMain, Encode,
           WriteTemp, CheckMarker, BackUp, WriteMarker, DropMain, Succeed, RestorePrevious, Unmark,
           CleanUp, RecoveryStep, Recover, RecoverLegacy, PurgeLegacy, StageRecovery,
           InstallRecovery, CleanRecovered, UnmarkRecovered, Rebuild, Return, Goto, Advance
    <2> QED BY <2>1, <2>2 DEF Synced, Secured
  <1> QED BY <1>1, <1>2, <1>3, <1>4

LEMMA LandingStep ==
  ASSUME TypeOK, IdsOK, Durable, WriterStep \/ RecoveryStep
  PROVE  Landing'
  <1>t. /\ FilesOK /\ StepOK /\ CountersOK /\ marker \in Marker /\ job \in Job
    BY TypeParts
  <1> USE <1>t, JobFiles
  <1> SUFFICES ASSUME job'.id # 0, pc' \in {"install", "done"}, Passed' # {} \/ pc' = "done"
               PROVE  Landing'
    BY DEF Landing, Placed
  <1>p. pc' \in Serving
    BY DEF Serving, Saved
  <1>s. Same /\ pc \in Serving /\ job.id # 0
    BY <1>p, JobKept DEF Same
  <1>d. GroupKnown /\ Temped /\ Synced /\ Landing
    BY DEF Durable
  <1>1. Install /\ pc = "install" /\ Advance("done")
         /\ IF Installs(at) THEN Move(Temp(job.id, at), Final(at)) ELSE Delete(Final(at))
    <2>1. Install
      BY GotoEffect DEF WriterStep, StartJob, EarlyCustom, EarlyBackup, EarlyMain, Encode,
           WriteTemp, CheckMarker, Preflight, BackUp, WriteMarker, DropMain, Succeed, RestorePrevious,
           Unmark, CleanUp, RecoveryStep, Recover, RecoverLegacy, PurgeLegacy, StageRecovery,
           InstallRecovery, CleanRecovered, UnmarkRecovered, Rebuild, Return, Goto, Advance
    <2> QED BY <2>1 DEF Install, Goto
  <1>2. ASSUME NEW c \in Comp, c # at, Placed(c)' 
        PROVE  disk'[Final(c)] = group[job.id][c] /\ Final(c) \notin dirty'
    <2>1. Placed(c)
      BY <1>1, <1>2, AdvanceEffect DEF Placed
    <2>2. Spares(Final(c))
      BY <1>1, <1>2, InstallSpares
    <2> QED BY <2>1, <2>2, <1>s, <1>d DEF Landing, Spares
  <1>3. disk'[Final(at)] = group[job.id][at] /\ Final(at) \notin dirty'
    <2>1. CASE Installs(at)
      <3>1. Written(at) /\ Secured(at)
        BY <1>1, AdvanceEffect DEF Written, Secured, Committing, Recovering, Capped
      <3>2. disk[Temp(job.id, at)] = group[job.id][at] /\ Temp(job.id, at) \notin dirty
        BY <2>1, <3>1, <1>s, <1>d DEF Temped, Synced
      <3> QED BY <1>1, <2>1, <3>2, MoveEffect, Apart
    <2>2. CASE ~Installs(at)
      <3>1. group[job.id][at] = Absent
        BY <2>2, <1>s, <1>d DEF GroupKnown, Installs
      <3> QED BY <1>1, <2>2, <3>1, DeleteEffect
    <2> QED BY <2>1, <2>2
  <1> QED BY <1>2, <1>3, <1>s DEF Landing, Same

LEMMA DurableLegacy ==
  ASSUME TypeOK, IdsOK, Durable, LegacyStep
  PROVE  Temped' /\ Synced' /\ Landing'
  <1>t. /\ FilesOK /\ StepOK /\ CountersOK /\ marker \in Marker /\ job \in Job
    BY TypeParts
  <1> USE <1>t, JobFiles
  <1>d. GroupKnown /\ Temped
    BY DEF Durable
  <1>1. CASE LegacyCollect
    <2>1. /\ pc' = "legacy_restore" /\ job.id # 0
          /\ group' = [group EXCEPT ![job.id] =
               [c \in Comp |-> IF c = "scoc" THEN disk[Collected] ELSE job.id]]
      BY <1>1 DEF LegacyCollect, Goto, IdsOK, Working, Capturing
    <2>2. \A c \in Comp : Written(c)' => c = "scoc" /\ job'.ready
      BY <2>1 DEF Written, Capped, Committing, Recovering
    <2>3. \A c \in Comp : ~Secured(c)' /\ ~Placed(c)'
      BY <2>1 DEF Secured, Placed
    <2>4. job'.id = job.id
      BY <1>1 DEF LegacyCollect, TypeOK, Job
    <2>5. group'[job.id]["scoc"] = disk[Collected]
      BY <2>1 DEF CountersOK
    <2>6. ASSUME job'.ready, job'.custom PROVE disk'[Temp(job.id, "scoc")] = disk[Collected]
      <3>1. \A r : [job EXCEPT !.custom = TRUE, !.ready = FALSE].ready = FALSE
                   /\ [job EXCEPT !.custom = r].custom = r
        BY DEF Job
      <3>2. /\ Exists(Collected)
            /\ IF Collected = CallbackTmp THEN Move(Collected, Temp(job.id, "scoc"))
               ELSE IF Collected = Final("scoc") THEN Put(Temp(job.id, "scoc"), disk[Collected])
               ELSE KeepFiles
        BY <1>1, <2>6, <3>1 DEF LegacyCollect
      <3>3. CASE Collected = CallbackTmp
        BY <3>2, <3>3, Apart, MoveEffect
      <3>4. CASE Collected = Final("scoc")
        BY <3>2, <3>4, Apart, PutEffect
      <3>5. CASE Collected = Temp(job.id, "scoc")
        BY <3>2, <3>5, Apart DEF KeepFiles
      <3> QED BY <3>3, <3>4, <3>5 DEF Collected
    <2>7. Temped'
      BY <2>2, <2>4, <2>5, <2>6 DEF Temped, Installs
    <2> QED BY <2>3, <2>7 DEF Synced, Landing
  <1>2. CASE LegacyRestore
    <2>1. /\ pc = "legacy_restore" /\ job.id # 0 /\ job' = job /\ group' = group
      BY <1>2 DEF LegacyRestore, IdsOK, Working, Capturing, Rest
    <2>2. CASE pc' = "legacy_unmark"
      <3>1. Spares(Temp(job.id, "scoc"))
        <4>1. Move(Preserved(job.id), Final("scoc")) \/ Delete(Final("scoc"))
          BY <1>2, <2>2 DEF LegacyRestore, Goto
        <4>2. /\ Preserved(job.id) # Temp(job.id, "scoc") /\ Final("scoc") # Temp(job.id, "scoc")
              /\ Preserved(job.id) # Final("scoc")
          BY Apart
        <4>3. CASE Move(Preserved(job.id), Final("scoc"))
          BY <4>2, <4>3, SparesMoved
        <4>4. CASE Delete(Final("scoc"))
          BY <4>2, <4>4, SparesOthers
        <4> QED BY <4>1, <4>3, <4>4
      <3>2. \A c \in Comp : Written(c)' => c = "scoc" /\ Written(c)
        BY <2>1, <2>2 DEF Written, Capped, Committing, Recovering
      <3>3. \A c \in Comp : ~Secured(c)' /\ ~Placed(c)'
        BY <2>2 DEF Secured, Placed
      <3> QED BY <2>1, <3>1, <3>2, <3>3, <1>d DEF Temped, Synced, Landing, Installs, Spares
    <2>3. CASE pc' # "legacy_unmark"
      BY <1>2, <2>3, OutOfService DEF LegacyRestore, Goto, Serving, Saved, Saving, Committing,
           Recovering, Capped
    <2> QED BY <2>2, <2>3
  <1>3. CASE LegacyUnmark
    <2>1. CASE pc' = "start"
      <3>1. /\ pc = "legacy_unmark" /\ job.id # 0 /\ job.ready /\ group' = group /\ disk' = disk
            /\ job' = [job EXCEPT !.staged = job.custom, !.had = {}]
        BY <1>3, <2>1 DEF LegacyUnmark, Goto, DropMarker, PutMarker, IdsOK, Working, Capturing, Rest
      <3>2. /\ job'.id = job.id /\ job'.custom = job.custom /\ job'.staged = job.custom
            /\ job'.durable = {}
        BY <3>1, <1>d DEF Job, GroupKnown, Capturing
      <3>3. \A c \in Comp : Written(c)' => c = "scoc" /\ job.custom
        BY <2>1, <3>2 DEF Written, Committing, Recovering, Capped
      <3>4. Written("scoc")
        BY <3>1 DEF Written, Capped, Committing, Recovering
      <3>5. \A c \in Comp : ~Secured(c)' /\ ~Placed(c)'
        BY <2>1 DEF Secured, Placed
      <3> QED BY <3>1, <3>2, <3>3, <3>4, <3>5, <1>d DEF Temped, Synced, Landing, Installs
    <2>2. CASE pc' # "start"
      BY <1>3, <2>2, OutOfService DEF LegacyUnmark, Goto, Serving, Saved, Saving, Committing,
           Recovering, Capped
    <2> QED BY <2>1, <2>2
  <1>4. CASE LegacyMarker \/ LegacyPreserve \/ LegacyAbort \/ LegacyQuit \/ LegacyCallback \/ LegacyDiscard
    <2>1. pc' \notin Serving \cup Capped
      BY <1>4 DEF LegacyMarker, LegacyPreserve, LegacyAbort, LegacyQuit, LegacyCallback,
           LegacyDiscard, Goto, Serving, Saved, Saving, Committing, Recovering, Capped
    <2> QED BY <2>1, OutOfService
  <1> QED BY <1>1, <1>2, <1>3, <1>4 DEF LegacyStep

LEMMA DurableOthers ==
  ASSUME TypeOK, IdsOK,
         BeginLegacy \/ RequestRecovery \/ (\E custom \in BOOLEAN : BeginSave(custom)) \/ Kill \/ LosePower
  PROVE  Temped' /\ Synced' /\ Landing'
  <1>1. CASE BeginLegacy \/ Kill \/ LosePower
    BY <1>1, OutOfService DEF BeginLegacy, Kill, LosePower, Forget, Goto, Serving, Saved, Saving,
         Committing, Recovering, Capped
  <1>2. CASE RequestRecovery
    BY <1>2, IdsTyped, OutOfService DEF RequestRecovery, IdsOK
  <1>3. ASSUME NEW custom \in BOOLEAN, BeginSave(custom) PROVE Temped' /\ Synced' /\ Landing'
    <2>1. job' = [NoJob EXCEPT !.id = saves + 1, !.custom = custom] /\ pc' = "start"
      BY <1>3 DEF BeginSave, Goto
    <2>2. ~job'.staged /\ job'.durable = {}
      BY <2>1 DEF NoJob
    <2>3. \A c \in Comp : ~Written(c)' /\ ~Secured(c)' /\ ~Placed(c)'
      BY <2>1, <2>2 DEF Written, Secured, Placed, Committing, Recovering, Capped
    <2> QED BY <2>3 DEF Temped, Synced, Landing
  <1> QED BY <1>1, <1>2, <1>3

LEMMA DurableAlways == Spec => []Durable
  <1>1. Init => Durable
    BY IdsTyped DEF Init, Durable, GroupKnown, NoJob, Serving, Saved, Saving, Committing,
         Recovering, Capped, Capturing, Temped, Synced, Landing
  <1>2. TypeOK /\ FreshInv /\ Durable /\ [Next]_vars => Durable'
    <2> SUFFICES ASSUME TypeOK, IdsOK, Durable, [Next]_vars PROVE Durable'
      BY DEF FreshInv
    <2>0. GroupKnown
      BY DEF Durable
    <2>1. CASE WriterStep \/ RecoveryStep
      BY <2>0, <2>1, KnownByWriter, TempedStep, SyncedStep, LandingStep DEF Durable
    <2>2. CASE LegacyStep
      BY <2>0, <2>2, KnownByLegacy, DurableLegacy DEF Durable
    <2>3. CASE BeginLegacy \/ RequestRecovery \/ (\E custom \in BOOLEAN : BeginSave(custom)) \/ Kill \/ LosePower
      BY <2>0, <2>3, KnownByOthers, DurableOthers DEF Durable
    <2>4. CASE Quiet \/ UNCHANGED vars
      BY <2>4 DEF Quiet, vars, Durable, GroupKnown, Temped, Synced, Landing, Written, Secured,
           Placed, Passed, Installs
    <2> QED BY <2>1, <2>2, <2>3, <2>4 DEF Next
  <1> QED BY <1>1, <1>2, TypeCorrect, FreshAlways, PTL DEF Spec

\* DoneIsDurable: a save reported as done is what the slot shows and is flushed,
\* however it was captured, whatever failed and whatever crash came before.
THEOREM DoneIsDurable == Spec => []SuccessIsDurable
  <1>1. TypeOK /\ FreshInv /\ Durable => SuccessIsDurable
    <2> SUFFICES ASSUME TypeOK, FreshInv, Durable, pc = "done"
                 PROVE  Slot = job.id /\ \A c \in Comp : Final(c) \notin dirty
      BY DEF SuccessIsDurable
    <2>1. job.id # 0 /\ job.id \in Gen
      BY DEF FreshInv, IdsOK, Working, Installing, TypeOK, Job
    <2>2. \A c \in Comp : disk[Final(c)] = group[job.id][c] /\ Final(c) \notin dirty
      BY <2>1 DEF Durable, Landing, Placed
    <2>3. group[job.id]["scop"] = job.id /\ ~marker.legacy
      BY <2>1 DEF Durable, GroupKnown, Serving, Saved
    <2>4. Valid(Final("scop"))
      BY <2>1, <2>2, <2>3 DEF Valid, Comp
    <2>5. Shown = [c \in Comp |-> disk[Final(c)]]
      BY <2>3, <2>4 DEF Shown
    <2>6. group[job.id] = [c \in Comp |-> group[job.id][c]]
      BY <2>1 DEF TypeOK
    <2>7. Shown = group[job.id]
      BY <2>2, <2>5, <2>6
    <2>8. job.id # Absent
      BY <2>1, SaveTransactionAssumption DEF Gen
    <2> QED BY <2>1, <2>2, <2>3, <2>7, <2>8 DEF Slot
  <1> QED BY <1>1, TypeCorrect, FreshAlways, DurableAlways, PTL
-----------------------------------------------------------------------------
(* Atomicity.  While no legacy capture begins and a crash kills the process   *)
(* but not the machine, the slot always shows one whole save: the main file's *)
(* if it is valid, else the one the backups hold.                             *)

\* No legacy capture is under way and none is on record; the custom data one has
\* handed over is the job's own.
HandedOver == job.staged => group[job.id]["scoc"] = job.id
Calm == RebuildsOnlyDamage /\ HandedOver

Overwrite == marker.state = "valid" /\ "scop" \in marker.prev
Main   == Final("scop")
Intact == Valid(Main)
Whole  == \A c \in Comp : disk[Final(c)] = group[disk[Main]][c]
Backed(prev) == /\ Valid(Bak("scop")) /\ prev = {c \in Comp : Exists(Bak(c))}
                /\ \A c \in Comp : disk[Bak(c)] = group[disk[Bak("scop")]][c]

\* Guard: the main file is valid only with the rest of its group; while it is not,
\* an overwrite's marker stands by backups that are whole, and without one the
\* main file is not there at all.
Guard == /\ Intact => Whole
         /\ ~Intact /\ Overwrite => Backed(marker.prev)
         /\ ~Intact /\ ~Overwrite => ~Exists(Main)
         /\ ~Intact /\ marker.state = "invalid" => ~Exists(Bak("scop"))

\* Copied: what the I/O helper and the commit know of the backups.
Early == pc \in {"early_custom", "early_backup", "early_main"}
         \/ (job.backups /\ pc \in {"encode", "temps", "check", "preflight", "marker"})
BackedUp(c) == disk[Bak(c)] = disk[Final(c)]
Copied ==
    /\ Early => marker.state = "missing" /\ \A c \in Comp : Exists(Final(c))
    /\ pc = "early_backup" => \A c \in Passed : BackedUp(c)
    /\ Early /\ pc \notin {"early_custom", "early_backup"} => \A c \in Comp : BackedUp(c)
    /\ pc \in {"start", "early_custom", "early_backup", "early_main", "backup"} \cup Recovering
           => ~job.backups
    /\ pc \in Saving \cup Recovering => job.had = {}
    /\ pc \in Committing /\ marker.state # "missing" => Intact
    /\ pc = "preflight" => /\ job.had = {c \in Passed : Exists(Final(c))}
                           /\ \A c \in Passed \ job.had : ~Exists(Bak(c))
    /\ pc \in {"backup", "marker", "drop_main"} => job.had = {c \in Comp : Exists(Final(c))}
    /\ pc = "backup" => \A c \in Comp : (c \in job.had => c \in Passed) => BackedUp(c)
    /\ pc \in {"marker", "drop_main"} => \A c \in Comp : BackedUp(c)
    /\ pc = "drop_main" => Intact \/ "scop" \notin job.had

\* Committed: the marker is the job's own until the group is installed or given up.
Group(g, custom) == [c \in Comp |-> IF c = "scoc" /\ ~custom THEN Absent ELSE g]
Committed ==
    /\ marker.state = "valid" => group[marker.id] = Group(marker.id, marker.custom)
    /\ pc \in Installing => /\ marker.state = "valid" /\ marker.id = job.id
                            /\ marker.prev = job.had
    /\ pc \in {"install", "restore"} => ~Exists(Main)
    /\ pc = "restore" => \A c \in Passed :
           disk[Final(c)] = IF c \in job.had THEN disk[Bak(c)] ELSE Absent
    /\ pc = "unmark" => Intact \/ ~Overwrite

\* Rebuilt: what a recovery knows of the group it puts together.
Target == IF job.source = "bak" THEN disk[Bak("scop")] ELSE marker.id
Rebuilding ==
    /\ pc \in {"rec_stage", "rec_install"} =>
           /\ marker.state = "valid"
           /\ IF job.source = "bak" THEN "scop" \in marker.prev /\ job.expect = marker.prev
                                    ELSE "scop" \notin marker.prev /\ job.expect = NewComps
    /\ pc = "rec_stage" =>
           /\ job.source = "new" => \A c \in NewComps : disk[NewSource(c)] = marker.id
           /\ \A c \in Passed \cap job.expect : disk[Staged(c)] = group[Target][c]
    /\ pc = "rec_install" =>
           /\ \A c \in job.expect \ Passed : disk[Staged(c)] = group[Target][c]
           /\ \A c \in Passed : disk[Final(c)] = group[Target][c]
    /\ pc \in {"rec_clean", "rec_unmark"} => Intact

Atomicity == Calm /\ Guard /\ Copied /\ Committed /\ Rebuilding

FinalsKept == \A c \in Comp : disk'[Final(c)] = disk[Final(c)]
BaksKept   == \A c \in Comp : disk'[Bak(c)] = disk[Bak(c)]

\* What each step leaves alone of what the slot shows.
LEMMA KeepsFinals ==
  ASSUME TypeOK, IdsOK,
         \/ StartJob \/ EarlyCustom \/ EarlyBackup \/ EarlyMain \/ Encode \/ WriteTemp
         \/ CheckMarker \/ Preflight \/ BackUp \/ WriteMarker \/ Succeed \/ Unmark \/ CleanUp
         \/ Recover \/ StageRecovery \/ CleanRecovered \/ UnmarkRecovered
  PROVE  FinalsKept
  <1>t. /\ FilesOK /\ StepOK /\ CountersOK /\ marker \in Marker /\ job \in Job
    BY TypeParts
  <1> USE <1>t, JobFiles
  <1> SUFFICES ASSUME NEW c \in Comp PROVE Spares(Final(c)) \/ disk'[Final(c)] = disk[Final(c)]
    BY DEF FinalsKept, Spares
  <1>1. CASE StartJob \/ Encode \/ CheckMarker \/ Recover \/ WriteMarker \/ Succeed \/ Unmark \/ UnmarkRecovered
    BY <1>1 DEF StartJob, Encode, CheckMarker, Recover, WriteMarker, Succeed, Unmark, UnmarkRecovered,
         KeepFiles, Flush, PutMarker, BotchMarker, DropMarker, KeepMarker
  <1>2. CASE EarlyCustom
    BY <1>2, Apart, SparesOthers DEF EarlyCustom
  <1>3. CASE EarlyBackup \/ BackUp
    BY <1>3, Apart, SparesOthers DEF EarlyBackup, BackUp
  <1>4. CASE EarlyMain \/ WriteTemp
    BY <1>4, Apart, SparesOthers DEF EarlyMain, WriteTemp
  <1>5. CASE Preflight
    <2>1. Final(c) # Bak(at)
      BY Apart
    <2> QED BY <1>5, <2>1 DEF Preflight, KeepFiles, Stale
  <1>6. CASE CleanUp \/ CleanRecovered
    BY <1>6, Apart, SparesOthers DEF CleanUp, CleanRecovered
  <1>7. CASE StageRecovery
    BY <1>7, Apart, SparesOthers DEF StageRecovery
  <1> QED BY <1>1, <1>2, <1>3, <1>4, <1>5, <1>6, <1>7

LEMMA KeepsBaks ==
  ASSUME TypeOK, IdsOK,
         \/ StartJob \/ EarlyCustom \/ EarlyMain \/ Encode \/ WriteTemp \/ CheckMarker
         \/ WriteMarker \/ DropMain \/ Install \/ Succeed \/ RestorePrevious \/ Unmark \/ CleanUp
         \/ Recover \/ StageRecovery \/ InstallRecovery \/ CleanRecovered \/ UnmarkRecovered
  PROVE  BaksKept
  <1>t. /\ FilesOK /\ StepOK /\ CountersOK /\ marker \in Marker /\ job \in Job
    BY TypeParts
  <1> USE <1>t, JobFiles
  <1> SUFFICES ASSUME NEW c \in Comp PROVE Spares(Bak(c)) \/ disk'[Bak(c)] = disk[Bak(c)]
    BY DEF BaksKept, Spares
  <1>1. CASE StartJob \/ Encode \/ CheckMarker \/ Recover \/ WriteMarker \/ Succeed \/ Unmark \/ UnmarkRecovered
    BY <1>1 DEF StartJob, Encode, CheckMarker, Recover, WriteMarker, Succeed, Unmark, UnmarkRecovered,
         KeepFiles, Flush, PutMarker, BotchMarker, DropMarker, KeepMarker
  <1>2. CASE EarlyCustom
    BY <1>2, Apart, SparesOthers DEF EarlyCustom
  <1>3. CASE DropMain
    BY <1>3, Apart, SparesOthers DEF DropMain
  <1>4. CASE EarlyMain \/ WriteTemp
    BY <1>4, Apart, SparesOthers DEF EarlyMain, WriteTemp
  <1>5. CASE Install
    <2>1. \A f \in {Temp(job.id, at), Final(at)} : f \in File /\ f # Bak(c)
      BY Apart
    <2>2. Temp(job.id, at) # Final(at)
      BY Apart
    <2> QED BY <1>5, <2>1, <2>2, SparesOthers, SparesMoved DEF Install
  <1>6. CASE CleanUp \/ CleanRecovered
    BY <1>6, Apart, SparesOthers DEF CleanUp, CleanRecovered
  <1>7. CASE StageRecovery
    BY <1>7, Apart, SparesOthers DEF StageRecovery
  <1>8. CASE RestorePrevious
    BY <1>8, Apart, SparesOthers DEF RestorePrevious
  <1>9. CASE InstallRecovery
    <2>1. \A f \in {Staged(at), Final(at)} : f \in File /\ f # Bak(c)
      BY Apart
    <2>2. Staged(at) # Final(at)
      BY Apart
    <2> QED BY <1>9, <2>1, <2>2, SparesOthers, SparesMoved DEF InstallRecovery
  <1> QED BY <1>1, <1>2, <1>3, <1>4, <1>5, <1>6, <1>7, <1>8, <1>9

LEMMA KeepsMarker ==
  ASSUME \/ StartJob \/ EarlyCustom \/ EarlyBackup \/ EarlyMain \/ Encode \/ WriteTemp
         \/ CheckMarker \/ Preflight \/ BackUp \/ DropMain \/ Install \/ RestorePrevious
         \/ CleanUp \/ Recover \/ StageRecovery \/ InstallRecovery \/ CleanRecovered
  PROVE  marker' = marker
  BY DEF StartJob, EarlyCustom, EarlyBackup, EarlyMain, Encode, WriteTemp, CheckMarker, Preflight,
     BackUp, DropMain, Install, RestorePrevious, CleanUp, Recover, StageRecovery,
     InstallRecovery, CleanRecovered

\* The generation the slot shows, read off the main file, the marker and the backups.
Current == IF Intact THEN disk[Main] ELSE IF Overwrite THEN disk[Bak("scop")] ELSE None
SlotIsCurrent == Slot = Current

LEMMA SlotRead == TypeOK /\ Guard /\ Calm => SlotIsCurrent
  <1> SUFFICES ASSUME TypeOK, Guard, Calm PROVE Slot = Current
    BY DEF SlotIsCurrent
  <1>0. ~marker.legacy /\ "scop" \in Comp /\ Absent \notin Gen
    BY SaveTransactionAssumption DEF Calm, RebuildsOnlyDamage, Comp, Gen
  <1>g. \A g \in Gen : group[g] = [c \in Comp |-> group[g][c]]
    BY DEF TypeOK
  <1>1. CASE Intact
    <2>1. Shown = [c \in Comp |-> disk[Final(c)]]
      BY <1>0, <1>1 DEF Shown, Intact, Main
    <2>2. disk[Main] \in Gen /\ Shown = group[disk[Main]] /\ Shown["scop"] = disk[Main]
      BY <1>0, <1>1, <1>g, <2>1 DEF Guard, Whole, Intact, Valid, Main
    <2> QED BY <1>0, <1>1, <2>2 DEF Slot, Current
  <1>2. CASE ~Intact /\ Overwrite
    <2>1. Backed(marker.prev) /\ disk[Bak("scop")] \in Gen
      BY <1>2 DEF Guard, Backed, Valid
    <2>2. Shown = [c \in Comp |-> IF c \in marker.prev THEN disk[Bak(c)] ELSE Absent]
      BY <1>0, <1>2 DEF Shown, Intact, Main, Overwrite
    <2>3. Shown = [c \in Comp |-> disk[Bak(c)]]
      BY <2>1, <2>2 DEF Backed, Exists
    <2>4. Shown = group[disk[Bak("scop")]] /\ Shown["scop"] = disk[Bak("scop")]
      BY <1>0, <1>g, <2>1, <2>3 DEF Backed
    <2> QED BY <1>0, <1>2, <2>1, <2>4 DEF Slot, Current
  <1>3. CASE ~Intact /\ ~Overwrite
    <2>1. Shown = NoGroup
      BY <1>0, <1>3 DEF Shown, Intact, Main, Overwrite
    <2> QED BY <1>0, <1>3, <2>1 DEF Slot, Current, NoGroup
  <1> QED BY <1>1, <1>2, <1>3

\* What a step may do to what the slot shows.
Holds == Guard' /\ Current' = Current
Commits == /\ Guard' /\ Current' = marker.id
           /\ marker.state = "valid" /\ marker' = marker

LEMMA SlotStill ==
  ASSUME TypeOK, Ages, Guard, FinalsKept, BaksKept, marker' = marker,
         \A g \in Gen : g <= saves => group'[g] = group[g]
  PROVE  Holds
  <1>1. "scop" \in Comp
    BY DEF Comp
  <1>2. disk'[Main] = disk[Main] /\ disk'[Bak("scop")] = disk[Bak("scop")]
    BY <1>1 DEF FinalsKept, BaksKept, Main
  <1>3. (Intact' <=> Intact) /\ (Overwrite' <=> Overwrite) /\ Current' = Current
    BY <1>2 DEF Intact, Overwrite, Current, Valid, Main
  <1>4. /\ Intact => disk[Main] \in Gen /\ disk[Main] <= saves
        /\ Valid(Bak("scop")) => disk[Bak("scop")] \in Gen /\ disk[Bak("scop")] <= saves
    BY DEF Intact, Valid, Ages, MainNames, Main
  <1>5. Intact => Whole'
    BY <1>2, <1>4 DEF Guard, Whole, FinalsKept
  <1>6. ~Intact /\ Overwrite => Backed(marker.prev)'
    BY <1>2, <1>4 DEF Guard, Backed, BaksKept, Exists, Valid
  <1> QED BY <1>2, <1>3, <1>5, <1>6 DEF Guard, Holds, Exists, Main

LEMMA SlotBacksUp ==
  ASSUME Guard, FinalsKept, marker' = marker, group' = group, Intact \/ marker.state = "missing"
  PROVE  Holds
  <1>1. disk'[Main] = disk[Main]
    BY DEF FinalsKept, Main, Comp
  <1>2. (Intact' <=> Intact) /\ (Overwrite' <=> Overwrite) /\ (~Intact => ~Overwrite) 
    BY <1>1 DEF Intact, Overwrite, Valid, Main
  <1>3. Intact => Whole'
    BY <1>1 DEF Guard, Whole, FinalsKept
  <1> QED BY <1>1, <1>2, <1>3 DEF Guard, Holds, Exists, Main, Current

LEMMA SlotMarks ==
  ASSUME Guard, FinalsKept, BaksKept, group' = group,
         Intact \/ (~Overwrite /\ ~Overwrite' /\ (marker'.state = "invalid" => ~Exists(Bak("scop"))))
  PROVE  Holds
  <1>1. disk'[Main] = disk[Main] /\ disk'[Bak("scop")] = disk[Bak("scop")]
    BY DEF FinalsKept, BaksKept, Main, Comp
  <1>2. Intact' <=> Intact
    BY <1>1 DEF Intact, Valid, Main
  <1>3. Intact => Whole'
    BY <1>1 DEF Guard, Whole, FinalsKept
  <1> QED BY <1>1, <1>2, <1>3 DEF Guard, Holds, Exists, Main, Current

LEMMA SlotDamaged ==
  ASSUME Guard, ~Intact, ~Intact', ~Overwrite => disk'[Main] = disk[Main],
         BaksKept, marker' = marker, group' = group
  PROVE  Holds
  <1>1. disk'[Bak("scop")] = disk[Bak("scop")]
    BY DEF BaksKept, Comp
  <1>2. Overwrite' <=> Overwrite
    BY DEF Overwrite
  <1>3. Overwrite => Backed(marker.prev)'
    BY <1>1 DEF Guard, Backed, BaksKept, Exists, Valid
  <1> QED BY <1>1, <1>2, <1>3 DEF Guard, Holds, Exists, Main, Current

\* The main file taken away, or put back, over whole backups.
LEMMA SlotUncovered ==
  ASSUME Guard, Overwrite, BaksKept, marker' = marker, group' = group,
         Backed(marker.prev), Intact => disk[Bak("scop")] = disk[Main], ~Intact'
  PROVE  Holds
  <1>1. disk'[Bak("scop")] = disk[Bak("scop")]
    BY DEF BaksKept, Comp
  <1>2. Overwrite' /\ Backed(marker.prev)'
    BY <1>1 DEF Overwrite, Backed, BaksKept, Exists, Valid
  <1> QED BY <1>1, <1>2 DEF Guard, Holds, Current, Overwrite

LEMMA SlotRestored ==
  ASSUME Guard, Overwrite, ~Intact, group' = group,
         \A c \in Comp : disk'[Final(c)] = disk[Bak(c)]
  PROVE  Holds
  <1>1. disk'[Main] = disk[Bak("scop")] /\ Backed(marker.prev)
    BY DEF Main, Comp, Guard
  <1>2. Intact' /\ Whole'
    BY <1>1 DEF Intact, Backed, Valid, Whole
  <1> QED BY <1>1, <1>2 DEF Guard, Holds, Current

LEMMA SlotCommits ==
  ASSUME marker.id \in Gen, marker.state = "valid", marker' = marker,
         group'[marker.id]["scop"] = marker.id,
         \A c \in Comp : disk'[Final(c)] = group'[marker.id][c]
  PROVE  Commits
  <1>1. disk'[Main] = marker.id
    BY DEF Main, Comp
  <1>2. Intact' /\ Whole'
    BY <1>1 DEF Intact, Valid, Whole
  <1> QED BY <1>1, <1>2 DEF Guard, Commits, Current

\* The marker being written: the backups are then those of the files they copy.
LEMMA SlotMarking ==
  ASSUME TypeOK, Atomicity, pc = "marker", FinalsKept, BaksKept, group' = group,
         marker' \in {marker, Unmarked("invalid"), NewMarker}
  PROVE  Holds
  <1>a. Guard /\ Copied
    BY DEF Atomicity
  <1>1. ~Intact => marker.state = "missing"
    BY <1>a DEF Copied, Committing
  <1>2. ~Intact => ~Overwrite /\ ~Exists(Main)
    BY <1>1, <1>a DEF Guard, Overwrite
  <1>3. ~Intact => "scop" \notin job.had /\ ~Exists(Bak("scop"))
    BY <1>2, <1>a DEF Copied, BackedUp, Exists, Main, Comp
  <1>4. ~Intact => ~Overwrite'
    BY <1>2, <1>3 DEF Overwrite, NewMarker, Unmarked
  <1> QED BY <1>a, <1>2, <1>3, <1>4, SlotMarks

\* A component being put back, whole, in part or not at all.
LEMMA SlotRestoring ==
  ASSUME TypeOK, Atomicity, pc = "restore", at \in job.had, BaksKept, marker' = marker, group' = group,
         disk'[Final(at)] \in {disk[Final(at)], Absent, Torn, disk[Bak(at)]},
         \A c \in Comp : c # at => disk'[Final(c)] = disk[Final(c)]
  PROVE  Holds
  <1>a. Guard /\ Committed /\ at \in Comp /\ "scop" \in Comp
    BY DEF Atomicity, TypeOK, Comp
  <1>1. /\ marker.state = "valid" /\ marker.prev = job.had /\ disk[Main] = Absent /\ ~Intact
    BY <1>a, SaveTransactionAssumption DEF Committed, Installing, Intact, Valid, Exists, Gen
  <1>2. CASE at # "scop"
    <2>1. disk'[Main] = disk[Main]
      BY <1>a, <1>2 DEF Main
    <2>2. ~Intact'
      BY <1>1, <2>1 DEF Intact, Valid, Main
    <2> QED BY <1>a, <1>1, <2>1, <2>2, SlotDamaged
  <1>3. CASE at = "scop"
    <2>1. Overwrite /\ Backed(marker.prev)
      BY <1>1, <1>3, <1>a DEF Overwrite, Guard
    <2>2. CASE ~Intact'
      BY <1>a, <1>1, <2>1, <2>2, SlotDamaged
    <2>3. CASE Intact'
      <3>1. disk'[Final("scop")] = disk[Bak("scop")]
        BY <1>1, <1>3, <2>3, SaveTransactionAssumption DEF Intact, Valid, Main, Gen
      <3>2. \A c \in Comp : c # "scop" => disk[Final(c)] = disk[Bak(c)]
        <4>1. Passed = {"scoc", "scov"}
          BY <1>3 DEF Passed, CompanionsFirst
        <4> QED BY <1>1, <2>1, <4>1, <1>a DEF Committed, Backed, Exists, Comp
      <3> QED BY <1>a, <1>1, <1>3, <2>1, <3>1, <3>2, SlotRestored
    <2> QED BY <2>2, <2>3
  <1> QED BY <1>2, <1>3

LEMMA SlotStep ==
  ASSUME TypeOK, IdsOK, Ages, Durable, Atomicity, WriterStep \/ RecoveryStep
  PROVE  Holds \/ Commits
  <1>t. /\ FilesOK /\ StepOK /\ CountersOK /\ marker \in Marker /\ job \in Job
    BY TypeParts
  <1> USE <1>t, JobFiles
  <1>a. Guard /\ Copied /\ Committed /\ Rebuilding /\ Calm
    BY DEF Atomicity
  <1>g. group' = group
    BY JobKept
  <1>1. CASE \/ StartJob \/ EarlyCustom \/ EarlyMain \/ Encode \/ WriteTemp \/ CheckMarker
             \/ CleanUp \/ Recover \/ StageRecovery \/ CleanRecovered
    BY <1>1, <1>a, <1>g, KeepsFinals, KeepsBaks, KeepsMarker, SlotStill
  <1>2. CASE EarlyBackup \/ Preflight \/ BackUp
    <2>1. Intact \/ marker.state = "missing"
      BY <1>2, <1>a DEF Copied, Early, Committing, EarlyBackup, Preflight, BackUp
    <2> QED BY <1>2, <2>1, <1>a, <1>g, KeepsFinals, KeepsMarker, SlotBacksUp
  <1>3. CASE WriteMarker
    <2>1. marker' \in {marker, Unmarked("invalid"), NewMarker} /\ pc = "marker"
      BY <1>3 DEF WriteMarker, PutMarker, BotchMarker
    <2> QED BY <1>3, <2>1, <1>g, KeepsFinals, KeepsBaks, SlotMarking
  <1>4. CASE Succeed \/ Unmark \/ UnmarkRecovered
    <2>1. Intact \/ ~Overwrite
      <3>1. CASE Succeed
        <4>1. disk[Main] = job.id
          BY <3>1 DEF Succeed, IdsOK, Working, Installing, Durable, Landing, Placed, GroupKnown,
               Serving, Saved, Main
        <4> QED BY <4>1 DEF Intact, Valid
      <3>2. CASE Unmark
        BY <3>2, <1>a DEF Unmark, Committed
      <3>3. CASE UnmarkRecovered
        BY <3>3, <1>a DEF UnmarkRecovered, Rebuilding
      <3> QED BY <1>4, <3>1, <3>2, <3>3
    <2>2. marker' \in {marker, Unmarked("missing")}
      BY <1>4 DEF Succeed, Unmark, UnmarkRecovered, DropMarker, KeepMarker, PutMarker
    <2>3. CASE Intact
      BY <1>4, <1>a, <1>g, <2>3, KeepsFinals, KeepsBaks, SlotMarks
    <2>4. CASE ~Intact
      <3>1. ~Overwrite' /\ (marker'.state = "invalid" => ~Exists(Bak("scop")))
        BY <2>1, <2>2, <2>4, <1>a DEF Overwrite, Unmarked, Guard
      <3> QED BY <1>4, <1>a, <1>g, <2>1, <2>4, <3>1, KeepsFinals, KeepsBaks, SlotMarks
    <2> QED BY <2>3, <2>4
  <1>k. ASSUME KeepFiles, marker' = marker PROVE Holds
    BY <1>k, <1>a, <1>g, SlotStill DEF KeepFiles, FinalsKept, BaksKept
  <1>5. CASE DropMain
    <2>1. CASE Delete(Main) /\ pc = "drop_main" /\ marker' = marker
      <3>1. ~Intact' /\ disk'[Main] = Absent
        BY <2>1, DeleteEffect, SaveTransactionAssumption DEF Main, Intact, Valid, Gen
      <3>2. /\ marker.state = "valid" /\ marker.prev = job.had
            /\ job.had = {c \in Comp : Exists(Final(c))} /\ \A c \in Comp : disk[Bak(c)] = disk[Final(c)]
            /\ Intact \/ "scop" \notin job.had
        BY <2>1, <1>a DEF Copied, Committed, Installing, BackedUp
      <3>3. CASE Intact
        <4>1. Overwrite
          BY <3>2, <3>3, SaveTransactionAssumption DEF Overwrite, Intact, Valid, Main, Exists, Gen
        <4>2. Backed(marker.prev)
          BY <3>2, <3>3, <1>a DEF Backed, Guard, Whole, Intact, Valid, Main, Exists
        <4> QED BY <1>5, <1>a, <1>g, <2>1, <3>1, <3>2, <4>1, <4>2, KeepsBaks, SlotUncovered DEF Main
      <3>4. CASE ~Intact
        <4>1. disk[Main] = Absent
          BY <3>2, <3>4 DEF Exists, Main
        <4> QED BY <1>5, <1>a, <1>g, <2>1, <3>1, <3>4, <4>1, KeepsBaks, SlotDamaged
      <3> QED BY <3>3, <3>4
    <2> QED BY <1>5, <1>k, <2>1 DEF DropMain, Main
  <1>6. CASE Install
    <2>1. CASE KeepFiles
      BY <1>6, <1>k, <2>1 DEF Install
    <2>2. CASE /\ IF Installs(at) THEN Move(Temp(job.id, at), Final(at)) ELSE Delete(Final(at))
               /\ Advance("done") /\ pc = "install" /\ marker' = marker /\ job' = job
      <3>1. ~Intact /\ marker.state = "valid" /\ marker.id = job.id /\ job.id # 0
        BY <2>2, <1>a, SaveTransactionAssumption
        DEF Committed, Installing, Intact, Valid, Exists, Gen, IdsOK, Working
      <3>2. CASE at # "scop"
        <4>1. disk'[Main] = disk[Main]
          BY <2>2, <3>2, InstallSpares DEF Spares, Main
        <4>2. ~Intact'
          BY <3>1, <4>1 DEF Intact, Valid, Main
        <4> QED BY <1>6, <1>a, <1>g, <2>2, <3>1, <4>1, <4>2, KeepsBaks, SlotDamaged
      <3>3. CASE at = "scop"
        <4>1. pc' = "done"
          BY <2>2, <3>3 DEF Advance, Last, CompanionsFirst, Goto
        <4>2. \A c \in Comp : disk'[Final(c)] = group'[job.id][c]
          BY <1>6, <2>2, <3>1, <4>1, LandingStep DEF Landing, Placed, WriterStep
        <4>3. group[job.id]["scop"] = job.id
          BY <2>2, <3>1 DEF Durable, GroupKnown, Serving, Saved
        <4> QED BY <2>2, <3>1, <4>2, <4>3, <1>g, SlotCommits
      <3> QED BY <3>2, <3>3
    <2> QED BY <1>6, <2>1, <2>2 DEF Install
  <1>7. CASE RestorePrevious
    <2>1. /\ pc = "restore" /\ marker' = marker /\ BaksKept
          /\ marker.state = "valid" /\ marker.prev = job.had /\ disk[Main] = Absent /\ ~Intact
      BY <1>7, <1>a, KeepsBaks, SaveTransactionAssumption
      DEF RestorePrevious, Committed, Installing, Intact, Valid, Exists, Gen
    <2>2. CASE KeepFiles
      BY <1>k, <2>1, <2>2
    <2>3. CASE at \notin job.had /\ Delete(Final(at))
      <3>1. disk'[Main] = Absent
        BY <2>1, <2>3, DeleteEffect DEF Main
      <3>2. ~Intact'
        BY <3>1, SaveTransactionAssumption DEF Intact, Valid, Main, Gen
      <3> QED BY <1>a, <1>g, <2>1, <3>1, <3>2, SlotDamaged
    <2>4. CASE at \in job.had /\ (Put(Final(at), disk[Bak(at)]) \/ Botch(Final(at), disk[Bak(at)]))
      <3>1. /\ disk'[Final(at)] \in {disk[Final(at)], Absent, Torn, disk[Bak(at)]}
            /\ \A c \in Comp : c # at => disk'[Final(c)] = disk[Final(c)]
        BY <2>4, OneFile, Apart
      <3> QED BY <2>1, <2>4, <3>1, <1>g, SlotRestoring
    <2> QED BY <1>7, <2>2, <2>3, <2>4 DEF RestorePrevious
  <1>8. CASE InstallRecovery
    <2>1. /\ pc = "rec_install" /\ marker' = marker /\ BaksKept /\ ~Intact /\ marker.state = "valid"
      BY <1>8, <1>a, KeepsBaks
      DEF InstallRecovery, Calm, RebuildsOnlyDamage, Rebuilding, Intact, Main
    <2>2. CASE KeepFiles
      BY <1>k, <2>1, <2>2
    <2>3. CASE at # "scop" /\ (Move(Staged(at), Final(at)) \/ Delete(Final(at)))
      <3>1. disk'[Main] = disk[Main]
        <4>1. Main \in File /\ Main # Final(at) /\ Main # Staged(at) /\ Staged(at) # Final(at)
          BY <2>3, Apart DEF Main
        <4> QED BY <2>3, <4>1, DeleteEffect, MoveEffect
      <3>2. ~Intact'
        BY <2>1, <3>1 DEF Intact, Valid, Main
      <3> QED BY <1>a, <1>g, <2>1, <3>1, <3>2, SlotDamaged
    <2>4. CASE at = "scop" /\ (at \in job.expect => Move(Staged(at), Final(at)))
      <3>1. "scop" \in job.expect /\ Passed = {"scoc", "scov"}
        BY <2>1, <2>4, <1>a DEF Rebuilding, NewComps, Passed, CompanionsFirst, Comp
      <3>2. \A c \in Comp : disk'[Final(c)] = group[Target][c]
        <4>1. \A c \in Comp : c # "scop" => disk'[Final(c)] = disk[Final(c)]
          BY <2>4, <3>1, MoveEffect, Apart
        <4>2. disk'[Final("scop")] = disk[Staged("scop")]
          BY <2>4, <3>1, MoveEffect, Apart
        <4> QED BY <2>1, <3>1, <4>1, <4>2, <1>a DEF Rebuilding, Comp
      <3>3. CASE job.source = "bak"
        <4>1. Overwrite /\ Backed(marker.prev)
          BY <2>1, <3>3, <1>a DEF Rebuilding, Overwrite, Guard
        <4>2. \A c \in Comp : disk'[Final(c)] = disk[Bak(c)]
          BY <3>2, <3>3, <4>1 DEF Target, Backed
        <4> QED BY <1>a, <1>g, <2>1, <4>1, <4>2, SlotRestored
      <3>4. CASE job.source # "bak"
        <4>1. group[marker.id]["scop"] = marker.id
          BY <2>1, <1>a DEF Committed, Group, Comp
        <4> QED BY <1>g, <2>1, <3>2, <3>4, <4>1, SlotCommits DEF Target
      <3> QED BY <3>3, <3>4
    <2> QED BY <1>8, <2>2, <2>3, <2>4 DEF InstallRecovery
  <1>9. ~RecoverLegacy /\ ~PurgeLegacy
    BY <1>a, NoLegacyStep DEF Calm
  <1> QED BY <1>1, <1>2, <1>3, <1>4, <1>5, <1>6, <1>7, <1>8, <1>9 DEF WriterStep, RecoveryStep

\* A killed process touches only the files it was writing.
LEMMA KillEffect ==
  ASSUME TypeOK, Kill, NEW f \in File
  PROVE  disk'[f] = disk[f] \/ \E v : <<f, v>> \in InFlight /\ disk'[f] \in {Torn, v}
  <1>1. PICK whole \in SUBSET InFlight, partial \in SUBSET InFlight :
            disk' = Landed({w[1] : w \in partial}, whole)
    BY DEF Kill
  <1>p. \A w \in InFlight : w = <<w[1], w[2]>>
    BY DEF InFlight
  <1>2. CASE f \in {w[1] : w \in partial}
    <2>1. PICK w \in partial : w[1] = f
      BY <1>2
    <2>2. w \in InFlight /\ w = <<f, w[2]>>
      BY <1>1, <1>p, <2>1
    <2> QED BY <1>1, <1>2, <2>2 DEF Landed
  <1>3. CASE f \notin {w[1] : w \in partial} /\ \E w \in whole : w[1] = f
    <2>1. PICK w \in whole : w = (CHOOSE x \in whole : x[1] = f) /\ w[1] = f
      BY <1>3
    <2>2. disk'[f] = w[2]
      BY <1>1, <1>3, <2>1 DEF Landed
    <2>3. w \in InFlight /\ w = <<f, w[2]>>
      BY <1>1, <1>p, <2>1
    <2> QED BY <2>2, <2>3
  <1>4. CASE f \notin {w[1] : w \in partial} /\ ~\E w \in whole : w[1] = f
    BY <1>1, <1>4 DEF Landed
  <1> QED BY <1>2, <1>3, <1>4

LEMMA SlotKill ==
  ASSUME TypeOK, IdsOK, Ages, Atomicity, Kill
  PROVE  Holds
  <1>t. /\ FilesOK /\ StepOK /\ CountersOK /\ marker \in Marker /\ job \in Job
    BY TypeParts
  <1> USE <1>t, JobFiles
  <1>a. Guard /\ Copied /\ Committed /\ Calm
    BY DEF Atomicity
  <1>g. group' = group /\ (pc # "marker" => marker' = marker)
        /\ marker' \in {marker, Unmarked("invalid"), NewMarker}
    BY <1>a DEF Kill, Forget, MarkerInFlight, Calm, RebuildsOnlyDamage, LegacyLabel
  <1>c. ~(pc \in LegacyLabel)
    BY <1>a DEF Calm, RebuildsOnlyDamage
  <1>1. CASE pc = "early_backup" \/ (pc = "backup" /\ at \in job.had)
    <2>1. InFlight = {<<Bak(at), disk[Final(at)]>>}
      BY <1>1 DEF InFlight
    <2>2. FinalsKept
      BY <2>1, KillEffect, Apart DEF FinalsKept
    <2>3. Intact \/ marker.state = "missing"
      BY <1>1, <1>a DEF Copied, Early, Committing
    <2> QED BY <1>1, <1>a, <1>g, <2>2, <2>3, SlotBacksUp
  <1>2. CASE pc = "restore" /\ at \in job.had
    <2>1. InFlight = {<<Final(at), disk[Bak(at)]>>}
      BY <1>2 DEF InFlight
    <2>2. BaksKept
      BY <2>1, KillEffect, Apart DEF BaksKept
    <2>3. /\ disk'[Final(at)] \in {disk[Final(at)], Absent, Torn, disk[Bak(at)]}
          /\ \A c \in Comp : c # at => disk'[Final(c)] = disk[Final(c)]
      BY <2>1, KillEffect, Apart
    <2> QED BY <1>2, <1>g, <2>2, <2>3, SlotRestoring
  <1>3. CASE ~(pc = "early_backup" \/ (pc = "backup" /\ at \in job.had))
             /\ ~(pc = "restore" /\ at \in job.had)
    <2>1. ASSUME NEW f, NEW v, <<f, v>> \in InFlight
          PROVE  f = Temp(job.id, "scoc") \/ f = Temp(job.id, "scop") \/ f = Temp(job.id, at)
                   \/ f = Staged(at)
      BY <1>3, <1>c, <2>1 DEF InFlight, LegacyLabel
    <2>2. FinalsKept /\ BaksKept
      <3>1. \A c, v : c \in Comp => <<Final(c), v>> \notin InFlight /\ <<Bak(c), v>> \notin InFlight
        BY <2>1, Apart
      <3> QED BY <3>1, KillEffect DEF FinalsKept, BaksKept
    <2>3. CASE pc = "marker"
      BY <1>g, <2>2, <2>3, SlotMarking
    <2>4. CASE pc # "marker"
      BY <1>a, <1>g, <2>2, <2>4, SlotStill
    <2> QED BY <2>3, <2>4
  <1> QED BY <1>1, <1>2, <1>3

LEMMA CopiedStep ==
  ASSUME TypeOK, IdsOK, Atomicity, WriterStep \/ RecoveryStep
  PROVE  Copied'
  <1>t. /\ FilesOK /\ StepOK /\ CountersOK /\ marker \in Marker /\ job \in Job
    BY TypeParts
  <1> USE <1>t, JobFiles
  <1>a. Guard /\ Copied /\ Rebuilding /\ Calm
    BY DEF Atomicity
  <1> USE DEF Saving, Committing, Recovering
  <1>n. ASSUME pc' \notin Saving \cup Committing \cup Recovering \cup {"drop_main"} PROVE Copied'
    BY <1>n DEF Copied, Early
  <1>q. Passed \subseteq Comp
    BY DEF Passed, Comp
  <1>k. ASSUME FinalsKept, BaksKept
        PROVE  /\ \A c \in Comp : BackedUp(c)' <=> BackedUp(c)
               /\ \A c \in Comp : Exists(Final(c))' <=> Exists(Final(c))
               /\ Intact' <=> Intact
    BY <1>k DEF FinalsKept, BaksKept, BackedUp, Exists, Intact, Valid, Main
  <1>1. CASE StartJob
    <2>1. /\ pc = "start" /\ pc' \in {"early_custom", "early_backup", "encode"} /\ Passed' = {}
          /\ marker' = marker /\ job' = job
          /\ pc' # "encode" => marker.state = "missing" /\ \A c \in Comp : Exists(Final(c))
      BY <1>1, GotoEffect DEF StartJob
    <2>2. FinalsKept /\ BaksKept
      BY <1>1, KeepsFinals, KeepsBaks
    <2> QED BY <2>1, <2>2, <1>k, <1>a DEF Copied, Early
  <1>2. CASE EarlyCustom
    <2>1. /\ pc = "early_custom" /\ pc' \in {"early_backup", "encode"} /\ Passed' = {}
          /\ marker' = marker /\ job'.backups = job.backups /\ job'.had = job.had
      BY <1>2, GotoEffect DEF EarlyCustom, Job
    <2>2. FinalsKept /\ BaksKept
      BY <1>2, KeepsFinals, KeepsBaks
    <2> QED BY <2>1, <2>2, <1>k, <1>a DEF Copied, Early
  <1>3. CASE EarlyBackup
    <2>1. FinalsKept /\ marker' = marker /\ pc = "early_backup"
      BY <1>3, KeepsFinals, KeepsMarker DEF EarlyBackup
    <2>2. \A c \in Comp : Exists(Final(c))'
      BY <2>1, <1>a DEF Copied, Early, FinalsKept, Exists
    <2>3. CASE pc' = "encode"
      <3>1. job'.backups = job.backups /\ job'.had = job.had
        BY <1>3, <2>3 DEF EarlyBackup, Job
      <3> QED BY <2>1, <2>3, <3>1, <1>a DEF Copied, Early
    <2>4. CASE Put(Bak(at), disk[Final(at)]) /\ Advance("early_main") /\ job' = job
      <3>1. \A c \in Comp : c \in Passed \cup {at} => BackedUp(c)'
        BY <2>1, <2>4, PutEffect, Apart, <1>a DEF Copied, BackedUp, FinalsKept
      <3>2. CASE pc' = "early_backup" /\ Passed' = Passed \cup {at}
        BY <2>1, <2>2, <2>4, <3>1, <3>2, <1>a, <1>q DEF Copied, Early
      <3>3. CASE pc' = "early_main" /\ Comp = Passed \cup {at}
        BY <2>1, <2>2, <2>4, <3>1, <3>3, <1>a DEF Copied, Early
      <3> QED BY <2>1, <2>4, <3>2, <3>3, AdvanceEffect
    <2> QED BY <1>3, <2>3, <2>4 DEF EarlyBackup, Goto
  <1>4. CASE EarlyMain
    <2>1. /\ pc = "early_main" /\ pc' = "encode" /\ marker' = marker /\ job'.had = job.had
      BY <1>4 DEF EarlyMain, Job, Goto
    <2>2. FinalsKept /\ BaksKept
      BY <1>4, KeepsFinals, KeepsBaks
    <2> QED BY <2>1, <2>2, <1>k, <1>a DEF Copied, Early
  <1>5. CASE Encode
    <2>1. pc = "encode" /\ pc' \in {"temps", "cleanup"} /\ marker' = marker /\ job' = job
      BY <1>5 DEF Encode, Goto
    <2>2. FinalsKept /\ BaksKept
      BY <1>5, KeepsFinals, KeepsBaks
    <2> QED BY <2>1, <2>2, <1>k, <1>a DEF Copied, Early
  <1>6. CASE WriteTemp
    <2>1. pc = "temps" /\ pc' \in {"temps", "check", "cleanup"} /\ marker' = marker /\ job' = job
      BY <1>6 DEF WriteTemp, Goto, Advance
    <2>2. FinalsKept /\ BaksKept
      BY <1>6, KeepsFinals, KeepsBaks
    <2> QED BY <2>1, <2>2, <1>k, <1>a DEF Copied, Early
  <1>7. CASE CheckMarker
    <2>1. /\ pc = "check" /\ marker' = marker /\ job'.had = job.had /\ Passed' = {}
          /\ job'.backups = (job.backups /\ marker.state = "missing")
          /\ pc' = IF marker.state = "missing" THEN "preflight" ELSE "recover"
      BY <1>7, GotoEffect DEF CheckMarker, Job, Goto
    <2>2. FinalsKept /\ BaksKept
      BY <1>7, KeepsFinals, KeepsBaks
    <2> QED BY <2>1, <2>2, <1>k, <1>a DEF Copied, Early
  <1>8. CASE Preflight
    <2>1. CASE pc' = "cleanup"
      BY <2>1, <1>n
    <2>2. CASE /\ disk' = [f \in File |-> IF f \in Stale(at) THEN Absent ELSE disk[f]]
               /\ job' = [job EXCEPT !.had = IF HadFinal(at) THEN @ \cup {at} ELSE @]
               /\ Advance(IF job.backups THEN "marker" ELSE "backup")
      <3>1. /\ pc = "preflight" /\ marker' = marker /\ FinalsKept /\ job'.backups = job.backups
            /\ job.had = {c \in Passed : Exists(Final(c))} /\ \A c \in Passed \ job.had : ~Exists(Bak(c))
        BY <1>8, <2>2, <1>a, KeepsFinals DEF Preflight, Copied, Job
      <3>2. HadFinal(at) <=> Exists(Final(at))
        BY <3>1, <1>a DEF HadFinal, Copied, Early
      <3>3. \A c \in Comp : /\ Exists(Final(c))' <=> Exists(Final(c))
                            /\ c # at \/ HadFinal(at) => disk'[Bak(c)] = disk[Bak(c)]
                            /\ c = at /\ ~HadFinal(at) => disk'[Bak(c)] = Absent
        BY <2>2, <3>1, Apart DEF FinalsKept, Exists, Stale
      <3>4. job'.had = {c \in Passed \cup {at} : Exists(Final(c))}
        <4>1. job'.had = IF HadFinal(at) THEN job.had \cup {at} ELSE job.had
          BY <2>2 DEF Job
        <4> QED BY <3>1, <3>2, <4>1
      <3>5. \A c \in (Passed \cup {at}) \ job'.had : ~Exists(Bak(c))'
        BY <3>1, <3>2, <3>3, <3>4, <1>q DEF Exists
      <3>6. /\ Intact' <=> Intact
            /\ marker.state # "missing" => Intact
            /\ job.backups => /\ marker.state = "missing"
                              /\ \A c \in Comp : Exists(Final(c)) /\ BackedUp(c)
        BY <3>1, <1>a DEF Copied, Early, Committing, FinalsKept, Intact, Valid, Main, Comp
      <3>7. job.backups => \A c \in Comp : Exists(Final(c))' /\ BackedUp(c)'
        BY <3>1, <3>2, <3>3, <3>6 DEF BackedUp, FinalsKept
      <3>8. job'.had = {c \in Passed \cup {at} : Exists(Final(c))'}
        BY <3>3, <3>4, <1>q
      <3>9. CASE pc' = "preflight" /\ Passed' = Passed \cup {at}
        BY <3>1, <3>5, <3>6, <3>7, <3>8, <3>9 DEF Copied, Early
      <3>10. CASE pc' = "marker" /\ job.backups /\ Comp = Passed \cup {at}
        BY <3>1, <3>5, <3>6, <3>7, <3>8, <3>10 DEF Copied, Early
      <3>11. CASE pc' = "backup" /\ ~job.backups /\ Comp = Passed \cup {at} /\ Passed' = {}
        <4>1. \A c \in Comp : c \notin job'.had => BackedUp(c)'
          BY <3>3, <3>5, <3>8, <3>11 DEF BackedUp, Exists
        <4> QED BY <3>1, <3>6, <3>8, <3>11, <4>1 DEF Copied, Early
      <3> QED BY <2>2, <3>1, <3>9, <3>10, <3>11, AdvanceEffect
    <2> QED BY <1>8, <2>1, <2>2 DEF Preflight, Goto
  <1>9. CASE BackUp
    <2>1. CASE pc' = "cleanup"
      BY <2>1, <1>n
    <2>2. CASE /\ IF at \in job.had THEN Put(Bak(at), disk[Final(at)]) ELSE KeepFiles
               /\ Advance("marker") /\ job' = job
      <3>1. /\ pc = "backup" /\ marker' = marker /\ FinalsKept
            /\ job.had = {c \in Comp : Exists(Final(c))} /\ ~job.backups
            /\ \A c \in Comp : (c \in job.had => c \in Passed) => BackedUp(c)
            /\ marker.state # "missing" => Intact
        BY <1>9, <1>a, KeepsFinals DEF BackUp, Copied, Committing
      <3>2. \A c \in Comp : (c \in job.had => c \in Passed \cup {at}) => BackedUp(c)'
        <4>1. CASE at \in job.had
          <5>1. \A x \in File : x # Bak(at) => disk'[x] = disk[x]
            BY <2>2, <4>1, PutEffect
          <5>2. disk'[Bak(at)] = disk[Final(at)]
            BY <2>2, <4>1, PutEffect
          <5> QED BY <3>1, <4>1, <5>1, <5>2, Apart DEF BackedUp, FinalsKept
        <4>2. CASE at \notin job.had
          BY <2>2, <3>1, <4>2 DEF KeepFiles, BackedUp
        <4> QED BY <4>1, <4>2
      <3>3. (Intact' <=> Intact) /\ \A c \in Comp : Exists(Final(c))' <=> Exists(Final(c))
        BY <3>1 DEF FinalsKept, Intact, Valid, Main, Comp, Exists
      <3>4. CASE pc' = "backup" /\ Passed' = Passed \cup {at}
        BY <2>2, <3>1, <3>2, <3>3, <3>4 DEF Copied, Early
      <3>5. CASE pc' = "marker" /\ Comp = Passed \cup {at}
        BY <2>2, <3>1, <3>2, <3>3, <3>5 DEF Copied, Early
      <3> QED BY <2>2, <3>1, <3>4, <3>5, AdvanceEffect
    <2> QED BY <1>9, <2>1, <2>2 DEF BackUp, Goto
  <1>10. CASE WriteMarker
    <2>1. /\ pc = "marker" /\ pc' \in {"drop_main", "unmark"} /\ job' = job
      BY <1>10 DEF WriteMarker, Goto
    <2>2. FinalsKept /\ BaksKept
      BY <1>10, KeepsFinals, KeepsBaks
    <2>3. Intact \/ "scop" \notin job.had
      BY <2>1, <1>a DEF Copied, Guard, Overwrite, Main
    <2> QED BY <2>1, <2>2, <2>3, <1>k, <1>a DEF Copied, Early
  <1>11. CASE DropMain \/ Install \/ Succeed \/ RestorePrevious \/ Unmark \/ CleanUp
    <2>1. pc' \notin Saving \cup Committing \cup Recovering \cup {"drop_main"}
      BY <1>11 DEF DropMain, Install, Succeed, RestorePrevious, Unmark, CleanUp, Goto, Advance
    <2> QED BY <2>1, <1>n
  <1>12. CASE Recover \/ StageRecovery \/ InstallRecovery \/ CleanRecovered
    <2>1. pc' \notin {"preflight"}
      BY <1>12 DEF Recover, StageRecovery, InstallRecovery, CleanRecovered, Rebuild, Return, Goto, Advance
    <2>2. pc' \in Recovering => job'.backups = job.backups /\ job'.had = job.had
      BY <1>12, RebuildIds DEF SameJob, Recover, StageRecovery, InstallRecovery, CleanRecovered, Return, Goto
    <2>3. pc' \in Recovering \cup {"idle", "cleanup"} /\ pc \in Recovering
      BY <1>12 DEF Recover, StageRecovery, InstallRecovery, CleanRecovered, Rebuild, Return, Goto, Advance
    <2> QED BY <2>1, <2>2, <2>3, <1>a DEF Copied, Early
  <1>13. CASE UnmarkRecovered
    <2>1. /\ pc = "rec_unmark" /\ Passed' = {} /\ pc' \in {"preflight", "idle"}
          /\ pc' = "preflight" => job' = job
      BY <1>13, GotoEffect DEF UnmarkRecovered, Return
    <2>2. FinalsKept /\ BaksKept
      BY <1>13, KeepsFinals, KeepsBaks
    <2>3. Intact
      BY <2>1, <1>a DEF Rebuilding
    <2> QED BY <2>1, <2>2, <2>3, <1>k, <1>a DEF Copied, Early
  <1>14. ~RecoverLegacy /\ ~PurgeLegacy
    BY <1>a, NoLegacyStep DEF Calm
  <1> QED BY <1>1, <1>2, <1>3, <1>4, <1>5, <1>6, <1>7, <1>8, <1>9, <1>10, <1>11, <1>12, <1>13, <1>14
          DEF WriterStep, RecoveryStep

LEMMA CommittedStep ==
  ASSUME TypeOK, IdsOK, Durable, Atomicity, WriterStep \/ RecoveryStep
  PROVE  Committed'
  <1>t. /\ FilesOK /\ StepOK /\ CountersOK /\ marker \in Marker /\ job \in Job
    BY TypeParts
  <1> USE <1>t, JobFiles
  <1>a. Guard /\ Copied /\ Committed /\ Rebuilding /\ Calm
    BY DEF Atomicity
  <1>g. group' = group
    BY JobKept
  <1>9. ~RecoverLegacy /\ ~PurgeLegacy
    BY <1>a, NoLegacyStep DEF Calm
  <1>m. marker'.state = "valid" => group'[marker'.id] = Group(marker'.id, marker'.custom)
    <2>1. CASE WriteMarker
      <3>1. NewMarker.id = job.id /\ NewMarker.custom = job.custom /\ job.id # 0
        BY <2>1 DEF NewMarker, WriteMarker, IdsOK, Working, Committing
      <3>2. group[job.id] = [c \in Comp |-> group[job.id][c]]
        BY DEF CountersOK
      <3>3. \A c \in Comp : group[job.id][c] = Group(job.id, job.custom)[c]
        BY <2>1, <3>1, <1>a DEF Durable, GroupKnown, Serving, Saved, Committing, WriteMarker, Group, Comp,
           Calm, HandedOver
      <3>4. group[job.id] = Group(job.id, job.custom)
        BY <3>2, <3>3 DEF Group
      <3>5. marker' \in {marker, Unmarked("invalid"), NewMarker}
        BY <2>1 DEF WriteMarker, PutMarker, BotchMarker
      <3> QED BY <3>1, <3>4, <3>5, <1>a, <1>g DEF Committed, Unmarked
    <2>2. CASE Succeed \/ Unmark \/ UnmarkRecovered
      <3>1. marker' \in {marker, Unmarked("missing")}
        BY <2>2 DEF Succeed, Unmark, UnmarkRecovered, DropMarker, KeepMarker, PutMarker
      <3> QED BY <3>1, <1>a, <1>g DEF Committed, Unmarked
    <2>3. CASE ~WriteMarker /\ ~Succeed /\ ~Unmark /\ ~UnmarkRecovered
      <3>1. marker' = marker
        BY <2>3, <1>9, KeepsMarker DEF WriterStep, RecoveryStep
      <3> QED BY <3>1, <1>a, <1>g DEF Committed
    <2> QED BY <2>1, <2>2, <2>3
  <1>n. ASSUME pc' \notin Installing \cup {"unmark"} PROVE Committed'
    BY <1>m, <1>n DEF Committed, Installing
  <1>1. CASE WriteMarker
    <2>1. CASE PutMarker(NewMarker) /\ pc' = "drop_main"
      <3>1. marker' = NewMarker /\ job' = job
        BY <1>1, <2>1 DEF PutMarker, WriteMarker
      <3> QED BY <1>m, <2>1, <3>1 DEF Committed, Installing, NewMarker
    <2>2. CASE pc' = "unmark"
      <3>1. marker' \in {marker, Unmarked("invalid"), NewMarker} /\ pc = "marker"
        BY <1>1 DEF WriteMarker, PutMarker, BotchMarker
      <3>2. ~Intact => ~Overwrite /\ ~Exists(Main)
        BY <3>1, <1>a DEF Copied, Committing, Guard, Overwrite
      <3>3. ~Intact => "scop" \notin job.had
        BY <3>1, <3>2, <1>a DEF Copied, Main
      <3>4. ~Intact => ~Overwrite'
        BY <3>1, <3>2, <3>3 DEF Overwrite, NewMarker, Unmarked
      <3>5. Intact' <=> Intact
        BY <1>1, KeepsFinals DEF FinalsKept, Intact, Valid, Main, Comp
      <3> QED BY <1>m, <2>2, <3>4, <3>5 DEF Committed, Installing
    <2> QED BY <1>1, <2>1, <2>2 DEF WriteMarker, Goto
  <1>2. CASE DropMain
    <2>1. /\ pc = "drop_main" /\ job' = job /\ marker' = marker /\ pc' \in {"install", "unmark"}
          /\ marker.state = "valid" /\ marker.id = job.id /\ marker.prev = job.had
          /\ Intact \/ "scop" \notin job.had
      BY <1>2, <1>a DEF DropMain, Goto, Committed, Installing, Copied
    <2>2. CASE pc' = "install"
      <3>1. disk'[Main] = Absent
        BY <1>2, <2>2, DeleteEffect DEF DropMain, Goto, Main
      <3> QED BY <1>m, <2>1, <2>2, <3>1 DEF Committed, Installing, Exists
    <2>3. CASE pc' = "unmark"
      <3>1. disk' = disk
        BY <1>2, <2>3 DEF DropMain, Goto, KeepFiles
      <3> QED BY <1>m, <2>1, <2>3, <3>1 DEF Committed, Installing, Intact, Valid, Overwrite
    <2> QED BY <2>1, <2>2, <2>3
  <1>3. CASE Install
    <2>1. /\ pc = "install" /\ job' = job /\ marker' = marker /\ pc' \in {"install", "done", "restore"}
          /\ marker.state = "valid" /\ marker.id = job.id /\ marker.prev = job.had
          /\ ~Exists(Main)
      BY <1>3, <1>a DEF Install, Goto, Advance, Committed, Installing
    <2>2. CASE pc' = "done"
      BY <1>m, <2>1, <2>2 DEF Committed, Installing
    <2>3. CASE pc' = "install"
      <3>1. at # "scop" /\ (Move(Temp(job.id, at), Final(at)) \/ Delete(Final(at)))
        BY <1>3, <2>1, <2>3 DEF Install, Goto, Advance, Last, CompanionsFirst
      <3>2. disk'[Main] = disk[Main]
        BY <3>1, InstallSpares DEF Spares, Main
      <3> QED BY <1>m, <2>1, <2>3, <3>2 DEF Committed, Installing, Exists
    <2>4. CASE pc' = "restore"
      <3>1. disk' = disk /\ Passed' = {}
        BY <1>3, <2>4, GotoEffect DEF Install, Goto, Advance, KeepFiles
      <3> QED BY <1>m, <2>1, <2>4, <3>1 DEF Committed, Installing, Exists
    <2> QED BY <2>1, <2>2, <2>3, <2>4
  <1>4. CASE RestorePrevious
    <2>1. /\ pc = "restore" /\ job' = job /\ marker' = marker /\ BaksKept
          /\ marker.state = "valid" /\ marker.id = job.id /\ marker.prev = job.had
          /\ ~Exists(Main) /\ ~Intact
          /\ \A c \in Passed : disk[Final(c)] = IF c \in job.had THEN disk[Bak(c)] ELSE Absent
      BY <1>4, <1>a, KeepsBaks, SaveTransactionAssumption
      DEF RestorePrevious, Committed, Installing, Intact, Valid, Exists, Gen
    <2>2. CASE pc' = "cleanup"
      BY <2>2, <1>n DEF Installing
    <2>3. CASE /\ IF at \in job.had THEN Put(Final(at), disk[Bak(at)]) ELSE Delete(Final(at))
               /\ Advance("unmark")
      <3>1. /\ disk'[Final(at)] = IF at \in job.had THEN disk[Bak(at)] ELSE Absent
            /\ \A c \in Comp : c # at => disk'[Final(c)] = disk[Final(c)]
        BY <2>3, PutEffect, DeleteEffect, Apart
      <3>2. CASE pc' = "restore" /\ Passed' = Passed \cup {at} /\ at # "scop"
        <4>1. disk'[Main] = disk[Main]
          BY <3>1, <3>2 DEF Main
        <4>2. Passed \subseteq Comp
          BY DEF Passed, Comp
        <4>3. \A c \in Passed' : disk'[Final(c)] = IF c \in job'.had THEN disk'[Bak(c)] ELSE Absent
          BY <2>1, <3>1, <3>2, <4>2 DEF BaksKept
        <4> QED BY <1>m, <2>1, <3>2, <4>1, <4>3 DEF Committed, Installing, Exists
      <3>3. CASE pc' = "unmark" /\ at = "scop"
        <4>1. CASE "scop" \in job.had
          <5>1. Valid(Bak("scop"))
            BY <2>1, <4>1, <1>a DEF Guard, Overwrite, Backed
          <5>2. Intact'
            BY <3>1, <3>3, <4>1, <5>1 DEF Intact, Valid, Main
          <5> QED BY <1>m, <3>3, <5>2 DEF Committed, Installing
        <4>2. CASE "scop" \notin job.had
          BY <1>m, <2>1, <3>3, <4>2 DEF Committed, Installing, Overwrite
        <4> QED BY <4>1, <4>2
      <3> QED BY <2>1, <2>3, <3>2, <3>3, AdvanceEffect DEF Last, CompanionsFirst
    <2> QED BY <1>4, <2>2, <2>3 DEF RestorePrevious, Goto
  <1>5. CASE \/ StartJob \/ EarlyCustom \/ EarlyBackup \/ EarlyMain \/ Encode \/ WriteTemp \/ CheckMarker
             \/ Preflight \/ BackUp \/ Succeed \/ Unmark \/ CleanUp
    <2>1. pc' \notin Installing \cup {"unmark"}
      BY <1>5 DEF StartJob, EarlyCustom, EarlyBackup, EarlyMain, Encode, WriteTemp, CheckMarker,
           Preflight, BackUp, Succeed, Unmark, CleanUp, Goto, Advance, Installing
    <2> QED BY <2>1, <1>n
  <1>6. CASE RecoveryStep
    <2>1. pc' \notin Installing \cup {"unmark"}
      BY <1>6, <1>9 DEF RecoveryStep, Recover, StageRecovery, InstallRecovery, CleanRecovered,
           UnmarkRecovered, Rebuild, Return, Goto, Advance, Installing
    <2> QED BY <2>1, <1>n
  <1> QED BY <1>1, <1>2, <1>3, <1>4, <1>5, <1>6 DEF WriterStep

LEMMA RebuildingStep ==
  ASSUME TypeOK, IdsOK, Atomicity, WriterStep \/ RecoveryStep
  PROVE  Rebuilding'
  <1>t. /\ FilesOK /\ StepOK /\ CountersOK /\ marker \in Marker /\ job \in Job
    BY TypeParts
  <1> USE <1>t, JobFiles
  <1>a. Guard /\ Committed /\ Rebuilding /\ Calm
    BY DEF Atomicity
  <1>g. group' = group
    BY JobKept
  <1>9. ~RecoverLegacy /\ ~PurgeLegacy
    BY <1>a, NoLegacyStep DEF Calm
  <1>n. ASSUME pc' \notin Recovering PROVE Rebuilding'
    BY <1>n DEF Rebuilding, Recovering
  <1>1. CASE WriterStep
    <2>1. pc' \notin Recovering \/ pc' = "recover"
      BY <1>1 DEF WriterStep, StartJob, EarlyCustom, EarlyBackup, EarlyMain, Encode, WriteTemp,
           CheckMarker, Preflight, BackUp, WriteMarker, DropMain, Install, Succeed, RestorePrevious,
           Unmark, CleanUp, Goto, Advance, Recovering
    <2> QED BY <2>1 DEF Rebuilding, Recovering
  <1>2. CASE Recover
    <2>1. /\ disk' = disk /\ marker' = marker /\ pc = "recover"
      BY <1>2 DEF Recover, KeepFiles
    <2>2. CASE Complete /\ pc' \in {"rec_unmark", "rec_clean"}
      BY <2>1, <2>2 DEF Complete, Rebuilding, Intact, Valid, Main
    <2>3. CASE pc' = "rec_stage" /\ Passed' = {} /\ marker.state = "valid" /\ Restorable
               /\ job' = [job EXCEPT !.source = "bak", !.expect = marker.prev]
      <3>1. job'.source = "bak" /\ job'.expect = marker.prev
        BY <2>3 DEF Job
      <3> QED BY <2>1, <2>3, <3>1 DEF Rebuilding, Restorable
    <2>4. CASE pc' = "rec_stage" /\ Passed' = {} /\ marker.state = "valid" /\ Finishable
               /\ job' = [job EXCEPT !.source = "new", !.expect = NewComps]
      <3>1. job'.source = "new" /\ job'.expect = NewComps
        BY <2>4 DEF Job
      <3> QED BY <2>1, <2>4, <3>1 DEF Rebuilding, Finishable, NewSource, NewComps, Exists
    <2>5. CASE Return(FALSE)
      BY <1>n, <2>5 DEF Return, Goto, Recovering
    <2> QED BY <1>2, <1>a, <2>2, <2>3, <2>4, <2>5, GotoEffect
            DEF Recover, Rebuild, Calm, RebuildsOnlyDamage, Goto
  <1>3. CASE StageRecovery
    <2>1. CASE Return(FALSE)
      BY <1>n, <2>1 DEF Return, Goto, Recovering
    <2>2. CASE /\ IF at \in job.expect THEN Put(Staged(at), disk[RecoverySource(at)])
                                   ELSE Delete(Staged(at))
               /\ Advance("rec_install") /\ job' = job /\ marker' = marker /\ pc = "rec_stage"
      <3>1. /\ marker.state = "valid" /\ ~Intact
            /\ IF job.source = "bak" THEN Overwrite /\ Backed(marker.prev) /\ job.expect = marker.prev
               ELSE "scop" \notin marker.prev /\ job.expect = NewComps /\ job.source = "new"
                    /\ \A c \in NewComps : disk[NewSource(c)] = marker.id
            /\ \A c \in Passed \cap job.expect : disk[Staged(c)] = group[Target][c]
        BY <2>2, <1>a DEF Rebuilding, Calm, RebuildsOnlyDamage, Guard, Overwrite, Job, Main, Intact
      <3>2. \A f \in File : f # Staged(at) => disk'[f] = disk[f]
        BY <2>2, PutEffect, DeleteEffect
      <3>3. Target' = Target
        BY <2>2, <3>2, Apart DEF Target, Comp
      <3>4. ASSUME at \in job.expect PROVE disk'[Staged(at)] = group[Target][at]
        <4>1. disk'[Staged(at)] = disk[RecoverySource(at)]
          BY <2>2, <3>4, PutEffect
        <4>2. CASE job.source = "bak"
          BY <3>1, <4>1, <4>2 DEF RecoverySource, Target, Backed
        <4>3. CASE job.source # "bak"
          BY <3>1, <3>4, <4>1, <4>3, <1>a DEF RecoverySource, Target, Committed, Group, NewComps
        <4> QED BY <4>2, <4>3
      <3>5. \A c \in (Passed \cup {at}) \cap job.expect : disk'[Staged(c)] = group'[Target'][c]
        <4>1. \A c \in Passed \cap job.expect : c \in Comp
          BY DEF Passed, Comp
        <4>2. \A c \in Passed \cap job.expect : c # at => disk'[Staged(c)] = disk[Staged(c)]
          BY <3>2, <4>1, Apart
        <4> QED BY <1>g, <3>1, <3>3, <3>4, <4>1, <4>2
      <3>6. \A c \in Comp : disk'[NewSource(c)'] = disk[NewSource(c)]
        BY <2>2, <3>2, Apart DEF NewSource, Exists
      <3>7. CASE pc' = "rec_stage" /\ Passed' = Passed \cup {at}
        <4>1. job.source = "new" => \A c \in NewComps : disk'[NewSource(c)'] = marker.id
          BY <3>1, <3>6 DEF NewComps
        <4> QED BY <2>2, <3>1, <3>5, <3>7, <4>1 DEF Rebuilding, NewComps, Overwrite
      <3>8. CASE pc' = "rec_install" /\ Passed' = {} /\ Comp = Passed \cup {at}
        <4>1. job.expect \subseteq Comp
          BY DEF Job
        <4> QED BY <2>2, <3>1, <3>5, <3>8, <4>1 DEF Rebuilding, NewComps, Overwrite
      <3> QED BY <2>2, <3>7, <3>8, AdvanceEffect
    <2> QED BY <1>3, <2>1, <2>2 DEF StageRecovery
  <1>4. CASE InstallRecovery
    <2>1. CASE Return(FALSE)
      BY <1>n, <2>1 DEF Return, Goto, Recovering
    <2>2. CASE /\ IF at \in job.expect THEN Move(Staged(at), Final(at)) ELSE Delete(Final(at))
               /\ Advance("rec_clean") /\ job' = job /\ marker' = marker /\ pc = "rec_install"
      <3>1. /\ marker.state = "valid" /\ ~Intact
            /\ IF job.source = "bak" THEN Overwrite /\ Backed(marker.prev) /\ job.expect = marker.prev
               ELSE "scop" \notin marker.prev /\ job.expect = NewComps /\ job.source = "new"
            /\ \A c \in job.expect \ Passed : disk[Staged(c)] = group[Target][c]
            /\ \A c \in Passed : disk[Final(c)] = group[Target][c]
        BY <2>2, <1>a DEF Rebuilding, Calm, RebuildsOnlyDamage, Guard, Overwrite, Job, Main, Intact
      <3>2. /\ \A f \in File : f # Staged(at) /\ f # Final(at) => disk'[f] = disk[f]
            /\ at \in job.expect => disk'[Final(at)] = disk[Staged(at)]
            /\ at \notin job.expect => disk'[Final(at)] = Absent
        BY <2>2, MoveEffect, DeleteEffect, Apart
      <3>3. Target' = Target
        BY <2>2, <3>2, Apart DEF Target, Comp
      <3>4. disk'[Final(at)] = group[Target][at]
        <4>1. CASE at \in job.expect
          BY <3>1, <3>2, <4>1, AdvanceEffect, <2>2
        <4>2. CASE at \notin job.expect /\ job.source = "bak"
          BY <3>1, <3>2, <4>2 DEF Target, Backed, Exists
        <4>3. CASE at \notin job.expect /\ job.source # "bak"
          BY <3>1, <3>2, <4>3, <1>a DEF Target, Committed, Group, NewComps
        <4> QED BY <4>1, <4>2, <4>3
      <3>5. CASE pc' = "rec_install" /\ Passed' = Passed \cup {at}
        <4>1. \A c \in Comp : c # at => disk'[Staged(c)] = disk[Staged(c)] /\ disk'[Final(c)] = disk[Final(c)]
          BY <3>2, Apart
        <4>2. Passed \subseteq Comp /\ job.expect \subseteq Comp
          BY DEF Passed, Comp, Job
        <4>3. \A c \in job'.expect \ Passed' : disk'[Staged(c)] = group'[Target'][c]
          BY <1>g, <2>2, <3>1, <3>3, <3>5, <4>1, <4>2
        <4>4. \A c \in Passed' : disk'[Final(c)] = group'[Target'][c]
          BY <1>g, <2>2, <3>1, <3>3, <3>4, <3>5, <4>1, <4>2
        <4> QED BY <2>2, <3>1, <3>5, <4>3, <4>4 DEF Rebuilding, NewComps, Overwrite
      <3>6. CASE pc' = "rec_clean" /\ at = "scop"
        <4>1. group[Target]["scop"] \in Gen
          <5>1. CASE job.source = "bak"
            BY <3>1, <5>1 DEF Target, Backed, Valid, Comp
          <5>2. CASE job.source # "bak"
            BY <3>1, <5>2, <1>a DEF Target, Committed, Group, Comp, Marker
          <5> QED BY <5>1, <5>2
        <4>2. Intact'
          BY <3>4, <3>6, <4>1 DEF Intact, Valid, Main
        <4> QED BY <3>6, <4>2 DEF Rebuilding
      <3> QED BY <2>2, <3>5, <3>6, AdvanceEffect DEF Last, CompanionsFirst
    <2> QED BY <1>4, <2>1, <2>2 DEF InstallRecovery
  <1>5. CASE CleanRecovered
    <2>1. pc = "rec_clean" /\ pc' \in {"rec_clean", "rec_unmark"}
      BY <1>5 DEF CleanRecovered, Advance, Goto
    <2>2. Intact' <=> Intact
      BY <1>5, KeepsFinals DEF FinalsKept, Intact, Valid, Main, Comp
    <2> QED BY <2>1, <2>2, <1>a DEF Rebuilding
  <1>6. CASE UnmarkRecovered
    BY <1>6, <1>n DEF UnmarkRecovered, Return, Goto, Recovering
  <1> QED BY <1>1, <1>2, <1>3, <1>4, <1>5, <1>6, <1>9 DEF RecoveryStep

-----------------------------------------------------------------------------
(* Power losses.  While at most one file operation may fail and nothing has   *)
(* crashed, or while none may fail at all, what the slot shows is flushed     *)
(* before the marker and the files it rests on are given up.                  *)

Clean(f) == f \notin dirty
SafeFinals == (pc = "restore" => faults > 0) /\ \A c \in Comp : Clean(Final(c))
SafeBaks ==
    /\ pc = "early_backup" => \A c \in Passed : Clean(Bak(c))
    /\ Early /\ pc \notin {"early_custom", "early_backup"} => \A c \in Comp : Clean(Bak(c))
    /\ pc = "preflight" => \A c \in Passed \ job.had : Clean(Bak(c))
    /\ pc = "backup" => \A c \in Comp : (c \in job.had => c \in Passed) => Clean(Bak(c))
    /\ pc \in {"marker", "drop_main"} => \A c \in Comp : Clean(Bak(c))
SafeMarker ==
    /\ pc = "drop_main" => Clean(MarkerFile)
    /\ ~Intact /\ Overwrite => Clean(MarkerFile) /\ \A c \in Comp : Clean(Bak(c))
    /\ ~Intact /\ marker.state # "missing" => Clean(MarkerFile) \/ ~Exists(Bak("scop"))
SafeStages ==
    /\ pc = "rec_stage" => \A c \in Passed \cap job.expect : Clean(Staged(c))
    /\ pc = "rec_install" => \A c \in job.expect \ Passed : Clean(Staged(c))
Settled == SafeFinals /\ SafeBaks /\ SafeMarker /\ SafeStages

LEMMA Unfailing ==
  ASSUME TypeOK, faults' = faults
  PROVE  /\ ~Fails
         /\ \A f, v : ~Botch(f, v)
         /\ \A m : ~BotchMarker(m) /\ ~KeepMarker
  BY DEF TypeOK, Fails, Botch, BotchMarker, KeepMarker

\* Nothing but a temporary file of the job is left unflushed.
LEMMA OnlyTempsSoiled ==
  ASSUME TypeOK, IdsOK, Durable, Calm, Settled, faults' = faults, WriterStep \/ RecoveryStep
  PROVE  dirty' \subseteq dirty \cup {Temp(job.id, at)}
  <1>t. /\ FilesOK /\ StepOK /\ CountersOK /\ marker \in Marker /\ job \in Job
    BY TypeParts
  <1> USE <1>t, JobFiles, Unfailing
  <1>1. CASE \/ StartJob \/ EarlyCustom \/ EarlyBackup \/ EarlyMain \/ Encode \/ WriteTemp \/ CheckMarker
             \/ Preflight \/ BackUp \/ WriteMarker \/ DropMain
    BY <1>1 DEF StartJob, EarlyCustom, EarlyBackup, EarlyMain, Encode, WriteTemp, CheckMarker,
         Preflight, BackUp, WriteMarker, DropMain, KeepFiles, Flush, Put, PutLazy, Delete, PutMarker
  <1>2. CASE Install
    <2>1. Temp(job.id, at) \in File /\ Final(at) \in File /\ Temp(job.id, at) # Final(at)
      BY Apart
    <2>2. ASSUME Installs(at) PROVE Temp(job.id, at) \notin dirty
      BY <1>2, <2>2 DEF Install, Durable, Synced, Secured, IdsOK, Working, Installing, Passed,
           CompanionsFirst
    <2> QED BY <1>2, <2>1, <2>2, MoveEffect, DeleteEffect DEF Install
  <1>3. CASE Succeed \/ Unmark \/ CleanUp
    BY <1>3 DEF Succeed, Unmark, CleanUp, DropMarker, PutMarker, Delete, Put, KeepFiles
  <1>4. CASE RestorePrevious
    BY <1>4 DEF RestorePrevious, Put, Delete
  <1>5. CASE Recover \/ StageRecovery \/ CleanRecovered \/ UnmarkRecovered
    BY <1>5 DEF Recover, StageRecovery, CleanRecovered, UnmarkRecovered, DropMarker, PutMarker,
         Delete, Put, KeepFiles
  <1>6. CASE InstallRecovery
    <2>1. Staged(at) \in File /\ Final(at) \in File /\ Staged(at) # Final(at)
      BY Apart
    <2>2. at \in job.expect => Staged(at) \notin dirty
      <3>1. pc = "rec_install" /\ at \in Comp /\ at \notin Passed
        BY <1>6 DEF InstallRecovery, Passed, CompanionsFirst, StepOK, Comp
      <3> QED BY <3>1 DEF Settled, SafeStages, Clean
    <2>3. CASE at \in job.expect /\ Move(Staged(at), Final(at))
      BY <2>1, <2>2, <2>3, MoveEffect
    <2>4. CASE Delete(Final(at))
      BY <2>1, <2>4, DeleteEffect
    <2> QED BY <1>6, <2>3, <2>4 DEF InstallRecovery
  <1> QED BY <1>1, <1>2, <1>3, <1>4, <1>5, <1>6, NoLegacyStep DEF WriterStep, RecoveryStep, Calm

LEMMA StaysClean ==
  ASSUME TypeOK, IdsOK, Durable, Calm, Settled, faults' = faults, WriterStep \/ RecoveryStep
  PROVE  /\ \A c \in Comp : Clean(Final(c))' /\ (Clean(Bak(c)) => Clean(Bak(c))')
                           /\ (Clean(Staged(c)) => Clean(Staged(c))')
         /\ Clean(MarkerFile) => Clean(MarkerFile)'
  <1>0. at \in Comp
    BY DEF TypeOK
  <1>1. \A c \in Comp : /\ Final(c) # Temp(job.id, at) /\ Bak(c) # Temp(job.id, at)
                        /\ Staged(c) # Temp(job.id, at) /\ MarkerFile # Temp(job.id, at)
    BY <1>0, Apart
  <1> QED BY <1>0, <1>1, OnlyTempsSoiled DEF Clean, Settled, SafeFinals

LEMMA SafeBaksStep ==
  ASSUME TypeOK, IdsOK, Durable, Atomicity, Settled, faults' = faults, WriterStep \/ RecoveryStep
  PROVE  SafeBaks'
  <1>t. /\ FilesOK /\ StepOK /\ CountersOK /\ marker \in Marker /\ job \in Job
    BY TypeParts
  <1> USE <1>t, JobFiles, Unfailing
  <1>a. Copied /\ Calm /\ SafeBaks
    BY DEF Atomicity, Settled
  <1>c. \A c \in Comp : Clean(Bak(c)) => Clean(Bak(c))'
    BY <1>a, StaysClean
  <1>q. Passed \subseteq Comp
    BY DEF Passed, Comp
  <1> USE DEF SafeBaks, Early
  <1>1. CASE EarlyBackup
    <2>1. pc = "early_backup" /\ Put(Bak(at), disk[Final(at)]) /\ Advance("early_main")
      BY <1>1 DEF EarlyBackup
    <2>2. \A c \in Passed \cup {at} : Clean(Bak(c))'
      BY <1>a, <1>c, <1>q, <2>1, PutEffect DEF Clean
    <2> QED BY <2>1, <2>2, AdvanceEffect
  <1>2. CASE StartJob \/ EarlyCustom
    <2>1. /\ pc \in {"start", "early_custom"} /\ pc' \in {"early_custom", "early_backup", "encode"}
          /\ Passed' = {} /\ job'.backups = job.backups
      BY <1>2, GotoEffect DEF StartJob, EarlyCustom, Job
    <2>2. ~job'.backups
      BY <1>a, <2>1 DEF Copied
    <2> QED BY <2>1, <2>2
  <1>3. CASE EarlyMain \/ Encode \/ WriteTemp
    BY <1>3, <1>a, <1>c DEF EarlyMain, Encode, WriteTemp, Goto, Advance
  <1>4. CASE CheckMarker
    <2>1. pc = "check" /\ (job'.backups => job.backups) /\ pc' \in {"preflight", "recover"}
          /\ Passed' = {}
      BY <1>4, GotoEffect DEF CheckMarker, Job
    <2> QED BY <2>1, <1>a, <1>c
  <1>5. CASE Preflight
    <2>1. CASE pc' = "cleanup"
      BY <2>1
    <2>2. CASE /\ dirty' = dirty \ (Stale(at) \cup Flushed(at))
               /\ job' = [job EXCEPT !.had = IF HadFinal(at) THEN @ \cup {at} ELSE @]
               /\ Advance(IF job.backups THEN "marker" ELSE "backup") /\ pc = "preflight"
      <3>1. /\ job'.had = IF HadFinal(at) THEN job.had \cup {at} ELSE job.had
            /\ job'.backups = job.backups
        BY <2>2 DEF Job
      <3>2. \A c \in (Passed \cup {at}) \ job'.had : Clean(Bak(c))'
        BY <1>a, <1>c, <1>q, <2>2, <3>1 DEF Clean, Stale
      <3> QED BY <1>a, <1>c, <2>2, <3>1, <3>2, AdvanceEffect
    <2> QED BY <1>5, <2>1, <2>2 DEF Preflight, Goto
  <1>6. CASE BackUp
    <2>1. /\ pc = "backup" /\ Advance("marker") /\ job' = job
          /\ IF at \in job.had THEN Put(Bak(at), disk[Final(at)]) ELSE KeepFiles
      BY <1>6 DEF BackUp
    <2>2. \A c \in Comp : (c \in job.had => c \in Passed \cup {at}) => Clean(Bak(c))'
      BY <1>a, <1>c, <1>q, <2>1, PutEffect DEF Clean
    <2>3. ~job.backups
      BY <1>a, <2>1 DEF Copied
    <2> QED BY <2>1, <2>2, <2>3, AdvanceEffect
  <1>7. CASE WriteMarker
    BY <1>7, <1>a, <1>c DEF WriteMarker, Goto
  <1>8. CASE DropMain \/ Install \/ Succeed \/ RestorePrevious \/ Unmark \/ CleanUp
    BY <1>8 DEF DropMain, Install, Succeed, RestorePrevious, Unmark, CleanUp, Goto, Advance
  <1>9. CASE Recover \/ StageRecovery \/ InstallRecovery \/ CleanRecovered
    BY <1>9 DEF Recover, StageRecovery, InstallRecovery, CleanRecovered, Rebuild, Return, Goto, Advance
  <1>10. CASE UnmarkRecovered
    <2>1. pc = "rec_unmark" /\ Passed' = {} /\ (pc' = "idle" \/ (pc' = "preflight" /\ job' = job))
      BY <1>10, GotoEffect DEF UnmarkRecovered, Return
    <2> QED BY <2>1, <1>a DEF Copied, Recovering
  <1> QED BY <1>1, <1>2, <1>3, <1>4, <1>5, <1>6, <1>7, <1>8, <1>9, <1>10, <1>a, NoLegacyStep
          DEF WriterStep, RecoveryStep, Calm

LEMMA SafeMarkerStep ==
  ASSUME TypeOK, IdsOK, Durable, Atomicity, Settled, faults' = faults, WriterStep \/ RecoveryStep
  PROVE  SafeMarker'
  <1>t. /\ FilesOK /\ StepOK /\ CountersOK /\ marker \in Marker /\ job \in Job
    BY TypeParts
  <1> USE <1>t, JobFiles, Unfailing
  <1>a. Copied /\ Committed /\ Rebuilding /\ Calm /\ SafeBaks /\ SafeMarker
    BY DEF Atomicity, Settled
  <1>c. /\ \A c \in Comp : Clean(Bak(c)) => Clean(Bak(c))'
        /\ Clean(MarkerFile) => Clean(MarkerFile)'
    BY <1>a, StaysClean
  <1>k. ASSUME FinalsKept, marker' = marker, pc' # "drop_main",
               Exists(Bak("scop"))' => Exists(Bak("scop")) \/ Intact \/ marker.state = "missing"
        PROVE  SafeMarker'
    <2>1. (Intact' <=> Intact) /\ (Overwrite' <=> Overwrite)
      BY <1>k DEF FinalsKept, Intact, Valid, Main, Comp, Overwrite
    <2> QED BY <1>a, <1>c, <1>k, <2>1 DEF SafeMarker
  <1>1. CASE \/ StartJob \/ EarlyCustom \/ EarlyMain \/ Encode \/ WriteTemp \/ CheckMarker
             \/ CleanUp \/ Recover \/ StageRecovery \/ CleanRecovered
    <2>1. pc' # "drop_main"
      BY <1>1 DEF StartJob, EarlyCustom, EarlyMain, Encode, WriteTemp, CheckMarker, CleanUp, Recover,
           StageRecovery, CleanRecovered, Rebuild, Return, Goto, Advance
    <2>2. disk'[Bak("scop")] = disk[Bak("scop")]
      BY <1>1, KeepsBaks DEF BaksKept, Comp
    <2> QED BY <1>1, <1>k, <2>1, <2>2, KeepsFinals, KeepsMarker DEF Exists
  <1>2. CASE EarlyBackup \/ Preflight \/ BackUp
    <2>1. pc' # "drop_main"
      BY <1>2 DEF EarlyBackup, Preflight, BackUp, Goto, Advance
    <2>2. Intact \/ marker.state = "missing"
      BY <1>2, <1>a DEF Copied, Early, Committing, EarlyBackup, Preflight, BackUp
    <2> QED BY <1>2, <1>k, <2>1, <2>2, KeepsFinals, KeepsMarker
  <1>3. CASE WriteMarker
    BY <1>3, <1>a, <1>c DEF WriteMarker, PutMarker, Clean, SafeMarker, SafeBaks
  <1>4. CASE DropMain
    BY <1>4, <1>a, <1>c DEF DropMain, Goto, SafeMarker, SafeBaks
  <1>5. CASE Install \/ RestorePrevious \/ InstallRecovery
    <2>1. ~Intact
      <3>1. Install \/ RestorePrevious => ~Intact
        BY <1>a, SaveTransactionAssumption
        DEF Install, RestorePrevious, Committed, Intact, Valid, Exists, Gen
      <3>2. InstallRecovery => ~Intact
        BY <1>a DEF InstallRecovery, Calm, RebuildsOnlyDamage, Intact, Main
      <3> QED BY <1>5, <3>1, <3>2
    <2>2. disk'[Bak("scop")] = disk[Bak("scop")] /\ marker' = marker
      BY <1>5, KeepsBaks, KeepsMarker DEF BaksKept, Comp
    <2>3. pc' # "drop_main"
      BY <1>5 DEF Install, RestorePrevious, InstallRecovery, Return, Goto, Advance
    <2> QED BY <1>a, <1>c, <2>1, <2>2, <2>3 DEF SafeMarker, Exists, Overwrite
  <1>6. CASE Succeed \/ Unmark \/ UnmarkRecovered
    <2>1. marker' = Unmarked("missing") /\ pc' # "drop_main"
      BY <1>6 DEF Succeed, Unmark, UnmarkRecovered, DropMarker, PutMarker, Return, Goto
    <2> QED BY <2>1 DEF SafeMarker, Overwrite, Unmarked
  <1> QED BY <1>1, <1>2, <1>3, <1>4, <1>5, <1>6, <1>a, NoLegacyStep
          DEF WriterStep, RecoveryStep, Calm

LEMMA SettledStep ==
  ASSUME TypeOK, IdsOK, Durable, Atomicity, Settled, faults' = faults, WriterStep \/ RecoveryStep
  PROVE  Settled'
  <1>t. /\ FilesOK /\ StepOK /\ CountersOK /\ marker \in Marker /\ job \in Job
    BY TypeParts
  <1> USE <1>t, JobFiles, Unfailing
  <1>a. Calm /\ SafeStages
    BY DEF Atomicity, Settled
  <1>9. ~RecoverLegacy /\ ~PurgeLegacy
    BY <1>a, NoLegacyStep DEF Calm
  <1>1. SafeFinals'
    <2>1. pc' = "restore" => pc = "restore"
      BY <1>9 DEF WriterStep, StartJob, EarlyCustom, EarlyBackup, EarlyMain, Encode, WriteTemp, CheckMarker,
           Preflight, BackUp, WriteMarker, DropMain, Install, Succeed, RestorePrevious, Unmark, CleanUp,
           RecoveryStep, Recover, StageRecovery, InstallRecovery, CleanRecovered, UnmarkRecovered,
           Rebuild, Return, Goto, Advance
    <2> QED BY <1>a, <2>1, StaysClean DEF Settled, SafeFinals
  <1>2. SafeStages'
    <2>c. \A c \in Comp : Clean(Staged(c)) => Clean(Staged(c))'
      BY <1>a, StaysClean
    <2>q. Passed \subseteq Comp /\ job.expect \subseteq Comp
      BY DEF Passed, Comp, Job
    <2>1. CASE StageRecovery
      <3>1. /\ pc = "rec_stage" /\ job' = job /\ Advance("rec_install")
            /\ IF at \in job.expect THEN Put(Staged(at), disk[RecoverySource(at)]) ELSE Delete(Staged(at))
        BY <2>1 DEF StageRecovery
      <3>2. \A c \in (Passed \cup {at}) \cap job.expect : Clean(Staged(c))'
        BY <1>a, <2>c, <2>q, <3>1, PutEffect DEF Clean, SafeStages
      <3> QED BY <2>q, <3>1, <3>2, AdvanceEffect DEF SafeStages
    <2>2. CASE InstallRecovery
      <3>1. pc = "rec_install" /\ job' = job /\ Advance("rec_clean")
        BY <2>2 DEF InstallRecovery
      <3> QED BY <1>a, <2>c, <2>q, <3>1, AdvanceEffect DEF SafeStages
    <2>3. CASE Recover
      <3>1. Passed' = {} /\ pc' # "rec_install"
        BY <2>3, GotoEffect DEF Recover, Rebuild, Return, Goto
      <3> QED BY <3>1 DEF SafeStages
    <2>4. CASE ~Recover /\ ~StageRecovery /\ ~InstallRecovery
      <3>1. pc' \notin {"rec_stage", "rec_install"}
        BY <1>9, <2>4 DEF WriterStep, StartJob, EarlyCustom, EarlyBackup, EarlyMain, Encode, WriteTemp,
             CheckMarker, Preflight, BackUp, WriteMarker, DropMain, Install, Succeed, RestorePrevious,
             Unmark, CleanUp, RecoveryStep, CleanRecovered, UnmarkRecovered, Return, Goto, Advance
      <3> QED BY <3>1 DEF SafeStages
    <2> QED BY <2>1, <2>2, <2>3, <2>4
  <1> QED BY <1>1, <1>2, SafeBaksStep, SafeMarkerStep DEF Settled

\* What a power loss may tear: a file being written and one not flushed.
LEMMA PowerEffect ==
  ASSUME TypeOK, LosePower, NEW f \in File
  PROVE  /\ disk'[f] \in {disk[f], Torn}
         /\ \/ disk'[f] = disk[f]
            \/ \E v : <<f, v>> \in InFlight
            \/ ~Clean(f) /\ Exists(f)
  <1>1. PICK torn \in SUBSET ({w[1] : w \in InFlight} \cup {x \in dirty \ {MarkerFile} : Exists(x)}) :
          disk' = Landed(torn, {})
    BY DEF LosePower
  <1>2. disk'[f] = disk[f] \/ (f \in torn /\ disk'[f] = Torn)
    BY <1>1 DEF Landed
  <1>3. \A w \in InFlight : w = <<w[1], w[2]>>
    BY DEF InFlight
  <1>4. CASE f \in torn
    <2>1. CASE \E w \in InFlight : w[1] = f
      BY <1>2, <1>3, <2>1
    <2>2. CASE ~\E w \in InFlight : w[1] = f
      BY <1>1, <1>2, <1>4, <2>2 DEF Clean
    <2> QED BY <2>1, <2>2
  <1> QED BY <1>2, <1>4

\* What may be in flight where nothing is rolled back and no legacy capture runs.
LEMMA FlightPlan ==
  ASSUME TypeOK, Atomicity, pc # "restore", NEW f, NEW v, <<f, v>> \in InFlight
  PROVE  \/ \E c \in Comp : f = Temp(job.id, c) \/ f = Staged(c)
         \/ /\ \E c \in Comp : f = Bak(c)
            /\ Intact \/ marker.state = "missing"
  <1>a. Copied /\ pc \notin LegacyLabel /\ pc # "restore" /\ at \in Comp /\ "scop" \in Comp /\ "scoc" \in Comp
    BY DEF Atomicity, Calm, RebuildsOnlyDamage, TypeOK, Comp
  <1>1. CASE pc = "early_backup" \/ (pc = "backup" /\ at \in job.had)
    <2>1. Intact \/ marker.state = "missing"
      BY <1>1, <1>a DEF Copied, Early, Committing
    <2>2. f = Bak(at)
      BY <1>1 DEF InFlight
    <2> QED BY <1>a, <2>1, <2>2
  <1>2. CASE ~(pc = "early_backup" \/ (pc = "backup" /\ at \in job.had))
    <2>1. f = Temp(job.id, "scoc") \/ f = Temp(job.id, "scop") \/ f = Temp(job.id, at) \/ f = Staged(at)
      BY <1>2, <1>a DEF InFlight, LegacyLabel
    <2> QED BY <1>a, <2>1
  <1> QED BY <1>1, <1>2

\* A power loss in the middle of a rollback tears at most the file being put back.
LEMMA RestoreLosesPower ==
  ASSUME TypeOK, Atomicity, Settled, pc = "restore", LosePower
  PROVE  Holds /\ Committed'
  <1>a. Guard /\ Committed /\ SafeMarker /\ SafeFinals
    BY DEF Atomicity, Settled
  <1>0. /\ group' = group /\ pc' = "idle" /\ "scop" \in Comp
        /\ Main \in File /\ \A c \in Comp : Final(c) \in File /\ Bak(c) \in File
    BY DEF LosePower, Forget, Goto, Comp, File, Main
  <1>1. marker.state = "valid" /\ marker.prev = job.had /\ disk[Main] = Absent /\ ~Intact
    BY <1>a, SaveTransactionAssumption DEF Committed, Installing, Intact, Valid, Exists, Gen
  <1>2. \A f, v : <<f, v>> \in InFlight => at \in job.had /\ f = Final(at)
    BY DEF InFlight
  <1>3. ASSUME NEW c \in Comp, Clean(Bak(c)) \/ ~Exists(Bak(c)) PROVE disk'[Bak(c)] = disk[Bak(c)]
    <2>1. at \in Comp
      BY DEF TypeOK
    <2>2. \A v : <<Bak(c), v>> \notin InFlight
      BY <1>2, <2>1, Apart
    <2> QED BY <1>0, <1>3, <2>2, PowerEffect
  <1>4. marker' = marker \/ (marker' = Unmarked("invalid") /\ ~Clean(MarkerFile))
    BY DEF LosePower, MarkerInFlight, Clean
  <1>5. Committed'
    BY <1>0, <1>4, <1>a DEF Committed, Installing, Unmarked
  <1>6. ~Intact'
    <2>1. disk'[Main] \in {Absent, Torn}
      BY <1>0, <1>1, PowerEffect
    <2> QED BY <2>1, SaveTransactionAssumption DEF Intact, Valid, Main, Gen
  <1>7. CASE Overwrite
    <2>1. BaksKept /\ marker' = marker
      BY <1>1, <1>3, <1>4, <1>7, <1>a DEF BaksKept, SafeMarker
    <2> QED BY <1>0, <1>1, <1>5, <1>6, <1>7, <1>a, <2>1, SlotDamaged
  <1>8. CASE ~Overwrite
    <2>1. "scop" \notin job.had /\ ~Overwrite'
      BY <1>1, <1>4, <1>8 DEF Overwrite, Unmarked
    <2>2. disk'[Main] = disk[Main]
      <3>1. \A v : <<Main, v>> \notin InFlight
        <4>1. at \in Comp
          BY DEF TypeOK
        <4> QED BY <1>0, <1>2, <2>1, <4>1, Apart DEF Main
      <3> QED BY <1>0, <1>a, <3>1, PowerEffect DEF SafeFinals, Main
    <2>3. marker'.state = "invalid" => ~Exists(Bak("scop"))'
      BY <1>0, <1>1, <1>3, <1>4, <1>a DEF SafeMarker, Exists
    <2> QED BY <1>1, <1>5, <1>6, <1>8, <2>1, <2>2, <2>3 DEF Holds, Guard, Current, Exists
  <1> QED BY <1>7, <1>8

LEMMA SlotLosesPower ==
  ASSUME TypeOK, IdsOK, Ages, Durable, Atomicity, Settled, LosePower, pc # "restore"
  PROVE  Holds /\ Committed'
  <1>a. Guard /\ Copied /\ Committed /\ SafeFinals /\ SafeMarker
    BY DEF Atomicity, Settled
  <1>0. /\ group' = group /\ pc' = "idle" /\ "scop" \in Comp
        /\ \A c \in Comp : Final(c) \in File /\ Bak(c) \in File
    BY DEF LosePower, Forget, Goto, Comp, File
  <1>1. FinalsKept
    <2> SUFFICES ASSUME NEW c \in Comp PROVE disk'[Final(c)] = disk[Final(c)]
      BY DEF FinalsKept
    <2>1. \A v : <<Final(c), v>> \notin InFlight
      BY FlightPlan, Apart, <1>a
    <2> QED BY <1>0, <1>a, <2>1, PowerEffect DEF SafeFinals
  <1>2. ASSUME NEW c \in Comp, ~Intact, marker.state # "missing", Clean(Bak(c)) \/ ~Exists(Bak(c))
        PROVE  disk'[Bak(c)] = disk[Bak(c)]
    <2>1. \A v : <<Bak(c), v>> \notin InFlight
      BY <1>2, FlightPlan, Apart, <1>a
    <2> QED BY <1>0, <1>2, <2>1, PowerEffect
  <1>3. marker' = marker \/ (marker' = Unmarked("invalid")
                              /\ (pc = "marker" \/ (~Clean(MarkerFile) /\ marker.state # "missing")))
    BY DEF LosePower, MarkerInFlight, Clean, Atomicity, Calm, RebuildsOnlyDamage, LegacyLabel
  <1>4. Committed'
    BY <1>0, <1>3, <1>a DEF Committed, Installing, Unmarked
  <1>5. CASE marker' = marker /\ (Intact \/ marker.state = "missing")
    BY <1>0, <1>1, <1>4, <1>5, <1>a, SlotBacksUp
  <1>6. CASE marker' = marker /\ ~Intact /\ Overwrite
    <2>1. BaksKept
      BY <1>2, <1>6, <1>a DEF BaksKept, SafeMarker, Overwrite
    <2> QED BY <1>0, <1>1, <1>4, <1>6, <1>a, <2>1, SlotStill
  <1>i. (Intact' <=> Intact) /\ disk'[Main] = disk[Main]
    BY <1>0, <1>1 DEF FinalsKept, Intact, Valid, Main
  <1>7. CASE marker' = marker /\ ~Intact /\ ~Overwrite /\ marker.state # "missing"
    <2>1. ~Overwrite'
      BY <1>7 DEF Overwrite
    <2>2. marker.state = "invalid" => ~Exists(Bak("scop"))'
      BY <1>0, <1>2, <1>7, <1>a DEF Guard, Exists
    <2> QED BY <1>4, <1>7, <1>i, <1>a, <2>1, <2>2 DEF Holds, Guard, Current, Exists
  <1>8. CASE marker' = Unmarked("invalid") /\ Intact
    BY <1>0, <1>1, <1>4, <1>8, <1>i, <1>a DEF Holds, Guard, Current, Whole, FinalsKept
  <1>9. CASE marker' = Unmarked("invalid") /\ marker' # marker /\ ~Intact
    <2>1. ~Exists(Bak("scop")) /\ ~Overwrite
      BY <1>3, <1>9, <1>a DEF SafeMarker, Copied, Committing, Guard, Overwrite, BackedUp, Exists, Main, Comp
    <2>2. ~Exists(Bak("scop"))'
      <3>1. CASE marker.state # "missing"
        BY <1>0, <1>2, <1>9, <2>1, <3>1 DEF Exists
      <3>2. CASE pc = "marker"
        <4>1. \A v : <<Bak("scop"), v>> \notin InFlight
          BY <3>2 DEF InFlight
        <4> QED BY <1>0, <2>1, <4>1, PowerEffect DEF Exists
      <3> QED BY <1>3, <1>9, <3>1, <3>2
    <2> QED BY <1>4, <1>9, <1>i, <1>a, <2>1, <2>2 DEF Holds, Guard, Current, Overwrite, Unmarked, Exists
  <1> QED BY <1>3, <1>5, <1>6, <1>7, <1>8, <1>9

LEMMA SettledOthers ==
  ASSUME TypeOK, IdsOK, Atomicity, Settled, Kill => MaxFaults = 0,
         RequestRecovery \/ (\E custom \in BOOLEAN : BeginSave(custom)) \/ Kill \/ LosePower
  PROVE  Settled'
  <1>a. Guard /\ Copied /\ SafeFinals /\ SafeMarker /\ SafeBaks
    BY DEF Atomicity, Settled
  <1>1. CASE RequestRecovery \/ \E custom \in BOOLEAN : BeginSave(custom)
    <2>1. disk' = disk /\ dirty' = dirty /\ marker' = marker /\ pc' \in {"recover", "start"}
      BY <1>1 DEF RequestRecovery, BeginSave, KeepFiles, Goto
    <2> QED BY <2>1, <1>a DEF Settled, SafeFinals, SafeBaks, SafeMarker, SafeStages, Clean, Early, Intact,
            Overwrite, Valid, Exists
  <1>2. CASE LosePower
    <2>1. dirty' = {} /\ pc' = "idle"
      BY <1>2 DEF LosePower, Forget, Goto
    <2> QED BY <2>1 DEF Settled, SafeFinals, SafeBaks, SafeMarker, SafeStages, Clean, Early
  <1>3. CASE Kill
    <2>r. pc # "restore"
      BY <1>3, <1>a DEF SafeFinals, TypeOK
    <2>0. /\ pc' = "idle" /\ "scop" \in Comp
          /\ \A c \in Comp : Final(c) \in File /\ Bak(c) \in File
          /\ \A c \in Comp : MarkerFile # Final(c) /\ MarkerFile # Bak(c)
      BY <1>3, Apart DEF Kill, Forget, Goto, Comp, File
    <2>1. \A f \in dirty' : \/ f \in dirty \/ \E v : <<f, v>> \in InFlight
                            \/ f = MarkerFile /\ pc = "marker"
      <3>1. \A w \in InFlight : w = <<w[1], w[2]>>
        BY DEF InFlight
      <3> QED BY <1>3, <3>1 DEF Kill, MarkerInFlight, Atomicity, Calm, RebuildsOnlyDamage, LegacyLabel
    <2>2. \A c, v : c \in Comp => <<Final(c), v>> \notin InFlight
      BY FlightPlan, Apart, <2>r
    <2>3. ~Intact /\ marker.state # "missing" => \A c, v : c \in Comp => <<Bak(c), v>> \notin InFlight
      BY FlightPlan, Apart, <2>r
    <2>4. \A v : <<MarkerFile, v>> \notin InFlight
      <3>1. \A c, g : c \in Comp => MarkerFile # Temp(g, c) /\ MarkerFile # Staged(c) /\ MarkerFile # Bak(c)
        BY Apart
      <3> QED BY <3>1, FlightPlan, <2>r
    <2>5. SafeFinals'
      BY <2>0, <2>1, <2>2, <1>a DEF SafeFinals, Clean
    <2>6. Intact' <=> Intact
      BY <1>3, <2>0, <2>2, KillEffect DEF Intact, Valid, Main
    <2>7. CASE pc = "marker"
      <3>1. marker' \in {marker, Unmarked("invalid"), NewMarker}
        BY <1>3 DEF Kill
      <3>2. ~Intact => ~Overwrite' /\ ~Exists(Bak("scop"))
        BY <2>7, <3>1, <1>a DEF Copied, Committing, Guard, Overwrite, BackedUp, Exists, Main, Comp,
             NewMarker, Unmarked
      <3>3. disk'[Bak("scop")] = disk[Bak("scop")]
        <4>1. \A v : <<Bak("scop"), v>> \notin InFlight
          BY <2>7 DEF InFlight
        <4> QED BY <1>3, <2>0, <4>1, KillEffect
      <3> QED BY <2>0, <2>5, <2>6, <3>2, <3>3
              DEF Settled, SafeBaks, SafeMarker, SafeStages, Early, Exists
    <2>8. CASE pc # "marker"
      <3>1. marker' = marker
        BY <1>3, <2>8 DEF Kill, MarkerInFlight, Atomicity, Calm, RebuildsOnlyDamage, LegacyLabel
      <3>2. Clean(MarkerFile) => Clean(MarkerFile)'
        BY <2>1, <2>4, <2>8 DEF Clean
      <3>3. ~Intact /\ marker.state # "missing" => \A c \in Comp : /\ Clean(Bak(c)) => Clean(Bak(c))'
                                                                  /\ disk'[Bak(c)] = disk[Bak(c)]
        BY <1>3, <2>0, <2>1, <2>3, KillEffect DEF Clean
      <3>4. SafeMarker'
        BY <2>0, <2>6, <3>1, <3>2, <3>3, <1>a DEF SafeMarker, Overwrite, Exists
      <3> QED BY <2>0, <2>5, <3>4 DEF Settled, SafeBaks, SafeStages, Early
    <2> QED BY <2>7, <2>8
  <1> QED BY <1>1, <1>2, <1>3

LEMMA CalmStep ==
  ASSUME TypeOK, Calm, WriterStep \/ RecoveryStep
  PROVE  Calm'
  <1>1. RebuildsOnlyDamage'
    BY WriterRebuildsNothing, RecoveryRebuildsDamage DEF Calm, RebuildsOnlyDamage
  <1>2. Same \/ job' = NoJob
    <2> USE DEF Same, Return, Rest
    <2>1. CASE WriterStep
      BY <2>1, IdsTyped DEF WriterStep, StartJob, EarlyCustom, EarlyBackup, EarlyMain, Encode, WriteTemp,
           CheckMarker, Preflight, BackUp, WriteMarker, DropMain, Install, Succeed,
           RestorePrevious, Unmark, CleanUp, TypeOK, Job
    <2>2. CASE RecoveryStep
      BY <2>2, RebuildIds, IdsTyped DEF SameJob, RecoveryStep, Recover, RecoverLegacy, PurgeLegacy,
           StageRecovery, InstallRecovery, CleanRecovered, UnmarkRecovered
    <2> QED BY <2>1, <2>2
  <1>3. ~NoJob.staged
    BY DEF NoJob
  <1> QED BY <1>1, <1>2, <1>3 DEF Calm, HandedOver, Same

\* The group of a save that has begun is on record under its own number.
LEMMA MarkedByKill ==
  ASSUME TypeOK, IdsOK, Durable, Atomicity, Kill
  PROVE  Committed'
  <1>a. Committed /\ Calm
    BY DEF Atomicity
  <1>1. pc' = "idle" /\ group' = group
    BY DEF Kill, Forget, Goto
  <1>2. marker'.state = "valid" => group'[marker'.id] = Group(marker'.id, marker'.custom)
    <2>1. CASE marker' \in {marker, Unmarked("invalid")}
      BY <1>1, <1>a, <2>1 DEF Committed, Unmarked
    <2>2. CASE pc = "marker" /\ marker' = NewMarker
      <3>1. NewMarker.id = job.id /\ NewMarker.custom = job.custom /\ job.id # 0
        BY <2>2 DEF NewMarker, IdsOK, Working, Committing
      <3>2. group[job.id] = [c \in Comp |-> group[job.id][c]]
        BY DEF TypeOK, Job
      <3>3. \A c \in Comp : group[job.id][c] = Group(job.id, job.custom)[c]
        BY <2>2, <3>1, <1>a DEF Durable, GroupKnown, Serving, Saved, Committing, Group, Comp,
           Calm, HandedOver
      <3> QED BY <1>1, <2>2, <3>1, <3>2, <3>3 DEF Group
    <2> QED BY <2>1, <2>2, <1>a DEF Kill, MarkerInFlight, Calm, HandedOver, RebuildsOnlyDamage, LegacyLabel
  <1> QED BY <1>1, <1>2 DEF Committed, Installing

LEMMA AtomicityOthers ==
  ASSUME ~BeginLegacy, TypeOK, IdsOK, Ages, Durable, Atomicity, LosePower => Settled,
         BeginLegacy \/ RequestRecovery \/ (\E custom \in BOOLEAN : BeginSave(custom)) \/ Kill \/ LosePower
  PROVE  Atomicity' /\ Holds
  <1>t. /\ FilesOK /\ StepOK /\ CountersOK /\ marker \in Marker /\ job \in Job
    BY TypeParts
  <1>a. Guard /\ Committed /\ Calm
    BY DEF Atomicity
  <1>1. CASE RequestRecovery
    <2>1. /\ pc' = "recover" /\ job' = NoJob /\ disk' = disk /\ marker' = marker /\ group' = group
      BY <1>1 DEF RequestRecovery, Goto, KeepFiles, Rest, IdsOK
    <2>2. Holds
      BY <2>1, <1>a, SlotStill DEF FinalsKept, BaksKept
    <2>3. Copied' /\ Committed' /\ Rebuilding' /\ Calm'
      BY <2>1, <1>a DEF Copied, Early, Saving, Committing, Recovering, Committed, Installing,
           Rebuilding, Calm, HandedOver, RebuildsOnlyDamage, LegacyLabel, NoJob
    <2> QED BY <2>2, <2>3 DEF Holds, Atomicity
  <1>2. ASSUME NEW custom \in BOOLEAN, BeginSave(custom) PROVE Atomicity' /\ Holds
    <2>1. /\ pc' = "start" /\ disk' = disk /\ marker' = marker
          /\ job' = [NoJob EXCEPT !.id = saves + 1, !.custom = custom]
          /\ \A g \in Gen : g <= saves => group'[g] = group[g]
      <3>1. \A g \in Gen : g <= saves => g # saves + 1
        <4>1. saves \in Nat /\ \A g \in Gen : g \in Nat
          BY IdsTyped DEF Gen
        <4> QED BY <4>1
      <3> QED BY <1>2, <1>t, <3>1 DEF BeginSave, Goto, CountersOK
    <2>2. Holds
      BY <2>1, <1>a, SlotStill DEF FinalsKept, BaksKept
    <2>3. ~job'.staged /\ ~job'.backups /\ job'.had = {}
      BY <2>1 DEF NoJob
    <2>4. group'[marker.id] = group[marker.id]
      BY <2>1, <1>t DEF IdsOK, Marker
    <2>5. Copied' /\ Committed' /\ Rebuilding' /\ Calm'
      BY <2>1, <2>3, <2>4, <1>a DEF Copied, Early, Saving, Committing, Recovering, Committed, Installing,
           Rebuilding, Calm, HandedOver, RebuildsOnlyDamage, LegacyLabel, Group
    <2> QED BY <2>2, <2>5 DEF Holds, Atomicity
  <1>3. CASE Kill
    <2>1. Holds /\ Committed'
      BY <1>3, SlotKill, MarkedByKill
    <2>2. /\ pc' = "idle" /\ job' = NoJob /\ ~marker'.legacy
      BY <1>3, <1>a, PlainMarkers DEF Kill, Forget, Goto, Calm, HandedOver, RebuildsOnlyDamage, LegacyLabel
    <2>3. Copied' /\ Rebuilding' /\ Calm'
      BY <2>2 DEF Copied, Early, Saving, Committing, Recovering, Rebuilding, Calm, HandedOver,
           RebuildsOnlyDamage, LegacyLabel, NoJob
    <2> QED BY <2>1, <2>3 DEF Holds, Atomicity
  <1>4. CASE LosePower
    <2>1. Holds /\ Committed'
      BY <1>4, SlotLosesPower, RestoreLosesPower
    <2>2. /\ pc' = "idle" /\ job' = NoJob /\ ~marker'.legacy
      BY <1>4, <1>a, PlainMarkers DEF LosePower, Forget, Goto, Calm, RebuildsOnlyDamage
    <2>3. Copied' /\ Rebuilding' /\ Calm'
      BY <2>2 DEF Copied, Early, Saving, Committing, Recovering, Rebuilding, Calm, HandedOver,
           RebuildsOnlyDamage, LegacyLabel, NoJob
    <2> QED BY <2>1, <2>3 DEF Holds, Atomicity
  <1> QED BY <1>1, <1>2, <1>3, <1>4

LEMMA AtomicityInitially == Init => Atomicity
  <1> SUFFICES ASSUME Init PROVE Atomicity
    OBVIOUS
  <1>1. PICK first \in FirstGroups :
          /\ group = [g \in Gen |-> IF g = 0 THEN [c \in Comp |->
                         IF c \in first THEN 0 ELSE Absent] ELSE NoGroup]
          /\ disk = [f \in File |-> IF \E c \in first : f = Final(c) THEN 0 ELSE Absent]
    BY DEF Init
  <1>2. marker = Unmarked("missing") /\ pc = "idle" /\ job = NoJob /\ first \subseteq Comp
    BY <1>1, SaveTransactionAssumption DEF Init
  <1>3. \A c \in Comp : disk[Final(c)] = IF c \in first THEN 0 ELSE Absent
    <2>1. \A c \in Comp : Final(c) \in File
      BY DEF File
    <2>2. \A c \in Comp, d \in first : Final(c) = Final(d) => c = d
      BY <1>2, Apart
    <2> QED BY <1>1, <2>1, <2>2
  <1>4. 0 \in Gen /\ Absent \notin Gen
    BY SaveTransactionAssumption DEF Gen
  <1>5. \A c \in Comp : group[0][c] = IF c \in first THEN 0 ELSE Absent
    BY <1>1, <1>4
  <1>6. Guard
    BY <1>2, <1>3, <1>4, <1>5
    DEF Guard, Intact, Valid, Whole, Overwrite, Exists, Main, Unmarked, Comp
  <1>7. Copied /\ Committed /\ Rebuilding /\ Calm
    BY <1>2 DEF Copied, Early, Saving, Committing, Recovering, Committed, Installing, Rebuilding,
       Calm, HandedOver, RebuildsOnlyDamage, LegacyLabel, NoJob, Unmarked
  <1> QED BY <1>6, <1>7 DEF Atomicity

\* What any step does to the slot: nothing, or the commit of the group on record.
AtomicStep == Holds \/ Commits

LEMMA AtomicityNext ==
  ASSUME ~BeginLegacy, TypeOK, FreshInv, Durable, Atomicity, LosePower => Settled, [Next]_vars
  PROVE  Atomicity' /\ AtomicStep
  <1> USE DEF FreshInv, AtomicStep
  <1>1. CASE WriterStep \/ RecoveryStep
    <2>1. Holds \/ Commits
      BY <1>1, SlotStep
    <2>2. Copied' /\ Committed' /\ Rebuilding' /\ Calm'
      BY <1>1, CopiedStep, CommittedStep, RebuildingStep, CalmStep DEF Atomicity
    <2> QED BY <2>1, <2>2 DEF Holds, Commits, Atomicity
  <1>2. CASE LegacyStep
    BY <1>2, NoLegacyStep DEF Atomicity, Calm
  <1>3. CASE BeginLegacy \/ RequestRecovery \/ (\E custom \in BOOLEAN : BeginSave(custom)) \/ Kill \/ LosePower
    BY <1>3, AtomicityOthers
  <1>4. CASE Quiet \/ UNCHANGED vars
    <2>1. UNCHANGED vars
      BY <1>4 DEF Quiet
    <2>2. Holds
      BY <2>1, SlotStill DEF vars, FinalsKept, BaksKept, Atomicity
    <2>3. Copied' /\ Committed' /\ Rebuilding' /\ Calm'
      BY <2>1 DEF vars, Atomicity, Copied, Early, BackedUp, Passed, Committed, Rebuilding, Target,
           NewSource, NewComps, Calm, HandedOver, RebuildsOnlyDamage, Intact, Overwrite, Valid, Exists
    <2> QED BY <2>2, <2>3 DEF Holds, Atomicity
  <1> QED BY <1>1, <1>2, <1>3, <1>4 DEF Next

\* Before the first crash a slot without a valid main file is marked only inside a
\* commit, and a roll-back has had its one failing operation.
Unharmed ==
    /\ pc = "restore" => faults = 1
    /\ pc = "unmark" /\ ~Intact => faults = 1
    /\ pc \notin {"rec_stage", "rec_install"}
    /\ ~Intact /\ marker.state # "missing" => pc \in {"drop_main", "install", "restore", "unmark"}

LEMMA UnharmedStep ==
  ASSUME TypeOK, IdsOK, Durable', IdsOK', TypeOK', Atomicity, Unharmed, faults' = faults,
         WriterStep \/ RecoveryStep
  PROVE  Unharmed'
  <1>t. /\ FilesOK /\ StepOK /\ CountersOK /\ marker \in Marker /\ job \in Job
    BY TypeParts
  <1> USE <1>t, JobFiles, Unfailing
  <1>a. Committed /\ Calm
    BY DEF Atomicity
  <1>1. CASE \/ StartJob \/ EarlyCustom \/ EarlyBackup \/ EarlyMain \/ Encode \/ WriteTemp
             \/ CheckMarker \/ Preflight \/ BackUp \/ CleanUp \/ Recover \/ CleanRecovered
    <2>1. (Intact' <=> Intact) /\ marker' = marker
      BY <1>1, KeepsFinals, KeepsMarker DEF FinalsKept, Intact, Valid, Main, Comp
    <2>2. pc \notin {"drop_main", "install", "restore", "unmark"} /\ pc' \notin {"restore", "unmark"}
      BY <1>1 DEF StartJob, EarlyCustom, EarlyBackup, EarlyMain, Encode, WriteTemp, CheckMarker,
           Preflight, BackUp, CleanUp, Recover, CleanRecovered, Rebuild, Return, Goto, Advance
    <2>3. pc' \notin {"rec_stage", "rec_install"}
      <3>1. CASE Recover
        <4>1. Complete <=> Intact
          BY DEF Complete, Intact, Main
        <4>2. marker.state = "valid" => Complete
          BY <2>2, <4>1 DEF Unharmed
        <4> QED BY <3>1, <4>2, <1>a DEF Recover, Calm, RebuildsOnlyDamage, Return, Goto
      <3>2. CASE ~Recover
        BY <1>1, <3>2 DEF StartJob, EarlyCustom, EarlyBackup, EarlyMain, Encode, WriteTemp, CheckMarker,
             Preflight, BackUp, CleanUp, CleanRecovered, Goto, Advance
      <3> QED BY <3>1, <3>2
    <2> QED BY <2>1, <2>2, <2>3 DEF Unharmed
  <1>2. CASE WriteMarker \/ DropMain
    BY <1>2 DEF WriteMarker, DropMain, Goto, Unharmed
  <1>3. CASE Install
    <2>1. pc = "install" /\ pc' \in {"install", "done"}
      BY <1>3 DEF Install, Advance, Goto
    <2>2. pc' = "done" => Intact'
      <3>1. ASSUME pc' = "done" PROVE disk'[Main] = job'.id /\ job'.id \in Gen
        BY <3>1 DEF IdsOK, Working, Installing, Durable, Landing, Placed, GroupKnown, Serving, Saved,
             Main, Comp, TypeOK, Job
      <3> QED BY <3>1 DEF Intact, Valid, Main
    <2> QED BY <2>1, <2>2 DEF Unharmed
  <1>4. CASE RestorePrevious
    <2>1. pc = "restore" /\ pc' \in {"restore", "unmark"}
      BY <1>4 DEF RestorePrevious, Advance, Goto
    <2> QED BY <2>1 DEF Unharmed
  <1>5. CASE Succeed \/ Unmark \/ UnmarkRecovered
    <2>1. marker'.state = "missing" /\ pc' \in {"idle", "cleanup", "preflight"}
      BY <1>5 DEF Succeed, Unmark, UnmarkRecovered, DropMarker, PutMarker, Unmarked, Return, Goto
    <2> QED BY <2>1 DEF Unharmed
  <1>6. ~StageRecovery /\ ~InstallRecovery
    BY DEF StageRecovery, InstallRecovery, Unharmed
  <1> QED BY <1>1, <1>2, <1>3, <1>4, <1>5, <1>6, <1>a, NoLegacyStep DEF WriterStep, RecoveryStep, Calm

\* The one operation that fails before any crash: what it was to write is never what
\* the slot rests on.
LEMMA HarmedStep ==
  ASSUME TypeOK, IdsOK, Durable, Atomicity, Settled, Unharmed, MaxFaults <= 1, faults' # faults,
         WriterStep \/ RecoveryStep
  PROVE  Settled' /\ Unharmed'
  <1>t. /\ FilesOK /\ StepOK /\ CountersOK /\ marker \in Marker /\ job \in Job
    BY TypeParts
  <1> USE <1>t, JobFiles
  <1>a. Guard /\ Copied /\ Committed /\ Calm /\ SafeFinals /\ SafeBaks /\ SafeMarker
    BY DEF Atomicity, Settled
  <1>f. Fails
    BY DEF WriterStep, StartJob, EarlyCustom, EarlyBackup, EarlyMain, Encode, WriteTemp, CheckMarker,
       Preflight, BackUp, WriteMarker, DropMain, Install, Succeed, RestorePrevious, Unmark, CleanUp,
       RecoveryStep, Recover, RecoverLegacy, PurgeLegacy, StageRecovery, InstallRecovery, CleanRecovered,
       UnmarkRecovered, Botch, BotchMarker, DropMarker, PutMarker, KeepMarker, Works
  <1>1. Fails /\ ~Works /\ faults = 0 /\ faults' = 1
    BY <1>f, SaveTransactionAssumption DEF Fails, Works, TypeOK
  <1>2. ~RestorePrevious /\ ~StageRecovery /\ ~InstallRecovery /\ ~RecoverLegacy /\ ~PurgeLegacy
    BY <1>1, <1>a, NoLegacyStep DEF RestorePrevious, StageRecovery, InstallRecovery, Unharmed, Calm
  <1>3. FinalsKept
    <2>1. CASE DropMain \/ Install
      BY <1>1, <2>1 DEF DropMain, Install, KeepFiles, FinalsKept
    <2> QED BY <1>2, <2>1, KeepsFinals DEF WriterStep, RecoveryStep
  <1>i. Intact' <=> Intact
    BY <1>3 DEF FinalsKept, Intact, Valid, Main, Comp
  <1>4. /\ pc' \in {"encode", "cleanup", "unmark", "restore", "idle", "preflight", "rec_clean", "rec_unmark"}
        /\ pc' = "encode" => pc \in {"early_custom", "early_backup", "early_main"} /\ job'.backups = job.backups
        /\ pc' = "preflight" => pc = "rec_unmark" /\ job' = job /\ Passed' = {}
        /\ pc' \in {"rec_clean", "rec_unmark"} => pc = "rec_clean"
    <2>1. CASE EarlyCustom \/ EarlyBackup \/ EarlyMain
      BY <1>1, <2>1 DEF EarlyCustom, EarlyBackup, EarlyMain, Goto, Job
    <2>2. CASE \/ Encode \/ WriteTemp \/ Preflight \/ BackUp \/ WriteMarker \/ DropMain \/ Install
               \/ Succeed \/ Unmark \/ CleanUp \/ Recover \/ CleanRecovered
      BY <1>1, <2>2 DEF Encode, WriteTemp, Preflight, BackUp, WriteMarker, DropMain, Install, Succeed,
         Unmark, CleanUp, Recover, CleanRecovered, PutMarker, Return, Goto, Advance
    <2>3. CASE UnmarkRecovered
      BY <2>3, GotoEffect DEF UnmarkRecovered, Return
    <2> QED BY <1>1, <1>2, <2>1, <2>2, <2>3 DEF WriterStep, RecoveryStep, StartJob, CheckMarker
  <1>5. SafeBaks'
    <2>1. pc' = "encode" => ~job'.backups
      BY <1>4, <1>a DEF Copied
    <2>2. pc' = "preflight" => ~job'.backups
      BY <1>4, <1>a DEF Copied, Recovering
    <2> QED BY <1>4, <2>1, <2>2 DEF SafeBaks, Early
  <1>6. SafeStages'
    BY <1>4 DEF SafeStages
  <1>7. CASE ~WriteMarker
    <2>1. dirty' \subseteq dirty \cup {Temp(job.id, "scoc"), Temp(job.id, "scop"), Temp(job.id, at), Bak(at)}
      BY <1>1, <1>2, <1>7 DEF WriterStep, StartJob, EarlyCustom, EarlyBackup, EarlyMain, Encode, WriteTemp,
         CheckMarker, Preflight, BackUp, DropMain, Install, Succeed, Unmark, CleanUp, RecoveryStep,
         Recover, CleanRecovered, UnmarkRecovered, Botch, PutLazy, DropMarker, PutMarker, KeepMarker, KeepFiles
    <2>2. SafeFinals'
      <3>1. at \in Comp /\ "scop" \in Comp /\ "scoc" \in Comp
        BY DEF Comp, StepOK
      <3>2. \A c \in Comp : Final(c) \notin {Temp(job.id, "scoc"), Temp(job.id, "scop"), Temp(job.id, at), Bak(at)}
        BY <3>1, Apart
      <3> QED BY <1>1, <2>1, <3>2, <1>a DEF SafeFinals, Clean
    <2>3. marker' = marker
      BY <1>1, <1>2, <1>7, KeepsMarker DEF WriterStep, RecoveryStep, Succeed, Unmark, UnmarkRecovered,
         DropMarker, PutMarker, KeepMarker
    <2>4. CASE Intact \/ marker.state = "missing"
      BY <1>1, <1>4, <1>5, <1>6, <1>i, <2>2, <2>3, <2>4 DEF Settled, SafeMarker, Unharmed, Overwrite
    <2>5. CASE ~Intact /\ marker.state # "missing"
      <3>1. pc \in {"drop_main", "install"}
        BY <1>1, <2>5 DEF Unharmed, Fails
      <3>2. KeepFiles /\ pc' \in {"unmark", "restore"}
        BY <1>1, <3>1 DEF WriterStep, StartJob, EarlyCustom, EarlyBackup, EarlyMain, Encode, WriteTemp,
           CheckMarker, Preflight, BackUp, WriteMarker, DropMain, Install, Succeed, RestorePrevious,
           Unmark, CleanUp, RecoveryStep, Recover, RecoverLegacy, PurgeLegacy, StageRecovery,
           InstallRecovery, CleanRecovered, UnmarkRecovered, Goto
      <3>3. SafeMarker'
        BY <1>i, <2>3, <3>2, <1>a DEF SafeMarker, KeepFiles, Clean, Overwrite, Exists
      <3> QED BY <1>1, <1>5, <1>6, <2>2, <3>2, <3>3 DEF Settled, Unharmed
    <2> QED BY <2>4, <2>5
  <1>8. CASE WriteMarker
    <2>1. /\ pc = "marker" /\ pc' = "unmark" /\ disk' = disk /\ dirty' = dirty \cup {MarkerFile}
          /\ marker' \in {marker, Unmarked("invalid"), NewMarker}
      BY <1>1, <1>8 DEF WriteMarker, PutMarker, BotchMarker, Goto
    <2>2. SafeFinals'
      <3>1. \A c \in Comp : Final(c) # MarkerFile
        BY Apart
      <3> QED BY <2>1, <3>1, <1>a DEF SafeFinals, Clean
    <2>3. ~Intact => ~Overwrite' /\ ~Exists(Bak("scop"))
      BY <2>1, <1>a DEF Copied, Committing, Guard, Overwrite, BackedUp, Exists, Main, Comp,
           NewMarker, Unmarked
    <2>4. SafeMarker'
      BY <1>i, <2>1, <2>3 DEF SafeMarker, Exists
    <2> QED BY <1>1, <1>5, <1>6, <2>1, <2>2, <2>4 DEF Settled, Unharmed
  <1> QED BY <1>7, <1>8

LEMMA SettledNext ==
  ASSUME ~BeginLegacy, Kill => MaxFaults = 0, faults' = faults, TypeOK, FreshInv, Durable, Atomicity,
         Settled, [Next]_vars
  PROVE  Settled'
  <1> USE DEF FreshInv
  <1>1. CASE WriterStep \/ RecoveryStep
    BY <1>1, SettledStep
  <1>2. CASE RequestRecovery \/ (\E custom \in BOOLEAN : BeginSave(custom)) \/ Kill \/ LosePower
    BY <1>2, SettledOthers
  <1>3. CASE Quiet \/ UNCHANGED vars
    BY <1>3 DEF Quiet, vars, Settled, SafeFinals, SafeBaks, SafeMarker, SafeStages, Clean, Early,
         Passed, Intact, Overwrite, Valid, Exists
  <1> QED BY <1>1, <1>2, <1>3, NoLegacyStep DEF Next, Atomicity, Calm

\* What keeps the slot whole: Atomicity, and Settled where the power may be lost.
SlotInv == /\ Atomicity
           /\ MaxFaults = 0 => Settled
           /\ MaxFaults <= 1 /\ crashes = 0 => Settled /\ Unharmed

\* Power is lost only where no file operation fails, or one, with no other crash.
PowerRarelyLost == "power" \in Crashes => MaxFaults = 0 \/ (MaxFaults <= 1 /\ MaxCrashes <= 1)

LEMMA PowerFindsSettled ==
  ASSUME PowerRarelyLost, TypeOK, SlotInv, LosePower
  PROVE  Settled
  BY SaveTransactionAssumption DEF PowerRarelyLost, TypeOK, SlotInv, LosePower, Forget

LEMMA SlotInvNext ==
  ASSUME ~BeginLegacy, PowerRarelyLost, TypeOK, FreshInv, Durable, SlotInv, [Next]_vars,
         TypeOK', FreshInv', Durable'
  PROVE  SlotInv'
  <1>1. Atomicity' /\ (LosePower => Settled)
    BY AtomicityNext, PowerFindsSettled DEF SlotInv
  <1>2. /\ faults \in Nat /\ faults <= MaxFaults /\ crashes \in Nat /\ crashes' \in Nat
        /\ faults' <= MaxFaults /\ MaxFaults \in Nat
    BY SaveTransactionAssumption DEF TypeOK
  <1>3. ASSUME MaxFaults = 0 PROVE Settled'
    BY <1>2, <1>3, SettledNext DEF SlotInv, TypeOK
  <1>4. ASSUME MaxFaults <= 1, crashes' = 0 PROVE Settled' /\ Unharmed'
    <2>1. ~Kill /\ ~LosePower
      BY <1>2, <1>4 DEF Kill, LosePower, Forget
    <2>2. CASE WriterStep \/ RecoveryStep
      <3>1. crashes' = crashes
        BY <2>2 DEF Rest, WriterStep, StartJob, EarlyCustom, EarlyBackup, EarlyMain, Encode, WriteTemp,
           CheckMarker, Preflight, BackUp, WriteMarker, DropMain, Install, Succeed, RestorePrevious,
           Unmark, CleanUp, RecoveryStep, Recover, RecoverLegacy, PurgeLegacy, StageRecovery,
           InstallRecovery, CleanRecovered, UnmarkRecovered
      <3>2. Settled /\ Unharmed
        BY <1>4, <3>1 DEF SlotInv
      <3>3. CASE faults' = faults
        BY <2>2, <3>2, <3>3, SettledStep, UnharmedStep DEF SlotInv, FreshInv
      <3>4. CASE faults' # faults
        BY <1>4, <2>2, <3>2, <3>4, HarmedStep DEF SlotInv, FreshInv
      <3> QED BY <3>3, <3>4
    <2>3. CASE RequestRecovery \/ (\E custom \in BOOLEAN : BeginSave(custom))
      <3>1. /\ crashes' = crashes /\ disk' = disk /\ marker' = marker /\ pc = "idle"
            /\ pc' \in {"recover", "start"}
        BY <2>3 DEF RequestRecovery, BeginSave, KeepFiles, Rest, Goto
      <3>2. Settled /\ Unharmed
        BY <1>4, <3>1 DEF SlotInv
      <3>3. Settled'
        BY <2>1, <2>3, <3>2, SettledOthers DEF SlotInv, FreshInv
      <3> QED BY <3>1, <3>2, <3>3 DEF Unharmed, Intact, Valid
    <2>4. CASE Quiet \/ UNCHANGED vars
      <3>1. UNCHANGED vars
        BY <2>4 DEF Quiet
      <3>2. Settled /\ Unharmed
        BY <1>4, <3>1 DEF SlotInv, vars
      <3> QED BY <3>1, <3>2 DEF vars, Settled, SafeFinals, SafeBaks, SafeMarker, SafeStages, Clean, Early,
              Passed, Intact, Overwrite, Valid, Exists, Unharmed
    <2>5. ~LegacyStep
      BY NoLegacyStep DEF SlotInv, Atomicity, Calm
    <2> QED BY <2>1, <2>2, <2>3, <2>4, <2>5 DEF Next
  <1> QED BY <1>1, <1>3, <1>4 DEF SlotInv

LEMMA SlotInvInitially == Init => SlotInv
  BY AtomicityInitially DEF Init, SlotInv, Settled, SafeFinals, SafeBaks, SafeMarker, SafeStages,
     Clean, Early, NoJob, Unharmed, Unmarked

LEMMA SlotInvAlways ==
  ASSUME "legacy" \notin Captures, PowerRarelyLost
  PROVE  Spec => []SlotInv
  <1>2. ~BeginLegacy
    BY DEF BeginLegacy
  <1>3. TypeOK /\ FreshInv /\ Durable /\ SlotInv /\ [Next]_vars /\ TypeOK' /\ FreshInv' /\ Durable'
          => SlotInv'
    BY <1>2, SlotInvNext
  <1> QED BY <1>3, SlotInvInitially, TypeCorrect, FreshAlways, DurableAlways, PTL DEF Spec

\* SlotStaysAtomic: where no script uses the destructive legacy callback, and power
\* is lost only where no file operation fails, or where one may and that loss is the
\* one crash, the transaction implements AtomicSlot for every number of saves,
\* failures and process deaths: the slot always shows one whole save, and only the
\* commit of the group on record changes which.
THEOREM SlotStaysAtomic ==
  ASSUME "legacy" \notin Captures, PowerRarelyLost
  PROVE  Spec => AtomicSlotHolds
  <1>1. TypeOK /\ SlotInv => SlotIsCurrent
    BY SlotRead DEF Atomicity, SlotInv
  <1>b. ~BeginLegacy
    BY DEF BeginLegacy
  <1>2. Init /\ TypeOK /\ SlotInv /\ SlotIsCurrent => Atomic!Init
    <2> SUFFICES ASSUME Init, TypeOK, SlotInv, SlotIsCurrent PROVE Atomic!Init
      OBVIOUS
    <2>1. ~Overwrite /\ Attempt = None
      BY DEF Init, Unmarked, Overwrite, Attempt
    <2>2. Slot \in Gen \cup {None}
      BY <2>1 DEF SlotIsCurrent, Current, Intact, Valid, Main
    <2> QED BY <2>1, <2>2 DEF Atomic!Init
  <1>3. TypeOK /\ FreshInv /\ Durable /\ SlotInv /\ SlotIsCurrent /\ [Next]_vars
            /\ TypeOK' /\ SlotIsCurrent'
          => [Atomic!Next]_(Atomic!vars)
    <2> SUFFICES ASSUME TypeOK, FreshInv, Durable, SlotInv, SlotIsCurrent, [Next]_vars,
                        TypeOK', SlotIsCurrent'
                 PROVE  [Atomic!Next]_(Atomic!vars)
      OBVIOUS
    <2>1. AtomicStep /\ Atomicity
      BY <1>b, AtomicityNext, PowerFindsSettled DEF SlotInv
    <2>2. CASE Holds
      <3>1. Slot' = Slot
        BY <2>2 DEF Holds, SlotIsCurrent
      <3>2. Attempt' \in Gen \cup {None}
        BY DEF Attempt, TypeOK, Marker
      <3> QED BY <3>1, <3>2 DEF Atomic!Next, Atomic!Begin, Atomic!Settle
    <2>3. CASE Commits
      <3>1. Slot' = marker.id /\ marker.state = "valid" /\ marker' = marker
        BY <2>3 DEF Commits, SlotIsCurrent
      <3>2. ~marker.legacy /\ marker.id # None
        BY <2>1, IdsTyped, SaveTransactionAssumption DEF Atomicity, Calm, RebuildsOnlyDamage
      <3> QED BY <3>1, <3>2 DEF Atomic!Next, Atomic!Commit, Attempt
    <2> QED BY <2>1, <2>2, <2>3 DEF AtomicStep
  <1> QED BY <1>1, <1>2, <1>3, TypeCorrect, FreshAlways, DurableAlways, SlotInvAlways, PTL
          DEF Spec, AtomicSlotHolds, Atomic!Spec

\* NeverStuck: under the same hypotheses, whatever stopped a save that overwrites
\* another, its backups or its new files suffice to rebuild a whole group.
THEOREM NeverStuck ==
  ASSUME "legacy" \notin Captures, PowerRarelyLost
  PROVE  Spec => []Recoverable
  <1>1. SlotInv => Recoverable
    BY DEF SlotInv, Atomicity, Guard, Recoverable, Backed, Restorable, Overwrite, Intact, Main
  <1> QED BY <1>1, SlotInvAlways, PTL

\* DamageStaysMarked: under the same hypotheses, no step removes or replaces the
\* marker of an overwrite while the main file is missing or torn.
THEOREM DamageStaysMarked ==
  ASSUME "legacy" \notin Captures, PowerRarelyLost
  PROVE  Spec => MarkerGuardsDamage
  <1>1. TypeOK /\ FreshInv /\ Durable /\ SlotInv /\ [Next]_vars =>
            (Overwrite /\ ~Intact => marker' = marker)
    <2> SUFFICES ASSUME TypeOK, IdsOK, Durable, Atomicity, [Next]_vars, Overwrite, ~Intact,
                        LosePower => Settled
                 PROVE  marker' = marker
      BY PowerFindsSettled DEF FreshInv, SlotInv
    <2>a. Copied /\ Committed /\ Rebuilding /\ Calm
      BY DEF Atomicity
    <2>1. pc \notin {"marker", "legacy_marker"}
      BY <2>a DEF Copied, Committing, Overwrite, Calm, HandedOver, RebuildsOnlyDamage, LegacyLabel
    <2>2. ~Succeed
      <3>1. ASSUME Succeed PROVE disk[Main] = job.id /\ job.id \in Gen
        BY <3>1 DEF Succeed, IdsOK, Working, Installing, Durable, Landing, Placed, GroupKnown,
             Serving, Saved, Main, Comp, TypeOK, Job
      <3> QED BY <3>1 DEF Intact, Valid
    <2>3. ~Unmark /\ ~UnmarkRecovered
      BY <2>a DEF Unmark, Committed, UnmarkRecovered, Rebuilding
    <2>4. CASE WriterStep \/ RecoveryStep
      BY <2>1, <2>2, <2>3, <2>4, <2>a, KeepsMarker, NoLegacyStep
      DEF WriterStep, RecoveryStep, WriteMarker, Calm
    <2>5. CASE LegacyStep
      BY <2>5, <2>a, NoLegacyStep DEF Calm
    <2>6. CASE BeginLegacy \/ RequestRecovery \/ (\E custom \in BOOLEAN : BeginSave(custom))
      BY <2>6 DEF BeginLegacy, RequestRecovery, BeginSave
    <2>7. CASE Kill \/ LosePower
      BY <2>1, <2>7 DEF Kill, LosePower, MarkerInFlight, Settled, SafeMarker, Clean
    <2>8. CASE Quiet \/ UNCHANGED vars
      BY <2>8 DEF Quiet, vars
    <2> QED BY <2>4, <2>5, <2>6, <2>7, <2>8 DEF Next
  <1>2. TypeOK /\ FreshInv /\ Durable /\ SlotInv /\ [Next]_vars =>
            (marker.state = "valid" /\ "scop" \in marker.prev /\ ~Valid(Final("scop")) => marker' = marker)
    BY <1>1 DEF Overwrite, Intact, Main
  <1> QED BY <1>2, TypeCorrect, FreshAlways, DurableAlways, SlotInvAlways, PTL
          DEF Spec, MarkerGuardsDamage
-----------------------------------------------------------------------------
(* The legacy capture over a slot without custom data.  Until the first save  *)
(* has ended, either the capture is under way over the files the slot had, or *)
(* nothing but the commit has touched them.                                   *)

\* The files the slot had at the start.
FirstMain   == group[0]["scop"] \in {0, Absent}
FirstStands == \A c \in Comp : disk[Final(c)] = group[0][c]
Pristine ==
    /\ pc = "idle" /\ marker.state = "missing" /\ dirty = {} /\ FirstStands
    /\ ~Exists(Bak("scop")) /\ \A g \in Gen : ~Exists(Preserved(g)) /\ ~Exists(Temp(g, "scoc"))
    /\ ~Exists(CallbackTmp)

\* While the capture runs, and until its remains are recovered: the callback can
\* reach only the custom names, and its data in the final is on record.
OnRecord == marker.state = "valid" /\ Clean(MarkerFile)
CaptureFiles ==
    /\ \A c \in {"scop", "scov"} : disk[Final(c)] = group[0][c] /\ Clean(Final(c))
    /\ ~Exists(Bak("scop")) /\ ~Exists(Preserved(1))
CaptureJob ==
    /\ job.had \subseteq {"scop"} /\ job.caller = "player" /\ ~job.backups
    /\ marker.state = "valid" => marker.legacy /\ "scoc" \notin marker.prev
    /\ pc = "rec_legacy" => marker.state = "valid"
Leaked ==
    /\ Exists(Final("scoc")) => OnRecord
    /\ pc \in {"legacy_marker", "legacy_abort", "legacy_quit", "legacy_unmark",
               "rec_purge", "rec_clean", "rec_unmark"} => ~Exists(Final("scoc"))
    /\ pc \in {"legacy_callback", "legacy_collect", "legacy_restore"} => OnRecord
    /\ pc = "legacy_unmark" => Clean(Final("scoc"))
Handing ==
    /\ pc \in {"legacy_marker", "legacy_callback"} => \A f \in CallbackFiles(1) : ~Exists(f)
    /\ pc = "legacy_collect" => \A f \in CallbackFiles(1) : disk[f] \in {Absent, 1}
    /\ pc \in {"legacy_restore", "legacy_unmark"} /\ job.custom => group[1]["scoc"] = 1
CaptureSteps == (LegacyLabel \ {"legacy_preserve"}) \cup {"idle", "recover", "rec_clean", "rec_unmark"}
InCapture == /\ saves = 1 /\ pc \in CaptureSteps
             /\ CaptureFiles /\ CaptureJob /\ Leaked /\ Handing

LEMMA CaptureTyped ==
  ASSUME TypeOK, IdsOK, InCapture
  PROVE  /\ 1 \in Gen /\ 0 \in Gen /\ Preserved(1) \in File /\ Temp(1, "scoc") \in File
         /\ pc \in Capturing => job.id = 1
         /\ Absent # 1 /\ Absent \notin Gen
  <1>1. 1 \in Gen /\ 0 \in Gen
    BY SaveTransactionAssumption DEF TypeOK, InCapture, Gen
  <1>2. pc \in Capturing => job.id = 1
    BY DEF IdsOK, Working, InCapture, TypeOK, Job, Gen
  <1> QED BY <1>1, <1>2, SaveTransactionAssumption DEF File, Comp, Gen

\* The names the capture works on are none of those it must spare.
LEMMA CaptureApart ==
  ASSUME NEW g, NEW h, NEW c \in Comp
  PROVE  /\ \A x \in {Temp(g, c), CallbackTmp, Final("scoc"), MarkerFile} :
               x \notin {Final("scop"), Final("scov"), Bak("scop"), Preserved(h)}
         /\ \A x \in {Temp(g, c), CallbackTmp, Preserved(h), MarkerFile} : x # Final("scoc")
         /\ \A x \in {Temp(g, c), CallbackTmp, Final("scoc"), Preserved(h)} : x # MarkerFile
         /\ CallbackTmp # Temp(g, c)
         /\ Preserved(h) \notin {Final("scop"), Final("scov"), Bak("scop")}
  BY DEF Final, Bak, Temp, Preserved, CallbackTmp, MarkerFile

\* A step over the custom names only.
Confined == \A x \in {Final("scop"), Final("scov"), Bak("scop"), Preserved(1)} :
                disk'[x] = disk[x] /\ (x \in dirty' => x \in dirty)

LEMMA ConfinedWrite ==
  ASSUME TypeOK, 1 \in Gen, NEW f \in File, NEW v,
         Put(f, v) \/ PutLazy(f, v) \/ Botch(f, v) \/ Delete(f) \/ Flush(f) \/ KeepFiles,
         f \notin {Final("scop"), Final("scov"), Bak("scop"), Preserved(1)}
  PROVE  Confined
  <1>1. FilesOK
    BY TypeParts
  <1>2. \A x \in {Final("scop"), Final("scov"), Bak("scop"), Preserved(1)} : x \in File
    BY DEF File, Comp
  <1> QED BY <1>1, <1>2, SparesOthers DEF Confined, Spares

LEMMA ConfinedFiles ==
  ASSUME CaptureFiles, Confined, group'[0] = group[0]
  PROVE  CaptureFiles'
  BY DEF CaptureFiles, Confined, Clean, Exists

LEMMA CaptureByLegacy ==
  ASSUME TypeOK, IdsOK, InCapture, LegacyStep, group'[0] = group[0]
  PROVE  InCapture' \/ (LegacyUnmark /\ pc' = "start")
  <1>t. /\ FilesOK /\ StepOK /\ CountersOK /\ marker \in Marker /\ job \in Job
    BY TypeParts
  <1> USE <1>t, JobFiles, CaptureTyped
  <1>a. CaptureFiles /\ CaptureJob /\ Leaked /\ Handing /\ saves = 1
    BY DEF InCapture
  <1>s. saves' = saves
    BY DEF LegacyStep, LegacyMarker, LegacyPreserve, LegacyAbort, LegacyQuit, LegacyCallback, LegacyCollect,
       LegacyRestore, LegacyUnmark, LegacyDiscard, Rest
  <1>j. NoJob.had = {} /\ NoJob.caller = "player" /\ ~NoJob.backups
    BY DEF NoJob
  <1>1. CASE LegacyMarker
    <2>1. /\ pc = "legacy_marker" /\ job' = job /\ disk' = disk
          /\ dirty' \subseteq dirty \cup {MarkerFile} /\ ~Exists(Final("scoc"))
      BY <1>1, <1>a DEF LegacyMarker, PutMarker, BotchMarker, Leaked
    <2>2. Confined
      BY <2>1, CaptureApart DEF Confined
    <2>3. NewMarker.legacy /\ NewMarker.prev = job.had
      BY <2>1 DEF NewMarker
    <2>4. CASE PutMarker(NewMarker) /\ pc' = "legacy_callback"
      <3>1. marker' = NewMarker /\ marker'.state = "valid" /\ Clean(MarkerFile)'
        BY <2>4 DEF PutMarker, NewMarker, Clean
      <3>2. CaptureJob'
        BY <1>a, <2>1, <2>3, <2>4, <3>1 DEF CaptureJob
      <3>3. Leaked' /\ Handing'
        BY <1>a, <2>1, <2>4, <3>1 DEF Leaked, Handing, OnRecord, Exists, CallbackFiles
      <3> QED BY <1>a, <1>s, <2>2, <2>4, <3>2, <3>3, ConfinedFiles DEF InCapture, CaptureSteps, LegacyLabel
    <2>5. CASE pc' = "legacy_abort"
      <3>1. marker' \in {marker, Unmarked("invalid"), NewMarker}
        BY <1>1, <2>5 DEF LegacyMarker, PutMarker, BotchMarker
      <3>2. CaptureJob'
        BY <1>a, <2>1, <2>3, <2>5, <3>1 DEF CaptureJob, Unmarked
      <3>3. Leaked' /\ Handing'
        BY <1>a, <2>1, <2>5 DEF Leaked, Handing, Exists
      <3> QED BY <1>a, <1>s, <2>2, <2>5, <3>2, <3>3, ConfinedFiles DEF InCapture, CaptureSteps, LegacyLabel
    <2>6. "scoc" \notin job.had
      BY <1>a DEF CaptureJob
    <2> QED BY <1>1, <2>4, <2>5, <2>6 DEF LegacyMarker, Goto
  <1>2. CASE LegacyAbort
    <2>1. /\ pc = "legacy_abort" /\ pc' = "legacy_quit" /\ KeepFiles /\ marker' = marker /\ job' = job
      BY <1>2, <1>a DEF LegacyAbort, Goto, CaptureFiles, Capturing
    <2>2. CaptureFiles' /\ CaptureJob' /\ Leaked' /\ Handing'
      BY <1>a, <2>1 DEF KeepFiles, CaptureFiles, CaptureJob, Leaked, Handing, Exists, Clean, OnRecord
    <2> QED BY <1>a, <1>s, <2>1, <2>2 DEF InCapture, CaptureSteps, LegacyLabel
  <1>3. CASE LegacyQuit
    <2>1. /\ pc = "legacy_quit" /\ pc' = "idle" /\ job' = NoJob /\ disk' = disk
          /\ dirty' \subseteq dirty /\ marker' \in {marker, Unmarked("missing")}
      BY <1>3 DEF LegacyQuit, Goto, DropMarker, KeepMarker, PutMarker, KeepFiles
    <2>2. CaptureFiles' /\ CaptureJob' /\ Leaked' /\ Handing'
      BY <1>a, <1>j, <2>1 DEF CaptureFiles, CaptureJob, Leaked, Handing, Exists, Clean, OnRecord, Unmarked
    <2> QED BY <1>a, <1>s, <2>1, <2>2 DEF InCapture, CaptureSteps, LegacyLabel
  <1>4. CASE LegacyCallback
    <2>1. /\ pc = "legacy_callback" /\ pc' = "legacy_collect" /\ marker' = marker /\ job' = job
      BY <1>4 DEF LegacyCallback, Goto
    <2>2. PICK f \in CallbackFiles(1) : PutLazy(f, 1) \/ Delete(f) \/ KeepFiles
      BY <1>4 DEF LegacyCallback, CallbackFiles, Capturing
    <2>3. f \in File /\ f \in {Temp(1, "scoc"), CallbackTmp, Final("scoc")}
      BY DEF CallbackFiles
    <2>4. Confined
      BY <2>2, <2>3, CaptureApart, ConfinedWrite
    <2>5. /\ \A x \in File : disk'[x] \in {disk[x], 1, Absent}
          /\ dirty' \subseteq dirty \cup {f}
      BY <2>2, <2>3, PutEffect, DeleteEffect DEF KeepFiles
    <2>6. OnRecord'
      <3>1. f # MarkerFile
        BY <2>3, CaptureApart
      <3> QED BY <1>a, <2>1, <2>5, <3>1 DEF Leaked, OnRecord, Clean
    <2>7. \A x \in CallbackFiles(1) : disk'[x] \in {Absent, 1}
      BY <1>a, <2>1, <2>5 DEF Handing, Exists, CallbackFiles
    <2>8. CaptureJob' /\ Leaked' /\ Handing'
      BY <1>a, <2>1, <2>6, <2>7 DEF CaptureJob, Leaked, Handing
    <2> QED BY <1>a, <1>s, <2>1, <2>4, <2>8, ConfinedFiles DEF InCapture, CaptureSteps, LegacyLabel
  <1>5. CASE LegacyCollect
    <2>1. /\ pc = "legacy_collect" /\ pc' = "legacy_restore" /\ marker' = marker
          /\ group' = [group EXCEPT ![1] = [c \in Comp |-> IF c = "scoc" THEN disk[Collected] ELSE 1]]
          /\ \/ job' = [job EXCEPT !.custom = Exists(Collected)]
             \/ /\ job' = [job EXCEPT !.custom = TRUE, !.ready = FALSE]
                /\ Collected \in {CallbackTmp, Final("scoc")} /\ (Collected = CallbackTmp \/ Exists(Collected))
      BY <1>5 DEF LegacyCollect, Goto, Capturing
    <2>2. /\ job'.had = job.had /\ job'.caller = job.caller /\ job'.backups = job.backups
          /\ job'.custom => Exists(Collected)
      <3>1. Collected = CallbackTmp => Exists(Collected)
        BY <2>1, CaptureApart DEF Collected
      <3> QED BY <2>1, <3>1 DEF Job
    <2>3. disk[Collected] \in {Absent, 1}
      BY <1>a, <2>1 DEF Handing, Collected, CallbackFiles, Capturing
    <2>4. group'[1]["scoc"] = disk[Collected]
      BY <2>1 DEF CountersOK
    <2>5. Confined /\ disk'[Final("scoc")] = disk[Final("scoc")] /\ (MarkerFile \in dirty' => MarkerFile \in dirty)
      <3>1. job.id = 1
        BY <2>1 DEF Capturing
      <3>2. CASE Move(CallbackTmp, Temp(1, "scoc"))
        <4>1. /\ CallbackTmp # Temp(1, "scoc")
              /\ \A x \in {Final("scop"), Final("scov"), Bak("scop"), Preserved(1), Final("scoc"), MarkerFile} :
                   x # CallbackTmp /\ x # Temp(1, "scoc")
          BY CaptureApart
        <4>2. /\ \A x \in File : x # CallbackTmp /\ x # Temp(1, "scoc") => disk'[x] = disk[x]
              /\ dirty' \subseteq dirty \cup {Temp(1, "scoc")}
          BY <3>2, <4>1, MoveEffect
        <4>3. \A x \in {Final("scop"), Final("scov"), Bak("scop"), Preserved(1), Final("scoc")} : x \in File
          OBVIOUS
        <4> QED BY <4>1, <4>2, <4>3 DEF Confined
      <3>3. CASE Put(Temp(1, "scoc"), disk[Collected]) \/ Botch(Temp(1, "scoc"), disk[Collected]) \/ KeepFiles
        BY <3>3, CaptureApart, ConfinedWrite, PutEffect, BotchEffect DEF KeepFiles
      <3> QED BY <1>5, <3>1, <3>2, <3>3 DEF LegacyCollect
    <2>6. OnRecord'
      BY <1>a, <2>1, <2>5 DEF Leaked, OnRecord, Clean
    <2>7. CaptureJob' /\ Leaked' /\ Handing'
      BY <1>a, <2>1, <2>2, <2>3, <2>4, <2>6 DEF CaptureJob, Leaked, Handing, Exists
    <2> QED BY <1>a, <1>s, <2>1, <2>5, <2>7, ConfinedFiles DEF InCapture, CaptureSteps, LegacyLabel
  <1>6. CASE LegacyRestore
    <2>1. pc = "legacy_restore" /\ marker' = marker /\ job' = job /\ group' = group /\ "scoc" \notin job.had
      BY <1>6, <1>a DEF LegacyRestore, Rest, CaptureJob
    <2>2. CASE Delete(Final("scoc")) /\ pc' = "legacy_unmark"
      <3>1. Confined
        BY <2>2, CaptureApart, ConfinedWrite
      <3>2. disk'[Final("scoc")] = Absent /\ dirty' = dirty \ {Final("scoc")}
        BY <2>2, DeleteEffect
      <3>3. CaptureJob' /\ Leaked' /\ Handing'
        BY <1>a, <2>1, <2>2, <3>2 DEF CaptureJob, Leaked, Handing, Exists, Clean
      <3> QED BY <1>a, <1>s, <2>2, <3>1, <3>3, ConfinedFiles DEF InCapture, CaptureSteps, LegacyLabel
    <2>3. CASE KeepFiles /\ pc' = "legacy_discard"
      <3>1. CaptureFiles' /\ CaptureJob' /\ Leaked' /\ Handing'
        BY <1>a, <2>1, <2>3 DEF KeepFiles, CaptureFiles, CaptureJob, Leaked, Handing, Exists, Clean, OnRecord
      <3> QED BY <1>a, <1>s, <2>3, <3>1 DEF InCapture, CaptureSteps, LegacyLabel
    <2> QED BY <1>6, <2>1, <2>2, <2>3 DEF LegacyRestore, Goto
  <1>7. ASSUME LegacyUnmark, pc' # "start" PROVE InCapture'
    <2>1. /\ pc = "legacy_unmark" /\ pc' = "legacy_discard" /\ disk' = disk /\ dirty' \subseteq dirty
          /\ marker' \in {marker, Unmarked("missing")}
          /\ job' \in {job, [job EXCEPT !.staged = job.custom, !.had = {}]}
      BY <1>7 DEF LegacyUnmark, Goto, DropMarker, KeepMarker, PutMarker, KeepFiles
    <2>2. job'.had \subseteq job.had /\ job'.caller = job.caller /\ job'.backups = job.backups
      BY <2>1 DEF Job
    <2>3. CaptureFiles' /\ CaptureJob' /\ Leaked' /\ Handing'
      BY <1>a, <2>1, <2>2 DEF CaptureFiles, CaptureJob, Leaked, Handing, Exists, Clean, OnRecord, Unmarked
    <2> QED BY <1>a, <1>s, <2>1, <2>3 DEF InCapture, CaptureSteps, LegacyLabel
  <1>8. CASE LegacyDiscard
    <2>1. /\ pc = "legacy_discard" /\ pc' = "idle" /\ job' = NoJob /\ marker' = marker
          /\ Delete(Temp(1, "scoc")) \/ KeepFiles
      BY <1>8 DEF LegacyDiscard, Goto, Capturing
    <2>2. Confined
      BY <2>1, CaptureApart, ConfinedWrite
    <2>3. disk'[Final("scoc")] = disk[Final("scoc")] /\ (MarkerFile \in dirty' => MarkerFile \in dirty)
      BY <2>1, CaptureApart, DeleteEffect DEF KeepFiles
    <2>4. CaptureJob' /\ Leaked' /\ Handing'
      BY <1>a, <1>j, <2>1, <2>3 DEF CaptureJob, Leaked, Handing, Exists, Clean, OnRecord
    <2> QED BY <1>a, <1>s, <2>1, <2>2, <2>4, ConfinedFiles DEF InCapture, CaptureSteps, LegacyLabel
  <1>9. ~LegacyPreserve
    BY DEF LegacyPreserve, InCapture, CaptureSteps
  <1> QED BY <1>1, <1>2, <1>3, <1>4, <1>5, <1>6, <1>7, <1>8, <1>9 DEF LegacyStep

LEMMA CaptureByRecovery ==
  ASSUME TypeOK, IdsOK, InCapture, RecoveryStep \/ RequestRecovery
  PROVE  InCapture'
  <1>t. /\ FilesOK /\ StepOK /\ CountersOK /\ marker \in Marker /\ job \in Job
    BY TypeParts
  <1> USE <1>t, JobFiles, CaptureTyped
  <1>a. CaptureFiles /\ CaptureJob /\ Leaked /\ Handing /\ saves = 1
    BY DEF InCapture
  <1>s. saves' = saves /\ group' = group
    BY JobKept DEF RecoveryStep, Recover, RecoverLegacy, PurgeLegacy, StageRecovery, InstallRecovery,
       CleanRecovered, UnmarkRecovered, RequestRecovery, Rest
  <1>j. NoJob.had = {} /\ NoJob.caller = "player" /\ ~NoJob.backups
    BY DEF NoJob
  <1>r. ASSUME NEW b, Return(b) PROVE pc' = "idle" /\ job' = NoJob
    BY <1>a, <1>r DEF Return, Goto, CaptureJob
  <1>b. ASSUME Rebuild, marker.legacy PROVE pc' = "idle" /\ job' = NoJob
    <2>1. ~Restorable /\ ~Finishable
      BY <1>a, <1>b DEF Restorable, Finishable, CaptureFiles, Exists, Valid
    <2> QED BY <1>b, <1>r, <2>1 DEF Rebuild
  <1>k. ASSUME KeepFiles, marker' = marker, job' \in {job, NoJob}, pc' \in {"idle", "recover", "rec_legacy", "rec_unmark"},
               pc' = "rec_legacy" => marker.state = "valid", pc' = "rec_unmark" => ~Exists(Final("scoc"))
        PROVE  InCapture'
    <2>1. CaptureFiles' /\ CaptureJob' /\ Leaked' /\ Handing'
      BY <1>a, <1>j, <1>k, <1>s DEF KeepFiles, CaptureFiles, CaptureJob, Leaked, Handing, Exists, Clean, OnRecord
    <2> QED BY <1>a, <1>s, <1>k, <2>1 DEF InCapture, CaptureSteps, LegacyLabel
  <1>1. CASE RequestRecovery
    BY <1>1, <1>k DEF RequestRecovery, Goto
  <1>2. CASE Recover
    <2>1. marker.state = "valid" => marker.legacy
      BY <1>a DEF CaptureJob
    <2>2. marker.state # "valid" => ~Exists(Final("scoc"))
      BY <1>a DEF Leaked, OnRecord
    <2>3. KeepFiles /\ marker' = marker /\ job' \in {job, NoJob} /\ pc' \in {"idle", "rec_legacy", "rec_unmark"}
          /\ (pc' = "rec_legacy" => marker.state = "valid") /\ (pc' = "rec_unmark" => marker.state # "valid")
      BY <1>2, <1>r, <2>1 DEF Recover, Goto
    <2> QED BY <1>k, <2>2, <2>3
  <1>3. CASE RecoverLegacy
    <2>1. pc = "rec_legacy" /\ marker' = marker /\ marker.legacy /\ "scoc" \notin marker.prev
      BY <1>3, <1>a DEF RecoverLegacy, CaptureJob
    <2>2. CASE Delete(Final("scoc")) /\ pc' = "rec_purge" /\ job' = job
      <3>1. Confined
        BY <2>2, CaptureApart, ConfinedWrite
      <3>2. disk'[Final("scoc")] = Absent
        BY <2>2, DeleteEffect
      <3>3. CaptureJob' /\ Leaked' /\ Handing'
        BY <1>a, <2>1, <2>2, <3>2 DEF CaptureJob, Leaked, Handing, Exists
      <3> QED BY <1>a, <1>s, <2>2, <3>1, <3>3, ConfinedFiles DEF InCapture, CaptureSteps, LegacyLabel
    <2>3. CASE KeepFiles /\ Rebuild
      BY <1>b, <1>k, <2>1, <2>3
    <2> QED BY <1>3, <2>1, <2>2, <2>3 DEF RecoverLegacy, Goto
  <1>4. CASE PurgeLegacy
    <2>1. PICK gone \in SUBSET {CallbackTmp, Preserved(marker.id)} :
            /\ disk' = [f \in File |-> IF f \in gone THEN Absent ELSE disk[f]]
            /\ dirty' = dirty \ gone
      BY <1>4 DEF PurgeLegacy
    <2>2. pc = "rec_purge" /\ pc' = "rec_clean" /\ marker' = marker /\ job' = job
      BY <1>4 DEF PurgeLegacy, Goto
    <2>3. \A c \in Comp : Final(c) \notin gone /\ Bak(c) \notin gone
      BY <2>1, Apart
    <2>4. CaptureFiles'
      BY <1>a, <1>s, <2>1, <2>3 DEF CaptureFiles, Clean, Exists
    <2>5. ~Exists(Final("scoc"))'
      BY <1>a, <2>1, <2>2, <2>3 DEF Leaked, Exists
    <2>6. CaptureJob' /\ Leaked' /\ Handing'
      BY <1>a, <2>2, <2>5 DEF CaptureJob, Leaked, Handing
    <2> QED BY <1>a, <1>s, <2>2, <2>4, <2>6 DEF InCapture, CaptureSteps, LegacyLabel
  <1>5. CASE CleanRecovered
    <2>1. /\ pc = "rec_clean" /\ pc' \in {"rec_clean", "rec_unmark"} /\ marker' = marker /\ job' = job
          /\ Delete(Temp(marker.id, at)) \/ KeepFiles
      BY <1>5 DEF CleanRecovered, Advance, Goto
    <2>2. Confined
      BY <2>1, CaptureApart, ConfinedWrite
    <2>3. disk'[Final("scoc")] = disk[Final("scoc")]
      BY <2>1, CaptureApart, DeleteEffect DEF KeepFiles
    <2>4. CaptureJob' /\ Leaked' /\ Handing'
      BY <1>a, <2>1, <2>3 DEF CaptureJob, Leaked, Handing, Exists
    <2> QED BY <1>a, <1>s, <2>1, <2>2, <2>4, ConfinedFiles DEF InCapture, CaptureSteps, LegacyLabel
  <1>6. CASE UnmarkRecovered
    <2>1. /\ pc = "rec_unmark" /\ pc' = "idle" /\ job' = NoJob /\ disk' = disk
          /\ dirty' \subseteq dirty /\ marker' \in {marker, Unmarked("missing")}
      BY <1>6, <1>r DEF UnmarkRecovered, DropMarker, KeepMarker, PutMarker, KeepFiles
    <2>2. CaptureFiles' /\ CaptureJob' /\ Leaked' /\ Handing'
      BY <1>a, <1>s, <1>j, <2>1 DEF CaptureFiles, CaptureJob, Leaked, Handing, Exists, Clean, OnRecord, Unmarked
    <2> QED BY <1>a, <1>s, <2>1, <2>2 DEF InCapture, CaptureSteps, LegacyLabel
  <1>7. ~StageRecovery /\ ~InstallRecovery
    BY DEF StageRecovery, InstallRecovery, InCapture, CaptureSteps, LegacyLabel
  <1> QED BY <1>1, <1>2, <1>3, <1>4, <1>5, <1>6, <1>7 DEF RecoveryStep

LEMMA CaptureByCrash ==
  ASSUME TypeOK, IdsOK, InCapture, Kill \/ LosePower
  PROVE  InCapture'
  <1>t. /\ FilesOK /\ StepOK /\ CountersOK /\ marker \in Marker /\ job \in Job
    BY TypeParts
  <1> USE <1>t, JobFiles, CaptureTyped
  <1>a. CaptureFiles /\ CaptureJob /\ Leaked /\ Handing /\ saves = 1
    BY DEF InCapture
  <1>1. /\ pc' = "idle" /\ job' = NoJob /\ saves' = saves /\ group' = group
        /\ NoJob.had = {} /\ NoJob.caller = "player" /\ ~NoJob.backups
    BY DEF Kill, LosePower, Forget, Goto, NoJob
  <1>2. \A f, v : <<f, v>> \in InFlight =>
            /\ f \in {Temp(1, "scoc"), CallbackTmp, Final("scoc")}
            /\ pc \in {"legacy_callback", "legacy_collect"}
            /\ f = Final("scoc") => pc = "legacy_callback"
    BY CaptureApart DEF InFlight, InCapture, CaptureSteps, LegacyLabel, CallbackFiles, Capturing
  <1>3. ASSUME NEW x \in File, x \notin {Temp(1, "scoc"), CallbackTmp, Final("scoc")}
        PROVE  /\ Clean(x) \/ ~Exists(x) => disk'[x] = disk[x]
               /\ x \in dirty' => x \in dirty
    <2>1. \A v : <<x, v>> \notin InFlight
      BY <1>2, <1>3
    <2>2. \A w \in InFlight : w = <<w[1], w[2]>>
      BY DEF InFlight
    <2>3. x # MarkerFile
      BY <1>3 DEF File, MarkerFile, Final, Bak, Staged, Temp, Preserved, CallbackTmp
    <2>4. CASE Kill
      <3>1. x \notin {w[1] : w \in InFlight}
        BY <2>1, <2>2
      <3>2. disk'[x] = disk[x]
        BY <2>1, <2>4, KillEffect
      <3> QED BY <2>3, <2>4, <3>1, <3>2 DEF Kill
    <2>5. CASE LosePower
      BY <2>1, <2>5, PowerEffect DEF LosePower
    <2> QED BY <2>4, <2>5
  <1>4. CaptureFiles'
    <2>1. \A x \in {Final("scop"), Final("scov"), Bak("scop"), Preserved(1)} :
            x \in File /\ x \notin {Temp(1, "scoc"), CallbackTmp, Final("scoc")}
      BY CaptureApart
    <2> QED BY <1>1, <1>3, <1>a, <2>1 DEF CaptureFiles, Clean, Exists
  <1>5. /\ \/ marker' \in {marker, Unmarked("invalid")}
           \/ pc = "legacy_marker" /\ marker' = NewMarker
        /\ OnRecord /\ pc # "legacy_marker" => OnRecord'
    <2>1. MarkerInFlight <=> pc = "legacy_marker"
      BY DEF MarkerInFlight, InCapture, CaptureSteps, LegacyLabel
    <2>2. MarkerFile \notin {w[1] : w \in InFlight}
      <3>1. \A w \in InFlight : w = <<w[1], w[2]>>
        BY DEF InFlight
      <3> QED BY <3>1, <1>2, CaptureApart
    <2> QED BY <2>1, <2>2 DEF Kill, LosePower, OnRecord, Clean
  <1>6. CaptureJob'
    <2>1. pc = "legacy_marker" => NewMarker.legacy /\ NewMarker.prev = job.had
      BY DEF NewMarker
    <2> QED BY <1>1, <1>5, <1>a, <2>1 DEF CaptureJob, Unmarked
  <1>7. Exists(Final("scoc"))' => OnRecord'
    <2>1. CASE pc = "legacy_callback"
      BY <1>5, <1>a, <2>1 DEF Leaked
    <2>2. CASE pc # "legacy_callback"
      <3>1. ~Exists(Final("scoc")) => ~Exists(Final("scoc"))'
        <4>1. \A v : <<Final("scoc"), v>> \notin InFlight
          BY <1>2, <2>2
        <4>2. CASE Kill
          BY <4>1, <4>2, KillEffect DEF Exists
        <4>3. CASE LosePower
          BY <4>1, <4>3, PowerEffect DEF Exists
        <4> QED BY <4>2, <4>3
      <3>2. Exists(Final("scoc")) => OnRecord /\ pc # "legacy_marker"
        BY <1>a DEF Leaked
      <3> QED BY <1>5, <3>1, <3>2
    <2> QED BY <2>1, <2>2
  <1>8. Leaked' /\ Handing'
    BY <1>1, <1>7 DEF Leaked, Handing
  <1> QED BY <1>1, <1>a, <1>4, <1>6, <1>8 DEF InCapture, CaptureSteps

LEMMA CaptureBegins ==
  ASSUME TypeOK, Pristine, saves = 0, group[0]["scoc"] = Absent, BeginLegacy
  PROVE  InCapture'
  <1>1. /\ pc' = "legacy_marker" /\ disk' = disk /\ dirty' = {} /\ marker' = marker /\ group' = group
        /\ saves' = 1
        /\ job' = [NoJob EXCEPT !.id = 1, !.had = {c \in {"scop", "scoc"} : Exists(Final(c))}]
    BY DEF BeginLegacy, Goto, Pristine
  <1>2. 1 \in Gen
    BY SaveTransactionAssumption DEF TypeOK, BeginLegacy, Gen
  <1>3. disk[Final("scoc")] = Absent
    BY DEF Pristine, FirstStands, Comp
  <1>4. job'.had \subseteq {"scop"} /\ job'.caller = "player" /\ ~job'.backups
    BY <1>1, <1>3 DEF NoJob, Exists
  <1>5. CaptureFiles' /\ CaptureJob'
    BY <1>1, <1>2, <1>4 DEF CaptureFiles, CaptureJob, Pristine, FirstStands, Exists, Clean, Comp
  <1>6. Leaked' /\ Handing'
    BY <1>1, <1>2, <1>3 DEF Leaked, Handing, CallbackFiles, Pristine, Exists
  <1> QED BY <1>1, <1>5, <1>6 DEF InCapture, CaptureSteps, LegacyLabel

\* While no valid main file is shown and no marker explains it, the slot is as it was
\* at the start; and what a commit that found no main file has backed up is all there
\* was.
Remains ==
    /\ ~Intact /\ (marker.state = "missing" \/ pc \in {"drop_main", "unmark"}) => FirstStands
    /\ pc \in {"install", "restore"} /\ "scop" \notin job.had => \A c \in Comp :
           IF c \in job.had THEN disk[Bak(c)] = group[0][c] ELSE group[0][c] = Absent

\* The capture hands over to an ordinary save.
LEMMA CaptureEnds ==
  ASSUME TypeOK, IdsOK, InCapture, FirstMain, group[0]["scoc"] = Absent, LegacyUnmark, pc' = "start"
  PROVE  SlotInv' /\ Remains'
  <1>t. /\ FilesOK /\ StepOK /\ CountersOK /\ marker \in Marker /\ job \in Job
    BY TypeParts
  <1> USE <1>t, JobFiles, CaptureTyped
  <1>a. CaptureFiles /\ CaptureJob /\ Leaked /\ Handing
    BY DEF InCapture
  <1>1. /\ pc = "legacy_unmark" /\ disk' = disk /\ dirty' = dirty \ {MarkerFile} /\ group' = group
        /\ marker' = Unmarked("missing") /\ job' = [job EXCEPT !.staged = job.custom, !.had = {}]
    BY DEF LegacyUnmark, Goto, DropMarker, PutMarker, Rest
  <1>2. job'.id = 1 /\ job'.staged = job.custom /\ job'.had = {} /\ ~job'.backups
    BY <1>1, <1>a DEF Job, CaptureJob, Capturing
  <1>3. marker'.state = "missing" /\ ~marker'.legacy
    BY <1>1 DEF Unmarked
  <1>4. disk[Final("scoc")] = Absent /\ \A c \in Comp : disk[Final(c)] = group[0][c] /\ Clean(Final(c))
    BY <1>1, <1>a DEF Leaked, CaptureFiles, Exists, Comp
  <1>5. FirstStands'
    BY <1>1, <1>4 DEF FirstStands
  <1>6. Guard'
    <2>1. disk[Main] = group[0]["scop"] /\ group[0]["scop"] \in {0, Absent}
      BY <1>4 DEF FirstMain, Main
    <2>2. Intact' => disk[Main] = 0
      BY <1>1, <2>1 DEF Intact, Valid, Main
    <2>3. Intact' => Whole'
      BY <1>1, <1>4, <2>2 DEF Whole, Main
    <2>4. ~Intact' => ~Exists(Main)'
      BY <1>1, <2>1 DEF Intact, Valid, Main, Exists
    <2> QED BY <1>3, <2>3, <2>4 DEF Guard, Overwrite
  <1>7. Calm'
    BY <1>1, <1>2, <1>3, <1>a DEF Calm, HandedOver, RebuildsOnlyDamage, LegacyLabel, Handing
  <1>8. Copied' /\ Committed' /\ Rebuilding'
    BY <1>2, <1>3 DEF Copied, Early, Saving, Committing, Recovering, Committed, Installing, Rebuilding
  <1>9. Settled'
    <2>1. \A c \in Comp : Clean(Final(c))'
      BY <1>1, <1>4 DEF Clean
    <2> QED BY <1>3, <2>1 DEF Settled, SafeFinals, SafeBaks, SafeMarker, SafeStages, Early, Overwrite
  <1>10. Unharmed' /\ Remains'
    BY <1>3, <1>5 DEF Unharmed, Remains
  <1> QED BY <1>6, <1>7, <1>8, <1>9, <1>10 DEF SlotInv, Atomicity

LEMMA RemainsStep ==
  ASSUME TypeOK, IdsOK, Durable, Atomicity, Remains, group'[0] = group[0], WriterStep \/ RecoveryStep
  PROVE  Remains'
  <1>t. /\ FilesOK /\ StepOK /\ CountersOK /\ marker \in Marker /\ job \in Job
    BY TypeParts
  <1> USE <1>t, JobFiles
  <1>a. Guard /\ Copied /\ Committed /\ Rebuilding /\ Calm
    BY DEF Atomicity
  <1>k. ASSUME FinalsKept PROVE (Intact' <=> Intact) /\ (FirstStands => FirstStands')
    BY <1>k DEF FinalsKept, Intact, Valid, Main, Comp, FirstStands
  <1>1. CASE \/ StartJob \/ EarlyCustom \/ EarlyBackup \/ EarlyMain \/ Encode \/ WriteTemp
             \/ CheckMarker \/ Preflight \/ BackUp \/ CleanUp \/ Recover \/ StageRecovery \/ CleanRecovered
    <2>1. pc' \notin {"drop_main", "install", "restore", "unmark"}
      BY <1>1 DEF StartJob, EarlyCustom, EarlyBackup, EarlyMain, Encode, WriteTemp, CheckMarker,
           Preflight, BackUp, CleanUp, Recover, StageRecovery, CleanRecovered, Rebuild, Return, Goto, Advance
    <2>2. FinalsKept /\ marker' = marker
      BY <1>1, KeepsFinals, KeepsMarker
    <2> QED BY <1>k, <2>1, <2>2 DEF Remains
  <1>2. CASE WriteMarker
    <2>1. ~Intact => FirstStands
      BY <1>2, <1>a DEF WriteMarker, Copied, Committing, Remains
    <2>2. pc' \in {"drop_main", "unmark"}
      BY <1>2 DEF WriteMarker, Goto
    <2> QED BY <1>2, <1>k, <2>1, <2>2, KeepsFinals DEF Remains
  <1>3. CASE DropMain
    <2>1. pc = "drop_main" /\ marker' = marker /\ job' = job /\ marker.state = "valid"
      BY <1>3, <1>a DEF DropMain, Committed, Installing
    <2>2. CASE KeepFiles /\ pc' = "unmark"
      <3>1. FinalsKept
        BY <2>2 DEF KeepFiles, FinalsKept
      <3> QED BY <1>k, <2>1, <2>2, <3>1 DEF Remains
    <2>3. CASE pc' = "install"
      <3>1. ASSUME "scop" \notin job.had, NEW c \in Comp
            PROVE  IF c \in job.had THEN disk'[Bak(c)] = group'[0][c] ELSE group'[0][c] = Absent
        <4>1. /\ job.had = {d \in Comp : Exists(Final(d))} /\ disk[Bak(c)] = disk[Final(c)]
          BY <2>1, <1>a DEF Copied, BackedUp
        <4>2. ~Intact
          BY <3>1, <4>1, SaveTransactionAssumption DEF Intact, Valid, Main, Exists, Gen
        <4>3. disk[Final(c)] = group[0][c]
          BY <2>1, <4>2 DEF Remains, FirstStands
        <4>4. disk'[Bak(c)] = disk[Bak(c)]
          BY <1>3, KeepsBaks DEF BaksKept
        <4> QED BY <4>1, <4>3, <4>4 DEF Exists
      <3> QED BY <2>1, <2>3, <3>1 DEF Remains
    <2> QED BY <1>3, <2>2, <2>3 DEF DropMain, Goto
  <1>r. ASSUME BaksKept, marker' = marker, job' = job, pc \in {"install", "restore"},
               pc' \in {"install", "restore", "done", "cleanup"}
        PROVE  Remains'
    <2>1. marker.state = "valid"
      BY <1>r, <1>a DEF Committed, Installing
    <2> QED BY <1>r, <2>1 DEF Remains, BaksKept
  <1>4. CASE Install
    <2>1. /\ pc = "install" /\ pc' \in {"install", "restore", "done"} /\ job' = job /\ marker' = marker
      BY <1>4 DEF Install, Advance, Goto
    <2> QED BY <1>4, <1>r, <2>1, KeepsBaks
  <1>5. CASE RestorePrevious
    <2>1. /\ pc = "restore" /\ job' = job /\ marker' = marker /\ BaksKept
          /\ marker.state = "valid" /\ marker.prev = job.had /\ ~Intact
      BY <1>5, <1>a, KeepsBaks, SaveTransactionAssumption
      DEF RestorePrevious, Committed, Installing, Intact, Valid, Exists, Gen
    <2>2. CASE pc' \in {"restore", "cleanup"}
      BY <1>r, <2>1, <2>2
    <2>3. CASE /\ IF at \in job.had THEN Put(Final(at), disk[Bak(at)]) ELSE Delete(Final(at))
               /\ Advance("unmark") /\ pc' = "unmark"
      <3>1. at = "scop" /\ Passed = {"scoc", "scov"}
        BY <2>1, <2>3 DEF Advance, Last, CompanionsFirst, Passed
      <3>2. /\ disk'[Main] = IF "scop" \in job.had THEN disk[Bak("scop")] ELSE Absent
            /\ \A c \in Comp : c # "scop" => disk'[Final(c)] = disk[Final(c)]
        BY <2>3, <3>1, PutEffect, DeleteEffect, Apart DEF Main
      <3>3. CASE "scop" \in job.had
        <4>1. Valid(Bak("scop"))
          BY <2>1, <3>3, <1>a DEF Guard, Overwrite, Backed
        <4>2. Intact'
          BY <3>2, <3>3, <4>1 DEF Intact, Valid, Main
        <4> QED BY <2>1, <2>3, <4>2 DEF Remains
      <3>4. CASE "scop" \notin job.had
        <4>1. \A c \in Comp : c # "scop" => disk[Final(c)] = IF c \in job.had THEN disk[Bak(c)] ELSE Absent
          BY <2>1, <3>1, <1>a DEF Committed, Comp
        <4>2. \A c \in Comp : IF c \in job.had THEN disk[Bak(c)] = group[0][c] ELSE group[0][c] = Absent
          BY <2>1, <3>4 DEF Remains
        <4>3. FirstStands'
          BY <3>2, <3>4, <4>1, <4>2 DEF FirstStands, Main, Comp
        <4> QED BY <2>3, <4>3 DEF Remains
      <3> QED BY <3>3, <3>4
    <2> QED BY <1>5, <2>2, <2>3 DEF RestorePrevious, Advance, Goto
  <1>6. CASE Succeed \/ Unmark \/ UnmarkRecovered
    <2>1. Intact \/ FirstStands
      <3>1. ASSUME Succeed PROVE disk[Main] = job.id /\ job.id \in Gen
        BY <3>1 DEF Succeed, IdsOK, Working, Installing, Durable, Landing, Placed, GroupKnown,
             Serving, Saved, Main
      <3>2. Succeed => Intact
        BY <3>1 DEF Intact, Valid
      <3>3. Unmark => Intact \/ FirstStands
        BY DEF Unmark, Remains
      <3>4. UnmarkRecovered => Intact
        BY <1>a DEF UnmarkRecovered, Rebuilding
      <3> QED BY <1>6, <3>2, <3>3, <3>4
    <2>2. pc' \in {"idle", "cleanup", "preflight"}
      BY <1>6 DEF Succeed, Unmark, UnmarkRecovered, Return, Goto
    <2> QED BY <1>6, <1>k, <2>1, <2>2, KeepsFinals DEF Remains
  <1>7. CASE InstallRecovery
    <2>1. /\ pc' \in {"rec_install", "rec_clean", "idle", "cleanup"}
          /\ marker' = marker /\ marker.state = "valid"
      BY <1>7, <1>a DEF InstallRecovery, Rebuilding, Advance, Return, Goto
    <2> QED BY <2>1 DEF Remains
  <1> QED BY <1>1, <1>2, <1>3, <1>4, <1>5, <1>6, <1>7, <1>a, NoLegacyStep DEF WriterStep, RecoveryStep, Calm

LEMMA RemainsOthers ==
  ASSUME TypeOK, IdsOK, Atomicity, Remains, group'[0] = group[0], LosePower => Settled,
         RequestRecovery \/ (\E custom \in BOOLEAN : BeginSave(custom)) \/ Kill \/ LosePower
  PROVE  Remains'
  <1>1. /\ pc' \in {"idle", "recover", "start"}
        /\ marker'.state = "missing" => marker.state = "missing"
    <2>1. CASE RequestRecovery
      BY <2>1 DEF RequestRecovery, Goto
    <2>2. CASE \E custom \in BOOLEAN : BeginSave(custom)
      BY <2>2 DEF BeginSave, Goto
    <2>3. CASE Kill
      BY <2>3 DEF Kill, Forget, Goto, Unmarked, NewMarker
    <2>4. CASE LosePower
      BY <2>4 DEF LosePower, Forget, Goto, Unmarked
    <2> QED BY <2>1, <2>2, <2>3, <2>4
  <1>2. ASSUME marker.state = "missing" PROVE FinalsKept
    <2>1. pc # "restore"
      BY <1>2 DEF Atomicity, Committed, Installing
    <2>2. CASE RequestRecovery \/ \E custom \in BOOLEAN : BeginSave(custom)
      BY <2>2 DEF RequestRecovery, BeginSave, KeepFiles, FinalsKept
    <2>3. CASE Kill \/ LosePower
      <3> SUFFICES ASSUME NEW c \in Comp PROVE disk'[Final(c)] = disk[Final(c)]
        BY DEF FinalsKept
      <3>1. \A v : <<Final(c), v>> \notin InFlight
        BY <2>1, FlightPlan, Apart
      <3>2. Final(c) \in File
        BY DEF File
      <3>3. CASE Kill
        BY <3>1, <3>2, <3>3, KillEffect
      <3>4. CASE LosePower
        BY <3>1, <3>2, <3>4, PowerEffect DEF Settled, SafeFinals
      <3> QED BY <2>3, <3>3, <3>4
    <2> QED BY <2>2, <2>3
  <1> QED BY <1>1, <1>2 DEF Remains, FinalsKept, FirstStands, Intact, Valid, Main, Comp

LEMMA FirstFixed ==
  ASSUME TypeOK, IdsOK, [Next]_vars
  PROVE  group'[0] = group[0]
  <1>0. 0 \in Gen /\ group \in [Gen -> [Comp -> Content]]
    BY SaveTransactionAssumption DEF Gen, TypeOK
  <1>1. CASE WriterStep \/ RecoveryStep
    BY <1>1, JobKept
  <1>2. CASE LegacyStep
    <2>1. CASE LegacyCollect
      <3>1. job.id # 0
        BY <2>1 DEF LegacyCollect, IdsOK, Working, Capturing
      <3> QED BY <1>0, <2>1, <3>1 DEF LegacyCollect
    <2> QED BY <1>2, <2>1 DEF LegacyStep, LegacyMarker, LegacyPreserve, LegacyAbort, LegacyQuit,
            LegacyCallback, LegacyRestore, LegacyUnmark, LegacyDiscard, Rest
  <1>3. CASE \E custom \in BOOLEAN : BeginSave(custom)
    <2>1. saves + 1 # 0
      BY IdsTyped
    <2> QED BY <1>0, <1>3, <2>1 DEF BeginSave
  <1>4. CASE BeginLegacy \/ RequestRecovery \/ Kill \/ LosePower \/ Quiet \/ UNCHANGED vars
    BY <1>4 DEF BeginLegacy, RequestRecovery, Rest, Kill, LosePower, Forget, Quiet, vars
  <1> QED BY <1>1, <1>2, <1>3, <1>4 DEF Next

\* WholeInv: over a slot without custom data, up to the end of the first save.
WholeInv ==
    /\ FirstMain
    /\ saves <= 1 /\ group[0]["scoc"] = Absent =>
           /\ saves = 0 => Pristine
           /\ InCapture \/ (SlotInv /\ Remains)

LEMMA WholeInitially == Init => WholeInv
  <1> SUFFICES ASSUME Init PROVE WholeInv
    OBVIOUS
  <1>1. PICK first \in FirstGroups :
          /\ group = [g \in Gen |-> IF g = 0 THEN [c \in Comp |->
                         IF c \in first THEN 0 ELSE Absent] ELSE NoGroup]
          /\ disk = [f \in File |-> IF \E c \in first : f = Final(c) THEN 0 ELSE Absent]
    BY DEF Init
  <1>2. /\ marker.state = "missing" /\ pc = "idle" /\ dirty = {} /\ job = NoJob
        /\ first \subseteq Comp /\ 0 \in Gen
    BY <1>1, SaveTransactionAssumption DEF Init, Unmarked, Gen
  <1>3. \A c \in Comp : /\ group[0][c] = IF c \in first THEN 0 ELSE Absent
                        /\ disk[Final(c)] = IF c \in first THEN 0 ELSE Absent
    <2>1. \A c \in Comp : Final(c) \in File
      BY DEF File
    <2>2. \A c \in Comp, d \in first : Final(c) = Final(d) => c = d
      BY <1>2, Apart
    <2> QED BY <1>1, <1>2, <2>1, <2>2
  <1>4. FirstStands /\ FirstMain
    BY <1>3 DEF FirstStands, FirstMain, Comp
  <1>5. \A f \in File : (\A c \in Comp : f # Final(c)) => ~Exists(f)
    BY <1>1, <1>2 DEF Exists
  <1>6. Pristine
    <2>1. /\ \A c \in Comp : Bak("scop") # Final(c) /\ CallbackTmp # Final(c)
          /\ \A g \in Gen : \A c \in Comp : Preserved(g) # Final(c) /\ Temp(g, "scoc") # Final(c)
      BY DEF Final, Bak, Preserved, Temp, CallbackTmp
    <2>2. /\ Bak("scop") \in File /\ CallbackTmp \in File
          /\ \A g \in Gen : Preserved(g) \in File /\ Temp(g, "scoc") \in File
      BY DEF File, Comp
    <2> QED BY <1>2, <1>4, <1>5, <2>1, <2>2 DEF Pristine
  <1>7. Remains
    BY <1>2, <1>4 DEF Remains
  <1> QED BY <1>4, <1>6, <1>7, SlotInvInitially DEF WholeInv

\* Only the start of a save counts it.
LEMMA BeginsCount ==
  ASSUME TypeOK, BeginLegacy \/ \E custom \in BOOLEAN : BeginSave(custom)
  PROVE  saves' = saves + 1 /\ saves' # saves
  <1>0. saves \in Nat
    BY IdsTyped
  <1>1. ASSUME BeginLegacy PROVE saves' = saves + 1
    BY <1>1 DEF BeginLegacy
  <1>2. ASSUME NEW custom \in BOOLEAN, BeginSave(custom) PROVE saves' = saves + 1
    BY <1>2 DEF BeginSave
  <1>3. saves' = saves + 1
    BY <1>1, <1>2
  <1> QED BY <1>0, <1>3

\* Before the first save begins nothing is in flight and nothing can be torn.
LEMMA PristineKept ==
  ASSUME TypeOK, IdsOK, Pristine, [Next]_vars, saves' = saves, group'[0] = group[0]
  PROVE  Pristine'
  <1>1. pc = "idle" /\ marker.state = "missing" /\ dirty = {}
    BY DEF Pristine
  <1>2. Kill \/ LosePower \/ UNCHANGED vars
    <2>1. ~WriterStep /\ ~LegacyStep /\ ~RecoveryStep /\ ~RequestRecovery
      BY <1>1 DEF WriterStep, StartJob, EarlyCustom, EarlyBackup, EarlyMain, Encode, WriteTemp, CheckMarker,
         Preflight, BackUp, WriteMarker, DropMain, Install, Succeed, RestorePrevious, Unmark, CleanUp,
         LegacyStep, LegacyMarker, LegacyPreserve, LegacyAbort, LegacyQuit, LegacyCallback, LegacyCollect,
         LegacyRestore, LegacyUnmark, LegacyDiscard, RecoveryStep, Recover, RecoverLegacy, PurgeLegacy,
         StageRecovery, InstallRecovery, CleanRecovered, UnmarkRecovered, RequestRecovery
    <2>2. ~BeginLegacy /\ ~\E custom \in BOOLEAN : BeginSave(custom)
      BY BeginsCount
    <2> QED BY <2>1, <2>2 DEF Next, Quiet
  <1>3. CASE UNCHANGED vars
    BY <1>3 DEF vars, Pristine, FirstStands, Exists
  <1>4. CASE Kill \/ LosePower
    <2>1. InFlight = {} /\ ~MarkerInFlight
      BY <1>1 DEF InFlight, MarkerInFlight
    <2>2. pc' = "idle" /\ marker' = marker /\ dirty' = {}
      BY <1>1, <1>4, <2>1 DEF Kill, LosePower, Forget, Goto
    <2>3. \A f \in File : disk'[f] = disk[f]
      BY <1>1, <1>4, <2>1, KillEffect, PowerEffect DEF Clean
    <2>4. /\ Bak("scop") \in File /\ CallbackTmp \in File
          /\ \A g \in Gen : Preserved(g) \in File /\ Temp(g, "scoc") \in File
          /\ \A c \in Comp : Final(c) \in File
      BY DEF File, Comp
    <2> QED BY <2>2, <2>3, <2>4 DEF Pristine, FirstStands, Exists
  <1> QED BY <1>2, <1>3, <1>4

LEMMA WholeNext ==
  ASSUME PowerRarelyLost, TypeOK, FreshInv, Durable, WholeInv, [Next]_vars, TypeOK', FreshInv', Durable'
  PROVE  WholeInv'
  <1>0. saves \in Nat /\ saves' \in Nat /\ IdsOK
    BY IdsTyped DEF TypeOK, FreshInv
  <1>1. group'[0] = group[0] /\ FirstMain'
    BY <1>0, FirstFixed DEF WholeInv, FirstMain
  <1>2. CASE saves' = saves
    <2> SUFFICES ASSUME saves <= 1, group[0]["scoc"] = Absent
                 PROVE  (saves = 0 => Pristine') /\ (InCapture' \/ (SlotInv' /\ Remains'))
      BY <1>1, <1>2 DEF WholeInv
    <2>1. saves = 0 => Pristine'
      BY <1>0, <1>1, <1>2, PristineKept DEF WholeInv
    <2>2. ~BeginLegacy /\ ~\E custom \in BOOLEAN : BeginSave(custom)
      BY <1>2, BeginsCount
    <2>3. ASSUME InCapture PROVE InCapture' \/ (SlotInv' /\ Remains')
      <3>1. ~WriterStep
        BY <2>3 DEF InCapture, CaptureSteps, LegacyLabel, WriterStep, StartJob, EarlyCustom, EarlyBackup,
           EarlyMain, Encode, WriteTemp, CheckMarker, Preflight, BackUp, WriteMarker, DropMain, Install,
           Succeed, RestorePrevious, Unmark, CleanUp
      <3>2. CASE LegacyStep
        <4>1. InCapture' \/ (LegacyUnmark /\ pc' = "start")
          BY <1>0, <1>1, <2>3, <3>2, CaptureByLegacy
        <4>2. FirstMain
          BY DEF WholeInv
        <4> QED BY <1>0, <2>3, <4>1, <4>2, CaptureEnds
      <3>3. CASE RecoveryStep \/ RequestRecovery
        BY <1>0, <2>3, <3>3, CaptureByRecovery
      <3>4. CASE Kill \/ LosePower
        BY <1>0, <2>3, <3>4, CaptureByCrash
      <3>5. CASE UNCHANGED vars
        BY <2>3, <3>5 DEF vars, InCapture, CaptureFiles, CaptureJob, Leaked, Handing, OnRecord, Clean, Exists
      <3> QED BY <2>2, <3>1, <3>2, <3>3, <3>4, <3>5 DEF Next, Quiet
    <2>4. ASSUME SlotInv, Remains PROVE SlotInv' /\ Remains'
      <3>1. SlotInv'
        BY <2>2, <2>4, SlotInvNext
      <3>2. Atomicity /\ (LosePower => Settled)
        BY <2>4, PowerFindsSettled DEF SlotInv
      <3>3. Remains'
        <4>1. CASE WriterStep \/ RecoveryStep
          BY <1>0, <1>1, <2>4, <3>2, <4>1, RemainsStep
        <4>2. CASE RequestRecovery \/ Kill \/ LosePower
          BY <1>0, <1>1, <2>4, <3>2, <4>2, RemainsOthers
        <4>3. CASE UNCHANGED vars
          BY <2>4, <4>3 DEF vars, Remains, FirstStands, Intact, Valid
        <4> QED BY <2>2, <3>2, <4>1, <4>2, <4>3, NoLegacyStep DEF Next, Quiet, Atomicity, Calm
      <3> QED BY <3>1, <3>3
    <2>5. InCapture \/ (SlotInv /\ Remains)
      BY DEF WholeInv
    <2> QED BY <2>1, <2>3, <2>4, <2>5
  <1>3. CASE saves' # saves
    <2>1. /\ BeginLegacy \/ \E custom \in BOOLEAN : BeginSave(custom)
          /\ saves' = saves + 1
      <3>1. ~WriterStep /\ ~RecoveryStep
        BY <1>3 DEF Rest, WriterStep, StartJob, EarlyCustom, EarlyBackup, EarlyMain, Encode, WriteTemp,
           CheckMarker, Preflight, BackUp, WriteMarker, DropMain, Install, Succeed, RestorePrevious,
           Unmark, CleanUp, RecoveryStep, Recover, RecoverLegacy, PurgeLegacy, StageRecovery,
           InstallRecovery, CleanRecovered, UnmarkRecovered
      <3>2. ~LegacyStep /\ ~RequestRecovery /\ ~Kill /\ ~LosePower /\ ~Quiet /\ ~UNCHANGED vars
        BY <1>3 DEF LegacyStep, LegacyMarker, LegacyPreserve, LegacyAbort, LegacyQuit, LegacyCallback,
           LegacyCollect, LegacyRestore, LegacyUnmark, LegacyDiscard, RequestRecovery, Rest, Kill,
           LosePower, Forget, Quiet, vars
      <3>3. BeginLegacy \/ \E custom \in BOOLEAN : BeginSave(custom)
        BY <3>1, <3>2 DEF Next
      <3> QED BY <3>3, BeginsCount
    <2>2. CASE saves # 0
      BY <1>0, <1>1, <2>1, <2>2 DEF WholeInv
    <2>3. CASE saves = 0 /\ group[0]["scoc"] # Absent
      BY <1>1, <2>3 DEF WholeInv
    <2>4. CASE saves = 0 /\ group[0]["scoc"] = Absent
      <3>1. Pristine /\ SlotInv /\ Remains
        BY <2>4 DEF WholeInv, InCapture
      <3>2. CASE BeginLegacy
        BY <1>1, <2>1, <2>4, <3>1, <3>2, CaptureBegins DEF WholeInv
      <3>3. CASE \E custom \in BOOLEAN : BeginSave(custom)
        <4>1. ~BeginLegacy /\ ~LosePower
          BY <3>3 DEF BeginLegacy, BeginSave, LosePower, Forget, Goto
        <4>2. SlotInv'
          BY <3>1, <4>1, SlotInvNext
        <4>3. Remains'
          BY <1>0, <1>1, <3>1, <3>3, <4>1, RemainsOthers DEF SlotInv
        <4> QED BY <1>1, <2>1, <2>4, <4>2, <4>3 DEF WholeInv
      <3> QED BY <2>1, <3>2, <3>3
    <2> QED BY <2>2, <2>3, <2>4
  <1> QED BY <1>2, <1>3

\* CaptureLeavesNoTrace: over a slot that had no custom file, up to the end of the first
\* save and wherever it is cut short, the files without a marker are together one
\* group, whatever the legacy callback wrote and wherever: its writes never leak into
\* the slot (the restore of save(), recover_legacy_custom_capture).  The hypothesis
\* on power losses is that of SlotStaysAtomic.
THEOREM CaptureLeavesNoTrace ==
  ASSUME PowerRarelyLost
  PROVE  Spec => []WholeWithoutCustom
  <1>1. TypeOK /\ FreshInv /\ WholeInv => WholeWithoutCustom
    <2> SUFFICES ASSUME TypeOK, FreshInv, WholeInv, saves <= 1, group[0]["scoc"] = Absent,
                        marker.state = "missing"
                 PROVE  \E g \in 0..saves : \A c \in Comp : disk[Final(c)] = group[g][c]
      BY DEF WholeWithoutCustom, WholeOnDisk
    <2>0. saves \in Nat /\ 0 \in 0..saves
      BY IdsTyped
    <2>1. CASE InCapture
      <3>1. disk[Final("scoc")] = Absent
        BY <2>1 DEF InCapture, Leaked, OnRecord, Exists
      <3>2. FirstStands
        BY <2>1, <3>1 DEF InCapture, CaptureFiles, FirstStands, Comp
      <3> QED BY <2>0, <3>2 DEF FirstStands
    <2>2. CASE SlotInv /\ Remains
      <3>1. CASE Intact
        <4>1. disk[Main] \in 0..saves
          BY <2>0, <3>1, SaveTransactionAssumption
          DEF Intact, Valid, FreshInv, Ages, MainNames, Main, Gen
        <4>2. Whole
          BY <2>2, <3>1 DEF SlotInv, Atomicity, Guard
        <4> QED BY <4>1, <4>2 DEF Whole
      <3>2. CASE ~Intact
        BY <2>0, <2>2, <3>2 DEF Remains, FirstStands
      <3> QED BY <3>1, <3>2
    <2> QED BY <2>1, <2>2 DEF WholeInv
  <1> QED BY <1>1, WholeInitially, WholeNext, TypeCorrect, FreshAlways, DurableAlways, PTL DEF Spec
=============================================================================
