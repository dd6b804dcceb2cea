-------------------------- MODULE GameUpdateProofs --------------------------
(***************************************************************************)
(* Theorems about GameUpdate, for any files, any releases and any number   *)
(* of failures: an update that ends well has installed its release, one    *)
(* that is rolled back leaves the previous files, and nothing is lost in   *)
(* between.                                                                *)
(***************************************************************************)
EXTENDS GameUpdate, TLAPS

-----------------------------------------------------------------------------
(* The inductive invariant.                                                *)

(* What the game has chosen belongs to the release it was chosen from.     *)
GameInv ==
    /\ session = 0 => svc = "Idle" /\ plan = {}
    /\ plan \subseteq Shipped(published)
    /\ archive # NoArchive => archive.packed \subseteq Shipped(archive.version)

JobInv == upc # "idle" => job \in Archives /\ job.packed \subseteq Shipped(job.version)

(* A maintenance pass belongs to the updater that waits for it, or it is   *)
(* late; none is at work while an updater checks what it wrote.            *)
MaintInv ==
    /\ maint # NoMaintenance => maint.at \in {"running", "late"} /\ maint.version \in Releases
    /\ maint.at = "running" => upc = "maintained" /\ maint.version = job.version
    /\ maint.at = "late" => late
    /\ upc = "sync" => maint = NoMaintenance /\ managed = ManagedBy(job.version)
    /\ outcome = "updated" => maint = NoMaintenance
    /\ outcome \in {"undone", "updated"} => upc = "idle"
    /\ Regenerated \subseteq managed

(* From the snapshot to the end of the updater: it covers all the updater  *)
(* and its maintenance pass write, and what it does not cover is as it was.*)
Phases == {"copy", "maintain", "maintained", "sync", "undo", "restore"}
SnapInv ==
    upc \in Phases =>
        /\ Regenerated \subseteq backup.managed
        /\ Shipped(job.version) \cup Regenerated \subseteq scope
        /\ late \/ managed \subseteq scope
        /\ \A f \in Files : IF f \in scope THEN backup.files[f] = before[f]
                            ELSE late \/ disk[f] \in {before[f], Altered}

(* What the rollback has put back is as it was, the rest of the files it   *)
(* covers is gone.                                                         *)
RestoreInv ==
    /\ upc = "undo" => done = {}
    /\ upc = "restore" /\ ~late =>
           \A f \in scope : IF f \in Present THEN f \in done => disk[f] = before[f]
                            ELSE blocked \/ disk[f] = before[f]

Promises == UpdatedIsRelease /\ FailedIsPrevious /\ PreviousKept
UpdateInv == JobInv /\ MaintInv /\ SnapInv /\ RestoreInv /\ Promises
IInv == TypeOK /\ GameInv /\ UpdateInv

-----------------------------------------------------------------------------
LEMMA Numbers ==
    /\ Absent \in Revisions /\ Altered \in Revisions /\ Original \in Revisions /\ Absent # Altered
    /\ Releases \subseteq 0..Last /\ 0 \notin Releases /\ Altered \notin 0..Last
    /\ 0..Last \subseteq Revisions /\ 1 \in Releases /\ 0 \in 0..Last
BY LastAssumption DEF Absent, Altered, Original, Revisions, Releases

LEMMA Shipments ==
    ASSUME NEW v \in Releases
    PROVE  /\ Shipped(v) \subseteq Files /\ ManagedBy(v) \subseteq Files /\ PatchFiles(v) \subseteq Shipped(v)
           /\ Exe \in Shipped(v) /\ Ships[v][Exe] = v /\ Updater \in Shipped(v)
           /\ Differing(v) \subseteq Shipped(v)
           /\ Regenerated \cap Shipped(v) = {}
           /\ \A f \in Files : Ships[v][f] \in 0..Last
BY FilesAssumption, ShipsAssumption, Numbers DEF Shipped, ManagedBy, PatchFiles, Differing, Absent

LEMMA NoArchiveIsNone == NoArchive \notin Archives
BY Numbers DEF NoArchive, Archives

(* The steps of the game and of the world that touch neither the           *)
(* installation nor the updater.                                           *)
LEMMA UpdaterUntouched == ASSUME UpdateInv, UNCHANGED <<files, updater, maint, late>> PROVE UpdateInv'
BY DEF UpdateInv, files, updater, JobInv, MaintInv, SnapInv, RestoreInv, Promises, UpdatedIsRelease,
   FailedIsPrevious, Previous, PreviousKept, Present

LEMMA FaultCount == ASSUME TypeOK, Fault \/ NoFault PROVE faults' \in 0..MaxFaults
BY BoundAssumption DEF TypeOK, Fault, NoFault

LEMMA InitIInv == ASSUME Init PROVE IInv
<1>1. FileTypes
  BY Numbers, FilesAssumption, ShipsAssumption, Shipments DEF Init, FileTypes
<1>7. GameTypes
  BY Numbers DEF Init, GameTypes, Kinds
<1>8. UpdaterTypes
  BY Numbers DEF Init, UpdaterTypes, NoBackup
<1>9. WorldTypes /\ faults \in 0..MaxFaults
  <2>1. NoMaintenance \in [at : {"none", "running", "late"}, version : 0..Last]
    BY Numbers DEF NoMaintenance
  <2>2. published = 1 /\ held = {} /\ late = FALSE /\ maint = NoMaintenance /\ faults = 0
    BY DEF Init
  <2>3. faults \in 0..MaxFaults
    BY <2>2, BoundAssumption
  <2>4. published \in Releases
    BY <2>2, Numbers
  <2> QED BY <2>1, <2>2, <2>3, <2>4 DEF WorldTypes
<1>2. GameInv
  BY DEF Init, GameInv
<1>3. JobInv /\ SnapInv /\ RestoreInv
  BY DEF Init, JobInv, SnapInv, RestoreInv, Phases
<1>5. MaintInv
  BY DEF Init, MaintInv, NoMaintenance, ManagedBy
<1>6. Promises
  BY DEF Init, Promises, UpdatedIsRelease, FailedIsPrevious, PreviousKept
<1> QED BY <1>1, <1>2, <1>3, <1>5, <1>6, <1>7, <1>8, <1>9 DEF IInv, UpdateInv, TypeOK

-----------------------------------------------------------------------------
(* The game.                                                               *)

LEMMA LaunchKeeps == ASSUME IInv, Launch PROVE IInv'
<1>1. TypeOK'
  <2>1. faults' \in 0..MaxFaults
    BY FaultCount DEF IInv, TypeOK, Launch
  <2>2. GameTypes'
    BY Numbers DEF IInv, TypeOK, GameTypes, Launch
  <2> QED BY <2>1, <2>2 DEF IInv, TypeOK, FileTypes, UpdaterTypes, WorldTypes, Launch, files, updater, world
<1>2. GameInv'
  BY Numbers DEF IInv, GameInv, Launch, world
<1>3. UpdateInv'
  BY UpdaterUntouched DEF IInv, Launch
<1> QED BY <1>1, <1>2, <1>3 DEF IInv

LEMMA CheckAnswersKeeps == ASSUME IInv, CheckAnswers PROVE IInv'
<1>1. svc' \in {"Available", "Current"} /\ session # 0
  BY DEF IInv, GameInv, CheckAnswers
<1>2. payload' \in Kinds /\ plan' \subseteq Shipped(published)
  <2>1. Asset(published) \in Kinds /\ "delta" \in Kinds
    BY DEF Asset, Kinds
  <2>2. Differing(published) \subseteq Shipped(published)
    BY DEF Differing
  <2>3. payload \in Kinds /\ plan \subseteq Shipped(published)
    BY DEF IInv, TypeOK, GameTypes, GameInv
  <2> QED BY <2>1, <2>2, <2>3 DEF CheckAnswers
<1>3. Shipped(published) \subseteq Files
  BY DEF Shipped
<1>4. TypeOK'
  <2>1. FileTypes'
    BY DEF IInv, TypeOK, FileTypes, CheckAnswers, files
  <2>2. GameTypes'
    BY <1>1, <1>2, <1>3 DEF IInv, TypeOK, GameTypes, CheckAnswers
  <2> QED BY <2>1, <2>2 DEF IInv, TypeOK, UpdaterTypes, WorldTypes, CheckAnswers, updater, world
<1>5. GameInv'
  BY <1>1, <1>2 DEF GameInv, CheckAnswers, world, Shipped
<1>6. UpdateInv'
  BY UpdaterUntouched DEF IInv, CheckAnswers
<1> QED BY <1>4, <1>5, <1>6 DEF IInv

LEMMA DownloadedKeeps == ASSUME IInv, Downloaded PROVE IInv'
<1>1. published \in Releases /\ payload \in Kinds /\ session # 0
  BY DEF IInv, TypeOK, WorldTypes, GameTypes, GameInv, Downloaded
<1>2. Packed \subseteq Shipped(published)
  BY <1>1, Shipments DEF IInv, GameInv, Packed
<1>3. Packed \subseteq Files
  BY <1>1, <1>2, Shipments
<1>4. archive' \in Archives /\ archive'.packed = Packed /\ archive'.version = published
  BY <1>1, <1>3 DEF Downloaded, Archives
<1>5. TypeOK'
  <2>1. FileTypes'
    BY <1>4 DEF IInv, TypeOK, FileTypes, Downloaded, files
  <2>2. GameTypes'
    BY DEF IInv, TypeOK, GameTypes, Downloaded
  <2> QED BY <2>1, <2>2 DEF IInv, TypeOK, UpdaterTypes, WorldTypes, Downloaded, updater, world
<1>6. GameInv'
  BY <1>1, <1>2, <1>4 DEF IInv, GameInv, Downloaded, world, Shipped
<1>7. UpdateInv'
  BY UpdaterUntouched DEF IInv, Downloaded
<1> QED BY <1>5, <1>6, <1>7 DEF IInv

(* The steps that only change the state the game shows the player.         *)
LEMMA ServiceKeeps ==
    ASSUME IInv, CheckFails \/ StartDownload \/ DeltaFails \/ DownloadFails \/ CannotApply \/ Dismiss
    PROVE  IInv'
<1>1. Fault \/ NoFault
  BY DEF CheckFails, StartDownload, DeltaFails, DownloadFails, CannotApply, Dismiss, NoFault
<1>2. UNCHANGED <<files, marker, archive, stage, session, applying, updater, world, maint, late>>
  BY DEF CheckFails, StartDownload, DeltaFails, DownloadFails, CannotApply, Dismiss
<1>3. /\ payload' \in Kinds /\ plan' \in {plan, {}} /\ session # 0
      /\ svc' \in {"CheckFailed", "Downloading", "DownloadFailed", "ApplyFailed", "Dismissed"}
  BY DEF IInv, TypeOK, GameTypes, GameInv, Kinds,
         CheckFails, StartDownload, DeltaFails, DownloadFails, CannotApply, Dismiss
<1>4. TypeOK'
  <2>1. faults' \in 0..MaxFaults
    BY <1>1, FaultCount DEF IInv
  <2>2. GameTypes'
    BY <1>2, <1>3 DEF IInv, TypeOK, GameTypes
  <2> QED BY <1>2, <2>1, <2>2 DEF IInv, TypeOK, FileTypes, UpdaterTypes, WorldTypes, files, updater, world
<1>5. GameInv'
  BY <1>2, <1>3 DEF IInv, GameInv, world, Shipped
<1>6. UpdateInv'
  BY <1>2, UpdaterUntouched DEF IInv
<1> QED BY <1>4, <1>5, <1>6 DEF IInv

LEMMA RestartAndApplyKeeps == ASSUME IInv, RestartAndApply PROVE IInv'
<1>1. TypeOK'
  <2>1. GameTypes'
    BY DEF IInv, TypeOK, GameTypes, RestartAndApply
  <2>2. UpdaterTypes'
    BY DEF IInv, TypeOK, FileTypes, UpdaterTypes, RestartAndApply
  <2> QED BY <2>1, <2>2 DEF IInv, TypeOK, FileTypes, WorldTypes, RestartAndApply, files, world
<1>2. GameInv'
  BY DEF IInv, GameInv, RestartAndApply, world, Shipped
<1>3. JobInv'
  BY DEF IInv, TypeOK, FileTypes, GameInv, JobInv, RestartAndApply, Shipped
<1>4. MaintInv'
  BY DEF IInv, UpdateInv, MaintInv, RestartAndApply, files
<1>5. SnapInv' /\ RestoreInv'
  BY DEF SnapInv, RestoreInv, Phases, RestartAndApply
<1>6. Promises'
  BY DEF IInv, UpdateInv, Promises, UpdatedIsRelease, FailedIsPrevious, PreviousKept, RestartAndApply, files
<1> QED BY <1>1, <1>2, <1>3, <1>4, <1>5, <1>6 DEF IInv, UpdateInv

LEMMA QuitKeeps == ASSUME IInv, Quit PROVE IInv'
<1>1. TypeOK'
  <2>1. faults' \in 0..MaxFaults
    BY FaultCount DEF IInv, Quit
  <2>2. GameTypes'
    BY Numbers DEF GameTypes, Quit, Ended, Kinds
  <2> QED BY <2>1, <2>2 DEF IInv, TypeOK, FileTypes, UpdaterTypes, WorldTypes, Quit, files, updater, world
<1>2. GameInv'
  BY DEF IInv, GameInv, Quit, Ended, world, Shipped
<1>3. UpdateInv'
  BY UpdaterUntouched DEF IInv, Quit
<1> QED BY <1>1, <1>2, <1>3 DEF IInv

LEMMA GameKeeps == ASSUME IInv, Game PROVE IInv'
BY LaunchKeeps, CheckAnswersKeeps, ServiceKeeps, DownloadedKeeps, RestartAndApplyKeeps, QuitKeeps DEF Game

-----------------------------------------------------------------------------
(* The updater, until it has taken the snapshot.                           *)

(* What an updater that ends leaves to be shown.                           *)
LEMMA ExitsKeeps ==
    ASSUME IInv, NEW how, Exits(how), how \in {"untouched", "killed"},
           UNCHANGED <<disk, managed, game, archive, backup, before, blocked, world>>,
           marker' \in 0..Last, faults' \in 0..MaxFaults,
           \/ UNCHANGED <<maint, late>> /\ maint.at # "running"
           \/ /\ maint' = IF maint.at = "running" THEN [maint EXCEPT !.at = "late"] ELSE maint
              /\ late' = (late \/ maint.at = "running")
    PROVE  IInv'
<1>1. late' \in BOOLEAN /\ (late => late') /\ (maint'.at = "late" => late')
  BY Zenon DEF IInv, TypeOK, WorldTypes, UpdateInv, MaintInv
<1>2. maint' \in [at : {"none", "running", "late"}, version : 0..Last]
  BY DEF IInv, TypeOK, WorldTypes
<1>3. maint' # NoMaintenance => maint'.at = "late" /\ maint'.version \in Releases
  BY DEF IInv, TypeOK, WorldTypes, UpdateInv, MaintInv, NoMaintenance
<1>4. maint'.at # "running"
  BY DEF IInv, TypeOK, WorldTypes
<1>5. TypeOK'
  <2>1. FileTypes' /\ UpdaterTypes'
    BY DEF IInv, TypeOK, FileTypes, UpdaterTypes, Exits
  <2> QED BY <1>1, <1>2, <2>1 DEF IInv, TypeOK, GameTypes, WorldTypes, game, world
<1>6. GameInv'
  BY DEF IInv, GameInv, game, world, Shipped
<1>7. JobInv' /\ SnapInv' /\ RestoreInv'
  BY DEF Exits, JobInv, SnapInv, RestoreInv, Phases
<1>9. MaintInv'
  BY <1>1, <1>3, <1>4 DEF IInv, UpdateInv, MaintInv, Exits
<1>10. Promises'
  BY <1>1 DEF IInv, UpdateInv, Promises, UpdatedIsRelease, FailedIsPrevious, PreviousKept, Exits
<1> QED BY <1>5, <1>6, <1>7, <1>9, <1>10 DEF IInv, UpdateInv

LEMMA EarlyExitKeeps == ASSUME IInv, ExtractFails \/ VerifyFails \/ CreateBackupFails PROVE IInv'
<1>1. Fault \/ NoFault
  BY DEF ExtractFails, VerifyFails, CreateBackupFails, NoFault
<1>2. faults' \in 0..MaxFaults
  BY <1>1, FaultCount DEF IInv
<1>3. upc \in {"wait", "verify", "backup"} /\ maint.at # "running"
  BY DEF IInv, UpdateInv, MaintInv, ExtractFails, VerifyFails, CreateBackupFails
<1>4. job.version \in Releases /\ Releases \subseteq 0..Last
  BY <1>3, Numbers DEF IInv, UpdateInv, JobInv, Archives
<1>5. marker' \in 0..Last
  BY <1>4 DEF IInv, TypeOK, FileTypes, ExtractFails, VerifyFails, CreateBackupFails, Refuse
<1>6. Exits("untouched") /\ UNCHANGED <<disk, managed, game, archive, backup, before, blocked, world, maint, late>>
  BY DEF ExtractFails, VerifyFails, CreateBackupFails, files
<1> QED BY <1>2, <1>3, <1>5, <1>6, ExitsKeeps

LEMMA KillKeeps == ASSUME IInv, Kill PROVE IInv'
<1>1. faults' \in 0..MaxFaults
  BY FaultCount DEF IInv, Kill
<1>2. marker' \in 0..Last
  BY DEF IInv, TypeOK, FileTypes, Kill
<1> QED BY <1>1, <1>2, ExitsKeeps DEF Kill, files

LEMMA EarlyKeeps == ASSUME IInv, Extract \/ Verify PROVE IInv'
<1> USE DEF Extract, Verify
<1>1. TypeOK'
  <2>1. FileTypes'
    BY DEF IInv, TypeOK, FileTypes, UpdateInv, JobInv, Archives, files
  <2>2. UpdaterTypes'
    BY DEF IInv, TypeOK, UpdaterTypes
  <2> QED BY <2>1, <2>2 DEF IInv, TypeOK, GameTypes, WorldTypes, game, world
<1>2. GameInv'
  BY DEF IInv, GameInv, game, world, Shipped
<1>3. JobInv'
  BY DEF IInv, UpdateInv, JobInv, Shipped
<1>4. MaintInv'
  BY DEF IInv, UpdateInv, MaintInv, files
<1>5. SnapInv' /\ RestoreInv'
  BY DEF SnapInv, RestoreInv, Phases
<1>6. Promises'
  BY DEF IInv, UpdateInv, MaintInv, Promises, UpdatedIsRelease, FailedIsPrevious, PreviousKept, files
<1> QED BY <1>1, <1>2, <1>3, <1>4, <1>5, <1>6 DEF IInv, UpdateInv

LEMMA CreateBackupKeeps == ASSUME IInv, CreateBackup PROVE IInv'
<1> USE DEF CreateBackup
<1>1. job \in Archives /\ job.version \in Releases /\ job.packed \subseteq Shipped(job.version)
  BY DEF IInv, UpdateInv, JobInv, Archives
<1>2. SnapshotScope \subseteq Files
  BY DEF IInv, TypeOK, FileTypes, SnapshotScope, Shipped
<1>3. TypeOK'
  <2>1. backup' \in [files : [Files -> Revisions], managed : SUBSET Files]
    BY Numbers DEF IInv, TypeOK, FileTypes
  <2>2. UpdaterTypes'
    BY <1>2, <2>1 DEF IInv, TypeOK, FileTypes, UpdaterTypes
  <2>3. late' \in BOOLEAN
    BY Zenon
  <2> QED BY <2>2, <2>3 DEF IInv, TypeOK, FileTypes, GameTypes, WorldTypes, files, game, world
<1>4. GameInv'
  BY DEF IInv, GameInv, game, world, Shipped
<1>5. JobInv'
  BY <1>1 DEF JobInv, Shipped
<1>7. MaintInv'
  <2>1. late' <=> maint # NoMaintenance
    BY Zenon
  <2>2. maint.at = "late" => maint # NoMaintenance
    BY DEF NoMaintenance
  <2> QED BY <2>1, <2>2 DEF IInv, UpdateInv, MaintInv, files
<1>8. SnapInv'
  <2>1. scope' = managed \cup Shipped(job.version) /\ backup'.managed = managed /\ before' = disk /\ disk' = disk
    BY DEF SnapshotScope, files
  <2>2. \A f \in Files : f \in scope' => backup'.files[f] = before'[f]
    BY <2>1 DEF SnapshotScope
  <2>3. Regenerated \subseteq managed
    BY DEF IInv, UpdateInv, MaintInv
  <2>4. Regenerated \subseteq backup'.managed /\ Shipped(job.version) \cup Regenerated \subseteq scope'
    BY <2>1, <2>3
  <2>5. managed' \subseteq scope' /\ job' = job
    BY <2>1 DEF files
  <2> QED BY <2>2, <2>1, <2>4, <2>5 DEF SnapInv, Shipped
<1>9. RestoreInv'
  BY DEF RestoreInv
<1>10. Promises'
  BY DEF IInv, UpdateInv, MaintInv, Promises, UpdatedIsRelease, FailedIsPrevious, PreviousKept, files
<1> QED BY <1>3, <1>4, <1>5, <1>7, <1>8, <1>9, <1>10 DEF IInv, UpdateInv

-----------------------------------------------------------------------------
(* A step that changes a file of the installation.  Which of the promises  *)
(* it can break depends on the file: one the snapshot covers may change.   *)
LEMMA FileWritten ==
    ASSUME IInv, upc \in Phases, NEW f \in Files, f \in scope \/ late, NEW r \in Revisions,
           disk' = [disk EXCEPT ![f] = r],
           UNCHANGED <<managed, upc, job, scope, backup, outcome, before, blocked, maint, late>>
    PROVE  /\ disk' \in [Files -> Revisions] /\ JobInv' /\ MaintInv' /\ SnapInv' /\ Promises'
<1>1. disk \in [Files -> Revisions] /\ late \in BOOLEAN
  BY DEF IInv, TypeOK, FileTypes, WorldTypes
<1>2. disk' \in [Files -> Revisions] /\ disk'[f] = r /\ \A g \in Files \ {f} : disk'[g] = disk[g]
  BY <1>1
<1>3. JobInv'
  BY DEF IInv, UpdateInv, JobInv, Shipped
<1>5. MaintInv'
  BY DEF IInv, UpdateInv, MaintInv
<1>6. SnapInv'
  BY <1>2 DEF IInv, UpdateInv, SnapInv, Shipped
<1>7. outcome \notin {"undone", "updated"}
  BY DEF IInv, UpdateInv, MaintInv, Phases
<1>8. PreviousKept'
  <2>1. ASSUME ~late, NEW g \in Files, before[g] # Absent
        PROVE  before[g] = backup.files[g] \/ disk'[g] \in {before[g], Altered}
    BY <1>2, <2>1 DEF IInv, UpdateInv, SnapInv
  <2> QED BY <2>1 DEF PreviousKept
<1> QED BY <1>2, <1>3, <1>5, <1>6, <1>7, <1>8 DEF Promises, UpdatedIsRelease, FailedIsPrevious

(* apply_payload and synchronize_payload put one file in place.            *)
LEMMA InstalledFile ==
    ASSUME IInv, upc \in {"copy", "sync"}, NEW f \in Files, f \in scope,
           NEW r \in Revisions,
           disk' = [disk EXCEPT ![f] = r], done' = done \cup {f},
           UNCHANGED <<managed, marker, archive, stage, game, upc, job, scope, backup, outcome, before, blocked,
                       world, maint, late, faults>>
    PROVE  IInv'
<1>1. disk' \in [Files -> Revisions] /\ JobInv' /\ MaintInv' /\ SnapInv' /\ Promises'
  BY FileWritten DEF Phases
<1>2. TypeOK'
  <2>1. FileTypes' /\ UpdaterTypes'
    BY <1>1 DEF IInv, TypeOK, FileTypes, UpdaterTypes
  <2> QED BY <2>1 DEF IInv, TypeOK, GameTypes, WorldTypes, game, world
<1>3. GameInv'
  BY DEF IInv, GameInv, game, world, Shipped
<1>4. RestoreInv'
  BY DEF RestoreInv
<1> QED BY <1>1, <1>2, <1>3, <1>4 DEF IInv, UpdateInv

LEMMA CopyFileKeeps == ASSUME IInv, NEW f \in Files, CopyFile(f) PROVE IInv'
<1>1. upc = "copy" /\ job.version \in Releases /\ job.packed \subseteq Shipped(job.version) /\ f \in job.packed
  BY DEF IInv, UpdateInv, JobInv, Archives, CopyFile
<1>2. f \in scope
  BY <1>1 DEF IInv, UpdateInv, SnapInv, Phases
<1>3. Ships[job.version][f] \in 0..Last
  BY <1>1, Shipments
<1> QED BY <1>1, <1>2, <1>3, Numbers, InstalledFile DEF CopyFile

LEMMA SyncFileKeeps == ASSUME IInv, NEW f \in Files, SyncFile(f) PROVE IInv'
<1>1. upc = "sync" /\ job.version \in Releases /\ f \in Shipped(job.version)
  BY DEF IInv, UpdateInv, JobInv, Archives, SyncFile, Differing
<1>2. f \in scope
  BY <1>1 DEF IInv, UpdateInv, SnapInv, Phases
<1>3. Source(f) \in Revisions
  <2>1. Ships[job.version][f] \in 0..Last
    BY <1>1, Shipments
  <2>2. backup.files[f] \in Revisions
    BY DEF IInv, TypeOK, UpdaterTypes
  <2> QED BY <2>1, <2>2, Numbers DEF Source
<1> QED BY <1>1, <1>2, <1>3, InstalledFile DEF SyncFile

LEMMA RestoreFileKeeps == ASSUME IInv, NEW f \in Files, RestoreFile(f) PROVE IInv'
<1>1. /\ upc = "restore" /\ f \in scope /\ f \in Present /\ done' = done \cup {f}
      /\ disk' = [disk EXCEPT ![f] = backup.files[f]]
      /\ UNCHANGED <<managed, marker, archive, stage, game, upc, job, scope, backup, outcome, before, blocked,
                     world, maint, late, faults>>
  BY DEF RestoreFile, Present
<1>2. backup.files[f] \in Revisions /\ backup.files[f] = before[f]
  BY <1>1 DEF IInv, TypeOK, UpdaterTypes, UpdateInv, SnapInv, Phases
<1>3. disk' \in [Files -> Revisions] /\ JobInv' /\ MaintInv' /\ SnapInv' /\ Promises'
  BY <1>1, <1>2, FileWritten DEF Phases
<1>4. TypeOK'
  <2>1. FileTypes' /\ UpdaterTypes'
    BY <1>1, <1>3 DEF IInv, TypeOK, FileTypes, UpdaterTypes
  <2> QED BY <1>1, <2>1 DEF IInv, TypeOK, GameTypes, WorldTypes, game, world
<1>5. GameInv'
  BY <1>1 DEF IInv, GameInv, game, world, Shipped
<1>6. RestoreInv'
  <2>1. Present' = Present /\ scope \subseteq Files
    BY <1>1 DEF Present, IInv, TypeOK, UpdaterTypes
  <2>2. disk'[f] = before[f] /\ \A g \in Files \ {f} : disk'[g] = disk[g]
    BY <1>1, <1>2 DEF IInv, TypeOK, FileTypes
  <2> QED BY <1>1, <2>1, <2>2 DEF IInv, UpdateInv, RestoreInv
<1> QED BY <1>3, <1>4, <1>5, <1>6 DEF IInv, UpdateInv

(* The updater gives up and begins to put the snapshot back.               *)
LEMMA UndoKeeps == ASSUME IInv, CopyFails \/ MaintenanceRefused \/ SyncFails PROVE IInv'
<1>1. Fault \/ NoFault
  BY DEF CopyFails, MaintenanceRefused, SyncFails, NoFault
<1>2. faults' \in 0..MaxFaults
  BY <1>1, FaultCount DEF IInv
<1>3. /\ upc \in {"copy", "maintain", "sync"} /\ upc' = "undo" /\ done' = {}
      /\ UNCHANGED <<files, marker, archive, stage, game, job, scope, backup, outcome, before, blocked,
                     world, maint, late>>
  BY DEF CopyFails, MaintenanceRefused, SyncFails, Undo
<1>4. TypeOK'
  <2>1. FileTypes' /\ UpdaterTypes'
    BY <1>3 DEF IInv, TypeOK, FileTypes, UpdaterTypes, files
  <2> QED BY <1>2, <1>3, <2>1 DEF IInv, TypeOK, GameTypes, WorldTypes, game, world
<1>5. GameInv'
  BY <1>3 DEF IInv, GameInv, game, world, Shipped
<1>6. JobInv' /\ MaintInv'
  BY <1>3 DEF IInv, UpdateInv, JobInv, MaintInv, files, Shipped
<1>7. SnapInv' /\ RestoreInv'
  BY <1>3 DEF IInv, UpdateInv, SnapInv, RestoreInv, Phases, files, Shipped
<1>8. Promises'
  BY <1>3 DEF IInv, UpdateInv, MaintInv, Promises, UpdatedIsRelease, FailedIsPrevious, PreviousKept, files
<1> QED BY <1>4, <1>5, <1>6, <1>7, <1>8 DEF IInv, UpdateInv

(* Files the snapshot covers are deleted, as far as nobody holds them.     *)
LEMMA FilesDeleted ==
    ASSUME IInv, upc \in Phases, NEW gone \in SUBSET scope, disk' = Without(gone),
           NEW p \in Phases, upc' = p, p \notin {"maintained", "sync"}, maint.at # "running",
           UNCHANGED <<managed, job, scope, backup, outcome, before, maint, late>>
    PROVE  disk' \in [Files -> Revisions] /\ JobInv' /\ MaintInv' /\ SnapInv' /\ Promises'
<1>1. disk \in [Files -> Revisions] /\ scope \subseteq Files
  BY DEF IInv, TypeOK, FileTypes, UpdaterTypes
<1>2. disk' \in [Files -> Revisions]
  BY <1>1, Numbers DEF Without
<1>3. \A g \in Files : disk'[g] \in {disk[g], Absent} /\ (g \notin scope => disk'[g] = disk[g])
  BY <1>1 DEF Without
<1>4. JobInv'
  BY DEF IInv, UpdateInv, JobInv, Shipped, Phases
<1>6. MaintInv'
  BY DEF IInv, UpdateInv, MaintInv, Phases
<1>7. SnapInv'
  BY <1>3 DEF IInv, UpdateInv, SnapInv, Shipped
<1>8. outcome \notin {"undone", "updated"}
  BY DEF IInv, UpdateInv, MaintInv, Phases
<1>9. PreviousKept'
  <2>1. ASSUME ~late, NEW g \in Files, before[g] # Absent
        PROVE  before[g] = backup.files[g] \/ disk'[g] \in {before[g], Altered}
    BY <1>3, <2>1 DEF IInv, UpdateInv, SnapInv
  <2> QED BY <2>1 DEF PreviousKept
<1> QED BY <1>2, <1>4, <1>6, <1>7, <1>8, <1>9 DEF Promises, UpdatedIsRelease, FailedIsPrevious

LEMMA DropObsoleteKeeps == ASSUME IInv, DropObsolete PROVE IInv'
<1>1. /\ upc = "copy" /\ disk' = Without(scope \ Shipped(job.version)) /\ upc' = "maintain" /\ done' = {}
      /\ UNCHANGED <<managed, marker, archive, stage, game, job, scope, backup, outcome, before, blocked,
                     world, maint, late, faults>>
  BY DEF DropObsolete
<1>2. maint.at # "running"
  BY <1>1 DEF IInv, UpdateInv, MaintInv
<1>3. disk' \in [Files -> Revisions] /\ JobInv' /\ MaintInv' /\ SnapInv' /\ Promises'
  BY <1>1, <1>2, FilesDeleted DEF Phases
<1>4. TypeOK'
  <2>1. FileTypes' /\ UpdaterTypes'
    BY <1>1, <1>3 DEF IInv, TypeOK, FileTypes, UpdaterTypes
  <2> QED BY <1>1, <2>1 DEF IInv, TypeOK, GameTypes, WorldTypes, game, world
<1>5. GameInv'
  BY <1>1 DEF IInv, GameInv, game, world, Shipped
<1>6. RestoreInv'
  BY <1>1 DEF RestoreInv
<1> QED BY <1>3, <1>4, <1>5, <1>6 DEF IInv, UpdateInv

LEMMA DeleteScopeKeeps == ASSUME IInv, DeleteScope PROVE IInv'
<1>1. /\ upc = "undo" /\ disk' = Without(scope) /\ upc' = "restore"
      /\ UNCHANGED <<managed, marker, archive, stage, game, job, scope, backup, done, outcome, before,
                     world, maint, late, faults>>
  BY DEF DeleteScope
<1>2. blocked' \in BOOLEAN /\ (blocked' <=> \E f \in scope \ Present : disk'[f] # Absent)
  BY Zenon DEF DeleteScope
<1>3. maint.at # "running"
  BY <1>1 DEF IInv, UpdateInv, MaintInv
<1>4. disk' \in [Files -> Revisions] /\ JobInv' /\ MaintInv' /\ SnapInv' /\ Promises'
  BY <1>1, <1>3, FilesDeleted DEF Phases
<1>5. TypeOK'
  <2>1. FileTypes' /\ UpdaterTypes'
    BY <1>1, <1>2, <1>4 DEF IInv, TypeOK, FileTypes, UpdaterTypes
  <2> QED BY <1>1, <2>1 DEF IInv, TypeOK, GameTypes, WorldTypes, game, world
<1>6. GameInv'
  BY <1>1 DEF IInv, GameInv, game, world, Shipped
<1>7. RestoreInv'
  <2>1. Present' = Present /\ scope' = scope /\ scope \subseteq Files
    BY <1>1 DEF Present, IInv, TypeOK, UpdaterTypes
  <2>2. \A f \in scope : backup.files[f] = before[f]
    BY <1>1, <2>1 DEF IInv, UpdateInv, SnapInv, Phases
  <2>3. done = {}
    BY <1>1 DEF IInv, UpdateInv, RestoreInv
  <2> QED BY <1>1, <1>2, <2>1, <2>2, <2>3 DEF RestoreInv, Present
<1> QED BY <1>4, <1>5, <1>6, <1>7 DEF IInv, UpdateInv

-----------------------------------------------------------------------------
(* The end of an updater.                                                  *)
LEMMA RestoreStopsKeeps == ASSUME IInv, RestoreStops PROVE IInv'
<1>1. /\ upc = "restore" /\ blocked' = TRUE /\ Exits("undone")
      /\ UNCHANGED <<files, marker, archive, game, backup, before, world, maint, late>>
  BY DEF RestoreStops
<1>2. Fault \/ NoFault
  BY DEF RestoreStops, NoFault
<1>3. faults' \in 0..MaxFaults
  BY <1>2, FaultCount DEF IInv
<1>4. TypeOK'
  <2>1. FileTypes' /\ UpdaterTypes'
    BY <1>1 DEF IInv, TypeOK, FileTypes, UpdaterTypes, Exits, files
  <2> QED BY <1>1, <1>3, <2>1 DEF IInv, TypeOK, GameTypes, WorldTypes, game, world
<1>5. GameInv'
  BY <1>1 DEF IInv, GameInv, game, world, Shipped
<1>6. JobInv' /\ SnapInv' /\ RestoreInv'
  BY <1>1 DEF Exits, JobInv, SnapInv, RestoreInv, Phases
<1>7. MaintInv'
  BY <1>1 DEF IInv, UpdateInv, MaintInv, Exits, files
<1>8. Promises'
  BY <1>1 DEF IInv, UpdateInv, Promises, UpdatedIsRelease, FailedIsPrevious, PreviousKept, Exits, files
<1> QED BY <1>4, <1>5, <1>6, <1>7, <1>8 DEF IInv, UpdateInv

LEMMA RestoredKeeps == ASSUME IInv, Restored PROVE IInv'
<1>1. /\ upc = "restore" /\ Present \subseteq done /\ managed' = backup.managed /\ Exits("undone")
      /\ UNCHANGED <<disk, marker, archive, game, backup, before, blocked, world, maint, late, faults>>
  BY DEF Restored
<1>2. backup.managed \subseteq Files /\ Regenerated \subseteq backup.managed
  BY <1>1 DEF IInv, TypeOK, UpdaterTypes, UpdateInv, SnapInv, Phases
<1>3. TypeOK'
  <2>1. FileTypes' /\ UpdaterTypes'
    BY <1>1, <1>2 DEF IInv, TypeOK, FileTypes, UpdaterTypes, Exits
  <2> QED BY <1>1, <2>1 DEF IInv, TypeOK, GameTypes, WorldTypes, game, world
<1>4. GameInv'
  BY <1>1 DEF IInv, GameInv, game, world, Shipped
<1>5. JobInv' /\ SnapInv' /\ RestoreInv'
  BY <1>1 DEF Exits, JobInv, SnapInv, RestoreInv, Phases
<1>6. MaintInv'
  BY <1>1, <1>2 DEF IInv, UpdateInv, MaintInv, Exits
<1>7. ASSUME ~blocked, ~late PROVE Previous
  <2>1. ASSUME NEW f \in Files PROVE disk[f] \in {before[f], Altered}
    <3>1. CASE f \in scope
      BY <1>1, <1>7, <3>1 DEF IInv, UpdateInv, RestoreInv
    <3>2. CASE f \notin scope
      BY <1>1, <1>7, <3>2 DEF IInv, UpdateInv, SnapInv, Phases
    <3> QED BY <3>1, <3>2
  <2> QED BY <2>1 DEF Previous
<1>8. Promises'
  BY <1>1, <1>7 DEF IInv, UpdateInv, Promises, UpdatedIsRelease, FailedIsPrevious, Previous, PreviousKept, Exits
<1> QED BY <1>3, <1>4, <1>5, <1>6, <1>8 DEF IInv, UpdateInv

LEMMA SynchronizedKeeps == ASSUME IInv, Synchronized PROVE IInv'
<1>1. /\ upc = "sync" /\ Differing(job.version) = {} /\ Exits("updated") /\ marker' = 0
      /\ backup' = NoBackup /\ before' = NoBackup.files
      /\ UNCHANGED <<files, archive, game, blocked, world, maint, late, faults>>
  BY DEF Synchronized, Matches
<1>2. /\ job.version \in Releases /\ maint = NoMaintenance /\ managed = ManagedBy(job.version)
  BY <1>1 DEF IInv, UpdateInv, JobInv, MaintInv, Archives
<1>3. NoBackup.files \in [Files -> Revisions] /\ \A f \in Files : NoBackup.files[f] = Absent
  BY Numbers DEF NoBackup
<1>4. NoBackup \in [files : [Files -> Revisions], managed : SUBSET Files]
  BY Numbers DEF NoBackup
<1>5. TypeOK'
  <2>1. FileTypes' /\ UpdaterTypes'
    BY <1>1, <1>3, <1>4, Numbers DEF IInv, TypeOK, FileTypes, UpdaterTypes, Exits, files
  <2> QED BY <1>1, <2>1 DEF IInv, TypeOK, GameTypes, WorldTypes, game, world
<1>6. GameInv'
  BY <1>1 DEF IInv, GameInv, game, world, Shipped
<1>7. JobInv' /\ SnapInv' /\ RestoreInv'
  BY <1>1 DEF Exits, JobInv, SnapInv, RestoreInv, Phases
<1>9. MaintInv'
  BY <1>1, <1>2 DEF IInv, UpdateInv, MaintInv, Exits, files
<1>10. \A f \in Shipped(job.version) : disk[f] = Ships[job.version][f]
  BY <1>1 DEF Differing
<1>11. disk[Exe] = job.version
  BY <1>2, <1>10, Shipments
<1>12. UpdatedIsRelease'
  BY <1>1, <1>2, <1>10, <1>11 DEF UpdatedIsRelease, Shipped, ManagedBy, files
<1>13. FailedIsPrevious' /\ PreviousKept'
  BY <1>1, <1>3 DEF FailedIsPrevious, PreviousKept, Exits
<1> QED BY <1>5, <1>6, <1>7, <1>9, <1>12, <1>13 DEF IInv, UpdateInv, Promises

LEMMA UpdaterKeeps == ASSUME IInv, UpdaterStep PROVE IInv'
<1>1. ASSUME StartMaintenance PROVE IInv'
  <2>1. /\ upc = "maintain" /\ maint = NoMaintenance /\ upc' = "maintained"
        /\ maint' = [at |-> "running", version |-> job.version]
        /\ UNCHANGED <<files, marker, archive, stage, game, job, scope, backup, done, outcome, before, blocked,
                       world, late, faults>>
    BY <1>1 DEF StartMaintenance
  <2>2. job.version \in Releases
    BY <2>1 DEF IInv, UpdateInv, JobInv, Archives
  <2>3. maint' \in [at : {"none", "running", "late"}, version : 0..Last]
    BY <2>1, <2>2, Numbers
  <2>4. TypeOK'
    <3>1. FileTypes' /\ UpdaterTypes'
      BY <2>1 DEF IInv, TypeOK, FileTypes, UpdaterTypes, files
    <3> QED BY <2>1, <2>3, <3>1 DEF IInv, TypeOK, GameTypes, WorldTypes, game, world
  <2>5. GameInv'
    BY <2>1 DEF IInv, GameInv, game, world, Shipped
  <2>6. JobInv' /\ MaintInv'
    BY <2>1, <2>2 DEF IInv, UpdateInv, JobInv, MaintInv, files, Shipped, Phases
  <2>7. SnapInv' /\ RestoreInv'
    BY <2>1 DEF IInv, UpdateInv, SnapInv, RestoreInv, Phases, files, Shipped
  <2>8. Promises'
    BY <2>1 DEF IInv, UpdateInv, MaintInv, Promises, UpdatedIsRelease, FailedIsPrevious, PreviousKept, files
  <2> QED BY <2>4, <2>5, <2>6, <2>7, <2>8 DEF IInv, UpdateInv
<1> QED BY <1>1, EarlyKeeps, EarlyExitKeeps, CreateBackupKeeps, CopyFileKeeps, SyncFileKeeps, RestoreFileKeeps,
        UndoKeeps, DropObsoleteKeeps, DeleteScopeKeeps, RestoreStopsKeeps, RestoredKeeps, SynchronizedKeeps
     DEF UpdaterStep

-----------------------------------------------------------------------------
(* The maintenance pass.                                                   *)
LEMMA MaintenanceRemovesKeeps == ASSUME IInv, NEW f \in Files, MaintenanceRemoves(f) PROVE IInv'
<1>1. /\ maint # NoMaintenance /\ f \in Shipped(maint.version) /\ disk' = [disk EXCEPT ![f] = Absent] /\ Fault
      /\ UNCHANGED <<managed, marker, archive, stage, game, updater, world, maint, late>>
  BY DEF MaintenanceRemoves
<1>2. late \/ (upc \in Phases /\ f \in scope /\ upc # "restore")
  BY <1>1 DEF IInv, UpdateInv, MaintInv, SnapInv, Phases
<1>3. disk' \in [Files -> Revisions] /\ disk'[f] = Absent /\ \A g \in Files \ {f} : disk'[g] = disk[g]
  BY <1>1, Numbers DEF IInv, TypeOK, FileTypes
<1>4. faults' \in 0..MaxFaults
  BY <1>1, FaultCount DEF IInv
<1>5. TypeOK'
  <2>1. FileTypes'
    BY <1>1, <1>3 DEF IInv, TypeOK, FileTypes
  <2> QED BY <1>1, <1>4, <2>1 DEF IInv, TypeOK, GameTypes, UpdaterTypes, WorldTypes, game, updater, world
<1>6. GameInv'
  BY <1>1 DEF IInv, GameInv, game, world, Shipped
<1>7. JobInv' /\ MaintInv'
  BY <1>1 DEF IInv, UpdateInv, JobInv, MaintInv, updater, Shipped
<1>9. SnapInv' /\ RestoreInv'
  BY <1>1, <1>2, <1>3 DEF IInv, UpdateInv, SnapInv, RestoreInv, updater, Shipped, Present
<1>10. outcome # "updated" /\ (late \/ outcome # "undone")
  BY <1>1, <1>2 DEF IInv, UpdateInv, MaintInv, Phases
<1>11. PreviousKept'
  <2>1. ASSUME ~late, NEW g \in Files, before[g] # Absent
        PROVE  before[g] = backup.files[g] \/ disk'[g] \in {before[g], Altered}
    BY <1>2, <1>3, <2>1 DEF IInv, UpdateInv, SnapInv
  <2> QED BY <1>1, <2>1 DEF PreviousKept, updater
<1>12. UpdatedIsRelease' /\ FailedIsPrevious'
  BY <1>1, <1>10 DEF UpdatedIsRelease, FailedIsPrevious, updater
<1> QED BY <1>5, <1>6, <1>7, <1>9, <1>11, <1>12 DEF IInv, UpdateInv, Promises

(* Whatever part of its work a pass does, it keeps to the files the old     *)
(* list and the uninstaller name.                                          *)
LEMMA WrittenFiles ==
    ASSUME IInv, maint # NoMaintenance, NEW part \in SUBSET Touched, MaintenanceWrites(part),
           managed' \in {managed, ManagedBy(maint.version)}
    PROVE  /\ disk' \in [Files -> Revisions] /\ managed' \subseteq Files /\ Regenerated \subseteq managed'
           /\ \A f \in Files \ (Regenerated \cup managed) : disk'[f] = disk[f]
<1>1. maint.version \in Releases
  BY DEF IInv, UpdateInv, MaintInv
<1>2. disk \in [Files -> Revisions] /\ managed \subseteq Files /\ Regenerated \subseteq managed
  BY DEF IInv, TypeOK, FileTypes, UpdateInv, MaintInv
<1>3. ManagedBy(maint.version) \subseteq Files /\ Regenerated \subseteq ManagedBy(maint.version)
  BY <1>1, Shipments DEF ManagedBy
<1>4. \A f \in Files : Left(f) \in Revisions
  BY Numbers DEF Left
<1>5. \A f \in Files : disk'[f] = IF f \in part THEN Left(f) ELSE disk[f]
  BY DEF MaintenanceWrites
<1>6. disk' \in [Files -> Revisions]
  BY <1>2, <1>4 DEF MaintenanceWrites
<1> QED BY <1>2, <1>3, <1>5, <1>6 DEF Touched

(* A pass the updater waits for ends, with success or with an error.       *)
LEMMA MaintenanceDone ==
    ASSUME IInv, maint.at = "running", upc = "maintained", NEW part \in SUBSET Touched, MaintenanceWrites(part),
           managed' \in {managed, ManagedBy(maint.version)},
           maint' = NoMaintenance, upc' \in {"sync", "undo"}, done' \subseteq Files, faults' \in 0..MaxFaults,
           upc' = "sync" => managed' = ManagedBy(maint.version),
           upc' = "undo" => done' = {},
           UNCHANGED <<marker, archive, stage, game, job, scope, backup, outcome, before, blocked, world, late>>
    PROVE  IInv'
<1>1. maint # NoMaintenance /\ maint.version = job.version
  BY DEF NoMaintenance, IInv, UpdateInv, MaintInv
<1>2. /\ disk' \in [Files -> Revisions] /\ managed' \subseteq Files /\ Regenerated \subseteq managed'
      /\ \A f \in Files \ (Regenerated \cup managed) : disk'[f] = disk[f]
  BY <1>1, WrittenFiles
<1>3. NoMaintenance \in [at : {"none", "running", "late"}, version : 0..Last] /\ NoMaintenance.at = "none"
  BY Numbers DEF NoMaintenance
<1>4. TypeOK'
  <2>1. FileTypes' /\ UpdaterTypes'
    BY <1>2 DEF IInv, TypeOK, FileTypes, UpdaterTypes
  <2> QED BY <1>3, <2>1 DEF IInv, TypeOK, GameTypes, WorldTypes, game, world
<1>5. GameInv'
  BY DEF IInv, GameInv, game, world, Shipped
<1>6. JobInv'
  BY DEF IInv, UpdateInv, JobInv, Shipped
<1>7. outcome \notin {"undone", "updated"}
  BY DEF IInv, UpdateInv, MaintInv
<1>8. MaintInv'
  BY <1>1, <1>2, <1>3, <1>7 DEF MaintInv, ManagedBy, Shipped
<1>9. \A f \in Files \ scope : late \/ disk'[f] = disk[f]
  BY <1>2 DEF IInv, UpdateInv, SnapInv, Phases
<1>10. SnapInv'
  <2>1. late \/ managed' \subseteq scope
    BY <1>1 DEF IInv, UpdateInv, SnapInv, Phases, ManagedBy
  <2> QED BY <1>9, <2>1 DEF IInv, UpdateInv, SnapInv, Phases, Shipped
<1>11. RestoreInv'
  BY DEF RestoreInv
<1>12. PreviousKept'
  <2>1. ASSUME ~late, NEW g \in Files, before[g] # Absent
        PROVE  before[g] = backup.files[g] \/ disk'[g] \in {before[g], Altered}
    BY <1>9, <2>1 DEF IInv, UpdateInv, SnapInv, Phases
  <2> QED BY <2>1 DEF PreviousKept
<1> QED BY <1>4, <1>5, <1>6, <1>7, <1>8, <1>10, <1>11, <1>12
     DEF IInv, UpdateInv, Promises, UpdatedIsRelease, FailedIsPrevious

LEMMA MaintenanceEndsKeeps == ASSUME IInv, MaintenanceEnds PROVE IInv'
<1>1. /\ maint.at = "running" /\ upc = "maintained" /\ MaintenanceWrites(Touched)
      /\ managed' = ManagedBy(maint.version) /\ maint' = NoMaintenance /\ upc' = "sync"
      /\ UNCHANGED <<marker, archive, stage, game, job, scope, backup, done, outcome, before, blocked,
                     world, late, faults>>
  BY DEF MaintenanceEnds
<1>2. done' \subseteq Files /\ faults' \in 0..MaxFaults
  BY <1>1 DEF IInv, TypeOK, UpdaterTypes
<1>3. PICK part : part = Touched
  OBVIOUS
<1> QED BY <1>1, <1>2, <1>3, MaintenanceDone

LEMMA MaintenanceFailsKeeps == ASSUME IInv, MaintenanceFails PROVE IInv'
<1>1. /\ maint.at = "running" /\ upc = "maintained" /\ Fault
      /\ managed' \in {managed, ManagedBy(maint.version)}
      /\ maint' = NoMaintenance /\ upc' = "undo" /\ done' = {}
      /\ UNCHANGED <<marker, archive, stage, game, job, scope, backup, outcome, before, blocked, world, late>>
  BY DEF MaintenanceFails, MaintenancePart, Undo
<1>2. PICK part \in SUBSET Touched : MaintenanceWrites(part)
  BY DEF MaintenanceFails, MaintenancePart
<1>3. faults' \in 0..MaxFaults
  BY <1>1, FaultCount DEF IInv
<1> QED BY <1>1, <1>2, <1>3, MaintenanceDone

LEMMA MaintenanceOutlivesKeeps == ASSUME IInv, MaintenanceOutlives PROVE IInv'
<1>1. /\ maint.at = "running" /\ upc = "maintained" /\ Fault
      /\ maint' = [maint EXCEPT !.at = "late"] /\ late' = TRUE /\ upc' = "undo" /\ done' = {}
      /\ UNCHANGED <<files, marker, archive, stage, game, job, scope, backup, outcome, before, blocked, world>>
  BY DEF MaintenanceOutlives, Undo
<1>2. maint' \in [at : {"none", "running", "late"}, version : 0..Last] /\ maint'.at = "late"
      /\ maint'.version = maint.version
  BY <1>1 DEF IInv, TypeOK, WorldTypes
<1>3. maint # NoMaintenance
  BY <1>1 DEF NoMaintenance
<1>4. faults' \in 0..MaxFaults
  BY <1>1, FaultCount DEF IInv
<1>5. TypeOK'
  <2>1. FileTypes' /\ UpdaterTypes'
    BY <1>1 DEF IInv, TypeOK, FileTypes, UpdaterTypes, files
  <2> QED BY <1>1, <1>2, <1>4, <2>1 DEF IInv, TypeOK, GameTypes, WorldTypes, game, world
<1>6. GameInv'
  BY <1>1 DEF IInv, GameInv, game, world, Shipped
<1>7. JobInv' /\ MaintInv'
  BY <1>1, <1>2, <1>3 DEF IInv, UpdateInv, JobInv, MaintInv, files, Shipped
<1>8. SnapInv' /\ RestoreInv'
  BY <1>1 DEF IInv, UpdateInv, SnapInv, RestoreInv, Phases, files, Shipped
<1>9. Promises'
  BY <1>1 DEF IInv, UpdateInv, MaintInv, Promises, UpdatedIsRelease, FailedIsPrevious, PreviousKept
<1> QED BY <1>5, <1>6, <1>7, <1>8, <1>9 DEF IInv, UpdateInv

LEMMA LateMaintenanceEndsKeeps == ASSUME IInv, LateMaintenanceEnds PROVE IInv'
<1>1. /\ maint.at = "late" /\ maint' = NoMaintenance
      /\ UNCHANGED <<marker, archive, stage, game, updater, world, late, faults>>
  BY DEF LateMaintenanceEnds
<1>2. maint # NoMaintenance /\ late /\ upc # "sync" /\ outcome # "updated"
  BY <1>1 DEF NoMaintenance, IInv, UpdateInv, MaintInv
<1>3. disk' \in [Files -> Revisions] /\ managed' \subseteq Files /\ Regenerated \subseteq managed'
  <2>1. PICK part \in SUBSET Touched : MaintenanceWrites(part)
    BY DEF LateMaintenanceEnds, MaintenancePart
  <2>2. managed' \in {managed, ManagedBy(maint.version)}
    BY DEF LateMaintenanceEnds, MaintenancePart
  <2> QED BY <1>2, <2>1, <2>2, WrittenFiles
<1>4. NoMaintenance \in [at : {"none", "running", "late"}, version : 0..Last] /\ NoMaintenance.at = "none"
  BY Numbers DEF NoMaintenance
<1>5. TypeOK'
  <2>1. FileTypes' /\ UpdaterTypes'
    BY <1>1, <1>3 DEF IInv, TypeOK, FileTypes, UpdaterTypes, updater
  <2> QED BY <1>1, <1>4, <2>1 DEF IInv, TypeOK, GameTypes, WorldTypes, game, world
<1>6. GameInv'
  BY <1>1 DEF IInv, GameInv, game, world, Shipped
<1>7. JobInv'
  BY <1>1, <1>3 DEF IInv, UpdateInv, JobInv, updater, Shipped
<1>8. MaintInv'
  BY <1>1, <1>2, <1>3, <1>4 DEF IInv, UpdateInv, MaintInv, updater
<1>9. SnapInv' /\ RestoreInv'
  BY <1>1, <1>2 DEF IInv, UpdateInv, SnapInv, RestoreInv, updater, Shipped
<1>10. Promises'
  BY <1>1, <1>2 DEF Promises, UpdatedIsRelease, FailedIsPrevious, PreviousKept, updater
<1> QED BY <1>5, <1>6, <1>7, <1>8, <1>9, <1>10 DEF IInv, UpdateInv

-----------------------------------------------------------------------------
(* The new game, and the world.                                            *)
LEMMA FinishUpdateKeeps == ASSUME IInv, FinishUpdate PROVE IInv'
<1>1. disk[Exe] \in Releases
  BY DEF IInv, UpdateInv, Promises, UpdatedIsRelease, FinishUpdate
<1>2. /\ session' = disk[Exe] /\ svc' = "Checking" /\ outcome' = "none" /\ archive' = NoArchive /\ upc = "idle"
      /\ UNCHANGED <<files, marker, stage, payload, plan, applying, upc, job, scope, backup, done, before, blocked,
                     world, maint, late, faults>>
  BY DEF FinishUpdate
<1>3. TypeOK'
  <2>1. FileTypes' /\ UpdaterTypes'
    BY <1>2 DEF IInv, TypeOK, FileTypes, UpdaterTypes, files
  <2>2. GameTypes'
    BY <1>1, <1>2, Numbers DEF IInv, TypeOK, GameTypes
  <2> QED BY <1>2, <2>1, <2>2 DEF IInv, TypeOK, WorldTypes, world
<1>4. GameInv'
  BY <1>1, <1>2, Numbers DEF IInv, GameInv, world, Shipped
<1>5. JobInv' /\ SnapInv' /\ RestoreInv'
  BY <1>2 DEF JobInv, SnapInv, RestoreInv, Phases
<1>6. MaintInv'
  BY <1>2 DEF IInv, UpdateInv, MaintInv, files
<1>7. Promises'
  BY <1>2 DEF IInv, UpdateInv, Promises, UpdatedIsRelease, FailedIsPrevious, PreviousKept, files
<1> QED BY <1>3, <1>4, <1>5, <1>6, <1>7 DEF IInv, UpdateInv

LEMMA AlterKeeps == ASSUME IInv, NEW f \in Files, Alter(f) PROVE IInv'
<1>1. /\ f # Exe /\ upc \notin {"undo", "restore"} /\ Fault /\ disk' = [disk EXCEPT ![f] = Altered]
      /\ outcome' = IF upc = "idle" THEN "none" ELSE outcome
      /\ UNCHANGED <<managed, marker, archive, stage, game, upc, job, scope, backup, done, before, blocked,
                     world, maint, late>>
  BY DEF Alter
<1>2. disk' \in [Files -> Revisions] /\ disk'[f] = Altered /\ \A g \in Files \ {f} : disk'[g] = disk[g]
  BY <1>1, Numbers DEF IInv, TypeOK, FileTypes
<1>3. faults' \in 0..MaxFaults
  BY <1>1, FaultCount DEF IInv
<1>4. outcome' \notin {"undone", "updated"}
  BY <1>1 DEF IInv, UpdateInv, MaintInv
<1>5. TypeOK'
  <2>1. FileTypes' /\ UpdaterTypes'
    BY <1>1, <1>2 DEF IInv, TypeOK, FileTypes, UpdaterTypes
  <2> QED BY <1>1, <1>3, <2>1 DEF IInv, TypeOK, GameTypes, WorldTypes, game, world
<1>6. GameInv'
  BY <1>1 DEF IInv, GameInv, game, world, Shipped
<1>7. JobInv' /\ MaintInv'
  BY <1>1, <1>4 DEF IInv, UpdateInv, JobInv, MaintInv, Shipped
<1>9. SnapInv' /\ RestoreInv'
  BY <1>1, <1>2 DEF IInv, UpdateInv, SnapInv, RestoreInv, Shipped
<1>10. PreviousKept'
  <2>1. ASSUME ~late, NEW g \in Files, before[g] # Absent
        PROVE  before[g] = backup.files[g] \/ disk'[g] \in {before[g], Altered}
    BY <1>2, <2>1 DEF IInv, UpdateInv, Promises, PreviousKept
  <2> QED BY <1>1, <2>1 DEF PreviousKept
<1> QED BY <1>4, <1>5, <1>6, <1>7, <1>9, <1>10 DEF IInv, UpdateInv, Promises, UpdatedIsRelease, FailedIsPrevious

LEMMA WorldKeeps == ASSUME IInv, World PROVE IInv'
<1>1. ASSUME Publish PROVE IInv'
  <2>1. published' \in Releases /\ plan = {}
    BY <1>1, LastAssumption DEF Publish, IInv, TypeOK, WorldTypes, GameInv, Releases
  <2>2. TypeOK'
    BY <1>1, <2>1 DEF IInv, TypeOK, FileTypes, GameTypes, UpdaterTypes, WorldTypes, Publish, files, game, updater
  <2>3. GameInv'
    BY <1>1, <2>1 DEF IInv, GameInv, Publish, game, Shipped
  <2> QED BY <1>1, <2>2, <2>3, UpdaterUntouched DEF IInv, Publish
<1>2. ASSUME Release \/ \E f \in Files : Hold(f) PROVE IInv'
  <2>1. UNCHANGED <<files, marker, archive, stage, game, updater, published, maint, late>>
    BY <1>2 DEF Release, Hold
  <2>2. faults' \in 0..MaxFaults
    BY <1>2, FaultCount DEF IInv, Release, Hold, NoFault
  <2>3. held' \subseteq Files
    BY <1>2 DEF Release, Hold
  <2>4. TypeOK'
    BY <2>1, <2>2, <2>3 DEF IInv, TypeOK, FileTypes, GameTypes, UpdaterTypes, WorldTypes, files, game, updater
  <2>5. GameInv'
    BY <2>1 DEF IInv, GameInv, game, Shipped
  <2> QED BY <2>1, <2>4, <2>5, UpdaterUntouched DEF IInv
<1> QED BY <1>1, <1>2, KillKeeps, AlterKeeps DEF World

LEMMA StepKeeps == ASSUME IInv, [Next]_vars PROVE IInv'
<1>1. CASE Maintenance
  BY <1>1, MaintenanceEndsKeeps, MaintenanceFailsKeeps, MaintenanceOutlivesKeeps, LateMaintenanceEndsKeeps, MaintenanceRemovesKeeps DEF Maintenance
<1>2. CASE UNCHANGED vars
  <2>1. TypeOK'
    BY <1>2 DEF vars, IInv, TypeOK, FileTypes, GameTypes, UpdaterTypes, WorldTypes, files, game, updater, world
  <2>2. GameInv'
    BY <1>2 DEF vars, IInv, GameInv, game, world, Shipped
  <2> QED BY <1>2, <2>1, <2>2, UpdaterUntouched DEF vars, IInv
<1> QED BY <1>1, <1>2, GameKeeps, UpdaterKeeps, FinishUpdateKeeps, WorldKeeps DEF Next

THEOREM Inductive == Spec => []IInv
<1>1. Init => IInv
  BY InitIInv
<1>2. IInv /\ [Next]_vars => IInv'
  BY StepKeeps
<1> QED BY <1>1, <1>2, PTL DEF Spec

-----------------------------------------------------------------------------
(* The types hold for any releases, files and number of failures.          *)
THEOREM TypeCorrect == Spec => []TypeOK
<1>1. IInv => TypeOK
  BY DEF IInv
<1> QED BY <1>1, Inductive, PTL

(* However the files were when the updater came, and whatever the          *)
(* installer removed, an update that ends well has installed its release   *)
(* (DeadAirUpdater.cpp, verify_stage, synchronize_payload).                *)
THEOREM UpdatesInstall == Spec => []UpdatedIsRelease
<1>1. IInv => UpdatedIsRelease
  BY DEF IInv, UpdateInv, Promises
<1> QED BY <1>1, Inductive, PTL

(* A rollback that nobody was in the way of has put back every file the    *)
(* update, its clean-up and its maintenance pass wrote or removed          *)
(* (create_backup, restore_backup).                                        *)
THEOREM RollbacksRestore == Spec => []FailedIsPrevious
<1>1. IInv => FailedIsPrevious
  BY DEF IInv, UpdateInv, Promises
<1> QED BY <1>1, Inductive, PTL

(* At every moment, through deaths of the updater and rollbacks that stop  *)
(* half way, each file of the previous installation is in its place or in  *)
(* the snapshot (create_backup).                                           *)
THEOREM NothingGoesLost == Spec => []PreviousKept
<1>1. IInv => PreviousKept
  BY DEF IInv, UpdateInv, Promises
<1> QED BY <1>1, Inductive, PTL

=============================================================================
