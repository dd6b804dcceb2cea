----------------------------- MODULE GameUpdate -----------------------------
(***************************************************************************)
(* An update of the installed game, from the check in the main menu to the *)
(* restarted game.  Two programs take part: the running game               *)
(* (UpdateService.cpp) chooses what to download, verifies it and hands it  *)
(* over; the updater (DeadAirUpdater.cpp), a copy of itself that lives in  *)
(* the cache, waits for the game to exit, verifies, takes a snapshot,      *)
(* replaces the files one at a time, runs the maintenance installer and    *)
(* checks the result, or puts the snapshot back.                           *)
(*                                                                         *)
(* A file is the number of the release that last changed it: Ships[v][f]   *)
(* is the revision of f release v installs.  The releases are those of one *)
(* major line; the progress bar, the texts, the notice of another major    *)
(* line and the content of the new version (see ContentService) are left   *)
(* out.  One game process runs at a time.                                  *)
(***************************************************************************)
EXTENDS Integers, FiniteSets

CONSTANTS Files,        \* paths the releases and the maintenance pass write
          Exe, Updater, \* xrEngine.exe and DeadAirUpdater.exe
          Mapped,       \* files a running game holds open
          Regenerated,  \* files only the maintenance pass writes (unins000.*)
          Originals,    \* files of the original game, set aside in backup-x86
          Last,         \* the releases are 1 .. Last
          Ships,        \* what each release installs
          Patches,      \* releases that publish Update_Patch.zip
          MaxFaults     \* bound: what goes wrong in a behaviour

Releases == 1..Last
Absent   == 0
Altered  == Last + 1     \* none of the releases' contents
Original == Last + 2     \* the original game's contents

ASSUME LastAssumption  == Last \in Nat \ {0}
ASSUME FilesAssumption == /\ Exe \in Files /\ Updater \in Files
                          /\ Mapped \subseteq Files /\ Regenerated \subseteq Files
                          /\ Originals \subseteq Files
                          /\ Patches \subseteq Releases \ {1}
ASSUME ShipsAssumption ==
    /\ Ships \in [Releases -> [Files -> 0..Last]]
    /\ \A v \in Releases : /\ Ships[v][Exe] = v
                           /\ Ships[v][Updater] # Absent
                           /\ \A f \in Regenerated : Ships[v][f] = Absent
ASSUME BoundAssumption == MaxFaults \in Nat

VARIABLES
    disk,       \* the installation
    managed,    \* .dead-air-x64/managed-files.txt
    marker,     \* .dead-air-x64/patch-rejected.txt, 0 when absent
    archive,    \* what the update cache holds
    published,  \* the newest release on the server
    held,       \* files another program (a scanner) holds open
    session,    \* the version the running game was built as, 0 when none runs
    svc,        \* instance.state
    payload,    \* instance.payload
    plan,       \* instance.delta: the files the delta will carry
    applying,   \* instance.applying: the updater has been started
    upc,        \* where the updater is
    job,        \* the archive it was handed
    stage,      \* the files extracted in the cache
    scope,      \* files the snapshot covers
    backup,     \* the snapshot of them, and of the list of managed files
    done,       \* files copied in the current pass
    maint,      \* the maintenance installer, of the release it belongs to
    outcome,    \* how the last updater ended
    before,     \* history: the installation when that snapshot was taken
    blocked,    \* history: its rollback met a file held open
    late,       \* history: since that snapshot a maintenance pass nobody waits for was at work
    faults      \* what has gone wrong so far

files     == <<disk, managed>>
game      == <<session, svc, payload, plan, applying>>
updater   == <<upc, job, scope, backup, done, outcome, before, blocked>>
world     == <<published, held>>
vars      == <<files, marker, archive, stage, game, updater, world, maint, late, faults>>

Revisions == 0..Last + 2
Kinds     == {"full", "patch", "delta"}
Archives  == [version : Releases, kind : Kinds, packed : SUBSET Files]
NoArchive == [version |-> 0, kind |-> "none", packed |-> {}]
NoMaintenance == [at |-> "none", version |-> 0]
NoBackup  == [files |-> [f \in Files |-> Absent], managed |-> {}]

Shipped(v)    == {f \in Files : Ships[v][f] # Absent}
ManagedBy(v)  == Shipped(v) \cup Regenerated
Differing(v)  == {f \in Shipped(v) : disk[f] # Ships[v][f]}
PatchFiles(v) == {f \in Shipped(v) : Ships[v][f] # Ships[v - 1][f]}
Busy(f)       == f \in held \/ (session # 0 /\ f \in Mapped)

Fault   == faults < MaxFaults /\ faults' = faults + 1
NoFault == UNCHANGED faults

Init ==
    /\ disk = [f \in Files |-> IF f \in Regenerated THEN 1 ELSE Ships[1][f]]
    /\ managed = ManagedBy(1)
    /\ marker = 0 /\ archive = NoArchive /\ stage = {}
    /\ published = 1 /\ held = {}
    /\ session = 0 /\ svc = "Idle" /\ payload = "full" /\ plan = {} /\ applying = FALSE
    /\ upc = "idle" /\ job = NoArchive /\ scope = {} /\ backup = NoBackup /\ done = {}
    /\ outcome = "none" /\ before = [f \in Files |-> Absent] /\ blocked = FALSE
    /\ maint = NoMaintenance /\ late = FALSE /\ faults = 0

-----------------------------------------------------------------------------
(* The game.                                                               *)

Ended == /\ session' = 0 /\ svc' = "Idle" /\ payload' = "full" /\ plan' = {} /\ applying' = FALSE

(* StartCheck: a session of the version its executable was built as, which *)
(* the player may also start while an updater of the last session works.   *)
Launch ==
    /\ session = 0 /\ disk[Exe] \in Releases
    /\ session' = disk[Exe] /\ svc' = "Checking"
    /\ IF upc = "idle" THEN NoFault ELSE Fault
    /\ UNCHANGED <<files, marker, archive, stage, payload, plan, applying, updater, world, maint, late>>

(* select_update: a patch when one was cut against this version and the    *)
(* applier has not refused one for the release.                            *)
Asset(v) == IF v \in Patches /\ session = v - 1 /\ marker # v THEN "patch" ELSE "full"
AssetFiles(v) == IF Asset(v) = "patch" THEN PatchFiles(v) ELSE Shipped(v)

(* The delta replaces the asset when it is readable, smaller and worth it. *)
DeltaChosen(v) ==
    LET bytes == Cardinality(Differing(v))
    IN  /\ marker # v
        /\ 10 * bytes < 9 * Cardinality(Shipped(v))
        /\ bytes < Cardinality(AssetFiles(v))

(* check_worker empties the update cache (a stage in use may survive in    *)
(* part), then compares the newest release with the running version.       *)
CheckAnswers ==
    /\ svc = "Checking"
    /\ archive' = NoArchive
    /\ stage' \in SUBSET stage
    /\ IF published > session
       THEN /\ svc' = "Available"
            /\ \/ payload' = "delta" /\ plan' = Differing(published) /\ DeltaChosen(published)
               \/ payload' = Asset(published) /\ plan' = {}
       ELSE svc' = "Current" /\ UNCHANGED <<payload, plan>>
    /\ UNCHANGED <<files, marker, session, applying, updater, world, maint, late, faults>>

CheckFails ==
    /\ svc = "Checking"
    /\ svc' = "CheckFailed" /\ Fault
    /\ UNCHANGED <<files, marker, archive, stage, session, payload, plan, applying, updater, world, maint, late>>

StartDownload ==
    /\ svc \in {"Available", "DownloadFailed"}
    /\ svc' = "Downloading"
    /\ UNCHANGED <<files, marker, archive, stage, session, payload, plan, applying, updater, world, maint, late, faults>>

Packed == CASE payload = "delta" -> plan
            [] payload = "patch" -> PatchFiles(published)
            [] OTHER             -> Shipped(published)

(* download_worker: the archive is Ready only with the digest it should    *)
(* have; a delta that cannot be built falls back to the whole archive.     *)
Downloaded ==
    /\ svc = "Downloading"
    /\ archive' = [version |-> published, kind |-> payload, packed |-> Packed]
    /\ svc' = "Ready"
    /\ UNCHANGED <<files, marker, stage, session, payload, plan, applying, updater, world, maint, late, faults>>

DeltaFails ==
    /\ svc = "Downloading" /\ payload = "delta"
    /\ payload' = "full" /\ plan' = {}
    /\ UNCHANGED <<files, marker, archive, stage, session, svc, applying, updater, world, maint, late, faults>>

DownloadFails ==
    /\ svc = "Downloading"
    /\ svc' = "DownloadFailed" /\ Fault
    /\ UNCHANGED <<files, marker, archive, stage, session, payload, plan, applying, updater, world, maint, late>>

(* RestartAndApply: the copy of the updater cannot be written over one     *)
(* that runs, and there is none to copy when the file is missing.          *)
RestartAndApply ==
    /\ svc \in {"Ready", "ApplyFailed"} /\ ~applying
    /\ upc = "idle" /\ disk[Updater] # Absent /\ archive # NoArchive
    /\ applying' = TRUE
    /\ upc' = "wait" /\ job' = archive /\ outcome' = "none" /\ blocked' = FALSE
    /\ UNCHANGED <<files, marker, archive, stage, session, svc, payload, plan,
                   scope, backup, done, before, world, maint, late, faults>>

CannotApply ==
    /\ svc \in {"Ready", "ApplyFailed"} /\ ~applying
    /\ svc' = "ApplyFailed"
    /\ IF upc # "idle" \/ disk[Updater] = Absent THEN NoFault ELSE Fault
    /\ UNCHANGED <<files, marker, archive, stage, session, payload, plan, applying, updater, world, maint, late>>

Dismiss ==
    /\ svc \in {"Available", "DownloadFailed", "ApplyFailed"}
    /\ svc' = "Dismissed" /\ Fault
    /\ UNCHANGED <<files, marker, archive, stage, session, payload, plan, applying, updater, world, maint, late>>

(* The game exits: as the updater wants it, at the end of a session that   *)
(* has nothing to offer, or early (Shutdown, a crash).                     *)
Quit ==
    /\ session # 0 /\ Ended
    /\ IF applying \/ svc \in {"Current", "CheckFailed", "Dismissed", "ApplyFailed"} THEN NoFault ELSE Fault
    /\ UNCHANGED <<files, marker, archive, stage, updater, world, maint, late>>

Game == \/ Launch \/ CheckAnswers \/ CheckFails \/ StartDownload \/ Downloaded \/ DeltaFails
        \/ DownloadFails \/ RestartAndApply \/ CannotApply \/ Dismiss \/ Quit

-----------------------------------------------------------------------------
(* The updater.                                                            *)

Exits(how) == /\ upc' = "idle" /\ outcome' = how /\ job' = NoArchive
              /\ scope' = {} /\ done' = {} /\ stage' = {}

IsPatch == job.kind \in {"patch", "delta"}

\* Mutant: the refusal is not recorded.
RefuseQuietly == UNCHANGED marker

(* refuse_patch: the next check takes the whole archive of this release.   *)
Refuse == marker' = job.version

(* wait_for_process, hash_matches, extract_archive.                        *)
Extract ==
    /\ upc = "wait" /\ ~applying /\ archive = job
    /\ stage' = job.packed /\ upc' = "verify"
    /\ UNCHANGED <<files, marker, archive, game, job, scope, backup, done, outcome, before, blocked,
                   world, maint, late, faults>>

(* The archive is gone, or the game does not exit in five minutes, or the  *)
(* archive cannot be extracted.                                            *)
ExtractFails ==
    /\ upc = "wait" /\ Exits("untouched")
    /\ \/ ~applying /\ archive # job /\ NoFault /\ UNCHANGED marker
       \/ applying /\ Fault /\ UNCHANGED marker
       \/ ~applying /\ Fault /\ IF IsPatch THEN Refuse ELSE UNCHANGED marker
    /\ UNCHANGED <<files, archive, game, backup, before, blocked, world, maint, late>>

(* verify_stage: every declared file is in the stage or, for a patch,      *)
(* already in the installation.                                            *)
Verified ==
    /\ job.packed \subseteq stage
    /\ \A f \in Shipped(job.version) \ job.packed : IsPatch /\ disk[f] = Ships[job.version][f]

Verify ==
    /\ upc = "verify" /\ Verified
    /\ upc' = "backup"
    /\ UNCHANGED <<files, marker, archive, stage, game, job, scope, backup, done, outcome, before, blocked,
                   world, maint, late, faults>>

VerifyFails ==
    /\ upc = "verify" /\ ~Verified
    /\ IF IsPatch THEN Refuse ELSE UNCHANGED marker
    /\ Exits("untouched")
    /\ UNCHANGED <<files, archive, game, backup, before, blocked, world, maint, late, faults>>

\* Mutant: the snapshot forgets the incoming files.
ManagedOnly == managed

(* create_backup: the managed files and the incoming ones.                 *)
SnapshotScope == managed \cup Shipped(job.version)

CreateBackup ==
    /\ upc = "backup"
    /\ scope' = SnapshotScope
    /\ backup' = [files |-> [f \in Files |-> IF f \in SnapshotScope THEN disk[f] ELSE Absent], managed |-> managed]
    /\ before' = disk /\ late' = (maint # NoMaintenance)
    /\ upc' = "copy" /\ done' = {}
    /\ UNCHANGED <<files, marker, archive, stage, game, job, outcome, blocked, world, maint, faults>>

CreateBackupFails ==
    /\ upc = "backup" /\ Fault /\ Exits("untouched")
    /\ UNCHANGED <<files, marker, archive, game, backup, before, blocked, world, maint, late>>

(* apply_payload: copy_atomically for each packed file, ...                *)
CopyFile(f) ==
    /\ upc = "copy" /\ f \in job.packed \ done
    /\ f \in stage /\ ~Busy(f)
    /\ disk' = [disk EXCEPT ![f] = Ships[job.version][f]]
    /\ done' = done \cup {f}
    /\ UNCHANGED <<managed, marker, archive, stage, game, upc, job, scope, backup, outcome, before, blocked,
                   world, maint, late, faults>>

Undo == upc' = "undo" /\ done' = {}

CopyFails ==
    /\ upc = "copy"
    /\ \E f \in job.packed \ done : IF f \notin stage \/ Busy(f) THEN NoFault ELSE Fault
    /\ Undo
    /\ UNCHANGED <<files, marker, archive, stage, game, job, scope, backup, outcome, before, blocked,
                   world, maint, late>>

(* ... then the files of the scope the release does not ship are deleted.  *)
Without(gone) == [f \in Files |-> IF f \in gone /\ ~Busy(f) THEN Absent ELSE disk[f]]

DropObsolete ==
    /\ upc = "copy" /\ job.packed \subseteq done
    /\ disk' = Without(scope \ Shipped(job.version))
    /\ upc' = "maintain" /\ done' = {}
    /\ UNCHANGED <<managed, marker, archive, stage, game, job, scope, backup, outcome, before, blocked,
                   world, maint, late, faults>>

(* run_and_wait: the installer refuses to work beside a running game       *)
(* (AppMutex); when it takes longer than five minutes the updater goes on  *)
(* without it.                                                             *)
StartMaintenance ==
    /\ upc = "maintain" /\ maint = NoMaintenance /\ session = 0
    /\ maint' = [at |-> "running", version |-> job.version] /\ upc' = "maintained"
    /\ UNCHANGED <<files, marker, archive, stage, game, job, scope, backup, done, outcome, before, blocked,
                   world, late, faults>>

MaintenanceRefused ==
    /\ upc = "maintain"
    /\ IF session # 0 THEN NoFault ELSE Fault
    /\ Undo
    /\ UNCHANGED <<files, marker, archive, stage, game, job, scope, backup, outcome, before, blocked,
                   world, maint, late>>

(* Inno Setup may remove payload files that are absent from its table.     *)
MaintenanceRemoves(f) ==
    /\ maint # NoMaintenance /\ f \in Shipped(maint.version) /\ disk[f] # Absent /\ ~Busy(f) /\ Fault
    /\ disk' = [disk EXCEPT ![f] = Absent]
    /\ UNCHANGED <<managed, marker, archive, stage, game, updater, world, maint, late>>

(* RemoveObsoleteManagedFiles: what the new list of managed files drops is *)
(* deleted, or is the original game's again; a file held open stays as it  *)
(* is.  The uninstaller's data is written anew.                            *)
Touched  == Regenerated \cup {f \in managed \ ManagedBy(maint.version) : ~Busy(f)}
Left(f)  == IF f \in Regenerated THEN 1 ELSE IF f \in Originals THEN Original ELSE Absent

MaintenanceWrites(part) == disk' = [f \in Files |-> IF f \in part THEN Left(f) ELSE disk[f]]

MaintenanceEnds ==
    /\ maint.at = "running" /\ upc = "maintained"
    /\ MaintenanceWrites(Touched) /\ managed' = ManagedBy(maint.version)
    /\ maint' = NoMaintenance /\ upc' = "sync"
    /\ UNCHANGED <<marker, archive, stage, game, job, scope, backup, done, outcome, before, blocked,
                   world, late, faults>>

(* A pass that exits with an error may have done any part of its work.     *)
MaintenancePart ==
    /\ \E part \in SUBSET Touched : MaintenanceWrites(part)
    /\ managed' \in {managed, ManagedBy(maint.version)}

MaintenanceFails ==
    /\ maint.at = "running" /\ upc = "maintained" /\ Fault
    /\ MaintenancePart
    /\ maint' = NoMaintenance /\ Undo
    /\ UNCHANGED <<marker, archive, stage, game, job, scope, backup, outcome, before, blocked, world, late>>

MaintenanceOutlives ==
    /\ maint.at = "running" /\ upc = "maintained" /\ Fault
    /\ maint' = [maint EXCEPT !.at = "late"] /\ late' = TRUE /\ Undo
    /\ UNCHANGED <<files, marker, archive, stage, game, job, scope, backup, outcome, before, blocked, world>>

LateMaintenanceEnds ==
    /\ maint.at = "late"
    /\ MaintenancePart
    /\ maint' = NoMaintenance
    /\ UNCHANGED <<marker, archive, stage, game, updater, world, late, faults>>

(* synchronize_payload: what the installer removed comes back, a file the  *)
(* patch left out from the snapshot; then everything is read once more.    *)
Source(f) == IF f \in job.packed THEN Ships[job.version][f] ELSE backup.files[f]
HasSource(f) == IF f \in job.packed THEN f \in stage ELSE backup.files[f] # Absent

SyncFile(f) ==
    /\ upc = "sync" /\ f \in Differing(job.version) /\ f \notin done
    /\ HasSource(f) /\ ~Busy(f)
    /\ disk' = [disk EXCEPT ![f] = Source(f)]
    /\ done' = done \cup {f}
    /\ UNCHANGED <<managed, marker, archive, stage, game, upc, job, scope, backup, outcome, before, blocked,
                   world, maint, late, faults>>

\* Mutant: only the packed files are checked.
MatchesPacked == Differing(job.version) \cap job.packed = {}

Matches == Differing(job.version) = {}

SyncFails ==
    /\ upc = "sync"
    /\ \E f \in Differing(job.version) : f \in done \/ ~HasSource(f) \/ Busy(f)
    /\ Undo
    /\ UNCHANGED <<files, marker, archive, stage, game, job, scope, backup, outcome, before, blocked,
                   world, maint, late, faults>>

(* patch-rejected.txt and the snapshot are removed.                        *)
Synchronized ==
    /\ upc = "sync" /\ Matches
    /\ Exits("updated")
    /\ marker' = 0 /\ backup' = NoBackup /\ before' = NoBackup.files
    /\ UNCHANGED <<files, archive, game, blocked, world, maint, late, faults>>

(* restore_backup: the whole scope is deleted, then the snapshot is copied *)
(* back file by file up to the first that fails; the lists come last.      *)
Present == {f \in scope : backup.files[f] # Absent}

DeleteScope ==
    /\ upc = "undo"
    /\ disk' = Without(scope)
    /\ blocked' = \E f \in scope \ Present : disk'[f] # Absent
    /\ upc' = "restore"
    /\ UNCHANGED <<managed, marker, archive, stage, game, job, scope, backup, done, outcome, before, world,
                   maint, late, faults>>

RestoreFile(f) ==
    /\ upc = "restore" /\ f \in Present \ done /\ ~Busy(f)
    /\ disk' = [disk EXCEPT ![f] = backup.files[f]]
    /\ done' = done \cup {f}
    /\ UNCHANGED <<managed, marker, archive, stage, game, upc, job, scope, backup, outcome, before, blocked,
                   world, maint, late, faults>>

RestoreStops ==
    /\ upc = "restore"
    /\ \E f \in Present \ done : IF Busy(f) THEN NoFault ELSE Fault
    /\ blocked' = TRUE /\ Exits("undone")
    /\ UNCHANGED <<files, marker, archive, game, backup, before, world, maint, late>>

Restored ==
    /\ upc = "restore" /\ Present \subseteq done
    /\ managed' = backup.managed
    /\ Exits("undone")
    /\ UNCHANGED <<disk, marker, archive, game, backup, before, blocked, world, maint, late, faults>>

UpdaterStep ==
    \/ Extract \/ ExtractFails \/ Verify \/ VerifyFails \/ CreateBackup \/ CreateBackupFails
    \/ CopyFails \/ DropObsolete \/ StartMaintenance \/ MaintenanceRefused
    \/ SyncFails \/ Synchronized \/ DeleteScope \/ RestoreStops \/ Restored
    \/ \E f \in Files : CopyFile(f) \/ SyncFile(f) \/ RestoreFile(f)

Maintenance == \/ MaintenanceEnds \/ MaintenanceFails \/ MaintenanceOutlives \/ LateMaintenanceEnds
               \/ \E f \in Files : MaintenanceRemoves(f)

(* The finish stage: the cache goes and the game comes back.               *)
FinishUpdate ==
    /\ upc = "idle" /\ outcome = "updated" /\ session = 0
    /\ archive' = NoArchive
    /\ session' = disk[Exe] /\ svc' = "Checking" /\ outcome' = "none"
    /\ UNCHANGED <<files, marker, stage, payload, plan, applying, upc, job, scope, backup, done, before, blocked,
                   world, maint, late, faults>>

-----------------------------------------------------------------------------
(* The world.                                                              *)

(* A release published during a session is found by the next check.        *)
Publish ==
    /\ session = 0 /\ published < Last
    /\ published' = published + 1
    /\ UNCHANGED <<files, marker, archive, stage, game, updater, held, maint, late, faults>>

Alter(f) ==
    /\ disk[f] # Altered /\ f \notin {Exe, Updater} /\ upc \notin {"undo", "restore"} /\ Fault
    /\ disk' = [disk EXCEPT ![f] = Altered]
    /\ outcome' = IF upc = "idle" THEN "none" ELSE outcome
    /\ UNCHANGED <<managed, marker, archive, stage, game, upc, job, scope, backup, done, before, blocked,
                   world, maint, late>>

Hold(f) ==
    /\ held = {} /\ held' = {f} /\ Fault
    /\ UNCHANGED <<files, marker, archive, stage, game, updater, published, maint, late>>

Release ==
    /\ held # {} /\ held' = {}
    /\ UNCHANGED <<files, marker, archive, stage, game, updater, published, maint, late, faults>>

(* A death of the updater.  Nothing looks at the snapshot afterwards.      *)
Kill ==
    /\ upc # "idle" /\ Fault /\ Exits("killed")
    /\ maint' = IF maint.at = "running" THEN [maint EXCEPT !.at = "late"] ELSE maint
    /\ late' = (late \/ maint.at = "running")
    /\ UNCHANGED <<files, marker, archive, game, backup, before, blocked, world>>

World == Publish \/ Release \/ Kill \/ \E f \in Files : Alter(f) \/ Hold(f)

Next == Game \/ UpdaterStep \/ Maintenance \/ FinishUpdate \/ World
(* Once nothing goes wrong any more, the steps of the programs happen, the *)
(* player takes the offer, and starts the game again after each session.   *)
Fairness == /\ WF_vars(Game)
            /\ WF_vars(UpdaterStep \/ MaintenanceEnds \/ FinishUpdate)
            /\ WF_vars(LateMaintenanceEnds)
            /\ WF_vars(Release)

Spec == Init /\ [][Next]_vars
FairSpec == Spec /\ Fairness

-----------------------------------------------------------------------------
FileTypes ==
    /\ disk \in [Files -> Revisions] /\ managed \subseteq Files /\ marker \in 0..Last
    /\ archive \in Archives \cup {NoArchive} /\ stage \subseteq Files
GameTypes ==
    /\ session \in 0..Last /\ payload \in Kinds /\ plan \subseteq Files /\ applying \in BOOLEAN
    /\ svc \in {"Idle", "Checking", "CheckFailed", "Current", "Available", "Downloading", "DownloadFailed",
                "Ready", "ApplyFailed", "Dismissed"}
UpdaterTypes ==
    /\ upc \in {"idle", "wait", "verify", "backup", "copy", "maintain", "maintained", "sync", "undo", "restore"}
    /\ job \in Archives \cup {NoArchive} /\ scope \subseteq Files /\ done \subseteq Files
    /\ backup \in [files : [Files -> Revisions], managed : SUBSET Files]
    /\ before \in [Files -> Revisions] /\ blocked \in BOOLEAN
    /\ outcome \in {"none", "untouched", "undone", "updated", "killed"}
WorldTypes ==
    /\ published \in Releases /\ held \subseteq Files /\ late \in BOOLEAN
    /\ maint \in [at : {"none", "running", "late"}, version : 0..Last]

(* Every variable has its type.                                            *)
TypeOK == FileTypes /\ GameTypes /\ UpdaterTypes /\ WorldTypes /\ faults \in 0..MaxFaults

(* An updater that ends well has installed every file of the release and   *)
(* the list of the files it manages, whatever the installer removed,       *)
(* whatever was changed under its hands and whatever earlier attempts and  *)
(* maintenance passes left.                                                *)
UpdatedIsRelease ==
    outcome = "updated" =>
        \E v \in Releases : /\ disk[Exe] = v /\ managed = ManagedBy(v)
                            /\ \A f \in Shipped(v) : disk[f] = Ships[v][f]

(* A failed update leaves the previous installation, unless the rollback   *)
(* met a file held open or a maintenance pass nobody waits for any more    *)
(* worked beside it.                                                       *)
Previous == \A f \in Files : disk[f] \in {before[f], Altered}
FailedIsPrevious == outcome = "undone" /\ ~blocked /\ ~late => Previous

(* Nothing an update replaces is lost before it has succeeded: each file   *)
(* is in place or in the snapshot, through deaths of the updater and       *)
(* rollbacks that stop half way, unless a maintenance pass nobody waits    *)
(* for any more worked beside it.                                          *)
PreviousKept ==
    late \/ \A f \in Files : before[f] # Absent =>
                before[f] = backup.files[f] \/ disk[f] \in {before[f], Altered}

(* A player who keeps accepting ends with the newest release, through      *)
(* refused patches, interrupted downloads, deaths and rollbacks, as long   *)
(* as the two programs are there to be started.                            *)
Converges == <>[](disk[Exe] = published \/ Absent \in {disk[Exe], disk[Updater]})

(* AUTO_UPDATE.md:212: when applying, the maintenance pass or the check    *)
(* after it fails, the saved snapshot is restored.                         *)
RollbackRestores == outcome = "undone" /\ ~late => Previous
=============================================================================
