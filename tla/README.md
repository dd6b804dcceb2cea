# Dead Air Refined: TLA+ models of saves, content, updates and tasks

TLA+ modules, TLC configurations and TLAPS proofs about the engine's own
concurrent and crash-sensitive logic. Paths are relative to the repository
(`src/` below is the repository's own `src` directory). The models are
translated from the C++ code; the rules that the code is held to are those of
`PROJECT_RULES.md` and `docs/dead-air/*.md`.

## 1. The system

The repository is an X-Ray engine (C++), most of it numerical, rendering or
data-driven code. Seven parts carry logic in which the order of steps of several
actors decides whether the player's data survives or the game goes on.

| Part | State | Operations | Interacts with |
|---|---|---|---|
| **Save transaction** (`src/xrGame/alife_storage_manager.cpp`, `saved_game_wrapper.cpp`, `save_transaction_marker.cpp`) | the files of a slot: `.scop`, `.scoc`, `.scov`, their `.bak` and unique temporaries, the marker `.scop.txn` | commit a group, roll back, legacy Lua capture, recover an interrupted transaction | called by the writer thread; recovery by loading and the save list on the main thread |
| **Save pipeline** (`alife_storage_manager.cpp`, `alife_update_manager.cpp`, `GamePersistent.cpp`, `Level_network.cpp`) | request queue, capture queue, job queue, completions, the slots shared by writer and I/O thread | ask for a save, capture in slices per frame, write, report, wait for pending saves, level change, stop, exit | Lua callbacks, ALife update (suspended by a capture), the transaction |
| **Prepared load** (`saved_game_wrapper.cpp`) | one shared future with its file identity, a replacing flag | begin, consume, validate, evict | the files of the slot, other processes, the pipeline's waits |
| **Content bundles** (`src/xrContentSync`, `ui/ContentService.cpp`, `xrCore/Content/ContentPin.cpp`, `content_commit` of the updater) | bundles on disk, latch, advisory cache, service state, worker thread | verify, download chunks, commit by rename, demote, block play | the game's start-up and main menu, the end of an update |
| **Game update** (`ui/UpdateService.cpp`, `UpdateDelta.cpp`, `packaging/dead-air-x64/installer/DeadAirUpdater.cpp`) | the installation and the list of its files, the downloaded package, the snapshot, service state | check, download, hand over, verify, back up, replace, maintain, roll back | an updater process, the installer, the next start of the game |
| **Mod updates** (`ui/ModUpdateService.cpp`, `xrCore/XMS/xms_core.cpp`) | module folders, a staging folder for each, queues and states of the service, worker thread | check, update, install, remove, apply at start | the Mods window, the console, the next start of the game |
| **Task manager** (`src/xrCore/Threading`) | per-thread ring queues, worker list, sleeping workers | push, pop, steal, wait, pause, unregister, stop | every engine subsystem |

What is hard in each of them:

* transaction: process death and power loss between any two file operations,
  failing operations inside the rollback, recovery that is itself interrupted,
  leftovers of an earlier attempt;
* pipeline: three threads and five condition variables, buffers lent across
  threads, snapshots taken over many frames while the player goes on, waits that
  must drain everything before the disk is read or the level destroyed;
* prepared load: a cached result that is stale by the time it is used, waiting
  outside the lock, a file that is replaced between its decoding and its lease;
* content: advisory data that outlives what it vouches for, partial commits;
* game update: hand-over between processes, files other programs hold open,
  rollback of a half-installed update, a maintenance process that outlives its
  time limit, a death of the updater in the middle;
* mod updates: a staging folder that the worker, the player and the next start of
  the game all write, requests that arrive during a check;
* tasks: lock-free queues, lost wake-ups, a thread that leaves while others wait.

Not modelled at all, and why: save extensions (`.scov`: encoding; its place in a
group of files is in `SaveTransaction`), the rest of the XMS module system (parsing
and layering of data), the event notifier (fired on one thread, with no subscriber
that changes the list from its callback), the script engine and the Lua gameplay (environment of the models), the
ALife simulation, AI, physics, sound, renderers and network server (numerical or
hardware-facing), crash and bug reports (diagnostics), vendored libraries and
offline tools. These are nearly all of the repository's lines: what is mapped is a
small share of them, and most of the code in which steps of several actors meet.
`PROJECT.json` lists every component with its status and every
hazard with the property that covers it, or the reason why none does.

## 2. Modules

| Module | Models |
|---|---|
| `AtomicSlot` | abstract: what one slot promises the player |
| `SaveTransaction` | every file operation of a save job, the legacy capture and recovery |
| `SaveReports` | `SaveTransaction` beside what the player is told: the saves reported as failed |
| `MCSaveTransaction`, `MCSaveReports` | the initial slots for TLC |
| `SaveTransactionProofs` | theorems about `SaveTransaction` and `SaveReports` |
| `SaveQueue` | abstract: snapshots reach the slot in the order they were taken |
| `SavePipeline` | threads, queues and waits around the transaction |
| `SavePipelineProofs` | theorems about `SavePipeline` |
| `ContentService` | the mount gate, verification, repair and commit of the content bundles |
| `ContentServiceProofs` | theorems about `ContentService` |
| `GameUpdate` | an update of the game: the service in the game, the updater process, the maintenance pass |
| `MCGameUpdate` | three releases for TLC |
| `GameUpdateProofs` | theorems about `GameUpdate` |
| `PreparedLoad` | the shared decode of a save, by several threads |
| `MCPreparedLoad` | two names of one save and what the threads ask, for TLC |
| `PreparedLoadProofs` | theorems about `PreparedLoad` |
| `ModUpdates` | checking, staging, removing and applying modules |
| `ModUpdatesProofs` | theorems about `ModUpdates` |
| `TaskFifo` | abstract: a queue of tasks |
| `TaskQueue` | the ring queue of a thread, load by load and store by store |
| `TaskQueueProofs` | theorems about `TaskQueue`, the refinement of `TaskFifo` among them |
| `TaskManager` | pushing, stealing, waiting, sleeping, leaving, on queues of `TaskFifo` |
| `MCTaskManager` | a program of six tasks for TLC |
| `TaskManagerProofs` | theorems about `TaskManager` |

### 2.1 SaveTransaction

One slot. `disk` maps every file name the code can produce (finals, `.bak`,
`.recover.tmp`, temporaries numbered by save id, `.preserved`, the callback's
own temporary) to what it holds: the number of the save whose bytes it has,
`Absent`, or `Torn`. `dirty` is the set of files whose contents were written and
not flushed. Renames and deletes are atomic and persist in order (as on a
journalling file system); a copy or a write is not atomic and may leave the old
file, none, a part, or everything unflushed (`Botch`). `Kill` ends the process:
the file being written may be torn, the cache survives. `LosePower` may also
tear every dirty file. A torn `.scop` is recognised by `valid_saved_game`; a torn
`.scoc` is only noticed where the code compares its signature.

| Code | Actions |
|---|---|
| `execute_save_job` (temporaries, I/O helper's early copies, validation) | `BeginSave`, `StartJob`, `EarlyCustom`, `EarlyBackup`, `EarlyMain`, `Encode`, `WriteTemp` |
| `commit_save_set` | `CheckMarker`, `Preflight`, `BackUp`, `WriteMarker`, `DropMain`, `Install`, `Succeed`, `RestorePrevious`, `Unmark`, `CleanUp` |
| legacy part of `CALifeStorageManager::save` | `BeginLegacy`, `LegacyMarker`, ..., `LegacyDiscard` |
| `recover_interrupted_transaction`, `restore_marked_backup_set`, `finish_new_save_set`, `recover_legacy_custom_capture` | `RequestRecovery`, `Recover`, `RecoverLegacy`, `PurgeLegacy`, `StageRecovery`, `InstallRecovery`, `CleanRecovered`, `UnmarkRecovered` |

The local variables of the code that outlive one step (which files existed,
which backups are durable, who called recovery) are the record `job`. A loop over
the components of a group is one action with `at` as its index. Abstracted: the
contents of the files beyond which save they belong to, the leases on the final
names (a lease that cannot be had is the slow path or a failure), retries of a
busy file (a failure that persists).

`SaveReports` adds to every step the history `failed`: the saves whose failure was
reported, for good. `FailureIsForGood` then speaks of all that follows a report:
recoveries, rollbacks and saves that find what the failed one left behind. One case
is excepted when it is reported (`Unfinished`): a first save that leaves its marker,
because that could not be deleted. If its temporaries could not be deleted either,
`finish_new_save_set` has all it needs to finish the save (section 3).

Bounds: `MaxSaves` saves begun, `MaxFaults` failing operations, `MaxCrashes`
crashes in a behaviour; each is a guard. Two saves are needed for the leftovers
of one to meet the next; two faults for an install and its rollback both to
fail; two crashes for recovery to be interrupted and run again.

### 2.2 SavePipeline

Three threads, each with a step (`main`, `writer`, `io`) and a place to sleep
(`asleep`). A critical section and the notification that follows it are one step:
a notification outside the mutex can only wake a thread later, and a thread that
wakes spuriously (`Spurious`) looks at its condition again.

| Code | Actions |
|---|---|
| `CALifeStorageManager::save` called by a player or script | `RequestSave` |
| `process_async_save_completions`, `wait_for_pending_saves` | `StartFrame`, `Drain`, `Await`, `Report` |
| `process_save_requests` | `ProcessRequests`, `FinishSnapshot` |
| `save` of the state (four Lua interfaces) | `DoSave`, `LegacyAwait`, `LegacyCapture` |
| `process_save_captures`, `advance_save_capture` | `AdvanceCapture`, `LeaveCaptures` |
| callers of the wait: load, `change_level`, `net_Stop`, destructor | `Load`, `ChangeLevel`, `LeaveLevel`, `Stop`, `NetStop`, `Teardown`, `ReadSave`, `NewGame` |
| `AsyncSaveCoordinator::worker_main`, `execute_save_job` | `TakeJob`, `StartJob`, `Publish`, `Finish`, `Commit`, `Complete` |
| `AsyncSaveIoWorker::worker_main` | `TakeRequest`, `Prepare`, `TakeMainTemp`, `WriteMainTemp` |
| the two destructors at exit | `Exit`, `StopWriter`, `StopIo`, `JoinIo` |

`caller` says whose wait is in progress, and with it where `Report` continues. The
two `failed` flags (requests, captures) are read and cleared together and are one
variable. `verdict` and `shown` are history: the outcome of each save, and what
the slot shows. The whole transaction is one step, `Commit`; `SaveTransaction`
shows what is inside it. `Captures` says which Lua interfaces may be found: the
code looks them up at every save, so one behaviour may mix them.

Simplifications, each with its reason: the branches for a missing game level are
unreachable, because the manager dies inside `CLevel::net_Stop` while the level
exists; the last processing of completions inside a wait finds both queues empty;
a request made inside the wait of the manager's own destructor is left out; a
level change reserves two numbers, for its autosave and the second try.
`~AsyncSaveIoWorker` waits for idle, which is a guard of `StopIo` since the writer
has already gone. `MaxSaves` bounds the saves of a behaviour: with three, one can
be written, one captured and one requested at the same time.

Fairness (`FairSpec`): each thread runs if it can (weak fairness; the operating
system schedules it, and the frame loop never stops calling the manager).
`FinishSnapshot` and `AdvanceCapture` are strongly fair: a frame has a budget of
milliseconds and may stop before the work is done, but every slice handles at
least one object, record or script step before it looks at the clock, and nothing
feeds the work of a capture that has begun. The player's own choices
(`PlayerTurn`, `RequestSave`) have no fairness.

### 2.3 ContentService

One installation across many sessions of the game. On disk: what each declared
name holds (`database`: nothing, a wrong size, an unreadable index, a flipped
byte, the bundle), the download cache (`staged`), slots with an obsolete revision
(`stale`), whether `content-incomplete.txt` exists (`latch`), whose entries in
`content-state.txt` fit their file (`vouched`), and the state of the manifest and
of `fsgame.ltx` (`setup`). In memory: the fields of `ServiceState`, what the start
of the process mounted and refused, and one program counter for each thread:
`main`, which leaves `idle` only while it waits in a join, and `worker`. While
`main` is `updater` there is no game, and `worker` is the updater's `content_commit`.

| Code | Actions |
|---|---|
| `ContentPin::Load`, `ShouldMount`, opening of archives | `Boot` |
| `ContentService::Initialize`, `run_initial_pass` | `Initialize`, `InitialPass` |
| `StartVerify`, `ForceVerify`, `StartRepair`, `Shutdown` | the actions of those names, with `...Joined` for what follows the join |
| `verify_worker` | `Hash`, `CancelVerify`, `Record`, `Judge`, `PublishVerdict` |
| `repair_worker` | `MarkRepair`, `Check`, `Fetched`, `Recheck`, `EndRepair`, `PublishRepair` |
| `ContentDownload::Fetch` | `Fetch`, `FetchFails`, `CancelFetch` |
| `ContentCommit::Run` | `Install`, `InstallFails`, `Installed`, `Demote`, `Note`, `Confirm`, `ClearRepair` |
| `prefetch_content` of the update | `Announce` |
| the updater: its new manifest, `content_commit` (`--content-commit`, `UpdateService.cpp:1675`) | `Update`, `Assess`, the actions of `ContentCommit::Run` above, `UpdaterDone` |
| the rest of the world | `Kill`, `Damage`, `Disturb`, `Rot` |

Abstracted: the order of downloads and their chunks (a bundle arrives verified or
the repair fails), free space (a resolve may fail), the retries of a rename (a
failure that persists), the collector of the cache (it spares every declared
file), the parsing of manifests. A resolve is one step: while the game runs, its
one worker is the only writer of the database directory, and while the updater,
which waited for the game's end, is at work, nobody starts the game (`Blank` is the
memory of a new process). What the updater does before `content_commit` is
`GameUpdate`; here an update is the manifest it brings, with a new revision of some
bundles, prefetched or not. `content_commit` may end before it did anything: its
result is only logged. The Setup runs the same commit after it has fetched the
content (`DeadAir-x64.iss:1410`). `evidence`, `forced` and
`announced` are history. A write of the advisory cache may leave the old file or
any part of the new one, and so may a death during it.

Bounds: two bundles, so that one can fail after the other succeeded; one slot the
manifest does not know; `MaxDamage` changes from outside (two: an update and then
damage to what it brought, damage and then an update that revises nothing, or damage
to both bundles); `MaxKills` deaths of the process, be it the game or the updater. Shutting down and starting again is not bounded.

Fairness: the worker, and the main thread behind a join, run if they can. No
server needs to answer (`Network`) and no player to act, so `JoinReturns` says
that cancelling works during a download that never ends.

### 2.4 GameUpdate

One installation, the releases of one major line, and three programs: the game,
the updater (a copy of itself in the cache) and the installer's maintenance pass.
A file is the number of the release that last changed it; `Ships[v]` is what
release `v` installs. `managed` is `managed-files.txt`, `marker` is
`patch-rejected.txt`, `archive` what the cache holds. The updater's locals are
`job`, `stage`, `scope`, `backup` and `done`; `outcome`, `before`, `blocked` and
`late` are history.

| Code | Actions |
|---|---|
| `UpdateService`: check, choice of asset, delta plan | `Launch`, `CheckAnswers`, `CheckFails`, `Asset`, `DeltaChosen` |
| `UpdateService`: download, hand-over, end of the session | `StartDownload`, `Downloaded`, `DeltaFails`, `DownloadFails`, `RestartAndApply`, `CannotApply`, `Dismiss`, `Quit` |
| `DeadAirUpdater`: wait, extract, verify | `Extract`, `ExtractFails`, `Verify`, `VerifyFails` |
| `create_backup`, `apply_payload` | `CreateBackup`, `CreateBackupFails`, `CopyFile`, `CopyFails`, `DropObsolete` |
| the maintenance pass and its time limit | `StartMaintenance`, `MaintenanceRefused`, `MaintenanceRemoves`, `MaintenanceWrites`, `MaintenanceEnds`, `MaintenanceFails`, `MaintenanceOutlives`, `LateMaintenanceEnds` |
| `synchronize_payload` | `SyncFile`, `SyncFails`, `Synchronized` |
| `restore_backup` | `DeleteScope`, `RestoreFile`, `RestoreStops`, `Restored` |
| finish stage and restart | `FinishUpdate` |
| the rest of the world | `Publish`, `Alter`, `Hold`, `Release`, `Kill` |

A maintenance pass puts every file the release no longer manages out of the way: a
file that had taken the place of one of the original game's (`Originals`, kept in
`backup-x86`) gets its old contents back, any other is deleted unless it is held.
A pass that exits with an error, and one the updater has given up on, may have done
any part of that (`MaintenancePart`); after the first the updater rolls back, after
the second it does so beside it.

Bounds: three releases of five files, so that one adds a file, one drops two, one of
them in the place of an original, one has a patch and one a delta worth its while,
and one file is written only by the maintenance pass; `MaxFaults` things that go wrong, two, so that what makes an
update fail can also be in the way of its rollback, or the second attempt fail in
another way. A release is published between sessions only; a session that is
overtaken by one sees it at its next check.

Fairness: the programs run, what another program holds open it lets go, and the
player keeps accepting and starts the game again. This is what `Converges` is
about: whatever went wrong, a player who keeps trying is not refused for ever.

### 2.5 PreparedLoad

Threads that load a save, ask whether it is valid, or begin its decoding in
advance. A file is its path and the number of its contents, a snapshot the
contents it was opened on. `slot` with `slotId` is the shared future and the
identity it is found by; `stale` and `pending` are the futures a call holds, and a
place in `job` is used again once nobody holds it.

| Code | Actions |
|---|---|
| `resolve_save_snapshot` | `ResolveMain`, `ResolveLegacy` |
| `request_prepared_save` | `Enter`, `Launch`, `LaunchThrows`, `Publish` |
| the decode on its own thread | `Decode`, `DecodeFails` |
| `get_prepared_save_with_retry`, `consume_prepared_load`, `valid_saved_game` | `Start`, `Get`, `Deliver`, `Release`, and `NextAttempt` for the retries |
| `evict_prepared_save` | `Evict` |
| other processes, the writer, the player | `Replace`, `Delete` |

`seen`, `mainGone` and `quiet` are history: what a call could have found, whether
the main file was missing at some time, whether anything failed or changed. The
companions of a save are there or not; recovery and the waits a call begins with
are in the modules above. Bounds: two callers and three calls, so that two are in
flight and a third finds what they left; one replacement or deletion; one failure;
two names for one path, because the key of the slot is the path and the answer is
about the name. Callers go on and decodes end (`Fairness`).

### 2.6 TaskQueue, TaskFifo, TaskManager

`TaskQueue` is `push()` and `pop()` of the ring, one step for each load, store and
atomic operation, for one owner and any number of thieves. Memory operations take
effect in program order: on the processors the game runs on (x86-64), the order
the code's acquire and release annotations ask for is the one of the machine; the
counters are taken without their wrap at 2^64. `Room` is what the code relies on
`TASK_STORAGE_SIZE` for and checks nowhere in a release build.

| Code | Actions |
|---|---|
| `TaskQueue::push` | `Reserve`, `Store` |
| `TaskQueue::pop` | `LoadHead`, `LoadSlot`, `TakeFails`, `Take`, `Clear` |

`TaskManager` stands on `TaskFifo`: a pop is a look at the first task and an
exchange that takes it or fails. Every thread has a stack of tasks, because a
thread that waits executes others; `jobs` is the counter a task shares with its
children. `TasksAreAddedOnce` says what the callers see to: a task object is filled
in and added at one place (`r2.h:63`, `ParallelFor.hpp:172-173`), a child only by
its parent while that is executed (the `VERIFY` in `Task.hpp:163`, which a release
build leaves out).

| Code | Actions |
|---|---|
| `AddTask`, `PushTask`, `Wait` | `Add`, `SetNewWork`, `WaitEnds`, `WaitHelps` |
| `Task::operator()` | `Finish` (one counter of the chain of parents a step) |
| `ExecuteOneTask`, `TryToSteal` | `Peek`, `TakeFails`, `Take`, `PassOn`, `NothingFound` |
| `TaskWorkerStart`, `SetThreadStatus` | `Register`, `SetActive`, `Loop`, `Wake`, `DrainOn` |
| `UnregisterThisThreadAsWorker` | `Pause`, `SeeNobodyActive`, `Erase` |
| window focus, destructor | `Focus`, `Stop`, `Settle` |

Left out: results and statistics of tasks, the allocator, tasks nobody waits for,
and the number a worker that was erased from the list keeps (the list is a set of
threads). Since every task is waited for, a worker told to leave finds its queue
empty: `ListIsQuiet` is about workers in their loop, not about one that still
executes, or waits for, a task while it drains its queue. Bounds: three poppers, a ring of four and six pushes, so that the ring
wraps while a stopped thread has a slot to clear; the primary thread, two workers
and six tasks, among them a loop that splits and a task that waits for its own.
Fairness: threads run; the weak exchange does not fail for no reason for ever; the
window's focus changes as it likes.

### 2.7 ModUpdates

Modules from the Mods window to the next start. On disk, for each module: its
folder, and in `.staged\<id>` the `payload`, the parked `previous` version and the
action in `ready.ltx` (`ready`); a folder is a version and which of its files are
there. `main` is the main thread, which starts the game, plays and leaves it;
`status`, `queue`, `installs`, `check`, `asked` and `askedAll` are the service;
`worker` is its thread.

| Code | Actions |
|---|---|
| `apply_staged_updates`, `apply_staged` | `Boot`, `ApplyRemoval`, `ApplyInstall`, `RefuseUpdate`, `ForgetUpdate`, `Park`, `MoveIn`, `Disarm`, `Clean` |
| discovery, `mod_initialize` | `Discover` |
| `StartCheck`, `StartUpdate`, `StartUpdateAll`, `RequestUpdate`, `StartInstall`, `CatalogRefreshed`, `CancelRemoval`, `Shutdown` | the actions of those names |
| `StageRemoval` | `StageRemoval`, `ArmRemoval` |
| `mod_worker`, `mod_queue_requests` | `Pick`, `QueueRequests` |
| `mod_run_check` | `Sweep`, `CheckNext`, `CheckAnswer`, `Offer`, `Refuse` |
| `mod_run_update`, `mod_run_install`, `mod_stage` | `Describe`, `Accept`, `Prepare`, `Place`, `BuildFails`, `Verify`, `Arm`, `Report`, `Undo` |
| the rest of the world | `Publish`, `Exit`, `Kill` |

Removing a folder is not atomic: it may be cut short or pass over a file
(`Remains`), in any order of its parts. Abstracted: which files are carried over
and which downloaded, the catalog's download and signatures (a release is taken or
refused), modules installed by hand, a version published again (both only decide
what is on offer), the question whether to restart, two games at once, power cuts and
a full disk (`write_ready` asks `ferror` before `fclose` has flushed and may take an
incomplete `ready.ltx` for a whole one; the death of the game is that of its
process). The service has its states from the start of the game; the code makes them
at the first use.

Bounds: one installed module and one to install, of two releases with two files
(`mod.ltx`, which decides whether a folder is a module, and another); two requests
of the player, so that one meets the other on its way, or an installation what an
earlier update left; one death of the game; one failing operation (a folder in use
may hold up both renames of an update). Starting, playing and quitting are not
bounded. Fairness: the worker, a removal begun and the exit go on; nobody has to
play or to press anything.

## 3. Runs

| Run | Bounds | Shows |
|---|---|---|
| `save_power` | 2 saves, 1 fault, 1 crash of either kind, all initial slots | the slot is atomic (refines `AtomicSlot`), reported success is durable, recovery never goes back |
| `save_kill` | 2 saves, 2 faults, 2 process deaths, all initial slots | atomic without power loss too, and: an overwrite always stays recoverable, a marker is not removed while it guards damage, a save reported as failed never becomes what the slot shows |
| `legacy` | 2 legacy captures, 1 fault, 1 crash of either kind | reported success is durable on this path too; over a slot without a custom file the callback leaks nothing |
| `pipeline` | 3 saves, both Lua interfaces, fair threads | quiet disk, handshake, lent buffers, one capture at a time, level change only with its save, order (refines `SaveQueue`), every save gets an outcome, the world resumes, exit completes |
| `content_bundles` | 2 bundles, 1 unknown slot, 2 updates or changes from outside, 1 death of the game or the updater | verdicts and advisory cache are true, the latch goes on evidence (but for the updater with nothing to commit, below), only mounted installations are played, a worker can always be stopped |
| `game_update` | 3 releases, 5 files, 2 things that go wrong | an update that ends well is the release, one that fails is what was there before, nothing is lost meanwhile, a player who keeps trying arrives |
| `prepared_load` | 2 threads, 3 calls, 1 write, 1 failure, two names | answers are about contents the name had, no fallback to an older save, leases hold, quiet calls succeed, calls return |
| `mod_updates` | 2 modules, 2 releases, 2 requests, 1 process death, 1 failure | no module the player has gets lost, console requests are answered, what is queued comes to an end |
| `task_queue` | 3 poppers, ring of 4, 6 pushes | the ring implements the queue (refines `TaskFifo`), every task leaves it |
| `task_manager` | 3 threads, 6 tasks | a finished task is over with its children, nobody walks a changing list, the program ends |
| `legacy_crash_loses_custom` | 1 save, 1 process death | *violated* `WholeOnDisk` |
| `rollback_stops` | 3 releases, 1 thing that goes wrong | *violated* `RollbackRestores` |

The last two are disagreements between the code and its documents:

1. **A crash during the legacy capture loses the custom file.** `save()` writes a
   marker, then copies `.scoc` to `.preserved` under its final name. Killed during
   the copy, recovery moves the partial `.preserved` over the intact `.scoc`.
   (`PROJECT_RULES.md:220`: the previous save file pair must survive any failure.)
2. **A rollback stops at the file that made the update fail.** `restore_backup`
   deletes the files it covers and then copies the snapshot back up to the first
   copy that fails; the file another program holds open is held still, and what
   comes after it stays deleted. (`AUTO_UPDATE.md:212`: the saved snapshot is
   restored.) The next start asks for an update again, which is why `Converges`
   holds as long as the programs themselves are there.

Others were met while the models were written and have no run of their own:

* Recovery of a legacy capture can go back a generation: one failing rename makes
  it fall through to the rebuild from `.bak` files of an older transaction. A
  legacy capture after an incomplete rollback replaces the marker that still guards
  the damage (`alife_storage_manager.cpp:2004`). This is why `legacy` checks less
  than the others and `NeverGoesBack` has a hypothesis.
* A rollback that was killed before its flush is accepted: recovery sees a valid
  main file, removes the marker and never flushes; a power loss then loses the
  save although the backup is complete. This is why `save_kill` has no power loss.
* A first save can block its slot: its rollback deletes companions whose
  temporaries are already consumed; if the process ends before the marker is
  removed, neither finishing nor restoring is possible. `Recoverable` therefore
  speaks of overwrites.
* A forced verification opens the gate of a session that never mounted what a
  repair installed (`ContentService.cpp:582`; line 707 says that `Repaired` blocks
  because the filesystem was indexed without the bundles). `PlayNeedsMounted`
  therefore excepts sessions with a forced verification. A repair may also target
  a mounted bundle, whose rename cannot succeed.
* The updater clears the latch without evidence. `content_commit` resolves by sizes
  alone, and if that leaves nothing to commit, it removes the latch
  (`DeadAirUpdater.cpp:1136-1148`); `ContentCommit.cpp:167-171` hashes everything
  first, for "clearing it on that word would be clearing it on no evidence". A bundle
  damaged in place is found by the verification, which latches; an update that
  revises no bundle and comes before the repair takes the latch away, and the next
  start plays while it verifies. `LatchClearedOnEvidence` therefore excepts this one
  step, an updater that finds nothing to commit, and no other.
* A first save that was reported as failed can still appear: if neither
  its marker nor its temporaries could be deleted, recovery finishes it (`Unfinished`
  in `SaveReports`; without that exception TLC finds it with four failing
  operations).
* A maintenance pass the updater has given up on after five minutes goes on writing
  beside the rollback (`DeadAirUpdater.cpp:833`, `1298`). What it deletes after it was
  restored stays deleted, so `FailedIsPrevious` and `PreviousKept` except what
  follows (`late`). They do cover a pass that fails half way.
* The ring's `VERIFY2` is off by one and counts from the head, not from a slot a
  stopped thread has yet to clear. With what it asks (`RingNotFull`, the mutant of
  `EveryTaskLeaves`) instead of `Room`, a pushed task need not come out. `Room`
  shuts a lapped ring out of every behaviour: `ImplementsFifo` is about the order of
  loads and stores and could not notice one.
* Staging the removal of a module deletes the staged payload while `ready.ltx`
  still announces the update (`xms_core.cpp:1474`). Killed in between, with
  `mod.ltx` still there, the next start swaps the incomplete module in and deletes
  the old one. The same can happen when a staging folder that is armed is emptied
  for another reason (an installation over a version that is still parked, a second
  update).
* `StageRemoval` asks whether the module is queued, not whether the worker is
  staging it; the window does not offer it then, the console does. What the worker
  goes on to do may replace the removal, or arm a payload whose files are gone.
* During `mod_run_update` the module shows as on offer for a moment
  (`mod_evaluate`): a second request then queues it twice, and the second run
  empties the staging folder that the first has armed.
* "Update all" after "Remove" drops the removal without a word: staging an update
  begins by emptying the staging folder.

`NeverNeither` therefore excepts the modules somebody removed, updated again or
installed anew while they were staged or parked (`meddled`), until a start finds
them whole again.

Deadlock is checked in every run but those of `GameUpdate`, `PreparedLoad` and
`TaskManager`, which end when the releases, the calls or the program are through:
in the others there is always something that may happen (`Quiet` and `Ended` of
the save modules are the only states in which nothing more need happen; an
installation can always be started). Every property of a passing run has a
mutant in `PROJECT.json`: a change to one definition, in the way a plausible bug
would change the code, under which TLC finds the property violated. The broken
variants stand beside the definitions they replace and are used by nothing else.
The type invariants are not checked by runs where they are proved (section 4).

## 4. Proofs

Eight modules (`...Proofs`) hold theorems for every value of the constants that
satisfies the named assumptions (`MaxSaves` a natural number, `Absent`, `Torn` and
`None` no generations, `Exe` in every release, and so on; where a theorem needs more,
its item says so). Every property is proved
from an inductive invariant that TLC checked first.

* `SaveTransactionProofs!TypeCorrect`: `Spec => []TypeOK`. One lemma for each part
  of the invariant (files, step, counters, marker and job), one step for each
  action.
* `SaveTransactionProofs!NeverGoesBack`: when scripts never take the legacy path,
  `Spec => RecoveryKeepsMain`. Inductive invariant `RebuildsOnlyDamage`: a rebuild
  is in progress only while the main file is not valid, and no legacy step or
  marker exists. It is needed because the property constrains steps taken long
  after the decision to rebuild; it holds because the main file is the last one a
  rebuild installs. Without the hypothesis the legacy recovery of section 3 is the
  counterexample.
* `FailuresStayFailed`: `ReportsSpec => []FailureIsForGood`, for every kind of crash,
  capture and failure (`save_kill` checks it for captures in memory; for legacy
  captures TLC found it to hold at the bounds of `legacy`, and it is proved). By `FreshInv` nothing of a save is under a final name before
  it is done: `IdsOK` says that a job meets only markers of older saves, `Ages` that
  no main file, backup or staged copy is younger than the last save begun, `Fresh`
  that none of them is the save in progress. What must hold for ever after is
  `Forgone`, one conjunct for each failed save: no name that a main file is rebuilt
  from or rolled back to holds it, and a marker that would have its temporaries
  finished is not its own (`Gone`). A failed save's temporaries may well stay on
  disk, so the names alone would not be inductive.
* `DoneIsDurable`: by `Durable`, which follows the bytes of a save from its
  temporaries (`Temped`), which the commit flushes (`Synced`), through the renames to
  the finals (`Landing`). Both hold for every kind of crash, capture and failure.
* `SlotStaysAtomic` (the refinement of `AtomicSlot`), `NeverStuck` and
  `DamageStaysMarked`: by `SlotInv`. In it `Guard` says that a damaged slot has a
  marker and the backups the marker names; `Copied`, `Committed` and `Rebuilding` say
  for each step of the commit, of its rollback and of a recovery which files hold
  which save, and so why the next rename keeps `Guard`; `Settled` says that whatever
  these rely on is flushed. One hypothesis is that scripts do not take the legacy
  path (section 3 shows what that path does). The other, `PowerRarelyLost`, bounds
  only the instances that lose power (process deaths and failing operations alone
  are unbounded): there, either no file operation fails, or at most one does and
  the power loss is the only crash. `Settled` then holds whenever power is lost:
  always in the first case, and in the second while nothing has crashed, for which
  `Unharmed` says that no recovery is rebuilding anything, that a marked slot is
  damaged only inside a commit, and that a rollback has used up the one failure. The
  hypothesis covers the run `save_power` (one of each), and it is where the
  property ends: a rollback or a recovery one of whose copies fails may leave the
  main file unflushed, a later recovery finds it valid and drops the marker, and a
  power loss then tears it. TLC finds this both with two failing operations and one
  power loss, and with one failing operation, a process death in the middle of the
  rollback and a power loss.
* `CaptureLeavesNoTrace`, with the legacy path and under `PowerRarelyLost`: by
  `WholeInv`. Up to the end of the first save, the slot is either inside a capture or
  its recovery (`InCapture`) or in a state of `SlotInv`, which asks only that no
  legacy capture is under way (`Calm`) and survives every step but the beginning of
  one. `InCapture` says which of the slot's files the callback cannot reach
  (`CaptureFiles`), that its data is under a final name only while a flushed legacy
  marker is on record that names no custom file (`Leaked`), and that what is handed
  to the commit is what the callback meant (`Handing`). Before the save nothing is in
  flight (`Pristine`), and after the capture `Remains` follows the files the slot had:
  while no main file is valid and no marker says why, they are untouched, and a
  commit that found no main file has backed up all there was.
* `SavePipelineProofs!TypeCorrect`: `Spec => []TypeOK`, by `LineInv`, which adds to
  the types which save the main thread is dealing with (`SubjectKnown`) and that
  the writer has an active job exactly while it works (`Working`).
* `SavePipelineProofs!Handshake` and `BuffersLive`: by `HandshakeInv`, which says
  for each step of the writer what the shared slots and the I/O thread may look
  like (idle, asked, begun, written, ready). The properties speak of single steps
  of the writer; the invariant has to carry the job through all of them.
* `SavePipelineProofs!QuietDisk` and `OneCapture`: by `QuietInv`, built on
  `HandshakeInv` (an I/O thread is busy only for the active job), which says that
  after a wait the queues stay empty until the main thread takes its next frame,
  and that a save begins only with no capture under way.
* `SavePipelineProofs!Moved`: by `AutoInv`: from `save()` to the report, the autosave
  of a level change is in the line, reported, or a flag says that it failed.
* `SavePipelineProofs!SnapshotsInOrder`, the refinement of `SaveQueue`: by `Numbers`:
  what is asked for, what is in the line and what is kept for an autosave and its
  second try are different saves. Every step maps to a snapshot, a commit, a failure
  or a stutter.
* `ContentServiceProofs!TypeCorrect`: in two halves, the Boolean variables and the
  others.
* `CacheNeverLies`, `VerdictsAreTrue`, `ClearedOnEvidence`, `InstalledIsGood` and
  `RevisionsOverlap`: by `Knowledge`, which says for each step of the worker, the
  game's or the updater's, what it has established (what a plan does not list has the
  right size, what was hashed or installed is good, a verdict on its way out is true,
  and a commit about to clear the latch has found everything good). It is needed because each of these
  properties speaks of a step that relies on a look at the disk several steps
  before.
* `LatchHolds` and `NobodyLeftWaiting`: by `Progress`, the published state against
  the worker's step. `OnlyMountedPlayed`: by `Session` on top of it, which carries
  what the mount gate decided from the start of the process to the initial pass,
  and what that pass found to every state that opens the gate.
* `GameUpdateProofs!UpdatesInstall`, `RollbacksRestore` and `NothingGoesLost`: by
  `UpdateInv`, whose heart is `SnapInv`: from the snapshot to the end of the updater
  the snapshot covers everything the updater and its maintenance pass write (the
  files of the managed list, which the pass may delete, included), so that a pass may
  fail after any part of its work; what it covers is in it as it was, and what it does not cover is still as it was. The three
  properties speak of the end of an update or of a rollback that starts anywhere
  in between; `MaintInv` says which maintenance pass may be at work beside them (the
  one the updater waits for, or one that outlived its limit, after which nothing is
  promised), `RestoreInv` what the rollback has already put back.
* `PreparedLoadProofs!Freshness`, `NoEarlyFallback`, `LeasesHold` and
  `ReplacementsExclude`: by one invariant for each call. `Watched` says that the
  history of a call covers what is on disk now, `Asked` that the identity it holds,
  in whichever step, is one it found itself, `Leased` that a lease on the answer
  stands for the file's contents. The identity has to be followed through the
  shared slot, the publication of another caller and the reuse of a decode's place
  (`LiveJobs`), because a caller may be handed the work of another one.
* `PreparedLoadProofs!QuietCalls`: by `QuietInv`. A quiet call may still find a decode
  that failed, or that was made for another name, before it began; the invariant says
  that this happens only at its first attempt, which evicts what it found, and that
  every other decode in the slot, or on its way there, is of use to it
  (`Undisturbed`, `OfUse`).
* `TaskQueueProofs!TasksOnce`, `TasksKept` and `QueueIsFifo`: by `Counters`,
  `Threads` and `Ring`: the ring holds the tasks of the live positions and nothing
  else, where a position is live until the thread that took it has cleared its
  slot; positions less than a round apart have different slots (`SlotsApart`).
  `QueueIsFifo` is the refinement: initial states map to the empty queue, and each
  step to a push, a pop or a stutter. What it assumes is `Room`, a guard of the
  model that the code leaves to its caller.
* `TaskManagerProofs!ListStaysQuiet`: by `Control`: where every other thread may be
  while one takes itself off the list.
* `TaskManagerProofs!FinishedStaysOver`: by `TaskInv`. A task is at one place: not yet
  added, once in one queue, with the one thread that took it, or in one frame of one
  stack (`Unborn`, `Queued`, `Taken`, `Executed`). A task and its children are finished
  by different threads, each on its way up from a child at some other moment, so
  `Counted` says that the counter is the number of those that still owe a decrement
  (`Owed`: the body, unfinished children, threads on their way up).
  `TaskManagerProofs!TypeCorrect` follows from it: no counter goes below zero.
* `ModUpdatesProofs!ModulesAreKept`: by `IInv`. That a module is in place or parked
  says nothing about the step that moves its successor in, so the invariant follows
  an update from the answer of the repository to the clean-up after the swap: what
  is built covers the files not left to do (`Built`), what is armed is whole and no
  older than what it replaces (`Staged`), a parked module has its successor armed,
  and the staging folder is emptied only when the module is in place (`StartInv`).
  None of this would survive a second update of the same module, so `InLine` says a
  module stands once in the worker's queue and not while it is worked on, and
  `LeftAlone` that an armed one gets neither a new update nor a new offer. Modules
  in `meddled`, which only the next clean start leaves, are excepted: for them the
  code makes no such promise.
* `ModUpdatesProofs!RequestsGetAnswered`: from `IInv` and `Answering`: while no new
  check is wanted, every module still unchecked is ahead of the worker, and the one
  being checked is the one it waits for.

Some theorems state a property no run checks: the type invariants, and
`EntersByRename`, `AddBeforeDelete`, `LatchBlocksPlay`, `IdleIsSettled`,
`OneReplacer`, `DeliveredOnce`, `NothingLost` of `TaskQueue`. TLC found them to hold
before they were proved; their runs were given to properties that no proof covers.

Model-checked only, because they are beyond the prover: liveness (`JoinReturns`,
`EverySaveSettles`, `WorldResumes`, `ExitCompletes`, `Converges`, `CallsReturn`,
`QueueSettles`, `EveryTaskLeaves`, `ProgramEnds`). Every invariant and every action
property of a passing run has a theorem, and so has every refinement.

## 5. Plan

In order of what matters most to a player; all parts of the table in section 1
have a module.

1. `GameUpdate` and `ContentService` composed at the hand-over: today the content
   commit is in the latter and everything before it in the former, so that an update
   rolled back, or a game started too early, never meets a content commit.
2. The third companion of a save (`.scov`) as a file of its own in `PreparedLoad`;
   it is one of a group in `SaveTransaction`.
3. Modules: two games at once (the second one starts with the staging folders of
   the first in use), the adoption of modules installed by hand.

The composition of the pipeline with the transaction stays at the level of
`Commit`: `SaveTransaction` is checked alone because `DiskIsQuiet` shows that
nothing else touches the slot while it runs, and `AtomicSlot` is what the
pipeline assumes of it. In the same way `TaskManager` stands on `TaskFifo`, and the
pipeline's I/O thread and the decodes of `PreparedLoad` are threads that run.
