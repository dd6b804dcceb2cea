--------------------------- MODULE ContentService ---------------------------
(* The content bundles of an installation: what the start of the game mounts, *)
(* how the service judges the files, how a repair downloads and commits       *)
(* missing ones, and when a level may be played.  One worker thread hashes or *)
(* repairs; the main thread starts it, stops it and joins it; the process may *)
(* die at any step and the files may change while it is not running.  An      *)
(* update of the game ends with a content commit in the updater's process.    *)
(* Source: src/xrGame/ui/ContentService.cpp, src/xrContentSync, the updater's *)
(* content_commit (DeadAirUpdater.cpp), and the mount gate of src/xrCore.     *)
(*                                                                            *)
(* A resolve is one step, that of its last look at the cancel flag: while the *)
(* game or the updater runs, only its one worker changes the database         *)
(* directory.  Nobody starts the game while the updater, which waited for its *)
(* end, is at work.                                                           *)
EXTENDS Naturals, FiniteSets

CONSTANTS Bundles,    \* the bundles the installed manifest declares, one a slot
          Strays,     \* slots the manifest does not know
          MaxDamage,  \* bound: changes of the files by anybody else
          MaxKills    \* bound: deaths of the process

ASSUME ContentAssumption ==
    /\ MaxDamage \in Nat /\ MaxKills \in Nat /\ Bundles \cap Strays = {}

\* What a name in the database directory holds: nothing, the wrong length, the
\* right length with an unreadable index, with a flipped byte, or the bundle.
Content == {"missing", "short", "unindexed", "flipped", "good"}

\* The manifest is missing, does not match its content-id, or is fine; or it is
\* fine and $arch_dir$ points elsewhere.
Setup == {"usable", "unreadable", "tampered", "redirected"}

State == {"Unknown", "Recovery", "Incomplete", "Verifying", "Complete", "Repairing", "Repaired"}

MainLabel == {"off", "idle", "force", "repair", "quit", "updater"}
WorkerLabel == {"none", "assess", "hash", "record", "judge", "complete", "incomplete",
                "mark", "check", "fetch", "recheck", "install", "demote", "note",
                "confirm", "clear", "repaired"}

VARIABLES database,      \* what each declared name holds in database\
          staged,        \* the same for content-cache\<hash>: missing, flipped, good
          stale,         \* slots with a bundle no longer declared in database\
          latch,         \* does content-incomplete.txt exist?
          vouched,       \* bundles whose entry in content-state.txt fits the file
          setup,
          state, stop, verifyStarted, unrepairable, latchedOnly,  \* ServiceState
          initial, found,      \* problems of the initial pass, of the verifier
          mounted, refused,    \* declared bundles mounted at start; ContentPin::Skipped
          main, worker,        \* what each thread does next; "off": no process,
                               \* "updater": the worker is the updater's content_commit
          ignoreCache,         \* verify_worker's argument
          jobs, ready, fresh,  \* the plan; its cached jobs; those installed from it
          todo,                \* jobs not yet fetched or installed
          evidence, forced, announced,  \* history of this session: was everything
                         \* hashed and found good? was a verification forced?
                         \* has the updater written its own latch?
          damage, kills        \* what the bounds count

disk == <<database, staged, stale, latch, vouched, setup>>
flags == <<verifyStarted, unrepairable, latchedOnly, initial, found>>
mount == <<mounted, refused>>
plan == <<jobs, ready, fresh, todo>>
history == <<evidence, forced, announced>>
bounds == <<damage, kills>>
vars == <<disk, state, stop, flags, mount, main, worker, ignoreCache, plan, history, bounds>>

\* TypeOK: the plan and the advisory cache speak of declared bundles only.
TypeOK ==
    /\ database \in [Bundles -> Content]
    /\ staged \in [Bundles -> {"missing", "flipped", "good"}]
    /\ stale \subseteq Bundles \cup Strays
    /\ latch \in BOOLEAN /\ vouched \subseteq Bundles /\ setup \in Setup
    /\ state \in State /\ stop \in BOOLEAN /\ verifyStarted \in BOOLEAN
    /\ unrepairable \in BOOLEAN /\ latchedOnly \in BOOLEAN
    /\ initial \subseteq Bundles \cup {"setup"} /\ found \subseteq Bundles
    /\ mounted \subseteq Bundles /\ refused \subseteq Bundles
    /\ main \in MainLabel /\ worker \in WorkerLabel /\ ignoreCache \in BOOLEAN
    /\ jobs \subseteq Bundles /\ ready \subseteq Bundles
    /\ fresh \subseteq Bundles /\ todo \subseteq Bundles
    /\ evidence \in BOOLEAN /\ forced \in BOOLEAN /\ announced \in BOOLEAN
    /\ damage \in 0..MaxDamage /\ kills \in 0..MaxKills

\* A fresh installation before its first start.
Init ==
    /\ database = [b \in Bundles |-> "good"] /\ staged = [b \in Bundles |-> "missing"]
    /\ stale = {} /\ latch = FALSE /\ vouched = {} /\ setup = "usable"
    /\ state = "Unknown" /\ stop = FALSE /\ verifyStarted = FALSE
    /\ unrepairable = FALSE /\ latchedOnly = FALSE /\ initial = {} /\ found = {}
    /\ mounted = {} /\ refused = {}
    /\ main = "off" /\ worker = "none" /\ ignoreCache = FALSE
    /\ jobs = {} /\ ready = {} /\ fresh = {} /\ todo = {}
    /\ evidence = FALSE /\ forced = FALSE /\ announced = FALSE /\ damage = 0 /\ kills = 0

----------------------------------------------------------------------------
(* Files *)

RightSize(b) == database[b] \in {"unindexed", "flipped", "good"}

\* The jobs of a resolve that hashes, and of one that only looks at sizes.
Faulty(trust) == {b \in Bundles : ~(RightSize(b) /\ ((trust /\ b \in vouched) \/ database[b] = "good"))}
WrongSize == {b \in Bundles : ~RightSize(b)}

\* Nothing is missing by size, and nothing is left to demote.
NothingToCommit == WrongSize = {} /\ stale = {}

\* Content-cache files that match their hash.
Cached == {b \in Bundles : staged[b] = "good"}

\* Writing the latch may fail, and so may removing it; neither stops anything.
WriteLatch == latch' \in {latch, TRUE}
ClearLatch == latch' \in {latch, FALSE}

\* content-state.txt is truncated and written again: a write that fails leaves
\* the old file or a part of the new one.
SaveCache(entries) == vouched' \in {vouched} \cup SUBSET entries

\* The game's process, and with it the state it publishes, exists.
Running == main \notin {"off", "updater"}
Publish(s) == state' = IF Running THEN s ELSE state

----------------------------------------------------------------------------
(* The start of the process, and the main thread *)

\* A process begins or ends with this memory.
Blank(m, w) ==
    /\ main' = m /\ worker' = w /\ state' = "Unknown" /\ stop' = FALSE
    /\ verifyStarted' = FALSE /\ unrepairable' = FALSE /\ latchedOnly' = FALSE
    /\ initial' = {} /\ found' = {} /\ ignoreCache' = FALSE
    /\ jobs' = {} /\ ready' = {} /\ fresh' = {} /\ todo' = {}
    /\ evidence' = FALSE /\ forced' = FALSE /\ announced' = FALSE
Unmounted == mounted' = {} /\ refused' = {}

\* The engine mounts a declared bundle of the declared size with a readable
\* index, and records the others it meets.  It asks the manifest's list, not
\* its content-id.
Boot ==
    LET listed == setup \in {"usable", "tampered"}
    IN  /\ main = "off"
        /\ mounted' = {b \in Bundles : listed /\ database[b] \in {"flipped", "good"}}
        /\ refused' = {b \in Bundles : setup # "redirected" /\ database[b] # "missing"} \ mounted'
        /\ Blank("idle", "none")
        /\ UNCHANGED <<disk, bounds>>

\* Mutant: the initial pass looks at the files only.
ProblemsOnDisk == IF setup = "usable" THEN WrongSize ELSE {"setup"}

\* What the initial pass has to report: the manifest or the archive directory,
\* or every bundle of the wrong size or refused by the mount gate.
Problems == IF setup = "usable" THEN WrongSize \cup refused ELSE {"setup"}

\* The state the initial pass ends in when wasLatched is what it found.
InitialState(wasLatched) ==
    CASE setup \in {"unreadable", "tampered"} -> "Recovery"
      [] setup = "redirected" \/ Problems # {} \/ wasLatched -> "Incomplete"
      [] OTHER -> "Complete"

\* run_initial_pass, but for the state: it latches an installation with problems.
InitialPass ==
    /\ initial' = Problems /\ found' = {}
    /\ unrepairable' = (setup = "redirected")
    /\ IF Problems # {} THEN WriteLatch ELSE latch' = latch
    /\ UNCHANGED <<database, staged, stale, vouched, setup>>

\* Verifying lets levels start, so a latched installation stays Incomplete.
StateWhileVerifying(current, latched) == IF latched THEN current ELSE "Verifying"

\* StartVerify after the state and latchedOnly are known: from a good picture
\* or from a leftover latch, once, and with the last worker joined.
MayVerify(current, latched) == current = "Complete" \/ (current = "Incomplete" /\ latched)

Initialize ==
    LET now == InitialState(latch)
        latched == Problems = {} /\ latch
    IN  /\ main = "idle" /\ state = "Unknown"
        /\ InitialPass
        /\ latchedOnly' = latched
        /\ IF MayVerify(now, latched)
           THEN /\ verifyStarted' = TRUE /\ state' = StateWhileVerifying(now, latched)
                /\ worker' = "hash" /\ ignoreCache' = FALSE
           ELSE state' = now /\ UNCHANGED <<verifyStarted, worker, ignoreCache>>
        /\ UNCHANGED <<stop, mount, main, plan, history, bounds>>

\* Opening the main menu.
StartVerify ==
    /\ main = "idle" /\ worker = "none" /\ MayVerify(state, latchedOnly) /\ ~verifyStarted
    /\ verifyStarted' = TRUE /\ state' = StateWhileVerifying(state, latchedOnly)
    /\ worker' = "hash" /\ ignoreCache' = FALSE
    /\ UNCHANGED <<disk, stop, unrepairable, latchedOnly, initial, found, mount, main,
                   plan, history, bounds>>

\* dar_content_verify: stop and join the worker, look again, hash everything.
ForceVerify ==
    /\ main = "idle" /\ state # "Unknown"
    /\ stop' = TRUE /\ main' = "force"
    /\ UNCHANGED <<disk, state, flags, mount, worker, ignoreCache, plan, history, bounds>>

ForceVerifyJoined ==
    LET latched == Problems = {} /\ latch
    IN  /\ main = "force" /\ worker = "none"
        /\ stop' = FALSE /\ main' = "idle" /\ forced' = TRUE
        /\ InitialPass
        /\ latchedOnly' = latched /\ state' = InitialState(latch)
        /\ IF state' = "Recovery"
           THEN UNCHANGED <<verifyStarted, worker, ignoreCache>>
           ELSE verifyStarted' = TRUE /\ worker' = "hash" /\ ignoreCache' = TRUE
        /\ UNCHANGED <<mount, plan, evidence, announced, bounds>>

\* The window's button or dar_content_repair.
StartRepair ==
    /\ main = "idle" /\ state \notin {"Unknown", "Repairing", "Repaired", "Recovery"}
    /\ ~unrepairable
    /\ stop' = TRUE /\ main' = "repair"
    /\ UNCHANGED <<disk, state, flags, mount, worker, ignoreCache, plan, history, bounds>>

StartRepairJoined ==
    /\ main = "repair" /\ worker = "none"
    /\ stop' = FALSE /\ main' = "idle" /\ state' = "Repairing" /\ worker' = "mark"
    /\ UNCHANGED <<disk, flags, mount, ignoreCache, plan, history, bounds>>

\* Quitting, the relaunch after a repair included.
Shutdown ==
    /\ main = "idle"
    /\ stop' = TRUE /\ main' = "quit"
    /\ UNCHANGED <<disk, state, flags, mount, worker, ignoreCache, plan, history, bounds>>

ShutdownJoined ==
    /\ main = "quit" /\ worker = "none"
    /\ Blank("off", "none") /\ Unmounted
    /\ UNCHANGED <<disk, bounds>>

----------------------------------------------------------------------------
(* The worker: verification *)

CancelVerify ==
    /\ worker = "hash" /\ stop
    /\ verifyStarted' = FALSE /\ state' = "Incomplete" /\ worker' = "none"
    /\ UNCHANGED <<disk, stop, unrepairable, latchedOnly, initial, found, mount, main,
                   ignoreCache, plan, history, bounds>>

Hash ==
    /\ worker = "hash" /\ ~stop
    /\ jobs' = Faulty(~ignoreCache) /\ worker' = "record"
    /\ UNCHANGED <<disk, state, stop, flags, mount, main, ignoreCache, ready, fresh, todo,
                   history, bounds>>

Record ==
    /\ worker = "record"
    /\ SaveCache(Bundles \ jobs) /\ worker' = "judge"
    /\ UNCHANGED <<database, staged, stale, latch, setup, state, stop, flags, mount, main,
                   ignoreCache, plan, history, bounds>>

\* The verdict is over everything wrong, the initial pass's findings included.
Judge ==
    /\ worker = "judge"
    /\ found' = jobs
    /\ IF initial \cup jobs = {}
       THEN latchedOnly' = FALSE /\ ClearLatch /\ worker' = "complete" /\ evidence' = TRUE
       ELSE UNCHANGED <<latchedOnly, evidence>> /\ WriteLatch /\ worker' = "incomplete"
    /\ UNCHANGED <<database, staged, stale, vouched, setup, state, stop, verifyStarted,
                   unrepairable, initial, mount, main, ignoreCache, plan, forced, announced, bounds>>

PublishVerdict ==
    /\ worker \in {"complete", "incomplete"}
    /\ state' = (IF worker = "complete" THEN "Complete" ELSE "Incomplete") /\ worker' = "none"
    /\ UNCHANGED <<disk, stop, flags, mount, main, ignoreCache, plan, history, bounds>>

----------------------------------------------------------------------------
(* The worker: repair *)

\* A repair that fails or is interrupted.
EndRepair == worker' = "none" /\ Publish("Incomplete")

MarkRepair ==
    /\ worker = "mark"
    /\ WriteLatch /\ worker' = "check"
    /\ UNCHANGED <<database, staged, stale, vouched, setup, state, stop, flags, mount, main,
                   ignoreCache, plan, history, bounds>>

\* The first resolve; there may be no space for what it wants.
Check ==
    /\ worker = "check"
    /\ \/ EndRepair /\ UNCHANGED plan
       \/ /\ ~stop
          /\ jobs' = Faulty(TRUE) /\ ready' = Faulty(TRUE) \cap Cached
          /\ todo' = Faulty(TRUE) \ Cached
          /\ worker' = (IF todo' = {} THEN "recheck" ELSE "fetch")
          /\ UNCHANGED <<state, fresh>>
    /\ UNCHANGED <<disk, stop, flags, mount, main, ignoreCache, history, bounds>>

\* A download that was verified enters the content cache under its hash.
Fetch(b) ==
    /\ worker = "fetch" /\ b \in todo
    /\ staged' = [staged EXCEPT ![b] = "good"] /\ todo' = todo \ {b}
    /\ UNCHANGED <<database, stale, latch, vouched, setup, state, stop, flags, mount, main,
                   worker, ignoreCache, jobs, ready, fresh, history, bounds>>

FetchFails ==
    /\ worker = "fetch" /\ todo # {} /\ ~stop
    /\ EndRepair
    /\ UNCHANGED <<disk, stop, flags, mount, main, ignoreCache, plan, history, bounds>>

\* Mutant: the download does not look at the cancel flag before it is done.
DeafFetch ==
    /\ worker = "fetch" /\ stop /\ todo = {}
    /\ EndRepair
    /\ UNCHANGED <<disk, stop, flags, mount, main, ignoreCache, plan, history, bounds>>

CancelFetch ==
    /\ worker = "fetch" /\ stop
    /\ EndRepair
    /\ UNCHANGED <<disk, stop, flags, mount, main, ignoreCache, plan, history, bounds>>

Fetched ==
    /\ worker = "fetch" /\ todo = {} /\ ~stop
    /\ worker' = "recheck"
    /\ UNCHANGED <<disk, state, stop, flags, mount, main, ignoreCache, plan, history, bounds>>

\* The second resolve, and the commit's test that both directories are on one
\* volume; from here on the flag is not looked at.
Recheck ==
    /\ worker = "recheck"
    /\ \/ EndRepair /\ UNCHANGED plan
       \/ /\ ~stop
          /\ jobs' = Faulty(TRUE) /\ ready' = Faulty(TRUE) \cap Cached
          /\ todo' = ready' /\ fresh' = {} /\ worker' = "install"
          /\ UNCHANGED state
    /\ UNCHANGED <<disk, stop, flags, mount, main, ignoreCache, history, bounds>>

\* A file the engine has mapped cannot be replaced.
CanReplace(b) == b \notin mounted

SourceVerified(b) == staged[b] = "good"

Install(b) ==
    /\ worker = "install" /\ b \in todo
    /\ SourceVerified(b) /\ CanReplace(b)
    /\ database' = [database EXCEPT ![b] = staged[b]] /\ staged' = [staged EXCEPT ![b] = "missing"]
    /\ vouched' = vouched \ {b} /\ fresh' = fresh \cup {b} /\ todo' = todo \ {b}
    /\ UNCHANGED <<stale, latch, setup, state, stop, flags, mount, main, worker, ignoreCache,
                   jobs, ready, history, bounds>>

\* The source no longer matches, or a scanner or the engine holds the target.
InstallFails ==
    /\ worker = "install" /\ todo # {}
    /\ EndRepair
    /\ UNCHANGED <<disk, stop, flags, mount, main, ignoreCache, plan, history, bounds>>

Installed ==
    /\ worker = "install" /\ todo = {}
    /\ worker' = "demote"
    /\ UNCHANGED <<disk, state, stop, flags, mount, main, ignoreCache, plan, history, bounds>>

\* Slots whose replacement is not in the cache keep their old revision.
Pending == jobs \ ready

\* Obsolete bundles go to the content cache under their own hash, those that
\* can be read and moved.
Demote ==
    /\ worker = "demote"
    /\ \E moved \in SUBSET (stale \ Pending) : stale' = stale \ moved
    /\ worker' = "note"
    /\ UNCHANGED <<database, staged, latch, vouched, setup, state, stop, flags, mount, main,
                   ignoreCache, plan, history, bounds>>

\* Mutant: every declared bundle of the right size gets an entry.
NoteDeclared ==
    /\ worker = "note"
    /\ SaveCache(Bundles \ WrongSize) /\ worker' = "confirm"
    /\ UNCHANGED <<database, staged, stale, latch, setup, state, stop, flags, mount, main,
                   ignoreCache, plan, history, bounds>>

\* The advisory cache gains what this commit read.
Note ==
    /\ worker = "note"
    /\ SaveCache(vouched \cup fresh) /\ worker' = "confirm"
    /\ UNCHANGED <<database, staged, stale, latch, setup, state, stop, flags, mount, main,
                   ignoreCache, plan, history, bounds>>

\* Mutant: the last look compares sizes only.
StillOutOfSize == WrongSize

StillFaulty == Faulty(TRUE)

Confirm ==
    /\ worker = "confirm"
    /\ IF StillFaulty = {}
       THEN worker' = "clear" /\ evidence' = TRUE /\ state' = state
       ELSE EndRepair /\ UNCHANGED evidence
    /\ UNCHANGED <<disk, stop, flags, mount, main, ignoreCache, plan, forced, announced, bounds>>

ClearRepair ==
    /\ worker = "clear"
    /\ ClearLatch /\ worker' = "repaired"
    /\ UNCHANGED <<database, staged, stale, vouched, setup, state, stop, flags, mount, main,
                   ignoreCache, plan, history, bounds>>

\* CollectCache spares every file the manifest declares.
PublishRepair ==
    /\ worker = "repaired"
    /\ worker' = "none" /\ Publish("Repaired")
    /\ UNCHANGED <<disk, stop, flags, mount, main, ignoreCache, plan, history, bounds>>

----------------------------------------------------------------------------
(* The updater *)

\* An update brings its manifest, which declares a new revision of some
\* bundles, downloaded before or not, and goes on to content_commit.
Update(revised, downloaded) ==
    /\ main = "off" /\ damage < MaxDamage
    /\ database' = [b \in Bundles |-> IF b \in revised THEN "missing" ELSE database[b]]
    /\ stale' = stale \cup {b \in revised : database[b] # "missing"}
    /\ staged' = [b \in Bundles |-> IF b \notin revised THEN staged[b]
                                    ELSE IF b \in downloaded THEN "good" ELSE "missing"]
    /\ vouched' = vouched \ revised
    /\ setup' = (IF setup = "redirected" THEN setup ELSE "usable")
    /\ Blank("updater", "assess") /\ Unmounted
    /\ damage' = damage + 1 /\ UNCHANGED <<latch, kills>>

\* content_commit resolves by size alone.  With nothing to commit it clears the
\* latch on that; otherwise the commit is the repair's, from the same volume test
\* on.  It may also end before it did anything; nobody looks at how it ends.
Assess ==
    /\ worker = "assess"
    /\ \/ worker' = "none" /\ UNCHANGED <<latch, plan>>
       \/ NothingToCommit /\ ClearLatch /\ worker' = "none" /\ UNCHANGED plan
       \/ /\ ~NothingToCommit
          /\ jobs' = WrongSize /\ ready' = WrongSize \cap Cached
          /\ todo' = ready' /\ fresh' = {} /\ worker' = "install" /\ UNCHANGED latch
    /\ UNCHANGED <<database, staged, stale, vouched, setup, state, stop, flags, mount, main,
                   ignoreCache, history, bounds>>

UpdaterDone ==
    /\ main = "updater" /\ worker = "none"
    /\ Blank("off", "none") /\ Unmounted
    /\ UNCHANGED <<disk, bounds>>

----------------------------------------------------------------------------
(* Everybody else *)

\* The process dies; a content-state.txt being written is cut short.
Kill ==
    /\ main # "off" /\ kills < MaxKills
    /\ Blank("off", "none") /\ Unmounted /\ kills' = kills + 1
    /\ IF worker \in {"record", "note"}
       THEN SaveCache(IF worker = "record" THEN Bundles \ jobs ELSE vouched \cup fresh)
       ELSE UNCHANGED vouched
    /\ UNCHANGED <<database, staged, stale, latch, setup, damage>>

\* A player, an uninstaller or the disk changes an installed bundle, and with
\* it the time that its entry in content-state.txt recorded.
Damage(b, q) ==
    /\ main = "off" /\ damage < MaxDamage /\ database[b] # q
    /\ database' = [database EXCEPT ![b] = q] /\ vouched' = vouched \ {b}
    /\ damage' = damage + 1
    /\ UNCHANGED <<staged, stale, latch, setup, state, stop, flags, mount, main, worker,
                   ignoreCache, plan, history, kills>>

\* The download of an update fetches the bundles of the next version into the
\* cache and first writes the latch, beside whatever the service is doing.
Announce ==
    /\ Running /\ damage < MaxDamage /\ ~announced
    /\ WriteLatch /\ announced' = TRUE /\ damage' = damage + 1
    /\ UNCHANGED <<database, staged, stale, vouched, setup, state, stop, flags, mount, main,
                   worker, ignoreCache, plan, evidence, forced, kills>>

\* A bundle of another branch, a damaged manifest, another fsgame.ltx, or their
\* repair by a reinstallation.
Disturb ==
    /\ main = "off" /\ damage < MaxDamage
    /\ \/ \E s \in Strays : stale' = stale \cup {s} /\ UNCHANGED setup
       \/ setup' \in Setup \ {setup} /\ UNCHANGED stale
    /\ damage' = damage + 1
    /\ UNCHANGED <<database, staged, latch, vouched, state, stop, flags, mount, main, worker,
                   ignoreCache, plan, history, kills>>

\* A file in the content cache goes bad, at any time.
Rot(b) ==
    /\ damage < MaxDamage /\ staged[b] = "good"
    /\ staged' = [staged EXCEPT ![b] = "flipped"]
    /\ damage' = damage + 1
    /\ UNCHANGED <<database, stale, latch, vouched, setup, state, stop, flags, mount, main,
                   worker, ignoreCache, plan, history, kills>>

----------------------------------------------------------------------------
Joined == ForceVerifyJoined \/ StartRepairJoined \/ ShutdownJoined
Player == Boot \/ StartVerify \/ ForceVerify \/ StartRepair \/ Shutdown
Verifier == CancelVerify \/ Hash \/ Record \/ Judge \/ PublishVerdict
Repairer ==
    \/ MarkRepair \/ Check \/ CancelFetch \/ Fetched \/ Recheck
    \/ \E b \in Bundles : Install(b)
    \/ InstallFails \/ Installed \/ Demote \/ Note \/ Confirm \/ ClearRepair \/ PublishRepair
Updater ==
    \/ Assess \/ UpdaterDone
    \/ \E revised \in SUBSET Bundles :
           \E downloaded \in SUBSET revised : Update(revised, downloaded)
Network == FetchFails \/ \E b \in Bundles : Fetch(b)
Environment ==
    \/ Kill \/ Disturb \/ Announce
    \/ \E b \in Bundles : Rot(b) \/ (\E q \in Content : Damage(b, q))

Next == Initialize \/ Joined \/ Player \/ Verifier \/ Repairer \/ Updater \/ Network \/ Environment

Spec == Init /\ [][Next]_vars

\* The worker and a main thread that waits for it run; no server has to answer
\* and no player has to do anything.
FairSpec == Spec /\ WF_vars(Joined) /\ WF_vars(Verifier) /\ WF_vars(Repairer)

----------------------------------------------------------------------------
(* Properties *)

\* PlayBlocked: what lets CLevel::net_start1 go on.
Playable == Running /\ state \in {"Complete", "Verifying"}

Whole == \A b \in Bundles : database[b] = "good"

\* A level only starts in a session that has every bundle mounted, unless the
\* player forced a verification, which looks at the disk and not at the mounts.
PlayNeedsMounted == Playable /\ ~forced => Bundles \subseteq mounted

\* Nothing but a look at every byte takes the latch away, in the game and in a
\* commit of the updater's; only an updater that finds nothing to commit goes by
\* the sizes, which is "no evidence" as ContentCommit.cpp:167 puts it.
LatchClearedOnEvidence ==
    [][latch /\ ~latch' => Whole \/ (worker = "assess" /\ NothingToCommit)]_vars

\* Across crashes and restarts, play stays refused on an installation with a
\* latch until a hash pass of this session ended well.  (A latch announcing the
\* next version is for the sessions to come.)
LatchBlocksPlay == latch /\ Playable => evidence \/ announced \/ worker = "incomplete"

\* content-state.txt never saves a bad bundle from being read.
VouchedIsGood == \A b \in vouched : database[b] = "good"

\* A commit, the updater's too, puts nothing under a bundle's name but the bundle.
EntersByRename ==
    [][\A b \in Bundles : main # "off" /\ database'[b] # database[b] => database'[b] = "good"]_vars

\* A commit takes an old revision away only once the new one is in place.
AddBeforeDelete ==
    [][\A b \in Bundles : b \in stale /\ b \notin stale' => database[b] # "missing"]_vars

\* A verdict that a worker gave, this session or this repair, is true.
VerdictIsTrue == Running /\ worker = "none" /\ state \in {"Complete", "Repaired"} => Whole

\* CUIContentWnd says "checking" while this holds.
Checking == latchedOnly /\ verifyStarted /\ initial \cup found = {}

\* Whatever way a worker ends, the window stops saying that it is at work.
IdleIsSettled ==
    main = "idle" /\ worker = "none" => state \notin {"Verifying", "Repairing"} /\ ~Checking

\* A main thread that stops the worker gets past the join, however long the
\* servers take.
JoinReturns == main \in {"force", "repair", "quit"} ~> main \in {"idle", "off"}
=============================================================================
