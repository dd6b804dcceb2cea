----------------------------- MODULE ModUpdates -----------------------------
(***************************************************************************)
(* Installing, updating and removing modules from the Mods window.  The    *)
(* worker of ModUpdateService.cpp checks what was released and builds the  *)
(* new module in modules\.staged\<id>; ready.ltx arms it; the next start   *)
(* of the game swaps it in before any module file is open (xms_core.cpp).  *)
(* A removal is staged and carried out the same way.                       *)
(*                                                                         *)
(* A folder is the version it holds and which of the version's files are   *)
(* there.  Left out: which bytes are reused and which downloaded, the      *)
(* texts, a version published twice and the adoption of modules installed  *)
(* by hand (both only decide what is on offer), the question whether to    *)
(* restart, two games at once.                                             *)
(***************************************************************************)
EXTENDS Integers, Sequences, FiniteSets

CONSTANTS Modules,
          Listed,     \* modules the catalog lists
          Installed,  \* modules in place at first
          Files,      \* the files of a module,
          Manifest,   \* mod.ltx among them
          Last,       \* the releases of a module are 1 .. Last
          MaxActs,    \* bound: what the player and the catalog ask for
          MaxKills,   \* bound: deaths of the game
          MaxFaults   \* bound: renames, writes and deletions that fail

ASSUME ModulesAssumption == Listed \subseteq Modules /\ Installed \subseteq Modules
ASSUME FilesAssumption   == Manifest \in Files /\ IsFiniteSet(Modules)
ASSUME BoundsAssumption  == /\ Last \in Nat \ {0} /\ MaxActs \in Nat
                            /\ MaxKills \in Nat /\ MaxFaults \in Nat

VARIABLES
    folder,     \* modules\<folder>
    payload,    \* .staged\<id>\payload
    previous,   \* .staged\<id>\previous
    ready,      \* the action in .staged\<id>\ready.ltx
    main,       \* where the main thread is: starting, playing or leaving
    at,         \* the module it is dealing with
    left,       \* armed modules the start has still to look at
    loaded,     \* XMS::Modules(): the version discovered, 0 if none
    status,     \* ModuleStatus::state of each module and installation
    queue,      \* updates waiting for the worker
    installs,   \* installations waiting for it
    check,      \* checkRequested
    asked,      \* requestedIds
    askedAll,   \* requestedAll
    stop,       \* stop
    worker,     \* the worker thread: step, module, version, what is left
    published,  \* the latest release of each module
    had,        \* history: the version the last start found in place
    meddled,    \* history: modules somebody acted on while they were being staged
    acts, kills, faults

disk    == <<folder, payload, previous, ready>>
start   == <<main, at, left, loaded>>
asks    == <<check, asked, askedAll>>
service == <<status, queue, installs, asks, stop>>
history == <<had, meddled>>
bounds  == <<acts, kills, faults>>
vars    == <<disk, start, service, worker, published, history, bounds>>

None       == [version |-> 0, files |-> {}]
Whole(v)   == [version |-> v, files |-> Files]
Exists(c)  == c # None
IsModule(c) == Manifest \in c.files
Parts(c)   == {None} \union {[c EXCEPT !.files = F] : F \in SUBSET c.files}

NoWorker == [pc |-> "none", m |-> "", version |-> 0, todo |-> {}]
Starts   == {"apply", "movein", "disarm", "clean"}
InFlight == {"Queued", "Preparing"}
Staging  == {"accept", "discard", "build", "arm", "staged", "undo"}

Works == UNCHANGED faults
Fails == faults < MaxFaults /\ faults' = faults + 1
Act   == acts < MaxActs /\ acts' = acts + 1

Init ==
    /\ folder = [m \in Modules |-> IF m \in Installed THEN Whole(1) ELSE None]
    /\ payload = [m \in Modules |-> None] /\ previous = [m \in Modules |-> None]
    /\ ready = [m \in Modules |-> "none"]
    /\ main = "off" /\ at = "" /\ left = {}
    /\ loaded = [m \in Modules |-> 0] /\ status = [m \in Modules |-> "none"]
    /\ queue = << >> /\ installs = << >> /\ check = FALSE /\ asked = {} /\ askedAll = FALSE
    /\ stop = FALSE /\ worker = NoWorker
    /\ published = [m \in Modules |-> 1]
    /\ had = [m \in Modules |-> folder[m].version] /\ meddled = {}
    /\ acts = 0 /\ kills = 0 /\ faults = 0

-----------------------------------------------------------------------------
(* The staging folder of a module.                                         *)

\* remove_tree of the folder.
Erase(m) ==
    /\ payload' = [payload EXCEPT ![m] = None] /\ previous' = [previous EXCEPT ![m] = None]
    /\ ready' = [ready EXCEPT ![m] = "none"]

\* remove_tree that is cut short, or passes over files that cannot be deleted.
Remains(m) ==
    /\ \E c \in Parts(payload[m]) : payload' = [payload EXCEPT ![m] = c]
    /\ \E c \in Parts(previous[m]) : previous' = [previous EXCEPT ![m] = c]
    /\ \E r \in {ready[m], "none"} : ready' = [ready EXCEPT ![m] = r]

Discard(m) == UNCHANGED folder /\ ((Erase(m) /\ Works) \/ (Remains(m) /\ Fails))

Unarmed(m) == ready[m] = "none" /\ (Exists(payload[m]) \/ Exists(previous[m]))

-----------------------------------------------------------------------------
(* The start of the game: apply_staged_updates, then discovery.            *)

Boot ==
    /\ main = "off" /\ main' = "apply" /\ at' = ""
    /\ left' = {m \in Modules : ready[m] \in {"update", "install", "remove"}}
    /\ UNCHANGED <<disk, loaded, service, worker, published, history, bounds>>

Skip(m)    == main' = "apply" /\ left' = left \ {m} /\ UNCHANGED <<at, loaded>>
CleanUp(m) == main' = "clean" /\ at' = m /\ left' = left \ {m} /\ UNCHANGED loaded

\* A module to remove is parked in its staging folder first; one in use stays.
ApplyRemoval(m) ==
    /\ main = "apply" /\ m \in left /\ ready[m] = "remove"
    /\ \/ /\ IsModule(folder[m]) /\ previous[m] = None /\ Works
          /\ previous' = [previous EXCEPT ![m] = folder[m]] /\ folder' = [folder EXCEPT ![m] = None]
          /\ had' = [had EXCEPT ![m] = 0] /\ CleanUp(m)
       \/ /\ IsModule(folder[m]) /\ (IF previous[m] = None THEN Fails ELSE Works)
          /\ Skip(m) /\ UNCHANGED <<folder, previous, had>>
       \/ ~IsModule(folder[m]) /\ Works /\ CleanUp(m) /\ UNCHANGED <<folder, previous, had>>
    /\ UNCHANGED <<payload, ready, service, worker, published, meddled, acts, kills>>

ApplyInstall(m) ==
    /\ main = "apply" /\ m \in left /\ ready[m] = "install"
    /\ \/ /\ ~IsModule(payload[m]) \/ Exists(folder[m])
          /\ Works /\ CleanUp(m) /\ UNCHANGED <<folder, payload>>
       \/ /\ IsModule(payload[m]) /\ ~Exists(folder[m])
          /\ \/ /\ Works /\ CleanUp(m)
                /\ folder' = [folder EXCEPT ![m] = payload[m]] /\ payload' = [payload EXCEPT ![m] = None]
             \/ Fails /\ Skip(m) /\ UNCHANGED <<folder, payload>>
    /\ UNCHANGED <<previous, ready, service, worker, published, history, acts, kills>>

\* A payload that is no such module: a parked version goes back.
RefuseUpdate(m) ==
    /\ main = "apply" /\ m \in left /\ ready[m] = "update" /\ ~IsModule(payload[m])
    /\ \/ /\ ~Exists(folder[m]) /\ Exists(previous[m]) /\ Works
          /\ folder' = [folder EXCEPT ![m] = previous[m]] /\ previous' = [previous EXCEPT ![m] = None]
       \/ /\ IF ~Exists(folder[m]) /\ Exists(previous[m]) THEN Fails ELSE Works
          /\ UNCHANGED <<folder, previous>>
    /\ CleanUp(m)
    /\ UNCHANGED <<payload, ready, service, worker, published, history, acts, kills>>

NoLongerInstalled(m) ==
    IF Exists(folder[m]) THEN ~IsModule(folder[m]) ELSE ~Exists(previous[m])

ForgetUpdate(m) ==
    /\ main = "apply" /\ m \in left /\ ready[m] = "update" /\ IsModule(payload[m])
    /\ NoLongerInstalled(m)
    /\ CleanUp(m)
    /\ UNCHANGED <<disk, service, worker, published, history, bounds>>

\* Broken variant: what was staged is disarmed before it is moved in.
ParkDisarms(m) ==
    /\ main = "apply" /\ m \in left /\ ready[m] = "update" /\ IsModule(payload[m])
    /\ ~NoLongerInstalled(m) /\ Exists(folder[m]) /\ Works
    /\ previous' = [previous EXCEPT ![m] = folder[m]] /\ folder' = [folder EXCEPT ![m] = None]
    /\ ready' = [ready EXCEPT ![m] = "none"]
    /\ main' = "movein" /\ at' = m /\ left' = left \ {m}
    /\ UNCHANGED <<payload, loaded, service, worker, published, history, acts, kills>>

\* The installed version is renamed into the staging folder.
Park(m) ==
    /\ main = "apply" /\ m \in left /\ ready[m] = "update" /\ IsModule(payload[m])
    /\ ~NoLongerInstalled(m)
    /\ \/ /\ Exists(folder[m]) /\ Works
          /\ previous' = [previous EXCEPT ![m] = folder[m]] /\ folder' = [folder EXCEPT ![m] = None]
          /\ main' = "movein" /\ at' = m /\ left' = left \ {m} /\ UNCHANGED loaded
       \/ /\ Exists(folder[m]) /\ Fails
          /\ \E c \in Parts(previous[m]) : previous' = [previous EXCEPT ![m] = c]
          /\ Skip(m) /\ UNCHANGED folder
       \/ /\ ~Exists(folder[m]) /\ Works
          /\ main' = "movein" /\ at' = m /\ left' = left \ {m} /\ UNCHANGED <<folder, previous, loaded>>
    /\ UNCHANGED <<payload, ready, service, worker, published, history, acts, kills>>

\* The new version is renamed into place, or the old one goes back; what holds up
\* one rename (a folder in use) may hold up both.
MoveIn ==
    /\ main = "movein"
    /\ \/ /\ Works /\ main' = "disarm"
          /\ folder' = [folder EXCEPT ![at] = payload[at]] /\ payload' = [payload EXCEPT ![at] = None]
          /\ UNCHANGED previous
       \/ /\ Fails /\ main' = "apply" /\ UNCHANGED payload
          /\ folder' = [folder EXCEPT ![at] = previous[at]] /\ previous' = [previous EXCEPT ![at] = None]
       \/ Fails /\ main' = "apply" /\ UNCHANGED <<folder, payload, previous>>
    /\ UNCHANGED <<ready, at, left, loaded, service, worker, published, history, acts, kills>>

Disarm ==
    /\ main = "disarm" /\ main' = "clean"
    /\ \/ Works /\ ready' = [ready EXCEPT ![at] = "none"]
       \/ Fails /\ UNCHANGED ready
    /\ UNCHANGED <<folder, payload, previous, at, left, loaded, service, worker, published,
                   history, acts, kills>>

Clean ==
    /\ main = "clean" /\ main' = "apply" /\ Discard(at)
    /\ UNCHANGED <<at, left, loaded, service, worker, published, history, acts, kills>>

\* Discovery, and the states the service starts with.
Discover ==
    /\ main = "apply" /\ left = {} /\ main' = "play" /\ at' = ""
    /\ loaded' = [m \in Modules |-> IF IsModule(folder[m]) THEN folder[m].version ELSE 0]
    /\ status' = [m \in Modules |-> IF loaded'[m] = 0 THEN "none"
                                    ELSE IF ready[m] \in {"none", "torn"} THEN "Unchecked" ELSE "Staged"]
    /\ had' = [m \in Modules |-> IF Exists(folder[m]) THEN folder[m].version ELSE had[m]]
    /\ meddled' = {m \in meddled : ready[m] # "none" \/ Exists(payload[m])
                                    \/ folder[m] # Whole(folder[m].version)}
    /\ UNCHANGED <<disk, left, queue, installs, asks, stop, worker, published, bounds>>

-----------------------------------------------------------------------------
(* What the player asks for, in the window or the console, and the catalog.*)

Wake == worker' = (IF worker.pc = "none" THEN [NoWorker EXCEPT !.pc = "pick"] ELSE worker)

\* Any order of a set's elements.
Orders(S) == {s \in [1 .. Cardinality(S) -> S] : \A i, j \in DOMAIN s : s[i] = s[j] => i = j}

\* Modules the worker is staging while something is done to them.
Meddled(S) == {m \in S : worker.m = m /\ worker.pc \in Staging}

StartCheck ==
    /\ main = "play" /\ \E m \in Modules : status[m] \in {"Unchecked", "CheckFailed"}
    /\ check' = TRUE /\ Wake
    /\ UNCHANGED <<disk, start, status, queue, installs, asked, askedAll, stop,
                   published, history, bounds>>

Enqueue(S) ==
    /\ \E s \in Orders(S) : queue' = queue \o s
    /\ status' = [m \in Modules |-> IF m \in S THEN "Queued" ELSE status[m]]
    /\ meddled' = meddled \union Meddled(S)

StartUpdate(m) ==
    /\ main = "play" /\ Act /\ loaded[m] # 0 /\ status[m] \in {"Available", "Failed"}
    /\ Enqueue({m}) /\ Wake
    /\ UNCHANGED <<disk, start, installs, asks, stop, published, had, kills, faults>>

StartUpdateAll ==
    /\ main = "play" /\ Act
    /\ LET S == {m \in Modules : loaded[m] # 0 /\ status[m] = "Available"}
       IN  S # {} /\ Enqueue(S)
    /\ Wake
    /\ UNCHANGED <<disk, start, installs, asks, stop, published, had, kills, faults>>

\* xms_update <id> and xms_update all: whatever the next check finds.
RequestUpdate(ids, all) ==
    /\ main = "play" /\ Act
    /\ asked' = asked \union ids /\ askedAll' = (askedAll \/ all) /\ check' = TRUE /\ Wake
    /\ status' = [m \in Modules |->
           IF /\ loaded[m] # 0 /\ (askedAll' \/ m \in ids)
              /\ status[m] \in {"Failed", "Current", "NoRelease", "Blocked"}
           THEN "Unchecked" ELSE status[m]]
    /\ UNCHANGED <<disk, start, queue, installs, stop, published, history, kills, faults>>

\* An installation; it gives up what is still armed or parked of the module.
StartInstall(m) ==
    /\ main = "play" /\ Act /\ m \in Listed /\ loaded[m] = 0
    /\ status[m] \in {"none", "Failed", "Refused", "Blocked"}
    /\ status' = [status EXCEPT ![m] = "Queued"] /\ installs' = Append(installs, m) /\ Wake
    /\ meddled' = meddled \union {x \in {m} : Exists(previous[m]) \/ ready[m] # "none"}
    /\ UNCHANGED <<disk, start, queue, asks, stop, published, had, kills, faults>>

CatalogRefreshed ==
    /\ main = "play" /\ Act
    /\ LET S == {m \in Listed : loaded[m] # 0 /\ ready[m] \in {"none", "torn"} /\ status[m] \in
                    {"Current", "NoRelease", "Available", "Blocked", "Refused", "CheckFailed"}}
       IN  S # {} /\ status' = [m \in Modules |-> IF m \in S THEN "Unchecked" ELSE status[m]]
    /\ check' = TRUE /\ Wake
    /\ UNCHANGED <<disk, start, queue, installs, asked, askedAll, stop, published,
                   history, kills, faults>>

\* A removal: what was staged for the module goes first, then ready.ltx is written.
StageRemoval(m) ==
    /\ main = "play" /\ Act /\ loaded[m] # 0
    /\ \A i \in DOMAIN queue : queue[i] # m
    /\ main' = "remove" /\ at' = m /\ meddled' = meddled \union {m}
    /\ UNCHANGED <<disk, left, loaded, service, worker, published, had, kills, faults>>

ArmRemoval ==
    /\ main = "remove" /\ main' = "play" /\ payload' = [payload EXCEPT ![at] = None]
    /\ \/ Works /\ ready' = [ready EXCEPT ![at] = "remove"]
       \/ Fails /\ \E r \in {ready[at], "none"} : ready' = [ready EXCEPT ![at] = r]
    /\ UNCHANGED <<folder, previous, at, left, loaded, service, worker, published, history, acts, kills>>

CancelRemoval(m) ==
    /\ main = "play" /\ ready[m] = "remove" /\ Discard(m)
    /\ UNCHANGED <<start, service, worker, published, history, acts, kills>>

Publish(m) ==
    /\ published[m] < Last /\ published' = [published EXCEPT ![m] = @ + 1]
    /\ UNCHANGED <<disk, start, service, worker, history, bounds>>

-----------------------------------------------------------------------------
(* The worker: what to do next, and the check.                             *)

Pick ==
    /\ worker.pc = "pick"
    /\ \/ /\ stop /\ worker' = NoWorker
          /\ UNCHANGED <<status, queue, installs, check>>
       \/ /\ ~stop /\ queue # << >>
          /\ worker' = [worker EXCEPT !.pc = "describe", !.m = Head(queue)]
          /\ status' = [status EXCEPT ![Head(queue)] = "Preparing"] /\ queue' = Tail(queue)
          /\ UNCHANGED <<installs, check>>
       \/ /\ ~stop /\ queue = << >> /\ installs # << >>
          /\ worker' = [worker EXCEPT !.pc = "describe", !.m = Head(installs)]
          /\ status' = [status EXCEPT ![Head(installs)] = "Preparing"] /\ installs' = Tail(installs)
          /\ UNCHANGED <<queue, check>>
       \/ /\ ~stop /\ queue = << >> /\ installs = << >> /\ check
          /\ worker' = [worker EXCEPT !.pc = "sweep", !.todo = {m \in Modules : Unarmed(m)}]
          /\ check' = FALSE
          /\ UNCHANGED <<status, queue, installs>>
       \/ /\ ~stop /\ queue = << >> /\ installs = << >> /\ ~check
          /\ worker' = NoWorker
          /\ UNCHANGED <<status, queue, installs, check>>
    /\ UNCHANGED <<disk, start, asked, askedAll, stop, published, history, bounds>>

\* DiscardUnarmedStaged removes what its scan found without ready.ltx.
Sweep ==
    /\ worker.pc = "sweep"
    /\ \/ \E m \in worker.todo : Discard(m) /\ worker' = [worker EXCEPT !.todo = @ \ {m}]
       \/ /\ worker.todo = {} /\ UNCHANGED <<disk, faults>>
          /\ worker' = [worker EXCEPT !.pc = "check", !.todo = {m \in Modules : loaded[m] # 0}]
    /\ UNCHANGED <<start, service, published, history, acts, kills>>

CheckNext ==
    /\ worker.pc = "check"
    /\ \/ \E m \in worker.todo :
             /\ ~stop
             /\ IF status[m] \in {"Unchecked", "CheckFailed"}
                THEN /\ status' = [status EXCEPT ![m] = "Checking"]
                     /\ worker' = [worker EXCEPT !.pc = "answer", !.m = m, !.todo = @ \ {m}]
                ELSE worker' = [worker EXCEPT !.todo = @ \ {m}] /\ UNCHANGED status
       \/ /\ stop \/ worker.todo = {}
          /\ worker' = [worker EXCEPT !.pc = "requests", !.todo = {}] /\ UNCHANGED status
    /\ UNCHANGED <<disk, start, queue, installs, asks, stop, published, history, bounds>>

\* mod_evaluate: what a descriptor means for an installed module.
Evaluated(m) == IF published[m] > loaded[m] THEN {"Available", "Blocked"} ELSE {"Current"}

CheckAnswer ==
    /\ worker.pc = "answer"
    /\ \E s \in Evaluated(worker.m) \union {"NoRelease", "CheckFailed"}
                                    \union (IF stop THEN {"Unchecked"} ELSE {}) :
           /\ status' = [status EXCEPT ![worker.m] = s]
           /\ worker' = [worker EXCEPT !.pc = IF s = "Available" /\ worker.m \in Listed
                                              THEN "offer" ELSE "check"]
    /\ UNCHANGED <<disk, start, queue, installs, asks, stop, published, history, bounds>>

\* An update of a catalog module still on offer is held against the catalog.
Offer ==
    /\ worker.pc = "offer"
    /\ \/ status[worker.m] = "Available" /\ worker' = [worker EXCEPT !.pc = "refuse"]
       \/ worker' = [worker EXCEPT !.pc = "check"]
    /\ UNCHANGED <<disk, start, service, published, history, bounds>>

Refuse ==
    /\ worker.pc = "refuse" /\ worker' = [worker EXCEPT !.pc = "check"]
    /\ status' = [status EXCEPT ![worker.m] = "Refused"]
    /\ UNCHANGED <<disk, start, queue, installs, asks, stop, published, history, bounds>>

\* Broken variant: a request that came during the check is taken to be answered by it.
QueueAtOnce ==
    /\ worker.pc = "requests" /\ worker' = [worker EXCEPT !.pc = "pick"]
    /\ Enqueue({m \in Modules : loaded[m] # 0 /\ status[m] = "Available"
                                 /\ (askedAll \/ m \in asked)})
    /\ asked' = {} /\ askedAll' = FALSE
    /\ UNCHANGED <<disk, start, installs, check, stop, published, had, bounds>>

\* mod_queue_requests.
QueueRequests ==
    /\ worker.pc = "requests" /\ worker' = [worker EXCEPT !.pc = "pick"]
    /\ IF check THEN UNCHANGED <<queue, status, meddled, asked, askedAll>>
       ELSE /\ Enqueue({m \in Modules : loaded[m] # 0 /\ status[m] = "Available"
                                        /\ (askedAll \/ m \in asked)})
            /\ asked' = {} /\ askedAll' = FALSE
    /\ UNCHANGED <<disk, start, installs, check, stop, published, had, bounds>>

-----------------------------------------------------------------------------
(* The worker: an update (mod_run_update) or an installation               *)
(* (mod_run_install), and mod_stage.                                       *)

Settle(s) ==
    /\ status' = [status EXCEPT ![worker.m] = s]
    /\ worker' = [worker EXCEPT !.pc = "pick", !.version = 0, !.todo = {}]

Continue(pc) == worker' = [worker EXCEPT !.pc = pc]

\* The descriptor is fetched again; an update on offer shows as such for a moment.
Describe ==
    /\ worker.pc = "describe"
    /\ \/ \E s \in IF loaded[worker.m] # 0
                   THEN (Evaluated(worker.m) \ {"Available"}) \union {"Failed", "NoRelease"}
                   ELSE {"Failed", "Blocked", "Refused"} : Settle(s)
       \/ stop /\ loaded[worker.m] # 0 /\ Settle(status[worker.m])
       \/ /\ loaded[worker.m] # 0 /\ "Available" \in Evaluated(worker.m)
          /\ status' = [status EXCEPT ![worker.m] = "Available"]
          /\ worker' = [worker EXCEPT !.pc = "accept", !.version = published[worker.m]]
       \/ /\ loaded[worker.m] = 0 /\ UNCHANGED status
          /\ worker' = [worker EXCEPT !.pc = "discard", !.version = published[worker.m]]
    /\ UNCHANGED <<disk, start, queue, installs, asks, stop, published, history, bounds>>

Accept ==
    /\ worker.pc = "accept"
    /\ \/ worker.m \in Listed /\ Settle("Refused")
       \/ status' = [status EXCEPT ![worker.m] = "Preparing"] /\ Continue("discard")
    /\ UNCHANGED <<disk, start, queue, installs, asks, stop, published, history, bounds>>

\* The index, then a payload in a staging folder that has been emptied, or nearly.
Prepare ==
    /\ worker.pc = "discard"
    /\ \/ Discard(worker.m) /\ worker' = [worker EXCEPT !.pc = "build", !.todo = Files]
       \/ UNCHANGED <<disk, faults>> /\ Continue("undo")
    /\ UNCHANGED <<start, service, published, history, acts, kills>>

\* A file is carried over or downloaded, and verified.
Place(f) ==
    /\ worker.pc = "build" /\ f \in worker.todo
    /\ payload' = [payload EXCEPT ![worker.m] = [version |-> worker.version, files |-> @.files \union {f}]]
    /\ worker' = [worker EXCEPT !.todo = @ \ {f}]
    /\ UNCHANGED <<folder, previous, ready, start, service, published, history, bounds>>

BuildFails ==
    /\ worker.pc = "build" /\ Continue("undo")
    /\ UNCHANGED <<disk, start, service, published, history, bounds>>

\* The manifest has to be there; the catalog's policy looks at every file.
Verified(m) == IF m \in Listed THEN payload[m].files = Files ELSE IsModule(payload[m])

Verify ==
    /\ worker.pc = "build" /\ worker.todo = {}
    /\ Continue(IF Verified(worker.m) THEN "arm" ELSE "undo")
    /\ UNCHANGED <<disk, start, service, published, history, bounds>>

\* MarkStagedReady needs the staging folder, MarkStagedInstall a free name.
MayArm(m) ==
    IF loaded[m] = 0 THEN ~Exists(folder[m])
    ELSE Exists(payload[m]) \/ Exists(previous[m]) \/ ready[m] # "none"

Arm ==
    /\ worker.pc = "arm"
    /\ \/ /\ MayArm(worker.m) /\ Works /\ Continue("staged")
          /\ ready' = [ready EXCEPT ![worker.m] = IF loaded[worker.m] = 0 THEN "install" ELSE "update"]
       \/ /\ IF MayArm(worker.m) THEN Fails ELSE Works
          /\ Continue("undo")
          /\ \E r \in {ready[worker.m], "none"} : ready' = [ready EXCEPT ![worker.m] = r]
    /\ UNCHANGED <<folder, payload, previous, start, service, published, history, acts, kills>>

Report ==
    /\ worker.pc = "staged" /\ Settle("Staged")
    /\ UNCHANGED <<disk, start, queue, installs, asks, stop, published, history, bounds>>

\* Broken variant: the error path reports nothing.
UndoQuietly ==
    /\ worker.pc = "undo" /\ Discard(worker.m) /\ Settle(status[worker.m])
    /\ UNCHANGED <<start, queue, installs, asks, stop, published, history, acts, kills>>

Undo ==
    /\ worker.pc = "undo" /\ Discard(worker.m)
    /\ \E s \in {"Failed"} \union (IF worker.m \in Listed THEN {"Refused"} ELSE {}) : Settle(s)
    /\ UNCHANGED <<start, queue, installs, asks, stop, published, history, acts, kills>>

-----------------------------------------------------------------------------
(* The end of the game.                                                    *)

Shutdown ==
    /\ main = "play" /\ main' = "join" /\ stop' = TRUE
    /\ UNCHANGED <<disk, at, left, loaded, status, queue, installs, asks, worker,
                   published, history, bounds>>

EndSession ==
    /\ main' = "off" /\ at' = "" /\ left' = {} /\ loaded' = [m \in Modules |-> 0]
    /\ status' = [m \in Modules |-> "none"] /\ queue' = << >> /\ installs' = << >>
    /\ check' = FALSE /\ asked' = {} /\ askedAll' = FALSE
    /\ stop' = FALSE /\ worker' = NoWorker

Exit ==
    /\ main = "join" /\ worker.pc = "none" /\ EndSession
    /\ UNCHANGED <<disk, published, history, bounds>>

\* Staging folders a death of the process leaves half removed.
BeingRemoved ==
    {m \in Modules : \/ main = "clean" /\ at = m
                     \/ main = "play" /\ ready[m] = "remove"
                     \/ worker.pc \in {"discard", "undo"} /\ worker.m = m
                     \/ worker.pc = "sweep" /\ m \in worker.todo}

Kill ==
    /\ main # "off" /\ kills < MaxKills /\ kills' = kills + 1 /\ EndSession
    /\ \/ UNCHANGED <<payload, previous, ready>>
       \/ \E m \in BeingRemoved : Remains(m)
       \/ /\ main = "remove" /\ UNCHANGED <<previous, ready>>
          /\ \E c \in Parts(payload[at]) : payload' = [payload EXCEPT ![at] = c]
       \/ /\ main = "remove" /\ payload' = [payload EXCEPT ![at] = None]
          /\ ready' = [ready EXCEPT ![at] = "torn"] /\ UNCHANGED previous
       \/ /\ worker.pc = "arm" /\ MayArm(worker.m)
          /\ ready' = [ready EXCEPT ![worker.m] = "torn"] /\ UNCHANGED <<payload, previous>>
    /\ UNCHANGED <<folder, published, history, acts, faults>>

Start == \/ Boot \/ MoveIn \/ Disarm \/ Clean \/ Discover
         \/ \E m \in Modules : \/ ApplyRemoval(m) \/ ApplyInstall(m) \/ RefuseUpdate(m)
                               \/ ForgetUpdate(m) \/ Park(m)
Player == \/ StartCheck \/ StartUpdateAll \/ CatalogRefreshed \/ RequestUpdate({}, TRUE) \/ Shutdown
          \/ \E m \in Modules : \/ StartUpdate(m) \/ StartInstall(m) \/ StageRemoval(m)
                                \/ CancelRemoval(m) \/ RequestUpdate({m}, FALSE)
Worker == \/ Pick \/ Sweep \/ CheckNext \/ CheckAnswer \/ Offer \/ Refuse \/ QueueRequests
          \/ Describe \/ Accept \/ Prepare \/ BuildFails \/ Verify \/ Arm \/ Report \/ Undo
          \/ \E f \in Files : Place(f)
Next == Start \/ Player \/ Worker \/ ArmRemoval \/ Exit \/ Kill \/ \E m \in Modules : Publish(m)
Spec == Init /\ [][Next]_vars

(* The threads of a running game run; nobody has to play, press or start.  *)
FairSpec == Spec /\ WF_vars(Worker) /\ WF_vars(ArmRemoval) /\ WF_vars(Exit)

-----------------------------------------------------------------------------
States == {"none", "Unchecked", "Checking", "Current", "NoRelease", "Available", "Blocked",
           "Refused", "CheckFailed", "Queued", "Preparing", "Staged", "Failed"}

(* Types of the state.                                                     *)
TypeOK ==
    /\ \A c \in {folder, payload, previous} :
           c \in [Modules -> [version : 0 .. Last, files : SUBSET Files]]
    /\ ready \in [Modules -> {"none", "torn", "update", "install", "remove"}]
    /\ main \in Starts \union {"off", "play", "remove", "join"}
    /\ at \in Modules \union {""} /\ left \subseteq Modules
    /\ loaded \in [Modules -> 0 .. Last] /\ status \in [Modules -> States]
    /\ queue \in Seq(Modules) /\ installs \in Seq(Modules)
    /\ check \in BOOLEAN /\ asked \subseteq Modules /\ askedAll \in BOOLEAN
    /\ stop \in BOOLEAN
    /\ worker.m \in Modules \union {""} /\ worker.version \in 0 .. Last
    /\ published \in [Modules -> 1 .. Last]
    /\ had \in [Modules -> 0 .. Last] /\ meddled \subseteq Modules
    /\ acts \in 0 .. MaxActs /\ kills \in 0 .. MaxKills /\ faults \in 0 .. MaxFaults

(* Whatever fails or dies on the way, a module the player has is in place, *)
(* whole and no older than it was, or parked whole where the next start    *)
(* finds it ("either the old module or the new one, never neither",        *)
(* xms_core.cpp:1063).  Excepted are modules somebody removed, updated     *)
(* again or installed anew while they were staged or parked.               *)
NeverNeither ==
    \A m \in Modules \ meddled : had[m] # 0 =>
        \/ folder[m] \in {Whole(v) : v \in had[m] .. Last}
        \/ /\ folder[m] = None /\ ready[m] = "update"
           /\ previous[m] \in {Whole(v) : v \in had[m] .. Last}

(* A request of the console is dropped only when the check has answered    *)
(* for the module, whenever in a check the request came                    *)
(* (mod_queue_requests, "the pass it asked for comes next").               *)
RequestsAnswered ==
    [][\A m \in Modules : (m \in asked /\ m \notin asked' /\ ~stop /\ main' # "off") =>
           status[m] \notin {"Unchecked", "Checking"}]_vars

(* What is queued or being staged comes to an end while the game runs.     *)
QueueSettles == \A m \in Modules : status[m] \in InFlight ~> status[m] \notin InFlight
=============================================================================
