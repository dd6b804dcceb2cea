-------------------------- MODULE ModUpdatesProofs --------------------------
(***************************************************************************)
(* Theorems about ModUpdates, for any modules, files and releases and any  *)
(* number of requests, failures and deaths of the game: a module nobody    *)
(* meddles with is never lost, and a request of the console is answered.   *)
(***************************************************************************)
EXTENDS ModUpdates, FiniteSetTheorems, SequenceTheorems, TLAPS

-----------------------------------------------------------------------------
(* The inductive invariant.                                                *)

Copies     == [version : 0 .. Last, files : SUBSET Files]
Session    == {"play", "remove", "join"}
RunSteps   == {"describe", "accept", "discard", "build", "arm", "staged", "undo"}
AskSteps   == {"answer", "offer", "refuse"}
CheckSteps == {"check"} \union AskSteps
Steps      == {"none", "pick", "sweep", "requests"} \union CheckSteps \union RunSteps

(* Types, and whom the main thread and the worker are dealing with.        *)
DiskTypes ==
    /\ folder \in [Modules -> Copies] /\ payload \in [Modules -> Copies]
    /\ previous \in [Modules -> Copies]
    /\ \A m \in Modules : \A c \in {folder[m], payload[m], previous[m]} : c.version = 0 => c = None
    /\ ready \in [Modules -> {"none", "torn", "update", "install", "remove"}]

MainTypes ==
    /\ main \in Starts \union Session \union {"off"}
    /\ at \in Modules \union {""} /\ left \subseteq Modules
    /\ main \in {"movein", "disarm", "clean", "remove"} => at \in Modules
    /\ loaded \in [Modules -> 0 .. Last] /\ published \in [Modules -> 1 .. Last]
    /\ had \in [Modules -> 0 .. Last] /\ meddled \subseteq Modules

ServiceTypes ==
    /\ status \in [Modules -> States]
    /\ queue \in Seq(Modules) /\ installs \in Seq(Modules)
    /\ check \in BOOLEAN /\ asked \subseteq Modules /\ askedAll \in BOOLEAN
    /\ stop \in BOOLEAN

WorkerTypes ==
    /\ worker \in [pc : Steps, m : Modules \union {""}, version : 0 .. Last,
                   todo : SUBSET (Modules \union Files)]
    /\ worker.pc \in AskSteps \union RunSteps => worker.m \in Modules
    /\ worker.pc \in {"sweep"} \union CheckSteps => worker.todo \subseteq Modules
    /\ worker.pc = "build" => worker.todo \subseteq Files
    /\ worker.pc \in {"accept", "discard", "build", "arm"} => worker.version # 0

BoundTypes == acts \in 0 .. MaxActs /\ kills \in 0 .. MaxKills /\ faults \in 0 .. MaxFaults

Types == DiskTypes /\ MainTypes /\ ServiceTypes /\ WorkerTypes /\ BoundTypes

In(m, q)   == \E i \in DOMAIN q : q[i] = m
Once(m, q) == \A i, j \in DOMAIN q : q[i] = m /\ q[j] = m => i = j
IsWhole(c) == c.version # 0 /\ c = Whole(c.version)
Armed(m)   == ready[m] \in {"update", "install"}
Runs(m)    == worker.m = m /\ worker.pc \in RunSteps

(* Only a running game has a worker and requests, and what it has loaded   *)
(* is in place; a removal is something somebody did to the module.         *)
SessionInv ==
    /\ main \notin Session => worker = NoWorker /\ queue = << >> /\ installs = << >>
    /\ main \in Session => \A m \in Modules :
           IF loaded[m] = 0 THEN ~IsModule(folder[m])
           ELSE folder[m].version = loaded[m] /\ had[m] = loaded[m]
    /\ main = "remove" => at \in meddled
    /\ \A m \in Modules : ready[m] = "remove" => m \in meddled

(* Between the steps of the start: a folder is cleaned up only when the    *)
(* module is in place and what was staged for it is spent.                 *)
StartInv ==
    /\ main = "movein" => ready[at] = "update" /\ folder[at] = None /\ IsModule(payload[at])
    /\ main = "disarm" => ready[at] = "update" /\ folder[at] # None /\ payload[at] = None
    /\ main = "clean" /\ at \notin meddled =>
           folder[at] # None /\ (ready[at] = "update" => ~IsModule(payload[at]))

(* Updates are of what is loaded, installations of what is not.            *)
LinesInv ==
    /\ \A m \in Modules : (In(m, queue) => loaded[m] # 0) /\ (In(m, installs) => loaded[m] = 0)
    /\ \A m \in Modules : In(m, installs) => m \in Listed
    /\ worker.pc \in RunSteps => loaded[worker.m] # 0 \/ worker.m \in Listed
    /\ worker.pc = "accept" => loaded[worker.m] # 0
    /\ worker.pc \in CheckSteps => \A m \in worker.todo : loaded[m] # 0
    /\ worker.pc \in AskSteps => loaded[worker.m] # 0 /\ worker.m \notin worker.todo
    /\ worker.pc = "answer" => status[worker.m] = "Checking"
    /\ worker.pc = "describe" => status[worker.m] = "Preparing"

(* For a module nobody meddles with.  It is in place, or parked and its    *)
(* successor is staged;                                                    *)
InPlace(m) ==
    IF folder[m] # None THEN IsWhole(folder[m]) /\ folder[m].version >= had[m]
    ELSE had[m] # 0 => /\ ready[m] = "update"
                       /\ IsWhole(previous[m]) /\ previous[m].version >= had[m]
                       /\ payload[m].version >= previous[m].version

(* what is armed is whole and no older, or will not be moved in;           *)
Staged(m) ==
    /\ ready[m] = "update" =>
           /\ had[m] # 0
           /\ \/ IsWhole(payload[m]) /\ payload[m].version >= had[m]
                 /\ payload[m].version >= folder[m].version
              \/ folder[m] # None /\ ~IsModule(payload[m])
    /\ ready[m] = "install" => IsWhole(payload[m]) \/ folder[m] # None

(* it is queued once, and not again before it has been dealt with;         *)
InLine(m) ==
    /\ Once(m, queue)
    /\ In(m, queue) =>
           /\ status[m] \in {"Queued", "Refused", "Unchecked"} /\ ~Armed(m) /\ ~Runs(m)
           /\ worker.pc \in {"sweep"} \union CheckSteps =>
                  status[m] = "Queued" \/ (worker.pc \in CheckSteps /\ m \notin worker.todo)
    /\ loaded[m] = 0 /\ (In(m, installs) \/ Runs(m)) => had[m] = 0 /\ Once(m, installs)
    /\ loaded[m] = 0 /\ In(m, installs) => status[m] = "Queued" /\ ready[m] = "none" /\ ~Runs(m)
    /\ loaded[m] = 0 /\ Runs(m) =>
           status[m] = "Preparing" /\ (worker.pc # "staged" => ready[m] = "none")

(* once armed it is left alone;                                            *)
LeftAlone(m) ==
    /\ main \in Session /\ loaded[m] # 0 /\ Armed(m) =>
           status[m] = "Staged" \/ (worker.m = m /\ worker.pc = "staged")
    /\ worker.m = m /\ worker.pc \in {"offer", "refuse"} \union (RunSteps \ {"staged"}) => ~Armed(m)
    /\ worker.pc = "sweep" /\ m \in worker.todo => ready[m] = "none"

(* and what is built for it is whole when it gets armed.                   *)
Built(m) ==
    worker.m = m =>
        /\ worker.pc \in {"accept", "discard", "build", "arm"} =>
               worker.version >= had[m] /\ worker.version >= folder[m].version
        /\ worker.pc = "build" => /\ Files \ worker.todo \subseteq payload[m].files
                                  /\ worker.todo # Files => payload[m].version = worker.version
        /\ worker.pc = "arm" => payload[m] = Whole(worker.version)

Kept(m) == InPlace(m) /\ Staged(m) /\ InLine(m) /\ LeftAlone(m) /\ Built(m)

IInv == /\ Types /\ SessionInv /\ StartInv /\ LinesInv
        /\ \A m \in Modules \ meddled : Kept(m)

(* For the requests: a check that nothing asks to repeat has looked at     *)
(* every module it has passed.                                             *)
Answering ==
    \A m \in Modules :
        /\ worker.pc \in CheckSteps \union {"requests"} /\ ~check /\ ~stop /\ status[m] = "Unchecked" =>
               worker.pc # "requests" /\ m \in worker.todo
        /\ status[m] = "Unchecked" => loaded[m] # 0
        /\ status[m] = "Checking" => worker.pc = "answer" /\ worker.m = m

-----------------------------------------------------------------------------
(* Folders, and what is left of them.                                      *)

LEMMA Numbers ==
    /\ Last \in Nat /\ Last # 0 /\ MaxActs \in Nat /\ MaxKills \in Nat /\ MaxFaults \in Nat
    /\ Manifest \in Files /\ Files # {} /\ Listed \subseteq Modules
BY ModulesAssumption, FilesAssumption, BoundsAssumption

LEMMA Folders ==
    /\ None \in Copies /\ None.version = 0 /\ None.files = {} /\ ~IsModule(None) /\ ~IsWhole(None)
    /\ \A v \in 0 .. Last : /\ Whole(v) \in Copies
                            /\ Whole(v).version = v /\ Whole(v).files = Files /\ IsModule(Whole(v))
BY Numbers DEF None, Whole, Copies, IsModule, IsWhole

LEMMA WholeIsModule ==
    ASSUME NEW c \in Copies, IsWhole(c)
    PROVE  IsModule(c) /\ c # None
BY Numbers DEF IsWhole, IsModule, Whole, None, Copies

LEMMA PartIsFolder ==
    ASSUME NEW c \in Copies, c.version = 0 => c = None, NEW d \in Parts(c)
    PROVE  /\ d \in Copies /\ (d.version = 0 => d = None)
           /\ IsModule(d) => IsModule(c)
           /\ c = None => d = None
<1>1. CASE d = None
  BY <1>1, Folders
<1>2. ASSUME NEW F \in SUBSET c.files, d = [c EXCEPT !.files = F]
      PROVE  d = [version |-> c.version, files |-> F]
  BY <1>2 DEF Copies
<1>3. ASSUME NEW F \in SUBSET c.files, d = [version |-> c.version, files |-> F]
      PROVE  /\ d \in Copies /\ (d.version = 0 => d = None)
             /\ IsModule(d) => IsModule(c)
             /\ c = None => d = None
  BY <1>3 DEF Copies, None, IsModule
<1> QED BY <1>1, <1>2, <1>3 DEF Parts

(* What becomes of a staging folder that is removed, all or in part.       *)
Shrinks(m) ==
    /\ payload' \in [Modules -> Copies] /\ previous' \in [Modules -> Copies]
    /\ ready' \in [Modules -> {"none", "torn", "update", "install", "remove"}]
    /\ \A x \in Modules \ {m} : payload'[x] = payload[x] /\ previous'[x] = previous[x]
                                /\ ready'[x] = ready[x]
    /\ payload'[m] \in Parts(payload[m]) /\ previous'[m] \in Parts(previous[m])
    /\ ready'[m] \in {ready[m], "none"}

LEMMA RemainsShrinks ==
    ASSUME DiskTypes, NEW m \in Modules, Remains(m)
    PROVE  Shrinks(m)
<1>1. PICK c \in Parts(payload[m]), d \in Parts(previous[m]), r \in {ready[m], "none"} :
          /\ payload' = [payload EXCEPT ![m] = c] /\ previous' = [previous EXCEPT ![m] = d]
          /\ ready' = [ready EXCEPT ![m] = r]
  BY DEF Remains
<1>2. c \in Copies /\ d \in Copies
  BY PartIsFolder DEF DiskTypes
<1> QED BY <1>1, <1>2 DEF Shrinks, DiskTypes

LEMMA EraseShrinks ==
    ASSUME DiskTypes, NEW m \in Modules, Erase(m)
    PROVE  Shrinks(m)
BY Folders DEF Erase, Shrinks, DiskTypes, Parts

LEMMA DiscardShrinks ==
    ASSUME DiskTypes, NEW m \in Modules, Discard(m)
    PROVE  folder' = folder /\ Shrinks(m)
BY RemainsShrinks, EraseShrinks DEF Discard

LEMMA ShrinkTypes ==
    ASSUME DiskTypes, NEW m \in Modules, folder' = folder, Shrinks(m)
    PROVE  DiskTypes'
<1>1. ASSUME NEW x \in Modules
      PROVE  \A c \in {folder'[x], payload'[x], previous'[x]} : c.version = 0 => c = None
  <2>1. CASE x = m
    BY <2>1, PartIsFolder DEF DiskTypes, Shrinks
  <2>2. CASE x # m
    BY <2>2 DEF DiskTypes, Shrinks
  <2> QED BY <2>1, <2>2
<1> QED BY <1>1 DEF DiskTypes, Shrinks

LEMMA OneFewer ==
    ASSUME NEW q \in Seq(Modules), q # << >>
    PROVE  /\ Head(q) \in Modules /\ Tail(q) \in Seq(Modules) /\ In(Head(q), q)
           /\ \A m : In(m, Tail(q)) => In(m, q)
           /\ \A m : Once(m, q) => Once(m, Tail(q))
           /\ Once(Head(q), q) => ~In(Head(q), Tail(q))
<1>1. Len(q) \in Nat \ {0} /\ Head(q) = q[1] /\ DOMAIN q = 1 .. Len(q)
  BY EmptySeq
<1>2. /\ Tail(q) \in Seq(Modules) /\ DOMAIN Tail(q) = 1 .. Len(q) - 1
      /\ \A i \in DOMAIN Tail(q) : i + 1 \in DOMAIN q /\ i + 1 # 1 /\ Tail(q)[i] = q[i + 1]
  BY <1>1
<1>3. 1 \in DOMAIN q /\ q[1] \in Modules
  BY <1>1
<1>4. \A m : Once(m, q) => Once(m, Tail(q))
  BY <1>1, <1>2 DEF Once
<1> QED BY <1>1, <1>2, <1>3, <1>4 DEF In, Once

LEMMA OneMore ==
    ASSUME NEW q \in Seq(Modules), NEW n \in Modules
    PROVE  /\ Append(q, n) \in Seq(Modules)
           /\ \A m : In(m, Append(q, n)) <=> In(m, q) \/ m = n
           /\ \A m : Once(m, q) /\ (m = n => ~In(m, q)) => Once(m, Append(q, n))
<1>1. /\ Append(q, n) \in Seq(Modules) /\ Len(q) \in Nat
      /\ DOMAIN Append(q, n) = 1 .. Len(q) + 1 /\ DOMAIN q = 1 .. Len(q)
      /\ Append(q, n)[Len(q) + 1] = n /\ \A i \in DOMAIN q : Append(q, n)[i] = q[i]
  OBVIOUS
<1>2. \A m : In(m, Append(q, n)) <=> In(m, q) \/ m = n
  BY <1>1 DEF In
<1>3. \A i \in DOMAIN Append(q, n) : i \in DOMAIN q \/ i = Len(q) + 1
  BY <1>1
<1> QED BY <1>1, <1>2, <1>3 DEF In, Once

LEMMA Enqueued ==
    ASSUME queue \in Seq(Modules), NEW S \in SUBSET Modules, Enqueue(S)
    PROVE  /\ queue' \in Seq(Modules)
           /\ \A m : In(m, queue') => In(m, queue) \/ m \in S
           /\ \A m : Once(m, queue) /\ (m \in S => ~In(m, queue)) => Once(m, queue')
<1>1. PICK s \in Orders(S) : queue' = queue \o s
  BY DEF Enqueue
<1>2. IsFiniteSet(S) /\ Cardinality(S) \in Nat
  BY FilesAssumption, FS_Subset, FS_CardinalityType
<1>3. /\ s \in [1 .. Cardinality(S) -> S]
      /\ \A i, j \in DOMAIN s : s[i] = s[j] => i = j
  BY <1>1 DEF Orders
<1>4. s \in Seq(Modules) /\ Len(s) = Cardinality(S) /\ DOMAIN s = 1 .. Len(s) /\ \A i \in DOMAIN s : s[i] \in S
  BY <1>2, <1>3
<1>5. /\ queue' \in Seq(Modules) /\ Len(queue) \in Nat /\ Len(s) \in Nat
      /\ DOMAIN queue = 1 .. Len(queue) /\ DOMAIN queue' = 1 .. Len(queue) + Len(s)
      /\ \A i \in DOMAIN queue' : IF i <= Len(queue) THEN i \in DOMAIN queue /\ queue'[i] = queue[i]
                                  ELSE i - Len(queue) \in DOMAIN s /\ queue'[i] = s[i - Len(queue)]
  BY <1>1, <1>4
<1>6. ASSUME NEW m, In(m, queue') PROVE In(m, queue) \/ m \in S
  BY <1>4, <1>5, <1>6 DEF In
<1>7. ASSUME NEW m, Once(m, queue), m \in S => ~In(m, queue) PROVE Once(m, queue')
  <2> SUFFICES ASSUME NEW i \in DOMAIN queue', NEW j \in DOMAIN queue', queue'[i] = m, queue'[j] = m
               PROVE  i = j
    BY DEF Once
  <2> DEFINE n == Len(queue)
  <2>1. CASE i <= n /\ j <= n
    BY <2>1, <1>5, <1>7 DEF Once
  <2>2. CASE i > n /\ j > n
    <3>1. i - n = j - n
      BY <2>2, <1>3, <1>5
    <3> QED BY <3>1, <1>5
  <2>3. CASE i <= n /\ j > n
    BY <2>3, <1>4, <1>5, <1>7 DEF In
  <2>4. CASE i > n /\ j <= n
    BY <2>4, <1>4, <1>5, <1>7 DEF In
  <2> QED BY <1>5, <2>1, <2>2, <2>3, <2>4
<1> QED BY <1>5, <1>6, <1>7

-----------------------------------------------------------------------------
(* Every step keeps the types.                                             *)

DiskStep ==
    \/ MoveIn \/ Disarm \/ Clean \/ ArmRemoval \/ Sweep \/ Prepare \/ Arm \/ Undo \/ Kill
    \/ \E m \in Modules : ApplyRemoval(m) \/ ApplyInstall(m) \/ RefuseUpdate(m) \/ Park(m) \/ CancelRemoval(m)
    \/ \E f \in Files : Place(f)

LEMMA WhoTouchesTheDisk ==
    ASSUME [Next]_vars
    PROVE  UNCHANGED disk \/ DiskStep
<1>1. CASE Start
  BY <1>1 DEF Start, DiskStep, Boot, ForgetUpdate, Discover
<1>2. CASE Player
  BY <1>2 DEF Player, DiskStep, StartCheck, StartUpdateAll, CatalogRefreshed, RequestUpdate, Shutdown,
              StartUpdate, StartInstall, StageRemoval
<1>3. CASE Worker
  BY <1>3 DEF Worker, DiskStep, Pick, CheckNext, CheckAnswer, Offer, Refuse, QueueRequests, Describe,
              Accept, BuildFails, Verify, Report
<1>4. CASE ArmRemoval \/ Exit \/ Kill \/ \E m \in Modules : Publish(m)
  BY <1>4 DEF DiskStep, Exit, Publish
<1>5. CASE UNCHANGED vars
  BY <1>5 DEF vars
<1> QED BY <1>1, <1>2, <1>3, <1>4, <1>5 DEF Next

(* What a death of the game leaves of the staging folders.                 *)
LEMMA KillRemains ==
    ASSUME Types, Kill
    PROVE  /\ folder' = folder
           /\ \/ UNCHANGED <<payload, previous, ready>>
              \/ \E m \in BeingRemoved : Shrinks(m)
              \/ /\ main = "remove" /\ UNCHANGED previous
                 /\ \E c \in Parts(payload[at]), r \in {ready[at], "torn"} :
                        payload' = [payload EXCEPT ![at] = c] /\ ready' = [ready EXCEPT ![at] = r]
              \/ /\ worker.pc = "arm" /\ UNCHANGED <<payload, previous>>
                 /\ ready' = [ready EXCEPT ![worker.m] = "torn"]
<1>1. CASE main = "remove" /\ UNCHANGED <<previous, ready>>
           /\ \E c \in Parts(payload[at]) : payload' = [payload EXCEPT ![at] = c]
  <2>1. ready' = [ready EXCEPT ![at] = ready[at]]
    BY <1>1 DEF Types, DiskTypes
  <2> QED BY <1>1, <2>1 DEF Kill
<1>2. CASE main = "remove" /\ payload' = [payload EXCEPT ![at] = None]
           /\ ready' = [ready EXCEPT ![at] = "torn"] /\ UNCHANGED previous
  <2>1. None \in Parts(payload[at])
    BY DEF Parts
  <2> QED BY <1>2, <2>1 DEF Kill
<1>3. ASSUME NEW m \in BeingRemoved, Remains(m)
      PROVE  Shrinks(m)
  BY <1>3, RemainsShrinks DEF Types, BeingRemoved
<1> QED BY <1>1, <1>2, <1>3 DEF Kill

LEMMA DiskTypesKept ==
    ASSUME Types, [Next]_vars
    PROVE  DiskTypes'
<1> USE DEF Types
<1>1. CASE UNCHANGED disk
  BY <1>1 DEF DiskTypes, disk
<1>2. ASSUME NEW m \in Modules, ApplyRemoval(m) PROVE DiskTypes'
  BY <1>2, Folders DEF ApplyRemoval, DiskTypes
<1>3. ASSUME NEW m \in Modules, ApplyInstall(m) PROVE DiskTypes'
  BY <1>3, Folders DEF ApplyInstall, DiskTypes
<1>4. ASSUME NEW m \in Modules, RefuseUpdate(m) PROVE DiskTypes'
  BY <1>4, Folders DEF RefuseUpdate, DiskTypes
<1>5. ASSUME NEW m \in Modules, Park(m) PROVE DiskTypes'
  <2>1. CASE \E c \in Parts(previous[m]) : previous' = [previous EXCEPT ![m] = c] /\ UNCHANGED <<folder, payload, ready>>
    BY <2>1, PartIsFolder DEF DiskTypes
  <2> QED BY <1>5, <2>1, Folders DEF Park, DiskTypes
<1>6. CASE MoveIn
  <2>1. at \in Modules
    BY <1>6 DEF MoveIn, MainTypes
  <2> QED BY <1>6, <2>1, Folders DEF MoveIn, DiskTypes
<1>7. CASE Disarm
  BY <1>7 DEF Disarm, DiskTypes, MainTypes
<1>8. CASE Clean
  BY <1>8, DiscardShrinks, ShrinkTypes DEF Clean, MainTypes
<1>9. CASE ArmRemoval
  <2>1. folder' = folder /\ previous' = previous
    BY <1>9 DEF ArmRemoval
  <2>2. payload' \in [Modules -> Copies] /\ \A m \in Modules : payload'[m] \in {payload[m], None}
    BY <1>9, Folders DEF ArmRemoval, DiskTypes
  <2>3. ready' \in [Modules -> {"none", "torn", "update", "install", "remove"}]
    <3>1. CASE ready' = [ready EXCEPT ![at] = "remove"]
      BY <3>1 DEF DiskTypes
    <3>2. CASE \E r \in {ready[at], "none"} : ready' = [ready EXCEPT ![at] = r]
      BY <3>2 DEF DiskTypes
    <3> QED BY <1>9, <3>1, <3>2 DEF ArmRemoval
  <2> QED BY <2>1, <2>2, <2>3 DEF DiskTypes
<1>10. ASSUME NEW m \in Modules, CancelRemoval(m) PROVE DiskTypes'
  BY <1>10, DiscardShrinks, ShrinkTypes DEF CancelRemoval
<1>11. CASE Sweep
  <2>1. CASE UNCHANGED disk
    BY <2>1, <1>1
  <2>2. ASSUME NEW m \in worker.todo, Discard(m) PROVE DiskTypes'
    BY <2>2, <1>11, DiscardShrinks, ShrinkTypes DEF Sweep, WorkerTypes
  <2> QED BY <1>11, <2>1, <2>2 DEF Sweep
<1>12. CASE Prepare
  <2>1. worker.m \in Modules
    BY <1>12 DEF Prepare, WorkerTypes, RunSteps
  <2> QED BY <1>1, <1>12, <2>1, DiscardShrinks, ShrinkTypes DEF Prepare
<1>13. ASSUME NEW f \in Files, Place(f) PROVE DiskTypes'
  <2>1. worker.m \in Modules /\ worker.version \in 0 .. Last \ {0}
    BY <1>13 DEF Place, WorkerTypes, RunSteps
  <2>2. [version |-> worker.version, files |-> payload[worker.m].files \union {f}] \in Copies
    BY <2>1 DEF DiskTypes, Copies
  <2> QED BY <1>13, <2>1, <2>2 DEF Place, DiskTypes
<1>14. CASE Arm
  <2>1. worker.m \in Modules
    BY <1>14 DEF Arm, WorkerTypes, RunSteps
  <2> QED BY <1>14, <2>1 DEF Arm, DiskTypes
<1>15. CASE Undo
  <2>1. worker.m \in Modules
    BY <1>15 DEF Undo, WorkerTypes, RunSteps
  <2> QED BY <1>15, <2>1, DiscardShrinks, ShrinkTypes DEF Undo
<1>16. CASE Kill
  <2>1. ASSUME NEW m \in BeingRemoved, Shrinks(m) PROVE DiskTypes'
    BY <2>1, <1>16, KillRemains, ShrinkTypes DEF BeingRemoved
  <2>2. ASSUME main = "remove", UNCHANGED previous, NEW c \in Parts(payload[at]), NEW r \in {ready[at], "torn"},
               payload' = [payload EXCEPT ![at] = c], ready' = [ready EXCEPT ![at] = r]
        PROVE  DiskTypes'
    <3>1. at \in Modules
      BY <2>2 DEF MainTypes
    <3>2. c \in Copies /\ (c.version = 0 => c = None)
      BY <2>2, <3>1, PartIsFolder DEF DiskTypes
    <3> QED BY <2>2, <1>16, KillRemains, <3>1, <3>2 DEF DiskTypes
  <2>3. CASE worker.pc = "arm" /\ UNCHANGED <<payload, previous>> /\ ready' = [ready EXCEPT ![worker.m] = "torn"]
    BY <2>3, <1>16, KillRemains DEF DiskTypes
  <2> QED BY <1>1, <1>16, <2>1, <2>2, <2>3, KillRemains DEF disk
<1> QED BY <1>1, <1>2, <1>3, <1>4, <1>5, <1>6, <1>7, <1>8, <1>9, <1>10, <1>11, <1>12, <1>13, <1>14,
           <1>15, <1>16, WhoTouchesTheDisk DEF DiskStep

LEMMA MainTypesKept ==
    ASSUME Types, [Next]_vars
    PROVE  MainTypes'
<1> USE DEF MainTypes, Starts, Session
<1>0. 0 \in 0 .. Last /\ [m \in Modules |-> 0] \in [Modules -> 0 .. Last]
  BY Numbers
<1>1. ASSUME NEW m \in Modules,
             ApplyRemoval(m) \/ ApplyInstall(m) \/ RefuseUpdate(m) \/ ForgetUpdate(m) \/ Park(m)
      PROVE  MainTypes'
  <2>1. ASSUME CleanUp(m) \/ Skip(m)
        PROVE  /\ main' \in {"clean", "apply"} /\ at' \in Modules \union {""} /\ left' \subseteq Modules
               /\ (main' = "clean" => at' = m) /\ loaded' = loaded
    BY <2>1 DEF Types, CleanUp, Skip
  <2>2. CASE ApplyRemoval(m)
    BY <1>0, <2>1, <2>2 DEF Types, ApplyRemoval
  <2>3. CASE ApplyInstall(m) \/ RefuseUpdate(m) \/ ForgetUpdate(m)
    BY <2>1, <2>3 DEF Types, ApplyInstall, RefuseUpdate, ForgetUpdate, history
  <2>4. CASE Park(m)
    BY <2>1, <2>4 DEF Types, Park, history
  <2> QED BY <1>1, <2>2, <2>3, <2>4
<1>2. CASE Boot \/ MoveIn \/ Disarm \/ Clean
  BY <1>2 DEF Types, Boot, MoveIn, Disarm, Clean, history
<1>3. CASE Discover
  <2>1. \A m \in Modules : folder[m].version \in 0 .. Last
    BY DEF Types, DiskTypes, Copies
  <2>2. loaded' \in [Modules -> 0 .. Last] /\ had' \in [Modules -> 0 .. Last]
    BY <1>0, <1>3, <2>1 DEF Types, Discover
  <2> QED BY <1>3, <2>2 DEF Types, Discover
<1>4. ASSUME NEW m \in Modules, StartUpdate(m) \/ StartInstall(m) \/ StageRemoval(m) \/ CancelRemoval(m) \/ Publish(m)
      PROVE  MainTypes'
  <2>1. CASE Publish(m)
    <3>1. published[m] \in 1 .. Last /\ published[m] < Last
      BY <2>1 DEF Types, Publish
    <3>2. published[m] + 1 \in 1 .. Last
      BY <3>1, Numbers
    <3> QED BY <2>1, <3>2 DEF Types, Publish, start, history
  <2>2. CASE StageRemoval(m) \/ CancelRemoval(m)
    BY <2>2 DEF Types, StageRemoval, CancelRemoval, start, history
  <2>3. CASE StartUpdate(m) \/ StartInstall(m)
    BY <2>3 DEF Types, StartUpdate, StartInstall, Enqueue, Meddled, start
  <2> QED BY <1>4, <2>1, <2>2, <2>3
<1>5. CASE StartCheck \/ StartUpdateAll \/ CatalogRefreshed \/ Shutdown \/ ArmRemoval
  BY <1>5 DEF Types, StartCheck, StartUpdateAll, CatalogRefreshed, Shutdown, ArmRemoval, Enqueue, Meddled,
              start, history
<1>6. ASSUME NEW ids, NEW all, RequestUpdate(ids, all) PROVE MainTypes'
  BY <1>6 DEF Types, RequestUpdate, start, history
<1>7. CASE Worker
  BY <1>7 DEF Types, Worker, Pick, Sweep, CheckNext, CheckAnswer, Offer, Refuse, QueueRequests, Describe,
              Accept, Prepare, Place, BuildFails, Verify, Arm, Report, Undo, Enqueue, Meddled, start, history
<1>8. CASE Exit \/ Kill
  BY <1>0, <1>8 DEF Types, Exit, Kill, EndSession, history
<1>9. CASE UNCHANGED vars
  BY <1>9 DEF Types, vars, start, history
<1> QED BY <1>1, <1>2, <1>3, <1>4, <1>5, <1>6, <1>7, <1>8, <1>9 DEF Next, Start, Player

LEMMA ServiceTypesKept ==
    ASSUME Types, [Next]_vars
    PROVE  ServiceTypes'
<1> USE DEF ServiceTypes, States
<1>0. /\ [m \in Modules |-> "none"] \in [Modules -> States]
      /\ << >> \in Seq(Modules)
  OBVIOUS
<1>1. CASE UNCHANGED service
  BY <1>1 DEF Types, service, asks
<1>2. CASE Discover
  BY <1>2 DEF Types, Discover, asks
<1>3. CASE Start /\ ~Discover
  BY <1>1, <1>3 DEF Start, Boot, MoveIn, Disarm, Clean, ApplyRemoval, ApplyInstall, RefuseUpdate, ForgetUpdate, Park
<1>4. ASSUME NEW m \in Modules, StartUpdate(m) PROVE ServiceTypes'
  BY <1>4, Enqueued DEF Types, StartUpdate, Enqueue, asks
<1>5. CASE StartUpdateAll
  <2> DEFINE S == {m \in Modules : loaded[m] # 0 /\ status[m] = "Available"}
  <2>1. S \in SUBSET Modules /\ Enqueue(S)
    BY <1>5 DEF StartUpdateAll
  <2> HIDE DEF S
  <2>2. UNCHANGED <<installs, asks, stop>>
    BY <1>5 DEF StartUpdateAll
  <2> QED BY <2>1, <2>2, Enqueued DEF Types, Enqueue, asks
<1>6. ASSUME NEW m \in Modules, StartInstall(m) PROVE ServiceTypes'
  BY <1>6, OneMore DEF Types, StartInstall, asks
<1>7. ASSUME NEW ids \in SUBSET Modules, NEW all \in BOOLEAN, RequestUpdate(ids, all) PROVE ServiceTypes'
  BY <1>7 DEF Types, RequestUpdate
<1>8. CASE StartCheck \/ CatalogRefreshed \/ Shutdown
  BY <1>8 DEF Types, StartCheck, CatalogRefreshed, Shutdown, asks
<1>9. CASE Pick
  BY <1>9, OneFewer DEF Types, Pick
<1>10. CASE QueueRequests
  <2>1. CASE check
    BY <1>10, <2>1 DEF Types, QueueRequests
  <2>2. CASE ~check
    <3>1. PICK S \in SUBSET Modules : Enqueue(S)
      BY <1>10, <2>2 DEF QueueRequests
    <3> QED BY <1>10, <2>2, <3>1, Enqueued DEF Types, QueueRequests, Enqueue
  <2> QED BY <2>1, <2>2
<1>11. CASE CheckNext \/ Offer \/ Refuse \/ Report
  BY <1>11 DEF Types, CheckNext, Offer, Refuse, Report, Settle, service, asks
<1>12. CASE CheckAnswer
  BY <1>12 DEF Types, CheckAnswer, Evaluated, asks
<1>13. CASE Describe
  <2>1. worker.m \in Modules
    BY <1>13 DEF Types, Describe, WorkerTypes, RunSteps
  <2> QED BY <1>13, <2>1 DEF Types, Describe, Settle, Evaluated, asks
<1>14. CASE Accept \/ Undo
  BY <1>14 DEF Types, Accept, Undo, Settle, asks
<1>15. CASE \/ Sweep \/ Prepare \/ BuildFails \/ Verify \/ Arm \/ ArmRemoval
            \/ \E f \in Files : Place(f)
            \/ \E m \in Modules : StageRemoval(m) \/ CancelRemoval(m) \/ Publish(m)
  BY <1>1, <1>15 DEF Sweep, Prepare, BuildFails, Verify, Arm, ArmRemoval, Place, StageRemoval, CancelRemoval, Publish
<1>16. CASE Exit \/ Kill
  BY <1>0, <1>16 DEF Types, Exit, Kill, EndSession
<1>17. CASE UNCHANGED vars
  BY <1>1, <1>17 DEF vars
<1> QED BY <1>2, <1>3, <1>4, <1>5, <1>6, <1>7, <1>8, <1>9, <1>10, <1>11, <1>12, <1>13, <1>14, <1>15, <1>16, <1>17
        DEF Next, Player, Worker

LEMMA WorkerTypesKept ==
    ASSUME Types, [Next]_vars
    PROVE  WorkerTypes'
<1> USE DEF WorkerTypes, Steps, CheckSteps, AskSteps, RunSteps
<1>0. /\ 0 \in 0 .. Last
      /\ NoWorker \in [pc : Steps, m : Modules \union {""}, version : 0 .. Last, todo : SUBSET (Modules \union Files)]
      /\ NoWorker.pc = "none"
  BY Numbers DEF NoWorker
<1>1. CASE UNCHANGED worker
  BY <1>1 DEF Types
<1>2. CASE Wake
  <2> DEFINE w == [NoWorker EXCEPT !.pc = "pick"]
  <2>1. w.pc = "pick" /\ w \in [pc : Steps, m : Modules \union {""}, version : 0 .. Last, todo : SUBSET (Modules \union Files)]
    BY <1>0 DEF NoWorker
  <2> HIDE DEF w
  <2>2. w.pc = "pick" => w.pc \notin {"sweep", "build", "accept", "discard", "arm"} \union CheckSteps \union RunSteps
    OBVIOUS
  <2>3. worker' = w \/ worker' = worker
    BY <1>2 DEF Wake, w
  <2> QED BY <1>1, <2>1, <2>2, <2>3
<1>3. CASE Exit \/ Kill
  BY <1>0, <1>3 DEF Exit, Kill, EndSession
<1>4. CASE Start
  BY <1>1, <1>4 DEF Start, Boot, MoveIn, Disarm, Clean, Discover, ApplyRemoval, ApplyInstall, RefuseUpdate, ForgetUpdate, Park
<1>5. CASE Player
  BY <1>1, <1>2, <1>5 DEF Player, StartCheck, StartUpdateAll, CatalogRefreshed, RequestUpdate, Shutdown,
                          StartUpdate, StartInstall, StageRemoval, CancelRemoval
<1>6. CASE Pick
  <2>1. ASSUME NEW q \in {queue, installs}, q # << >>,
               worker' = [worker EXCEPT !.pc = "describe", !.m = Head(q)]
        PROVE  WorkerTypes'
    <3>1. Head(q) \in Modules
      BY <2>1, OneFewer DEF Types, ServiceTypes
    <3> QED BY <2>1, <3>1 DEF Types
  <2>2. CASE worker' = [worker EXCEPT !.pc = "sweep", !.todo = {m \in Modules : Unarmed(m)}]
    BY <2>2 DEF Types
  <2>3. CASE worker' = NoWorker
    BY <1>0, <2>3
  <2> QED BY <1>6, <2>1, <2>2, <2>3 DEF Pick
<1>7. CASE Sweep
  <2>1. ASSUME NEW m \in worker.todo, worker' = [worker EXCEPT !.todo = @ \ {m}] PROVE WorkerTypes'
    BY <2>1, <1>7 DEF Types, Sweep
  <2>2. CASE worker' = [worker EXCEPT !.pc = "check", !.todo = {m \in Modules : loaded[m] # 0}]
    BY <2>2, <1>7 DEF Types, Sweep
  <2> QED BY <1>7, <2>1, <2>2 DEF Sweep
<1>7a. CASE CheckNext
  <2>1. ASSUME NEW m \in worker.todo,
               \/ worker' = [worker EXCEPT !.pc = "answer", !.m = m, !.todo = @ \ {m}]
               \/ worker' = [worker EXCEPT !.todo = @ \ {m}]
        PROVE  WorkerTypes'
    BY <2>1, <1>7a DEF Types, CheckNext
  <2>2. CASE worker' = [worker EXCEPT !.pc = "requests", !.todo = {}]
    BY <2>2, <1>7a DEF Types, CheckNext
  <2> QED BY <1>7a, <2>1, <2>2 DEF CheckNext
<1>8. CASE CheckAnswer \/ Offer \/ Refuse \/ QueueRequests
  BY <1>8 DEF Types, CheckAnswer, Offer, Refuse, QueueRequests
<1>9. ASSUME NEW s, Settle(s) PROVE WorkerTypes'
  BY <1>0, <1>9 DEF Types, Settle
<1>10. CASE Describe
  <2>1. worker.m \in Modules
    BY <1>10 DEF Types, Describe
  <2>2. published[worker.m] \in 0 .. Last /\ published[worker.m] # 0
    <3>1. published[worker.m] \in 1 .. Last
      BY <2>1 DEF Types, MainTypes
    <3> QED BY <3>1, Numbers
  <2> QED BY <1>9, <1>10, <2>1, <2>2 DEF Types, Describe
<1>11. CASE Accept \/ Report \/ Undo
  BY <1>9, <1>11 DEF Types, Accept, Report, Undo, Continue
<1>12. CASE Prepare \/ BuildFails \/ Verify \/ Arm
  BY <1>12 DEF Types, Prepare, BuildFails, Verify, Arm, Continue
<1>13. ASSUME NEW f \in Files, Place(f) PROVE WorkerTypes'
  BY <1>13 DEF Types, Place
<1>14. CASE ArmRemoval \/ \E m \in Modules : Publish(m)
  BY <1>1, <1>14 DEF ArmRemoval, Publish
<1>15. CASE UNCHANGED vars
  BY <1>1, <1>15 DEF vars
<1> QED BY <1>3, <1>4, <1>5, <1>6, <1>7, <1>7a, <1>8, <1>10, <1>11, <1>12, <1>13, <1>14, <1>15 DEF Next, Worker

LEMMA BoundTypesKept ==
    ASSUME Types, [Next]_vars
    PROVE  BoundTypes'
<1> USE Numbers DEF BoundTypes, Types, Works, bounds, Act, Fails
<1>1. \A m \in Modules : Discard(m) => UNCHANGED faults \/ Fails
  BY DEF Discard
<1>2. CASE Start
  <2>1. UNCHANGED <<acts, kills>> /\ (UNCHANGED faults \/ Fails)
    <3>1. CASE Clean
      BY <1>1, <3>1 DEF Clean, MainTypes
    <3>2. ASSUME NEW m \in Modules, ApplyRemoval(m) \/ ApplyInstall(m) \/ RefuseUpdate(m)
          PROVE  UNCHANGED <<acts, kills>> /\ (UNCHANGED faults \/ Fails)
      BY <3>2 DEF ApplyRemoval, ApplyInstall, RefuseUpdate
    <3>3. ASSUME NEW m \in Modules, ForgetUpdate(m) \/ Park(m)
          PROVE  UNCHANGED <<acts, kills>> /\ (UNCHANGED faults \/ Fails)
      BY <3>3 DEF ForgetUpdate, Park
    <3> QED BY <1>2, <3>1, <3>2, <3>3 DEF Start, Boot, MoveIn, Disarm, Discover
  <2> QED BY <2>1
<1>3. CASE Player
  <2>1. kills' = kills /\ (UNCHANGED acts \/ Act) /\ (UNCHANGED faults \/ Fails)
    <3>1. ASSUME NEW m \in Modules, CancelRemoval(m)
          PROVE  UNCHANGED <<acts, kills>> /\ (UNCHANGED faults \/ Fails)
      BY <1>1, <3>1 DEF CancelRemoval
    <3> QED BY <1>3, <3>1 DEF Player, StartCheck, StartUpdateAll, CatalogRefreshed, RequestUpdate, Shutdown,
                              StartUpdate, StartInstall, StageRemoval
  <2> QED BY <2>1
<1>4. CASE Sweep \/ Prepare \/ Arm \/ Undo
  <2>1. UNCHANGED <<acts, kills>> /\ (UNCHANGED faults \/ Fails)
    BY <1>1, <1>4 DEF Sweep, Prepare, Arm, Undo, WorkerTypes, CheckSteps, AskSteps, RunSteps
  <2> QED BY <2>1
<1>5. CASE Worker /\ ~(Sweep \/ Prepare \/ Arm \/ Undo)
  BY <1>5 DEF Worker, Pick, CheckNext, CheckAnswer, Offer, Refuse, QueueRequests, Describe, Accept, Place,
              BuildFails, Verify, Report
<1>6. CASE ArmRemoval \/ Exit \/ Kill \/ \E m \in Modules : Publish(m)
  BY <1>6 DEF ArmRemoval, Exit, Kill, Publish
<1>7. CASE UNCHANGED vars
  BY <1>7 DEF vars
<1> QED BY <1>2, <1>3, <1>4, <1>5, <1>6, <1>7 DEF Next

LEMMA TypesKept == ASSUME Types, [Next]_vars PROVE Types'
BY DiskTypesKept, MainTypesKept, ServiceTypesKept, WorkerTypesKept, BoundTypesKept DEF Types

-----------------------------------------------------------------------------
(* The parts of a step: the start, the session, its end.                   *)

StartStep ==
    \/ Boot \/ MoveIn \/ Disarm \/ Clean
    \/ \E m \in Modules : ApplyRemoval(m) \/ ApplyInstall(m) \/ RefuseUpdate(m) \/ ForgetUpdate(m) \/ Park(m)
SessionStep == Player \/ Worker \/ ArmRemoval

LEMMA StepKinds ==
    ASSUME [Next]_vars
    PROVE  \/ StartStep \/ Discover \/ SessionStep \/ Exit \/ Kill
           \/ \E m \in Modules : Publish(m)
           \/ UNCHANGED vars
BY DEF Next, Start, StartStep, SessionStep

LEMMA StartFrame ==
    ASSUME StartStep
    PROVE  main \notin Session /\ main' \notin Session /\ UNCHANGED <<service, worker, meddled, published>>
<1>1. ASSUME NEW m, Skip(m) \/ CleanUp(m) PROVE main' \notin Session
  BY <1>1 DEF Skip, CleanUp, Session
<1>2. ASSUME NEW m \in Modules, ApplyRemoval(m) \/ ApplyInstall(m) \/ RefuseUpdate(m) \/ ForgetUpdate(m) \/ Park(m)
      PROVE  main \notin Session /\ main' \notin Session /\ UNCHANGED <<service, worker, meddled, published>>
  BY <1>1, <1>2 DEF ApplyRemoval, ApplyInstall, RefuseUpdate, ForgetUpdate, Park, Session, history
<1> QED BY <1>2 DEF StartStep, Boot, MoveIn, Disarm, Clean, Session, history

LEMMA Idle == NoWorker.pc = "none" /\ NoWorker.m = "" /\ NoWorker.todo = {}
BY DEF NoWorker

LEMMA WorkerRuns ==
    ASSUME Worker
    PROVE  worker.pc # "none" /\ main' = main /\ UNCHANGED <<at, left, loaded, had, stop>>
           /\ folder' = folder /\ meddled \subseteq meddled'
<1>1. \A m : Discard(m) => folder' = folder
  BY DEF Discard
<1>2. CASE Sweep \/ Prepare \/ Undo
  BY <1>1, <1>2 DEF Sweep, Prepare, Undo, start, service, history, disk
<1>3. CASE Pick \/ CheckNext \/ CheckAnswer \/ Offer \/ Refuse \/ QueueRequests
  BY <1>3 DEF Pick, CheckNext, CheckAnswer, Offer, Refuse, QueueRequests, Enqueue, start, service, history, disk
<1>4. CASE Describe \/ Accept \/ BuildFails \/ Verify \/ Arm \/ Report \/ \E f \in Files : Place(f)
  BY <1>4 DEF Describe, Accept, BuildFails, Verify, Arm, Report, Place, start, service, history, disk
<1> QED BY <1>2, <1>3, <1>4 DEF Worker

LEMMA SessionFrame ==
    ASSUME Types, SessionInv, SessionStep
    PROVE  /\ main \in Session /\ main' \in Session
           /\ folder' = folder /\ UNCHANGED <<had, loaded>> /\ meddled \subseteq meddled'
<1>1. CASE Player
  <2>1. ASSUME NEW m \in Modules, CancelRemoval(m) PROVE folder' = folder
    BY <2>1 DEF CancelRemoval, Discard
  <2> QED BY <1>1, <2>1 DEF Player, StartCheck, StartUpdateAll, CatalogRefreshed, RequestUpdate, Shutdown, Enqueue,
                 StartUpdate, StartInstall, StageRemoval, CancelRemoval, Session, start, disk, history
<1>2. CASE Worker
  <2>1. main \in Session
    BY <1>2, Idle, WorkerRuns DEF SessionInv
  <2> QED BY <1>2, <2>1, WorkerRuns
<1>3. CASE ArmRemoval
  BY <1>3 DEF ArmRemoval, Session, history
<1> QED BY <1>1, <1>2, <1>3 DEF SessionStep

(* Only the next start takes a module off the list of those meddled with.  *)
LEMMA MeddledStays ==
    ASSUME Types, SessionInv, [Next]_vars, ~Discover
    PROVE  meddled \subseteq meddled'
BY StepKinds, StartFrame, SessionFrame DEF Exit, Kill, Publish, history, vars

LEMMA Empty == \A m : ~In(m, << >>) /\ Once(m, << >>)
BY DEF In, Once

LEMMA SessionKept ==
    ASSUME IInv, [Next]_vars
    PROVE  SessionInv'
<1> USE DEF IInv
<1>1. main' \notin Session => worker' = NoWorker /\ queue' = << >> /\ installs' = << >>
  BY StepKinds, StartFrame, SessionFrame
     DEF SessionInv, Discover, Session, Exit, Kill, EndSession, Publish, service, start, vars
<1>2. main' \in Session => \A m \in Modules :
          IF loaded'[m] = 0 THEN ~IsModule(folder'[m])
          ELSE folder'[m].version = loaded'[m] /\ had'[m] = loaded'[m]
  <2>1. CASE Discover
    <3>1. ASSUME NEW m \in Modules
          PROVE  IF loaded'[m] = 0 THEN ~IsModule(folder'[m])
                 ELSE folder'[m].version = loaded'[m] /\ had'[m] = loaded'[m]
      <4>1. /\ loaded'[m] = IF IsModule(folder[m]) THEN folder[m].version ELSE 0
            /\ had'[m] = (IF Exists(folder[m]) THEN folder[m].version ELSE had[m])
            /\ folder' = folder
        BY <2>1 DEF Discover, disk
      <4>2. IsModule(folder[m]) => Exists(folder[m]) /\ folder[m].version # 0
        BY Folders DEF Types, DiskTypes, Exists
      <4> QED BY <4>1, <4>2
    <3> QED BY <3>1
  <2>2. CASE SessionStep
    BY <2>2, SessionFrame DEF SessionInv
  <2>3. CASE UNCHANGED vars \/ \E m \in Modules : Publish(m)
    BY <2>3 DEF SessionInv, Publish, vars, start, history, disk
  <2> QED BY <2>1, <2>2, <2>3, StepKinds, StartFrame DEF Exit, Kill, EndSession, Session
<1>3. main' = "remove" => at' \in meddled'
  <2>1. ASSUME NEW m \in Modules, StageRemoval(m) PROVE at' \in meddled'
    BY <2>1 DEF StageRemoval
  <2>2. ASSUME Player, \A m \in Modules : ~StageRemoval(m) PROVE main' # "remove"
    BY <2>2 DEF Player, StartCheck, StartUpdateAll, CatalogRefreshed, RequestUpdate, Shutdown,
                StartUpdate, StartInstall, CancelRemoval, start
  <2>3. CASE Worker
    BY <2>3, WorkerRuns DEF SessionInv
  <2> QED BY <2>1, <2>2, <2>3, StepKinds, StartFrame
          DEF SessionInv, SessionStep, ArmRemoval, Discover, Exit, Kill, EndSession, Publish, Session, start, history, vars
<1>4. ASSUME NEW m \in Modules, ready'[m] = "remove" PROVE m \in meddled'
  <2>1. CASE Discover
    BY <1>4, <2>1 DEF Discover, disk, SessionInv
  <2>2. CASE ~Discover /\ ready[m] = "remove"
    BY <2>2, MeddledStays DEF SessionInv
  <2>3. CASE ~Discover /\ ready[m] # "remove"
    <3>1. ASSUME NEW x \in Modules, Shrinks(x) PROVE FALSE
      BY <1>4, <2>3, <3>1 DEF Shrinks
    <3>2. \A x \in Modules : ~Discard(x)
      BY <3>1, DiscardShrinks DEF Types
    <3>3. CASE ArmRemoval
      BY <1>4, <2>3, <3>3 DEF ArmRemoval, SessionInv, Types, DiskTypes, history
    <3>4. CASE Kill
      BY <1>4, <2>3, <3>1, <3>4, KillRemains DEF Types, DiskTypes, BeingRemoved
    <3>5. CASE Arm
      BY <1>4, <2>3, <3>5 DEF Arm, Types, DiskTypes
    <3>6. CASE MoveIn \/ Disarm \/ \E x \in Modules : ApplyRemoval(x) \/ ApplyInstall(x) \/ RefuseUpdate(x) \/ Park(x)
      BY <1>4, <2>3, <3>6 DEF MoveIn, Disarm, ApplyRemoval, ApplyInstall, RefuseUpdate, Park, Types, DiskTypes
    <3>7. CASE Clean \/ Sweep \/ Prepare \/ Undo \/ \E x \in Modules : CancelRemoval(x)
      BY <1>4, <2>3, <3>2, <3>7 DEF Clean, Sweep, Prepare, Undo, CancelRemoval, Types, MainTypes, WorkerTypes, CheckSteps, AskSteps, RunSteps, disk
    <3>8. CASE \E f \in Files : Place(f)
      BY <1>4, <2>3, <3>8 DEF Place
    <3> QED BY <1>4, <2>3, <3>3, <3>4, <3>5, <3>6, <3>7, <3>8, WhoTouchesTheDisk DEF DiskStep, disk
  <2> QED BY <2>1, <2>2, <2>3
<1> QED BY <1>1, <1>2, <1>3, <1>4 DEF SessionInv

LEMMA StartKept ==
    ASSUME IInv, [Next]_vars
    PROVE  StartInv'
<1> USE DEF IInv
<1>0. \A m : Skip(m) => main' = "apply"
  BY DEF Skip
<1>1. CASE main' = "movein"
  <2>1. ASSUME NEW m \in Modules, Park(m) PROVE StartInv'
    BY <1>0, <1>1, <2>1, Folders DEF Park, StartInv, Types, DiskTypes, Exists
  <2>2. ASSUME NEW m \in Modules, ApplyRemoval(m) \/ ApplyInstall(m) \/ RefuseUpdate(m) \/ ForgetUpdate(m) PROVE FALSE
    BY <1>0, <1>1, <2>2 DEF ApplyRemoval, ApplyInstall, RefuseUpdate, ForgetUpdate, CleanUp
  <2>3. CASE UNCHANGED vars \/ \E m \in Modules : Publish(m)
    BY <1>1, <2>3 DEF StartInv, Publish, vars, start, disk, history
  <2> QED BY <1>1, <2>1, <2>2, <2>3, StepKinds, SessionFrame
          DEF StartStep, Boot, MoveIn, Disarm, Clean, Discover, Exit, Kill, EndSession, Session
<1>2. CASE main' = "disarm"
  <2>1. CASE MoveIn
    <3>1. at \in Modules /\ IsModule(payload[at])
      BY <2>1 DEF MoveIn, StartInv, Types, MainTypes
    <3>2. payload[at] # None
      BY <3>1, Folders
    <3> QED BY <1>2, <2>1, <3>1, <3>2 DEF MoveIn, StartInv, Types, DiskTypes
  <2>2. ASSUME NEW m \in Modules, ApplyRemoval(m) \/ ApplyInstall(m) \/ RefuseUpdate(m) \/ ForgetUpdate(m) \/ Park(m) PROVE FALSE
    BY <1>0, <1>2, <2>2 DEF ApplyRemoval, ApplyInstall, RefuseUpdate, ForgetUpdate, Park, CleanUp
  <2>3. CASE UNCHANGED vars \/ \E m \in Modules : Publish(m)
    BY <1>2, <2>3 DEF StartInv, Publish, vars, start, disk, history
  <2> QED BY <1>2, <2>1, <2>2, <2>3, StepKinds, SessionFrame
          DEF StartStep, Boot, Disarm, Clean, Discover, Exit, Kill, EndSession, Session
<1>3. CASE main' = "clean"
  <2> DEFINE Done == at' \notin meddled' =>
                         folder'[at'] # None /\ (ready'[at'] = "update" => ~IsModule(payload'[at']))
  <2> SUFFICES Done
    BY <1>3 DEF StartInv
  <2>1. ASSUME NEW m \in Modules, ApplyRemoval(m) PROVE Done
    BY <1>0, <1>3, <2>1 DEF ApplyRemoval, CleanUp, SessionInv
  <2>2. ASSUME NEW m \in Modules, ApplyInstall(m) PROVE Done
    <3>1. CASE folder' = folder /\ payload' = payload
      BY <1>0, <1>3, <2>2, <3>1, WholeIsModule DEF ApplyInstall, CleanUp, Kept, Staged, Exists, history, Types, DiskTypes
    <3>2. CASE folder' # folder \/ payload' # payload
      BY <1>0, <1>3, <2>2, <3>2, Folders DEF ApplyInstall, CleanUp, history, Types, DiskTypes
    <3> QED BY <3>1, <3>2
  <2>3. ASSUME NEW m \in Modules, RefuseUpdate(m) PROVE Done
    <3>1. m \notin meddled => folder[m] # None
      BY <2>3, WholeIsModule DEF RefuseUpdate, Kept, Staged, Types, DiskTypes
    <3> QED BY <1>3, <2>3, <3>1 DEF RefuseUpdate, CleanUp, Exists, history
  <2>4. ASSUME NEW m \in Modules, ForgetUpdate(m) PROVE Done
    <3>1. ASSUME m \notin meddled PROVE FALSE
      <4>1. had[m] # 0 /\ InPlace(m)
        BY <2>4, <3>1 DEF ForgetUpdate, Kept, Staged
      <4>2. ~NoLongerInstalled(m)
        BY <4>1, WholeIsModule DEF InPlace, NoLongerInstalled, Exists, Types, DiskTypes
      <4> QED BY <2>4, <4>2 DEF ForgetUpdate
    <3> QED BY <2>4, <3>1 DEF ForgetUpdate, CleanUp, history
  <2>5. CASE Disarm
    BY <2>5, Folders DEF Disarm, StartInv, history
  <2>6. ASSUME NEW m \in Modules, Park(m) PROVE FALSE
    BY <1>0, <1>3, <2>6 DEF Park
  <2>7. CASE UNCHANGED vars \/ \E m \in Modules : Publish(m)
    BY <1>3, <2>7 DEF StartInv, Publish, vars, start, disk, history
  <2> HIDE DEF Done
  <2> QED BY <1>3, <2>1, <2>2, <2>3, <2>4, <2>5, <2>6, <2>7, StepKinds, SessionFrame
          DEF StartStep, Boot, MoveIn, Clean, Discover, Exit, Kill, EndSession, Session
<1> QED BY <1>1, <1>2, <1>3 DEF StartInv

-----------------------------------------------------------------------------
(* What is requested and who works on it.                                  *)

LEMMA LinesKept ==
    ASSUME IInv, [Next]_vars
    PROVE  LinesInv'
<1> USE DEF IInv
<1> DEFINE Steady == queue' = queue /\ installs' = installs /\ loaded' = loaded
           SameWorker == worker' = worker \/ worker'.pc \in {"none", "pick"}
           Keeps(s) == \A m \in Modules : status[m] = s => status'[m] = s
<1>1. CASE main' \notin Session
  <2>1. worker'.pc = "none" /\ queue' = << >> /\ installs' = << >>
    BY <1>1, Idle, SessionKept DEF SessionInv
  <2> QED BY <2>1, Empty DEF LinesInv, RunSteps, CheckSteps, AskSteps
<1>2. CASE Discover
  <2>1. worker'.pc = "none" /\ queue' = << >> /\ installs' = << >>
    BY <1>2, Idle DEF Discover, SessionInv, Session
  <2> QED BY <2>1, Empty DEF LinesInv, RunSteps, CheckSteps, AskSteps
<1>3. ASSUME loaded' = loaded, SameWorker, Keeps("Checking"), Keeps("Preparing"),
             \A m \in Modules : In(m, queue') => In(m, queue) \/ loaded[m] # 0,
             \A m \in Modules : In(m, installs') => In(m, installs) \/ (loaded[m] = 0 /\ m \in Listed)
      PROVE  LinesInv'
  <2>1. CASE worker' = worker
    BY <1>3, <2>1 DEF LinesInv, Types, WorkerTypes, AskSteps, RunSteps
  <2>2. CASE worker'.pc \in {"none", "pick"}
    BY <1>3, <2>2 DEF LinesInv, RunSteps, CheckSteps, AskSteps
  <2> QED BY <1>3, <2>1, <2>2
<1>4. ASSUME UNCHANGED <<loaded, queue, installs, status>>, SameWorker PROVE LinesInv'
  BY <1>3, <1>4
<1>5. Wake => SameWorker
  BY DEF Wake, NoWorker
<1>6. CASE Player
  <2>1. CASE StartCheck \/ Shutdown \/ \E m \in Modules : StageRemoval(m) \/ CancelRemoval(m)
    BY <1>4, <1>5, <2>1 DEF StartCheck, Shutdown, StageRemoval, CancelRemoval, start, service
  <2>2. CASE CatalogRefreshed \/ RequestUpdate({}, TRUE) \/ \E m \in Modules : RequestUpdate({m}, FALSE)
    BY <1>3, <1>5, <2>2 DEF CatalogRefreshed, RequestUpdate, start
  <2>3. ASSUME NEW S \in SUBSET Modules, Enqueue(S), \A m \in S : loaded[m] # 0 /\ status[m] \in {"Available", "Failed"},
               Wake, UNCHANGED <<loaded, installs>>
        PROVE  LinesInv'
    <3>1. Keeps("Checking") /\ Keeps("Preparing")
      BY <2>3 DEF Enqueue
    <3>2. \A m \in Modules : In(m, queue') => In(m, queue) \/ loaded[m] # 0
      BY <2>3, Enqueued DEF Types, ServiceTypes
    <3> QED BY <1>3, <1>5, <2>3, <3>1, <3>2
  <2>4. ASSUME NEW m \in Modules, StartUpdate(m) PROVE LinesInv'
    BY <2>3, <2>4 DEF StartUpdate, start
  <2>5. CASE StartUpdateAll
    BY <2>3, <2>5 DEF StartUpdateAll, start
  <2>6. ASSUME NEW m \in Modules, StartInstall(m) PROVE LinesInv'
    <3>1. \A x \in Modules : In(x, installs') => In(x, installs) \/ (loaded[x] = 0 /\ x \in Listed)
      BY <2>6, OneMore DEF StartInstall, Types, ServiceTypes
    <3> QED BY <1>3, <1>5, <2>6, <3>1 DEF StartInstall, start
  <2> QED BY <1>6, <2>1, <2>2, <2>4, <2>5, <2>6 DEF Player
<1>7. CASE Pick
  <2>1. ASSUME NEW q \in {queue, installs}, q # << >>, worker' = [worker EXCEPT !.pc = "describe", !.m = Head(q)],
               status' = [status EXCEPT ![Head(q)] = "Preparing"],
               queue' \in {queue, Tail(queue)}, installs' \in {installs, Tail(installs)}, loaded' = loaded,
               queue' # queue => queue # << >>, installs' # installs => installs # << >>
        PROVE  LinesInv'
    <3>1. Head(q) \in Modules /\ In(Head(q), q)
      BY <2>1, OneFewer DEF Types, ServiceTypes
    <3>2. worker'.pc = "describe" /\ worker'.m = Head(q) /\ status'[Head(q)] = "Preparing"
      BY <2>1, <3>1 DEF Types, WorkerTypes, ServiceTypes
    <3>3. \A m : (In(m, queue') => In(m, queue)) /\ (In(m, installs') => In(m, installs))
      BY <2>1, OneFewer DEF Types, ServiceTypes
    <3> QED BY <2>1, <3>1, <3>2, <3>3 DEF LinesInv, CheckSteps, AskSteps, RunSteps
  <2>2. CASE worker' = NoWorker /\ UNCHANGED <<status, queue, installs, loaded>>
    BY <1>4, <2>2 DEF NoWorker
  <2>3. CASE worker' = [worker EXCEPT !.pc = "sweep", !.todo = {m \in Modules : Unarmed(m)}]
             /\ UNCHANGED <<status, queue, installs, loaded>>
    BY <2>3 DEF LinesInv, CheckSteps, AskSteps, RunSteps, Types, WorkerTypes
  <2> QED BY <1>7, <2>1, <2>2, <2>3 DEF Pick, start
<1>8. CASE Sweep \/ CheckNext
  <2>1. UNCHANGED <<loaded, queue, installs>>
    BY <1>8 DEF Sweep, CheckNext, start, service
  <2>2. CASE worker' = [worker EXCEPT !.pc = "check", !.todo = {m \in Modules : loaded[m] # 0}]
    BY <2>1, <2>2 DEF LinesInv, CheckSteps, AskSteps, RunSteps, Types, WorkerTypes
  <2>3. ASSUME worker.pc \in {"sweep", "check"}, NEW m \in worker.todo, worker' = [worker EXCEPT !.todo = @ \ {m}]
        PROVE  LinesInv'
    BY <2>1, <2>3 DEF LinesInv, CheckSteps, AskSteps, RunSteps, Types, WorkerTypes
  <2>4. ASSUME worker.pc = "check", NEW m \in worker.todo, status' = [status EXCEPT ![m] = "Checking"],
               worker' = [worker EXCEPT !.pc = "answer", !.m = m, !.todo = @ \ {m}]
        PROVE  LinesInv'
    BY <2>1, <2>4 DEF LinesInv, CheckSteps, AskSteps, RunSteps, Types, WorkerTypes, ServiceTypes
  <2>5. CASE worker' = [worker EXCEPT !.pc = "requests", !.todo = {}]
    BY <2>1, <2>5 DEF LinesInv, CheckSteps, AskSteps, RunSteps, Types, WorkerTypes
  <2> QED BY <1>8, <2>2, <2>3, <2>4, <2>5 DEF Sweep, CheckNext
<1>9. CASE CheckAnswer \/ Offer \/ Refuse
  <2>1. UNCHANGED <<loaded, queue, installs>> /\ worker.pc \in AskSteps
    BY <1>9 DEF CheckAnswer, Offer, Refuse, AskSteps, start, service
  <2>2. ASSUME NEW s \in {"check", "offer", "refuse"}, worker' = [worker EXCEPT !.pc = s] PROVE LinesInv'
    BY <2>1, <2>2 DEF LinesInv, CheckSteps, AskSteps, RunSteps, Types, WorkerTypes
  <2> QED BY <1>9, <2>2 DEF CheckAnswer, Offer, Refuse
<1>10. CASE QueueRequests
  <2>1. worker'.pc = "pick" /\ UNCHANGED <<loaded, installs>>
    BY <1>10 DEF QueueRequests, Types, WorkerTypes, start
  <2> DEFINE S == {m \in Modules : loaded[m] # 0 /\ status[m] = "Available" /\ (askedAll \/ m \in asked)}
  <2>2. queue' = queue \/ Enqueue(S)
    BY <1>10 DEF QueueRequests
  <2>3. Enqueue(S) => \A m \in Modules : In(m, queue') => In(m, queue) \/ m \in S
    BY Enqueued DEF Types, ServiceTypes
  <2>4. \A m \in Modules : In(m, queue') => In(m, queue) \/ loaded[m] # 0
    BY <2>2, <2>3
  <2> QED BY <2>1, <2>4 DEF LinesInv, CheckSteps, AskSteps, RunSteps
<1>11. ASSUME NEW s, Settle(s), UNCHANGED <<loaded, queue, installs>> PROVE LinesInv'
  <2>1. worker'.pc = "pick"
    BY <1>11 DEF Settle, Types, WorkerTypes
  <2> QED BY <1>11, <2>1 DEF LinesInv, CheckSteps, AskSteps, RunSteps
<1>12. ASSUME NEW s \in RunSteps \ {"describe", "accept"}, worker.pc \in RunSteps, worker'.pc = s, worker'.m = worker.m,
              UNCHANGED <<loaded, queue, installs>>
       PROVE  LinesInv'
  BY <1>12 DEF LinesInv, CheckSteps, AskSteps, RunSteps
<1>13. CASE Describe
  <2>1. CASE worker' = [worker EXCEPT !.pc = "accept", !.version = published[worker.m]] /\ loaded[worker.m] # 0
             /\ UNCHANGED <<loaded, queue, installs>>
    BY <2>1 DEF LinesInv, CheckSteps, AskSteps, RunSteps, Types, WorkerTypes
  <2> QED BY <1>11, <1>12, <1>13, <2>1 DEF Describe, start, Types, WorkerTypes, RunSteps
<1>14. CASE Accept \/ Report \/ Undo
  BY <1>11, <1>12, <1>14 DEF Accept, Report, Undo, Continue, start, Types, WorkerTypes, RunSteps
<1>15. CASE Prepare \/ BuildFails \/ Verify \/ Arm \/ \E f \in Files : Place(f)
  BY <1>12, <1>15 DEF Prepare, BuildFails, Verify, Arm, Place, Continue, start, service, Types, WorkerTypes, RunSteps
<1>16. CASE ArmRemoval \/ UNCHANGED vars \/ \E m \in Modules : Publish(m)
  BY <1>4, <1>16 DEF ArmRemoval, Publish, vars, start, service
<1> QED BY <1>1, <1>2, <1>6, <1>7, <1>8, <1>9, <1>10, <1>13, <1>14, <1>15, <1>16, StepKinds, StartFrame
        DEF SessionStep, Worker, Exit, Kill, EndSession, Session

-----------------------------------------------------------------------------
(* What a step does to the folders of a module nobody meddles with:        *)
(* nothing, or it touches what is not armed or will not be moved in, or it *)
(* is one of the four steps an update is made of.                          *)

SameAt(m) == /\ folder'[m] = folder[m] /\ payload'[m] = payload[m] /\ previous'[m] = previous[m]
             /\ ready'[m] = ready[m] /\ had'[m] = had[m]
Loose(m) ==
    /\ folder'[m] = folder[m] /\ had'[m] = had[m]
    /\ ready'[m] \in {ready[m], "none"} \/ (ready'[m] = "torn" /\ main' = "off")
    /\ Armed(m) => folder[m] # None /\ (ready[m] = "update" => ~IsModule(payload'[m]))
Moves(m) == ApplyInstall(m) \/ Park(m) \/ (MoveIn /\ at = m) \/ (Arm /\ worker.m = m)

LEMMA AtOneModule ==
    ASSUME IInv, [Next]_vars, ~Discover, NEW m \in Modules \ meddled'
    PROVE  SameAt(m) \/ Loose(m) \/ Moves(m)
<1> USE DEF IInv
<1>0. m \notin meddled /\ Kept(m) /\ ready[m] # "remove"
  BY MeddledStays DEF SessionInv
<1>1. CASE UNCHANGED disk
  <2>1. ASSUME NEW x \in Modules, ApplyRemoval(x) PROVE had'[m] = had[m]
    BY <1>0, <2>1 DEF ApplyRemoval, Types, MainTypes
  <2>2. ASSUME StartStep, \A x \in Modules : ~ApplyRemoval(x) PROVE had' = had
    BY <2>2 DEF StartStep, Boot, ForgetUpdate, ApplyInstall, RefuseUpdate, Park, MoveIn, Disarm, Clean, history
  <2>3. had'[m] = had[m]
    BY <2>1, <2>2, StepKinds, SessionFrame DEF StartStep, Exit, Kill, Publish, history, vars
  <2> QED BY <1>1, <2>3 DEF SameAt, disk
<1>2. ASSUME NEW x \in Modules, x # m, ApplyRemoval(x) \/ ApplyInstall(x) \/ RefuseUpdate(x) \/ Park(x)
      PROVE  SameAt(m)
  <2>1. CASE ApplyRemoval(x)
    BY <1>2, <2>1 DEF ApplyRemoval, SameAt, Types, DiskTypes, MainTypes
  <2>2. CASE ApplyInstall(x) \/ RefuseUpdate(x) \/ Park(x)
    BY <1>2, <2>2 DEF ApplyInstall, RefuseUpdate, Park, SameAt, Types, DiskTypes, history
  <2> QED BY <1>2, <2>1, <2>2
<1>3. ~ApplyRemoval(m)
  BY <1>0 DEF ApplyRemoval
<1>4. CASE RefuseUpdate(m)
  <2>1. Exists(folder[m])
    BY <1>0, <1>4, WholeIsModule DEF RefuseUpdate, Kept, Staged, Exists, Types, DiskTypes
  <2> QED BY <1>4, <2>1 DEF RefuseUpdate, SameAt, history
<1>5. CASE (MoveIn \/ Disarm) /\ at # m
  BY <1>5 DEF MoveIn, Disarm, SameAt, Types, DiskTypes, MainTypes, history
<1>6. CASE Disarm /\ at = m
  BY <1>0, <1>6, Folders DEF Disarm, StartInv, Loose, Types, DiskTypes, history
<1>7. ASSUME NEW x \in Modules, Shrinks(x), folder' = folder, had' = had,
             x = m => (Armed(m) => folder[m] # None /\ (ready[m] = "update" => ~IsModule(payload[m])))
      PROVE  SameAt(m) \/ Loose(m)
  <2>1. CASE x = m
    <3>1. IsModule(payload'[m]) => IsModule(payload[m])
      BY <1>7, <2>1, PartIsFolder DEF Shrinks, Types, DiskTypes
    <3> QED BY <1>7, <2>1, <3>1 DEF Loose, Shrinks
  <2>2. CASE x # m
    BY <1>7, <2>2 DEF SameAt, Shrinks
  <2> QED BY <2>1, <2>2
<1>8. CASE Clean
  <2>1. at \in Modules /\ Shrinks(at) /\ folder' = folder /\ had' = had
    BY <1>8, DiscardShrinks DEF Clean, Types, MainTypes, history
  <2> QED BY <1>0, <1>7, <1>8, <2>1 DEF StartInv, Clean
<1>9. ASSUME NEW x \in Modules, CancelRemoval(x) PROVE SameAt(m) \/ Loose(m)
  BY <1>0, <1>7, <1>9, DiscardShrinks DEF CancelRemoval, Types, history
<1>10. CASE ArmRemoval
  <2>1. at # m /\ at \in Modules
    BY <1>0, <1>10 DEF ArmRemoval, SessionInv, Types, MainTypes
  <2> QED BY <1>10, <2>1 DEF ArmRemoval, SameAt, Types, DiskTypes, history
<1>11. CASE Sweep
  <2>1. ASSUME NEW x \in worker.todo, Discard(x), worker.pc = "sweep" PROVE SameAt(m) \/ Loose(m)
    <3>1. x \in Modules /\ Shrinks(x) /\ folder' = folder /\ had' = had
      BY <1>11, <2>1, DiscardShrinks DEF Sweep, Types, WorkerTypes, history
    <3> QED BY <1>0, <1>7, <2>1, <3>1 DEF Kept, LeftAlone, Armed
  <2> QED BY <1>1, <1>11, <2>1 DEF Sweep
<1>12. CASE Prepare \/ Undo
  <2>1. worker.m \in Modules /\ had' = had /\ (worker.m = m => ~Armed(m))
    BY <1>0, <1>12 DEF Prepare, Undo, Types, WorkerTypes, RunSteps, history, Kept, LeftAlone
  <2>2. CASE Discard(worker.m)
    BY <1>7, <2>1, <2>2, DiscardShrinks DEF Types
  <2> QED BY <1>1, <1>12, <2>2 DEF Prepare, Undo
<1>13. ASSUME NEW f \in Files, Place(f) PROVE SameAt(m) \/ Loose(m)
  <2>1. worker.m \in Modules /\ (worker.m = m => ~Armed(m))
    BY <1>0, <1>13 DEF Place, Types, WorkerTypes, RunSteps, Kept, LeftAlone
  <2> QED BY <1>13, <2>1 DEF Place, SameAt, Loose, Types, DiskTypes, history
<1>14. CASE Arm /\ worker.m # m
  BY <1>14 DEF Arm, SameAt, Types, DiskTypes, WorkerTypes, RunSteps, history
<1>15. CASE Kill
  <2>1. had' = had /\ folder' = folder
    BY <1>15 DEF Kill, history
  <2>2. ASSUME NEW x \in BeingRemoved, Shrinks(x) PROVE SameAt(m) \/ Loose(m)
    <3>1. x = m => (Armed(m) => folder[m] # None /\ (ready[m] = "update" => ~IsModule(payload[m])))
      BY <1>0, <2>2 DEF BeingRemoved, StartInv, Kept, LeftAlone, Armed, RunSteps
    <3> QED BY <1>7, <2>1, <2>2, <3>1 DEF BeingRemoved
  <2>3. ASSUME main = "remove", UNCHANGED previous, NEW c \in Parts(payload[at]), NEW r \in {ready[at], "torn"},
               payload' = [payload EXCEPT ![at] = c], ready' = [ready EXCEPT ![at] = r]
        PROVE  SameAt(m)
    BY <1>0, <2>1, <2>3 DEF SessionInv, SameAt, Types, DiskTypes
  <2>4. CASE worker.pc = "arm" /\ UNCHANGED <<payload, previous>> /\ ready' = [ready EXCEPT ![worker.m] = "torn"]
    <3>1. worker.m = m => ~Armed(m)
      BY <1>0, <2>4 DEF Kept, LeftAlone, RunSteps
    <3> QED BY <1>15, <2>1, <2>4, <3>1 DEF Kill, EndSession, SameAt, Loose, Types, DiskTypes
  <2> QED BY <1>1, <1>15, <2>1, <2>2, <2>3, <2>4, KillRemains DEF disk
<1> QED BY <1>1, <1>2, <1>3, <1>4, <1>5, <1>6, <1>8, <1>9, <1>10, <1>11, <1>12, <1>13, <1>14, <1>15,
           WhoTouchesTheDisk DEF DiskStep, Moves

LEMMA InPlaceKept ==
    ASSUME IInv, [Next]_vars, ~Discover, NEW m \in Modules \ meddled'
    PROVE  InPlace(m)' /\ Staged(m)'
<1> USE DEF IInv
<1>0. m \notin meddled /\ InPlace(m) /\ Staged(m)
  BY MeddledStays DEF Kept
<1>1. CASE SameAt(m)
  BY <1>0, <1>1 DEF SameAt, InPlace, Staged
<1>2. CASE Loose(m)
  BY <1>0, <1>2 DEF Loose, InPlace, Staged, Armed
<1>3. CASE ApplyInstall(m)
  <2>1. CASE UNCHANGED <<folder, payload>>
    BY <1>0, <1>3, <2>1 DEF ApplyInstall, InPlace, Staged, history
  <2>2. CASE folder' = [folder EXCEPT ![m] = payload[m]] /\ payload' = [payload EXCEPT ![m] = None] /\ folder[m] = None
    <3>1. had[m] = 0 /\ IsWhole(payload[m]) /\ payload[m] # None
      BY <1>0, <1>3, <2>2, WholeIsModule DEF ApplyInstall, InPlace, Staged, Types, DiskTypes
    <3>2. folder'[m] = payload[m] /\ ready'[m] = "install" /\ had' = had
      BY <1>3, <2>2 DEF ApplyInstall, history, Types, DiskTypes
    <3>3. payload[m].version >= 0
      BY Numbers DEF Types, DiskTypes, Copies
    <3> QED BY <3>1, <3>2, <3>3 DEF InPlace, Staged
  <2> QED BY <1>3, <2>1, <2>2 DEF ApplyInstall, Exists
<1>4. CASE Park(m)
  <2>1. /\ IsWhole(payload[m]) /\ payload[m].version >= had[m] /\ payload[m].version >= folder[m].version
        /\ had[m] # 0 /\ UNCHANGED <<payload, ready, had>> /\ ready[m] = "update"
    BY <1>0, <1>4 DEF Park, Staged, history
  <2>2. CASE folder' = folder /\ folder[m] # None
    BY <1>0, <2>1, <2>2 DEF InPlace, Staged
  <2>3. CASE UNCHANGED <<folder, previous>>
    BY <1>0, <2>1, <2>3 DEF InPlace, Staged
  <2>4. CASE folder[m] # None /\ previous' = [previous EXCEPT ![m] = folder[m]] /\ folder' = [folder EXCEPT ![m] = None]
    <3>1. folder'[m] = None /\ previous'[m] = folder[m]
      BY <2>4 DEF Types, DiskTypes
    <3>2. payload[m].version >= None.version
      BY Folders, Numbers DEF Types, DiskTypes, Copies
    <3> QED BY <1>0, <2>1, <2>4, <3>1, <3>2 DEF InPlace, Staged
  <2> QED BY <1>4, <2>2, <2>3, <2>4 DEF Park, Exists
<1>5. CASE MoveIn /\ at = m
  <2>1. /\ ready[m] = "update" /\ folder[m] = None /\ IsModule(payload[m]) /\ had[m] # 0
        /\ IsWhole(payload[m]) /\ payload[m].version >= had[m] /\ ready' = ready /\ had' = had
        /\ IsWhole(previous[m]) /\ previous[m].version >= had[m]
        /\ payload[m].version >= previous[m].version
    BY <1>0, <1>5 DEF MoveIn, StartInv, InPlace, Staged, history
  <2>2. CASE folder' = [folder EXCEPT ![m] = payload[m]] /\ payload' = [payload EXCEPT ![m] = None]
    <3>1. folder'[m] = payload[m] /\ payload'[m] = None /\ payload[m] # None
      BY <2>1, <2>2, WholeIsModule DEF Types, DiskTypes
    <3> QED BY <2>1, <3>1, Folders DEF InPlace, Staged
  <2>3. CASE folder' = [folder EXCEPT ![m] = previous[m]] /\ payload' = payload
    <3>1. previous[m] # None
      BY <2>1, WholeIsModule DEF Types, DiskTypes
    <3>2. folder'[m] = previous[m]
      BY <2>3 DEF Types, DiskTypes
    <3> QED BY <2>1, <2>3, <3>1, <3>2 DEF InPlace, Staged
  <2>4. CASE UNCHANGED <<folder, payload, previous>>
    BY <1>0, <2>1, <2>4 DEF InPlace, Staged
  <2> QED BY <1>5, <2>2, <2>3, <2>4 DEF MoveIn
<1>6. CASE Arm /\ worker.m = m
  <2>1. /\ ~Armed(m) /\ payload[m] = Whole(worker.version) /\ worker.version # 0
        /\ worker.version >= had[m] /\ worker.version >= folder[m].version
    BY <1>0, <1>6 DEF Arm, Kept, LeftAlone, Built, RunSteps, Types, WorkerTypes
  <2>2. worker.version \in 0 .. Last
    BY DEF Types, WorkerTypes
  <2>3. IsWhole(payload[m]) /\ payload[m].version = worker.version
    BY <2>1, <2>2, Folders DEF IsWhole
  <2>4. main \in Session
    BY <1>6, Idle DEF Arm, SessionInv
  <2>5. UNCHANGED <<folder, payload, previous, had>>
    BY <1>6 DEF Arm, history
  <2>6. loaded[m] # 0 => folder[m] # None /\ had[m] # 0
    BY <2>4, Folders DEF SessionInv
  <2>7. folder[m] # None \/ had[m] = 0
    BY <1>0, <2>1 DEF InPlace, Armed
  <2>8. ready'[m] = "update" => loaded[m] # 0
    BY <1>6, <2>1 DEF Arm, Armed, Types, DiskTypes
  <2> QED BY <1>0, <2>1, <2>3, <2>5, <2>6, <2>7, <2>8 DEF InPlace, Staged
<1> QED BY <1>1, <1>2, <1>3, <1>4, <1>5, <1>6, AtOneModule DEF Moves

-----------------------------------------------------------------------------
(* The lines of requests, and what the worker builds.                      *)

Line(m) == InLine(m) /\ LeftAlone(m) /\ Built(m)

(* While the game runs, only the worker changes what is armed, and only    *)
(* for the module it works on.                                             *)
LEMMA ReadyInSession ==
    ASSUME IInv, [Next]_vars, SessionStep, NEW m \in Modules \ meddled'
    PROVE  /\ m \notin meddled /\ Kept(m) /\ folder'[m] = folder[m]
           /\ ready'[m] \in {ready[m], "none"} \/ (Arm /\ worker.m = m)
<1>1. main \in Session /\ main' \in Session /\ meddled \subseteq meddled' /\ folder' = folder
  BY SessionFrame DEF IInv
<1>2. ~Discover /\ ~ApplyInstall(m) /\ ~Park(m) /\ ~MoveIn
  BY <1>1 DEF Session, Discover, ApplyInstall, Park, MoveIn
<1>3. SameAt(m) \/ Loose(m) \/ (Arm /\ worker.m = m)
  BY <1>2, AtOneModule DEF Moves
<1> QED BY <1>1, <1>3 DEF IInv, SameAt, Loose, Session

LEMMA PlayerLeavesFolders ==
    ASSUME IInv, Player \/ ArmRemoval, NEW m \in Modules \ meddled'
    PROVE  SameAt(m)
<1> USE DEF IInv
<1>0. m \notin meddled /\ ready[m] # "remove"
  BY SessionFrame DEF SessionInv, SessionStep
<1>1. CASE ArmRemoval
  <2>1. at # m /\ at \in Modules
    BY <1>0, <1>1 DEF ArmRemoval, SessionInv, Types, MainTypes
  <2> QED BY <1>1, <2>1 DEF ArmRemoval, SameAt, Types, DiskTypes, history
<1>2. ASSUME NEW x \in Modules, CancelRemoval(x) PROVE SameAt(m)
  <2>1. x # m /\ Shrinks(x) /\ folder' = folder
    BY <1>0, <1>2, DiscardShrinks DEF CancelRemoval, Types
  <2> QED BY <1>2, <2>1 DEF CancelRemoval, Shrinks, SameAt, history
<1>3. CASE Player /\ \A x \in Modules : ~CancelRemoval(x)
  BY <1>3 DEF Player, StartCheck, StartUpdateAll, CatalogRefreshed, RequestUpdate, Shutdown,
              StartUpdate, StartInstall, StageRemoval, Enqueue, SameAt, disk, history
<1> QED BY <1>1, <1>2, <1>3

(* Where nothing is asked for and the worker does not look.                *)
LEMMA Beside ==
    ASSUME SessionInv, LinesInv, NEW m \in Modules, Line(m), main \in Session, status'[m] = status[m],
           UNCHANGED <<queue, installs, loaded, had>>, ready'[m] \in {ready[m], "none"},
           worker'.pc \notin {"sweep"} \union CheckSteps,
           worker'.m # m \/ worker'.pc \in {"none", "pick", "requests"},
           ~(worker.m = m /\ worker.pc = "staged")
    PROVE  Line(m)'
BY DEF Line, InLine, LeftAlone, Built, Runs, Armed, RunSteps, CheckSteps, AskSteps

(* Updates that are asked for: by the player, or found by a check.         *)
LEMMA EnqueueKeeps ==
    ASSUME IInv, NEW S \in SUBSET Modules, Enqueue(S), main \in Session,
           \A x \in S : loaded[x] # 0 /\ status[x] \in {"Available", "Failed"},
           UNCHANGED <<installs, loaded, had, folder>>,
           worker' = worker \/ worker'.pc = "pick", worker'.pc = "pick" => ~(worker.pc \in RunSteps),
           NEW m \in Modules \ meddled', m \notin meddled, SameAt(m)
    PROVE  Line(m)'
<1>1. Line(m) /\ m \in Modules
  BY DEF IInv, Kept, Line
<1>2. /\ status'[m] = IF m \in S THEN "Queued" ELSE status[m]
      /\ m \in S => ~(worker.m = m /\ worker.pc \in Staging)
  BY DEF Enqueue, Meddled
<1>3. /\ In(m, queue') => In(m, queue) \/ m \in S
      /\ Once(m, queue) /\ (m \in S => ~In(m, queue)) => Once(m, queue')
  BY Enqueued DEF IInv, Types, ServiceTypes
<1>4. m \in S => ~In(m, queue) /\ ~Armed(m) /\ ~Runs(m) /\ loaded[m] # 0
  <2> SUFFICES ASSUME m \in S PROVE ~In(m, queue) /\ ~Armed(m) /\ ~Runs(m) /\ loaded[m] # 0
    OBVIOUS
  <2>1. status[m] \in {"Available", "Failed"} /\ loaded[m] # 0
    OBVIOUS
  <2>2. ~In(m, queue)
    BY <1>1, <2>1 DEF Line, InLine
  <2>3. ~Runs(m)
    BY <1>2, <2>1 DEF IInv, LinesInv, Runs, RunSteps, Staging
  <2>4. ~Armed(m)
    BY <1>1, <1>2, <2>1 DEF Line, LeftAlone, Staging
  <2> QED BY <2>1, <2>2, <2>3, <2>4
<1>5. ready'[m] = ready[m] /\ payload'[m] = payload[m]
  BY DEF SameAt
<1>6. Runs(m)' => Runs(m) /\ worker' = worker
  BY DEF Runs, RunSteps
<1>7. InLine(m)'
  <2>1. Once(m, queue')
    BY <1>1, <1>3, <1>4 DEF Line, InLine
  <2>2. In(m, queue') =>
           /\ status'[m] \in {"Queued", "Refused", "Unchecked"} /\ ~Armed(m)' /\ ~Runs(m)'
           /\ worker'.pc \in {"sweep"} \union CheckSteps =>
                  status'[m] = "Queued" \/ (worker'.pc \in CheckSteps /\ m \notin worker'.todo)
    BY <1>1, <1>2, <1>3, <1>4, <1>5, <1>6 DEF Line, InLine, Armed, CheckSteps, AskSteps
  <2>3. loaded[m] = 0 => m \notin S
    BY <1>4
  <2> QED BY <1>1, <1>2, <1>5, <1>6, <2>1, <2>2, <2>3 DEF Line, InLine
<1>8. LeftAlone(m)'
  BY <1>1, <1>2, <1>4, <1>5, <1>6 DEF Line, LeftAlone, Armed, RunSteps
<1>9. Built(m)'
  BY <1>1, <1>5 DEF Line, Built
<1> QED BY <1>7, <1>8, <1>9 DEF Line

LEMMA WakeUp ==
    ASSUME Wake
    PROVE  worker' = worker \/ (worker'.pc = "pick" /\ ~(worker.pc \in RunSteps))
BY DEF Wake, NoWorker, RunSteps

LEMMA PlayerKeepsLine ==
    ASSUME IInv, [Next]_vars, Player \/ ArmRemoval, NEW m \in Modules \ meddled'
    PROVE  Line(m)'
<1> USE DEF IInv
<1>0. /\ main \in Session /\ main' \in Session /\ m \notin meddled /\ m \in Modules
      /\ UNCHANGED <<folder, had, loaded>> /\ Line(m) /\ SameAt(m)
  BY SessionFrame, PlayerLeavesFolders DEF SessionStep, Kept, Line
<1>1. Wake => worker' = worker \/ (worker'.pc = "pick" /\ ~(worker.pc \in RunSteps))
  BY WakeUp
<1>2. CASE UNCHANGED <<status, queue, installs>> /\ (worker' = worker \/ Wake)
  <2>1. CASE worker' = worker
    BY <1>0, <1>2, <2>1 DEF SameAt, Line, InLine, LeftAlone, Built, Runs, Armed
  <2>2. CASE worker'.pc = "pick" /\ ~(worker.pc \in RunSteps)
    BY <1>0, <1>2, <2>2, Beside DEF SameAt, CheckSteps, AskSteps, RunSteps
  <2> QED BY <1>1, <1>2, <2>1, <2>2
<1>3. CASE StartCheck \/ Shutdown \/ ArmRemoval \/ \E x \in Modules : StageRemoval(x) \/ CancelRemoval(x)
  BY <1>2, <1>3 DEF StartCheck, Shutdown, ArmRemoval, StageRemoval, CancelRemoval, service
<1>4. ASSUME NEW S \in SUBSET Modules, UNCHANGED <<queue, installs>>, Wake,
             status' = [x \in Modules |-> IF x \in S THEN "Unchecked" ELSE status[x]],
             \A x \in S : loaded[x] # 0 /\ status[x] \in {"Failed", "Current", "NoRelease", "Blocked", "Available",
                                                         "Refused", "CheckFailed", "Unchecked"}
      PROVE  Line(m)'
  <2>1. m \in S => loaded[m] # 0 /\ ~(status[m] \in {"Queued", "Staged", "Preparing"})
    BY <1>4
  <2>2. CASE m \notin S
    <3>1. status'[m] = status[m]
      BY <1>4, <2>2
    <3>2. CASE worker' = worker
      BY <1>0, <1>4, <3>1, <3>2 DEF SameAt, Line, InLine, LeftAlone, Built, Runs, Armed
    <3>3. CASE worker'.pc = "pick" /\ ~(worker.pc \in RunSteps)
      BY <1>0, <1>4, <3>1, <3>3, Beside DEF SameAt, CheckSteps, AskSteps, RunSteps
    <3> QED BY <1>1, <1>4, <3>2, <3>3
  <2>3. CASE m \in S
    <3>1. status'[m] = "Unchecked"
      BY <1>4, <2>3
    <3>2. CASE worker' = worker
      BY <1>0, <1>4, <2>1, <2>3, <3>1, <3>2 DEF SameAt, Line, InLine, LeftAlone, Built, Runs, Armed
    <3>3. CASE worker'.pc = "pick" /\ ~(worker.pc \in RunSteps)
      BY <1>0, <1>4, <2>1, <2>3, <3>1, <3>3
         DEF SameAt, Line, InLine, LeftAlone, Built, Runs, Armed, CheckSteps, AskSteps, RunSteps
    <3> QED BY <1>1, <1>4, <3>2, <3>3
  <2> QED BY <2>2, <2>3
<1>5. CASE CatalogRefreshed
  <2> DEFINE S == {x \in Listed : loaded[x] # 0 /\ ready[x] \in {"none", "torn"} /\ status[x] \in
                    {"Current", "NoRelease", "Available", "Blocked", "Refused", "CheckFailed"}}
  <2>1. /\ status' = [x \in Modules |-> IF x \in S THEN "Unchecked" ELSE status[x]]
        /\ Wake /\ UNCHANGED <<queue, installs>>
    BY <1>5 DEF CatalogRefreshed
  <2>2. S \in SUBSET Modules
    BY Numbers
  <2>3. \A x \in S : loaded[x] # 0 /\ status[x] \in {"Failed", "Current", "NoRelease", "Blocked", "Available",
                                                         "Refused", "CheckFailed", "Unchecked"}
    OBVIOUS
  <2> HIDE DEF S
  <2> QED BY <1>4, <2>1, <2>2, <2>3
<1>6. ASSUME NEW ids, NEW all, RequestUpdate(ids, all) PROVE Line(m)'
  <2> DEFINE S == {x \in Modules : /\ loaded[x] # 0 /\ (askedAll' \/ x \in ids)
                                   /\ status[x] \in {"Failed", "Current", "NoRelease", "Blocked"}}
  <2>1. /\ status' = [x \in Modules |-> IF x \in S THEN "Unchecked" ELSE status[x]]
        /\ Wake /\ UNCHANGED <<queue, installs>>
    BY <1>6 DEF RequestUpdate
  <2>2. S \in SUBSET Modules
    OBVIOUS
  <2>3. \A x \in S : loaded[x] # 0 /\ status[x] \in {"Failed", "Current", "NoRelease", "Blocked", "Available",
                                                         "Refused", "CheckFailed", "Unchecked"}
    OBVIOUS
  <2> HIDE DEF S
  <2> QED BY <1>4, <2>1, <2>2, <2>3
<1>7. ASSUME NEW x \in Modules, StartUpdate(x) PROVE Line(m)'
  BY <1>0, <1>1, <1>7, EnqueueKeeps DEF StartUpdate, RunSteps
<1>8. CASE StartUpdateAll
  <2> DEFINE S == {x \in Modules : loaded[x] # 0 /\ status[x] = "Available"}
  <2>1. Enqueue(S) /\ S \in SUBSET Modules /\ Wake /\ installs' = installs
    BY <1>8 DEF StartUpdateAll
  <2>2. \A x \in S : loaded[x] # 0 /\ status[x] \in {"Available", "Failed"}
    OBVIOUS
  <2> HIDE DEF S
  <2> QED BY <1>0, <1>1, <2>1, <2>2, EnqueueKeeps DEF RunSteps
<1>9. ASSUME NEW x \in Modules, StartInstall(x) PROVE Line(m)'
  <2>1. /\ status' = [status EXCEPT ![x] = "Queued"] /\ installs' = Append(installs, x) /\ Wake
        /\ queue' = queue /\ loaded[x] = 0 /\ status[x] \in {"none", "Failed", "Refused", "Blocked"}
    BY <1>9 DEF StartInstall
  <2>2. /\ In(m, installs') => In(m, installs) \/ m = x
        /\ Once(m, installs) /\ (m = x => ~In(m, installs)) => Once(m, installs')
    BY <2>1, OneMore DEF Types, ServiceTypes
  <2>3. CASE m # x
    <3>1. status'[m] = status[m]
      BY <2>1, <2>3 DEF Types, ServiceTypes
    <3>2. In(m, installs') => In(m, installs)
      BY <2>2, <2>3
    <3>3. Once(m, installs) => Once(m, installs')
      BY <2>2, <2>3
    <3>4. Runs(m)' => Runs(m) /\ worker' = worker
      BY <1>1, <2>1 DEF Runs, RunSteps
    <3>5. worker' = worker \/ worker'.pc = "pick"
      BY <1>1, <2>1
    <3>6. InLine(m)'
      BY <1>0, <2>1, <3>1, <3>2, <3>3, <3>4, <3>5 DEF SameAt, Line, InLine, Armed, CheckSteps, AskSteps
    <3>7. LeftAlone(m)' /\ Built(m)'
      BY <1>0, <1>1, <2>1, <3>1, <3>5 DEF SameAt, Line, LeftAlone, Built, Armed, RunSteps
    <3> QED BY <3>6, <3>7 DEF Line
  <2>4. CASE m = x
    <3>1. ready[m] = "none"
      BY <1>9, <2>4 DEF StartInstall, Types, DiskTypes
    <3>2. had[m] = 0
      BY <1>0, <2>1, <2>4, <3>1, WholeIsModule DEF SessionInv, Kept, InPlace, Types, DiskTypes
    <3>3. ~In(m, installs) /\ ~Runs(m) /\ ~In(m, queue)
      BY <1>0, <2>1, <2>4 DEF Line, InLine, LinesInv
    <3>4. Once(m, installs')
      BY <2>2, <3>3 DEF In, Once
    <3>5. ~Runs(m)'
      BY <1>1, <2>1, <3>3 DEF Runs, RunSteps
    <3>6. status'[m] = "Queued" /\ Once(m, queue)
      BY <1>0, <2>1, <2>4 DEF Types, ServiceTypes, Line, InLine
    <3>7. InLine(m)'
      BY <1>0, <2>1, <2>4, <3>1, <3>2, <3>3, <3>4, <3>5, <3>6 DEF InLine, SameAt
    <3>8. LeftAlone(m)' /\ Built(m)'
      BY <1>0, <1>1, <2>1, <2>4, <3>1 DEF SameAt, Line, LeftAlone, Built, Armed, RunSteps
    <3> QED BY <3>7, <3>8 DEF Line
  <2> QED BY <2>3, <2>4
<1> QED BY <1>3, <1>5, <1>6, <1>7, <1>8, <1>9 DEF Player

(* The worker looks for something to do, and checks.                       *)
LEMMA CheckKeepsLine ==
    ASSUME IInv, [Next]_vars, NEW m \in Modules \ meddled',
           Pick \/ Sweep \/ CheckNext \/ CheckAnswer \/ Offer \/ Refuse \/ QueueRequests
    PROVE  Line(m)'
<1> USE DEF IInv
<1>0. /\ main \in Session /\ main' \in Session /\ m \notin meddled /\ m \in Modules
      /\ UNCHANGED <<folder, had, loaded>> /\ Line(m)
      /\ ready'[m] \in {ready[m], "none"} \/ Arm
  BY SessionFrame, ReadyInSession DEF SessionStep, Worker, Kept, Line
<1>00. ready'[m] \in {ready[m], "none"}
  BY <1>0 DEF Arm, Pick, Sweep, CheckNext, CheckAnswer, Offer, Refuse, QueueRequests
<1>1. CASE Pick
  <2>1. ready'[m] = ready[m] /\ worker.pc = "pick" /\ worker \in [pc : Steps, m : Modules \union {""}, version : 0 .. Last,
                                                 todo : SUBSET (Modules \union Files)]
    BY <1>1 DEF Pick, disk, Types, WorkerTypes
  <2>2. CASE /\ queue # << >> /\ worker' = [worker EXCEPT !.pc = "describe", !.m = Head(queue)]
             /\ status' = [status EXCEPT ![Head(queue)] = "Preparing"] /\ queue' = Tail(queue)
             /\ installs' = installs
    <3> DEFINE h == Head(queue)
    <3>1. /\ h \in Modules /\ In(h, queue) /\ (In(m, queue') => In(m, queue))
          /\ (Once(m, queue) => Once(m, queue')) /\ (Once(h, queue) => ~In(h, queue'))
      BY <2>2, OneFewer DEF Types, ServiceTypes
    <3>2. worker'.pc = "describe" /\ worker'.m = h
      BY <2>1, <2>2
    <3>3. status'[m] = IF m = h THEN "Preparing" ELSE status[m]
      BY <2>2, <3>1 DEF Types, ServiceTypes
    <3>4. loaded[h] # 0
      BY <3>1 DEF LinesInv
    <3> HIDE DEF h
    <3>5. CASE m = h
      BY <1>0, <2>1, <2>2, <3>1, <3>2, <3>3, <3>4, <3>5 DEF Line, InLine, LeftAlone, Built, Runs, Armed
    <3>6. CASE m # h
      BY <1>0, <2>1, <2>2, <3>1, <3>2, <3>3, <3>6
         DEF Line, InLine, LeftAlone, Built, Runs, Armed, CheckSteps, AskSteps, RunSteps
    <3> QED BY <3>5, <3>6
  <2>3. CASE /\ queue = << >> /\ installs # << >> /\ worker' = [worker EXCEPT !.pc = "describe", !.m = Head(installs)]
             /\ status' = [status EXCEPT ![Head(installs)] = "Preparing"] /\ installs' = Tail(installs)
             /\ queue' = queue
    <3> DEFINE h == Head(installs)
    <3>1. /\ h \in Modules /\ In(h, installs) /\ (In(m, installs') => In(m, installs))
          /\ (Once(m, installs) => Once(m, installs')) /\ (Once(h, installs) => ~In(h, installs'))
      BY <2>3, OneFewer DEF Types, ServiceTypes
    <3>2. worker'.pc = "describe" /\ worker'.m = h
      BY <2>1, <2>3
    <3>3. status'[m] = IF m = h THEN "Preparing" ELSE status[m]
      BY <2>3, <3>1 DEF Types, ServiceTypes
    <3>4. loaded[h] = 0 /\ ~In(m, queue) /\ ~In(m, queue')
      BY <2>3, <3>1, Empty DEF LinesInv
    <3> HIDE DEF h
    <3>5. CASE m = h
      BY <1>0, <2>1, <2>3, <3>1, <3>2, <3>3, <3>4, <3>5 DEF Line, InLine, LeftAlone, Built, Runs, Armed, RunSteps
    <3>6. CASE m # h
      BY <1>0, <2>1, <2>3, <3>1, <3>2, <3>3, <3>4, <3>6
         DEF Line, InLine, LeftAlone, Built, Runs, Armed, CheckSteps, AskSteps, RunSteps
    <3> QED BY <3>5, <3>6
  <2>4. CASE /\ queue = << >> /\ worker' = [worker EXCEPT !.pc = "sweep", !.todo = {x \in Modules : Unarmed(x)}]
             /\ UNCHANGED <<status, queue, installs>>
    <3>1. worker'.pc = "sweep" /\ worker'.todo = {x \in Modules : Unarmed(x)} /\ ~In(m, queue)
      BY <2>1, <2>4, Empty
    <3> QED BY <1>0, <2>1, <2>4, <3>1 DEF Line, InLine, LeftAlone, Built, Runs, Armed, CheckSteps, AskSteps, RunSteps, Unarmed
  <2>5. CASE worker' = NoWorker /\ UNCHANGED <<status, queue, installs>>
    BY <1>0, <2>1, <2>5, Idle, Beside DEF CheckSteps, AskSteps
  <2> QED BY <1>1, <2>2, <2>3, <2>4, <2>5 DEF Pick
<1>2. CASE Sweep
  <2>1. UNCHANGED <<status, queue, installs>> /\ worker.pc = "sweep" /\ worker \in [pc : Steps, m : Modules \union {""}, version : 0 .. Last,
                                                 todo : SUBSET (Modules \union Files)]
    BY <1>2 DEF Sweep, service, Types, WorkerTypes
  <2>2. ASSUME NEW x \in worker.todo, worker' = [worker EXCEPT !.todo = @ \ {x}] PROVE Line(m)'
    <3>1. worker'.pc = "sweep" /\ worker'.todo \subseteq worker.todo
      BY <2>1, <2>2
    <3> QED BY <1>0, <1>00, <2>1, <3>1 DEF Line, InLine, LeftAlone, Built, Runs, Armed, CheckSteps, AskSteps, RunSteps
  <2>3. CASE worker' = [worker EXCEPT !.pc = "check", !.todo = {x \in Modules : loaded[x] # 0}]
    <3>1. worker'.pc = "check"
      BY <2>1, <2>3
    <3> QED BY <1>0, <1>00, <2>1, <3>1 DEF Line, InLine, LeftAlone, Built, Runs, Armed, CheckSteps, AskSteps, RunSteps
  <2> QED BY <1>2, <2>2, <2>3 DEF Sweep
<1>3. CASE CheckNext
  <2>1. /\ UNCHANGED <<queue, installs>> /\ ready'[m] = ready[m] /\ worker.pc = "check"
        /\ worker \in [pc : Steps, m : Modules \union {""}, version : 0 .. Last, todo : SUBSET (Modules \union Files)]
    BY <1>3 DEF CheckNext, disk, Types, WorkerTypes
  <2>2. ASSUME NEW x \in worker.todo, status[x] \in {"Unchecked", "CheckFailed"}, status' = [status EXCEPT ![x] = "Checking"],
               worker' = [worker EXCEPT !.pc = "answer", !.m = x, !.todo = @ \ {x}]
        PROVE  Line(m)'
    <3>1. worker'.pc = "answer" /\ worker'.todo \subseteq worker.todo /\ worker'.m = x
      BY <2>1, <2>2
    <3>2. x \in Modules /\ loaded[x] # 0
      BY <2>1, <2>2 DEF LinesInv, CheckSteps, Types, WorkerTypes
    <3>3. status'[m] = IF m = x THEN "Checking" ELSE status[m]
      BY <2>2, <3>2 DEF Types, ServiceTypes
    <3>4. CASE m = x
      <4>1. ~In(m, queue) /\ ~Armed(m)
        BY <1>0, <2>1, <2>2, <3>2, <3>4 DEF Line, InLine, LeftAlone, CheckSteps
      <4> QED BY <1>0, <2>1, <3>1, <3>2, <3>4, <4>1 DEF Line, InLine, LeftAlone, Built, Runs, Armed, CheckSteps, AskSteps, RunSteps
    <3>5. CASE m # x
      BY <1>0, <2>1, <3>1, <3>3, <3>5 DEF Line, InLine, LeftAlone, Built, Runs, Armed, CheckSteps, AskSteps, RunSteps
    <3> QED BY <3>4, <3>5
  <2>3. ASSUME NEW x \in worker.todo, status' = status, worker' = [worker EXCEPT !.todo = @ \ {x}] PROVE Line(m)'
    <3>1. worker'.pc = "check" /\ worker'.todo \subseteq worker.todo
      BY <2>1, <2>3
    <3> QED BY <1>0, <2>1, <2>3, <3>1 DEF Line, InLine, LeftAlone, Built, Runs, Armed, CheckSteps, AskSteps, RunSteps
  <2>4. CASE status' = status /\ worker' = [worker EXCEPT !.pc = "requests", !.todo = {}]
    <3>1. worker'.pc = "requests"
      BY <2>1, <2>4
    <3> QED BY <1>0, <2>1, <2>4, <3>1 DEF Line, InLine, LeftAlone, Built, Runs, Armed, CheckSteps, AskSteps, RunSteps
  <2> QED BY <1>3, <2>2, <2>3, <2>4 DEF CheckNext
<1>4. CASE CheckAnswer \/ Offer \/ Refuse
  <2>1. /\ UNCHANGED <<queue, installs>> /\ ready'[m] = ready[m] /\ worker.pc \in AskSteps /\ worker.m \in Modules
        /\ worker.m \notin worker.todo /\ loaded[worker.m] # 0
    BY <1>4 DEF CheckAnswer, Offer, Refuse, service, disk, Types, WorkerTypes, AskSteps, LinesInv
  <2>2. worker'.pc \in {"check", "offer", "refuse"} /\ worker'.m = worker.m /\ worker'.todo = worker.todo
    BY <1>4 DEF CheckAnswer, Offer, Refuse, Types, WorkerTypes
  <2>3. m # worker.m => status'[m] = status[m]
    BY <1>4 DEF CheckAnswer, Offer, Refuse, service, Types, ServiceTypes
  <2>4. CASE m # worker.m
    BY <1>0, <2>1, <2>2, <2>3, <2>4 DEF Line, InLine, LeftAlone, Built, Runs, Armed, CheckSteps, AskSteps, RunSteps
  <2>5. CASE m = worker.m /\ CheckAnswer
    <3>1. status[m] = "Checking" /\ worker.pc = "answer"
      BY <2>5 DEF CheckAnswer, LinesInv
    <3>2. ~In(m, queue) /\ ~Armed(m)
      BY <1>0, <2>1, <2>5, <3>1 DEF Line, InLine, LeftAlone
    <3> QED BY <1>0, <2>1, <2>2, <2>5, <3>2 DEF Line, InLine, LeftAlone, Built, Runs, Armed, CheckSteps, AskSteps, RunSteps
  <2>6. CASE m = worker.m /\ (Offer \/ Refuse)
    <3>1. status'[m] \in {status[m], "Refused"} /\ worker.pc \in {"offer", "refuse"} /\ worker'.pc \in {"check", "refuse"}
      BY <2>1, <2>6 DEF Offer, Refuse, service, Types, ServiceTypes, WorkerTypes
    <3>2. ~Armed(m)
      BY <1>0, <2>6, <3>1 DEF Line, LeftAlone
    <3> QED BY <1>0, <2>1, <2>2, <2>6, <3>1, <3>2 DEF Line, InLine, LeftAlone, Built, Runs, Armed, CheckSteps, AskSteps, RunSteps
  <2> QED BY <1>4, <2>4, <2>5, <2>6
<1>5. CASE QueueRequests
  <2>1. worker.pc = "requests" /\ worker'.pc = "pick" /\ UNCHANGED <<disk, installs>>
    BY <1>5 DEF QueueRequests, Types, WorkerTypes
  <2>2. CASE check
    <3>1. UNCHANGED <<queue, status>>
      BY <1>5, <2>2 DEF QueueRequests
    <3> QED BY <1>0, <2>1, <3>1, Beside DEF disk, CheckSteps, AskSteps
  <2>3. CASE ~check
    <3> DEFINE S == {x \in Modules : loaded[x] # 0 /\ status[x] = "Available" /\ (askedAll \/ x \in asked)}
    <3>1. Enqueue(S) /\ S \in SUBSET Modules
      BY <1>5, <2>3 DEF QueueRequests
    <3>2. \A x \in S : loaded[x] # 0 /\ status[x] \in {"Available", "Failed"}
      OBVIOUS
    <3>3. SameAt(m)
      BY <1>0, <2>1 DEF SameAt, disk
    <3> HIDE DEF S
    <3> QED BY <1>0, <2>1, <3>1, <3>2, <3>3, EnqueueKeeps DEF RunSteps
  <2> QED BY <2>2, <2>3
<1> QED BY <1>1, <1>2, <1>3, <1>4, <1>5

(* The worker prepares an update or an installation.                       *)
LEMMA RunKeepsLine ==
    ASSUME IInv, [Next]_vars, NEW m \in Modules \ meddled',
           \/ Describe \/ Accept \/ Prepare \/ BuildFails \/ Verify \/ Arm \/ Report \/ Undo
           \/ \E f \in Files : Place(f)
    PROVE  Line(m)'
<1> USE DEF IInv
<1>0. /\ main \in Session /\ main' \in Session /\ m \notin meddled /\ m \in Modules
      /\ UNCHANGED <<folder, had, loaded>> /\ Line(m) /\ InPlace(m)
      /\ ready'[m] \in {ready[m], "none"} \/ (Arm /\ worker.m = m)
  BY SessionFrame, ReadyInSession DEF SessionStep, Worker, Kept, Line
<1>1. /\ worker \in [pc : Steps, m : Modules \union {""}, version : 0 .. Last, todo : SUBSET (Modules \union Files)]
      /\ worker.m \in Modules /\ worker.pc \in RunSteps
      /\ UNCHANGED <<queue, installs>> /\ worker'.m = worker.m
      /\ worker'.pc \in {"pick"} \union (RunSteps \ {"describe"})
  <2>1. worker.pc \in RunSteps
    BY DEF Describe, Accept, Prepare, BuildFails, Verify, Arm, Report, Undo, Place, RunSteps
  <2>2. worker.m \in Modules /\ worker \in [pc : Steps, m : Modules \union {""}, version : 0 .. Last,
                                            todo : SUBSET (Modules \union Files)]
    BY <2>1 DEF Types, WorkerTypes
  <2>3. ASSUME NEW s, Settle(s) PROVE worker'.m = worker.m /\ worker'.pc = "pick"
    BY <2>2, <2>3 DEF Settle
  <2>4. ASSUME NEW s, Continue(s) PROVE worker'.m = worker.m /\ worker'.pc = s
    BY <2>2, <2>4 DEF Continue
  <2> DEFINE Goal == /\ UNCHANGED <<queue, installs>> /\ worker'.m = worker.m
                     /\ worker'.pc \in {"pick"} \union (RunSteps \ {"describe"})
  <2>5. ASSUME Describe PROVE Goal
    <3>1. ASSUME \E s : Settle(s) PROVE worker'.m = worker.m /\ worker'.pc = "pick"
      BY <2>3, <3>1
    <3>2. ASSUME NEW s \in {"accept", "discard"}, NEW v, worker' = [worker EXCEPT !.pc = s, !.version = v]
          PROVE  worker'.m = worker.m /\ worker'.pc = s
      BY <2>2, <3>2
    <3>3. UNCHANGED <<queue, installs>>
      BY <2>5 DEF Describe
    <3>4. \/ \E s : Settle(s)
          \/ worker' = [worker EXCEPT !.pc = "accept", !.version = published[worker.m]]
          \/ worker' = [worker EXCEPT !.pc = "discard", !.version = published[worker.m]]
      BY <2>5 DEF Describe
    <3> QED BY <3>1, <3>2, <3>3, <3>4 DEF RunSteps
  <2>6. ASSUME Accept PROVE Goal
    <3>1. (Settle("Refused") \/ Continue("discard")) /\ UNCHANGED <<queue, installs>>
      BY <2>6 DEF Accept
    <3> QED BY <2>3, <2>4, <3>1 DEF RunSteps
  <2>7. ASSUME Report PROVE Goal
    <3>1. Settle("Staged") /\ UNCHANGED <<queue, installs>>
      BY <2>7 DEF Report
    <3> QED BY <2>3, <3>1
  <2>8. ASSUME Undo PROVE Goal
    <3>1. (\E s : Settle(s)) /\ UNCHANGED <<queue, installs>>
      BY <2>8 DEF Undo
    <3> QED BY <2>3, <3>1
  <2>9. ASSUME BuildFails \/ Verify \/ Arm PROVE Goal
    <3>1. (\E s \in {"undo", "arm", "staged"} : Continue(s)) /\ UNCHANGED <<queue, installs>>
      BY <2>9 DEF BuildFails, Verify, Arm, service
    <3> QED BY <2>4, <3>1 DEF RunSteps
  <2>10. ASSUME Prepare PROVE Goal
    <3>1. (worker' = [worker EXCEPT !.pc = "build", !.todo = Files] \/ Continue("undo")) /\ UNCHANGED <<queue, installs>>
      BY <2>10 DEF Prepare, service
    <3>2. ASSUME worker' = [worker EXCEPT !.pc = "build", !.todo = Files]
          PROVE  worker'.m = worker.m /\ worker'.pc = "build"
      BY <2>2, <3>2
    <3> QED BY <2>4, <3>1, <3>2 DEF RunSteps
  <2>11. ASSUME \E f \in Files : Place(f) PROVE Goal
    BY <2>1, <2>2, <2>11 DEF Place, RunSteps, service
  <2> QED BY <2>1, <2>2, <2>5, <2>6, <2>7, <2>8, <2>9, <2>10, <2>11
<1>2. CASE m # worker.m
  <2>1. status'[m] = status[m]
    BY <1>1, <1>2 DEF Describe, Accept, Prepare, BuildFails, Verify, Arm, Report, Undo, Place, Settle, service,
                      Types, ServiceTypes
  <2> QED BY <1>0, <1>1, <1>2, <2>1, Beside DEF CheckSteps, AskSteps, RunSteps
<1>3. CASE m = worker.m
  <2>1. /\ Runs(m) /\ ~In(m, queue) /\ Once(m, queue) /\ (loaded[m] = 0 => ~In(m, installs))
        /\ (worker.pc # "staged" => ~Armed(m))
        /\ (loaded[m] = 0 => /\ had[m] = 0 /\ Once(m, installs)
                             /\ status[m] = "Preparing" /\ (worker.pc # "staged" => ready[m] = "none"))
    BY <1>0, <1>1, <1>3 DEF Line, InLine, LeftAlone, Runs
  <2>2. ASSUME NEW s, Settle(s), ready'[m] \in {ready[m], "none"}, worker.pc = "staged" => s = "Staged"
        PROVE  Line(m)'
    <3>1. worker'.pc = "pick" /\ status'[m] = s
      BY <1>1, <1>3, <2>2 DEF Settle, Types, ServiceTypes
    <3> QED BY <1>0, <1>1, <1>3, <2>1, <2>2, <3>1
            DEF Line, InLine, LeftAlone, Built, Runs, Armed, CheckSteps, AskSteps, RunSteps
  <2>3. ASSUME worker'.pc \in RunSteps \ {"staged"}, worker.pc # "staged", ready'[m] \in {ready[m], "none"},
               loaded[m] = 0 => status'[m] = "Preparing", Built(m)'
        PROVE  Line(m)'
    <3>1. ~Armed(m)'
      BY <2>1, <2>3 DEF Armed
    <3> QED BY <1>0, <1>1, <1>3, <2>1, <2>3, <3>1
            DEF Line, InLine, LeftAlone, Runs, CheckSteps, AskSteps, RunSteps
  <2>4. ASSUME Continue("undo"), worker.pc # "staged", ready'[m] \in {ready[m], "none"}, UNCHANGED status
        PROVE  Line(m)'
    <3>1. worker'.pc = "undo"
      BY <1>1, <2>4 DEF Continue
    <3> QED BY <2>1, <2>3, <2>4, <3>1 DEF Built, RunSteps
  <2>5. CASE Describe
    <3>1. ready' = ready /\ worker.pc = "describe"
      BY <2>5 DEF Describe, disk
    <3>2. CASE \E s : Settle(s)
      BY <2>2, <3>1, <3>2
    <3>3. /\ folder[m].version \in 0 .. Last /\ published[m] \in 1 .. Last /\ had[m] \in 0 .. Last
      BY <1>0 DEF Types, DiskTypes, MainTypes, Copies
    <3>4. CASE loaded[m] # 0 /\ "Available" \in Evaluated(m)
               /\ worker' = [worker EXCEPT !.pc = "accept", !.version = published[m]]
      <4>1. published[m] > loaded[m]
        BY <3>4 DEF Evaluated
      <4>2. had[m] = loaded[m] /\ folder[m].version = loaded[m]
        BY <1>0, <3>4 DEF SessionInv
      <4>3. worker'.pc = "accept" /\ worker'.version = published[m]
        BY <1>1, <3>4
      <4>4. Built(m)'
        BY <1>0, <3>3, <4>1, <4>2, <4>3 DEF Built
      <4> QED BY <2>3, <3>1, <3>4, <4>3, <4>4 DEF RunSteps
    <3>5. CASE loaded[m] = 0 /\ UNCHANGED status /\ worker' = [worker EXCEPT !.pc = "discard", !.version = published[m]]
      <4>1. folder[m] = None
        BY <1>0, <3>5, WholeIsModule DEF SessionInv, InPlace, Types, DiskTypes
      <4>2. worker'.pc = "discard" /\ worker'.version = published[m]
        BY <1>1, <3>5
      <4>3. Built(m)'
        BY <1>0, <2>1, <3>3, <3>5, <4>1, <4>2, Folders DEF Built
      <4> QED BY <2>1, <2>3, <3>1, <3>5, <4>2, <4>3 DEF RunSteps
    <3> QED BY <1>3, <2>5, <3>2, <3>4, <3>5 DEF Describe
  <2>6. CASE Accept
    <3>1. ready' = ready /\ worker.pc = "accept"
      BY <2>6 DEF Accept, disk
    <3>2. CASE Settle("Refused")
      BY <2>2, <3>1, <3>2
    <3>3. CASE status' = [status EXCEPT ![m] = "Preparing"] /\ Continue("discard")
      <4>1. worker'.pc = "discard" /\ worker'.version = worker.version
        BY <1>1, <3>3 DEF Continue
      <4>2. Built(m)' /\ status'[m] = "Preparing"
        BY <1>0, <1>1, <1>3, <3>1, <3>3, <4>1 DEF Line, Built, Types, ServiceTypes
      <4> QED BY <2>3, <3>1, <4>1, <4>2 DEF RunSteps
    <3> QED BY <1>3, <2>6, <3>2, <3>3 DEF Accept
  <2>7. CASE Prepare
    <3>1. worker.pc = "discard" /\ status' = status /\ ready'[m] \in {ready[m], "none"}
      BY <1>0, <2>7 DEF Prepare, service, Arm
    <3>2. CASE worker' = [worker EXCEPT !.pc = "build", !.todo = Files]
      <4>1. worker'.pc = "build" /\ worker'.version = worker.version /\ worker'.todo = Files
        BY <1>1, <3>2
      <4>2. Built(m)'
        BY <1>0, <1>3, <3>1, <4>1 DEF Line, Built
      <4> QED BY <2>1, <2>3, <3>1, <4>1, <4>2 DEF RunSteps
    <3> QED BY <2>4, <2>7, <3>1, <3>2 DEF Prepare
  <2>8. ASSUME NEW f \in Files, Place(f) PROVE Line(m)'
    <3>1. /\ worker.pc = "build" /\ f \in worker.todo /\ UNCHANGED <<status, ready>>
          /\ worker' = [worker EXCEPT !.todo = @ \ {f}]
      BY <2>8 DEF Place, service
    <3>2. payload'[m].version = worker.version /\ payload'[m].files = payload[m].files \union {f}
      BY <1>1, <1>3, <2>8 DEF Place, Types, DiskTypes
    <3>3. worker'.pc = "build" /\ worker'.version = worker.version /\ worker'.todo = worker.todo \ {f}
      BY <1>1, <3>1
    <3>4. Built(m)'
      BY <1>0, <1>3, <3>1, <3>2, <3>3 DEF Line, Built
    <3> QED BY <2>1, <2>3, <3>1, <3>3, <3>4 DEF RunSteps
  <2>9. CASE BuildFails
    BY <2>4, <2>9 DEF BuildFails, disk, service
  <2>10. CASE Verify
    <3>1. worker.pc = "build" /\ worker.todo = {} /\ UNCHANGED <<status, ready, payload>>
      BY <2>10 DEF Verify, disk, service
    <3>2. CASE Continue("arm")
      <4>1. worker'.pc = "arm" /\ worker'.version = worker.version
        BY <1>1, <3>2 DEF Continue
      <4>2. payload[m].files = Files /\ payload[m].version = worker.version
        BY <1>0, <1>3, <3>1, Numbers DEF Line, Built, Types, DiskTypes, Copies
      <4>3. payload[m] = Whole(worker.version)
        BY <4>2 DEF Whole, Types, DiskTypes, Copies
      <4>4. Built(m)'
        BY <1>0, <1>3, <3>1, <4>1, <4>3 DEF Line, Built
      <4> QED BY <2>1, <2>3, <3>1, <4>1, <4>4 DEF RunSteps
    <3> QED BY <2>4, <2>10, <3>1, <3>2 DEF Verify
  <2>11. CASE Arm
    <3>1. worker.pc = "arm" /\ status' = status
      BY <2>11 DEF Arm, service
    <3>2. CASE Continue("staged")
      <4>1. worker'.pc = "staged"
        BY <1>1, <3>2 DEF Continue
      <4> QED BY <1>0, <1>1, <1>3, <2>1, <3>1, <4>1 DEF Line, InLine, LeftAlone, Built, Runs, CheckSteps, AskSteps, RunSteps
    <3>3. CASE Continue("undo") /\ \E r \in {ready[worker.m], "none"} : ready' = [ready EXCEPT ![worker.m] = r]
      <4>1. ready'[m] \in {ready[m], "none"}
        BY <1>1, <1>3, <3>3 DEF Types, DiskTypes
      <4> QED BY <2>4, <3>1, <3>3, <4>1
    <3> QED BY <2>11, <3>2, <3>3 DEF Arm
  <2>12. CASE Report
    BY <2>2, <2>12 DEF Report, disk
  <2>13. CASE Undo
    <3>1. ready'[m] \in {ready[m], "none"} /\ worker.pc = "undo"
      BY <1>0, <2>13 DEF Undo, Arm
    <3> QED BY <2>2, <2>13, <3>1 DEF Undo
  <2> QED BY <2>5, <2>6, <2>7, <2>8, <2>9, <2>10, <2>11, <2>12, <2>13
<1> QED BY <1>2, <1>3

-----------------------------------------------------------------------------
(* The theorems.                                                           *)

LEMMA LineKept ==
    ASSUME IInv, [Next]_vars, ~Discover, NEW m \in Modules \ meddled'
    PROVE  Line(m)'
<1> USE DEF IInv
<1>0. m \notin meddled /\ Line(m) /\ InPlace(m)
  BY MeddledStays DEF Kept, Line
<1>1. CASE main' \notin Session
  <2>1. worker' = NoWorker /\ queue' = << >> /\ installs' = << >>
    BY <1>1, SessionKept DEF SessionInv
  <2> QED BY <1>1, <2>1, Idle, Empty DEF Line, InLine, LeftAlone, Built, Runs, CheckSteps, AskSteps, RunSteps
<1>2. CASE UNCHANGED vars \/ \E x \in Modules : Publish(x)
  <2>1. UNCHANGED <<disk, main, loaded, service, worker, had>>
    BY <1>2 DEF Publish, vars, start, history
  <2> QED BY <1>0, <2>1 DEF Line, InLine, LeftAlone, Built, Runs, Armed, disk, service
<1> QED BY <1>1, <1>2, StepKinds, StartFrame, PlayerKeepsLine, CheckKeepsLine, RunKeepsLine
        DEF SessionStep, Worker, Exit, Kill, EndSession, Session

LEMMA DiscoverKeeps ==
    ASSUME IInv, Discover, NEW m \in Modules \ meddled'
    PROVE  Kept(m)'
<1> USE DEF IInv
<1>1. /\ UNCHANGED <<folder, payload, previous, ready>> /\ main' = "play"
      /\ worker' = NoWorker /\ queue' = << >> /\ installs' = << >>
      /\ loaded'[m] = (IF IsModule(folder[m]) THEN folder[m].version ELSE 0)
      /\ had'[m] = (IF Exists(folder[m]) THEN folder[m].version ELSE had[m])
      /\ status'[m] = (IF loaded'[m] = 0 THEN "none"
                       ELSE IF ready[m] \in {"none", "torn"} THEN "Unchecked" ELSE "Staged")
      /\ m \in meddled => ready[m] = "none" /\ ~Exists(payload[m]) /\ folder[m] = Whole(folder[m].version)
  BY DEF Discover, disk, SessionInv, Session
<1>2. folder[m].version \in 0 .. Last /\ had[m] \in 0 .. Last
  BY DEF Types, DiskTypes, MainTypes, Copies
<1>3. InPlace(m)' /\ Staged(m)'
  <2>1. CASE m \in meddled
    <3>1. folder[m] # None
      BY <1>1, <2>1, Numbers DEF None, Whole
    <3>2. folder[m].version # 0
      BY <3>1 DEF Types, DiskTypes
    <3> QED BY <1>1, <1>2, <2>1, <3>1, <3>2 DEF InPlace, Staged, IsWhole, Exists
  <2>2. CASE m \notin meddled
    <3>1. InPlace(m) /\ Staged(m)
      BY <2>2 DEF Kept
    <3>2. CASE folder[m] = None
      BY <1>1, <3>1, <3>2 DEF InPlace, Staged, Exists
    <3>3. CASE folder[m] # None
      BY <1>1, <1>2, <3>1, <3>3 DEF InPlace, Staged, Exists, IsWhole
    <3> QED BY <3>2, <3>3
  <2> QED BY <2>1, <2>2
<1>4. InLine(m)' /\ Built(m)'
  BY <1>1, Idle, Empty DEF InLine, Built, Runs, RunSteps
<1>5. LeftAlone(m)'
  BY <1>1, Idle DEF LeftAlone, Armed, RunSteps
<1> QED BY <1>3, <1>4, <1>5 DEF Kept

LEMMA AtFirst == ASSUME Init PROVE IInv
<1>0. 0 \in 0 .. Last /\ 1 \in 0 .. Last /\ 1 \in 1 .. Last /\ 0 \in 0 .. MaxActs /\ 0 \in 0 .. MaxKills /\ 0 \in 0 .. MaxFaults
  BY BoundsAssumption
<1>2. None \in Copies /\ Whole(1) \in Copies /\ None.version = 0 /\ Whole(1).version = 1 /\ IsWhole(Whole(1))
  BY <1>0 DEF None, Whole, Copies, IsWhole
<1> USE DEF Init
<1>1. ASSUME NEW m \in Modules
      PROVE  /\ folder[m] \in {None, Whole(1)} /\ had[m] = folder[m].version
             /\ payload[m] = None /\ previous[m] = None /\ ready[m] = "none"
  OBVIOUS
<1>3. DiskTypes
  <2>1. /\ folder \in [Modules -> Copies] /\ payload \in [Modules -> Copies]
        /\ previous \in [Modules -> Copies] /\ ready \in [Modules -> {"none", "torn", "update", "install", "remove"}]
    <3>1. \A m \in Modules : (IF m \in Installed THEN Whole(1) ELSE None) \in Copies
      BY <1>2
    <3>2. folder \in [Modules -> Copies]
      BY <3>1
    <3>3. payload \in [Modules -> Copies] /\ previous \in [Modules -> Copies]
      BY <1>2
    <3>4. ready \in [Modules -> {"none", "torn", "update", "install", "remove"}]
      OBVIOUS
    <3> QED BY <3>2, <3>3, <3>4
  <2>2. \A m \in Modules : \A c \in {folder[m], payload[m], previous[m]} : c.version = 0 => c = None
    <3> HIDE DEF Init
    <3> QED BY <1>1, <1>2
  <2> QED BY <2>1, <2>2 DEF DiskTypes
<1>4. MainTypes
  <2>1. had \in [Modules -> 0 .. Last]
    BY <1>0, <1>1, <1>2
  <2> QED BY <1>0, <2>1 DEF MainTypes, Starts, Session
<1>5. ServiceTypes /\ BoundTypes
  BY <1>0, EmptySeq DEF ServiceTypes, States, BoundTypes
<1>6. WorkerTypes
  BY <1>0 DEF WorkerTypes, NoWorker, Steps, CheckSteps, AskSteps, RunSteps
<1>7. SessionInv /\ StartInv
  BY DEF SessionInv, StartInv, Session
<1>8. LinesInv
  BY Idle, Empty DEF LinesInv, RunSteps, CheckSteps, AskSteps
<1>9. ASSUME NEW m \in Modules PROVE Kept(m)
  <2>1. InPlace(m) /\ Staged(m)
    <3>1. \/ folder[m] = None /\ had[m] = 0
          \/ folder[m] # None /\ IsWhole(folder[m]) /\ folder[m].version = had[m] /\ had[m] = 1
      BY <1>1, <1>2, <1>9
    <3>2. ready[m] = "none"
      BY <1>1, <1>9
    <3> HIDE DEF Init
    <3> QED BY <3>1, <3>2 DEF InPlace, Staged
  <2>2. InLine(m) /\ LeftAlone(m) /\ Built(m)
    BY <1>1, Idle, Empty DEF InLine, LeftAlone, Built, Runs, Armed, RunSteps, Session
  <2> QED BY <2>1, <2>2 DEF Kept
<1> QED BY <1>3, <1>4, <1>5, <1>6, <1>7, <1>8, <1>9 DEF IInv, Types

LEMMA EachStep == ASSUME IInv, [Next]_vars PROVE IInv'
<1>1. Types' /\ SessionInv' /\ StartInv' /\ LinesInv'
  BY TypesKept, SessionKept, StartKept, LinesKept DEF IInv
<1>2. ASSUME NEW m \in Modules \ meddled' PROVE Kept(m)'
  BY DiscoverKeeps, InPlaceKept, LineKept DEF Kept, Line
<1> QED BY <1>1, <1>2 DEF IInv

(* The invariant everything else follows from.                             *)
THEOREM Inductive == Spec => []IInv
<1>1. IInv /\ [Next]_vars => IInv'
  BY EachStep
<1> QED BY AtFirst, <1>1, PTL DEF Spec

(* Types of the state.                                                     *)
THEOREM TypeCorrect == Spec => []TypeOK
<1>1. IInv => TypeOK
  BY DEF IInv, Types, DiskTypes, MainTypes, ServiceTypes, WorkerTypes, BoundTypes, TypeOK, Copies, Session
<1> QED BY Inductive, <1>1, PTL

(* A module the player has, and that nobody meddles with while it is       *)
(* staged, is in place or parked with its successor: whole, and no older   *)
(* than it was (apply_staged, mod_stage).                                  *)
THEOREM ModulesAreKept == Spec => []NeverNeither
<1>1. IInv => NeverNeither
  <2> SUFFICES ASSUME IInv, NEW m \in Modules \ meddled, had[m] # 0
               PROVE  \/ folder[m] \in {Whole(v) : v \in had[m] .. Last}
                      \/ /\ folder[m] = None /\ ready[m] = "update"
                         /\ previous[m] \in {Whole(v) : v \in had[m] .. Last}
    BY DEF NeverNeither
  <2>1. InPlace(m)
    BY DEF IInv, Kept
  <2>2. had[m] \in 0 .. Last /\ folder[m].version \in 0 .. Last /\ previous[m].version \in 0 .. Last
    BY DEF IInv, Types, DiskTypes, MainTypes, Copies
  <2> QED BY <2>1, <2>2, Numbers DEF InPlace, IsWhole
<1> QED BY Inductive, <1>1, PTL

-----------------------------------------------------------------------------
(* The requests of the console.                                            *)

Checks == CheckSteps \union {"requests"}

\* What a step does to the requests' side of one module.
Answers(m) ==
    /\ worker'.pc \in Checks /\ ~check' /\ ~stop' /\ status'[m] = "Unchecked" =>
           worker'.pc # "requests" /\ m \in worker'.todo
    /\ status'[m] = "Unchecked" => loaded'[m] # 0
    /\ status'[m] = "Checking" => worker'.pc = "answer" /\ worker'.m = m

LEMMA PlayerAnswers ==
    ASSUME Types, SessionInv, Answering, Player \/ ArmRemoval, NEW m \in Modules
    PROVE  Answers(m)
<1> USE DEF Checks
<1>1. loaded' = loaded
  BY SessionFrame DEF SessionStep
<1>2. /\ worker.pc \in Checks /\ ~check /\ ~stop /\ status[m] = "Unchecked" => worker.pc # "requests" /\ m \in worker.todo
      /\ status[m] = "Unchecked" => loaded[m] # 0
      /\ status[m] = "Checking" => worker.pc = "answer" /\ worker.m = m
  BY DEF Answering
<1>3. Wake => \/ worker' = worker
              \/ worker.pc = "none" /\ worker'.pc = "pick"
  BY DEF Wake, NoWorker
<1>4. ASSUME Wake \/ worker' = worker, stop' = stop \/ stop',
             \/ check' = check /\ status'[m] \in {status[m], "Queued"}
             \/ check' /\ (status'[m] = status[m] \/ (status'[m] = "Unchecked" /\ loaded[m] # 0))
      PROVE  Answers(m)
  <2>1. CASE worker' = worker
    BY <1>1, <1>2, <1>4, <2>1 DEF Answers
  <2>2. CASE worker.pc = "none" /\ worker'.pc = "pick"
    BY <1>1, <1>2, <1>4, <2>2 DEF Answers, CheckSteps, AskSteps
  <2> QED BY <1>3, <1>4, <2>1, <2>2
<1>5. \A S : Enqueue(S) => status'[m] \in {status[m], "Queued"}
  BY DEF Enqueue
<1>6. CASE StartCheck \/ Shutdown \/ ArmRemoval \/ \E x \in Modules : StageRemoval(x) \/ CancelRemoval(x)
  BY <1>4, <1>6 DEF StartCheck, Shutdown, ArmRemoval, StageRemoval, CancelRemoval, service, asks
<1>7. CASE StartUpdateAll \/ \E x \in Modules : StartUpdate(x)
  BY <1>4, <1>5, <1>7 DEF StartUpdateAll, StartUpdate, asks
<1>8. ASSUME NEW x \in Modules, StartInstall(x) PROVE Answers(m)
  <2>1. status'[m] \in {status[m], "Queued"}
    BY <1>8 DEF StartInstall, Types, ServiceTypes
  <2> QED BY <1>4, <1>8, <2>1 DEF StartInstall, asks
<1>9. ASSUME NEW ids, NEW all, RequestUpdate(ids, all) PROVE Answers(m)
  BY <1>4, <1>9 DEF RequestUpdate
<1>10. CASE CatalogRefreshed
  BY <1>4, <1>10 DEF CatalogRefreshed
<1> QED BY <1>6, <1>7, <1>8, <1>9, <1>10 DEF Player

LEMMA WorkerAnswers ==
    ASSUME Types, SessionInv, LinesInv, Answering, Worker, NEW m \in Modules
    PROVE  Answers(m)
<1> USE DEF Checks
<1>1. loaded' = loaded /\ stop' = stop
  BY WorkerRuns
<1>2. /\ worker.pc \in Checks /\ ~check /\ ~stop /\ status[m] = "Unchecked" => worker.pc # "requests" /\ m \in worker.todo
      /\ status[m] = "Unchecked" => loaded[m] # 0
      /\ status[m] = "Checking" => worker.pc = "answer" /\ worker.m = m
  BY DEF Answering
<1>3. /\ worker \in [pc : Steps, m : Modules \union {""}, version : 0 .. Last, todo : SUBSET (Modules \union Files)]
      /\ status \in [Modules -> States] /\ (worker.pc \in AskSteps \union RunSteps => worker.m \in Modules)
  BY DEF Types, ServiceTypes, WorkerTypes
<1>4. ASSUME worker'.pc \notin Checks, status'[m] \notin {"Unchecked", "Checking"} \/ status'[m] = status[m],
             worker.pc # "answer"
      PROVE  Answers(m)
  BY <1>1, <1>2, <1>4 DEF Answers
<1>5. CASE Pick
  <2>1. worker.pc = "pick" /\ (status' = status \/ \E x : status' = [status EXCEPT ![x] = "Preparing"])
    BY <1>5 DEF Pick
  <2>2. status'[m] \in {status[m], "Preparing"}
    BY <1>3, <2>1
  <2>3. CASE worker' = NoWorker
    BY <1>4, <2>1, <2>2, <2>3, Idle DEF CheckSteps, AskSteps
  <2>4. ASSUME NEW x, worker' = [worker EXCEPT !.pc = "describe", !.m = x] PROVE worker'.pc = "describe"
    BY <1>3, <2>4
  <2>5. ASSUME NEW T, worker' = [worker EXCEPT !.pc = "sweep", !.todo = T] PROVE worker'.pc = "sweep"
    BY <1>3, <2>5
  <2>6. \/ worker' = NoWorker
        \/ \E x : worker' = [worker EXCEPT !.pc = "describe", !.m = x]
        \/ \E T : worker' = [worker EXCEPT !.pc = "sweep", !.todo = T]
    BY <1>5 DEF Pick
  <2>7. CASE worker'.pc \in {"describe", "sweep"}
    BY <1>4, <2>1, <2>2, <2>7 DEF CheckSteps, AskSteps
  <2> QED BY <2>3, <2>4, <2>5, <2>6, <2>7
<1>6. CASE Sweep
  <2>1. worker.pc = "sweep" /\ status' = status /\ check' = check
    BY <1>6 DEF Sweep, service, asks
  <2>2. CASE \E x \in worker.todo : worker' = [worker EXCEPT !.todo = @ \ {x}]
    <3>1. worker'.pc = "sweep"
      BY <1>3, <2>1, <2>2
    <3> QED BY <1>4, <2>1, <3>1 DEF CheckSteps, AskSteps
  <2>3. CASE worker' = [worker EXCEPT !.pc = "check", !.todo = {x \in Modules : loaded[x] # 0}]
    <3>1. worker'.pc = "check" /\ worker'.todo = {x \in Modules : loaded[x] # 0}
      BY <1>3, <2>3
    <3> QED BY <1>1, <1>2, <2>1, <3>1 DEF Answers
  <2> QED BY <1>6, <2>2, <2>3 DEF Sweep
<1>7. CASE CheckNext
  <2>1. worker.pc = "check" /\ check' = check
    BY <1>7 DEF CheckNext, asks
  <2>2. ASSUME NEW x \in worker.todo, status' = [status EXCEPT ![x] = "Checking"],
               worker' = [worker EXCEPT !.pc = "answer", !.m = x, !.todo = @ \ {x}]
        PROVE  Answers(m)
    <3>1. worker'.pc = "answer" /\ worker'.m = x /\ worker'.todo = worker.todo \ {x}
      BY <1>3, <2>2
    <3>2. CASE m = x
      BY <1>3, <2>2, <3>1, <3>2 DEF Answers
    <3>3. CASE m # x
      <4>1. status'[m] = status[m]
        BY <1>3, <2>2, <3>3
      <4> QED BY <1>1, <1>2, <2>1, <3>1, <3>3, <4>1 DEF Answers, CheckSteps
    <3> QED BY <3>2, <3>3
  <2>3. ASSUME NEW x \in worker.todo, status[x] \notin {"Unchecked", "CheckFailed"}, status' = status,
               worker' = [worker EXCEPT !.todo = @ \ {x}]
        PROVE  Answers(m)
    <3>1. worker'.pc = "check" /\ worker'.todo = worker.todo \ {x}
      BY <1>3, <2>1, <2>3
    <3> QED BY <1>1, <1>2, <2>1, <2>3, <3>1 DEF Answers, CheckSteps
  <2>4. ASSUME stop \/ worker.todo = {}, worker' = [worker EXCEPT !.pc = "requests", !.todo = {}], status' = status
        PROVE  Answers(m)
    <3>1. worker'.pc = "requests"
      BY <1>3, <2>4
    <3> QED BY <1>1, <1>2, <2>1, <2>4, <3>1 DEF Answers, CheckSteps
  <2> QED BY <1>7, <2>2, <2>3, <2>4 DEF CheckNext
<1>8. CASE CheckAnswer
  <2>1. worker.pc = "answer" /\ check' = check /\ worker.m \in Modules
    BY <1>3, <1>8 DEF CheckAnswer, asks, AskSteps
  <2>2. PICK s : /\ s \notin {"Unchecked", "Checking"} \/ (s = "Unchecked" /\ stop)
                 /\ status' = [status EXCEPT ![worker.m] = s]
                 /\ worker' = [worker EXCEPT !.pc = IF s = "Available" /\ worker.m \in Listed
                                                    THEN "offer" ELSE "check"]
    BY <1>8 DEF CheckAnswer, Evaluated
  <2>3. worker'.pc \in {"offer", "check"} /\ worker'.todo = worker.todo
    BY <1>3, <2>2
  <2>4. CASE m = worker.m
    <3>1. status'[m] = s
      BY <1>3, <2>1, <2>2, <2>4
    <3>2. s = "Unchecked" => loaded[m] # 0
      BY <2>1, <2>4 DEF LinesInv, AskSteps
    <3> QED BY <1>1, <2>2, <2>3, <3>1, <3>2 DEF Answers
  <2>5. CASE m # worker.m
    <3>1. status'[m] = status[m]
      BY <1>3, <2>2, <2>5
    <3> QED BY <1>1, <1>2, <2>1, <2>3, <2>5, <3>1 DEF Answers, CheckSteps, AskSteps
  <2> QED BY <2>4, <2>5
<1>9. CASE Offer
  <2>1. worker.pc = "offer" /\ status' = status /\ check' = check
    BY <1>9 DEF Offer, service, asks
  <2>2. worker'.pc \in {"refuse", "check"} /\ worker'.todo = worker.todo
    BY <1>3, <1>9 DEF Offer
  <2> QED BY <1>1, <1>2, <2>1, <2>2 DEF Answers, CheckSteps, AskSteps
<1>10. CASE Refuse
  <2>1. worker.pc = "refuse" /\ check' = check /\ worker'.pc = "check" /\ worker'.todo = worker.todo
    BY <1>3, <1>10 DEF Refuse, asks
  <2>2. status'[m] \in {status[m], "Refused"}
    BY <1>3, <1>10 DEF Refuse
  <2> QED BY <1>1, <1>2, <2>1, <2>2 DEF Answers, CheckSteps, AskSteps
<1>11. CASE QueueRequests
  <2>1. worker.pc = "requests" /\ worker'.pc = "pick"
    BY <1>3, <1>11 DEF QueueRequests
  <2>2. status'[m] \in {status[m], "Queued"}
    BY <1>11 DEF QueueRequests, Enqueue
  <2> QED BY <1>4, <2>1, <2>2 DEF CheckSteps, AskSteps
<1>12. CASE \/ Describe \/ Accept \/ Prepare \/ BuildFails \/ Verify \/ Arm \/ Report \/ Undo
            \/ \E f \in Files : Place(f)
  <2>1. worker.pc \in RunSteps
    BY <1>12 DEF Describe, Accept, Prepare, BuildFails, Verify, Arm, Report, Undo, Place, RunSteps
  <2> DEFINE Rest == worker'.pc \in {"pick"} \union RunSteps
                     /\ (status'[m] \notin {"Unchecked", "Checking"} \/ status'[m] = status[m])
  <2>2. ASSUME NEW s, Settle(s), s \notin {"Unchecked", "Checking"} \/ s = status[worker.m] PROVE Rest
    <3>1. worker'.pc = "pick" /\ status'[m] \in {s, status[m]} /\ (m = worker.m \/ status'[m] = status[m])
      BY <1>3, <2>1, <2>2 DEF Settle
    <3> QED BY <2>2, <3>1
  <2>3. ASSUME NEW s \in {"discard", "undo", "arm", "staged"}, Continue(s) PROVE worker'.pc \in RunSteps
    BY <1>3, <2>3 DEF Continue, RunSteps
  <2>4. ASSUME Describe PROVE Rest
    <3>1. CASE worker' = [worker EXCEPT !.pc = "accept", !.version = published[worker.m]]
               /\ status' = [status EXCEPT ![worker.m] = "Available"]
      BY <1>3, <3>1 DEF RunSteps
    <3>2. CASE worker' = [worker EXCEPT !.pc = "discard", !.version = published[worker.m]] /\ UNCHANGED status
      BY <1>3, <3>2 DEF RunSteps
    <3>3. \/ \E s : Settle(s) /\ s \notin {"Unchecked", "Checking"}
          \/ Settle(status[worker.m])
          \/ worker' = [worker EXCEPT !.pc = "accept", !.version = published[worker.m]]
             /\ status' = [status EXCEPT ![worker.m] = "Available"]
          \/ worker' = [worker EXCEPT !.pc = "discard", !.version = published[worker.m]] /\ UNCHANGED status
      BY <2>4 DEF Describe, Evaluated
    <3> QED BY <2>2, <3>1, <3>2, <3>3
  <2>5. ASSUME Accept PROVE Rest
    <3>1. CASE status' = [status EXCEPT ![worker.m] = "Preparing"] /\ Continue("discard")
      BY <1>3, <2>3, <3>1
    <3> QED BY <2>2, <2>5, <3>1 DEF Accept
  <2>6. ASSUME Report PROVE Rest
    BY <2>2, <2>6 DEF Report
  <2>7. ASSUME Undo PROVE Rest
    <3>1. \E s : Settle(s) /\ s \notin {"Unchecked", "Checking"}
      BY <2>7 DEF Undo
    <3> QED BY <2>2, <3>1
  <2>8. ASSUME BuildFails \/ Verify \/ Arm PROVE Rest
    <3>1. (\E s \in {"undo", "arm", "staged"} : Continue(s)) /\ status' = status
      BY <2>8 DEF BuildFails, Verify, Arm, service
    <3> QED BY <2>3, <3>1
  <2>9. ASSUME Prepare PROVE Rest
    <3>1. (worker' = [worker EXCEPT !.pc = "build", !.todo = Files] \/ Continue("undo")) /\ status' = status
      BY <2>9 DEF Prepare, service
    <3>2. ASSUME worker' = [worker EXCEPT !.pc = "build", !.todo = Files] PROVE worker'.pc = "build"
      BY <1>3, <3>2
    <3> QED BY <2>3, <3>1, <3>2 DEF RunSteps
  <2>10. ASSUME NEW f \in Files, Place(f) PROVE Rest
    BY <1>3, <2>1, <2>10 DEF Place, service
  <2>11. Rest
    BY <1>12, <2>4, <2>5, <2>6, <2>7, <2>8, <2>9, <2>10
  <2> QED BY <1>4, <2>1, <2>11 DEF CheckSteps, AskSteps, RunSteps
<1> QED BY <1>5, <1>6, <1>7, <1>8, <1>9, <1>10, <1>11, <1>12 DEF Worker

LEMMA AnsweringKept ==
    ASSUME IInv, Answering, [Next]_vars
    PROVE  Answering'
<1> SUFFICES ASSUME NEW m \in Modules PROVE Answers(m)
  BY DEF Answering, Answers, Checks
<1> USE DEF IInv
<1>1. /\ worker.pc \in Checks /\ ~check /\ ~stop /\ status[m] = "Unchecked" => worker.pc # "requests" /\ m \in worker.todo
      /\ status[m] = "Unchecked" => loaded[m] # 0
      /\ status[m] = "Checking" => worker.pc = "answer" /\ worker.m = m
  BY DEF Answering, Checks
<1>2. CASE UNCHANGED <<service, worker, loaded>>
  BY <1>1, <1>2 DEF Answers, service, asks
<1>3. CASE StartStep
  <2>1. UNCHANGED loaded
    BY <1>3 DEF StartStep, Boot, MoveIn, Disarm, Clean, ApplyRemoval, ApplyInstall, RefuseUpdate, ForgetUpdate,
                Park, Skip, CleanUp
  <2> QED BY <1>2, <1>3, <2>1, StartFrame
<1>4. CASE Discover
  <2>1. worker'.pc = "none" /\ (status'[m] = "Unchecked" => loaded'[m] # 0) /\ status'[m] # "Checking"
    BY <1>4, Idle DEF Discover, SessionInv, Session
  <2> QED BY <2>1 DEF Answers, Checks, CheckSteps, AskSteps
<1>5. CASE Exit \/ Kill
  <2>1. worker'.pc = "none" /\ status'[m] = "none"
    BY <1>5, Idle DEF Exit, Kill, EndSession
  <2> QED BY <2>1 DEF Answers, Checks, CheckSteps, AskSteps
<1>6. CASE UNCHANGED vars \/ \E x \in Modules : Publish(x)
  BY <1>2, <1>6 DEF vars, start, Publish
<1> QED BY <1>3, <1>4, <1>5, <1>6, StepKinds, PlayerAnswers, WorkerAnswers DEF SessionStep

(* A request of the console is dropped only when the check has answered    *)
(* for the module, whenever in a check it came (mod_queue_requests).       *)
THEOREM RequestsGetAnswered == Spec => RequestsAnswered
<1>1. Init => Answering
  BY Idle DEF Init, Answering, CheckSteps, AskSteps
<1>2. IInv /\ Answering /\ [Next]_vars => Answering'
  BY AnsweringKept
<1> DEFINE Drop == \A m \in Modules : (m \in asked /\ m \notin asked' /\ ~stop /\ main' # "off") =>
                       status[m] \notin {"Unchecked", "Checking"}
<1>3. IInv /\ Answering /\ [Next]_vars => [Drop]_vars
  <2> SUFFICES ASSUME IInv, Answering, [Next]_vars, NEW m \in Modules,
                      m \in asked, m \notin asked', ~stop, main' # "off"
               PROVE  status[m] \notin {"Unchecked", "Checking"}
    OBVIOUS
  <2>1. ASSUME NEW ids, NEW all, RequestUpdate(ids, all) PROVE FALSE
    BY <2>1 DEF RequestUpdate
  <2>2. ASSUME Player \/ ArmRemoval PROVE FALSE
    BY <2>1, <2>2 DEF Player, StartCheck, StartUpdateAll, CatalogRefreshed, Shutdown, StartUpdate, StartInstall,
                      StageRemoval, CancelRemoval, ArmRemoval, service, asks
  <2>3. ASSUME Worker, ~QueueRequests PROVE FALSE
    BY <2>3 DEF Worker, Pick, Sweep, CheckNext, CheckAnswer, Offer, Refuse, Describe, Accept, Prepare, BuildFails,
                Verify, Arm, Report, Undo, Place, service, asks
  <2>4. QueueRequests
    BY <2>2, <2>3, StepKinds, StartFrame
       DEF SessionStep, Discover, Exit, Kill, EndSession, Publish, vars, service, asks
  <2>5. worker.pc = "requests" /\ ~check
    BY <2>4 DEF QueueRequests
  <2> QED BY <2>5 DEF Answering, CheckSteps, AskSteps
<1> QED BY Inductive, <1>1, <1>2, <1>3, PTL DEF Spec, RequestsAnswered
=============================================================================
