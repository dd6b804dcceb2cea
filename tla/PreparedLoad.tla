---------------------------- MODULE PreparedLoad ----------------------------
(***************************************************************************)
(* The prepared load of saved_game_wrapper.cpp.  A load opens the save     *)
(* file, notes its identity and decodes the opened bytes on a thread of    *)
(* its own; one such decode is kept, keyed by the identity of the file, so *)
(* that the decode begun when the level starts is found by the load that   *)
(* follows.  Callers run concurrently with each other, with the decodes    *)
(* and with whoever replaces or deletes save files.                        *)
(*                                                                         *)
(* An identity (path, file id, size and times in the code) is here the     *)
(* file and the number of its contents: every replacement of a file is a   *)
(* new number.  A snapshot is an opened file; it reads the contents it was *)
(* opened on whatever happens to the file afterwards.                      *)
(***************************************************************************)
EXTENDS Naturals, FiniteSets

CONSTANTS
    Callers,        \* the threads that load saves or ask about them
    Names,          \* the names a save is asked for by
    Asks,           \* the calls each thread makes: thread, operation, name
    PathOf(_),      \* the path of a name: names that differ in case share one
    Damaged,        \* the files whose first contents do not decode
    Volatile,       \* the files that may be missing, replaced or deleted
    MaxWrites,      \* bound: replacements and deletions of save files
    MaxFaults,      \* bound: failures of the system under a caller or a decode
    MaxCalls        \* bound: calls made

ASSUME CallersAreFinite == IsFiniteSet(Callers)
ASSUME BoundsAreNaturals == MaxWrites \in Nat /\ MaxFaults \in Nat /\ MaxCalls \in Nat

Files == {PathOf(n) : n \in Names} \X {"scop", "sav"}
Main(n) == <<PathOf(n), "scop">>
Legacy(n) == <<PathOf(n), "sav">>
FilesOf(n) == {Main(n), Legacy(n)}

ASSUME FilesGiven == Damaged \subseteq Files /\ Volatile \subseteq Files

Identities == [file : Files, contents : 1 .. MaxWrites + 1]
NoFile == [file |-> <<"none", "none">>, contents |-> 0]

(* Everything a job or a call refers to a future by; the last reference to *)
(* a future that is dropped frees its place.                               *)
Jobs == 1 .. 3 * Cardinality(Callers) + 1
NoJob == 0

(* Unavailable is told apart from Stale by nobody.                         *)
Decoded == {"Ready", "Invalid", "Stale", "Threw"}
JobRecords == [name : Names, identity : Identities, status : Decoded \union {"decoding"}]
FreeJob == [name |-> "none", identity |-> NoFile, status |-> "free"]

Ops == {"begin", "consume", "valid"}
ASSUME AsksAreCalls == Asks \subseteq Callers \X Ops \X Names
Attempts(o) == CASE o = "begin" -> 1 [] o = "valid" -> 2 [] o = "consume" -> 3

VARIABLES
    disk,       \* contents of each save file; 0: there is no such file
    writes,     \* the files replaced and deleted so far
    job,        \* the decodes whose future is still held by someone
    slot,       \* preparedSaveFuture
    slotId,     \* preparedSaveIdentity, NoFile while preparedSaveIdentityValid is false
    replacing,  \* preparedSaveReplacing
    pc,         \* where each caller is
    op, name,   \* what it was called for
    attempt,    \* the attempt it is at
    snap,       \* identity of the snapshot its request opened
    stale,      \* the future it took out of the slot
    pending,    \* the future it waits for, then the prepared save
    guard,      \* how it holds the file: "none", "strict", "compat"
    answer,     \* what its last call returned
    seen,       \* history: identities its name had on disk during the call
    mainGone,   \* history: the file of the current format was missing at some time of the call
    quiet,      \* history: nothing failed, changed or was in the way of the call
    faults, calls

diskVars == <<disk, writes>>
cacheVars == <<slot, slotId, replacing>>
callVars == <<op, name, attempt, snap, stale, pending, guard, answer>>
history == <<seen, mainGone, quiet>>
bounds == <<faults, calls>>
vars == <<diskVars, job, cacheVars, pc, callVars, history, bounds>>

Active(c) == pc[c] # "idle"
IdentityOf(f) == [file |-> f, contents |-> disk[f]]
Present(f) == disk[f] # 0
Done(j) == job[j].status # "decoding"

(* What loading the name finds on the disk now.                            *)
Current(n) ==
    IF Present(Main(n)) THEN IdentityOf(Main(n))
    ELSE IF Present(Legacy(n)) THEN IdentityOf(Legacy(n))
    ELSE NoFile

Decodes(id) == ~(id.contents = 1 /\ id.file \in Damaged)

-----------------------------------------------------------------------------
NoAnswer == [status |-> "none", identity |-> NoFile]

Init ==
    /\ disk \in {d \in [Files -> {0, 1}] : \A f \in Files \ Volatile : d[f] = 1}
    /\ writes = 0
    /\ job = [j \in Jobs |-> FreeJob]
    /\ slot = NoJob /\ slotId = NoFile /\ replacing = FALSE
    /\ pc = [c \in Callers |-> "idle"]
    /\ op = [c \in Callers |-> "none"] /\ name = [c \in Callers |-> "none"]
    /\ attempt = [c \in Callers |-> 1]
    /\ snap = [c \in Callers |-> NoFile]
    /\ stale = [c \in Callers |-> NoJob] /\ pending = [c \in Callers |-> NoJob]
    /\ guard = [c \in Callers |-> "none"]
    /\ answer = [c \in Callers |-> NoAnswer]
    /\ seen = [c \in Callers |-> {}]
    /\ mainGone = [c \in Callers |-> FALSE] /\ quiet = [c \in Callers |-> FALSE]
    /\ faults = 0 /\ calls = 0

(* A failure the system may produce where the code checks for one.         *)
Fault(c) == faults < MaxFaults /\ faults' = faults + 1 /\ quiet' = [quiet EXCEPT ![c] = FALSE]
NoFault == UNCHANGED <<faults, quiet>>

(* The futures someone holds; a place nobody holds any more is free.       *)
Held == {slot} \union {stale[c] : c \in Callers} \union {pending[c] : c \in Callers}
Collect == job' = [j \in Jobs |-> IF j \in Held' THEN job[j] ELSE FreeJob]

(* The call returns.                                                       *)
Return(c, a) ==
    /\ pc' = [pc EXCEPT ![c] = IF a.status = "Ready" /\ op[c] = "consume" THEN "leased" ELSE "returned"]
    /\ answer' = [answer EXCEPT ![c] = a]
    /\ attempt' = [attempt EXCEPT ![c] = 1]
    /\ snap' = [snap EXCEPT ![c] = NoFile]
Nothing(status) == [status |-> status, identity |-> NoFile]

(* The attempt came to nothing: the next one, or Unavailable.              *)
NextAttempt(c) ==
    IF attempt[c] < Attempts(op[c])
    THEN /\ attempt' = [attempt EXCEPT ![c] = @ + 1]
         /\ pc' = [pc EXCEPT ![c] = "resolve"]
         /\ snap' = [snap EXCEPT ![c] = NoFile]
         /\ UNCHANGED answer
    ELSE Return(c, Nothing("Unavailable"))

(* Someone is at the same file under another name: loads by both names     *)
(* throw each other's decode out of the slot.                              *)
Rivals(d, n) == Active(d) /\ name[d] # n /\ PathOf(name[d]) = PathOf(n)

(* One of begin_async_load, consume_prepared_load, valid_saved_game is     *)
(* called; the waits, the recovery and the look whether there is a file    *)
(* that they begin with are behind it.                                     *)
Start(c, o, n) ==
    /\ pc[c] = "idle" /\ calls < MaxCalls
    /\ calls' = calls + 1
    /\ pc' = [pc EXCEPT ![c] = "resolve"]
    /\ op' = [op EXCEPT ![c] = o] /\ name' = [name EXCEPT ![c] = n]
    /\ seen' = [seen EXCEPT ![c] = {IdentityOf(f) : f \in {g \in FilesOf(n) : Present(g)}}]
    /\ mainGone' = [mainGone EXCEPT ![c] = ~Present(Main(n))]
    /\ quiet' = [d \in Callers |-> IF d = c THEN \A e \in Callers : ~Rivals(e, n) ELSE quiet[d] /\ ~Rivals(d, n)]
    /\ UNCHANGED <<diskVars, job, cacheVars, attempt, snap, stale, pending, guard, answer, faults>>

\* Mutant: a file that cannot be opened counts as missing.
MissingOrBlocked(f) == TRUE
Missing(f) == ~Present(f)

(* open_save_snapshot on the file of the current format.  A missing file   *)
(* sends the request to the legacy name, any other failure ends it.        *)
ResolveMain(c) ==
    /\ pc[c] = "resolve"
    /\ \/ /\ Present(Main(name[c])) /\ NoFault
          /\ snap' = [snap EXCEPT ![c] = IdentityOf(Main(name[c]))]
          /\ pc' = [pc EXCEPT ![c] = "enter"]
          /\ UNCHANGED <<attempt, answer>>
       \/ /\ Missing(Main(name[c])) /\ NoFault
          /\ pc' = [pc EXCEPT ![c] = "resolve_legacy"]
          /\ UNCHANGED <<snap, attempt, answer>>
       \/ Present(Main(name[c])) /\ Fault(c) /\ NextAttempt(c)
    /\ UNCHANGED <<diskVars, job, cacheVars, op, name, stale, pending, guard, seen, mainGone, calls>>

ResolveLegacy(c) ==
    /\ pc[c] = "resolve_legacy"
    /\ \/ /\ Present(Legacy(name[c])) /\ NoFault
          /\ snap' = [snap EXCEPT ![c] = IdentityOf(Legacy(name[c]))]
          /\ pc' = [pc EXCEPT ![c] = "enter"]
          /\ UNCHANGED <<attempt, answer>>
       \/ Missing(Legacy(name[c])) /\ NoFault /\ NextAttempt(c)
       \/ Present(Legacy(name[c])) /\ Fault(c) /\ NextAttempt(c)
    /\ UNCHANGED <<diskVars, job, cacheVars, op, name, stale, pending, guard, seen, mainGone, calls>>

MayEnter == ~replacing

(* Under the mutex, once nobody is replacing the cached decode: a decode   *)
(* of the same identity is shared, any other is taken out of the slot.     *)
\* Mutant: whatever decode is in the slot is shared.
SharesAny(c) == slot # NoJob /\ slotId # NoFile
Shares(c) == slot # NoJob /\ slotId # NoFile /\ slotId = snap[c]
Enter(c) ==
    /\ pc[c] = "enter" /\ MayEnter
    /\ \/ /\ Shares(c) /\ op[c] = "begin"
          /\ Return(c, Nothing("Begun"))
          /\ UNCHANGED <<cacheVars, pending, stale>>
       \/ /\ Shares(c) /\ op[c] # "begin"
          /\ pending' = [pending EXCEPT ![c] = slot]
          /\ pc' = [pc EXCEPT ![c] = "get"] /\ snap' = [snap EXCEPT ![c] = NoFile]
          /\ UNCHANGED <<cacheVars, stale, attempt, answer>>
       \/ /\ ~Shares(c)
          /\ replacing' = TRUE
          /\ stale' = [stale EXCEPT ![c] = slot]
          /\ slot' = NoJob /\ slotId' = NoFile
          /\ pc' = [pc EXCEPT ![c] = "launch"]
          /\ UNCHANGED <<pending, attempt, snap, answer>>
    /\ UNCHANGED <<diskVars, job, op, name, guard, history, bounds>>

(* Outside the mutex: the decode taken out is waited for and let go, and   *)
(* the new one begins.                                                     *)
FirstFree(j) == job[j] = FreeJob /\ \A k \in 1 .. j - 1 : job[k] # FreeJob
Drained(c) == stale[c] # NoJob => Done(stale[c])

Launch(c) ==
    /\ pc[c] = "launch" /\ Drained(c)
    /\ stale' = [stale EXCEPT ![c] = NoJob]
    /\ \E j \in Jobs : FirstFree(j) /\ pending' = [pending EXCEPT ![c] = j]
    /\ pc' = [pc EXCEPT ![c] = "publish"]
    /\ UNCHANGED <<diskVars, cacheVars, op, name, attempt, snap, guard, answer, history, bounds>>
    /\ job' = [j \in Jobs |->
                 IF j = pending'[c] THEN [name |-> name[c], identity |-> snap[c], status |-> "decoding"]
                 ELSE IF j \in Held' THEN job[j] ELSE FreeJob]

\* Mutant: the flag stays up when the exception passes.
KeepReplacing == UNCHANGED replacing
StopReplacing == replacing' = FALSE

(* std::async finds no thread: the exception leaves the call.              *)
LaunchThrows(c) ==
    /\ pc[c] = "launch" /\ Drained(c) /\ Fault(c)
    /\ StopReplacing
    /\ Return(c, Nothing("Threw"))
    /\ stale' = [stale EXCEPT ![c] = NoJob]
    /\ UNCHANGED <<diskVars, slot, slotId, op, name, pending, guard, seen, mainGone, calls>>
    /\ Collect

Publish(c) ==
    /\ pc[c] = "publish"
    /\ slot' = pending[c] /\ slotId' = snap[c] /\ replacing' = FALSE
    /\ IF op[c] = "begin"
       THEN /\ pending' = [pending EXCEPT ![c] = NoJob]
            /\ Return(c, Nothing("Begun"))
       ELSE /\ pc' = [pc EXCEPT ![c] = "get"] /\ snap' = [snap EXCEPT ![c] = NoFile]
            /\ UNCHANGED <<pending, attempt, answer>>
    /\ UNCHANGED <<diskVars, job, op, name, stale, guard, history, bounds>>

-----------------------------------------------------------------------------
(* decode_prepared_save.  The bytes decoded are those of the snapshot; the *)
(* result counts only if, after that, the snapshot's file and the path     *)
(* still have the identity it was opened with.  Waiting callers see what   *)
(* becomes of it.                                                          *)
DecodeResult(id) ==
    IF ~Decodes(id) THEN "Invalid" ELSE IF IdentityOf(id.file) = id THEN "Ready" ELSE "Stale"

Decode(j) ==
    /\ job[j].status = "decoding"
    /\ job' = [job EXCEPT ![j].status = DecodeResult(job[j].identity)]
    /\ UNCHANGED <<diskVars, cacheVars, pc, callVars, history, bounds>>

(* The file cannot be mapped, cannot be opened again, or the memory for    *)
(* the decoded bytes is not there and the future holds the exception.      *)
DecodeFails(j) ==
    /\ job[j].status = "decoding" /\ faults < MaxFaults
    /\ \E s \in {"Stale", "Threw"} : job' = [job EXCEPT ![j].status = s]
    /\ faults' = faults + 1
    /\ quiet' = [c \in Callers |-> quiet[c] /\ ~Active(c)]
    /\ UNCHANGED <<diskVars, cacheVars, pc, callVars, seen, mainGone, calls>>

-----------------------------------------------------------------------------
Outcome(c) == job[pending[c]]
Drop(c) == pending' = [pending EXCEPT ![c] = NoJob]

(* The answer is what the decode found.                                    *)
Answers(c) ==
    /\ Outcome(c).status \in (IF op[c] = "valid" THEN {"Ready", "Invalid"} ELSE {"Invalid"})
    /\ op[c] = "consume" => Outcome(c).name = name[c]

(* A decode that is Ready is delivered only if its file is still the one   *)
(* decoded: the handle is asked, then the path is opened once more, so     *)
(* that it cannot be replaced, or if someone else prevents that, only so   *)
(* that its identity can be compared.  The handle of a file replaced       *)
(* meanwhile may answer either way, the path decides.                      *)
Usable(c) == op[c] = "consume" /\ Outcome(c).name = name[c] /\ Outcome(c).status = "Ready"
\* Mutant: that the path can be opened is enough.
UnchangedPath(c) == Present(Outcome(c).identity.file)
Unchanged(c) == IdentityOf(Outcome(c).identity.file) = Outcome(c).identity

Get(c) ==
    /\ pc[c] = "get" /\ Done(pending[c])
    /\ \/ /\ Outcome(c).status = "Threw" /\ NoFault
          /\ Return(c, Nothing("Threw"))
          /\ Drop(c) /\ UNCHANGED guard
       \/ /\ Answers(c) /\ NoFault
          /\ Return(c, [status |-> Outcome(c).status, identity |-> Outcome(c).identity])
          /\ Drop(c) /\ UNCHANGED guard
       \/ /\ Outcome(c).status # "Threw" /\ ~Answers(c)
          /\ IF Usable(c) /\ Unchanged(c) THEN Fault(c) ELSE NoFault
          /\ pc' = [pc EXCEPT ![c] = "evict"]
          /\ UNCHANGED <<attempt, snap, answer, pending, guard>>
       \/ /\ Usable(c) /\ Unchanged(c) /\ NoFault
          /\ \E g \in {"strict", "compat"} : guard' = [guard EXCEPT ![c] = g]
          /\ pc' = [pc EXCEPT ![c] = "deliver"]
          /\ UNCHANGED <<attempt, snap, answer, pending>>
    /\ UNCHANGED <<diskVars, cacheVars, op, name, stale, seen, mainGone, calls>>
    /\ Collect

(* evict_prepared_save.  The last reference to a decode that still runs    *)
(* waits for it.                                                           *)
HeldByOthers(c) == {stale[d] : d \in Callers} \union {pending[d] : d \in Callers \ {c}}
\* Mutant: a decode that is of no use is left in the slot.
EvictNothing(c) == UNCHANGED cacheVars
EvictSlot(c) ==
    IF ~replacing /\ slotId = Outcome(c).identity
    THEN /\ Done(slot) \/ slot \in HeldByOthers(c)
         /\ slot' = NoJob /\ slotId' = NoFile
         /\ UNCHANGED replacing
    ELSE UNCHANGED cacheVars

Evict(c) ==
    /\ pc[c] = "evict"
    /\ EvictSlot(c)
    /\ Drop(c)
    /\ NextAttempt(c)
    /\ UNCHANGED <<diskVars, op, name, stale, guard, history, bounds>>
    /\ Collect

(* The companions are opened and mapped the same way, the decode leaves    *)
(* the slot and the load is given its bytes.                               *)
Deliver(c) ==
    /\ pc[c] = "deliver"
    /\ \/ /\ NoFault /\ EvictSlot(c)
          /\ Return(c, [status |-> "Ready", identity |-> Outcome(c).identity])
          /\ UNCHANGED guard
       \/ /\ Fault(c)
          /\ pc' = [pc EXCEPT ![c] = "evict"]
          /\ guard' = [guard EXCEPT ![c] = "none"]
          /\ UNCHANGED <<cacheVars, attempt, snap, answer>>
    /\ UNCHANGED <<diskVars, op, name, stale, pending, seen, mainGone, calls>>
    /\ Collect

(* The caller is through with the answer, after a load with the native and *)
(* the Lua load callbacks, and lets go of what it was given.               *)
Release(c) ==
    /\ pc[c] \in {"leased", "returned"}
    /\ pc' = [pc EXCEPT ![c] = "idle"]
    /\ op' = [op EXCEPT ![c] = "none"] /\ name' = [name EXCEPT ![c] = "none"]
    /\ guard' = [guard EXCEPT ![c] = "none"]
    /\ answer' = [answer EXCEPT ![c] = NoAnswer]
    /\ seen' = [seen EXCEPT ![c] = {}]
    /\ mainGone' = [mainGone EXCEPT ![c] = FALSE] /\ quiet' = [quiet EXCEPT ![c] = FALSE]
    /\ Drop(c)
    /\ UNCHANGED <<diskVars, cacheVars, attempt, snap, stale, bounds>>
    /\ Collect

-----------------------------------------------------------------------------
(* Files are replaced by new ones and deleted: a save of this or of        *)
(* another process, the player.  A strict guard does not let them.         *)
Replaceable(f) == \A c \in Callers : guard[c] = "strict" => Outcome(c).identity.file # f
Touch(f) ==
    /\ Replaceable(f) /\ writes < MaxWrites
    /\ writes' = writes + 1
    /\ quiet' = [c \in Callers |-> quiet[c] /\ (Active(c) => f \notin FilesOf(name[c]))]
    /\ UNCHANGED <<job, cacheVars, pc, callVars, bounds>>

Replace(f) ==
    /\ Touch(f)
    /\ disk' = [disk EXCEPT ![f] = writes + 2]
    /\ seen' = [c \in Callers |->
                  IF Active(c) /\ f \in FilesOf(name[c])
                  THEN seen[c] \union {[file |-> f, contents |-> writes + 2]} ELSE seen[c]]
    /\ UNCHANGED mainGone

Delete(f) ==
    /\ Touch(f) /\ Present(f)
    /\ disk' = [disk EXCEPT ![f] = 0]
    /\ mainGone' = [c \in Callers |-> mainGone[c] \/ (Active(c) /\ f = Main(name[c]))]
    /\ UNCHANGED seen

-----------------------------------------------------------------------------
Request(c) == ResolveMain(c) \/ ResolveLegacy(c) \/ Enter(c) \/ Launch(c) \/ LaunchThrows(c) \/ Publish(c)
Consume(c) == Get(c) \/ Evict(c) \/ Deliver(c)
Caller(c) == Request(c) \/ Consume(c) \/ Release(c)

Next ==
    \/ \E a \in Asks : Start(a[1], a[2], a[3])
    \/ \E c \in Callers : Caller(c)
    \/ \E j \in Jobs : Decode(j) \/ DecodeFails(j)
    \/ \E f \in Volatile : Replace(f) \/ Delete(f)

Spec == Init /\ [][Next]_vars

(* Threads run: a caller that can go on does, a decode ends.               *)
Fairness ==
    /\ \A c \in Callers : WF_vars(Caller(c))
    /\ \A j \in Jobs : WF_vars(Decode(j))
FairSpec == Spec /\ Fairness

-----------------------------------------------------------------------------
Pcs == {"idle", "resolve", "resolve_legacy", "enter", "launch", "publish", "get", "evict",
        "deliver", "leased", "returned"}
Statuses == {"none", "Begun", "Ready", "Invalid", "Unavailable", "Threw"}

(* Types of the state.                                                     *)
TypeOK ==
    /\ disk \in [Files -> 0 .. MaxWrites + 1] /\ writes \in 0 .. MaxWrites
    /\ job \in [Jobs -> JobRecords \union {FreeJob}]
    /\ slot \in Jobs \union {NoJob} /\ slotId \in Identities \union {NoFile} /\ replacing \in BOOLEAN
    /\ pc \in [Callers -> Pcs] 
    /\ op \in [Callers -> Ops \union {"none"}] /\ name \in [Callers -> Names \union {"none"}]
    /\ attempt \in [Callers -> 1 .. 3]
    /\ snap \in [Callers -> Identities \union {NoFile}]
    /\ stale \in [Callers -> Jobs \union {NoJob}] /\ pending \in [Callers -> Jobs \union {NoJob}]
    /\ guard \in [Callers -> {"none", "strict", "compat"}]
    /\ answer \in [Callers -> [status : Statuses, identity : Identities \union {NoFile}]]
    /\ seen \in [Callers -> SUBSET Identities]
    /\ mainGone \in [Callers -> BOOLEAN] /\ quiet \in [Callers -> BOOLEAN]
    /\ faults \in 0 .. MaxFaults /\ calls \in 0 .. MaxCalls

(* Only one caller at a time takes the cached decode out, waits for it and *)
(* puts its own in; the slot is empty while it does, and afterwards the    *)
(* identity it is found by is that of the decode in it                     *)
(* (request_prepared_save, evict_prepared_save).                           *)
Between == {"launch", "publish"}
OneReplacer ==
    /\ \A c, d \in Callers : pc[c] \in Between /\ pc[d] \in Between => c = d
    /\ replacing <=> \E c \in Callers : pc[c] \in Between
    /\ replacing => slot = NoJob
    /\ IF slot = NoJob THEN slotId = NoFile ELSE slotId = job[slot].identity

(* A call answers about contents its name had on the disk during that very *)
(* call, whichever earlier decode it was given (consume_prepared_load,     *)
(* get_prepared_save_with_retry).                                          *)
Finished(c) == pc[c] \in {"returned", "leased"}
AnswersAreFresh ==
    \A c \in Callers : Finished(c) /\ answer[c].identity # NoFile => answer[c].identity \in seen[c]

(* The legacy file answers only when the file of the current format was    *)
(* missing at some time of the call: a failure to open it never makes the  *)
(* load fall back to an older save (resolve_save_snapshot,                 *)
(* SAVE_COMPATIBILITY.md:231).                                             *)
LegacyOnlyWithoutMain ==
    \A c \in Callers :
        Finished(c) /\ answer[c].identity # NoFile /\ answer[c].identity.file = Legacy(name[c]) => mainGone[c]

(* While the strict lease of a load lasts, the file on the disk is the one *)
(* whose decoded bytes the load was given (SAVE_COMPATIBILITY.md:234).     *)
LeaseHolds == \A c \in Callers : pc[c] = "leased" /\ guard[c] = "strict" =>
        IdentityOf(answer[c].identity.file) = answer[c].identity

(* A call under which nothing failed and nothing changed, with no call for *)
(* the file by another name beside it, says what is on the disk, whatever  *)
(* stale or failed decode, or decode asked for by another name, it found   *)
(* in the slot; unless that holds an exception, which every call for this  *)
(* file rethrows (consume_prepared_load, get_prepared_save_with_retry).    *)
QuietCallsSucceed ==
    \A c \in Callers :
        Finished(c) /\ quiet[c] /\ op[c] # "begin" /\ answer[c].status # "Threw" =>
            answer[c].status = (IF Current(name[c]) = NoFile THEN "Unavailable"
                                ELSE IF Decodes(Current(name[c])) THEN "Ready" ELSE "Invalid")

(* Every call returns: nobody waits for a replacement that never ends.     *)
CallsReturn == \A c \in Callers : pc[c] # "idle" ~> pc[c] = "idle"
=============================================================================
