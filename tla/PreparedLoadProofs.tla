------------------------- MODULE PreparedLoadProofs -------------------------
(***************************************************************************)
(* Theorems about PreparedLoad, for any number of threads, names, files,   *)
(* replacements of files, failures and calls: a call answers about         *)
(* contents the name had on the disk during that call, the legacy file     *)
(* answers only for a missing main file, a strict lease holds the file     *)
(* that was decoded, and a call that nothing disturbs says what is on the  *)
(* disk.                                                                   *)
(***************************************************************************)
EXTENDS PreparedLoad, FiniteSetTheorems, TLAPS

-----------------------------------------------------------------------------
(* The inductive invariant.  The answer a call gets is the identity of the *)
(* decode it waits for, and that is the identity of a snapshot this very   *)
(* call opened: followed through the slot, another caller's publication    *)
(* and the reuse of the places of decodes nobody holds any more.           *)

(* Whatever somebody refers to is a decode and not a free place.           *)
LiveJobs == \A j \in Held : j # NoJob => job[j] \in JobRecords

(* An identity the name of the call had during the call, the legacy one    *)
(* only if the main file was missing.                                      *)
Found(c, id) == /\ id \in Identities /\ id \in seen[c]
                /\ id.file = Legacy(name[c]) => mainGone[c]

(* The history of a call covers what is on the disk now.                   *)
Watched(c) ==
    Active(c) => /\ name[c] \in Names /\ op[c] \in Ops
                 /\ \A f \in FilesOf(name[c]) : Present(f) => IdentityOf(f) \in seen[c]
                 /\ Present(Main(name[c])) \/ mainGone[c]

Asked(c) ==
    /\ pc[c] = "resolve_legacy" => mainGone[c]
    /\ pc[c] \in {"enter", "launch", "publish"} => Found(c, snap[c])
    /\ pc[c] = "publish" => job[pending[c]].identity = snap[c]
    /\ pc[c] \in {"publish", "get", "evict", "deliver", "leased"} =>
           pending[c] \in Jobs /\ Found(c, Outcome(c).identity)
    /\ pc[c] = "deliver" => op[c] = "consume"
    /\ pc[c] = "leased" => answer[c].identity = Outcome(c).identity
    /\ Finished(c) /\ answer[c].identity # NoFile => Found(c, answer[c].identity)

Leased(c) ==
    /\ guard[c] # "none" => pc[c] \in {"deliver", "leased"}
    /\ guard[c] = "strict" => IdentityOf(Outcome(c).identity.file) = Outcome(c).identity

CallInv(c) == Watched(c) /\ Asked(c) /\ Leased(c)

IInv == TypeOK /\ OneReplacer /\ LiveJobs /\ \A c \in Callers : CallInv(c)

-----------------------------------------------------------------------------
LEMMA JobPlaces == Jobs \subseteq Nat \ {0} /\ NoJob \notin Jobs
<1>1. Cardinality(Callers) \in Nat
  BY CallersAreFinite, FS_CardinalityType
<1> QED BY <1>1 DEF Jobs, NoJob

LEMMA Distinct ==
    /\ NoFile \notin Identities
    /\ FreeJob \notin JobRecords
    /\ \A r \in JobRecords : r.identity \in Identities
<1>1. NoFile \notin Identities
  BY DEF NoFile, Identities
<1>2. FreeJob \notin JobRecords
  <2>1. FreeJob.status \notin Decoded \union {"decoding"}
    BY DEF FreeJob, Decoded
  <2>2. \A r \in JobRecords : r.status \in Decoded \union {"decoding"}
    BY DEF JobRecords
  <2> QED BY <2>1, <2>2
<1>3. \A r \in JobRecords : r.identity \in Identities
  BY DEF JobRecords
<1> QED BY <1>1, <1>2, <1>3

(* The identity of a present file.                                         *)
LEMMA IdentityType ==
    ASSUME TypeOK, NEW n \in Names, NEW f \in FilesOf(n)
    PROVE  /\ f \in Files
           /\ Present(f) => IdentityOf(f) \in Identities /\ IdentityOf(f).file = f
<1>1. f \in Files
  BY DEF Files, FilesOf, Main, Legacy
<1>2. disk[f] \in 0 .. MaxWrites + 1
  BY <1>1 DEF TypeOK
<1>3. Present(f) => disk[f] \in 1 .. MaxWrites + 1
  BY <1>2, BoundsAreNaturals DEF Present
<1> QED BY <1>1, <1>3 DEF IdentityOf, Identities

LEMMA MainIsNotLegacy == \A n : Main(n) # Legacy(n)
BY DEF Main, Legacy

(* A call whose part of the state, and the disk, stay as they are keeps    *)
(* its invariant.                                                          *)
LEMMA CallStays ==
    ASSUME NEW c \in Callers, CallInv(c), UNCHANGED disk,
           pc'[c] = pc[c], op'[c] = op[c], name'[c] = name[c], snap'[c] = snap[c],
           pending'[c] = pending[c], guard'[c] = guard[c], answer'[c] = answer[c],
           seen'[c] = seen[c], mainGone'[c] = mainGone[c],
           pending[c] # NoJob => job'[pending[c]].identity = job[pending[c]].identity
    PROVE  CallInv(c)'
<1>1. Watched(c)'
  BY DEF CallInv, Watched, Active, FilesOf, Main, Legacy, Present, IdentityOf
<1>2. \A id : Found(c, id) => Found(c, id)'
  BY DEF Found, Legacy
<1>3. pending[c] \in Jobs => Outcome(c)'.identity = Outcome(c).identity
  BY JobPlaces DEF Outcome
<1>4. Asked(c)'
  <2>1. (pc[c] \in {"publish", "get", "evict", "deliver", "leased"} => pending[c] \in Jobs)
    BY DEF CallInv, Asked
  <2> QED BY <1>2, <1>3, <2>1 DEF CallInv, Asked, Finished, Outcome
<1>5. Leased(c)'
  <2>1. guard[c] = "strict" => pending[c] \in Jobs
    BY DEF CallInv, Asked, Leased
  <2> QED BY <1>3, <2>1 DEF CallInv, Leased, IdentityOf
<1> QED BY <1>1, <1>4, <1>5 DEF CallInv

(* Places of decodes nobody refers to any more are freed, no other.        *)
LEMMA Collected ==
    ASSUME TypeOK, LiveJobs, Collect, Held' \subseteq Held \union {NoJob}
    PROVE  /\ job' \in [Jobs -> JobRecords \union {FreeJob}]
           /\ LiveJobs'
           /\ \A j \in Held' : j # NoJob => job'[j] = job[j]
<1>1. Held \subseteq Jobs \union {NoJob}
  BY DEF Held, TypeOK
<1>2. job' \in [Jobs -> JobRecords \union {FreeJob}]
  BY DEF Collect, TypeOK
<1>3. \A j \in Held' : j # NoJob => job'[j] = job[j]
  BY <1>1 DEF Collect
<1>4. LiveJobs'
  BY <1>3 DEF LiveJobs
<1> QED BY <1>2, <1>3, <1>4

LEMMA InitIInv == ASSUME Init PROVE IInv
<1>1. TypeOK
  <2>1. disk \in [Files -> 0 .. MaxWrites + 1]
    BY BoundsAreNaturals DEF Init
  <2>2. answer \in [Callers -> [status : Statuses, identity : Identities \union {NoFile}]]
    BY DEF Init, NoAnswer, Statuses
  <2>3. mainGone \in [Callers -> BOOLEAN] /\ quiet \in [Callers -> BOOLEAN]
    BY DEF Init
  <2>4. pc \in [Callers -> Pcs] /\ attempt \in [Callers -> 1 .. 3]
    BY DEF Init, Pcs
  <2>5. writes \in 0 .. MaxWrites /\ faults \in 0 .. MaxFaults /\ calls \in 0 .. MaxCalls
    BY BoundsAreNaturals DEF Init
  <2>6. seen \in [Callers -> SUBSET Identities]
    BY DEF Init
  <2> QED BY <2>1, <2>2, <2>3, <2>4, <2>5, <2>6 DEF Init, TypeOK
<1>2. OneReplacer
  BY DEF Init, OneReplacer, Between
<1>3. LiveJobs
  BY DEF Init, LiveJobs, Held
<1>4. ASSUME NEW c \in Callers PROVE CallInv(c)
  BY DEF Init, CallInv, Watched, Asked, Leased, Active, Finished
<1> QED BY <1>1, <1>2, <1>3, <1>4 DEF IInv

-----------------------------------------------------------------------------
(* One lemma for each action.                                              *)
LEMMA StartKeeps ==
    ASSUME IInv, NEW c \in Callers, NEW o \in Ops, NEW n \in Names, Start(c, o, n)
    PROVE  IInv'
<1> USE DEF Start, diskVars, cacheVars
<1>1. TypeOK'
  <2>1. TypeOK
    BY DEF IInv
  <2>2. {IdentityOf(f) : f \in {g \in FilesOf(n) : Present(g)}} \subseteq Identities
    BY <2>1, IdentityType
  <2>3. seen' \in [Callers -> SUBSET Identities]
    BY <2>1, <2>2 DEF TypeOK
  <2>4. mainGone' \in [Callers -> BOOLEAN]
    BY <2>1, ZenonT(30) DEF TypeOK
  <2>5. quiet' \in [Callers -> BOOLEAN]
    BY <2>1, ZenonT(30) DEF TypeOK
  <2>6. calls' \in 0 .. MaxCalls
    BY <2>1, BoundsAreNaturals DEF TypeOK
  <2> QED BY <2>1, <2>3, <2>4, <2>5, <2>6 DEF TypeOK, Pcs
<1>2. OneReplacer'
  BY DEF IInv, OneReplacer, Between, TypeOK
<1>3. LiveJobs'
  BY DEF IInv, LiveJobs, Held
<1>4. ASSUME NEW d \in Callers, d # c PROVE CallInv(d)'
  BY <1>4, CallStays DEF IInv, TypeOK
<1>5. CallInv(c)'
  <2>1. CallInv(c) /\ TypeOK
    BY DEF IInv
  <2>2. name'[c] = n /\ op'[c] = o /\ pc'[c] = "resolve" /\ guard'[c] = guard[c]
    BY <2>1 DEF TypeOK
  <2>3. mainGone'[c] = ~Present(Main(n))
    BY <2>1, Zenon DEF TypeOK
  <2>4. seen'[c] = {IdentityOf(f) : f \in {g \in FilesOf(n) : Present(g)}}
    BY <2>1 DEF TypeOK
  <2>5. Present(Main(n))' \/ mainGone'[c]
    BY <2>3, Zenon DEF Present, Main
  <2>6. Watched(c)'
    BY <2>2, <2>4, <2>5 DEF Watched, Present, IdentityOf, FilesOf, Main, Legacy
  <2>7. Asked(c)'
    BY <2>2 DEF Asked, Finished
  <2>8. Leased(c)'
    BY <2>1, <2>2 DEF CallInv, Leased
  <2> QED BY <2>6, <2>7, <2>8 DEF CallInv
<1> QED BY <1>1, <1>2, <1>3, <1>4, <1>5 DEF IInv

(* The steps of a request that only change its caller's part of the state. *)
LEMMA OwnStep ==
    ASSUME IInv, NEW c \in Callers, UNCHANGED <<diskVars, job, op, name, seen, mainGone, calls>>,
           UNCHANGED cacheVars, UNCHANGED stale, UNCHANGED pending, UNCHANGED guard,
           NEW p, pc' = [pc EXCEPT ![c] = p], p \in Pcs \ Between, pc[c] \notin Between,
           \A d \in Callers \ {c} : snap'[d] = snap[d] /\ answer'[d] = answer[d]
    PROVE  OneReplacer' /\ LiveJobs' /\ \A d \in Callers \ {c} : CallInv(d)'
<1>1. OneReplacer'
  BY DEF IInv, OneReplacer, TypeOK, cacheVars
<1>2. LiveJobs'
  BY DEF IInv, LiveJobs, Held, cacheVars
<1>3. ASSUME NEW d \in Callers, d # c PROVE CallInv(d)'
  BY <1>3, CallStays DEF IInv, TypeOK, diskVars
<1> QED BY <1>1, <1>2, <1>3

(* What the end of an attempt changes.                                     *)
LEMMA AttemptEnds ==
    ASSUME TypeOK, NEW c \in Callers, op[c] \in Ops, NextAttempt(c)
    PROVE  /\ attempt' \in [Callers -> 1 .. 3]
           /\ snap' = [snap EXCEPT ![c] = NoFile]
           /\ \E p \in {"resolve", "returned"} : pc' = [pc EXCEPT ![c] = p]
           /\ answer' \in [Callers -> [status : Statuses, identity : Identities \union {NoFile}]]
           /\ \A d \in Callers \ {c} : answer'[d] = answer[d]
           /\ pc'[c] = "returned" => answer'[c].identity = NoFile
<1>1. CASE attempt[c] < Attempts(op[c])
  <2>1. Attempts(op[c]) \in 1 .. 3
    BY DEF Attempts, Ops
  <2>2. attempt[c] \in 1 .. 3
    BY DEF TypeOK
  <2>3. attempt' \in [Callers -> 1 .. 3]
    BY <1>1, <2>1, <2>2 DEF NextAttempt, TypeOK
  <2> QED BY <1>1, <2>3 DEF NextAttempt, TypeOK
<1>2. CASE ~(attempt[c] < Attempts(op[c]))
  <2>1. Return(c, Nothing("Unavailable"))
    BY <1>2 DEF NextAttempt
  <2>2. Nothing("Unavailable") \in [status : Statuses, identity : Identities \union {NoFile}]
    BY DEF Nothing, Statuses
  <2> QED BY <2>1, <2>2 DEF Return, TypeOK, Nothing
<1> QED BY <1>1, <1>2

LEMMA FaultTypes ==
    ASSUME TypeOK, NEW c \in Callers, Fault(c) \/ NoFault
    PROVE  faults' \in 0 .. MaxFaults /\ quiet' \in [Callers -> BOOLEAN]
<1>1. faults' \in 0 .. MaxFaults
  BY BoundsAreNaturals DEF TypeOK, Fault, NoFault
<1>2. quiet' \in [Callers -> BOOLEAN]
  BY DEF TypeOK, Fault, NoFault
<1> QED BY <1>1, <1>2

(* A call that is still at its history keeps it.                           *)
LEMMA WatchStays ==
    ASSUME NEW c \in Callers, Watched(c), Active(c), UNCHANGED <<diskVars, op, name, seen, mainGone>>
    PROVE  Watched(c)'
BY DEF Watched, Active, diskVars, FilesOf, Main, Legacy, Present, IdentityOf

(* A step of a request that opened a file, found the main file missing or  *)
(* ended the attempt.                                                      *)
LEMMA ResolveKeeps ==
    ASSUME IInv, NEW c \in Callers, pc[c] \in {"resolve", "resolve_legacy"},
           Fault(c) \/ NoFault,
           UNCHANGED <<diskVars, job, cacheVars, op, name, stale, pending, guard, seen, mainGone, calls>>,
           \/ /\ \E f \in FilesOf(name[c]) : /\ Present(f) /\ snap' = [snap EXCEPT ![c] = IdentityOf(f)]
                                             /\ f = Legacy(name[c]) => mainGone[c]
              /\ pc' = [pc EXCEPT ![c] = "enter"]
              /\ UNCHANGED <<attempt, answer>>
           \/ /\ Missing(Main(name[c])) /\ pc' = [pc EXCEPT ![c] = "resolve_legacy"]
              /\ UNCHANGED <<snap, attempt, answer>>
           \/ NextAttempt(c)
    PROVE  IInv'
<1> USE DEF diskVars, cacheVars
<1>1. TypeOK /\ CallInv(c) /\ Watched(c) /\ Active(c) /\ name[c] \in Names /\ op[c] \in Ops
  BY DEF IInv, CallInv, Watched, Active
<1>2. faults' \in 0 .. MaxFaults /\ quiet' \in [Callers -> BOOLEAN]
  BY <1>1, FaultTypes
<1>3. Watched(c)'
  BY <1>1, WatchStays
<1>4. guard'[c] = guard[c] /\ guard[c] = "none"
  BY <1>1 DEF CallInv, Leased
<1>5. Leased(c)'
  BY <1>4 DEF Leased
<1>6. ASSUME NEW p \in Pcs \ Between, pc' = [pc EXCEPT ![c] = p],
             \A d \in Callers \ {c} : snap'[d] = snap[d] /\ answer'[d] = answer[d]
      PROVE  OneReplacer' /\ LiveJobs' /\ \A d \in Callers \ {c} : CallInv(d)'
  <2>1. pc[c] \notin Between
    BY DEF Between
  <2> QED BY <1>6, <2>1, OwnStep
<1>7. ASSUME NEW f \in FilesOf(name[c]), Present(f), snap' = [snap EXCEPT ![c] = IdentityOf(f)],
             f = Legacy(name[c]) => mainGone[c], pc' = [pc EXCEPT ![c] = "enter"],
             UNCHANGED <<attempt, answer>>
      PROVE  IInv'
  <2>1. IdentityOf(f) \in Identities /\ IdentityOf(f).file = f
    BY <1>1, <1>7, IdentityType
  <2>2. TypeOK'
    BY <1>1, <1>2, <1>7, <2>1 DEF TypeOK, Pcs
  <2>3. OneReplacer' /\ LiveJobs' /\ \A d \in Callers \ {c} : CallInv(d)'
    BY <1>1, <1>6, <1>7 DEF Pcs, Between, TypeOK
  <2>4. pc'[c] = "enter" /\ snap'[c] = IdentityOf(f)
    BY <1>1, <1>7 DEF TypeOK
  <2>5. Found(c, IdentityOf(f))'
    BY <1>1, <1>7, <2>1 DEF Found, Watched, Legacy, IdentityOf
  <2>6. Asked(c)'
    BY <2>4, <2>5 DEF Asked, Finished, Found, Legacy, IdentityOf
  <2> QED BY <1>3, <1>5, <2>2, <2>3, <2>6 DEF IInv, CallInv
<1>8. ASSUME Missing(Main(name[c])), pc' = [pc EXCEPT ![c] = "resolve_legacy"],
             UNCHANGED <<snap, attempt, answer>>
      PROVE  IInv'
  <2>1. TypeOK'
    BY <1>1, <1>2, <1>8 DEF TypeOK, Pcs
  <2>2. OneReplacer' /\ LiveJobs' /\ \A d \in Callers \ {c} : CallInv(d)'
    BY <1>6, <1>8 DEF Pcs, Between
  <2>3. pc'[c] = "resolve_legacy"
    BY <1>1, <1>8 DEF TypeOK
  <2>4. mainGone'[c]
    BY <1>1, <1>8 DEF Watched, Missing
  <2>5. Asked(c)'
    BY <2>3, <2>4 DEF Asked, Finished
  <2> QED BY <1>3, <1>5, <2>1, <2>2, <2>5 DEF IInv, CallInv
<1>9. ASSUME NextAttempt(c) PROVE IInv'
  <2>1. PICK p \in {"resolve", "returned"} : pc' = [pc EXCEPT ![c] = p]
    BY <1>1, <1>9, AttemptEnds
  <2>2. /\ attempt' \in [Callers -> 1 .. 3] /\ snap' = [snap EXCEPT ![c] = NoFile]
        /\ answer' \in [Callers -> [status : Statuses, identity : Identities \union {NoFile}]]
        /\ \A d \in Callers \ {c} : answer'[d] = answer[d]
        /\ pc'[c] = "returned" => answer'[c].identity = NoFile
    BY <1>1, <1>9, AttemptEnds
  <2>3. TypeOK'
    BY <1>1, <1>2, <2>1, <2>2 DEF TypeOK, Pcs
  <2>4. \A d \in Callers \ {c} : snap'[d] = snap[d]
    BY <1>1, <2>2 DEF TypeOK
  <2>5. OneReplacer' /\ LiveJobs' /\ \A d \in Callers \ {c} : CallInv(d)'
    BY <1>6, <2>1, <2>2, <2>4 DEF Pcs, Between
  <2>6. pc'[c] = p
    BY <1>1, <2>1 DEF TypeOK
  <2>7. Asked(c)'
    BY <2>1, <2>2, <2>6 DEF Asked, Finished
  <2> QED BY <1>3, <1>5, <2>3, <2>5, <2>7 DEF IInv, CallInv
<1> QED BY <1>7, <1>8, <1>9

LEMMA ResolveMainKeeps == ASSUME IInv, NEW c \in Callers, ResolveMain(c) PROVE IInv'
<1>1. Main(name[c]) \in FilesOf(name[c])
  BY DEF FilesOf
<1> QED BY <1>1, ResolveKeeps, MainIsNotLegacy DEF ResolveMain

LEMMA ResolveLegacyKeeps == ASSUME IInv, NEW c \in Callers, ResolveLegacy(c) PROVE IInv'
<1>1. Legacy(name[c]) \in FilesOf(name[c])
  BY DEF FilesOf
<1>2. mainGone[c]
  BY DEF ResolveLegacy, IInv, CallInv, Asked
<1> QED BY <1>1, <1>2, ResolveKeeps DEF ResolveLegacy

LEMMA EnterKeeps == ASSUME IInv, NEW c \in Callers, Enter(c) PROVE IInv'
<1> USE DEF diskVars, cacheVars, history, bounds
<1>1. /\ TypeOK /\ CallInv(c) /\ Watched(c) /\ Active(c) /\ pc[c] = "enter" /\ op[c] \in Ops
      /\ Found(c, snap[c]) /\ guard[c] = "none" /\ pc[c] \notin Between /\ ~replacing
  BY DEF IInv, CallInv, Watched, Active, Asked, Leased, Enter, Between, MayEnter
<1>2. UNCHANGED <<diskVars, job, op, name, guard, history, bounds>>
  BY DEF Enter
<1>3. Watched(c)' /\ Leased(c)'
  BY <1>1, <1>2, WatchStays DEF Leased
<1>4. \A d \in Callers : pc[d] \notin Between
  BY <1>1 DEF IInv, OneReplacer
<1>5. CASE /\ Shares(c) /\ op[c] = "begin" /\ Return(c, Nothing("Begun"))
           /\ UNCHANGED <<cacheVars, pending, stale>>
  <2>1. /\ pc' = [pc EXCEPT ![c] = "returned"] /\ snap' = [snap EXCEPT ![c] = NoFile]
        /\ answer' = [answer EXCEPT ![c] = Nothing("Begun")] /\ attempt' = [attempt EXCEPT ![c] = 1]
    BY <1>5 DEF Return, Nothing
  <2>2. Nothing("Begun") \in [status : Statuses, identity : Identities \union {NoFile}]
    BY DEF Nothing, Statuses
  <2>3. TypeOK'
    BY <1>1, <1>2, <1>5, <2>1, <2>2 DEF TypeOK, Pcs
  <2>4. \A d \in Callers \ {c} : snap'[d] = snap[d] /\ answer'[d] = answer[d]
    BY <1>1, <2>1 DEF TypeOK
  <2>5. OneReplacer' /\ LiveJobs' /\ \A d \in Callers \ {c} : CallInv(d)'
    BY <1>1, <1>2, <1>5, <2>1, <2>4, OwnStep DEF Pcs, Between
  <2>6. pc'[c] = "returned" /\ answer'[c].identity = NoFile
    BY <1>1, <2>1 DEF TypeOK, Nothing
  <2>7. Asked(c)'
    BY <2>6 DEF Asked, Finished
  <2> QED BY <1>3, <2>3, <2>5, <2>7 DEF IInv, CallInv
<1>6. CASE /\ Shares(c) /\ op[c] # "begin" /\ pending' = [pending EXCEPT ![c] = slot]
           /\ pc' = [pc EXCEPT ![c] = "get"] /\ snap' = [snap EXCEPT ![c] = NoFile]
           /\ UNCHANGED <<cacheVars, stale, attempt, answer>>
  <2>1. TypeOK'
    BY <1>1, <1>2, <1>6 DEF TypeOK, Pcs
  <2>2. slot \in Jobs /\ job[slot].identity = snap[c] /\ slot \in Held
    BY <1>1, <1>6 DEF Shares, IInv, OneReplacer, TypeOK, Held
  <2>3. OneReplacer'
    BY <1>1, <1>2, <1>6 DEF IInv, OneReplacer, TypeOK, Between
  <2>4. Held' \subseteq Held
    BY <1>1, <1>6, <2>2 DEF Held, TypeOK
  <2>5. LiveJobs'
    BY <1>2, <2>4 DEF IInv, LiveJobs
  <2>6. ASSUME NEW d \in Callers, d # c PROVE CallInv(d)'
    BY <1>2, <1>6, <2>6, CallStays DEF IInv, TypeOK
  <2>7. pc'[c] = "get" /\ pending'[c] = slot
    BY <1>1, <1>6 DEF TypeOK
  <2>8. Outcome(c)'.identity = snap[c]
    BY <1>2, <2>2, <2>7 DEF Outcome
  <2>9. Found(c, Outcome(c).identity)'
    BY <1>1, <1>2, <2>8 DEF Found, Legacy
  <2>10. Asked(c)'
    BY <2>2, <2>7, <2>9 DEF Asked, Finished
  <2> QED BY <1>3, <2>1, <2>3, <2>5, <2>6, <2>10 DEF IInv, CallInv
<1>7. CASE /\ replacing' = TRUE /\ stale' = [stale EXCEPT ![c] = slot]
           /\ slot' = NoJob /\ slotId' = NoFile /\ pc' = [pc EXCEPT ![c] = "launch"]
           /\ UNCHANGED <<pending, attempt, snap, answer>>
  <2>1. TypeOK'
    BY <1>1, <1>2, <1>7 DEF TypeOK, Pcs
  <2>2. OneReplacer'
    BY <1>1, <1>4, <1>7 DEF OneReplacer, TypeOK, Between
  <2>3. Held' \subseteq Held \union {NoJob}
    BY <1>1, <1>7 DEF Held, TypeOK
  <2>4. LiveJobs'
    BY <1>2, <2>3 DEF IInv, LiveJobs
  <2>5. ASSUME NEW d \in Callers, d # c PROVE CallInv(d)'
    BY <1>2, <1>7, <2>5, CallStays DEF IInv, TypeOK
  <2>6. pc'[c] = "launch"
    BY <1>1, <1>7 DEF TypeOK
  <2>7. Found(c, snap[c])'
    BY <1>1, <1>2, <1>7 DEF Found, Legacy
  <2>8. Asked(c)'
    BY <2>6, <2>7 DEF Asked, Finished
  <2> QED BY <1>3, <2>1, <2>2, <2>4, <2>5, <2>8 DEF IInv, CallInv
<1> QED BY <1>5, <1>6, <1>7 DEF Enter

LEMMA LaunchKeeps == ASSUME IInv, NEW c \in Callers, Launch(c) PROVE IInv'
<1> USE DEF diskVars, cacheVars, history, bounds
<1>1. /\ TypeOK /\ CallInv(c) /\ Watched(c) /\ Active(c) /\ pc[c] = "launch" /\ name[c] \in Names
      /\ Found(c, snap[c]) /\ guard[c] = "none"
  BY DEF IInv, CallInv, Watched, Active, Asked, Leased, Launch
<1>2. PICK j \in Jobs : FirstFree(j) /\ pending' = [pending EXCEPT ![c] = j]
  BY DEF Launch
<1>3. /\ UNCHANGED <<diskVars, cacheVars, op, name, attempt, snap, guard, answer, history, bounds>>
      /\ stale' = [stale EXCEPT ![c] = NoJob] /\ pc' = [pc EXCEPT ![c] = "publish"]
  BY DEF Launch
<1>4. pending'[c] = j /\ pc'[c] = "publish"
  BY <1>1, <1>2, <1>3 DEF TypeOK
<1> DEFINE new == [name |-> name[c], identity |-> snap[c], status |-> "decoding"]
<1>5. new \in JobRecords
  BY <1>1 DEF JobRecords, Found
<1>6. job' = [k \in Jobs |-> IF k = j THEN new ELSE IF k \in Held' THEN job[k] ELSE FreeJob]
  BY <1>4 DEF Launch
<1> HIDE DEF new
<1>7. Held' \subseteq Held \union {j, NoJob}
  BY <1>1, <1>2, <1>3 DEF Held, TypeOK
<1>8. Held' \subseteq Jobs \union {NoJob}
  BY <1>1, <1>2, <1>3 DEF Held, TypeOK
<1>9. \A k \in Held : k # NoJob => k # j
  BY <1>2, Distinct DEF FirstFree, IInv, LiveJobs
<1>10. \A k \in Held' : k # j /\ k # NoJob => job'[k] = job[k]
  BY <1>6, <1>8
<1>11. TypeOK'
  BY <1>1, <1>2, <1>3, <1>5, <1>6 DEF TypeOK, Pcs
<1>12. LiveJobs'
  BY <1>2, <1>5, <1>6, <1>7, <1>10 DEF IInv, LiveJobs
<1>13. slot = NoJob /\ replacing /\ slotId = NoFile
  BY <1>1 DEF IInv, OneReplacer, Between
<1>14. OneReplacer'
  BY <1>1, <1>3, <1>13 DEF IInv, OneReplacer, Between, TypeOK
<1>15. ASSUME NEW d \in Callers, d # c PROVE CallInv(d)'
  <2>1. pending'[d] = pending[d] /\ pending[d] \in Held /\ pending[d] \in Held'
    BY <1>1, <1>2, <1>15 DEF Held, TypeOK
  <2>2. pending[d] # NoJob => job'[pending[d]] = job[pending[d]]
    BY <1>9, <1>10, <2>1
  <2> QED BY <1>3, <1>15, <2>1, <2>2, CallStays DEF IInv, TypeOK
<1>16. Outcome(c)'.identity = snap[c]
  BY <1>2, <1>4, <1>6 DEF Outcome, new
<1>17. Found(c, Outcome(c).identity)' /\ Found(c, snap[c])'
  BY <1>1, <1>3, <1>16 DEF Found, Legacy
<1>18. Asked(c)'
  BY <1>2, <1>3, <1>4, <1>16, <1>17 DEF Asked, Finished, Outcome
<1>19. Watched(c)' /\ Leased(c)'
  BY <1>1, <1>3, WatchStays DEF Leased
<1> QED BY <1>11, <1>12, <1>14, <1>15, <1>18, <1>19 DEF IInv, CallInv

LEMMA LaunchThrowsKeeps == ASSUME IInv, NEW c \in Callers, LaunchThrows(c) PROVE IInv'
<1> USE DEF diskVars, cacheVars
<1>1. /\ TypeOK /\ CallInv(c) /\ Watched(c) /\ Active(c) /\ pc[c] = "launch" /\ guard[c] = "none" /\ Fault(c)
  BY DEF IInv, CallInv, Watched, Active, Asked, Leased, LaunchThrows
<1>2. /\ UNCHANGED <<diskVars, slot, slotId, op, name, pending, guard, seen, mainGone, calls>>
      /\ replacing' = FALSE /\ stale' = [stale EXCEPT ![c] = NoJob] /\ Collect
  BY DEF LaunchThrows, StopReplacing
<1>3. /\ pc' = [pc EXCEPT ![c] = "returned"] /\ snap' = [snap EXCEPT ![c] = NoFile]
      /\ answer' = [answer EXCEPT ![c] = Nothing("Threw")] /\ attempt' = [attempt EXCEPT ![c] = 1]
  BY DEF LaunchThrows, Return, Nothing
<1>4. Nothing("Threw") \in [status : Statuses, identity : Identities \union {NoFile}]
  BY DEF Nothing, Statuses
<1>5. slot = NoJob /\ slotId = NoFile /\ slot \in Held
  BY <1>1 DEF IInv, OneReplacer, Between, Held
<1>6. Held' \subseteq Held
  BY <1>1, <1>2, <1>5 DEF Held, TypeOK
<1>7. /\ job' \in [Jobs -> JobRecords \union {FreeJob}] /\ LiveJobs'
      /\ \A j \in Held' : j # NoJob => job'[j] = job[j]
  BY <1>2, <1>6, Collected DEF IInv
<1>8. faults' \in 0 .. MaxFaults /\ quiet' \in [Callers -> BOOLEAN]
  BY <1>1, FaultTypes
<1>9. TypeOK'
  <2>1. /\ pc' \in [Callers -> Pcs] /\ attempt' \in [Callers -> 1 .. 3]
        /\ snap' \in [Callers -> Identities \union {NoFile}]
        /\ stale' \in [Callers -> Jobs \union {NoJob}]
        /\ answer' \in [Callers -> [status : Statuses, identity : Identities \union {NoFile}]]
    BY <1>1, <1>2, <1>3, <1>4 DEF TypeOK, Pcs
  <2> QED BY <1>1, <1>2, <1>7, <1>8, <2>1 DEF TypeOK
<1>10. OneReplacer'
  BY <1>1, <1>2, <1>3, <1>5 DEF IInv, OneReplacer, Between, TypeOK
<1>11. ASSUME NEW d \in Callers, d # c PROVE CallInv(d)'
  <2>1. pending'[d] = pending[d] /\ pending[d] \in Held'
    BY <1>2 DEF Held
  <2> QED BY <1>1, <1>2, <1>3, <1>7, <1>11, <2>1, CallStays DEF IInv, TypeOK
<1>12. pc'[c] = "returned" /\ answer'[c].identity = NoFile
  BY <1>1, <1>3 DEF TypeOK, Nothing
<1>13. Asked(c)'
  BY <1>12 DEF Asked, Finished
<1>14. Watched(c)' /\ Leased(c)'
  BY <1>1, <1>2, WatchStays DEF Leased
<1> QED BY <1>7, <1>9, <1>10, <1>11, <1>13, <1>14 DEF IInv, CallInv

LEMMA PublishKeeps == ASSUME IInv, NEW c \in Callers, Publish(c) PROVE IInv'
<1> USE DEF diskVars, cacheVars, history, bounds
<1>1. /\ TypeOK /\ CallInv(c) /\ Watched(c) /\ Active(c) /\ pc[c] = "publish" /\ guard[c] = "none"
      /\ pending[c] \in Jobs /\ job[pending[c]].identity = snap[c] /\ Found(c, snap[c])
  BY DEF IInv, CallInv, Watched, Active, Asked, Leased, Publish
<1>2. /\ slot' = pending[c] /\ slotId' = snap[c] /\ replacing' = FALSE
      /\ UNCHANGED <<diskVars, job, op, name, stale, guard, history, bounds>>
  BY DEF Publish
<1>3. PICK p \in {"returned", "get"} :
         /\ pc' = [pc EXCEPT ![c] = p] /\ snap' = [snap EXCEPT ![c] = NoFile]
         /\ p = "get" => UNCHANGED <<pending, attempt, answer>>
         /\ p = "returned" => /\ pending' = [pending EXCEPT ![c] = NoJob]
                              /\ answer' = [answer EXCEPT ![c] = Nothing("Begun")]
                              /\ attempt' = [attempt EXCEPT ![c] = 1]
  BY DEF Publish, Return, Nothing
<1>4. Nothing("Begun") \in [status : Statuses, identity : Identities \union {NoFile}]
  BY DEF Nothing, Statuses
<1>5. pc' \in [Callers -> Pcs] /\ pc'[c] = p /\ \A d \in Callers \ {c} : pc'[d] = pc[d]
  BY <1>1, <1>3 DEF TypeOK, Pcs
<1>6. /\ pending' \in [Callers -> Jobs \union {NoJob}] /\ attempt' \in [Callers -> 1 .. 3]
      /\ answer' \in [Callers -> [status : Statuses, identity : Identities \union {NoFile}]]
      /\ snap' \in [Callers -> Identities \union {NoFile}]
  <2>1. snap' \in [Callers -> Identities \union {NoFile}]
    BY <1>1, <1>3 DEF TypeOK
  <2>2. CASE p = "get"
    BY <1>1, <1>3, <2>1, <2>2 DEF TypeOK
  <2>3. CASE p = "returned"
    <3>1. pending' \in [Callers -> Jobs \union {NoJob}]
      BY <1>1, <1>3, <2>3 DEF TypeOK
    <3>2. attempt' \in [Callers -> 1 .. 3]
      BY <1>1, <1>3, <2>3 DEF TypeOK
    <3>3. answer' \in [Callers -> [status : Statuses, identity : Identities \union {NoFile}]]
      BY <1>1, <1>3, <1>4, <2>3 DEF TypeOK
    <3> QED BY <2>1, <3>1, <3>2, <3>3
  <2> QED BY <1>3, <2>2, <2>3
<1>7. TypeOK'
  BY <1>1, <1>2, <1>5, <1>6 DEF TypeOK
<1>8. \A d \in Callers : pc'[d] \notin Between
  BY <1>1, <1>3, <1>5 DEF IInv, OneReplacer, Between
<1>9. OneReplacer'
  BY <1>1, <1>2, <1>8, JobPlaces DEF OneReplacer
<1>10. Held' \subseteq Held \union {NoJob}
  BY <1>1, <1>2, <1>3 DEF Held, TypeOK
<1>11. LiveJobs'
  BY <1>2, <1>10 DEF IInv, LiveJobs
<1>12. ASSUME NEW d \in Callers, d # c PROVE CallInv(d)'
  BY <1>1, <1>2, <1>3, <1>12, CallStays DEF IInv, TypeOK
<1>13. ASSUME p = "get" PROVE Asked(c)'
  <2>1. Outcome(c)'.identity = snap[c]
    BY <1>1, <1>2, <1>3, <1>13 DEF Outcome
  <2>2. Found(c, Outcome(c).identity)'
    BY <1>1, <1>2, <2>1 DEF Found, Legacy
  <2>3. Asked(c)'
    BY <1>1, <1>3, <1>5, <1>13, <2>2 DEF Asked, Finished
  <2> QED BY <2>3
<1>14. ASSUME p = "returned" PROVE Asked(c)'
  <2>1. answer'[c].identity = NoFile
    BY <1>1, <1>3, <1>14 DEF TypeOK, Nothing
  <2> QED BY <1>5, <1>14, <2>1 DEF Asked, Finished
<1>15. Watched(c)' /\ Leased(c)'
  BY <1>1, <1>2, WatchStays DEF Leased
<1> QED BY <1>3, <1>7, <1>9, <1>11, <1>12, <1>13, <1>14, <1>15 DEF IInv, CallInv

(* A decode ends, with a result or without one: whose it is stays.         *)
LEMMA DecodeEnds ==
    ASSUME IInv, NEW j \in Jobs, job[j].status = "decoding",
           NEW s \in Decoded, job' = [job EXCEPT ![j].status = s],
           faults' \in 0 .. MaxFaults, quiet' \in [Callers -> BOOLEAN],
           UNCHANGED <<diskVars, cacheVars, pc, callVars, seen, mainGone, calls>>
    PROVE  IInv'
<1> USE DEF diskVars, cacheVars, callVars
<1>1. TypeOK
  BY DEF IInv
<1>2. job[j] \in JobRecords
  BY <1>1 DEF TypeOK, FreeJob
<1>3. job'[j] \in JobRecords /\ job'[j].identity = job[j].identity
  BY <1>1, <1>2 DEF TypeOK, JobRecords
<1>4. \A k \in Jobs : job'[k].identity = job[k].identity /\ (job[k] \in JobRecords => job'[k] \in JobRecords)
  BY <1>1, <1>3 DEF TypeOK
<1>5. job' \in [Jobs -> JobRecords \union {FreeJob}]
  BY <1>1, <1>3 DEF TypeOK
<1>6. TypeOK'
  BY <1>1, <1>5 DEF TypeOK
<1>7. OneReplacer'
  BY <1>1, <1>4 DEF IInv, OneReplacer, TypeOK
<1>8. Held' = Held /\ Held \subseteq Jobs \union {NoJob}
  BY <1>1 DEF Held, TypeOK
<1>9. LiveJobs'
  BY <1>4, <1>8 DEF IInv, LiveJobs
<1>10. ASSUME NEW d \in Callers PROVE CallInv(d)'
  BY <1>1, <1>4, <1>10, CallStays DEF IInv, TypeOK
<1> QED BY <1>6, <1>7, <1>9, <1>10 DEF IInv

LEMMA DecodeKeeps == ASSUME IInv, NEW j \in Jobs, Decode(j) \/ DecodeFails(j) PROVE IInv'
<1>1. TypeOK
  BY DEF IInv
<1>2. CASE Decode(j)
  <2>1. DecodeResult(job[j].identity) \in Decoded
    BY DEF DecodeResult, Decoded
  <2>2. faults' \in 0 .. MaxFaults /\ quiet' \in [Callers -> BOOLEAN]
    BY <1>1, <1>2 DEF Decode, history, bounds, TypeOK
  <2> QED BY <1>2, <2>1, <2>2, DecodeEnds DEF Decode, history, bounds
<1>3. CASE DecodeFails(j)
  <2>1. faults' \in 0 .. MaxFaults
    BY <1>1, <1>3, BoundsAreNaturals DEF DecodeFails, TypeOK
  <2>2. quiet' \in [Callers -> BOOLEAN]
    BY <1>1, <1>3, Zenon DEF DecodeFails, TypeOK
  <2>3. PICK s \in {"Stale", "Threw"} : job' = [job EXCEPT ![j].status = s]
    BY <1>3 DEF DecodeFails
  <2>4. s \in Decoded
    BY DEF Decoded
  <2> QED BY <1>3, <2>1, <2>2, <2>3, <2>4, DecodeEnds DEF DecodeFails
<1> QED BY <1>2, <1>3

(* A step of a caller outside the replacement of the cached decode: it may *)
(* let go of the future it holds and empty the slot.                       *)
LEMMA OtherCalls ==
    ASSUME IInv, NEW c \in Callers, UNCHANGED <<disk, stale, replacing>>, Collect,
           UNCHANGED <<slot, slotId>> \/ (~replacing /\ slot' = NoJob /\ slotId' = NoFile),
           UNCHANGED pending \/ Drop(c),
           NEW p \in Pcs \ Between, pc' = [pc EXCEPT ![c] = p], pc[c] \notin Between,
           \A d \in Callers \ {c} :
               /\ op'[d] = op[d] /\ name'[d] = name[d] /\ snap'[d] = snap[d] /\ guard'[d] = guard[d]
               /\ answer'[d] = answer[d] /\ seen'[d] = seen[d] /\ mainGone'[d] = mainGone[d]
    PROVE  /\ pc' \in [Callers -> Pcs] /\ pc'[c] = p
           /\ slot' \in Jobs \union {NoJob} /\ slotId' \in Identities \union {NoFile}
           /\ pending' \in [Callers -> Jobs \union {NoJob}]
           /\ job' \in [Jobs -> JobRecords \union {FreeJob}]
           /\ OneReplacer' /\ LiveJobs'
           /\ \A d \in Callers \ {c} : CallInv(d)'
           /\ UNCHANGED pending /\ pending[c] \in Jobs => Outcome(c)' = Outcome(c)
<1>1. TypeOK /\ LiveJobs
  BY DEF IInv
<1>2. pending' \in [Callers -> Jobs \union {NoJob}] /\ \A d \in Callers \ {c} : pending'[d] = pending[d]
  BY <1>1 DEF TypeOK, Drop
<1>3. slot' \in Jobs \union {NoJob} /\ slotId' \in Identities \union {NoFile}
  BY <1>1 DEF TypeOK
<1>4. Held' \subseteq Held \union {NoJob}
  BY <1>1 DEF Held, Drop, TypeOK
<1>5. /\ job' \in [Jobs -> JobRecords \union {FreeJob}] /\ LiveJobs'
      /\ \A j \in Held' : j # NoJob => job'[j] = job[j]
  BY <1>1, <1>4, Collected
<1>6. slot' \in Held' /\ \A d \in Callers : pending'[d] \in Held'
  BY DEF Held
<1>7. pc' \in [Callers -> Pcs] /\ pc'[c] = p /\ \A d \in Callers \ {c} : pc'[d] = pc[d]
  BY <1>1 DEF TypeOK
<1>8. \A d \in Callers : pc'[d] \in Between <=> pc[d] \in Between
  BY <1>7
<1>9. OneReplacer'
  <2>1. CASE UNCHANGED <<slot, slotId>>
    <3>1. slot # NoJob => job'[slot].identity = job[slot].identity
      BY <1>5, <1>6, <2>1
    <3>2. \A d, e \in Callers : pc'[d] \in Between /\ pc'[e] \in Between => d = e
      BY <1>8 DEF IInv, OneReplacer
    <3>3. replacing' <=> \E d \in Callers : pc'[d] \in Between
      BY <1>8 DEF IInv, OneReplacer
    <3> QED BY <2>1, <3>1, <3>2, <3>3 DEF IInv, OneReplacer, Between
  <2>2. CASE ~replacing /\ slot' = NoJob /\ slotId' = NoFile
    BY <1>8, <2>2 DEF IInv, OneReplacer, Between
  <2> QED BY <2>1, <2>2
<1>10. ASSUME NEW d \in Callers, d # c PROVE CallInv(d)'
  <2>1. pending[d] # NoJob => job'[pending[d]].identity = job[pending[d]].identity
    BY <1>2, <1>5, <1>6, <1>10
  <2> QED BY <1>2, <1>7, <1>10, <2>1, CallStays DEF IInv
<1>11. UNCHANGED pending /\ pending[c] \in Jobs => Outcome(c)' = Outcome(c)
  BY <1>5, <1>6, JobPlaces DEF Outcome
<1> QED BY <1>2, <1>3, <1>5, <1>7, <1>9, <1>10, <1>11

LEMMA GetKeeps == ASSUME IInv, NEW c \in Callers, Get(c) PROVE IInv'
<1> USE DEF diskVars, cacheVars
<1>1. /\ TypeOK /\ CallInv(c) /\ Watched(c) /\ Active(c) /\ pc[c] = "get" /\ guard[c] = "none"
      /\ pending[c] \in Jobs /\ Found(c, Outcome(c).identity) /\ pc[c] \notin Between
  BY DEF IInv, CallInv, Watched, Active, Asked, Leased, Get, Between
<1>2. UNCHANGED <<diskVars, cacheVars, op, name, stale, seen, mainGone, calls>> /\ Collect
  BY DEF Get
<1>3. Watched(c)'
  BY <1>1, <1>2, WatchStays
<1>4. faults' \in 0 .. MaxFaults /\ quiet' \in [Callers -> BOOLEAN]
  BY <1>1, FaultTypes DEF Get
<1>5. /\ Outcome(c).identity \in Identities
      /\ Outcome(c).status \in Decoded \union {"free", "decoding"}
  BY <1>1 DEF Outcome, TypeOK, JobRecords, FreeJob, Found
<1>6. ASSUME NEW a \in [status : Statuses, identity : Identities \union {NoFile}], Return(c, a),
             op[c] # "consume" \/ a.status # "Ready",
             a.identity = NoFile \/ a.identity = Outcome(c).identity, Drop(c), UNCHANGED guard
      PROVE  IInv'
  <2>1. /\ pc' = [pc EXCEPT ![c] = "returned"] /\ answer' = [answer EXCEPT ![c] = a]
        /\ attempt' = [attempt EXCEPT ![c] = 1] /\ snap' = [snap EXCEPT ![c] = NoFile]
    BY <1>6 DEF Return
  <2>2. "returned" \in Pcs \ Between
    BY DEF Pcs, Between
  <2>3. /\ attempt' \in [Callers -> 1 .. 3] /\ snap' \in [Callers -> Identities \union {NoFile}]
        /\ answer' \in [Callers -> [status : Statuses, identity : Identities \union {NoFile}]]
        /\ answer'[c] = a
        /\ \A d \in Callers \ {c} : snap'[d] = snap[d] /\ answer'[d] = answer[d]
    BY <1>1, <2>1 DEF TypeOK
  <2>4. /\ pc' \in [Callers -> Pcs] /\ pc'[c] = "returned"
        /\ slot' \in Jobs \union {NoJob} /\ slotId' \in Identities \union {NoFile}
        /\ pending' \in [Callers -> Jobs \union {NoJob}]
        /\ job' \in [Jobs -> JobRecords \union {FreeJob}]
        /\ OneReplacer' /\ LiveJobs' /\ \A d \in Callers \ {c} : CallInv(d)'
    BY <1>1, <1>2, <1>6, <2>1, <2>2, <2>3, OtherCalls
  <2>5. TypeOK'
    BY <1>1, <1>2, <1>4, <1>6, <2>3, <2>4 DEF TypeOK
  <2>6. a.identity # NoFile => Found(c, a.identity)'
    BY <1>1, <1>2, <1>6 DEF Found, Legacy
  <2>7. Asked(c)'
    BY <2>3, <2>4, <2>6 DEF Asked, Finished, Found, Legacy
  <2>8. Leased(c)'
    BY <1>1, <1>6 DEF Leased
  <2> QED BY <1>3, <2>4, <2>5, <2>7, <2>8 DEF IInv, CallInv
<1>7. ASSUME NEW p \in {"evict", "deliver"}, pc' = [pc EXCEPT ![c] = p],
             UNCHANGED <<attempt, snap, answer, pending>>,
             guard' \in [Callers -> {"none", "strict", "compat"}],
             \A d \in Callers \ {c} : guard'[d] = guard[d],
             p = "evict" => guard'[c] = "none",
             p = "deliver" => Usable(c) /\ Unchanged(c)
      PROVE  IInv'
  <2>1. p \in Pcs \ Between
    BY DEF Pcs, Between
  <2>2. /\ pc' \in [Callers -> Pcs] /\ pc'[c] = p
        /\ job' \in [Jobs -> JobRecords \union {FreeJob}]
        /\ OneReplacer' /\ LiveJobs' /\ \A d \in Callers \ {c} : CallInv(d)'
        /\ Outcome(c)' = Outcome(c)
    BY <1>1, <1>2, <1>7, <2>1, OtherCalls
  <2>3. TypeOK'
    BY <1>1, <1>2, <1>4, <1>7, <2>2 DEF TypeOK
  <2>4. Found(c, Outcome(c).identity)'
    BY <1>1, <1>2, <2>2 DEF Found, Legacy
  <2>5. Asked(c)'
    BY <1>1, <1>2, <1>7, <2>2, <2>4 DEF Asked, Finished, Usable
  <2>6. Leased(c)'
    BY <1>2, <1>7, <2>2 DEF Leased, Unchanged, IdentityOf
  <2> QED BY <1>3, <2>2, <2>3, <2>5, <2>6 DEF IInv, CallInv
<1>8. CASE Return(c, Nothing("Threw")) /\ Drop(c) /\ UNCHANGED guard
  <2>1. Nothing("Threw") \in [status : Statuses, identity : Identities \union {NoFile}]
    BY DEF Nothing, Statuses
  <2> QED BY <1>6, <1>8, <2>1 DEF Nothing
<1>9. CASE /\ Answers(c) /\ Drop(c) /\ UNCHANGED guard
           /\ Return(c, [status |-> Outcome(c).status, identity |-> Outcome(c).identity])
  <2>1. Outcome(c).status \in {"Ready", "Invalid"} /\ (op[c] = "consume" => Outcome(c).status # "Ready")
    BY <1>9 DEF Answers
  <2> DEFINE a == [status |-> Outcome(c).status, identity |-> Outcome(c).identity]
  <2>2. a \in [status : Statuses, identity : Identities \union {NoFile}]
    BY <1>5, <2>1 DEF Statuses
  <2> QED BY <1>6, <1>9, <2>1, <2>2
<1>10. CASE pc' = [pc EXCEPT ![c] = "evict"] /\ UNCHANGED <<attempt, snap, answer, pending, guard>>
  BY <1>1, <1>7, <1>10 DEF TypeOK
<1>11. CASE /\ Usable(c) /\ Unchanged(c) /\ UNCHANGED <<attempt, snap, answer, pending>>
            /\ \E g \in {"strict", "compat"} : guard' = [guard EXCEPT ![c] = g]
            /\ pc' = [pc EXCEPT ![c] = "deliver"]
  BY <1>1, <1>7, <1>11 DEF TypeOK
<1> QED BY <1>8, <1>9, <1>10, <1>11 DEF Get

(* What evict_prepared_save does to the slot.                              *)
LEMMA SlotEmptied ==
    ASSUME NEW c \in Callers, EvictSlot(c)
    PROVE  /\ UNCHANGED replacing
           /\ UNCHANGED <<slot, slotId>> \/ (~replacing /\ slot' = NoJob /\ slotId' = NoFile)
BY DEF EvictSlot, cacheVars

LEMMA EvictKeeps == ASSUME IInv, NEW c \in Callers, Evict(c) PROVE IInv'
<1> USE DEF diskVars, history, bounds
<1>1. /\ TypeOK /\ CallInv(c) /\ Watched(c) /\ Active(c) /\ pc[c] = "evict" /\ guard[c] = "none"
      /\ op[c] \in Ops /\ pc[c] \notin Between
  BY DEF IInv, CallInv, Watched, Active, Asked, Leased, Evict, Between
<1>2. /\ UNCHANGED <<diskVars, op, name, stale, guard, history, bounds>> /\ Collect
      /\ EvictSlot(c) /\ Drop(c) /\ NextAttempt(c)
  BY DEF Evict
<1>3. /\ UNCHANGED replacing
      /\ UNCHANGED <<slot, slotId>> \/ (~replacing /\ slot' = NoJob /\ slotId' = NoFile)
  BY <1>2, SlotEmptied
<1>4. PICK p \in {"resolve", "returned"} : pc' = [pc EXCEPT ![c] = p]
  BY <1>1, <1>2, AttemptEnds
<1>5. /\ attempt' \in [Callers -> 1 .. 3] /\ snap' = [snap EXCEPT ![c] = NoFile]
      /\ answer' \in [Callers -> [status : Statuses, identity : Identities \union {NoFile}]]
      /\ \A d \in Callers \ {c} : answer'[d] = answer[d]
      /\ pc'[c] = "returned" => answer'[c].identity = NoFile
  BY <1>1, <1>2, AttemptEnds
<1>6. snap' \in [Callers -> Identities \union {NoFile}] /\ \A d \in Callers \ {c} : snap'[d] = snap[d]
  BY <1>1, <1>5 DEF TypeOK
<1>7. p \in Pcs \ Between
  BY DEF Pcs, Between
<1>8. /\ pc' \in [Callers -> Pcs] /\ pc'[c] = p
      /\ slot' \in Jobs \union {NoJob} /\ slotId' \in Identities \union {NoFile}
      /\ pending' \in [Callers -> Jobs \union {NoJob}]
      /\ job' \in [Jobs -> JobRecords \union {FreeJob}]
      /\ OneReplacer' /\ LiveJobs' /\ \A d \in Callers \ {c} : CallInv(d)'
  BY <1>1, <1>2, <1>3, <1>4, <1>5, <1>6, <1>7, OtherCalls
<1>9. TypeOK'
  BY <1>1, <1>2, <1>3, <1>5, <1>6, <1>8 DEF TypeOK
<1>10. Asked(c)'
  BY <1>4, <1>5, <1>8 DEF Asked, Finished
<1>11. Watched(c)' /\ Leased(c)'
  BY <1>1, <1>2, WatchStays DEF Leased
<1> QED BY <1>8, <1>9, <1>10, <1>11 DEF IInv, CallInv

LEMMA DeliverKeeps == ASSUME IInv, NEW c \in Callers, Deliver(c) PROVE IInv'
<1> USE DEF diskVars
<1>1. /\ TypeOK /\ CallInv(c) /\ Watched(c) /\ Active(c) /\ pc[c] = "deliver" /\ op[c] = "consume"
      /\ pending[c] \in Jobs /\ Found(c, Outcome(c).identity) /\ Leased(c) /\ pc[c] \notin Between
  BY DEF IInv, CallInv, Watched, Active, Asked, Deliver, Between
<1>2. UNCHANGED <<diskVars, op, name, stale, pending, seen, mainGone, calls>> /\ Collect
  BY DEF Deliver
<1>3. Watched(c)'
  BY <1>1, <1>2, WatchStays
<1>4. faults' \in 0 .. MaxFaults /\ quiet' \in [Callers -> BOOLEAN]
  BY <1>1, FaultTypes DEF Deliver
<1>5. CASE /\ NoFault /\ EvictSlot(c) /\ UNCHANGED guard
           /\ Return(c, [status |-> "Ready", identity |-> Outcome(c).identity])
  <2> DEFINE a == [status |-> "Ready", identity |-> Outcome(c).identity]
  <2>1. a \in [status : Statuses, identity : Identities \union {NoFile}]
    BY <1>1 DEF Statuses, Found
  <2>2. a.identity = Outcome(c).identity /\ a.status = "Ready"
    OBVIOUS
  <2>3. /\ pc' = [pc EXCEPT ![c] = "leased"] /\ answer' = [answer EXCEPT ![c] = a]
        /\ attempt' = [attempt EXCEPT ![c] = 1] /\ snap' = [snap EXCEPT ![c] = NoFile]
    BY <1>1, <1>5 DEF Return
  <2> HIDE DEF a
  <2>4. "leased" \in Pcs \ Between
    BY DEF Pcs, Between
  <2>5. /\ UNCHANGED replacing
        /\ UNCHANGED <<slot, slotId>> \/ (~replacing /\ slot' = NoJob /\ slotId' = NoFile)
    BY <1>5, SlotEmptied
  <2>6. /\ attempt' \in [Callers -> 1 .. 3] /\ snap' \in [Callers -> Identities \union {NoFile}]
        /\ answer' \in [Callers -> [status : Statuses, identity : Identities \union {NoFile}]]
        /\ answer'[c] = a
        /\ \A d \in Callers \ {c} : snap'[d] = snap[d] /\ answer'[d] = answer[d]
    BY <1>1, <2>1, <2>3 DEF TypeOK
  <2>7. /\ pc' \in [Callers -> Pcs] /\ pc'[c] = "leased"
        /\ slot' \in Jobs \union {NoJob} /\ slotId' \in Identities \union {NoFile}
        /\ job' \in [Jobs -> JobRecords \union {FreeJob}]
        /\ OneReplacer' /\ LiveJobs' /\ \A d \in Callers \ {c} : CallInv(d)'
        /\ Outcome(c)' = Outcome(c)
    BY <1>1, <1>2, <1>5, <2>3, <2>4, <2>5, <2>6, OtherCalls
  <2>8. TypeOK'
    BY <1>1, <1>2, <1>4, <1>5, <2>5, <2>6, <2>7 DEF TypeOK
  <2>9. Found(c, Outcome(c).identity)'
    BY <1>1, <1>2, <2>7 DEF Found, Legacy
  <2>10. Asked(c)'
    BY <1>1, <1>2, <2>2, <2>6, <2>7, <2>9 DEF Asked, Finished, Found, Legacy
  <2>11. Leased(c)'
    BY <1>1, <1>2, <1>5, <2>7 DEF Leased, IdentityOf
  <2> QED BY <1>3, <2>7, <2>8, <2>10, <2>11 DEF IInv, CallInv
<1>6. CASE /\ Fault(c) /\ pc' = [pc EXCEPT ![c] = "evict"] /\ guard' = [guard EXCEPT ![c] = "none"]
           /\ UNCHANGED <<cacheVars, attempt, snap, answer>>
  <2>1. "evict" \in Pcs \ Between
    BY DEF Pcs, Between
  <2>2. /\ guard' \in [Callers -> {"none", "strict", "compat"}] /\ guard'[c] = "none"
        /\ \A d \in Callers \ {c} : guard'[d] = guard[d]
    BY <1>1, <1>6 DEF TypeOK
  <2>3. /\ pc' \in [Callers -> Pcs] /\ pc'[c] = "evict"
        /\ job' \in [Jobs -> JobRecords \union {FreeJob}]
        /\ OneReplacer' /\ LiveJobs' /\ \A d \in Callers \ {c} : CallInv(d)'
        /\ Outcome(c)' = Outcome(c)
    BY <1>1, <1>2, <1>6, <2>1, <2>2, OtherCalls DEF cacheVars
  <2>4. TypeOK'
    BY <1>1, <1>2, <1>4, <1>6, <2>2, <2>3 DEF TypeOK, cacheVars
  <2>5. Found(c, Outcome(c).identity)'
    BY <1>1, <1>2, <2>3 DEF Found, Legacy
  <2>6. Asked(c)'
    BY <1>1, <1>2, <2>3, <2>5 DEF Asked, Finished
  <2>7. Leased(c)'
    BY <2>2 DEF Leased
  <2> QED BY <1>3, <2>3, <2>4, <2>6, <2>7 DEF IInv, CallInv
<1> QED BY <1>5, <1>6 DEF Deliver

LEMMA ReleaseKeeps == ASSUME IInv, NEW c \in Callers, Release(c) PROVE IInv'
<1> USE DEF diskVars, cacheVars, bounds
<1>1. TypeOK /\ pc[c] \notin Between /\ "idle" \in Pcs \ Between
  BY DEF IInv, Release, Between, Pcs
<1>2. /\ UNCHANGED <<diskVars, cacheVars, attempt, snap, stale, bounds>> /\ Collect /\ Drop(c)
      /\ pc' = [pc EXCEPT ![c] = "idle"] /\ guard' = [guard EXCEPT ![c] = "none"]
      /\ op' = [op EXCEPT ![c] = "none"] /\ name' = [name EXCEPT ![c] = "none"]
      /\ answer' = [answer EXCEPT ![c] = NoAnswer] /\ seen' = [seen EXCEPT ![c] = {}]
      /\ mainGone' = [mainGone EXCEPT ![c] = FALSE] /\ quiet' = [quiet EXCEPT ![c] = FALSE]
  BY DEF Release
<1>3. \A d \in Callers \ {c} :
         /\ op'[d] = op[d] /\ name'[d] = name[d] /\ snap'[d] = snap[d] /\ guard'[d] = guard[d]
         /\ answer'[d] = answer[d] /\ seen'[d] = seen[d] /\ mainGone'[d] = mainGone[d]
  BY <1>1, <1>2 DEF TypeOK
<1>4. /\ pc' \in [Callers -> Pcs] /\ pc'[c] = "idle"
      /\ pending' \in [Callers -> Jobs \union {NoJob}]
      /\ job' \in [Jobs -> JobRecords \union {FreeJob}]
      /\ OneReplacer' /\ LiveJobs' /\ \A d \in Callers \ {c} : CallInv(d)'
  BY <1>1, <1>2, <1>3, OtherCalls
<1>5. TypeOK'
  <2>1. answer' \in [Callers -> [status : Statuses, identity : Identities \union {NoFile}]]
    BY <1>1, <1>2 DEF TypeOK, NoAnswer, Statuses
  <2>2. mainGone' \in [Callers -> BOOLEAN] /\ quiet' \in [Callers -> BOOLEAN]
    BY <1>1, <1>2 DEF TypeOK
  <2>3. /\ op' \in [Callers -> Ops \union {"none"}] /\ name' \in [Callers -> Names \union {"none"}]
        /\ guard' \in [Callers -> {"none", "strict", "compat"}] /\ seen' \in [Callers -> SUBSET Identities]
    BY <1>1, <1>2 DEF TypeOK
  <2> QED BY <1>1, <1>2, <1>4, <2>1, <2>2, <2>3 DEF TypeOK
<1>6. guard'[c] = "none"
  BY <1>1, <1>2 DEF TypeOK
<1>7. CallInv(c)'
  BY <1>4, <1>6 DEF CallInv, Watched, Asked, Leased, Active, Finished
<1> QED BY <1>4, <1>5, <1>7 DEF IInv

(* A file is replaced or deleted: the histories of the calls for it take   *)
(* note, and no strict lease is on it.                                     *)
LEMMA FileChanges ==
    ASSUME IInv, NEW f \in Files, Touch(f), NEW n \in {0, writes + 2}, disk' = [disk EXCEPT ![f] = n],
           seen' \in [Callers -> SUBSET Identities], mainGone' \in [Callers -> BOOLEAN],
           \A c \in Callers :
               /\ seen[c] \subseteq seen'[c]
               /\ mainGone[c] => mainGone'[c]
               /\ Active(c) /\ f \in FilesOf(name[c]) /\ n # 0 => [file |-> f, contents |-> n] \in seen'[c]
               /\ Active(c) /\ f = Main(name[c]) /\ n = 0 => mainGone'[c]
    PROVE  IInv'
<1> USE DEF cacheVars, callVars, bounds
<1>1. TypeOK
  BY DEF IInv
<1>2. UNCHANGED <<job, cacheVars, pc, callVars, bounds>> /\ writes < MaxWrites /\ writes' = writes + 1
  BY DEF Touch
<1>3. n \in 0 .. MaxWrites + 1
  BY <1>1, <1>2, BoundsAreNaturals DEF TypeOK
<1>4. disk' \in [Files -> 0 .. MaxWrites + 1] /\ writes' \in 0 .. MaxWrites
  BY <1>1, <1>2, <1>3, BoundsAreNaturals DEF TypeOK
<1>5. quiet' \in [Callers -> BOOLEAN]
  BY Zenon DEF Touch
<1>6. TypeOK'
  BY <1>1, <1>2, <1>4, <1>5 DEF TypeOK
<1>7. OneReplacer' /\ LiveJobs'
  BY <1>2 DEF IInv, OneReplacer, LiveJobs, Held
<1>8. disk'[f] = n /\ \A g \in Files \ {f} : disk'[g] = disk[g]
  BY <1>1 DEF TypeOK
<1>9. ASSUME NEW c \in Callers PROVE CallInv(c)'
  <2>1. CallInv(c)
    BY DEF IInv
  <2>2. \A id : Found(c, id) => Found(c, id)'
    BY <1>2 DEF Found, Legacy
  <2>3. ASSUME Active(c) PROVE Watched(c)'
    <3>1. /\ name[c] \in Names /\ op[c] \in Ops
          /\ Present(Main(name[c])) \/ mainGone[c]
          /\ \A g \in FilesOf(name[c]) : Present(g) => IdentityOf(g) \in seen[c]
      BY <2>1, <2>3 DEF CallInv, Watched
    <3>2. ASSUME NEW g \in FilesOf(name[c]), Present(g)' PROVE IdentityOf(g)' \in seen'[c]
      <4>1. g \in Files
        BY <3>1 DEF FilesOf, Main, Legacy, Files
      <4>2. CASE g = f
        BY <1>8, <2>3, <3>2, <4>2 DEF Present, IdentityOf
      <4>3. CASE g # f
        BY <1>8, <3>1, <3>2, <4>1, <4>3 DEF Present, IdentityOf
      <4> QED BY <4>2, <4>3
    <3>3. Present(Main(name[c]))' \/ mainGone'[c]
      <4>1. Main(name[c]) \in Files
        BY <3>1 DEF Main, Files
      <4>2. name'[c] = name[c]
        BY <1>2
      <4> QED BY <1>8, <2>3, <3>1, <4>1, <4>2 DEF Present, Main
    <3> QED BY <1>2, <3>1, <3>2, <3>3 DEF Watched, FilesOf, Main, Legacy
  <2>4. Watched(c)'
    BY <1>2, <2>3 DEF Watched, Active
  <2>5. Asked(c)'
    BY <1>2, <2>1, <2>2 DEF CallInv, Asked, Finished, Outcome
  <2>6. Leased(c)'
    <3>1. ASSUME guard[c] = "strict" PROVE IdentityOf(Outcome(c).identity.file)' = Outcome(c).identity
      <4>1. Outcome(c).identity \in Identities
        BY <2>1, <3>1 DEF CallInv, Leased, Asked, Found
      <4>2. Outcome(c).identity.file \in Files \ {f}
        BY <3>1, <4>1 DEF Touch, Replaceable, Identities
      <4>3. Outcome(c)' = Outcome(c)
        BY <1>2 DEF Outcome
      <4> QED BY <1>8, <2>1, <3>1, <4>2, <4>3 DEF CallInv, Leased, IdentityOf
    <3> QED BY <1>2, <2>1, <3>1 DEF CallInv, Leased, Outcome, IdentityOf
  <2> QED BY <2>4, <2>5, <2>6 DEF CallInv
<1> QED BY <1>6, <1>7, <1>9 DEF IInv

LEMMA ReplaceKeeps == ASSUME IInv, NEW f \in Volatile, Replace(f) PROVE IInv'
<1>1. TypeOK /\ f \in Files /\ Touch(f) /\ disk' = [disk EXCEPT ![f] = writes + 2]
  BY FilesGiven DEF IInv, Replace
<1>2. writes + 2 \in 1 .. MaxWrites + 1 /\ writes + 2 # 0
  BY <1>1, BoundsAreNaturals DEF TypeOK, Touch
<1>3. [file |-> f, contents |-> writes + 2] \in Identities
  BY <1>1, <1>2 DEF Identities
<1>4. mainGone' \in [Callers -> BOOLEAN] /\ UNCHANGED mainGone
  BY <1>1 DEF Replace, TypeOK
<1>5. seen' = [c \in Callers |-> IF Active(c) /\ f \in FilesOf(name[c])
                                 THEN seen[c] \union {[file |-> f, contents |-> writes + 2]} ELSE seen[c]]
  BY DEF Replace
<1>6. seen' \in [Callers -> SUBSET Identities]
  BY <1>1, <1>3, <1>5 DEF TypeOK
<1>7. \A c \in Callers : /\ seen[c] \subseteq seen'[c]
                         /\ Active(c) /\ f \in FilesOf(name[c]) => [file |-> f, contents |-> writes + 2] \in seen'[c]
  BY <1>5
<1> QED BY <1>1, <1>2, <1>4, <1>6, <1>7, FileChanges

LEMMA DeleteKeeps == ASSUME IInv, NEW f \in Volatile, Delete(f) PROVE IInv'
<1>1. TypeOK /\ f \in Files /\ Touch(f) /\ disk' = [disk EXCEPT ![f] = 0] /\ UNCHANGED seen
  BY FilesGiven DEF IInv, Delete
<1>2. mainGone' = [c \in Callers |-> mainGone[c] \/ (Active(c) /\ f = Main(name[c]))]
  BY DEF Delete
<1>3. mainGone' \in [Callers -> BOOLEAN]
  BY <1>2, Zenon
<1>4. \A c \in Callers : (mainGone[c] => mainGone'[c]) /\ (Active(c) /\ f = Main(name[c]) => mainGone'[c])
  BY <1>2, Zenon
<1>5. seen' \in [Callers -> SUBSET Identities]
  BY <1>1 DEF TypeOK
<1> QED BY <1>1, <1>3, <1>4, <1>5, FileChanges

-----------------------------------------------------------------------------
LEMMA StepKeeps == ASSUME IInv, [Next]_vars PROVE IInv'
<1>1. ASSUME NEW a \in Asks, Start(a[1], a[2], a[3]) PROVE IInv'
  BY <1>1, AsksAreCalls, StartKeeps
<1>2. ASSUME NEW c \in Callers, Caller(c) PROVE IInv'
  BY <1>2, ResolveMainKeeps, ResolveLegacyKeeps, EnterKeeps, LaunchKeeps, LaunchThrowsKeeps, PublishKeeps,
     GetKeeps, EvictKeeps, DeliverKeeps, ReleaseKeeps DEF Caller, Request, Consume
<1>3. CASE UNCHANGED vars
  <2>1. TypeOK' /\ OneReplacer' /\ LiveJobs'
    BY <1>3 DEF vars, diskVars, cacheVars, callVars, history, bounds, IInv, TypeOK, OneReplacer, LiveJobs, Held
  <2>2. ASSUME NEW c \in Callers PROVE CallInv(c)'
    BY <1>3, CallStays DEF vars, diskVars, callVars, history, IInv
  <2> QED BY <2>1, <2>2 DEF IInv
<1> QED BY <1>1, <1>2, <1>3, DecodeKeeps, ReplaceKeeps, DeleteKeeps DEF Next

THEOREM Inductive == Spec => []IInv
<1>1. Init => IInv
  BY InitIInv
<1>2. IInv /\ [Next]_vars => IInv'
  BY StepKeeps
<1> QED BY <1>1, <1>2, PTL DEF Spec

-----------------------------------------------------------------------------
(* The types hold for any number of callers, files, failures and calls.    *)
THEOREM TypeCorrect == Spec => []TypeOK
<1>1. IInv => TypeOK
  BY DEF IInv
<1> QED BY <1>1, Inductive, PTL

(* Never do two callers replace the cached decode at a time, and what is   *)
(* in the slot is the decode of the identity it is found by                *)
(* (request_prepared_save, evict_prepared_save).                           *)
THEOREM ReplacementsExclude == Spec => []OneReplacer
<1>1. IInv => OneReplacer
  BY DEF IInv
<1> QED BY <1>1, Inductive, PTL

(* Whatever decode a call shares, and whoever replaces the file or the     *)
(* cached decode meanwhile, its answer is about contents the name had      *)
(* during the call (consume_prepared_load, get_prepared_save_with_retry).  *)
THEOREM Freshness == Spec => []AnswersAreFresh
<1>1. IInv => AnswersAreFresh
  BY DEF IInv, CallInv, Asked, Found, AnswersAreFresh
<1> QED BY <1>1, Inductive, PTL

(* No interleaving, failure or shared decode makes a load fall back to the *)
(* legacy file while the main file is there all the time                   *)
(* (resolve_save_snapshot, SAVE_COMPATIBILITY.md:231).                     *)
THEOREM NoEarlyFallback == Spec => []LegacyOnlyWithoutMain
<1>1. IInv => LegacyOnlyWithoutMain
  BY DEF IInv, CallInv, Asked, Found, LegacyOnlyWithoutMain
<1> QED BY <1>1, Inductive, PTL

(* As long as a strict lease lasts, the file on the disk is the one whose  *)
(* decoded bytes the load works on (consume_prepared_load,                 *)
(* SAVE_COMPATIBILITY.md:234).                                             *)
THEOREM LeasesHold == Spec => []LeaseHolds
<1>1. IInv => LeaseHolds
  BY DEF IInv, CallInv, Asked, Leased, LeaseHolds
<1> QED BY <1>1, Inductive, PTL

-----------------------------------------------------------------------------
(* A call that nothing disturbs.  A failed decode, or one asked for by     *)
(* another name, that was there before the call can be found only in the   *)
(* first attempt: it is the only one of its kind in the slot or on its way *)
(* there, the attempt takes it out, and every decode that comes later was  *)
(* begun during the call.                                                  *)

(* The decodes the slot holds or is about to hold.                         *)
Coming == {pending[d] : d \in {e \in Callers : pc[e] = "publish"}}
Cached == ({slot} \union Coming) \ {NoJob}

Verdict(c) == IF Decodes(Current(name[c])) THEN "Ready" ELSE "Invalid"
Told(c) == IF Current(name[c]) = NoFile THEN "Unavailable" ELSE Verdict(c)

(* A decode is of use to the call if it is not of what the call finds on   *)
(* the disk or was asked for by the same name and did not fail.            *)
OfUse(c, j) ==
    job[j].identity = Current(name[c]) =>
        job[j].name = name[c] /\ job[j].status \in {"decoding", Verdict(c)}

Alone(c) == \A d \in Callers : ~Rivals(d, name[c])

Waiting(c) == pc[c] \in {"get", "evict", "deliver"}

Undisturbed(c) ==
    /\ Alone(c)
    /\ pc[c] = "resolve_legacy" => ~Present(Main(name[c]))
    /\ pc[c] \in {"enter", "launch", "publish"} => snap[c] = Current(name[c])
    /\ Waiting(c) => Outcome(c).identity = Current(name[c])
    /\ pc[c] = "evict" => attempt[c] = 1
    /\ Waiting(c) /\ attempt[c] > 1 => OfUse(c, pending[c])
    /\ Waiting(c) \/ attempt[c] > 1 =>
           \A j \in Cached : (attempt[c] = 1 /\ j = pending[c]) \/ OfUse(c, j)
    /\ Finished(c) /\ op[c] # "begin" /\ answer[c].status # "Threw" => answer[c].status = Told(c)

Calling(c) ==
    /\ Waiting(c) => op[c] \in {"valid", "consume"}
    /\ pc[c] \in {"idle", "leased", "returned"} => attempt[c] = 1
    /\ pc[c] \in {"enter", "launch"} => snap[c].file \in FilesOf(name[c])
    /\ pc[c] = "deliver" => Outcome(c).status = "Ready"
    /\ pc[c] = "publish" => \A d \in Callers \ {c} : pending[d] # pending[c]

CallQuiet(c) == Calling(c) /\ (Active(c) /\ quiet[c] => Undisturbed(c))

(* What a decode found is what its snapshot holds.                         *)
Sound ==
    \A j \in Held \ {NoJob} : /\ job[j].status = "Ready" => Decodes(job[j].identity)
                              /\ job[j].status = "Invalid" => ~Decodes(job[j].identity)

QuietInv == Sound /\ \A c \in Callers : CallQuiet(c)

LEMMA InitQuiet == ASSUME Init PROVE QuietInv
BY DEF Init, QuietInv, Sound, Held, CallQuiet, Calling, Waiting, Active

LEMMA CurrentIs ==
    ASSUME TypeOK, NEW n \in Names
    PROVE  \/ Current(n) = NoFile /\ ~Present(Main(n)) /\ ~Present(Legacy(n))
           \/ /\ Current(n) \in Identities /\ Current(n).file \in FilesOf(n)
              /\ IdentityOf(Current(n).file) = Current(n)
<1>1. /\ Present(Main(n)) => IdentityOf(Main(n)) \in Identities /\ IdentityOf(Main(n)).file = Main(n)
      /\ Present(Legacy(n)) => IdentityOf(Legacy(n)) \in Identities /\ IdentityOf(Legacy(n)).file = Legacy(n)
  BY IdentityType DEF FilesOf
<1> QED BY <1>1 DEF Current, FilesOf

(* What a call finds on the disk, and what is of use to it, stays while    *)
(* the disk, its name and the decode stay.                                 *)
LEMMA SameDisk ==
    ASSUME NEW c, name'[c] = name[c], UNCHANGED disk
    PROVE  /\ Current(name[c])' = Current(name[c]) /\ Verdict(c)' = Verdict(c) /\ Told(c)' = Told(c)
           /\ \A j : job'[j] = job[j] /\ OfUse(c, j) => OfUse(c, j)'
           /\ (Present(Main(name[c])))' = Present(Main(name[c]))
<1>1. Current(name[c])' = Current(name[c]) /\ (Present(Main(name[c])))' = Present(Main(name[c]))
  BY DEF Current, Present, IdentityOf, Main, Legacy
<1>2. Verdict(c)' = Verdict(c)
  BY <1>1 DEF Verdict, Decodes
<1>3. Told(c)' = Told(c)
  BY <1>1, <1>2 DEF Told
<1>4. ASSUME NEW j, job'[j] = job[j], OfUse(c, j) PROVE OfUse(c, j)'
  BY <1>1, <1>2, <1>4 DEF OfUse
<1> QED BY <1>1, <1>2, <1>3, <1>4

LEMMA AloneStays ==
    ASSUME NEW c \in Callers, Alone(c), name'[c] = name[c],
           \A e \in Callers : pc'[e] # "idle" => pc[e] # "idle" /\ name'[e] = name[e]
    PROVE  Alone(c)'
BY DEF Alone, Rivals, Active

(* A call that a step of the others leaves where it is.                    *)
LEMMA CallKept ==
    ASSUME NEW d \in Callers, UNCHANGED disk, CallQuiet(d),
           pc'[d] = pc[d], attempt'[d] = attempt[d], op'[d] = op[d], name'[d] = name[d], snap'[d] = snap[d],
           pending'[d] = pending[d], answer'[d] = answer[d], quiet'[d] => quiet[d],
           Active(d) /\ quiet'[d] /\ Alone(d) => Alone(d)',
           Waiting(d) => job'[pending[d]] = job[pending[d]],
           \A j \in Cached' : (j \in Cached /\ job'[j] = job[j]) \/ (Active(d) /\ Alone(d) => OfUse(d, j)'),
           pc[d] = "publish" => \A e \in Callers \ {d} : pending'[e] # pending[d]
    PROVE  CallQuiet(d)'
<1>1. Calling(d)'
  BY DEF CallQuiet, Calling, Waiting, Outcome, FilesOf, Main, Legacy
<1>2. ASSUME Active(d)', quiet'[d] PROVE Undisturbed(d)'
  <2>1. Undisturbed(d) /\ Alone(d)
    BY <1>2 DEF CallQuiet, Active, Undisturbed
  <2>2. Alone(d)' /\ Active(d)
    BY <1>2, <2>1 DEF Active
  <2>3. Waiting(d)' <=> Waiting(d)
    BY DEF Waiting
  <2>4. Waiting(d) => Outcome(d)' = Outcome(d)
    BY DEF Outcome
  <2>5. Waiting(d) /\ attempt[d] > 1 => OfUse(d, pending[d])'
    <3>1. ASSUME Waiting(d), attempt[d] > 1 PROVE OfUse(d, pending[d])'
      <4>1. PICK j : j = pending[d]
        OBVIOUS
      <4>2. OfUse(d, j)'
        BY <2>1, <3>1, <4>1, SameDisk DEF Undisturbed
      <4> QED BY <4>1, <4>2
    <3> QED BY <3>1
  <2>6. ASSUME Waiting(d) \/ attempt[d] > 1, NEW j \in Cached'
        PROVE  (attempt[d] = 1 /\ j = pending[d]) \/ OfUse(d, j)'
    <3>1. CASE j \in Cached /\ job'[j] = job[j]
      BY <2>1, <2>6, <3>1, SameDisk DEF Undisturbed
    <3>2. CASE OfUse(d, j)'
      BY <3>2
    <3> QED BY <2>1, <2>2, <2>6, <3>1, <3>2
  <2>7. Finished(d)' <=> Finished(d)
    BY DEF Finished
  <2> QED BY <2>1, <2>2, <2>3, <2>4, <2>5, <2>6, <2>7, SameDisk DEF Undisturbed
<1> QED BY <1>1, <1>2 DEF CallQuiet

(* A step of one caller that begins no call and no decode.                 *)
LEMMA OthersQuiet ==
    ASSUME IInv, QuietInv, NEW c \in Callers, UNCHANGED disk, pc[c] # "idle",
           pc'[c] # "idle" => name'[c] = name[c],
           \A d \in Callers \ {c} :
               /\ pc'[d] = pc[d] /\ attempt'[d] = attempt[d] /\ op'[d] = op[d] /\ name'[d] = name[d]
               /\ snap'[d] = snap[d] /\ pending'[d] = pending[d] /\ answer'[d] = answer[d]
               /\ quiet'[d] = quiet[d],
           Held' \subseteq Held \union {NoJob}, Cached' \subseteq Cached,
           \A j \in Held' \ {NoJob} : job'[j] = job[j],
           pending'[c] \in {pending[c], NoJob} \/ (pending'[c] = slot /\ ~replacing)
    PROVE  Sound' /\ \A d \in Callers \ {c} : CallQuiet(d)'
<1>1. Sound'
  BY DEF QuietInv, Sound
<1>2. ASSUME NEW d \in Callers \ {c} PROVE CallQuiet(d)'
  <2>1. CallQuiet(d) /\ Calling(d)
    BY DEF QuietInv, CallQuiet
  <2>2. Alone(d) => Alone(d)'
    <3>1. \A e \in Callers : pc'[e] # "idle" => pc[e] # "idle" /\ name'[e] = name[e]
      OBVIOUS
    <3> QED BY <1>2, <3>1, AloneStays
  <2>3. Waiting(d) => job'[pending[d]] = job[pending[d]]
    <3>1. Waiting(d) => pending[d] # NoJob
      BY JobPlaces DEF IInv, CallInv, Asked, Waiting
    <3>2. pending[d] \in Held'
      BY <1>2 DEF Held
    <3> QED BY <3>1, <3>2
  <2>4. Cached' \subseteq Held' \ {NoJob}
    BY DEF Cached, Coming, Held
  <2>5. \A j \in Cached' : j \in Cached /\ job'[j] = job[j]
    BY <2>4
  <2>6. ASSUME pc[d] = "publish", NEW e \in Callers \ {d} PROVE pending'[e] # pending[d]
    <3>1. pending[e] # pending[d] /\ pending[d] # NoJob /\ replacing
      BY <2>1, <2>6, JobPlaces DEF Calling, IInv, CallInv, Asked, OneReplacer, Between
    <3> QED BY <1>2, <2>6, <3>1
  <2> QED BY <1>2, <2>1, <2>2, <2>3, <2>5, <2>6, CallKept
<1> QED BY <1>1, <1>2


LEMMA NextAttemptIs ==
    ASSUME TypeOK, NEW c \in Callers, NextAttempt(c)
    PROVE  /\ \/ pc'[c] = "resolve" /\ attempt[c] < Attempts(op[c])
              \/ pc'[c] = "returned" /\ attempt'[c] = 1 /\ answer'[c].status = "Unavailable"
                     /\ ~(attempt[c] < Attempts(op[c]))
           /\ \A d \in Callers \ {c} : /\ pc'[d] = pc[d] /\ attempt'[d] = attempt[d]
                                       /\ snap'[d] = snap[d] /\ answer'[d] = answer[d]
<1>1. CASE attempt[c] < Attempts(op[c])
  BY <1>1 DEF NextAttempt, TypeOK
<1>2. CASE ~(attempt[c] < Attempts(op[c]))
  BY <1>2 DEF NextAttempt, Return, Nothing, TypeOK
<1> QED BY <1>1, <1>2

LEMMA FaultIs ==
    ASSUME TypeOK, NEW c \in Callers, Fault(c) \/ NoFault
    PROVE  /\ \A d \in Callers \ {c} : quiet'[d] = quiet[d]
           /\ quiet'[c] => quiet[c] /\ NoFault
BY DEF TypeOK, Fault, NoFault

LEMMA ComingStays ==
    ASSUME NEW c \in Callers, pc'[c] # "publish",
           \A d \in Callers \ {c} : pc'[d] = pc[d] /\ pending'[d] = pending[d]
    PROVE  Coming' \subseteq Coming
BY DEF Coming

(* What is live has the identity of a file.                                *)
LEMMA CachedAre ==
    ASSUME IInv
    PROVE  \A j \in Cached : j \in Jobs /\ j \in Held /\ job[j].identity \in Identities
<1>1. Cached \subseteq Held \ {NoJob} /\ Held \subseteq Jobs \union {NoJob}
  BY DEF Cached, Coming, Held, IInv, TypeOK
<1> QED BY <1>1, Distinct DEF IInv, LiveJobs

(* What a call that stays undisturbed takes through a step of its own.      *)
LEMMA OwnQuiet ==
    ASSUME IInv, QuietInv, NEW c \in Callers, UNCHANGED disk, Active(c), quiet[c], name'[c] = name[c],
           \A e \in Callers \ {c} : pc'[e] = pc[e] /\ name'[e] = name[e],
           Cached' \subseteq Cached, \A j \in Cached' : job'[j] = job[j]
    PROVE  /\ Undisturbed(c) /\ Alone(c)'
           /\ Current(name[c])' = Current(name[c]) /\ Verdict(c)' = Verdict(c) /\ Told(c)' = Told(c)
           /\ (Present(Main(name[c])))' = Present(Main(name[c]))
           /\ Waiting(c) \/ attempt[c] > 1 =>
                  \A j \in Cached' : (attempt[c] = 1 /\ j = pending[c]) \/ OfUse(c, j)'
           /\ \A j : job'[j] = job[j] /\ OfUse(c, j) => OfUse(c, j)'
<1>1. Undisturbed(c)
  BY DEF QuietInv, CallQuiet
<1>2. \A e \in Callers : pc'[e] # "idle" => pc[e] # "idle" /\ name'[e] = name[e]
  BY DEF Active
<1>3. Alone(c)'
  BY <1>1, <1>2, AloneStays DEF Undisturbed
<1>4. /\ Current(name[c])' = Current(name[c]) /\ Verdict(c)' = Verdict(c) /\ Told(c)' = Told(c)
      /\ (Present(Main(name[c])))' = Present(Main(name[c]))
      /\ \A j : job'[j] = job[j] /\ OfUse(c, j) => OfUse(c, j)'
  BY SameDisk
<1>5. ASSUME Waiting(c) \/ attempt[c] > 1, NEW j \in Cached'
      PROVE  (attempt[c] = 1 /\ j = pending[c]) \/ OfUse(c, j)'
  <2>1. j \in Cached /\ job'[j] = job[j]
    OBVIOUS
  <2>2. (attempt[c] = 1 /\ j = pending[c]) \/ OfUse(c, j)
    BY <1>1, <1>5, <2>1 DEF Undisturbed
  <2> QED BY <1>4, <2>1, <2>2
<1> QED BY <1>1, <1>3, <1>4, <1>5

LEMMA ResolveQuiet ==
    ASSUME IInv, QuietInv, NEW c \in Callers, ResolveMain(c) \/ ResolveLegacy(c)
    PROVE  QuietInv'
<1> USE DEF diskVars, cacheVars
<1>1. /\ TypeOK /\ CallQuiet(c) /\ pc[c] \in {"resolve", "resolve_legacy"} /\ Active(c)
      /\ name[c] \in Names /\ op[c] \in Ops
  BY DEF IInv, QuietInv, CallInv, Watched, Active, ResolveMain, ResolveLegacy
<1>2. UNCHANGED <<disk, job, slot, slotId, replacing, op, name, stale, pending>>
  BY DEF ResolveMain, ResolveLegacy
<1>3. \/ /\ \/ Present(Main(name[c])) /\ snap' = [snap EXCEPT ![c] = IdentityOf(Main(name[c]))]
            \/ /\ Present(Legacy(name[c])) /\ snap' = [snap EXCEPT ![c] = IdentityOf(Legacy(name[c]))]
               /\ pc[c] = "resolve_legacy"
         /\ NoFault /\ pc' = [pc EXCEPT ![c] = "enter"] /\ UNCHANGED <<attempt, answer>>
      \/ /\ ~Present(Main(name[c])) /\ NoFault /\ pc' = [pc EXCEPT ![c] = "resolve_legacy"]
         /\ UNCHANGED <<snap, attempt, answer>>
      \/ ~Present(Legacy(name[c])) /\ pc[c] = "resolve_legacy" /\ NoFault /\ NextAttempt(c)
      \/ Fault(c) /\ NextAttempt(c)
  BY DEF ResolveMain, ResolveLegacy, Missing
<1>4. /\ pc'[c] \in {"enter", "resolve_legacy", "resolve", "returned"}
      /\ \A d \in Callers \ {c} : /\ pc'[d] = pc[d] /\ attempt'[d] = attempt[d]
                                  /\ snap'[d] = snap[d] /\ answer'[d] = answer[d]
  BY <1>1, <1>3, NextAttemptIs DEF TypeOK
<1>5. \A d \in Callers \ {c} : quiet'[d] = quiet[d]
  BY <1>1, <1>3, FaultIs
<1>6. Coming' \subseteq Coming /\ Held' = Held
  BY <1>2, <1>4, ComingStays DEF Held
<1>7. Cached' \subseteq Cached
  BY <1>2, <1>6 DEF Cached
<1>8. Sound' /\ \A d \in Callers \ {c} : CallQuiet(d)'
  BY <1>1, <1>2, <1>4, <1>5, <1>6, <1>7, OthersQuiet DEF Active
<1>own. ASSUME quiet[c]
      PROVE  /\ Undisturbed(c) /\ Alone(c)'
             /\ Current(name[c])' = Current(name[c]) /\ Verdict(c)' = Verdict(c) /\ Told(c)' = Told(c)
             /\ (Present(Main(name[c])))' = Present(Main(name[c]))
             /\ attempt[c] > 1 => \A j \in Cached' : OfUse(c, j)'
  BY <1>1, <1>2, <1>4, <1>7, <1>own, OwnQuiet
<1>9. ASSUME /\ \/ Present(Main(name[c])) /\ snap' = [snap EXCEPT ![c] = IdentityOf(Main(name[c]))]
                \/ /\ Present(Legacy(name[c])) /\ snap' = [snap EXCEPT ![c] = IdentityOf(Legacy(name[c]))]
                   /\ pc[c] = "resolve_legacy"
             /\ NoFault /\ pc' = [pc EXCEPT ![c] = "enter"] /\ UNCHANGED <<attempt, answer>>
      PROVE  CallQuiet(c)'
  <2>1. pc'[c] = "enter" /\ quiet' = quiet
    BY <1>1, <1>9 DEF TypeOK, NoFault
  <2>2. \/ Present(Main(name[c])) /\ snap'[c] = IdentityOf(Main(name[c]))
        \/ Present(Legacy(name[c])) /\ snap'[c] = IdentityOf(Legacy(name[c])) /\ pc[c] = "resolve_legacy"
    BY <1>1, <1>9 DEF TypeOK
  <2>3. snap'[c].file \in FilesOf(name[c])
    BY <2>2 DEF IdentityOf, FilesOf
  <2>4. Calling(c)'
    BY <1>2, <2>1, <2>3 DEF Calling, Waiting, FilesOf, Main, Legacy
  <2>5. ASSUME quiet[c] PROVE Undisturbed(c)'
    <3>1. snap'[c] = Current(name[c])
      BY <1>own, <2>2, <2>5 DEF Undisturbed, Current
    <3> QED BY <1>2, <1>9, <1>own, <2>1, <2>5, <3>1 DEF Undisturbed, Waiting, Finished
  <2> QED BY <2>1, <2>4, <2>5 DEF CallQuiet
<1>10. ASSUME /\ ~Present(Main(name[c])) /\ NoFault /\ pc' = [pc EXCEPT ![c] = "resolve_legacy"]
              /\ UNCHANGED <<snap, attempt, answer>>
      PROVE  CallQuiet(c)'
  <2>1. pc'[c] = "resolve_legacy" /\ quiet' = quiet
    BY <1>1, <1>10 DEF TypeOK, NoFault
  <2>2. Calling(c)'
    BY <2>1 DEF Calling, Waiting
  <2>3. ASSUME quiet[c] PROVE Undisturbed(c)'
    BY <1>2, <1>10, <1>own, <2>1, <2>3 DEF Undisturbed, Waiting, Finished
  <2> QED BY <2>1, <2>2, <2>3 DEF CallQuiet
<1>11. ASSUME Fault(c) /\ NextAttempt(c)
      PROVE  CallQuiet(c)'
  <2>1. ~quiet'[c]
    BY <1>1, <1>11 DEF Fault, TypeOK
  <2>2. pc'[c] = "resolve" \/ (pc'[c] = "returned" /\ attempt'[c] = 1)
    <3>1. TypeOK /\ NextAttempt(c)
      BY <1>1, <1>11
    <3> QED BY <3>1, NextAttemptIs
  <2> QED BY <2>1, <2>2 DEF CallQuiet, Calling, Waiting
<1>12. ASSUME ~Present(Legacy(name[c])) /\ pc[c] = "resolve_legacy" /\ NoFault /\ NextAttempt(c)
      PROVE  CallQuiet(c)'
  <2>1. \/ pc'[c] = "resolve"
        \/ pc'[c] = "returned" /\ attempt'[c] = 1 /\ answer'[c].status = "Unavailable"
    <3>1. TypeOK /\ NextAttempt(c)
      BY <1>1, <1>12
    <3> QED BY <3>1, NextAttemptIs
  <2>2. Calling(c)' /\ quiet' = quiet
    BY <1>12, <2>1 DEF Calling, Waiting, NoFault
  <2>3. ASSUME quiet[c] PROVE Undisturbed(c)'
    <3>1. Current(name[c]) = NoFile /\ Told(c) = "Unavailable"
      BY <1>12, <1>own, <2>3 DEF Undisturbed, Current, Told
    <3>2. ASSUME NEW j \in Cached' PROVE OfUse(c, j)'
      <4>1. job'[j].identity # NoFile
        BY <1>2, <1>7, CachedAre, Distinct
      <4>2. Current(name[c])' = NoFile
        BY <1>own, <2>3, <3>1
      <4> QED BY <4>1, <4>2 DEF OfUse
    <3> QED BY <1>2, <1>own, <2>1, <2>3, <3>1, <3>2 DEF Undisturbed, Waiting, Finished
  <2> QED BY <2>2, <2>3 DEF CallQuiet
<1>13. CallQuiet(c)'
  <2>1. ~Present(Legacy(name[c])) /\ pc[c] = "resolve_legacy" /\ NoFault /\ NextAttempt(c) => CallQuiet(c)'
    BY <1>12
  <2>2. Fault(c) /\ NextAttempt(c) => CallQuiet(c)'
    BY <1>11
  <2> QED BY <1>3, <1>9, <1>10, <2>1, <2>2
<1> QED BY <1>8, <1>13 DEF QuietInv

LEMMA EnterQuiet == ASSUME IInv, QuietInv, NEW c \in Callers, Enter(c) PROVE QuietInv'
<1> USE DEF diskVars, cacheVars, history, bounds
<1>1. /\ TypeOK /\ CallQuiet(c) /\ pc[c] = "enter" /\ Active(c) /\ ~replacing
      /\ name[c] \in Names /\ op[c] \in Ops
  BY DEF IInv, QuietInv, CallInv, Watched, Active, Enter, MayEnter
<1>2. UNCHANGED <<disk, job, op, name, quiet>>
  BY DEF Enter
<1>3. \/ /\ Shares(c) /\ op[c] = "begin" /\ Return(c, Nothing("Begun")) /\ UNCHANGED <<slot, pending, stale>>
      \/ /\ Shares(c) /\ op[c] # "begin" /\ pending' = [pending EXCEPT ![c] = slot]
         /\ pc' = [pc EXCEPT ![c] = "get"] /\ snap' = [snap EXCEPT ![c] = NoFile]
         /\ UNCHANGED <<slot, stale, attempt, answer>>
      \/ /\ stale' = [stale EXCEPT ![c] = slot] /\ slot' = NoJob
         /\ pc' = [pc EXCEPT ![c] = "launch"] /\ UNCHANGED <<pending, attempt, snap, answer>>
  BY DEF Enter
<1>4. /\ pc'[c] \in {"returned", "get", "launch"}
      /\ pending'[c] = pending[c] \/ pending'[c] = slot
      /\ \A d \in Callers \ {c} : /\ pc'[d] = pc[d] /\ attempt'[d] = attempt[d] /\ pending'[d] = pending[d]
                                  /\ snap'[d] = snap[d] /\ answer'[d] = answer[d]
  BY <1>1, <1>3 DEF TypeOK, Return, Nothing
<1>5. Held' \subseteq Held \union {NoJob}
  BY <1>1, <1>3, <1>4 DEF Held, TypeOK
<1>6. Coming' \subseteq Coming /\ Coming = {}
  BY <1>1, <1>4, ComingStays DEF Coming, IInv, OneReplacer, Between
<1>7. Cached' \subseteq Cached
  BY <1>3, <1>6 DEF Cached
<1>8. Sound' /\ \A d \in Callers \ {c} : CallQuiet(d)'
  BY <1>1, <1>2, <1>4, <1>5, <1>7, OthersQuiet DEF Active
<1>own. ASSUME quiet[c]
      PROVE  /\ Undisturbed(c) /\ Alone(c)'
             /\ Current(name[c])' = Current(name[c]) /\ Verdict(c)' = Verdict(c) /\ Told(c)' = Told(c)
             /\ attempt[c] > 1 => \A j \in Cached' : OfUse(c, j)'
  BY <1>1, <1>2, <1>4, <1>7, <1>own, OwnQuiet
<1>9. ASSUME Shares(c) /\ op[c] = "begin" /\ Return(c, Nothing("Begun")) /\ UNCHANGED <<slot, pending, stale>>
      PROVE  CallQuiet(c)'
  <2>1. pc'[c] = "returned" /\ attempt'[c] = 1
    BY <1>1, <1>9 DEF Return, Nothing, TypeOK
  <2>2. ASSUME quiet[c] PROVE Undisturbed(c)'
    BY <1>2, <1>9, <1>own, <2>1, <2>2 DEF Undisturbed, Waiting, Finished
  <2> QED BY <1>2, <2>1, <2>2 DEF CallQuiet, Calling, Waiting
<1>10. ASSUME /\ Shares(c) /\ op[c] # "begin" /\ pending' = [pending EXCEPT ![c] = slot]
              /\ pc' = [pc EXCEPT ![c] = "get"] /\ snap' = [snap EXCEPT ![c] = NoFile]
              /\ UNCHANGED <<slot, stale, attempt, answer>>
      PROVE  CallQuiet(c)'
  <2>1. pc'[c] = "get" /\ pending'[c] = slot /\ slot # NoJob /\ slotId = snap[c] /\ job[slot].identity = slotId
    BY <1>1, <1>10 DEF TypeOK, Shares, IInv, OneReplacer
  <2>2. Calling(c)'
    BY <1>1, <1>2, <1>10, <2>1 DEF Calling, Waiting, Ops
  <2>3. ASSUME quiet[c] PROVE Undisturbed(c)'
    <3>1. Outcome(c)'.identity = Current(name[c])
      BY <1>1, <1>2, <1>own, <2>1, <2>3 DEF Outcome, Undisturbed
    <3>2. Cached' = {slot}
      BY <1>6, <1>10, <2>1 DEF Cached
    <3>3. PICK j : j = slot
      OBVIOUS
    <3>4. attempt[c] > 1 => OfUse(c, j)'
      BY <1>own, <2>3, <3>2, <3>3
    <3>5. attempt[c] > 1 => OfUse(c, pending[c])'
      BY <2>1, <3>3, <3>4
    <3>6. attempt[c] > 1 \/ attempt[c] = 1
      BY <1>1 DEF TypeOK
    <3>7. ASSUME NEW k \in Cached' PROVE (attempt'[c] = 1 /\ k = pending'[c]) \/ OfUse(c, k)'
      <4>1. k = slot /\ attempt'[c] = attempt[c]
        BY <1>10, <3>2
      <4> QED BY <1>own, <2>1, <2>3, <3>6, <4>1
    <3> QED BY <1>2, <1>10, <1>own, <2>1, <2>3, <3>1, <3>5, <3>7 DEF Undisturbed, Waiting, Finished
  <2> QED BY <1>2, <2>2, <2>3 DEF CallQuiet
<1>11. ASSUME /\ stale' = [stale EXCEPT ![c] = slot] /\ slot' = NoJob
              /\ pc' = [pc EXCEPT ![c] = "launch"] /\ UNCHANGED <<pending, attempt, snap, answer>>
      PROVE  CallQuiet(c)'
  <2>1. pc'[c] = "launch"
    BY <1>1, <1>11 DEF TypeOK
  <2>2. Calling(c)'
    BY <1>1, <1>2, <1>11, <2>1 DEF CallQuiet, Calling, Waiting, FilesOf, Main, Legacy
  <2>3. ASSUME quiet[c] PROVE Undisturbed(c)'
    BY <1>1, <1>2, <1>11, <1>own, <2>1, <2>3 DEF Undisturbed, Waiting, Finished
  <2> QED BY <1>2, <2>2, <2>3 DEF CallQuiet
<1>12. CallQuiet(c)'
  BY <1>3, <1>9, <1>10, <1>11
<1> QED BY <1>8, <1>12 DEF QuietInv

LEMMA StartQuiet ==
    ASSUME IInv, QuietInv, NEW c \in Callers, NEW o \in Ops, NEW n \in Names, Start(c, o, n)
    PROVE  QuietInv'
<1> USE DEF diskVars, cacheVars
<1>1. TypeOK /\ CallQuiet(c) /\ pc[c] = "idle"
  BY DEF IInv, QuietInv, Start
<1>2. /\ UNCHANGED <<disk, job, slot, slotId, replacing, attempt, snap, stale, pending, answer>>
      /\ pc'[c] = "resolve" /\ name'[c] = n
      /\ \A d \in Callers \ {c} : pc'[d] = pc[d] /\ op'[d] = op[d] /\ name'[d] = name[d]
  BY <1>1 DEF Start, TypeOK
<1>3. quiet' = [d \in Callers |-> IF d = c THEN \A e \in Callers : ~Rivals(e, n) ELSE quiet[d] /\ ~Rivals(d, n)]
  BY DEF Start
<1>4. Held' = Held /\ Sound'
  BY <1>2 DEF Held, QuietInv, Sound
<1>5. Cached' = Cached
  BY <1>1, <1>2 DEF Cached, Coming
<1>6. ASSUME NEW d \in Callers \ {c} PROVE CallQuiet(d)'
  <2>1. CallQuiet(d)
    BY DEF QuietInv
  <2>2. quiet'[d] => quiet[d] /\ ~Rivals(d, n)
    BY <1>3, Zenon
  <2>3. Active(d) /\ quiet'[d] /\ Alone(d) => Alone(d)'
    <3>1. ASSUME Active(d), quiet'[d], Alone(d), NEW e \in Callers PROVE ~Rivals(e, name[d])'
      <4>1. CASE e = c
        BY <1>2, <1>6, <2>2, <3>1, <4>1 DEF Rivals
      <4>2. CASE e # c
        BY <1>2, <1>6, <3>1, <4>2 DEF Alone, Rivals, Active
      <4> QED BY <4>1, <4>2
    <3> QED BY <3>1 DEF Alone
  <2>4. pc[d] = "publish" => \A e \in Callers \ {d} : pending'[e] # pending[d]
    BY <1>2, <2>1 DEF CallQuiet, Calling
  <2> QED BY <1>2, <1>5, <2>1, <2>2, <2>3, <2>4, CallKept
<1>7. CallQuiet(c)'
  <2>1. attempt'[c] = 1
    BY <1>1, <1>2 DEF CallQuiet, Calling
  <2>2. Calling(c)'
    BY <1>2 DEF Calling, Waiting
  <2>3. ASSUME quiet'[c] PROVE Alone(c)'
    <3>1. \A e \in Callers : ~Rivals(e, n)
      BY <1>3, <2>3, Zenon
    <3>2. ASSUME NEW e \in Callers PROVE ~Rivals(e, name[c])'
      BY <1>2, <3>1 DEF Rivals, Active
    <3> QED BY <3>2 DEF Alone
  <2> QED BY <1>2, <2>1, <2>2, <2>3 DEF CallQuiet, Undisturbed, Waiting, Finished
<1> QED BY <1>4, <1>6, <1>7 DEF QuietInv

LEMMA LaunchQuiet == ASSUME IInv, QuietInv, NEW c \in Callers, Launch(c) PROVE QuietInv'
<1> USE DEF diskVars, cacheVars, history, bounds
<1>1. /\ TypeOK /\ CallQuiet(c) /\ Calling(c) /\ pc[c] = "launch" /\ Active(c) /\ name[c] \in Names
      /\ snap[c] \in Identities /\ snap[c].file \in FilesOf(name[c])
  BY DEF IInv, QuietInv, CallQuiet, CallInv, Watched, Active, Asked, Found, Launch, Calling
<1>2. PICK j \in Jobs : FirstFree(j) /\ pending' = [pending EXCEPT ![c] = j]
  BY DEF Launch
<1>3. UNCHANGED <<disk, slot, op, name, attempt, snap, answer, quiet>>
  BY DEF Launch
<1>4. /\ pending'[c] = j /\ pc'[c] = "publish"
      /\ \A d \in Callers \ {c} : pending'[d] = pending[d] /\ pc'[d] = pc[d]
  BY <1>1, <1>2 DEF Launch, TypeOK
<1> DEFINE new == [name |-> name[c], identity |-> snap[c], status |-> "decoding"]
<1>5. job' = [k \in Jobs |-> IF k = j THEN new ELSE IF k \in Held' THEN job[k] ELSE FreeJob]
  BY <1>4 DEF Launch
<1>6. job'[j].name = name[c] /\ job'[j].identity = snap[c] /\ job'[j].status = "decoding"
  BY <1>5
<1> HIDE DEF new
<1>7. Held' \subseteq Held \union {j, NoJob} /\ Held' \subseteq Jobs \union {NoJob}
  BY <1>1, <1>2 DEF Held, TypeOK, Launch
<1>8. \A k \in Held : k # j
  BY <1>2, Distinct, JobPlaces DEF FirstFree, IInv, LiveJobs
<1>9. \A k \in Held' \ {NoJob} : k # j => k \in Held \ {NoJob} /\ job'[k] = job[k]
  BY <1>5, <1>7
<1>10. Sound'
  BY <1>6, <1>9 DEF QuietInv, Sound
<1>11. Cached' = {j}
  <2>1. slot' = NoJob /\ \A d \in Callers \ {c} : pc[d] \notin Between
    BY <1>1, <1>3 DEF IInv, OneReplacer, Between
  <2>2. Coming' = {j}
    BY <1>4, <2>1 DEF Coming, Between
  <2> QED BY <2>1, <2>2, JobPlaces DEF Cached
<1>12. ASSUME NEW d \in Callers, name[d] = name[c] \/ (d # c /\ Active(d) /\ Alone(d)) PROVE OfUse(d, j)'
  <2>1. ASSUME snap[c] = Current(name[d]) PROVE name[c] = name[d]
    <3>1. CASE d # c /\ Active(d) /\ Alone(d)
      <4>1. name[d] \in Names
        BY <3>1 DEF IInv, CallInv, Watched
      <4>2. snap[c].file \in FilesOf(name[d])
        BY <1>1, <2>1, <4>1, CurrentIs, Distinct
      <4>3. PathOf(name[c]) = PathOf(name[d])
        BY <1>1, <4>2 DEF FilesOf, Main, Legacy
      <4> QED BY <1>1, <3>1, <4>3 DEF Alone, Rivals
    <3> QED BY <1>12, <3>1
  <2>2. Current(name[d])' = Current(name[d])
    BY <1>3, SameDisk
  <2> QED BY <1>3, <1>6, <2>1, <2>2 DEF OfUse
<1>13. ASSUME NEW d \in Callers \ {c} PROVE CallQuiet(d)'
  <2>1. CallQuiet(d)
    BY DEF QuietInv
  <2>2. Alone(d) => Alone(d)'
    <3>1. \A e \in Callers : pc'[e] # "idle" => pc[e] # "idle" /\ name'[e] = name[e]
      BY <1>1, <1>3, <1>4
    <3> QED BY <1>3, <3>1, AloneStays
  <2>3. Waiting(d) => job'[pending[d]] = job[pending[d]]
    <3>1. Waiting(d) => pending[d] # NoJob
      BY JobPlaces DEF IInv, CallInv, Asked, Waiting
    <3>2. pending[d] \in Held' /\ pending[d] \in Held
      BY <1>4, <1>13 DEF Held
    <3> QED BY <1>8, <1>9, <3>1, <3>2
  <2>4. \A k \in Cached' : Active(d) /\ Alone(d) => OfUse(d, k)'
    BY <1>11, <1>12, <1>13
  <2>5. pc[d] # "publish"
    BY <1>1, <1>13 DEF IInv, OneReplacer, Between
  <2> QED BY <1>3, <1>4, <1>13, <2>1, <2>2, <2>3, <2>4, <2>5, CallKept
<1>14. CallQuiet(c)'
  <2>1. \A d \in Callers \ {c} : pending'[d] # pending'[c]
    BY <1>4, <1>8 DEF Held
  <2>2. Calling(c)'
    BY <1>4, <2>1 DEF Calling, Waiting
  <2>3. ASSUME quiet[c] PROVE Undisturbed(c)'
    <3>1. Undisturbed(c)
      BY <1>1, <2>3 DEF CallQuiet
    <3>2. Alone(c)'
      <4>1. \A e \in Callers : pc'[e] # "idle" => pc[e] # "idle" /\ name'[e] = name[e]
        BY <1>1, <1>3, <1>4
      <4> QED BY <1>3, <3>1, <4>1, AloneStays DEF Undisturbed
    <3>3. snap'[c] = Current(name[c])'
      BY <1>1, <1>3, <3>1, SameDisk DEF Undisturbed
    <3>4. \A k \in Cached' : OfUse(c, k)'
      BY <1>11, <1>12
    <3> QED BY <1>4, <3>2, <3>3, <3>4 DEF Undisturbed, Waiting, Finished
  <2> QED BY <1>3, <2>2, <2>3 DEF CallQuiet
<1> QED BY <1>10, <1>13, <1>14 DEF QuietInv

LEMMA LaunchThrowsQuiet == ASSUME IInv, QuietInv, NEW c \in Callers, LaunchThrows(c) PROVE QuietInv'
<1> USE DEF diskVars
<1>1. TypeOK /\ pc[c] = "launch" /\ Fault(c) /\ replacing /\ slot = NoJob
  BY DEF IInv, OneReplacer, Between, LaunchThrows
<1>2. /\ UNCHANGED <<disk, slot, op, name, pending>> /\ stale' = [stale EXCEPT ![c] = NoJob] /\ Collect
      /\ Return(c, Nothing("Threw"))
  BY DEF LaunchThrows
<1>3. /\ pc'[c] = "returned" /\ attempt'[c] = 1 /\ ~quiet'[c]
      /\ \A d \in Callers \ {c} : /\ pc'[d] = pc[d] /\ attempt'[d] = attempt[d] /\ quiet'[d] = quiet[d]
                                  /\ snap'[d] = snap[d] /\ answer'[d] = answer[d]
  BY <1>1, <1>2 DEF TypeOK, Return, Nothing, Fault
<1>4. Held' \subseteq Held \union {NoJob}
  BY <1>1, <1>2 DEF Held, TypeOK
<1>5. \A j \in Held' \ {NoJob} : job'[j] = job[j]
  BY <1>1, <1>2, <1>4, Collected DEF IInv
<1>6. Cached' \subseteq Cached
  BY <1>2, <1>3, ComingStays DEF Cached
<1>7. Sound' /\ \A d \in Callers \ {c} : CallQuiet(d)'
  BY <1>1, <1>2, <1>3, <1>4, <1>5, <1>6, OthersQuiet
<1>8. CallQuiet(c)'
  BY <1>3 DEF CallQuiet, Calling, Waiting
<1> QED BY <1>7, <1>8 DEF QuietInv

LEMMA PublishQuiet == ASSUME IInv, QuietInv, NEW c \in Callers, Publish(c) PROVE QuietInv'
<1> USE DEF diskVars, cacheVars, history, bounds
<1>1. /\ TypeOK /\ CallQuiet(c) /\ pc[c] = "publish" /\ Active(c) /\ op[c] \in Ops
      /\ pending[c] \in Jobs /\ pending[c] # NoJob /\ job[pending[c]].identity = snap[c]
  BY JobPlaces DEF IInv, QuietInv, CallInv, Watched, Active, Asked, Publish
<1>2. slot' = pending[c] /\ UNCHANGED <<disk, job, op, name, stale, quiet>>
  BY DEF Publish
<1>3. \/ /\ op[c] = "begin" /\ pc'[c] = "returned" /\ attempt'[c] = 1 /\ pending'[c] = NoJob
      \/ /\ op[c] # "begin" /\ pc'[c] = "get" /\ UNCHANGED <<pending, attempt, answer>>
  BY <1>1 DEF Publish, Return, Nothing, TypeOK
<1>4. \A d \in Callers \ {c} : /\ pc'[d] = pc[d] /\ attempt'[d] = attempt[d] /\ pending'[d] = pending[d]
                               /\ snap'[d] = snap[d] /\ answer'[d] = answer[d]
  BY <1>1 DEF Publish, Return, Nothing, TypeOK
<1>5. Held' \subseteq Held \union {NoJob}
  <2>1. \A d \in Callers : pending'[d] \in {pending[d], NoJob}
    BY <1>3, <1>4
  <2> QED BY <1>2, <2>1 DEF Held
<1>6. Coming' = {}
  BY <1>1, <1>3, <1>4 DEF Coming, IInv, OneReplacer, Between
<1>7. Cached' = {pending[c]} /\ pending[c] \in Cached
  BY <1>1, <1>2, <1>6 DEF Cached, Coming
<1>8. Sound' /\ \A d \in Callers \ {c} : CallQuiet(d)'
  <2>1. Cached' \subseteq Cached /\ pending'[c] \in {pending[c], NoJob}
    BY <1>3, <1>7
  <2> QED BY <1>1, <1>2, <1>4, <1>5, <2>1, OthersQuiet
<1>own. ASSUME quiet[c]
      PROVE  /\ Undisturbed(c) /\ Alone(c)'
             /\ Current(name[c])' = Current(name[c])
             /\ attempt[c] > 1 => \A j \in Cached' : OfUse(c, j)'
  <2>1. Cached' \subseteq Cached
    BY <1>7
  <2> QED BY <1>1, <1>2, <1>4, <1>own, <2>1, OwnQuiet
<1>9. ASSUME op[c] = "begin", pc'[c] = "returned", attempt'[c] = 1
      PROVE  CallQuiet(c)'
  <2>1. Calling(c)'
    BY <1>9 DEF Calling, Waiting
  <2> QED BY <1>2, <1>9, <1>own, <2>1 DEF CallQuiet, Undisturbed, Waiting, Finished
<1>10. ASSUME op[c] # "begin", pc'[c] = "get", UNCHANGED <<pending, attempt, answer>>
       PROVE  CallQuiet(c)'
  <2>1. Calling(c)'
    BY <1>1, <1>2, <1>10 DEF Calling, Waiting, Ops
  <2>2. ASSUME quiet[c] PROVE Undisturbed(c)'
    <3>1. Outcome(c)'.identity = Current(name[c])'
      BY <1>1, <1>2, <1>10, <1>own, <2>2 DEF Outcome, Undisturbed
    <3>2. PICK j : j = pending[c]
      OBVIOUS
    <3>3. attempt[c] > 1 => OfUse(c, j)'
      BY <1>own, <1>7, <2>2, <3>2
    <3>4. attempt'[c] > 1 => OfUse(c, pending[c])'
      BY <1>10, <3>2, <3>3
    <3>5. attempt[c] > 1 \/ attempt[c] = 1
      BY <1>1 DEF TypeOK
    <3>6. ASSUME NEW k \in Cached' PROVE (attempt'[c] = 1 /\ k = pending'[c]) \/ OfUse(c, k)'
      <4>1. k = pending'[c] /\ attempt'[c] = attempt[c]
        BY <1>7, <1>10
      <4> QED BY <1>own, <2>2, <3>5, <4>1
    <3> QED BY <1>10, <1>own, <2>2, <3>1, <3>4, <3>6 DEF Undisturbed, Waiting, Finished
  <2> QED BY <1>2, <2>1, <2>2 DEF CallQuiet
<1> QED BY <1>3, <1>8, <1>9, <1>10 DEF QuietInv

(* What a call that waits is told is what the disk says.                   *)
LEMMA OutcomeTells ==
    ASSUME IInv, QuietInv, NEW c \in Callers, Waiting(c), quiet[c], Outcome(c).status \in {"Ready", "Invalid"}
    PROVE  Outcome(c).status = Told(c)
<1>1. CallQuiet(c) /\ Active(c) /\ Sound /\ pending[c] \in Held \ {NoJob} /\ Outcome(c).identity \in Identities
  BY JobPlaces DEF IInv, CallInv, Asked, Found, QuietInv, Waiting, Active, Held
<1>2. Outcome(c).identity = Current(name[c])
  BY <1>1 DEF CallQuiet, Undisturbed
<1>3. Outcome(c).status = "Ready" <=> Decodes(Current(name[c]))
  BY <1>1, <1>2 DEF Sound, Outcome
<1> QED BY <1>1, <1>2, <1>3, Distinct DEF Told, Verdict

LEMMA GetQuiet == ASSUME IInv, QuietInv, NEW c \in Callers, Get(c) PROVE QuietInv'
<1> USE DEF diskVars, cacheVars
<1>1. /\ TypeOK /\ CallQuiet(c) /\ pc[c] = "get" /\ Active(c) /\ Waiting(c) /\ Done(pending[c])
      /\ name[c] \in Names /\ pending[c] \in Jobs /\ op[c] \in {"valid", "consume"}
      /\ Outcome(c).identity \in Identities
  BY DEF IInv, QuietInv, CallInv, Watched, Active, Asked, Found, Get, Waiting, CallQuiet, Calling
<1>2. UNCHANGED <<disk, slot, op, name, stale>> /\ Collect /\ (UNCHANGED pending \/ Drop(c))
  BY DEF Get
<1>3. /\ \A d \in Callers \ {c} : quiet'[d] = quiet[d]
      /\ quiet'[c] => quiet[c] /\ NoFault
  <2>1. Fault(c) \/ NoFault
    BY DEF Get
  <2> QED BY <1>1, <2>1, FaultIs
<1>4. /\ pc'[c] \in {"returned", "leased", "evict", "deliver"}
      /\ pending'[c] \in {pending[c], NoJob}
      /\ \A d \in Callers \ {c} : /\ pc'[d] = pc[d] /\ attempt'[d] = attempt[d] /\ pending'[d] = pending[d]
                                  /\ snap'[d] = snap[d] /\ answer'[d] = answer[d]
  <2>1. /\ pending'[c] \in {pending[c], NoJob}
        /\ \A d \in Callers \ {c} : pending'[d] = pending[d]
    BY <1>1, <1>2 DEF Drop, TypeOK
  <2>2. CASE \E a : Return(c, a)
    BY <1>1, <2>1, <2>2 DEF Return, TypeOK
  <2>3. CASE (\E p \in {"evict", "deliver"} : pc' = [pc EXCEPT ![c] = p]) /\ UNCHANGED <<attempt, snap, answer>>
    BY <1>1, <2>1, <2>3 DEF TypeOK
  <2>4. \/ \E a : Return(c, a)
        \/ (\E p \in {"evict", "deliver"} : pc' = [pc EXCEPT ![c] = p]) /\ UNCHANGED <<attempt, snap, answer>>
    BY DEF Get
  <2> QED BY <2>2, <2>3, <2>4
<1>5. Held' \subseteq Held \union {NoJob}
  <2>1. \A d \in Callers : pending'[d] \in {pending[d], NoJob}
    BY <1>4
  <2> QED BY <1>2, <2>1 DEF Held
<1>6. \A j \in Held' \ {NoJob} : job'[j] = job[j]
  BY <1>1, <1>2, <1>5, Collected DEF IInv
<1>7. Cached' \subseteq Cached
  BY <1>2, <1>4, ComingStays DEF Cached
<1>8. Sound' /\ \A d \in Callers \ {c} : CallQuiet(d)'
  BY <1>1, <1>2, <1>3, <1>4, <1>5, <1>6, <1>7, OthersQuiet DEF Active
<1>own. ASSUME quiet[c]
      PROVE  /\ Undisturbed(c) /\ Alone(c)'
             /\ Current(name[c])' = Current(name[c]) /\ Told(c)' = Told(c)
             /\ \A j \in Cached' : (attempt[c] = 1 /\ j = pending[c]) \/ OfUse(c, j)'
             /\ \A j : job'[j] = job[j] /\ OfUse(c, j) => OfUse(c, j)'
  <2>1. Cached' \subseteq Held' \ {NoJob}
    BY DEF Cached, Coming, Held
  <2> QED BY <1>1, <1>2, <1>4, <1>6, <1>7, <1>own, <2>1, OwnQuiet
<1>9. ASSUME NEW a, Return(c, a), Finished(c)', quiet'[c] => a.status = "Threw" \/ a.status = Told(c)
      PROVE  CallQuiet(c)'
  <2>1. attempt'[c] = 1 /\ answer'[c] = a
    BY <1>1, <1>9 DEF Return, TypeOK
  <2>2. Calling(c)'
    BY <1>9, <2>1 DEF Calling, Waiting, Finished
  <2>3. ASSUME quiet'[c] PROVE Undisturbed(c)'
    BY <1>3, <1>9, <1>own, <2>1, <2>3 DEF Undisturbed, Waiting, Finished
  <2> QED BY <2>2, <2>3 DEF CallQuiet
<1>10. ASSUME NEW p \in {"evict", "deliver"}, pc' = [pc EXCEPT ![c] = p], UNCHANGED <<attempt, pending>>,
              p = "deliver" => Outcome(c).status = "Ready",
              p = "evict" /\ quiet'[c] => attempt[c] = 1
       PROVE  CallQuiet(c)'
  <2>1. pc'[c] = p /\ pending[c] \in Held' \ {NoJob} /\ job'[pending[c]] = job[pending[c]]
    BY <1>1, <1>6, <1>10, JobPlaces DEF TypeOK, Held
  <2>2. Outcome(c)' = Outcome(c)
    BY <1>10, <2>1 DEF Outcome
  <2>3. Calling(c)'
    BY <1>1, <1>2, <1>10, <2>1, <2>2 DEF Calling, Waiting
  <2>4. ASSUME quiet'[c] PROVE Undisturbed(c)'
    <3>1. quiet[c]
      BY <1>3, <2>4
    <3>2. PICK j : j = pending[c]
      OBVIOUS
    <3>3. attempt[c] > 1 => OfUse(c, j)'
      BY <1>1, <1>own, <2>1, <3>1, <3>2 DEF Undisturbed
    <3>4. attempt'[c] > 1 => OfUse(c, pending[c])'
      BY <1>10, <3>2, <3>3
    <3>5. ASSUME NEW k \in Cached' PROVE (attempt'[c] = 1 /\ k = pending'[c]) \/ OfUse(c, k)'
      BY <1>10, <1>own, <3>1
    <3>6. Outcome(c)'.identity = Current(name[c])'
      BY <1>1, <1>own, <2>2, <3>1 DEF Undisturbed
    <3> QED BY <1>10, <1>own, <2>1, <2>4, <3>1, <3>4, <3>5, <3>6 DEF Undisturbed, Waiting, Finished
  <2> QED BY <2>3, <2>4 DEF CallQuiet
<1>11. ASSUME Outcome(c).status # "Threw", ~Answers(c), ~(Usable(c) /\ Unchanged(c)), quiet[c]
       PROVE  attempt[c] = 1
  <2>1. SUFFICES ASSUME attempt[c] > 1 PROVE FALSE
    BY <1>1 DEF TypeOK
  <2>2. /\ OfUse(c, pending[c]) /\ Outcome(c).identity = Current(name[c])
    BY <1>1, <1>own, <1>11, <2>1 DEF Undisturbed
  <2>3. Outcome(c).name = name[c] /\ Outcome(c).status \in {"Ready", "Invalid"}
    BY <1>1, <2>2 DEF OfUse, Outcome, Done, Verdict
  <2>4. Unchanged(c)
    BY <1>1, <2>2, CurrentIs, Distinct DEF Unchanged
  <2> QED BY <1>1, <1>11, <2>3, <2>4 DEF Answers, Usable
<1>12. ASSUME Outcome(c).status = "Threw", Return(c, Nothing("Threw")) PROVE CallQuiet(c)'
  <2>1. Finished(c)'
    BY <1>1, <1>12 DEF Return, Nothing, Finished, TypeOK
  <2> QED BY <1>9, <1>12, <2>1 DEF Nothing
<1>13. ASSUME Answers(c), Return(c, [status |-> Outcome(c).status, identity |-> Outcome(c).identity])
       PROVE  CallQuiet(c)'
  <2>1. Finished(c)'
    BY <1>1, <1>13 DEF Return, Finished, TypeOK
  <2>2. Outcome(c).status \in {"Ready", "Invalid"}
    BY <1>13 DEF Answers
  <2>3. quiet'[c] => Outcome(c).status = Told(c)
    BY <1>1, <1>3, <2>2, OutcomeTells
  <2> QED BY <1>9, <1>13, <2>1, <2>3
<1>14. ASSUME Outcome(c).status # "Threw", ~Answers(c), IF Usable(c) /\ Unchanged(c) THEN Fault(c) ELSE NoFault,
              pc' = [pc EXCEPT ![c] = "evict"], UNCHANGED <<attempt, pending>>
       PROVE  CallQuiet(c)'
  <2>1. Fault(c) => ~quiet'[c]
    BY <1>1 DEF Fault, TypeOK
  <2>2. quiet'[c] => attempt[c] = 1
    BY <1>3, <1>11, <1>14, <2>1
  <2> QED BY <1>10, <1>14, <2>2
<1>15. ASSUME Usable(c), pc' = [pc EXCEPT ![c] = "deliver"], UNCHANGED <<attempt, pending>>
       PROVE  CallQuiet(c)'
  BY <1>10, <1>15 DEF Usable
<1>16. CallQuiet(c)'
  BY <1>12, <1>13, <1>14, <1>15 DEF Get
<1> QED BY <1>8, <1>16 DEF QuietInv

LEMMA EvictQuiet == ASSUME IInv, QuietInv, NEW c \in Callers, Evict(c) PROVE QuietInv'
<1> USE DEF diskVars, cacheVars, history, bounds
<1>1. /\ TypeOK /\ CallQuiet(c) /\ pc[c] = "evict" /\ Active(c) /\ Waiting(c) /\ OneReplacer
      /\ pending[c] \in Jobs /\ op[c] \in {"valid", "consume"}
  BY DEF IInv, QuietInv, CallInv, Active, Asked, Evict, Waiting, CallQuiet, Calling
<1>2. UNCHANGED <<disk, op, name, stale, quiet>> /\ Collect /\ Drop(c) /\ EvictSlot(c) /\ NextAttempt(c)
  BY DEF Evict
<1>3. /\ \/ pc'[c] = "resolve" /\ attempt[c] < Attempts(op[c])
         \/ pc'[c] = "returned" /\ attempt'[c] = 1 /\ ~(attempt[c] < Attempts(op[c]))
      /\ \A d \in Callers \ {c} : /\ pc'[d] = pc[d] /\ attempt'[d] = attempt[d]
                                  /\ snap'[d] = snap[d] /\ answer'[d] = answer[d]
  BY <1>1, <1>2, NextAttemptIs
<1>4. slot' \in {slot, NoJob}
  BY <1>2, SlotEmptied
<1>5. pending'[c] = NoJob /\ \A d \in Callers \ {c} : pending'[d] = pending[d]
  BY <1>1, <1>2 DEF Drop, TypeOK
<1>6. Held' \subseteq Held \union {NoJob}
  <2>1. \A d \in Callers : pending'[d] \in {pending[d], NoJob}
    BY <1>5
  <2> QED BY <1>2, <1>4, <2>1 DEF Held
<1>7. \A j \in Held' \ {NoJob} : job'[j] = job[j]
  BY <1>1, <1>2, <1>6, Collected DEF IInv
<1>8. Coming' \subseteq Coming /\ Cached' \subseteq Cached
  BY <1>3, <1>4, <1>5, ComingStays DEF Cached
<1>9. Sound' /\ \A d \in Callers \ {c} : CallQuiet(d)'
  BY <1>1, <1>2, <1>3, <1>5, <1>6, <1>7, <1>8, OthersQuiet DEF Active
<1>10. pending[c] \notin Cached'
  <2>1. pending[c] \notin Coming'
    <3>1. SUFFICES ASSUME NEW e \in Callers, pc'[e] = "publish", pending'[e] = pending[c] PROVE FALSE
      BY DEF Coming
    <3>2. e # c /\ pc[e] = "publish" /\ pending[e] = pending[c]
      BY <1>3, <1>5, <3>1
    <3>3. Calling(e)
      BY DEF QuietInv, CallQuiet
    <3> QED BY <3>2, <3>3 DEF Calling
  <2>2. pending[c] # slot'
    <3>1. SUFFICES ASSUME pending[c] = slot' PROVE FALSE
      OBVIOUS
    <3>2. slot = pending[c] /\ slot # NoJob /\ slot' # NoJob
      BY <1>1, <1>4, <3>1, JobPlaces
    <3>3. ~replacing /\ slotId = Outcome(c).identity
      BY <1>1, <3>2 DEF OneReplacer, Outcome
    <3> QED BY <1>2, <3>2, <3>3 DEF EvictSlot
  <2> QED BY <2>1, <2>2 DEF Cached
<1>11. CallQuiet(c)'
  <2>1. Calling(c)'
    BY <1>3 DEF Calling, Waiting
  <2>2. ASSUME quiet[c] PROVE Undisturbed(c)'
    <3>1. Cached' \subseteq Held' \ {NoJob}
      BY DEF Cached, Coming, Held
    <3>2. /\ Undisturbed(c) /\ Alone(c)'
          /\ \A j \in Cached' : (attempt[c] = 1 /\ j = pending[c]) \/ OfUse(c, j)'
      BY <1>1, <1>2, <1>3, <1>7, <1>8, <2>2, <3>1, OwnQuiet
    <3>3. pc'[c] = "resolve"
      BY <1>1, <1>3, <3>2 DEF Undisturbed, Attempts
    <3> QED BY <1>10, <3>2, <3>3 DEF Undisturbed, Waiting, Finished
  <2> QED BY <1>2, <2>1, <2>2 DEF CallQuiet
<1> QED BY <1>9, <1>11 DEF QuietInv

LEMMA DeliverQuiet == ASSUME IInv, QuietInv, NEW c \in Callers, Deliver(c) PROVE QuietInv'
<1> USE DEF diskVars, cacheVars
<1>1. /\ TypeOK /\ CallQuiet(c) /\ pc[c] = "deliver" /\ Active(c) /\ Waiting(c)
      /\ op[c] = "consume" /\ Outcome(c).status = "Ready"
  BY DEF IInv, QuietInv, CallInv, Active, Asked, Deliver, Waiting, CallQuiet, Calling
<1>2. UNCHANGED <<disk, op, name, stale, pending>> /\ Collect
  BY DEF Deliver
<1>3. /\ \A d \in Callers \ {c} : quiet'[d] = quiet[d]
      /\ quiet'[c] => quiet[c] /\ NoFault
  <2>1. Fault(c) \/ NoFault
    BY DEF Deliver
  <2> QED BY <1>1, <2>1, FaultIs
<1>4. /\ slot' \in {slot, NoJob}
      /\ \/ pc'[c] = "leased" /\ attempt'[c] = 1 /\ answer'[c].status = "Ready"
         \/ pc'[c] = "evict" /\ ~quiet'[c]
      /\ \A d \in Callers \ {c} : /\ pc'[d] = pc[d] /\ attempt'[d] = attempt[d]
                                  /\ snap'[d] = snap[d] /\ answer'[d] = answer[d]
  <2>1. CASE /\ EvictSlot(c) /\ Return(c, [status |-> "Ready", identity |-> Outcome(c).identity])
    <3>1. slot' \in {slot, NoJob}
      BY <2>1, SlotEmptied
    <3> QED BY <1>1, <2>1, <3>1 DEF Return, TypeOK
  <2>2. CASE Fault(c) /\ pc' = [pc EXCEPT ![c] = "evict"] /\ UNCHANGED <<cacheVars, attempt, snap, answer>>
    BY <1>1, <2>2 DEF Fault, TypeOK
  <2> QED BY <2>1, <2>2 DEF Deliver
<1>5. Held' \subseteq Held \union {NoJob}
  BY <1>2, <1>4 DEF Held
<1>6. \A j \in Held' \ {NoJob} : job'[j] = job[j]
  BY <1>1, <1>2, <1>5, Collected DEF IInv
<1>7. Cached' \subseteq Cached
  BY <1>2, <1>4, ComingStays DEF Cached
<1>8. Sound' /\ \A d \in Callers \ {c} : CallQuiet(d)'
  BY <1>1, <1>2, <1>3, <1>4, <1>5, <1>6, <1>7, OthersQuiet DEF Active
<1>9. Calling(c)'
  BY <1>1, <1>2, <1>4 DEF Calling, Waiting
<1>10. ASSUME quiet'[c] PROVE Undisturbed(c)'
  <2>1. Cached' \subseteq Held' \ {NoJob}
    BY DEF Cached, Coming, Held
  <2>2. Undisturbed(c) /\ Alone(c)' /\ Told(c)' = Told(c)
    BY <1>1, <1>2, <1>3, <1>4, <1>6, <1>7, <1>10, <2>1, OwnQuiet
  <2>3. Told(c) = "Ready"
    BY <1>1, <1>3, <1>10, OutcomeTells
  <2> QED BY <1>4, <1>10, <2>2, <2>3 DEF Undisturbed, Waiting, Finished
<1> QED BY <1>8, <1>9, <1>10 DEF QuietInv, CallQuiet

LEMMA ReleaseQuiet == ASSUME IInv, QuietInv, NEW c \in Callers, Release(c) PROVE QuietInv'
<1> USE DEF diskVars, cacheVars, bounds
<1>1. TypeOK /\ CallQuiet(c) /\ pc[c] \in {"leased", "returned"} /\ attempt[c] = 1
  BY DEF IInv, QuietInv, Release, CallQuiet, Calling
<1>2. UNCHANGED <<disk, slot, attempt, snap, stale>> /\ Collect /\ pc'[c] = "idle"
  BY <1>1 DEF Release, TypeOK
<1>3. /\ pending'[c] = NoJob
      /\ \A d \in Callers \ {c} : /\ pc'[d] = pc[d] /\ op'[d] = op[d] /\ name'[d] = name[d]
                                  /\ pending'[d] = pending[d] /\ answer'[d] = answer[d] /\ quiet'[d] = quiet[d]
  BY <1>1 DEF Release, Drop, TypeOK
<1>4. Held' \subseteq Held \union {NoJob}
  <2>1. \A d \in Callers : pending'[d] \in {pending[d], NoJob}
    BY <1>3
  <2> QED BY <1>2, <2>1 DEF Held
<1>5. \A j \in Held' \ {NoJob} : job'[j] = job[j]
  BY <1>1, <1>2, <1>4, Collected DEF IInv
<1>6. Cached' \subseteq Cached
  BY <1>2, <1>3, ComingStays DEF Cached
<1>7. Sound' /\ \A d \in Callers \ {c} : CallQuiet(d)'
  BY <1>1, <1>2, <1>3, <1>4, <1>5, <1>6, OthersQuiet
<1>8. CallQuiet(c)'
  BY <1>1, <1>2 DEF CallQuiet, Calling, Waiting, Active
<1> QED BY <1>7, <1>8 DEF QuietInv

(* A decode ends: the calls keep their places, and what a decode whose     *)
(* contents are on the disk found is the verdict on them.                  *)
LEMMA DecodeEndsQuietly ==
    ASSUME IInv, QuietInv, NEW j \in Jobs, job[j].status = "decoding", NEW s \in Decoded,
           job' = [job EXCEPT ![j].status = s], UNCHANGED <<diskVars, cacheVars, pc, callVars>>,
           s = "Ready" => Decodes(job[j].identity), s = "Invalid" => ~Decodes(job[j].identity)
    PROVE  /\ Sound' /\ Cached' = Cached
           /\ job'[j] = [job[j] EXCEPT !.status = s] /\ \A k \in Jobs \ {j} : job'[k] = job[k]
           /\ job[j] \in JobRecords
           /\ \A k \in Jobs : job'[k].identity = job[k].identity
           /\ \A d \in Callers : Calling(d)'
<1> USE DEF cacheVars, callVars
<1>1. TypeOK /\ job[j] \in JobRecords
  BY DEF IInv, TypeOK, FreeJob
<1>2. job'[j] = [job[j] EXCEPT !.status = s] /\ \A k \in Jobs \ {j} : job'[k] = job[k]
  BY <1>1 DEF TypeOK
<1>3. job'[j].identity = job[j].identity /\ job'[j].status = s
  BY <1>1, <1>2 DEF JobRecords
<1>4. Held' = Held /\ Cached' = Cached /\ Held \subseteq Jobs \union {NoJob}
  BY <1>1 DEF Held, Cached, Coming, TypeOK
<1>5. Sound'
  BY <1>2, <1>3, <1>4 DEF QuietInv, Sound
<1>6. \A k \in Jobs : job'[k].identity = job[k].identity
  BY <1>2, <1>3
<1>7. ASSUME NEW d \in Callers PROVE Calling(d)'
  <2>1. Calling(d)
    BY DEF QuietInv, CallQuiet
  <2>2. pc[d] = "deliver" => job'[pending[d]] = job[pending[d]]
    BY <1>2, <2>1 DEF IInv, CallInv, Asked, Calling, Outcome
  <2> QED BY <2>1, <2>2 DEF Calling, Waiting, Outcome, FilesOf, Main, Legacy
<1> QED BY <1>1, <1>2, <1>4, <1>5, <1>6, <1>7

LEMMA DecodeQuiet == ASSUME IInv, QuietInv, NEW j \in Jobs, Decode(j) PROVE QuietInv'
<1> USE DEF diskVars, cacheVars, callVars, history
<1>1. PICK s : s = DecodeResult(job[j].identity)
  OBVIOUS
<1>2. /\ s \in Decoded
      /\ s = "Ready" => Decodes(job[j].identity)
      /\ s = "Invalid" => ~Decodes(job[j].identity)
  BY <1>1 DEF DecodeResult, Decoded
<1>3. /\ job[j].status = "decoding" /\ job' = [job EXCEPT ![j].status = s]
      /\ UNCHANGED <<diskVars, cacheVars, pc, callVars>> /\ UNCHANGED quiet
  BY <1>1 DEF Decode
<1>4. /\ Sound' /\ Cached' = Cached
      /\ job'[j] = [job[j] EXCEPT !.status = s] /\ \A k \in Jobs \ {j} : job'[k] = job[k]
      /\ job[j] \in JobRecords
      /\ \A k \in Jobs : job'[k].identity = job[k].identity
      /\ \A d \in Callers : Calling(d)'
  BY <1>2, <1>3, DecodeEndsQuietly
<1>5. job'[j].name = job[j].name /\ job'[j].status = s
  BY <1>4 DEF JobRecords
<1>6. ASSUME NEW d \in Callers, Active(d), NEW k \in Jobs, OfUse(d, k) PROVE OfUse(d, k)'
  <2>1. /\ Current(name[d])' = Current(name[d]) /\ Verdict(d)' = Verdict(d)
        /\ job'[k] = job[k] => OfUse(d, k)'
    BY <1>3, <1>6, SameDisk
  <2>2. CASE k = j
    <3>1. SUFFICES ASSUME job[j].identity = Current(name[d]) PROVE job[j].name = name[d] /\ s = Verdict(d)
      BY <1>3, <1>4, <1>5, <2>1, <2>2 DEF OfUse
    <3>2. job[j].name = name[d] /\ name[d] \in Names /\ Current(name[d]) # NoFile
      BY <1>4, <1>6, <2>2, <3>1, Distinct DEF OfUse, IInv, CallInv, Watched
    <3>3. IdentityOf(Current(name[d]).file) = Current(name[d])
      BY <3>2, CurrentIs DEF IInv
    <3> QED BY <1>1, <3>1, <3>2, <3>3 DEF DecodeResult, Verdict
  <2> QED BY <1>4, <2>1, <2>2
<1>7. ASSUME NEW d \in Callers, Active(d), quiet[d] PROVE Undisturbed(d)'
  <2>1. Undisturbed(d)
    BY <1>7 DEF QuietInv, CallQuiet
  <2>2. /\ Current(name[d])' = Current(name[d]) /\ Told(d)' = Told(d)
        /\ (Present(Main(name[d])))' = Present(Main(name[d]))
    BY <1>3, SameDisk
  <2>3. Alone(d)'
    BY <1>3, <2>1 DEF Undisturbed, Alone, Rivals, Active
  <2>4. Waiting(d)' <=> Waiting(d)
    BY <1>3 DEF Waiting
  <2>5. Waiting(d) => pending[d] \in Jobs
    BY DEF IInv, CallInv, Asked, Waiting
  <2>6. Waiting(d) => Outcome(d).identity' = Current(name[d])'
    BY <1>3, <1>4, <2>1, <2>2, <2>5 DEF Undisturbed, Outcome
  <2>7. Waiting(d) /\ attempt[d] > 1 => OfUse(d, pending[d])'
    <3>1. PICK k : k = pending[d]
      OBVIOUS
    <3>2. Waiting(d) /\ attempt[d] > 1 => OfUse(d, k)'
      BY <1>6, <1>7, <2>1, <2>5, <3>1 DEF Undisturbed
    <3> QED BY <1>3, <3>1, <3>2
  <2>8. ASSUME Waiting(d) \/ attempt[d] > 1, NEW k \in Cached' PROVE (attempt[d] = 1 /\ k = pending[d]) \/ OfUse(d, k)'
    BY <1>4, <1>6, <1>7, <2>1, <2>8, CachedAre DEF Undisturbed
  <2> QED BY <1>3, <2>1, <2>2, <2>3, <2>4, <2>6, <2>7, <2>8 DEF Undisturbed, Finished
<1> QED BY <1>3, <1>4, <1>7 DEF QuietInv, CallQuiet, Active

LEMMA DecodeFailsQuiet == ASSUME IInv, QuietInv, NEW j \in Jobs, DecodeFails(j) PROVE QuietInv'
<1>1. PICK s \in {"Stale", "Threw"} : job' = [job EXCEPT ![j].status = s]
  BY DEF DecodeFails
<1>2. Sound' /\ \A d \in Callers : Calling(d)'
  BY <1>1, DecodeEndsQuietly DEF DecodeFails, Decoded
<1>3. \A d \in Callers : Active(d)' => ~quiet'[d]
  <2>1. quiet' = [c \in Callers |-> quiet[c] /\ ~Active(c)] /\ pc' = pc
    BY DEF DecodeFails
  <2> QED BY <2>1, Zenon DEF Active
<1> QED BY <1>2, <1>3 DEF QuietInv, CallQuiet

(* A call whose name has other files than the one that changes.            *)
LEMMA TouchQuiet ==
    ASSUME IInv, QuietInv, NEW f \in Files, Touch(f), NEW n, disk' = [disk EXCEPT ![f] = n]
    PROVE  QuietInv'
<1> USE DEF cacheVars, callVars
<1>1. TypeOK /\ UNCHANGED <<job, cacheVars, pc, callVars>>
  BY DEF IInv, Touch
<1>2. \A d \in Callers : quiet'[d] => quiet[d] /\ (Active(d) => f \notin FilesOf(name[d]))
  <2>1. quiet' = [d \in Callers |-> quiet[d] /\ (Active(d) => f \notin FilesOf(name[d]))]
    BY DEF Touch
  <2> QED BY <2>1, Zenon
<1>3. \A g : g # f => disk'[g] = disk[g]
  BY <1>1 DEF TypeOK
<1>4. Sound'
  BY <1>1 DEF QuietInv, Sound, Held
<1>5. ASSUME NEW d \in Callers PROVE Calling(d)'
  <2>1. Calling(d)
    BY DEF QuietInv, CallQuiet
  <2> QED BY <1>1, <2>1 DEF Calling, Waiting, Outcome, FilesOf, Main, Legacy
<1>6. ASSUME NEW d \in Callers, Active(d), quiet'[d] PROVE Undisturbed(d)'
  <2>1. Undisturbed(d) /\ f \notin FilesOf(name[d])
    BY <1>2, <1>6 DEF QuietInv, CallQuiet
  <2>2. disk'[Main(name[d])] = disk[Main(name[d])] /\ disk'[Legacy(name[d])] = disk[Legacy(name[d])]
    BY <1>3, <2>1 DEF FilesOf
  <2>3. Current(name[d])' = Current(name[d]) /\ (Present(Main(name[d])))' = Present(Main(name[d]))
    BY <1>1, <2>2 DEF Current, Present, IdentityOf, Main, Legacy
  <2>4. Verdict(d)' = Verdict(d) /\ Told(d)' = Told(d)
    BY <2>3 DEF Verdict, Told, Decodes
  <2>5. \A k : OfUse(d, k) => OfUse(d, k)'
    BY <1>1, <2>3, <2>4 DEF OfUse
  <2>6. Alone(d)' /\ Cached' = Cached
    BY <1>1, <2>1 DEF Undisturbed, Alone, Rivals, Active, Cached, Coming
  <2>7. OfUse(d, pending[d]) => OfUse(d, pending[d])'
    <3>1. PICK k : k = pending[d]
      OBVIOUS
    <3>2. OfUse(d, k) => OfUse(d, k)'
      BY <2>5
    <3> QED BY <1>1, <3>1, <3>2
  <2>8. ASSUME Waiting(d) \/ attempt[d] > 1, NEW k \in Cached' PROVE (attempt[d] = 1 /\ k = pending[d]) \/ OfUse(d, k)'
    BY <2>1, <2>5, <2>6, <2>8 DEF Undisturbed
  <2> QED BY <1>1, <2>1, <2>3, <2>4, <2>6, <2>7, <2>8 DEF Undisturbed, Waiting, Outcome, Finished
<1> QED BY <1>1, <1>4, <1>5, <1>6 DEF QuietInv, CallQuiet, Active

LEMMA StepQuiet == ASSUME IInv, QuietInv, [Next]_vars PROVE QuietInv'
<1>1. ASSUME NEW a \in Asks, Start(a[1], a[2], a[3]) PROVE QuietInv'
  BY <1>1, AsksAreCalls, StartQuiet
<1>2. ASSUME NEW c \in Callers, Caller(c) PROVE QuietInv'
  BY <1>2, ResolveQuiet, EnterQuiet, LaunchQuiet, LaunchThrowsQuiet, PublishQuiet,
     GetQuiet, EvictQuiet, DeliverQuiet, ReleaseQuiet DEF Caller, Request, Consume
<1>3. ASSUME NEW j \in Jobs, Decode(j) \/ DecodeFails(j) PROVE QuietInv'
  BY <1>3, DecodeQuiet, DecodeFailsQuiet
<1>4. ASSUME NEW f \in Volatile, Replace(f) \/ Delete(f) PROVE QuietInv'
  BY <1>4, FilesGiven, TouchQuiet DEF Replace, Delete
<1>5. CASE UNCHANGED vars
  <2> USE <1>5 DEF vars, diskVars, cacheVars, callVars, history
  <2>1. Sound' /\ Cached' = Cached
    BY DEF QuietInv, Sound, Held, Cached, Coming
  <2>2. ASSUME NEW d \in Callers PROVE CallQuiet(d)'
    <3>1. CallQuiet(d)
      BY DEF QuietInv
    <3>2. Alone(d) => Alone(d)'
      BY DEF Alone, Rivals, Active
    <3>3. pc[d] = "publish" => \A e \in Callers \ {d} : pending'[e] # pending[d]
      BY <3>1 DEF CallQuiet, Calling
    <3> QED BY <2>1, <3>1, <3>2, <3>3, CallKept
  <2> QED BY <2>1, <2>2 DEF QuietInv
<1> QED BY <1>1, <1>2, <1>3, <1>4, <1>5 DEF Next

(* A call under which nothing failed and nothing changed says what is on   *)
(* the disk, whatever stale or failed decode it found in the slot: the     *)
(* first attempt takes such a decode out, and none like it comes back      *)
(* during the call (consume_prepared_load, get_prepared_save_with_retry).  *)
THEOREM QuietCalls == Spec => []QuietCallsSucceed
<1>1. Init => QuietInv
  BY InitQuiet
<1>2. IInv /\ QuietInv /\ [Next]_vars => QuietInv'
  BY StepQuiet
<1>3. QuietInv => QuietCallsSucceed
  <2>1. \A c \in Callers : Finished(c) => Active(c)
    BY DEF Finished, Active
  <2> QED BY <2>1 DEF QuietInv, CallQuiet, Undisturbed, QuietCallsSucceed, Told, Verdict
<1> QED BY <1>1, <1>2, <1>3, Inductive, PTL DEF Spec

=============================================================================
