------------------------ MODULE ContentServiceProofs ------------------------
(* Theorems of ContentService for any set of bundles and strays and any bound *)
(* on the damage and the deaths of the process.                               *)
EXTENDS ContentService, TLAPS

\* TypeOK in two parts, as the provers treat Booleans apart from the rest.
BooleansOK ==
  /\ latch \in BOOLEAN /\ stop \in BOOLEAN /\ verifyStarted \in BOOLEAN
  /\ unrepairable \in BOOLEAN /\ latchedOnly \in BOOLEAN /\ ignoreCache \in BOOLEAN
  /\ evidence \in BOOLEAN /\ forced \in BOOLEAN /\ announced \in BOOLEAN

DataOK ==
  /\ database \in [Bundles -> Content]
  /\ staged \in [Bundles -> {"missing", "flipped", "good"}]
  /\ stale \subseteq Bundles \cup Strays /\ vouched \subseteq Bundles
  /\ setup \in Setup /\ state \in State
  /\ initial \subseteq Bundles \cup {"setup"} /\ found \subseteq Bundles
  /\ mounted \subseteq Bundles /\ refused \subseteq Bundles
  /\ main \in MainLabel /\ worker \in WorkerLabel
  /\ jobs \subseteq Bundles /\ ready \subseteq Bundles
  /\ fresh \subseteq Bundles /\ todo \subseteq Bundles
  /\ damage \in 0..MaxDamage /\ kills \in 0..MaxKills

\* Update, with the bundles it revises and those it finds downloaded.
UpdateStep ==
  \E revised \in SUBSET Bundles : \E downloaded \in SUBSET revised : Update(revised, downloaded)

LEMMA Parts == TypeOK <=> BooleansOK /\ DataOK
  BY DEF TypeOK, BooleansOK, DataOK

LEMMA SavedTyped ==
  ASSUME TypeOK, NEW entries \in SUBSET Bundles, SaveCache(entries)
  PROVE  vouched' \subseteq Bundles
  BY DEF TypeOK, SaveCache

LEMMA PassTyped ==
  ASSUME TypeOK, InitialPass
  PROVE  /\ initial' \subseteq Bundles \cup {"setup"} /\ found' \subseteq Bundles
         /\ unrepairable' \in BOOLEAN /\ latch' \in BOOLEAN
         /\ UNCHANGED <<database, staged, stale, vouched, setup>>
         /\ \A was \in BOOLEAN : InitialState(was) \in State
  <1>1. Problems \subseteq Bundles \cup {"setup"}
    BY DEF TypeOK, Problems, WrongSize
  <1>2. latch' \in BOOLEAN
    BY DEF TypeOK, InitialPass, WriteLatch
  <1>3. \A was \in BOOLEAN : InitialState(was) \in State
    BY DEF InitialState, State
  <1> QED BY <1>1, <1>2, <1>3 DEF InitialPass

LEMMA InitTyped == Init => TypeOK
  <1> SUFFICES ASSUME Init PROVE TypeOK OBVIOUS
  <1>1. /\ database \in [Bundles -> Content]
        /\ staged \in [Bundles -> {"missing", "flipped", "good"}]
    BY DEF Init, Content
  <1>2. damage \in 0..MaxDamage /\ kills \in 0..MaxKills
    BY ContentAssumption DEF Init
  <1> QED BY <1>1, <1>2 DEF Init, TypeOK, Setup, State, MainLabel, WorkerLabel

LEMMA BooleansTyped ==
  ASSUME BooleansOK, [Next]_vars
  PROVE  BooleansOK'
  <1> USE DEF BooleansOK, disk, flags, mount, plan, history, bounds
  <1>1. CASE Boot
    BY <1>1 DEF Boot, Blank
  <1>2. CASE Initialize
    BY <1>2 DEF Initialize, InitialPass, WriteLatch
  <1>3. CASE StartVerify
    BY <1>3 DEF StartVerify
  <1>4. CASE ForceVerify \/ StartRepair \/ Shutdown \/ ShutdownJoined
    <2>1. CASE ForceVerify \/ StartRepair
      BY <2>1 DEF ForceVerify, StartRepair
    <2>2. CASE Shutdown \/ ShutdownJoined
      BY <2>2 DEF Shutdown, ShutdownJoined, Blank
    <2> QED BY <1>4, <2>1, <2>2
  <1>5. CASE ForceVerifyJoined
    BY <1>5 DEF ForceVerifyJoined, InitialPass, WriteLatch
  <1>6. CASE StartRepairJoined
    BY <1>6 DEF StartRepairJoined
  <1>7. CASE CancelVerify \/ Hash
    BY <1>7 DEF CancelVerify, Hash
  <1>8. CASE Record
    BY <1>8 DEF Record
  <1>9. CASE Judge
    BY <1>9 DEF Judge, WriteLatch, ClearLatch
  <1>10. CASE PublishVerdict \/ PublishRepair
    BY <1>10 DEF PublishVerdict, PublishRepair
  <1>11. CASE MarkRepair \/ ClearRepair
    <2>1. CASE MarkRepair
      BY <2>1 DEF MarkRepair, WriteLatch
    <2>2. CASE ClearRepair
      BY <2>2 DEF ClearRepair, ClearLatch
    <2> QED BY <1>11, <2>1, <2>2
  <1>12. CASE Check \/ Recheck
    BY <1>12 DEF Check, Recheck
  <1>13. CASE \E b \in Bundles : Fetch(b)
    BY <1>13 DEF Fetch
  <1>14. CASE FetchFails \/ CancelFetch \/ Fetched \/ InstallFails \/ Installed
    BY <1>14 DEF FetchFails, CancelFetch, Fetched, InstallFails, Installed
  <1>15. CASE \E b \in Bundles : Install(b)
    BY <1>15 DEF Install
  <1>16. CASE Demote
    BY <1>16 DEF Demote
  <1>17. CASE Note
    BY <1>17 DEF Note
  <1>18. CASE Confirm
    BY <1>18 DEF Confirm
  <1>19. CASE Kill
    BY <1>19 DEF Kill, Blank
  <1>20. CASE \E b \in Bundles, q \in Content : Damage(b, q)
    BY <1>20 DEF Damage
  <1>21. CASE UpdateStep
    BY <1>21 DEF UpdateStep, Update, Blank
  <1>22. CASE Disturb
    BY <1>22 DEF Disturb
  <1>23. CASE \E b \in Bundles : Rot(b)
    BY <1>23 DEF Rot
  <1>24. CASE Announce
    BY <1>24 DEF Announce, WriteLatch
  <1>25. CASE UNCHANGED vars
    BY <1>25 DEF vars
  <1>26. CASE Assess
    BY <1>26 DEF Assess, ClearLatch
  <1>27. CASE UpdaterDone
    BY <1>27 DEF UpdaterDone, Blank
  <1> QED BY <1>1, <1>2, <1>3, <1>4, <1>5, <1>6, <1>7, <1>8, <1>9, <1>10, <1>11, <1>12, <1>13,
             <1>14, <1>15, <1>16, <1>17, <1>18, <1>19, <1>20, <1>21, <1>22, <1>23, <1>24, <1>25,
             <1>26, <1>27
          DEF Next, Joined, Player, Verifier, Repairer, Updater, UpdateStep, Network, Environment

LEMMA DataTyped ==
  ASSUME TypeOK, [Next]_vars
  PROVE  DataOK'
  <1> USE Parts DEF DataOK, disk, flags, mount, plan, history, bounds, MainLabel, WorkerLabel
  <1>1. CASE Boot
    BY <1>1 DEF Boot, Blank, State
  <1>2. CASE Initialize
    <2>1. StateWhileVerifying(InitialState(latch), Problems = {} /\ latch) \in State
      BY <1>2, PassTyped DEF Initialize, StateWhileVerifying, State, BooleansOK
    <2>2. state' \in State
      BY <1>2, <2>1, PassTyped DEF Initialize, BooleansOK
    <2>3. worker' \in WorkerLabel
      BY <1>2 DEF Initialize
    <2> QED BY <1>2, <2>2, <2>3, PassTyped DEF Initialize
  <1>3. CASE StartVerify
    BY <1>3 DEF StartVerify, StateWhileVerifying, State
  <1>4. CASE ForceVerify \/ StartRepair \/ Shutdown \/ ShutdownJoined
    BY <1>4 DEF ForceVerify, StartRepair, Shutdown, ShutdownJoined, Blank, Unmounted, State
  <1>5. CASE ForceVerifyJoined
    <2>1. state' \in State
      BY <1>5, PassTyped DEF ForceVerifyJoined, BooleansOK
    <2>2. worker' \in WorkerLabel
      BY <1>5 DEF ForceVerifyJoined
    <2> QED BY <1>5, <2>1, <2>2, PassTyped DEF ForceVerifyJoined
  <1>6. CASE StartRepairJoined
    BY <1>6 DEF StartRepairJoined, State
  <1>7. CASE CancelVerify \/ Hash
    BY <1>7 DEF CancelVerify, Hash, Faulty, State
  <1>8. CASE Record
    BY <1>8, SavedTyped DEF Record
  <1>9. CASE Judge
    BY <1>9 DEF Judge
  <1>10. CASE PublishVerdict \/ PublishRepair
    BY <1>10 DEF PublishVerdict, PublishRepair, Publish, State
  <1>11. CASE MarkRepair \/ ClearRepair
    BY <1>11 DEF MarkRepair, ClearRepair
  <1>12. CASE Check \/ Recheck
    BY <1>12 DEF Check, Recheck, EndRepair, Publish, Faulty, Cached, State
  <1>13. CASE \E b \in Bundles : Fetch(b)
    BY <1>13 DEF Fetch
  <1>14. CASE FetchFails \/ CancelFetch \/ Fetched \/ InstallFails \/ Installed
    BY <1>14 DEF FetchFails, CancelFetch, Fetched, InstallFails, Installed, EndRepair, Publish,
                 State
  <1>15. CASE \E b \in Bundles : Install(b)
    BY <1>15 DEF Install, Content
  <1>16. CASE Demote
    BY <1>16 DEF Demote
  <1>17. CASE Note
    BY <1>17, SavedTyped DEF Note
  <1>18. CASE Confirm
    BY <1>18 DEF Confirm, EndRepair, Publish, State
  <1>19. CASE Kill
    BY <1>19, SavedTyped, ContentAssumption DEF Kill, Blank, Unmounted, State
  <1>20. CASE \E b \in Bundles, q \in Content : Damage(b, q)
    BY <1>20, ContentAssumption DEF Damage
  <1>21. CASE UpdateStep
    BY <1>21, ContentAssumption DEF UpdateStep, Update, Blank, Unmounted, Content, Setup, State
  <1>22. CASE Disturb
    BY <1>22, ContentAssumption DEF Disturb
  <1>23. CASE \E b \in Bundles : Rot(b)
    BY <1>23, ContentAssumption DEF Rot
  <1>24. CASE Announce
    BY <1>24, ContentAssumption DEF Announce
  <1>25. CASE UNCHANGED vars
    BY <1>25 DEF vars
  <1>26. CASE Assess
    BY <1>26 DEF Assess, WrongSize, Cached
  <1>27. CASE UpdaterDone
    BY <1>27 DEF UpdaterDone, Blank, Unmounted, State
  <1> QED BY <1>1, <1>2, <1>3, <1>4, <1>5, <1>6, <1>7, <1>8, <1>9, <1>10, <1>11, <1>12, <1>13,
             <1>14, <1>15, <1>16, <1>17, <1>18, <1>19, <1>20, <1>21, <1>22, <1>23, <1>24, <1>25,
             <1>26, <1>27
          DEF Next, Joined, Player, Verifier, Repairer, Updater, UpdateStep, Network, Environment

LEMMA StepTyped == TypeOK /\ [Next]_vars => TypeOK'
  <1> SUFFICES ASSUME TypeOK, [Next]_vars PROVE TypeOK' OBVIOUS
  <1>1. BooleansOK' /\ DataOK'
    BY Parts, BooleansTyped, DataTyped
  <1> QED BY <1>1 DEF TypeOK, BooleansOK, DataOK

\* TypeCorrect: every variable stays in its range; the plan and the advisory
\* cache never name anything but declared bundles.
THEOREM TypeCorrect == Spec => []TypeOK
  BY InitTyped, StepTyped, PTL DEF Spec

----------------------------------------------------------------------------
(* What the worker knows *)

\* VouchedIsGood and VerdictIsTrue depend on what the worker has read so far:
\* a plan that was made, an install that was done, a verdict not yet published.
Knowledge ==
  /\ main = "off" => worker = "none"
  /\ worker = "assess" => main = "updater"
  /\ worker \in {"record", "judge"} => \A b \in Bundles \ jobs : database[b] = "good"
  /\ worker \in {"install", "demote"} =>
       \A b \in Bundles : /\ b \notin jobs => RightSize(b)
                          /\ b \in ready \ todo => database[b] = "good"
  /\ worker = "demote" => todo = {}
  /\ worker \in {"install", "demote", "note"} => \A b \in fresh : database[b] = "good"
  /\ worker \in {"complete", "clear", "repaired"} => Whole
  /\ VouchedIsGood
  /\ VerdictIsTrue

\* A bundle that a resolve does not list is good, whether it was hashed or
\* vouched for.
LEMMA NotFaulty ==
  ASSUME VouchedIsGood, NEW trust, NEW b \in Bundles \ Faulty(trust)
  PROVE  database[b] = "good"
  BY DEF VouchedIsGood, Faulty

LEMMA SavedGood ==
  ASSUME VouchedIsGood, NEW entries, SaveCache(entries), UNCHANGED database,
         \A b \in entries : database[b] = "good"
  PROVE  VouchedIsGood'
  BY DEF VouchedIsGood, SaveCache

LEMMA InitKnowledge == Init => Knowledge
  BY DEF Init, Knowledge, VouchedIsGood, VerdictIsTrue, Whole

LEMMA StepKnowledge ==
  ASSUME TypeOK, Knowledge, [Next]_vars
  PROVE  Knowledge'
  <1> USE DEF Running, RightSize, Knowledge, VouchedIsGood, VerdictIsTrue, Whole, disk, flags, mount,
             plan, history, bounds
  <1>1. CASE Boot
    BY <1>1 DEF Boot, Blank
  <1>2. CASE Initialize
    BY <1>2 DEF Initialize, InitialPass, InitialState, MayVerify
  <1>3. CASE StartVerify
    BY <1>3 DEF StartVerify
  <1>4. CASE ForceVerify \/ StartRepair \/ Shutdown \/ ShutdownJoined
    BY <1>4 DEF ForceVerify, StartRepair, Shutdown, ShutdownJoined, Blank
  <1>5. CASE ForceVerifyJoined
    BY <1>5 DEF ForceVerifyJoined, InitialPass
  <1>6. CASE StartRepairJoined
    BY <1>6 DEF StartRepairJoined
  <1>7. CASE CancelVerify
    BY <1>7 DEF CancelVerify
  <1>8. CASE Hash
    BY <1>8, NotFaulty DEF Hash
  <1>9. CASE Record
    BY <1>9, SavedGood DEF Record
  <1>10. CASE Judge
    BY <1>10 DEF Judge
  <1>11. CASE PublishVerdict \/ PublishRepair
    BY <1>11 DEF PublishVerdict, PublishRepair, Publish
  <1>12. CASE MarkRepair \/ ClearRepair
    BY <1>12 DEF MarkRepair, ClearRepair
  <1>13. CASE Check
    BY <1>13 DEF Check, EndRepair, Publish
  <1>14. CASE Recheck
    BY <1>14, NotFaulty DEF Recheck, Faulty, EndRepair, Publish
  <1>15. CASE \E b \in Bundles : Fetch(b)
    BY <1>15 DEF Fetch
  <1>16. CASE FetchFails \/ CancelFetch \/ Fetched \/ InstallFails \/ Installed
    BY <1>16 DEF FetchFails, CancelFetch, Fetched, InstallFails, Installed, EndRepair, Publish
  <1>17. CASE \E b \in Bundles : Install(b)
    BY <1>17 DEF Install, SourceVerified, TypeOK
  <1>18. CASE Demote
    BY <1>18 DEF Demote
  <1>19. CASE Note
    BY <1>19, SavedGood DEF Note
  <1>20. CASE Confirm
    BY <1>20, NotFaulty DEF Confirm, EndRepair, Publish, StillFaulty
  <1>21. CASE Kill
    BY <1>21, SavedGood DEF Kill, Blank
  <1>22. CASE \E b \in Bundles, q \in Content : Damage(b, q)
    BY <1>22 DEF Damage, TypeOK
  <1>23. CASE UpdateStep
    BY <1>23 DEF UpdateStep, Update, Blank, TypeOK
  <1>24. CASE Disturb \/ Announce \/ \E b \in Bundles : Rot(b)
    BY <1>24 DEF Disturb, Announce, Rot
  <1>25. CASE UNCHANGED vars
    BY <1>25 DEF vars
  <1>26. CASE Assess
    BY <1>26 DEF Assess, WrongSize
  <1>27. CASE UpdaterDone
    BY <1>27 DEF UpdaterDone, Blank
  <1> QED BY <1>1, <1>2, <1>3, <1>4, <1>5, <1>6, <1>7, <1>8, <1>9, <1>10, <1>11, <1>12, <1>13,
             <1>14, <1>15, <1>16, <1>17, <1>18, <1>19, <1>20, <1>21, <1>22, <1>23, <1>24, <1>25,
             <1>26, <1>27
          DEF Next, Joined, Player, Verifier, Repairer, Updater, UpdateStep, Network, Environment

LEMMA AlwaysKnowledge == Spec => [](TypeOK /\ Knowledge)
  BY InitTyped, StepTyped, InitKnowledge, StepKnowledge, PTL DEF Spec

\* CacheNeverLies: content-state.txt never saves a bad bundle from being read.
THEOREM CacheNeverLies == Spec => []VouchedIsGood
  BY AlwaysKnowledge, PTL DEF Knowledge

\* VerdictsAreTrue: Complete and Repaired are only said of installations whose
\* every byte is right.
THEOREM VerdictsAreTrue == Spec => []VerdictIsTrue
  BY AlwaysKnowledge, PTL DEF Knowledge

\* ClearedOnEvidence: only a verification that found every byte right, or a
\* commit, of a repair or of an update, that looked again and did, removes the
\* latch; and the updater that has nothing to commit by size, which did not look.
THEOREM ClearedOnEvidence == Spec => LatchClearedOnEvidence
  <1>1. ASSUME TypeOK, Knowledge, [Next]_vars, latch, ~latch'
        PROVE  Whole \/ (worker = "assess" /\ NothingToCommit)
    <2> USE <1>1 DEF disk
    <2>1. CASE Judge
      BY <2>1 DEF Judge, WriteLatch, Knowledge, Whole
    <2>2. CASE ClearRepair
      BY <2>2 DEF ClearRepair, Knowledge
    <2>3. CASE Initialize \/ ForceVerifyJoined \/ MarkRepair \/ Announce
      BY <2>3 DEF Initialize, ForceVerifyJoined, InitialPass, MarkRepair, Announce, WriteLatch
    <2>4. CASE UNCHANGED vars
      BY <2>4 DEF vars
    <2>5. CASE Player \/ StartRepairJoined \/ ShutdownJoined
      BY <2>5 DEF Player, Boot, StartVerify, ForceVerify, StartRepair, Shutdown,
                  StartRepairJoined, ShutdownJoined
    <2>6. CASE CancelVerify \/ Hash \/ Record \/ PublishVerdict
      BY <2>6 DEF CancelVerify, Hash, Record, PublishVerdict
    <2>7. CASE Check \/ CancelFetch \/ Fetched \/ Recheck \/ \E b \in Bundles : Install(b)
      BY <2>7 DEF Check, CancelFetch, Fetched, Recheck, Install
    <2>8. CASE InstallFails \/ Installed \/ Demote \/ Note \/ Confirm \/ PublishRepair
      BY <2>8 DEF InstallFails, Installed, Demote, Note, Confirm, PublishRepair
    <2>9. CASE Network
      BY <2>9 DEF Network, FetchFails, Fetch
    <2>10. CASE Environment
      BY <2>3, <2>10 DEF Environment, Kill, Disturb, Rot, Damage
    <2>11. CASE Assess
      BY <2>11 DEF Assess
    <2>12. CASE UpdaterDone \/ UpdateStep
      BY <2>12 DEF UpdaterDone, UpdateStep, Update
    <2> QED BY <2>1, <2>2, <2>3, <2>4, <2>5, <2>6, <2>7, <2>8, <2>9, <2>10, <2>11, <2>12
            DEF Next, Joined, Verifier, Repairer, Updater, UpdateStep
  <1>2. TypeOK /\ Knowledge /\ [Next]_vars =>
          [latch /\ ~latch' => Whole \/ (worker = "assess" /\ NothingToCommit)]_vars
    BY <1>1
  <1> QED BY <1>2, AlwaysKnowledge, PTL DEF Spec, LatchClearedOnEvidence

\* InstalledIsGood: while the game or the updater runs, a bundle's name changes
\* only to hold the bundle.  Names that were removed or damaged are the world's doing.
THEOREM InstalledIsGood == Spec => EntersByRename
  <1>1. ASSUME TypeOK, Knowledge, [Next]_vars, NEW c \in Bundles,
               main # "off", database'[c] # database[c]
        PROVE  database'[c] = "good"
    <2> USE <1>1 DEF disk
    <2>1. CASE \E b \in Bundles : Install(b)
      BY <2>1 DEF Install, SourceVerified, TypeOK
    <2>2. CASE UNCHANGED vars
      BY <2>2 DEF vars
    <2>3. CASE Initialize \/ Joined \/ Player
      BY <2>3 DEF Initialize, Joined, InitialPass, Player, Boot, StartVerify, ForceVerify,
                  StartRepair, Shutdown, ForceVerifyJoined, StartRepairJoined, ShutdownJoined
    <2>4. CASE Verifier
      BY <2>4 DEF Verifier, CancelVerify, Hash, Record, Judge, PublishVerdict
    <2>5. CASE MarkRepair \/ Check \/ CancelFetch \/ Fetched \/ Recheck
      BY <2>5 DEF MarkRepair, Check, CancelFetch, Fetched, Recheck
    <2>6. CASE InstallFails \/ Installed \/ Demote \/ Note \/ Confirm
      BY <2>6 DEF InstallFails, Installed, Demote, Note, Confirm
    <2>7. CASE ClearRepair \/ PublishRepair \/ Network
      BY <2>7 DEF ClearRepair, PublishRepair, Network, FetchFails, Fetch
    <2>8. CASE Environment
      BY <2>8 DEF Environment, Kill, Disturb, Announce, Rot, Damage
    <2>9. CASE Assess \/ UpdaterDone \/ UpdateStep
      BY <2>9 DEF Assess, UpdaterDone, UpdateStep, Update
    <2> QED BY <2>1, <2>2, <2>3, <2>4, <2>5, <2>6, <2>7, <2>8, <2>9
            DEF Next, Repairer, Updater, UpdateStep
  <1>2. TypeOK /\ Knowledge /\ [Next]_vars =>
          [\A b \in Bundles : main # "off" /\ database'[b] # database[b]
                                => database'[b] = "good"]_vars
    BY <1>1
  <1> QED BY <1>2, AlwaysKnowledge, PTL DEF Spec, EntersByRename

\* RevisionsOverlap: an old revision leaves only when the declared one is there.
THEOREM RevisionsOverlap == Spec => AddBeforeDelete
  <1>1. ASSUME TypeOK, Knowledge, [Next]_vars, NEW c \in Bundles, c \in stale, c \notin stale'
        PROVE  database[c] # "missing"
    <2> USE <1>1 DEF disk
    <2>1. CASE Demote
      BY <2>1 DEF Demote, Pending, Knowledge, RightSize
    <2>2. CASE UNCHANGED vars
      BY <2>2 DEF vars
    <2>3. CASE Initialize \/ Joined \/ Player
      BY <2>3 DEF Initialize, Joined, InitialPass, Player, Boot, StartVerify, ForceVerify,
                  StartRepair, Shutdown, ForceVerifyJoined, StartRepairJoined, ShutdownJoined
    <2>4. CASE Verifier
      BY <2>4 DEF Verifier, CancelVerify, Hash, Record, Judge, PublishVerdict
    <2>5. CASE MarkRepair \/ Check \/ CancelFetch \/ Fetched \/ Recheck
      BY <2>5 DEF MarkRepair, Check, CancelFetch, Fetched, Recheck
    <2>6. CASE (\E b \in Bundles : Install(b)) \/ InstallFails \/ Installed \/ Note \/ Confirm
      BY <2>6 DEF Install, InstallFails, Installed, Note, Confirm
    <2>7. CASE ClearRepair \/ PublishRepair \/ Network
      BY <2>7 DEF ClearRepair, PublishRepair, Network, FetchFails, Fetch
    <2>8. CASE Environment
      BY <2>8 DEF Environment, Kill, Disturb, Announce, Rot, Damage
    <2>9. CASE Assess \/ UpdaterDone \/ UpdateStep
      BY <2>9 DEF Assess, UpdaterDone, UpdateStep, Update
    <2> QED BY <2>1, <2>2, <2>3, <2>4, <2>5, <2>6, <2>7, <2>8, <2>9
            DEF Next, Repairer, Updater, UpdateStep
  <1>2. TypeOK /\ Knowledge /\ [Next]_vars =>
          [\A b \in Bundles : b \in stale /\ b \notin stale' => database[b] # "missing"]_vars
    BY <1>1
  <1> QED BY <1>2, AlwaysKnowledge, PTL DEF Spec, AddBeforeDelete

----------------------------------------------------------------------------
(* Sessions *)

\* The published state against the step the worker is at: somebody is at work
\* exactly while it says so, and an end that is Complete had its evidence.
Verifiers == {"hash", "record", "judge", "complete", "incomplete"}
Progress == Running =>
  /\ worker = "none" => state \notin {"Verifying", "Repairing"}
  /\ worker \notin Verifiers \cup {"none"} => state = "Repairing"
  /\ state = "Unknown" => worker = "none" /\ ~verifyStarted /\ main \in {"idle", "quit"}
  /\ worker \notin {"hash", "record", "judge"} => ~Checking
  /\ worker = "complete" => evidence
  /\ LatchBlocksPlay

LEMMA InitProgress == Init => Progress
  BY DEF Init, Progress, Running

LEMMA StepProgress ==
  ASSUME TypeOK, Knowledge, Progress, [Next]_vars
  PROVE  Progress'
  <1> USE DEF Running, Progress, Verifiers, Checking, LatchBlocksPlay, Playable, disk, flags, mount,
             plan, history, bounds
  <1>1. CASE Boot
    BY <1>1 DEF Boot, Blank
  <1>2. CASE Initialize
    BY <1>2 DEF Initialize, InitialPass, InitialState, MayVerify, StateWhileVerifying
  <1>3. CASE StartVerify
    BY <1>3 DEF StartVerify, MayVerify, StateWhileVerifying
  <1>4. CASE ForceVerify \/ StartRepair \/ Shutdown \/ ShutdownJoined
    BY <1>4 DEF ForceVerify, StartRepair, Shutdown, ShutdownJoined, Blank
  <1>5. CASE ForceVerifyJoined
    BY <1>5 DEF ForceVerifyJoined, InitialPass, InitialState, Problems
  <1>6. CASE StartRepairJoined
    BY <1>6 DEF StartRepairJoined
  <1>7. CASE CancelVerify \/ Hash \/ Record
    BY <1>7 DEF CancelVerify, Hash, Record
  <1>8. CASE Judge
    BY <1>8 DEF Judge, WriteLatch, ClearLatch
  <1>9. CASE PublishVerdict \/ PublishRepair
    BY <1>9 DEF PublishVerdict, PublishRepair, Publish
  <1>10. CASE MarkRepair \/ ClearRepair
    BY <1>10 DEF MarkRepair, ClearRepair, ClearLatch
  <1>11. CASE Check \/ Recheck
    BY <1>11 DEF Check, Recheck, EndRepair, Publish
  <1>12. CASE \E b \in Bundles : Fetch(b) \/ Install(b)
    BY <1>12 DEF Fetch, Install
  <1>13. CASE FetchFails \/ CancelFetch \/ Fetched \/ InstallFails \/ Installed
    BY <1>13 DEF FetchFails, CancelFetch, Fetched, InstallFails, Installed, EndRepair, Publish
  <1>14. CASE Demote \/ Note \/ Confirm
    BY <1>14 DEF Demote, Note, Confirm, EndRepair, Publish
  <1>15. CASE Kill
    BY <1>15 DEF Kill, Blank
  <1>16. CASE Environment /\ ~Kill
    BY <1>16 DEF Environment, Disturb, Announce, Rot, Damage
  <1>17. CASE UNCHANGED vars
    BY <1>17 DEF vars
  <1>18. CASE Assess
    BY <1>18 DEF Assess, Knowledge
  <1>19. CASE UpdaterDone \/ UpdateStep
    BY <1>19 DEF UpdaterDone, UpdateStep, Update, Blank
  <1> QED BY <1>1, <1>2, <1>3, <1>4, <1>5, <1>6, <1>7, <1>8, <1>9, <1>10, <1>11, <1>12, <1>13,
             <1>14, <1>15, <1>16, <1>17, <1>18, <1>19
          DEF Next, Joined, Player, Verifier, Repairer, Updater, UpdateStep, Network, Environment

\* What the mount gate decided is still true of the files until the service has
\* looked at them; after that the flags speak for what it found.
Session == Running =>
  /\ state = "Unknown" /\ setup = "usable" =>
       \A b \in Bundles : RightSize(b) => b \in mounted \cup refused
  /\ state = "Unknown" => ~latchedOnly
  /\ state # "Unknown" /\ initial = {} /\ ~forced => Bundles \subseteq mounted
  /\ ~forced /\ (state \in {"Complete", "Verifying"} \/ latchedOnly \/ worker = "complete")
       => initial = {}

LEMMA InitSession == Init => Session
  BY DEF Init, Session, Running

LEMMA StepSession ==
  ASSUME TypeOK, Knowledge, Progress, Session, [Next]_vars
  PROVE  Session'
  <1> USE DEF Running, Session, Progress, RightSize, disk, flags, mount, plan, history, bounds
  <1>1. CASE Boot
    BY <1>1 DEF Boot, Blank
  <1>2. CASE Initialize
    BY <1>2 DEF Initialize, InitialPass, InitialState, MayVerify, StateWhileVerifying,
              Problems, WrongSize
  <1>3. CASE StartVerify
    BY <1>3 DEF StartVerify, MayVerify, StateWhileVerifying
  <1>4. CASE ForceVerify \/ StartRepair \/ Shutdown \/ ShutdownJoined
    BY <1>4 DEF ForceVerify, StartRepair, Shutdown, ShutdownJoined, Blank
  <1>5. CASE ForceVerifyJoined
    BY <1>5 DEF ForceVerifyJoined, InitialPass, InitialState
  <1>6. CASE StartRepairJoined
    BY <1>6 DEF StartRepairJoined
  <1>7. CASE CancelVerify \/ Hash \/ Record
    BY <1>7 DEF CancelVerify, Hash, Record
  <1>8. CASE Judge
    BY <1>8 DEF Judge, WriteLatch, ClearLatch
  <1>9. CASE PublishVerdict \/ PublishRepair
    BY <1>9 DEF PublishVerdict, PublishRepair, Publish
  <1>10. CASE MarkRepair \/ ClearRepair
    BY <1>10 DEF MarkRepair, ClearRepair, ClearLatch
  <1>11. CASE Check \/ Recheck
    BY <1>11 DEF Check, Recheck, EndRepair, Publish
  <1>12. CASE \E b \in Bundles : Fetch(b) \/ Install(b)
    BY <1>12 DEF Fetch, Install, TypeOK
  <1>13. CASE FetchFails \/ CancelFetch \/ Fetched \/ InstallFails \/ Installed
    BY <1>13 DEF FetchFails, CancelFetch, Fetched, InstallFails, Installed, EndRepair, Publish
  <1>14. CASE Demote \/ Note \/ Confirm
    BY <1>14 DEF Demote, Note, Confirm, EndRepair, Publish
  <1>15. CASE Kill
    BY <1>15 DEF Kill, Blank
  <1>16. CASE Environment /\ ~Kill
    BY <1>16 DEF Environment, Disturb, Announce, Rot, Damage, TypeOK
  <1>17. CASE UNCHANGED vars
    BY <1>17 DEF vars
  <1>18. CASE Assess
    BY <1>18 DEF Assess
  <1>19. CASE UpdaterDone \/ UpdateStep
    BY <1>19 DEF UpdaterDone, UpdateStep, Update, Blank
  <1> QED BY <1>1, <1>2, <1>3, <1>4, <1>5, <1>6, <1>7, <1>8, <1>9, <1>10, <1>11, <1>12, <1>13,
             <1>14, <1>15, <1>16, <1>17, <1>18, <1>19
          DEF Next, Joined, Player, Verifier, Repairer, Updater, UpdateStep, Network, Environment

LEMMA AlwaysSession == Spec => [](TypeOK /\ Knowledge /\ Progress /\ Session)
  BY InitTyped, StepTyped, InitKnowledge, StepKnowledge, InitProgress, StepProgress,
     InitSession, StepSession, PTL DEF Spec

\* OnlyMountedPlayed: without a forced verification, no level starts in a
\* session that did not mount every declared bundle.
THEOREM OnlyMountedPlayed == Spec => []PlayNeedsMounted
  <1>1. Progress /\ Session => PlayNeedsMounted
    BY DEF Progress, Session, PlayNeedsMounted, Playable, Running
  <1> QED BY <1>1, AlwaysSession, PTL

\* LatchHolds: a latched installation is not played before this session saw
\* every byte of it, whatever crashed in the sessions before.
THEOREM LatchHolds == Spec => []LatchBlocksPlay
  <1>1. Progress => LatchBlocksPlay
    BY DEF Progress, LatchBlocksPlay, Playable, Running
  <1> QED BY <1>1, AlwaysSession, PTL

\* NobodyLeftWaiting: a service without a worker does not claim to be at work.
THEOREM NobodyLeftWaiting == Spec => []IdleIsSettled
  <1>1. Progress => IdleIsSettled
    BY DEF Progress, IdleIsSettled, Checking, Running
  <1> QED BY <1>1, AlwaysSession, PTL

=============================================================================
