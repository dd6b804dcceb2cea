---------------------------- MODULE SaveReports ----------------------------
(* SaveTransaction beside what the player is told: the saves reported as     *)
(* failed, remembered for good while later saves, crashes and recoveries go  *)
(* on with whatever files and markers those saves left behind.               *)
EXTENDS SaveTransaction

VARIABLE failed   \* history: the saves reported as failed

\* A background save whose clean-up ends, or a capture given up.
ReportsFailure == (CleanUp \/ LegacyQuit \/ LegacyDiscard) /\ pc' = "idle"

\* The marker of a first save that the failing job could not remove: recovery
\* finishes such a save if it finds every file of it (finish_new_save_set).
Unfinished == marker.id = job.id /\ ~marker.legacy /\ "scop" \notin marker.prev

ReportsInit == Init /\ failed = {}

ReportsNext ==
    /\ Next
    /\ failed' = IF ReportsFailure /\ ~Unfinished THEN failed \cup {job.id} ELSE failed

ReportsSpec == ReportsInit /\ [][ReportsNext]_<<vars, failed>>
-----------------------------------------------------------------------------
\* FailureIsForGood: a save reported as failed never becomes what the slot shows:
\* not by the report, nor by a recovery, rollback or save after it.  The one
\* exception is Unfinished (execute_save_job, save, finish_new_save_set).
FailureIsForGood == \A g \in failed : Shown["scop"] # g
=============================================================================
