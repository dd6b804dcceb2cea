----------------------------- MODULE SaveQueue -----------------------------
(* What saving in the background promises about one slot: snapshots of the   *)
(* world reach the disk in the order they were taken, some of them never,    *)
(* and the slot changes at no other time.  A newer snapshot is therefore     *)
(* never overwritten by an older one.  SavePipeline implements it.           *)
EXTENDS SequencesExt, Naturals

CONSTANT Saves       \* the saves that may ever be asked for

VARIABLES waiting,   \* snapshots taken and not committed, oldest first
          shown      \* the snapshot the slot shows; 0 is the save it began with

vars == <<waiting, shown>>

Init == waiting = <<>> /\ shown = 0

\* The state of the world is taken, for a save that has none yet.
Capture(s) == /\ \A i \in DOMAIN waiting : waiting[i] # s
              /\ waiting' = Append(waiting, s)
              /\ UNCHANGED shown

Commit == waiting # <<>> /\ shown' = Head(waiting) /\ waiting' = Tail(waiting)

Abandon(i) == waiting' = RemoveAt(waiting, i) /\ UNCHANGED shown

Next == \/ \E s \in Saves : Capture(s)
        \/ Commit
        \/ \E i \in DOMAIN waiting : Abandon(i)

Spec == Init /\ [][Next]_vars
=============================================================================
