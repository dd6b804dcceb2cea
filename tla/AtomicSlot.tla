----------------------------- MODULE AtomicSlot -----------------------------
(* What one save slot promises its player, with no files in sight: the slot  *)
(* shows one whole save or none, an attempt becomes visible only as a whole  *)
(* and only while it is on record, and nothing else ever changes what the    *)
(* slot shows.  PROJECT_RULES.md section 5 asks exactly this of the          *)
(* asynchronous save group; SaveTransaction implements it.                   *)
CONSTANTS Generations,  \* the saves the slot may ever hold, numbered by age
          None          \* no save, or no attempt on record

VARIABLES slot,     \* the generation a load would see after recovery
          attempt   \* the generation whose transaction is on record

vars == <<slot, attempt>>

TypeOK == /\ slot \in Generations \cup {None}
          /\ attempt \in Generations \cup {None}

Init == slot \in Generations \cup {None} /\ attempt = None

\* A transaction is put on record; the slot still shows what it showed.
Begin(g) == attempt' = g /\ UNCHANGED slot

\* The recorded attempt becomes the visible save in one step.
Commit == attempt # None /\ slot' = attempt /\ UNCHANGED attempt

\* The record is closed; the slot keeps what it shows.
Settle == attempt' = None /\ UNCHANGED slot

Next == (\E g \in Generations : Begin(g)) \/ Commit \/ Settle

Spec == Init /\ [][Next]_vars
=============================================================================
