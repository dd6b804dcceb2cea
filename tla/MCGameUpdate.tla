---------------------------- MODULE MCGameUpdate ----------------------------
(***************************************************************************)
(* Three releases of five files: the executable changes in each and the    *)
(* updater in none, the second adds a file, the third drops it and a       *)
(* library that replaced one of the original game, and the uninstaller is  *)
(* written by the maintenance pass.  The second publishes a patch, the     *)
(* third is small enough for a delta.                                      *)
(***************************************************************************)
EXTENDS GameUpdate

MCFiles == {"exe", "updater", "added", "library", "unins"}
MCShips == << [exe |-> 1, updater |-> 1, added |-> 0, library |-> 1, unins |-> 0],
              [exe |-> 2, updater |-> 1, added |-> 2, library |-> 1, unins |-> 0],
              [exe |-> 3, updater |-> 1, added |-> 0, library |-> 0, unins |-> 0] >>
=============================================================================
