------------------------- MODULE MCSaveTransaction -------------------------
(* The component sets a slot may hold when the program starts: nothing, an   *)
(* original save without a sidecar, a complete group, or a sidecar that the  *)
(* original game left behind when it deleted the save.                       *)
EXTENDS SaveTransaction

Full       == {Comp}
FirstSaves == {{}, {"scov"}}
Overwrites == {{"scop"}, {"scop", "scoc"}, {"scop", "scov"}, Comp}
AllGroups  == FirstSaves \cup Overwrites
=============================================================================
