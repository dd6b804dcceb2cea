---------------------------- MODULE MCTaskManager ----------------------------
(***************************************************************************)
(* The primary thread adds a parallel loop that splits once and a task     *)
(* that waits for one of its own, and waits for both.                      *)
(***************************************************************************)
EXTENDS TaskManager

MCTasks == {"program", "loop", "left", "right", "outer", "inner"}
MCBody(t) ==
    CASE t = "program" -> << <<"add", "loop">>, <<"add", "outer">>, <<"wait", "loop">>, <<"wait", "outer">> >>
      [] t = "loop" -> << <<"add", "left">>, <<"add", "right">> >>
      [] t = "outer" -> << <<"add", "inner">>, <<"wait", "inner">> >>
      [] OTHER -> << >>
MCParent(t) == IF t \in {"left", "right"} THEN "loop" ELSE "nobody"
=============================================================================
