--------------------------- MODULE MCPreparedLoad ---------------------------
(***************************************************************************)
(* A save asked for by two names that differ in case, with a damaged       *)
(* legacy file beside its main file.  One thread loads it the way the      *)
(* level start does, the other asks about it and loads it by the other     *)
(* name.                                                                   *)
(***************************************************************************)
EXTENDS PreparedLoad

CONSTANTS game, ui
MCAsks == ({game} \X {"begin", "consume"} \X {"quick"})
          \union {<<ui, "valid", "quick">>, <<ui, "consume", "QUICK">>}
MCPathOf(n) == "quick"
MCVolatile == {<<"quick", "scop">>}
MCDamaged == {<<"quick", "sav">>}
=============================================================================
