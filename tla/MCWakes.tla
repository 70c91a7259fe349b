------------------------------ MODULE MCWakes ------------------------------
EXTENDS Wakes

CONSTANTS m, o

MCName == {m, o}

(* Where each move matters: a name is released and claimed again under a wake *)
(* that forgets mail it no longer owns, grants come and go under one that     *)
(* rechecks them, and a name held before is claimed where its mail was told.  *)
MCMoves ==
  [k \in Kinds |->
     CASE k = "codex" -> {<<m, "held", "none">>, <<m, "none", "held">>}
       [] k = "turns" -> {<<m, "held", "lost">>, <<m, "lost", "held">>}
       [] k = "push" -> {<<o, "before", "held">>}
       [] OTHER -> {}]
=============================================================================
