----------------------------- MODULE MCDispatch -----------------------------
(* Small instances of Dispatch.tla: one server, two jobs, and as many tool  *)
(* calls at once as a run asks for.                                         *)
EXTENDS Dispatch, TLC

Alike == Permutations(Caller) \cup Permutations(Job)
=============================================================================
