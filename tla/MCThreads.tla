----------------------------- MODULE MCThreads -----------------------------
(* Two servers of one thread or conversation and one of another. *)
EXTENDS Threads

CONSTANTS a, b, o, X, Y

MCHome == [s \in Server |-> IF s = o THEN Y ELSE X]
=============================================================================
