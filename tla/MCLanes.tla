------------------------------ MODULE MCLanes ------------------------------
(* Instances of Lanes.tla small enough to check. *)
EXTENDS Lanes
CONSTANTS a, b, c, x, y

(* a and b derive the lane x, b as a's successor under the same pid; c       *)
(* derives none.                                                             *)
Pair == {a, c}
Three == {a, b, c}
Names == {x, y}
Pids == [s \in Server |-> IF s = c THEN 2 ELSE 1]
Owns == [s \in Server |-> IF s = c THEN NoName ELSE x]
=============================================================================
