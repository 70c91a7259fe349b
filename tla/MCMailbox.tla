----------------------------- MODULE MCMailbox -----------------------------
(* Instances of Mailbox.tla small enough to check. *)
EXTENDS Mailbox
CONSTANTS a, b, x
Readers == {a, b}
Lanes == {x}
=============================================================================
