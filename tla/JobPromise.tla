----------------------------- MODULE JobPromise -----------------------------
(***************************************************************************)
(* What the job store promises whoever asked for a job: an accepted job    *)
(* reaches one outcome, an outcome is never taken back, and the completion *)
(* message that tells it is sent at most once and tells that outcome.      *)
(* Jobs.tla is shown to implement it.                                      *)
(***************************************************************************)
EXTENDS Sequences

CONSTANT Job

VARIABLES
  outcome,   \* outcome[j]: what became of job j
  notices    \* notices[j]: the completion messages the requester was sent

vars == <<outcome, notices>>

Outcomes == {"absent", "open", "cancelled", "lost", "completed", "failed"}

Init ==
  /\ outcome = [j \in Job |-> "absent"]
  /\ notices = [j \in Job |-> <<>>]

Accept(j) ==
  /\ outcome[j] = "absent"
  /\ outcome' = [outcome EXCEPT ![j] = "open"]
  /\ UNCHANGED notices

(* The work is over, its result committed and told together.  A job that    *)
(* was cancelled is told as cancelled.                                      *)
Deliver(j) ==
  /\ outcome[j] \in {"open", "cancelled"}
  /\ notices[j] = <<>>
  /\ \E o \in IF outcome[j] = "open" THEN {"completed", "failed"} ELSE {"cancelled"} :
       /\ outcome' = [outcome EXCEPT ![j] = o]
       /\ notices' = [notices EXCEPT ![j] = <<o>>]

Cancel(j) ==
  /\ outcome[j] = "open"
  /\ outcome' = [outcome EXCEPT ![j] = "cancelled"]
  /\ UNCHANGED notices

(* Its server died with the work: any number of jobs at once. *)
Lose(J) ==
  /\ \A j \in J : outcome[j] = "open"
  /\ outcome' = [j \in Job |-> IF j \in J THEN "lost" ELSE outcome[j]]
  /\ UNCHANGED notices

Next ==
  \/ \E j \in Job : Accept(j) \/ Deliver(j) \/ Cancel(j)
  \/ \E J \in SUBSET Job : Lose(J)

Spec == Init /\ [][Next]_vars
=============================================================================
