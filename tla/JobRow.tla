------------------------------- MODULE JobRow -------------------------------
(***************************************************************************)
(* One row of the `jobs` table, and what each conditional UPDATE of        *)
(* jobs.py matches and writes.  Every process of the system reaches a job  *)
(* only through these, so the modules that compose processes share them.   *)
(*                                                                         *)
(* A row keeps the columns the transitions read or write: the state, the   *)
(* owning process instance (owner_pid with owner_key, so a reused pid is   *)
(* another owner), whether started_at is set, the recorded child (0 is     *)
(* NULL) and whether its creation key was readable, and the result.        *)
(***************************************************************************)
EXTENDS Naturals

CONSTANTS
  Server,      \* server process instances: a (pid, creation key) pair each
  Nobody       \* the owner of a row that does not exist

ASSUME NobodyAssumption == Nobody \notin Server

ActiveStates == {"queued", "running"}
TerminalStates == {"completed", "failed", "cancelled", "lost"}

(* "none" is a NULL result column; "ok" and "bad" stand for the reply's own *)
(* `ok` flag, all the transitions read of it.                               *)
Results == {"none", "ok", "bad"}

Rows ==
  [state   : {"absent"} \cup ActiveStates \cup TerminalStates,
   owner   : Server \cup {Nobody},
   started : BOOLEAN,
   child   : Nat,
   keyed   : BOOLEAN,
   result  : Results]

NoRow ==
  [state |-> "absent", owner |-> Nobody, started |-> FALSE,
   child |-> 0, keyed |-> FALSE, result |-> "none"]

----------------------------------------------------------------------------
(* Mutants: each is a transition below with a slip a change could make.    *)

FinishRepeatable(r, s) == r.owner = s /\ r.state \in {"running", "lost", "cancelled"}
FinishOverCancel(r, ok) ==
  [r EXCEPT !.state = IF ok THEN "completed" ELSE "failed",
            !.result = IF ok THEN "ok" ELSE "bad", !.child = 0, !.keyed = FALSE]
RecordOnAnyRow(r, s) == r.owner = s
CancelUnfinished(r) == r.result = "none" /\ r.state # "absent"

----------------------------------------------------------------------------

(* create: INSERT as queued, owned by the creating process. *)
Created(s) == [NoRow EXCEPT !.state = "queued", !.owner = s]

(* mark_running: the queued -> running claim, by the owner alone. *)
CanMarkRunning(r, s) == r.state = "queued" /\ r.owner = s
MarkedRunning(r) == [r EXCEPT !.state = "running", !.started = TRUE]

(* set_child_pid: only onto a job still running. *)
CanSetChild(r, s) == r.state = "running" /\ r.owner = s
ChildSet(r, c, k) == [r EXCEPT !.child = c, !.keyed = k]

(* finish: a row still owed a result.  A cancelled row keeps its state and  *)
(* takes the result; a `lost` one is taken back by the owner it named.      *)
CanFinish(r, s) ==
  /\ r.owner = s
  /\ \/ r.state \in {"running", "lost"}
     \/ r.state = "cancelled" /\ r.result = "none"
Finished(r, ok) ==
  [r EXCEPT !.state  = IF @ = "cancelled" THEN @ ELSE IF ok THEN "completed" ELSE "failed",
            !.result = IF ok THEN "ok" ELSE "bad",
            !.child  = 0,
            !.keyed  = FALSE]

(* request_cancel's claim, by any process. *)
CanCancel(r) == r.state \in ActiveStates
Cancelled(r) == [r EXCEPT !.state = "cancelled"]

(* _resolve_lost and _sweep_lost: an active row whose owner was found dead. *)
CanLose(r, dead) == r.state \in ActiveStates /\ r.owner \in dead
Lost(r) == [r EXCEPT !.state = "lost"]
=============================================================================
