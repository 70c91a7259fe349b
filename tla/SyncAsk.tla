------------------------------ MODULE SyncAsk ------------------------------
(* A synchronous ask (server._sync_agent): a worker thread that runs the     *)
(* agent's commands one after another, for Claude behind a lock its launches *)
(* share, and a caller on the event loop who may cancel meanwhile.  The      *)
(* worker is then abandoned, and each child it has recorded is killed.       *)
EXTENDS RunCmd

CONSTANTS MaxChildren   \* bound: commands one ask runs
ASSUME ChildrenAssumption == MaxChildren \in Nat \ {0}

VARIABLES
  caller,     \* the tool call on the event loop
  ask,        \* where the worker thread is, outside _run_cmd
  lock,       \* who holds _CLAUDE_DISPATCH_LOCK
  cancelled,  \* the event the worker looks at
  n,          \* commands spawned so far
  listed,     \* the last one is in the list a cancel reads
  doomed,     \* and in the copy of it that a cancel is working through
  excused     \* it could not be listed, or has been signalled

askVars == <<caller, ask, lock, cancelled, n, listed, doomed, excused>>
vars == <<runVars, askVars>>

Init ==
  /\ NoRun
  /\ caller = "none" /\ ask = "none"
  /\ lock = "nobody"
  /\ cancelled = FALSE
  /\ n = 0 /\ listed = FALSE /\ doomed = FALSE /\ excused = FALSE

----------------------------------------------------------------------------
(* The worker. *)

Begin ==
  /\ caller = "none"
  /\ caller' = "waiting"
  /\ \/ ask' = "go" /\ UNCHANGED lock
     \/ ask' = "queue" /\ lock' \in {"nobody", "other"}   \* another launch has it, or none
  /\ UNCHANGED <<runVars, cancelled, n, listed, doomed, excused>>

TakeLock ==
  /\ ask = "queue" /\ lock = "nobody"
  /\ lock' = "ask" /\ ask' = "guard"
  /\ UNCHANGED <<runVars, caller, cancelled, n, listed, doomed, excused>>

(* The lock is dropped on the way out, whatever came of the ask. *)
Leave ==
  /\ ask' = "done"
  /\ lock' = IF lock = "ask" THEN "nobody" ELSE lock
  /\ UNCHANGED <<caller, cancelled, n, listed, doomed, excused>>

(* Cancelled while it waited for the lock, or the reserve says no. *)
NotStarted == ask = "guard" /\ Leave /\ UNCHANGED runVars

Route ==
  /\ ask = "guard" /\ ~cancelled
  /\ ask' = "go"
  /\ UNCHANGED <<runVars, caller, lock, cancelled, n, listed, doomed, excused>>

Launch(m) ==
  /\ ask = "go"
  /\ Spawn(m)
  /\ ask' = "run" /\ n' = n + 1
  /\ listed' = FALSE /\ doomed' = FALSE /\ excused' = FALSE
  /\ UNCHANGED <<caller, lock, cancelled>>

LaunchFails ==
  /\ ask = "go"
  /\ SpawnFails
  /\ ask' = "run" /\ n' = n + 1
  /\ UNCHANGED <<caller, lock, cancelled, listed, doomed, excused>>

(* on_spawn: a child whose creation key reads is recorded, *)
Record ==
  /\ at = "record"
  /\ at' = "asked"
  /\ \/ listed' = TRUE /\ UNCHANGED excused
     \/ excused' = TRUE /\ UNCHANGED listed
  /\ UNCHANGED <<mode, tree, unread, reader, pipe, input, why, reaped, answer,
                 caller, ask, lock, cancelled, n, doomed>>

(* Mutant: a child is claimed whatever the event says. *)
NeverRefused == FALSE

(* ... and claimed unless the caller has cancelled. *)
Refused == cancelled

OnSpawn ==
  /\ at = "asked"
  /\ IF Refused THEN Unclaimed ELSE Claimed
  /\ UNCHANGED askVars

(* A command may be followed by the one it prepared, or by another page of *)
(* what it collects, even if it failed; not if its child was refused.      *)
NextCommand ==
  /\ ask = "run" /\ at = "off"
  /\ answer.kind # "cancelled" /\ n < MaxChildren
  /\ ask' = "go" /\ Forget
  /\ UNCHANGED <<caller, lock, cancelled, n, listed, doomed, excused>>

Return ==
  /\ ask = "run" /\ at = "off"
  /\ Leave /\ Forget

----------------------------------------------------------------------------
(* The caller. *)

Answered ==
  /\ caller = "waiting" /\ ask = "done"
  /\ caller' = "answered"
  /\ UNCHANGED <<runVars, ask, lock, cancelled, n, listed, doomed, excused>>

Cancel ==
  /\ caller = "waiting"
  /\ cancelled' = TRUE
  /\ caller' = "cancelling"
  /\ UNCHANGED <<runVars, ask, lock, n, listed, doomed, excused>>

(* The list is read once. *)
ReadChildren ==
  /\ caller = "cancelling"
  /\ doomed' = listed
  /\ caller' = "killing"
  /\ UNCHANGED <<runVars, ask, lock, cancelled, n, listed, excused>>

(* A child is signalled under its key: one waited for is not reached, and  *)
(* what the signal reaches may ignore it.                                  *)
KillListed ==
  /\ caller = "killing" /\ doomed
  /\ doomed' = FALSE /\ excused' = TRUE
  /\ IF reaped THEN UNCHANGED tree ELSE KillTree
  /\ UNCHANGED <<mode, unread, reader, pipe, input, at, why, reaped, answer,
                 caller, ask, lock, cancelled, n, listed>>

Gone ==
  /\ caller = "killing" /\ ~doomed
  /\ caller' = "gone"
  /\ UNCHANGED <<runVars, ask, lock, cancelled, n, listed, doomed, excused>>

(* The other launch lets go of the lock once it is through. *)
OtherReturns ==
  /\ lock = "other"
  /\ lock' = "nobody"
  /\ UNCHANGED <<runVars, caller, ask, cancelled, n, listed, doomed, excused>>

----------------------------------------------------------------------------
(* An agent's own run is watched, and may be given evidence to read; what *)
(* prepares it, or asks for a plain reply, is only bounded.               *)
Modes == {m \in [watched : BOOLEAN, input : BOOLEAN] : m.input => m.watched}

Worker ==
  \/ TakeLock \/ NotStarted \/ Route \/ LaunchFails \/ Record \/ OnSpawn
  \/ NextCommand \/ Return
  \/ \E m \in Modes : Launch(m)
  \/ RunStep /\ UNCHANGED askVars

Caller == Answered \/ ReadChildren \/ KillListed \/ Gone

Next ==
  \/ Begin \/ Worker \/ Caller \/ Cancel \/ OtherReturns
  \/ Beside /\ UNCHANGED askVars

Spec == Init /\ [][Next]_vars

(* The worker and the event loop are scheduled, and so is a writer whose     *)
(* pipe nobody reads; the lock's other holder is a run like this one, and    *)
(* ends as this one does.  Nothing is assumed of a child, or of a reader.    *)
Fairness ==
  /\ WF_vars(Worker) /\ WF_vars(Caller)
  /\ WF_vars(OtherReturns)
  /\ WF_vars(FeedEnd /\ UNCHANGED askVars)

FairSpec == Spec /\ Fairness

----------------------------------------------------------------------------
(* Once a cancel is over, a child of the ask still at work was signalled, or *)
(* is one whose creation key would not read, or is about to be refused and   *)
(* killed by the thread that spawned it: the event is set before the list is *)
(* read, and a child listed before the event is looked at.                   *)
NoneEscapesCancel ==
  caller = "gone" /\ at # "off" /\ (child = "running" \/ kin = "near") =>
    \/ excused
    \/ at \in {"record", "asked"}
    \/ at \in {"kill", "reap"} /\ why = "cancelled"

(* An ask ends, and its caller is answered or has gone, whatever its         *)
(* children do: every wait has a limit, a kill that fails included, and the  *)
(* launches that share a lock with it wait for no one else.                  *)
CallEnds == caller = "waiting" ~> ask = "done" /\ caller \in {"answered", "gone"}
=============================================================================
