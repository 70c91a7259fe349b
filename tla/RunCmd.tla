------------------------------- MODULE RunCmd -------------------------------
(* One run of an agent's command, adapters._run_cmd: the child it spawns,    *)
(* the threads that read the child's pipes and feed its input, the limits on *)
(* its silence and on its age, the kill of its tree, and what is reported.   *)
(* The child, and a descendant it leaves holding its pipes, do as they like. *)
EXTENDS Naturals

CONSTANTS
  Stream,   \* the pipes a child writes to
  Stdin,    \* the pipe it is given input on
  Legacy,   \* bound: what a descendant may be left holding, sets of pipes
  Fragile   \* bound: the streams whose reader may fail

ASSUME PipesAssumption == Stdin \notin Stream

VARIABLES
  mode,         \* this run: watched for silence or not, given input or not
  child,        \* the child: running, or exited well or badly
  kin,          \* a descendant: in the child's process group (near) or not (far)
  holds,        \* the pipes that descendant has inherited
  unread,       \* the streams that hold output nobody has read
  reader,       \* what reads each stream
  pipe,         \* this end of each stream: open, pipe, or left to a reader still alive
  feeder, fed,  \* the thread that writes the input, and whether all was accepted
  at,           \* where the calling thread is in _run_cmd
  why,          \* what the run is being ended for
  reaped,       \* the child has been waited for
  answer        \* what the run returned

tree == <<child, kin, holds>>
input == <<feeder, fed>>
runVars == <<mode, tree, unread, reader, pipe, input, at, why, reaped, answer>>

NoAnswer ==
  [kind |-> "none", whole |-> FALSE, reaped |-> FALSE, unconfirmed |-> FALSE]

(* No run is on, and nothing of the last is left to see. *)
NoRun ==
  /\ mode = [watched |-> FALSE, input |-> FALSE]
  /\ child = "none" /\ kin = "none" /\ holds = {}
  /\ unread = {}
  /\ reader = [s \in Stream |-> "done"] /\ pipe = [s \in Stream |-> "closed"]
  /\ feeder = "none" /\ fed = FALSE
  /\ at = "off" /\ why = "none" /\ reaped = TRUE
  /\ answer = NoAnswer

(* The run's answer is read; what it left running is out of sight. *)
Forget ==
  /\ child' = "none" /\ kin' = "none" /\ holds' = {}
  /\ unread' = {}
  /\ reader' = [s \in Stream |-> "done"] /\ pipe' = [s \in Stream |-> "closed"]
  /\ feeder' = "none" /\ fed' = FALSE
  /\ reaped' = TRUE /\ answer' = NoAnswer
  /\ mode' = [watched |-> FALSE, input |-> FALSE] /\ at' = "off" /\ why' = "none"

----------------------------------------------------------------------------
(* The child and its descendant. *)

KinAlive == kin \in {"near", "far"}
Exited == child \in {"well", "badly"}

(* The other end of a pipe is open. *)
Held(p) == child = "running" \/ (KinAlive /\ p \in holds)

(* A child that is given no input reads from nowhere. *)
Pipes == IF mode.input THEN Stream \cup {Stdin} ELSE Stream

Fork ==
  /\ child = "running" /\ kin = "none"
  /\ kin' \in {"near", "far"}
  /\ holds' \in {h \cap Pipes : h \in Legacy}
  /\ UNCHANGED <<mode, child, unread, reader, pipe, input, at, why, reaped, answer>>

ChildExits ==
  /\ child = "running"
  /\ child' \in {"well", "badly"}
  /\ UNCHANGED <<mode, kin, holds, unread, reader, pipe, input, at, why, reaped, answer>>

KinExits ==
  /\ KinAlive
  /\ kin' = "gone" /\ holds' = {}
  /\ UNCHANGED <<mode, child, unread, reader, pipe, input, at, why, reaped, answer>>

Write(s) ==
  /\ Held(s) /\ pipe[s] # "closed"
  /\ unread' = unread \cup {s}
  /\ UNCHANGED <<mode, tree, reader, pipe, input, at, why, reaped, answer>>

(* A kill of the child's group, or its failure: neither is reported. *)
KillTree ==
  \/ UNCHANGED tree
  \/ /\ child' = IF child = "running" THEN "badly" ELSE child
     /\ IF kin = "near" THEN kin' = "gone" /\ holds' = {} ELSE UNCHANGED <<kin, holds>>

----------------------------------------------------------------------------
(* The threads beside the caller's. *)

(* A watched run has readers of its own; otherwise communicate() reads. *)
Reading(s) == reader[s] = "reading" /\ (mode.watched \/ at \in {"wait", "drain"})

ReadPiece(s) ==
  /\ Reading(s) /\ s \in unread
  /\ unread' = unread \ {s}
  /\ UNCHANGED <<mode, tree, reader, pipe, input, at, why, reaped, answer>>

ReadEnd(s) ==
  /\ Reading(s) /\ s \notin unread /\ ~Held(s)
  /\ reader' = [reader EXCEPT ![s] = "done"]
  /\ UNCHANGED <<mode, tree, unread, pipe, input, at, why, reaped, answer>>

(* An error in a reader of its own ends that reader, and no one is told; *)
(* one in communicate() ends the run (Breaks).                           *)
ReadFails(s) ==
  /\ mode.watched /\ Reading(s) /\ s \in Fragile
  /\ reader' = [reader EXCEPT ![s] = "failed"]
  /\ UNCHANGED <<mode, tree, unread, pipe, input, at, why, reaped, answer>>

(* The pipe takes the last of the input, or the child stops reading it: it *)
(* exited or closed it, and no descendant has it open.                     *)
FeedEnd ==
  /\ feeder = "writing"
  /\ \/ Held(Stdin) /\ fed' = TRUE
     \/ ~(KinAlive /\ Stdin \in holds) /\ UNCHANGED fed
  /\ feeder' = "done"
  /\ UNCHANGED <<mode, tree, unread, reader, pipe, at, why, reaped, answer>>

----------------------------------------------------------------------------
(* The calling thread. *)

Spawn(m) ==
  /\ at = "off"
  /\ mode' = m
  /\ child' = "running" /\ kin' = "none" /\ holds' = {}
  /\ unread' = {}
  /\ reader' = [s \in Stream |-> "reading"] /\ pipe' = [s \in Stream |-> "open"]
  /\ feeder' = "none" /\ fed' = FALSE
  /\ at' = "record" /\ why' = "none" /\ reaped' = FALSE
  /\ answer' = NoAnswer

SpawnFails ==
  /\ at = "off"
  /\ answer' = [NoAnswer EXCEPT !.kind = "failed", !.reaped = TRUE]
  /\ UNCHANGED <<mode, tree, unread, reader, pipe, input, at, why, reaped>>

(* on_spawn answered: the child is claimed, or was cancelled before it was. *)
Claimed ==
  /\ at' = "start"
  /\ UNCHANGED <<mode, tree, unread, reader, pipe, input, why, reaped, answer>>

Unclaimed ==
  /\ at' = "kill" /\ why' = "cancelled"
  /\ UNCHANGED <<mode, tree, unread, reader, pipe, input, reaped, answer>>

StartWait ==
  /\ at = "start"
  /\ at' = "wait"
  /\ feeder' = IF mode.input THEN "writing" ELSE "none"
  /\ UNCHANGED <<mode, tree, unread, reader, pipe, fed, why, reaped, answer>>

(* A thread will not start, or communicate() fails. *)
Breaks ==
  /\ at = "start" \/ (at = "wait" /\ ~mode.watched)
  /\ at' = "kill" /\ why' = "broken"
  /\ UNCHANGED <<mode, tree, unread, reader, pipe, input, reaped, answer>>

(* The watch looks at the child: a poll that finds it exited also reaps it. *)
Poll ==
  /\ at = "wait" /\ mode.watched
  /\ Exited /\ ~reaped
  /\ reaped' = TRUE
  /\ UNCHANGED <<mode, tree, unread, reader, pipe, input, at, why, answer>>

(* A reader that failed is finished like any other. *)
AllRead == \A s \in Stream : reader[s] # "reading"

(* Mutant: the wait is for the child only. *)
ChildOver == Exited

(* The wait is over when the child has exited and its pipes have ended. *)
Over == Exited /\ AllRead

Finish ==
  /\ at = "wait" /\ Over
  /\ at' = "join" /\ reaped' = TRUE /\ pipe' = [s \in Stream |-> "closed"]
  /\ UNCHANGED <<mode, tree, unread, reader, input, why, answer>>

(* Nothing was written for idle_s, of a watched run, or timeout_s passed:   *)
(* either may happen as anything else does, and is followed alike.          *)
Limit ==
  /\ at = "wait"
  /\ at' = "kill"
  /\ why' = "stopped"
  /\ UNCHANGED <<mode, tree, unread, reader, pipe, input, reaped, answer>>

Kill ==
  /\ at = "kill"
  /\ KillTree
  /\ at' = IF why \in {"cancelled", "broken"} THEN "reap"
           ELSE IF mode.watched THEN "collect" ELSE "drain"
  /\ UNCHANGED <<mode, unread, reader, pipe, input, why, reaped, answer>>

(* Mutant: the child is waited for without a limit. *)
WaitedFor == Exited /\ reaped' = TRUE

(* A bounded wait: the child exits meanwhile, or it does not. *)
WaitOver == reaped' = (Exited \/ reaped)

Collect ==
  /\ at = "collect"
  /\ WaitOver
  /\ at' = "settle"
  /\ UNCHANGED <<mode, tree, unread, reader, pipe, input, why, answer>>

(* settle() waits for the readers, for a while, and then looks at them one *)
(* after another: a pipe is closed if its reader has finished by then, and *)
(* is never closed under a reader still alive.                             *)
Look(s) ==
  /\ at = "settle" /\ pipe[s] = "open"
  /\ pipe' = [pipe EXCEPT ![s] = IF reader[s] = "reading" THEN "left" ELSE "closed"]
  /\ UNCHANGED <<mode, tree, unread, reader, input, at, why, reaped, answer>>

(* ... and once more, to tell whether all have: one may have finished since *)
(* its pipe was left.                                                       *)
Settle ==
  /\ at = "settle" /\ \A s \in Stream : pipe[s] # "open"
  /\ answer' = [kind |-> why, whole |-> AllRead, reaped |-> reaped, unconfirmed |-> FALSE]
  /\ at' = "off"
  /\ UNCHANGED <<mode, tree, unread, reader, pipe, input, why, reaped>>

(* Without a watch: communicate() again, for a while; whatever it says, the *)
(* answer calls nothing incomplete.                                         *)
DrainEnds ==
  /\ at = "drain" /\ Over
  /\ pipe' = [s \in Stream |-> "closed"] /\ reaped' = TRUE
  /\ answer' = [kind |-> why, whole |-> TRUE, reaped |-> TRUE, unconfirmed |-> FALSE]
  /\ at' = "off"
  /\ UNCHANGED <<mode, tree, unread, reader, input, why>>

(* It takes too long, or fails. *)
DrainTimesOut ==
  /\ at = "drain"
  /\ at' = "reap"
  /\ UNCHANGED <<mode, tree, unread, reader, pipe, input, why, reaped, answer>>

Reap ==
  /\ at = "reap"
  /\ WaitOver
  /\ pipe' = [s \in Stream |-> "closed"]
  /\ reader' = [s \in Stream |-> "done"]
  /\ answer' = [kind |-> why, whole |-> why = "stopped",
                reaped |-> why # "cancelled" \/ reaped', unconfirmed |-> FALSE]
  /\ at' = "off"
  /\ UNCHANGED <<mode, tree, unread, input, why>>

(* The input fell short: its writer stopped without all of it accepted. *)
Shortfall == feeder = "done" /\ ~fed

(* The writer is joined for a second, and is done by then unless a pipe *)
(* someone holds open keeps it.                                         *)
Join ==
  /\ at = "join"
  /\ feeder = "writing" => Held(Stdin)
  /\ at' = "say"
  /\ why' = IF child = "badly" \/ Shortfall THEN "failed" ELSE "ok"
  /\ UNCHANGED <<mode, tree, unread, reader, pipe, input, reaped, answer>>

(* ... and looked at again when the reply is put together. *)
Say ==
  /\ at = "say"
  /\ answer' = [kind |-> why, whole |-> TRUE, reaped |-> TRUE, unconfirmed |-> feeder = "writing"]
  /\ at' = "off"
  /\ UNCHANGED <<mode, tree, unread, reader, pipe, input, why, reaped>>

----------------------------------------------------------------------------
(* The thread within one run, whatever on_spawn answers. *)
RunStep ==
  \/ StartWait \/ Breaks \/ Poll \/ Finish \/ Limit \/ Kill \/ Collect \/ Settle
  \/ DrainEnds \/ DrainTimesOut \/ Reap \/ Join \/ Say
  \/ \E s \in Stream : Look(s)

Beside ==
  \/ Fork \/ ChildExits \/ KinExits \/ FeedEnd
  \/ \E s \in Stream : Write(s) \/ ReadPiece(s) \/ ReadEnd(s) \/ ReadFails(s)

----------------------------------------------------------------------------
(* What a run says of itself, at its return and from then on. *)

(* Nothing that was written to a stream is left unread, and no one is left *)
(* to write more: a reader that failed is the one exception, for the code  *)
(* cannot tell it from one that reached the end.                           *)
Drained(s) == reader[s] = "failed" \/ (s \notin unread /\ ~Held(s))

(* A reply that reads ok is all that was written, where no reader failed,   *)
(* by a child that exited well and was given its input; where a descendant *)
(* may have that input open, the reply need not say that it could not tell *)
(* (_stdin_shortfall).                                                     *)
OkIsWhole ==
  answer.kind = "ok" =>
    /\ child = "well"
    /\ \A s \in unread : reader[s] = "failed"
    /\ mode.input => fed \/ answer.unconfirmed \/ kin # "none"

(* A pipe of a watched run that was stopped at a limit is closed only once  *)
(* it was read to its end; and if the run calls its capture complete, this *)
(* is so of every pipe, of one left open to a reader that ended just then  *)
(* too (_communicate_watched).                                             *)
StoppedIsDrained ==
  answer.kind = "stopped" /\ mode.watched =>
    \A s \in Stream : pipe[s] = "closed" \/ answer.whole => Drained(s)

(* A child that may have survived its kill is reported. *)
SurvivorReported ==
  (answer.kind = "cancelled" \/ (answer.kind = "stopped" /\ mode.watched))
    /\ child = "running" => ~answer.reaped

AnswerHonest == at = "off" => OkIsWhole /\ StoppedIsDrained /\ SurvivorReported
=============================================================================
