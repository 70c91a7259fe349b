--------------------------- MODULE SyncAskProofs ---------------------------
(***************************************************************************)
(* The safety of SyncAsk.tla for any pipes and any number of commands: what *)
(* a run says of itself, and what a cancel leaves at work.                 *)
(***************************************************************************)
EXTENDS SyncAsk, TLAPS

----------------------------------------------------------------------------
(* The inductive invariant. *)

Kinds == {"none", "ok", "failed", "stopped", "cancelled", "broken"}

RunType ==
  /\ mode \in [watched : BOOLEAN, input : BOOLEAN]
  /\ child \in {"none", "running", "well", "badly"}
  /\ kin \in {"none", "near", "far", "gone"} /\ holds \subseteq Stream \cup {Stdin}
  /\ unread \subseteq Stream
  /\ reader \in [Stream -> {"reading", "done", "failed"}]
  /\ pipe \in [Stream -> {"open", "left", "closed"}]
  /\ feeder \in {"none", "writing", "done"} /\ fed \in BOOLEAN
  /\ at \in {"off", "record", "asked", "start", "wait", "join", "say",
             "kill", "collect", "settle", "drain", "reap"}
  /\ why \in Kinds /\ reaped \in BOOLEAN
  /\ answer \in [kind : Kinds, whole : BOOLEAN, reaped : BOOLEAN, unconfirmed : BOOLEAN]

AskType ==
  /\ caller \in {"none", "waiting", "answered", "cancelling", "killing", "gone"}
  /\ ask \in {"none", "queue", "guard", "go", "run", "done"}
  /\ lock \in {"nobody", "ask", "other"}
  /\ n \in Nat
  /\ cancelled \in BOOLEAN /\ listed \in BOOLEAN /\ doomed \in BOOLEAN /\ excused \in BOOLEAN

TypeOK == RunType /\ AskType

(* What a run is ended for, by where its thread is. *)
Ending ==
  /\ at = "kill" => why \in {"cancelled", "broken", "stopped"}
  /\ at \in {"collect", "settle"} => why = "stopped" /\ mode.watched
  /\ at = "drain" => why = "stopped" /\ ~mode.watched
  /\ at = "reap" => why \in {"cancelled", "broken"} \/ (why = "stopped" /\ ~mode.watched)
  /\ at = "say" => why \in {"ok", "failed"}

(* The run is on, or is one whose streams are told of at its end. *)
Watching == at # "off" \/ (answer.kind = "stopped" /\ mode.watched)

(* A stream read to its end has no one left to write to it, a child waited   *)
(* for has exited, and the streams stay open until the run ends, when none    *)
(* is closed under a reader.                                                 *)
Ended ==
  /\ Watching => \A s \in Stream : reader[s] = "done" => s \notin unread /\ ~Held(s)
  /\ reaped => child # "running"
  /\ at \notin {"off", "join", "say", "settle"} => \A s \in Stream : pipe[s] = "open"
  /\ at = "settle" => \A s \in Stream : pipe[s] = "closed" => reader[s] # "reading"
  /\ at \in {"join", "say"} =>
       /\ child \in {"well", "badly"}
       /\ \A s \in unread : reader[s] = "failed"
       /\ \A s \in Stream : pipe[s] = "closed"

(* The writer of the input was started with the wait; where it was not done *)
(* at the join, a descendant had the pipe.                                   *)
Fed ==
  /\ at \in {"wait", "join"} /\ mode.input => feeder \in {"writing", "done"}
  /\ at = "say" /\ why = "ok" =>
       child = "well" /\ (mode.input => fed \/ kin # "none")

(* What a run has answered. *)
Told ==
  at = "off" =>
    /\ answer.kind = "ok" =>
         /\ child = "well" /\ (mode.input => fed \/ kin # "none")
         /\ \A s \in unread : reader[s] = "failed"
         /\ \A s \in Stream : pipe[s] = "closed"
    /\ answer.kind = "stopped" /\ mode.watched =>
         \A s \in Stream : pipe[s] = "closed" \/ answer.whole => reader[s] # "reading"
    /\ SurvivorReported

(* Nothing runs but within a command of the ask. *)
Between ==
  /\ ask # "run" => NoRun
  /\ caller = "none" => ask = "none"

(* The event is set before the list is read, and a child is listed before    *)
(* the event is looked at: one that is past that is listed, or was excused;  *)
(* while the list is worked through it is on it, and then it was signalled.  *)
Refusing == at \in {"record", "asked"} \/ (at \in {"kill", "reap"} /\ why = "cancelled")

Escape ==
  /\ cancelled <=> caller \in {"cancelling", "killing", "gone"}
  /\ at \notin {"off", "record"} => listed \/ excused
  /\ caller = "killing" /\ at # "off" => doomed \/ excused \/ Refusing
  /\ caller = "gone" /\ at # "off" => excused \/ Refusing

Inductive == TypeOK /\ Ending /\ Ended /\ Fed /\ Told /\ Between /\ Escape

(* What is kept of the run itself, and of the ask around it. *)
RunOK == RunType /\ Ending /\ Ended /\ Fed /\ Told
AskOK == AskType /\ Between /\ Escape

LEMMA Parts == Inductive <=> RunOK /\ AskOK
BY DEF Inductive, TypeOK, RunOK, AskOK

----------------------------------------------------------------------------
(* The run. *)

LEMMA NoRunOK == NoRun => RunOK
<1> SUFFICES ASSUME NoRun PROVE RunOK
  OBVIOUS
<1>1. RunType /\ Ending
  BY DEF NoRun, NoAnswer, RunType, Kinds, Ending
<1>2. Ended /\ Fed /\ Told
  BY DEF NoRun, NoAnswer, Ended, Fed, Told, Watching, SurvivorReported
<1> QED BY <1>1, <1>2 DEF RunOK

(* A step of the child, its descendant or the threads beside the caller's. *)
LEMMA ForkRun == RunOK /\ Fork => RunOK'
<1> SUFFICES ASSUME RunOK, Fork PROVE RunOK'
  OBVIOUS
<1>1. RunType' /\ Ending'
  BY DEF RunOK, RunType, Ending, Fork, Pipes, input
<1>2. Ended' /\ Fed' /\ Told'
  BY DEF RunOK, RunType, Ended, Fed, Told, Watching, SurvivorReported, Fork, Held, KinAlive, input
<1> QED BY <1>1, <1>2 DEF RunOK

LEMMA ChildRun == RunOK /\ (ChildExits \/ KinExits) => RunOK'
<1> SUFFICES ASSUME RunOK, ChildExits \/ KinExits PROVE RunOK'
  OBVIOUS
<1>1. RunType' /\ Ending'
  BY DEF RunOK, RunType, Ending, ChildExits, KinExits, input
<1>2. Ended' /\ Fed' /\ Told'
  BY DEF RunOK, RunType, Ended, Fed, Told, Watching, SurvivorReported, ChildExits, KinExits, Held, KinAlive, input
<1> QED BY <1>1, <1>2 DEF RunOK

LEMMA StreamRun ==
  ASSUME RunOK, NEW s \in Stream, Write(s) \/ ReadPiece(s) \/ ReadEnd(s) \/ ReadFails(s) PROVE RunOK'
<1>1. CASE Write(s)
  <2>1. RunType' /\ Ending'
    BY <1>1 DEF RunOK, RunType, Ending, Write, tree, input
  <2>2. Ended' /\ Fed' /\ Told'
    BY <1>1 DEF RunOK, RunType, Ended, Fed, Told, Watching, SurvivorReported, Write, tree, input, Held, KinAlive
  <2> QED BY <2>1, <2>2 DEF RunOK
<1>2. CASE ReadPiece(s)
  <2>1. RunType' /\ Ending'
    BY <1>2 DEF RunOK, RunType, Ending, ReadPiece, tree, input
  <2>2. Ended' /\ Fed' /\ Told'
    BY <1>2 DEF RunOK, RunType, Ended, Fed, Told, Watching, SurvivorReported, ReadPiece, tree, input, Held, KinAlive
  <2> QED BY <2>1, <2>2 DEF RunOK
<1>3. CASE ReadEnd(s)
  <2>1. RunType' /\ Ending'
    BY <1>3 DEF RunOK, RunType, Ending, ReadEnd, tree, input
  <2>2. Ended' /\ Fed' /\ Told'
    BY <1>3 DEF RunOK, RunType, Ended, Fed, Told, Watching, SurvivorReported, ReadEnd, tree, input, Held, KinAlive
  <2> QED BY <2>1, <2>2 DEF RunOK
<1>4. CASE ReadFails(s)
  <2>1. RunType' /\ Ending'
    BY <1>4 DEF RunOK, RunType, Ending, ReadFails, tree, input
  <2>2. Ended' /\ Fed' /\ Told'
    BY <1>4 DEF RunOK, RunType, Ended, Fed, Told, Watching, SurvivorReported, ReadFails, tree, input, Held, KinAlive
  <2> QED BY <2>1, <2>2 DEF RunOK
<1> QED BY <1>1, <1>2, <1>3, <1>4

LEMMA FeedRun == RunOK /\ FeedEnd => RunOK'
<1> SUFFICES ASSUME RunOK, FeedEnd PROVE RunOK'
  OBVIOUS
<1>0. feeder' \in {"none", "writing", "done"} /\ fed' \in BOOLEAN
  BY DEF RunOK, RunType, FeedEnd
<1>1. RunType' /\ Ending'
  BY <1>0 DEF RunOK, RunType, Ending, FeedEnd, tree
<1>2. Ended' /\ Fed' /\ Told'
  BY DEF RunOK, RunType, Ended, Fed, Told, Watching, SurvivorReported, FeedEnd, tree, Held, KinAlive
<1> QED BY <1>1, <1>2 DEF RunOK

(* A kill may happen at any time: by the run itself, or by a cancel. *)
LEMMA KillTreeKeeps ==
  ASSUME RunOK, KillTree,
         UNCHANGED <<mode, unread, reader, pipe, input, at, why, reaped, answer>>
  PROVE  RunOK'
<1>1. RunType' /\ Ending'
  BY DEF RunOK, RunType, Ending, KillTree, tree, input
<1>2. Ended' /\ Fed' /\ Told'
  BY DEF RunOK, RunType, Ended, Fed, Told, Watching, SurvivorReported, KillTree, tree, input, Held, KinAlive
<1> QED BY <1>1, <1>2 DEF RunOK

----------------------------------------------------------------------------
(* The calling thread. *)

LEMMA SpawnRun ==
  ASSUME RunOK, NEW m \in [watched : BOOLEAN, input : BOOLEAN], Spawn(m) PROVE RunOK'
<1>1. RunType' /\ Ending'
  BY DEF RunOK, RunType, Kinds, Ending, Spawn, NoAnswer
<1>2. Ended' /\ Fed' /\ Told'
  BY DEF RunOK, RunType, Ended, Fed, Told, Watching, Spawn
<1> QED BY <1>1, <1>2 DEF RunOK

LEMMA SpawnFailsRun == NoRun /\ SpawnFails => RunOK'
<1> SUFFICES ASSUME NoRun, SpawnFails PROVE RunOK'
  OBVIOUS
<1>1. answer' = [kind |-> "failed", whole |-> FALSE, reaped |-> TRUE, unconfirmed |-> FALSE]
  BY DEF SpawnFails, NoAnswer
<1>2. RunType' /\ Ending'
  <2>1. answer' \in [kind : Kinds, whole : BOOLEAN, reaped : BOOLEAN, unconfirmed : BOOLEAN]
    BY <1>1 DEF Kinds
  <2>2. RunType /\ Ending
    BY NoRunOK DEF RunOK
  <2> QED BY <2>1, <2>2 DEF SpawnFails, RunType, Ending, tree, input
<1>3. Ended' /\ Fed' /\ Told'
  BY <1>1 DEF NoRun, SpawnFails, Ended, Fed, Told, Watching, SurvivorReported, tree, input
<1> QED BY <1>2, <1>3 DEF RunOK

(* The steps on the way to the wait, or to the kill of a child refused. *)
LEMMA RecordRun ==
  ASSUME RunOK, at = "record", at' = "asked",
         UNCHANGED <<mode, tree, unread, reader, pipe, input, why, reaped, answer>>
  PROVE  RunOK'
<1>1. RunType' /\ Ending'
  BY DEF RunOK, RunType, Kinds, Ending, tree, input
<1>2. Ended' /\ Fed' /\ Told'
  BY DEF RunOK, RunType, Ended, Fed, Told, Watching, tree, input, Held, KinAlive
<1> QED BY <1>1, <1>2 DEF RunOK

LEMMA ClaimRun == RunOK /\ at = "asked" /\ (Claimed \/ Unclaimed) => RunOK'
<1> SUFFICES ASSUME RunOK, at = "asked", Claimed \/ Unclaimed PROVE RunOK'
  OBVIOUS
<1>1. RunType' /\ Ending'
  BY DEF RunOK, RunType, Kinds, Ending, Claimed, Unclaimed, tree, input
<1>2. Ended' /\ Fed' /\ Told'
  BY DEF RunOK, RunType, Ended, Fed, Told, Watching, Claimed, Unclaimed, tree, input, Held, KinAlive
<1> QED BY <1>1, <1>2 DEF RunOK

LEMMA StartRun == RunOK /\ (StartWait \/ Breaks) => RunOK'
<1> SUFFICES ASSUME RunOK, StartWait \/ Breaks PROVE RunOK'
  OBVIOUS
<1>1. RunType' /\ Ending'
  BY DEF RunOK, RunType, Kinds, Ending, StartWait, Breaks, tree, input
<1>2. Ended' /\ Fed' /\ Told'
  BY DEF RunOK, RunType, Ended, Fed, Told, Watching, StartWait, Breaks, tree, input, Held, KinAlive
<1> QED BY <1>1, <1>2 DEF RunOK

LEMMA WaitRun == RunOK /\ (Poll \/ Limit) => RunOK'
<1> SUFFICES ASSUME RunOK, Poll \/ Limit PROVE RunOK'
  OBVIOUS
<1>1. RunType' /\ Ending'
  <2>1. CASE Poll
    BY <2>1 DEF RunOK, RunType, Ending, Poll, tree, input
  <2>2. CASE Limit
    BY <2>2 DEF RunOK, RunType, Kinds, Ending, Limit, tree, input
  <2> QED BY <2>1, <2>2
<1>2. Ended' /\ Fed' /\ Told'
  BY DEF RunOK, RunType, Ended, Fed, Told, Watching, Poll, Limit, tree, input, Held, KinAlive, Exited
<1> QED BY <1>1, <1>2 DEF RunOK

LEMMA FinishRun == RunOK /\ Finish => RunOK'
<1> SUFFICES ASSUME RunOK, Finish PROVE RunOK'
  OBVIOUS
<1>1. RunType' /\ Ending'
  BY DEF RunOK, RunType, Ending, Finish, tree, input
<1>2. Ended' /\ Fed' /\ Told'
  BY DEF RunOK, RunType, Ended, Fed, Told, Watching, Finish, Over, AllRead, Exited, tree, input, Held, KinAlive
<1> QED BY <1>1, <1>2 DEF RunOK

LEMMA KillRun == RunOK /\ Kill => RunOK'
<1> SUFFICES ASSUME RunOK, Kill PROVE RunOK'
  OBVIOUS
<1>1. RunType' /\ Ending'
  BY DEF RunOK, RunType, Ending, Kill, KillTree, tree, input
<1>2. Ended' /\ Fed' /\ Told'
  BY DEF RunOK, RunType, Ended, Fed, Told, Watching, Kill, KillTree, tree, input, Held, KinAlive
<1> QED BY <1>1, <1>2 DEF RunOK

LEMMA CollectRun == RunOK /\ (Collect \/ DrainTimesOut) => RunOK'
<1> SUFFICES ASSUME RunOK, Collect \/ DrainTimesOut PROVE RunOK'
  OBVIOUS
<1>1. RunType' /\ Ending'
  BY DEF RunOK, RunType, Ending, Collect, WaitOver, Exited, DrainTimesOut, tree, input
<1>2. Ended' /\ Fed' /\ Told'
  BY DEF RunOK, RunType, Ended, Fed, Told, Watching, Collect, WaitOver, Exited, DrainTimesOut, tree, input,
         Held, KinAlive
<1> QED BY <1>1, <1>2 DEF RunOK

(* The answers. *)
LEMMA LookRun == ASSUME RunOK, NEW s \in Stream, Look(s) PROVE RunOK'
<1>1. RunType' /\ Ending'
  BY DEF RunOK, RunType, Ending, Look, tree, input
<1>2. Ended' /\ Fed' /\ Told'
  BY DEF RunOK, RunType, Ended, Fed, Told, Watching, Look, tree, input, Held, KinAlive
<1> QED BY <1>1, <1>2 DEF RunOK

LEMMA SettleRun == RunOK /\ Settle => RunOK'
<1> SUFFICES ASSUME RunOK, Settle PROVE RunOK'
  OBVIOUS
<1>1. RunType' /\ Ending'
  BY DEF RunOK, RunType, Kinds, Ending, Settle, AllRead, tree, input
<1>2. Ended' /\ Fed'
  BY DEF RunOK, RunType, Ending, Ended, Fed, Watching, Settle, tree, Held, KinAlive
<1>3. Told'
  BY DEF RunOK, RunType, Ending, Ended, Told, SurvivorReported, Settle, AllRead, tree
<1> QED BY <1>1, <1>2, <1>3 DEF RunOK

LEMMA DrainRun == RunOK /\ DrainEnds => RunOK'
<1> SUFFICES ASSUME RunOK, DrainEnds PROVE RunOK'
  OBVIOUS
<1>1. RunType' /\ Ending'
  BY DEF RunOK, RunType, Kinds, Ending, DrainEnds, tree, input
<1>2. Ended' /\ Fed'
  BY DEF RunOK, RunType, Ending, Ended, Fed, Watching, DrainEnds, Over, Exited, tree
<1>3. Told'
  BY DEF RunOK, RunType, Ending, Told, SurvivorReported, DrainEnds, tree
<1> QED BY <1>1, <1>2, <1>3 DEF RunOK

LEMMA ReapRun == RunOK /\ Reap => RunOK'
<1> SUFFICES ASSUME RunOK, Reap PROVE RunOK'
  OBVIOUS
<1>1. RunType' /\ Ending'
  BY DEF RunOK, RunType, Kinds, Ending, Reap, WaitOver, Exited, tree, input
<1>2. Ended' /\ Fed'
  BY DEF RunOK, RunType, Ending, Ended, Fed, Watching, Reap, WaitOver, Exited, tree
<1>3. Told'
  BY DEF RunOK, RunType, Ending, Ended, Told, SurvivorReported, Reap, WaitOver, Exited, tree
<1> QED BY <1>1, <1>2, <1>3 DEF RunOK

LEMMA SayRun == RunOK /\ (Join \/ Say) => RunOK'
<1> SUFFICES ASSUME RunOK, Join \/ Say PROVE RunOK'
  OBVIOUS
<1>1. RunType'
  <2>1. CASE Join
    BY <2>1 DEF RunOK, RunType, Kinds, Join, tree, input
  <2>2. CASE Say
    <3>1. answer' \in [kind : Kinds, whole : BOOLEAN, reaped : BOOLEAN, unconfirmed : BOOLEAN]
      BY <2>2 DEF RunOK, RunType, Say
    <3> QED BY <2>2, <3>1 DEF RunOK, RunType, Say, tree, input
  <2> QED BY <2>1, <2>2
<1>0. Ending'
  BY DEF RunOK, RunType, Ending, Join, Say
<1>2. Ended'
  BY DEF RunOK, RunType, Ending, Ended, Watching, Join, Say, tree, Held, KinAlive
<1>3. Fed'
  BY DEF RunOK, RunType, Ended, Fed, Join, Say, Shortfall, tree, input, Held, KinAlive
<1>4. Told'
  BY DEF RunOK, RunType, Ending, Ended, Fed, Told, SurvivorReported, Join, Say, tree, input
<1> QED BY <1>0, <1>1, <1>2, <1>3, <1>4 DEF RunOK

(* A run that is not on takes no step. *)
LEMMA NoRunStill == NoRun => ~RunStep /\ ~Beside
<1> SUFFICES ASSUME NoRun PROVE ~RunStep /\ ~Beside
  OBVIOUS
<1>1. ~RunStep
  BY DEF NoRun, RunStep, StartWait, Breaks, Poll, Finish, Limit, Kill, Collect, Look, Settle,
         DrainEnds, DrainTimesOut, Reap, Join, Say
<1>2. ASSUME NEW s \in Stream PROVE ~Write(s) /\ ~ReadPiece(s) /\ ~ReadEnd(s) /\ ~ReadFails(s)
  BY DEF NoRun, Write, ReadPiece, ReadEnd, ReadFails, Reading
<1>3. ~Fork /\ ~ChildExits /\ ~KinExits /\ ~FeedEnd
  BY DEF NoRun, Fork, ChildExits, KinExits, KinAlive, FeedEnd
<1> QED BY <1>1, <1>2, <1>3 DEF Beside

LEMMA RunStepRun == RunOK /\ RunStep => RunOK'
BY StartRun, WaitRun, FinishRun, KillRun, CollectRun, LookRun, SettleRun, DrainRun, ReapRun, SayRun DEF RunStep

LEMMA BesideRun == RunOK /\ Beside => RunOK'
BY ForkRun, ChildRun, FeedRun, StreamRun DEF Beside

LEMMA ForgetRun == Forget => NoRun' /\ RunOK'
<1> SUFFICES ASSUME Forget PROVE NoRun' /\ RunOK'
  OBVIOUS
<1>1. NoRun'
  BY DEF Forget, NoRun, NoAnswer
<1>2. RunOK'
  <2>1. NoRun' => RunOK'
    BY NoRunOK, PTL
  <2> QED BY <1>1, <2>1
<1> QED BY <1>1, <1>2

----------------------------------------------------------------------------
(* The ask. *)

(* The calling thread moves: what may still be refused only shrinks. *)
LEMMA RunStepAsk ==
  ASSUME RunOK, AskOK, RunStep, UNCHANGED askVars
  PROVE  AskOK'
<1>1. at # "off" /\ ask = "run"
  <2>1. at # "off"
    BY DEF RunStep, StartWait, Breaks, Poll, Finish, Limit, Kill, Collect, Look, Settle,
           DrainEnds, DrainTimesOut, Reap, Join, Say
  <2> QED BY <2>1, NoRunStill DEF AskOK, Between
<1>2. at' # "record" /\ at' # "asked" /\ at \notin {"record", "asked"}
  BY DEF RunStep, StartWait, Breaks, Poll, Finish, Limit, Kill, Collect, Look, Settle,
         DrainEnds, DrainTimesOut, Reap, Join, Say
<1>3. Refusing => Refusing' \/ at' = "off"
  BY <1>2 DEF Refusing, RunStep, StartWait, Breaks, Poll, Finish, Limit, Kill, Collect, Look, Settle,
              DrainEnds, DrainTimesOut, Reap, Join, Say
<1>4. AskType' /\ Between'
  BY <1>1 DEF AskOK, AskType, Between, askVars
<1>5. Escape'
  BY <1>1, <1>2, <1>3 DEF AskOK, Escape, askVars
<1> QED BY <1>4, <1>5 DEF AskOK

LEMMA BesideAsk ==
  ASSUME RunOK, AskOK, Beside, UNCHANGED askVars
  PROVE  AskOK'
<1>1. ask = "run"
  BY NoRunStill DEF AskOK, Between
<1>2. at' = at /\ why' = why
  BY DEF Beside, Fork, ChildExits, KinExits, FeedEnd, Write, ReadPiece, ReadEnd, ReadFails
<1>3. AskType' /\ Between'
  BY <1>1 DEF AskOK, AskType, Between, askVars
<1>4. Escape'
  BY <1>2 DEF AskOK, Escape, Refusing, askVars
<1> QED BY <1>3, <1>4 DEF AskOK

(* The worker's steps before a run and after it. *)
LEMMA OutsideStep ==
  ASSUME RunOK, AskOK,
         \/ Begin \/ TakeLock \/ NotStarted \/ Route
         \/ Answered \/ Cancel \/ ReadChildren \/ Gone \/ OtherReturns
  PROVE  RunOK' /\ AskOK'
<1>1. UNCHANGED runVars
  BY DEF Begin, TakeLock, NotStarted, Route, Answered, Cancel, ReadChildren, Gone, OtherReturns
<1>2. RunOK' /\ (NoRun => NoRun')
  BY <1>1 DEF runVars, tree, input, RunOK, RunType, Ending, Ended, Fed, Told, Watching, SurvivorReported,
              Held, KinAlive, NoRun, NoAnswer
<1>3. AskType'
  BY DEF AskOK, AskType, Begin, TakeLock, NotStarted, Leave, Route, Answered, Cancel, ReadChildren,
         Gone, OtherReturns
<1>4. Between'
  BY <1>2 DEF AskOK, Between, Begin, TakeLock, NotStarted, Leave, Route, Answered, Cancel, ReadChildren,
         Gone, OtherReturns
<1>5. Escape'
  BY <1>1 DEF AskOK, AskType, Escape, Refusing, runVars, Begin, TakeLock, NotStarted, Leave, Route, Answered,
         Cancel, ReadChildren, Gone, OtherReturns
<1> QED BY <1>2, <1>3, <1>4, <1>5 DEF AskOK

LEMMA LaunchStep ==
  ASSUME RunOK, AskOK, (\E m \in Modes : Launch(m)) \/ LaunchFails
  PROVE  RunOK' /\ AskOK'
<1>1. ASSUME NEW m \in Modes, Launch(m) PROVE RunOK' /\ AskOK'
  <2>1. m \in [watched : BOOLEAN, input : BOOLEAN]
    BY DEF Modes
  <2>2. RunOK'
    BY <1>1, <2>1, SpawnRun DEF Launch
  <2>3. AskType'
    <3>1. n' \in Nat
      BY <1>1 DEF AskOK, AskType, Launch
    <3> QED BY <1>1, <3>1, Zenon DEF AskOK, AskType, Launch
  <2>4. Between'
    BY <1>1 DEF AskOK, Between, Launch
  <2>5. Escape'
    BY <1>1 DEF AskOK, Escape, Refusing, Launch, Spawn
  <2> QED BY <2>2, <2>3, <2>4, <2>5 DEF AskOK
<1>2. CASE LaunchFails
  <2>1. RunOK'
    BY <1>2, SpawnFailsRun DEF AskOK, Between, LaunchFails
  <2>2. AskType' /\ Between' /\ Escape'
    BY <1>2 DEF AskOK, AskType, Between, Escape, Refusing, LaunchFails, SpawnFails
  <2> QED BY <2>1, <2>2 DEF AskOK
<1> QED BY <1>1, <1>2

(* A child is recorded, and only then is the event looked at. *)
LEMMA SpawnedStep ==
  ASSUME RunOK, AskOK, Record \/ OnSpawn
  PROVE  RunOK' /\ AskOK'
<1>1. CASE Record
  <2>1. RunOK'
    BY <1>1, RecordRun DEF Record
  <2>2. AskType'
    BY <1>1 DEF AskOK, AskType, Record
  <2>3. Between'
    BY <1>1 DEF AskOK, Between, NoRun, Record
  <2>4. Escape'
    BY <1>1 DEF AskOK, AskType, Escape, Refusing, Record
  <2> QED BY <2>1, <2>2, <2>3, <2>4 DEF AskOK
<1>2. CASE OnSpawn
  <2>1. RunOK'
    BY <1>2, ClaimRun DEF OnSpawn
  <2>2. AskType'
    BY <1>2 DEF AskOK, AskType, OnSpawn, askVars
  <2>3. Between'
    BY <1>2 DEF AskOK, Between, NoRun, OnSpawn, askVars
  <2>4. Escape'
    BY <1>2 DEF AskOK, AskType, Escape, Refusing, OnSpawn, Refused, Claimed, Unclaimed, askVars
  <2> QED BY <2>1, <2>2, <2>3, <2>4 DEF AskOK
<1> QED BY <1>1, <1>2

LEMMA ForgetStep ==
  ASSUME RunOK, AskOK, NextCommand \/ Return
  PROVE  RunOK' /\ AskOK'
<1>1. Forget /\ at' = "off"
  BY DEF NextCommand, Return, Forget
<1>2. AskType'
  BY DEF AskOK, AskType, NextCommand, Return, Leave
<1>3. Escape'
  BY <1>1 DEF AskOK, AskType, Escape, Refusing, NextCommand, Return, Leave
<1>4. Between'
  <2>1. NoRun'
    BY <1>1, ForgetRun
  <2>2. caller' = caller /\ ask = "run"
    BY DEF NextCommand, Return, Leave
  <2> QED BY <2>1, <2>2 DEF AskOK, Between
<1> QED BY <1>1, <1>2, <1>3, <1>4, ForgetRun DEF AskOK

(* A child on the copy of the list is signalled, and may live. *)
LEMMA KillListedStep ==
  ASSUME RunOK, AskOK, KillListed
  PROVE  RunOK' /\ AskOK'
<1>1. UNCHANGED <<mode, unread, reader, pipe, input, at, why, reaped, answer>>
      /\ (KillTree \/ UNCHANGED tree)
  BY DEF KillListed, input
<1>2. RunOK'
  BY <1>1, KillTreeKeeps DEF KillTree
<1>3. AskType'
  BY DEF AskOK, AskType, KillListed
<1>4. Between'
  BY <1>1 DEF AskOK, Between, NoRun, NoAnswer, KillListed, KillTree, KinAlive, tree, input
<1>5. Escape'
  BY <1>1 DEF AskOK, AskType, Escape, Refusing, KillListed
<1> QED BY <1>2, <1>3, <1>4, <1>5 DEF AskOK

LEMMA InitInductive == Init => Inductive
<1> SUFFICES ASSUME Init PROVE Inductive
  OBVIOUS
<1>1. RunOK
  BY NoRunOK DEF Init
<1>2. AskOK
  BY DEF Init, NoRun, AskOK, AskType, Between, Escape, Refusing
<1> QED BY <1>1, <1>2, Parts

LEMMA NextInductive == Inductive /\ [Next]_vars => Inductive'
<1> SUFFICES ASSUME RunOK, AskOK, [Next]_vars PROVE RunOK' /\ AskOK'
  <2>1. Inductive' <=> RunOK' /\ AskOK'
    BY DEF Inductive, TypeOK, RunOK, AskOK
  <2> QED BY <2>1, Parts
<1>1. CASE RunStep /\ UNCHANGED askVars
  BY <1>1, RunStepRun, RunStepAsk
<1>2. CASE Beside /\ UNCHANGED askVars
  BY <1>2, BesideRun, BesideAsk
<1>3. CASE UNCHANGED vars
  BY <1>3 DEF vars, runVars, askVars, tree, input, RunOK, RunType, Ending, Ended, Fed, Told, Watching,
              SurvivorReported, Held, KinAlive, AskOK, AskType, Between, NoRun, NoAnswer, Escape, Refusing
<1> QED BY <1>1, <1>2, <1>3, OutsideStep, LaunchStep, SpawnedStep, ForgetStep, KillListedStep
           DEF Next, Worker, Caller

LEMMA Invariance == Spec => []Inductive
BY InitInductive, NextInductive, PTL DEF Spec

(* What a run answers is so, and stays so while what it left behind goes on  *)
(* running: an ok is everything that was written, by a child that exited     *)
(* well with its input given; a run stopped at a limit closes no pipe, and   *)
(* calls no capture complete, but where all was read; a child that may live  *)
(* is reported.  A reader that failed is excepted: nothing tells it from one *)
(* that finished (_run_cmd, _communicate_watched).                           *)
THEOREM Honest == Spec => []AnswerHonest
<1>1. ASSUME Inductive PROVE AnswerHonest
  <2> SUFFICES ASSUME at = "off" PROVE OkIsWhole /\ StoppedIsDrained /\ SurvivorReported
    BY DEF AnswerHonest
  <2>1. OkIsWhole
    BY <1>1 DEF Inductive, Told, OkIsWhole
  <2>2. StoppedIsDrained
    BY <1>1 DEF Inductive, TypeOK, RunType, Told, Ended, Watching, StoppedIsDrained, Drained
  <2> QED BY <1>1, <2>1, <2>2 DEF Inductive, Told
<1> QED BY <1>1, Invariance, PTL

(* Whatever the order in which a child is spawned, recorded and claimed and  *)
(* the caller sets the event, reads the list and works through it, no child  *)
(* of the ask is left at work unsignalled, but one whose creation key would  *)
(* not read (_sync_agent, on_spawn).                                         *)
THEOREM NoEscape == Spec => []NoneEscapesCancel
<1>1. Inductive => NoneEscapesCancel
  BY DEF Inductive, Escape, Refusing, NoneEscapesCancel
<1> QED BY <1>1, Invariance, PTL
=============================================================================
