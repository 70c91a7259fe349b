-------------------------------- MODULE Jobs --------------------------------
(***************************************************************************)
(* Durable job records (jobs.py) under the processes that move them: the   *)
(* owning server's worker (server._admit_async's `_run`), the children it  *)
(* spawns in turn (adapters._run_cmd), and any other server that reads,    *)
(* sweeps or cancels the job, each taking one transaction at a time.       *)
(*                                                                         *)
(* What the store, the OS and a crash can do is nondeterministic: a write  *)
(* may commit and still raise, a probe of a process may go unanswered, a   *)
(* kill may fail, a server may die between any two steps.  A write the     *)
(* store refuses changes nothing and is tried again, which is a stutter.   *)
(***************************************************************************)
EXTENDS JobRow, Sequences

CONSTANTS
  Job,         \* job ids
  MaxChildren  \* bound: children one job spawns, one after another

ASSUME JobAssumption == Job # {}
ASSUME MaxChildrenAssumption == MaxChildren \in Nat

VARIABLES
  up,       \* up[s]: server s is alive
  row,      \* row[j]: job j's row
  notices,  \* notices[j]: the states told by the completion messages sent for j
  work,     \* work[j]: where j's worker thread stands in its owner
  out,      \* out[j]: the result that worker holds, until the store has it
  cur,      \* cur[j]: the number of the last child j spawned
  alive,    \* alive[j]: j's children that run and that nothing has signalled
  excused,  \* excused[j]: children some failure put out of a cancel's reach
  told,     \* told[j]: what the cancel that won j reported of its child
  op        \* op[s]: the read, sweep or cancel server s is in the middle of

vars == <<up, row, notices, work, out, cur, alive, excused, told, op>>

Children == 1 .. MaxChildren

WorkStates ==
  {"none",      \* no thread will ever run it here
   "pending",   \* the future waits in the executor
   "between",   \* claimed; no child of its runs
   "claiming",  \* a child runs; its pid is not recorded yet
   "refused",   \* the record was refused: the worker is about to kill its child
   "waiting",   \* in communicate(), on child cur[j]
   "reclaim",   \* owes mark_running, then finish (_unstarted_write)
   "write",     \* owes finish
   "done"}

Ops ==
  [kind  : {"get", "sweep", "cancel"},
   at    : {"idle", "probe", "lose", "claim", "kill"},
   job   : Job,
   who   : SUBSET Server,
   child : 0 .. MaxChildren,
   keyed : BOOLEAN]

Idle == [kind |-> "get", at |-> "idle", job |-> CHOOSE j \in Job : TRUE,
         who |-> {}, child |-> 0, keyed |-> FALSE]

Init ==
  /\ up = [s \in Server |-> TRUE]
  /\ row = [j \in Job |-> NoRow]
  /\ notices = [j \in Job |-> <<>>]
  /\ work = [j \in Job |-> "none"]
  /\ out = [j \in Job |-> "none"]
  /\ cur = [j \in Job |-> 0]
  /\ alive = [j \in Job |-> {}]
  /\ excused = [j \in Job |-> {}]
  /\ told = [j \in Job |-> "nothing"]
  /\ op = [s \in Server |-> Idle]

----------------------------------------------------------------------------
(* The owner: admission and the worker thread.                             *)

AtWork(j, w) == work[j] = w

(* jobs.create and the submit that follows.  The insert may commit and      *)
(* raise, which leaves a queued row no thread serves; the executor may      *)
(* refuse the callable, which leaves a failed result to record.             *)
Admit(s, j) ==
  /\ up[s]
  /\ row[j].state = "absent"
  /\ row' = [row EXCEPT ![j] = Created(s)]
  /\ \/ work' = [work EXCEPT ![j] = "pending"] /\ UNCHANGED out
     \/ work' = [work EXCEPT ![j] = "none"] /\ UNCHANGED out
     \/ work' = [work EXCEPT ![j] = "reclaim"] /\ out' = [out EXCEPT ![j] = "bad"]
  /\ UNCHANGED <<up, notices, cur, alive, excused, told, op>>

(* Mutant: mark_running's answer is ignored. *)
StartRunUnclaimed(j) ==
  /\ AtWork(j, "pending")
  /\ row' = [row EXCEPT ![j] = IF CanMarkRunning(@, @.owner) THEN MarkedRunning(@) ELSE @]
  /\ work' = [work EXCEPT ![j] = "between"]
  /\ UNCHANGED <<up, notices, out, cur, alive, excused, told, op>>

(* `_run` claims the job before anything else.  A claim that raised may     *)
(* have committed: the agent is not run on a guess.  A future cancelled by  *)
(* request (_retire_cancelled_jobs) or at exit owes the same two results.   *)
StartRun(j) ==
  LET can == CanMarkRunning(row[j], row[j].owner)
  IN /\ AtWork(j, "pending")
     /\ \/ /\ can
           /\ row' = [row EXCEPT ![j] = MarkedRunning(@)]
           /\ work' = [work EXCEPT ![j] = "between"]
           /\ UNCHANGED out
        \/ /\ ~can
           /\ work' = [work EXCEPT ![j] = "write"]
           /\ out' = [out EXCEPT ![j] = "bad"]
           /\ UNCHANGED row
        \/ /\ \/ UNCHANGED row
              \/ can /\ row' = [row EXCEPT ![j] = MarkedRunning(@)]
           /\ work' = [work EXCEPT ![j] = "reclaim"]
           /\ out' = [out EXCEPT ![j] = "bad"]
     /\ UNCHANGED <<up, notices, cur, alive, excused, told, op>>

(* Mutant: finish alone, on a row that may still be queued. *)
ReclaimUnclaimed(j) ==
  /\ AtWork(j, "reclaim")
  /\ work' = [work EXCEPT ![j] = "write"]
  /\ UNCHANGED <<up, row, notices, out, cur, alive, excused, told, op>>

(* _unstarted_write: mark_running, whatever it answers, then finish. *)
Reclaim(j) ==
  /\ AtWork(j, "reclaim")
  /\ row' = [row EXCEPT ![j] = IF CanMarkRunning(@, @.owner) THEN MarkedRunning(@) ELSE @]
  /\ \E w \in {"write", "reclaim"} : work' = [work EXCEPT ![j] = w]
  /\ UNCHANGED <<up, notices, out, cur, alive, excused, told, op>>

(* Popen. *)
Spawn(j) ==
  /\ AtWork(j, "between")
  /\ cur[j] < MaxChildren
  /\ cur' = [cur EXCEPT ![j] = @ + 1]
  /\ alive' = [alive EXCEPT ![j] = @ \cup {cur[j] + 1}]
  /\ work' = [work EXCEPT ![j] = "claiming"]
  /\ UNCHANGED <<up, row, notices, out, excused, told, op>>

(* on_spawn: set_child_pid with the child's creation key, if it would read. *)
(* Refused, the worker is to kill the child it holds; raised, the run goes  *)
(* on, recorded or not.                                                     *)
RecordChild(j) ==
  /\ AtWork(j, "claiming")
  /\ \/ /\ CanSetChild(row[j], row[j].owner)
        /\ \E k \in BOOLEAN : row' = [row EXCEPT ![j] = ChildSet(@, cur[j], k)]
        /\ work' = [work EXCEPT ![j] = "waiting"]
        /\ UNCHANGED excused
     \/ /\ ~CanSetChild(row[j], row[j].owner)
        /\ work' = [work EXCEPT ![j] = "refused"]
        /\ UNCHANGED <<row, excused>>
     \/ /\ work' = [work EXCEPT ![j] = "waiting"]
        /\ excused' = [excused EXCEPT ![j] = @ \cup {cur[j]}]
        /\ UNCHANGED row
  /\ UNCHANGED <<up, notices, out, cur, alive, told, op>>

(* A kill of j's current child by the worker that holds its handle. *)
KillOwn(j) ==
  \/ alive' = [alive EXCEPT ![j] = @ \ {cur[j]}] /\ UNCHANGED excused
  \/ excused' = [excused EXCEPT ![j] = @ \cup {cur[j]}] /\ UNCHANGED alive

KillRefused(j) ==
  /\ AtWork(j, "refused")
  /\ KillOwn(j)
  /\ work' = [work EXCEPT ![j] = "between"]
  /\ UNCHANGED <<up, row, notices, out, cur, told, op>>

(* communicate() returns once the child is gone. *)
Collect(j) ==
  /\ AtWork(j, "waiting")
  /\ cur[j] \notin alive[j]
  /\ work' = [work EXCEPT ![j] = "between"]
  /\ UNCHANGED <<up, row, notices, out, cur, alive, excused, told, op>>

(* The idle limit or the ceiling: the tree is killed and the run given up. *)
TimeOut(j) ==
  /\ AtWork(j, "waiting")
  /\ cur[j] \in alive[j]
  /\ KillOwn(j)
  /\ work' = [work EXCEPT ![j] = "between"]
  /\ UNCHANGED <<up, row, notices, out, cur, told, op>>

(* ask_fn returns, or raises and is caught: the worker has a result. *)
Return(j) ==
  /\ AtWork(j, "between")
  /\ \E r \in {"ok", "bad"} :
       /\ r = "ok" => cur[j] > 0
       /\ out' = [out EXCEPT ![j] = r]
  /\ work' = [work EXCEPT ![j] = "write"]
  /\ UNCHANGED <<up, row, notices, cur, alive, excused, told, op>>

(* jobs.finish under _owe: the row and its completion message, in one       *)
(* transaction.  A commit that raised leaves the write owed and repeated.   *)
WriteResult(j) ==
  /\ AtWork(j, "write")
  /\ IF CanFinish(row[j], row[j].owner)
       THEN /\ row' = [row EXCEPT ![j] = Finished(@, out[j] = "ok")]
            /\ notices' = [notices EXCEPT ![j] = Append(@, row'[j].state)]
            /\ \E w \in {"write", "done"} : work' = [work EXCEPT ![j] = w]
       ELSE /\ work' = [work EXCEPT ![j] = "done"]
            /\ UNCHANGED <<row, notices>>
  /\ UNCHANGED <<up, out, cur, alive, excused, told, op>>

----------------------------------------------------------------------------
(* Any server: job_status and job_result read one job, list_jobs sweeps    *)
(* them all, job_cancel cancels one.                                       *)

ActiveOwners == {row[j].owner : j \in {i \in Job : row[i].state \in ActiveStates}}

(* A read of rows that are still active; of any other it only answers. *)
Ask(s, kind, j) ==
  /\ up[s]
  /\ op[s].at = "idle"
  /\ row[j].state \in ActiveStates
  /\ op' = [op EXCEPT ![s] =
              [kind |-> kind, at |-> "probe", job |-> j, child |-> 0, keyed |-> FALSE,
               who |-> IF kind = "sweep" THEN ActiveOwners ELSE {row[j].owner}]]
  /\ UNCHANGED <<up, row, notices, work, out, cur, alive, excused, told>>

(* Mutant: an owner that would not answer the probe is taken for dead. *)
UnknownIsDead(who) == who

(* instance_state of each owner read: a live one is never found dead, and a *)
(* dead one may be, unless its state would not read.                        *)
ProvedDead(who) == {o \in who : ~up[o]}

Probe(s) ==
  /\ op[s].at = "probe"
  /\ \E dead \in SUBSET ProvedDead(op[s].who) :
       op' = [op EXCEPT ![s] =
                IF dead # {} THEN [@ EXCEPT !.at = "lose", !.who = dead]
                ELSE IF @.kind = "cancel" THEN [@ EXCEPT !.at = "claim", !.who = {}]
                ELSE Idle]
  /\ UNCHANGED <<up, row, notices, work, out, cur, alive, excused, told>>

(* The UPDATE that resolves what the probes proved, of the rows that are    *)
(* still active; one that moved on is believed.  Lost or finished, a cancel *)
(* of it ends here.                                                         *)
Matched(s) ==
  {j \in Job : CanLose(row[j], op[s].who) /\ (op[s].kind = "sweep" \/ j = op[s].job)}

Lose(s) ==
  /\ op[s].at = "lose"
  /\ row' = [j \in Job |-> IF j \in Matched(s) THEN Lost(row[j]) ELSE row[j]]
  /\ op' = [op EXCEPT ![s] = Idle]
  /\ UNCHANGED <<up, notices, work, out, cur, alive, excused, told>>

(* The claim and, in the same transaction, the child it won.  A commit that *)
(* took effect and raised leaves that child to no one: the call is over.    *)
Claim(s) ==
  LET j == op[s].job
      r == row[j]
  IN /\ op[s].at = "claim"
     /\ IF CanCancel(r)
          THEN /\ row' = [row EXCEPT ![j] = Cancelled(@)]
               /\ \/ /\ r.child # 0
                     /\ op' = [op EXCEPT ![s] =
                                 [@ EXCEPT !.at = "kill", !.child = r.child, !.keyed = r.keyed]]
                     /\ UNCHANGED <<excused, told>>
                  \/ /\ r.child = 0
                     /\ op' = [op EXCEPT ![s] = Idle]
                     /\ told' = [told EXCEPT ![j] = "clean"]
                     /\ UNCHANGED excused
                  \/ /\ op' = [op EXCEPT ![s] = Idle]
                     /\ excused' = [excused EXCEPT ![j] = @ \cup {r.child}]
                     /\ UNCHANGED told
          ELSE op' = [op EXCEPT ![s] = Idle] /\ UNCHANGED <<row, excused, told>>
     /\ UNCHANGED <<up, notices, work, out, cur, alive>>

(* kill_process_tree and the report request_cancel makes of it.  With a     *)
(* key, an identity that will not read is answered as "already gone", and   *)
(* so is a child that exited or whose pid was reused.  Without one, the pid *)
(* is signalled on trust and the report warns either way.                   *)
KillChild(s) ==
  LET o == op[s]
      Reach(j) == alive' = [alive EXCEPT ![j] = @ \ {o.child}] /\ UNCHANGED excused
      Miss(j) == excused' = [excused EXCEPT ![j] = @ \cup {o.child}] /\ UNCHANGED alive
  IN /\ o.at = "kill"
     /\ \/ Reach(o.job) /\ told' = [told EXCEPT ![o.job] = IF o.keyed THEN "clean" ELSE "warned"]
        \/ Miss(o.job) /\ told' = [told EXCEPT ![o.job] = "warned"]
        \/ o.keyed /\ Miss(o.job) /\ told' = [told EXCEPT ![o.job] = "clean"]
     /\ op' = [op EXCEPT ![s] = Idle]
     /\ UNCHANGED <<up, row, notices, work, out, cur>>

(* The store refuses the call's write: it raises, having changed nothing. *)
GiveUp(s) ==
  /\ op[s].at \in {"lose", "claim"}
  /\ op' = [op EXCEPT ![s] = Idle]
  /\ UNCHANGED <<up, row, notices, work, out, cur, alive, excused, told>>

----------------------------------------------------------------------------
(* The environment.                                                        *)

ChildExits(j) ==
  \E c \in alive[j] :
    /\ alive' = [alive EXCEPT ![j] = @ \ {c}]
    /\ UNCHANGED <<up, row, notices, work, out, cur, excused, told, op>>

(* A server is killed: its threads go, its children do not.  A child whose  *)
(* pid was not recorded yet, or that it had claimed and not yet signalled,  *)
(* has no one left who knows of it.                                         *)
Die(s) ==
  LET mine(j) == row[j].owner = s
      unknown(j) == IF mine(j) /\ work[j] \in {"claiming", "refused"} THEN {cur[j]} ELSE {}
      unsignalled(j) == IF op[s].at = "kill" /\ op[s].job = j THEN {op[s].child} ELSE {}
  IN /\ up[s]
     /\ up' = [up EXCEPT ![s] = FALSE]
     /\ work' = [j \in Job |-> IF mine(j) THEN "none" ELSE work[j]]
     /\ excused' = [j \in Job |-> excused[j] \cup unknown(j) \cup unsignalled(j)]
     /\ op' = [op EXCEPT ![s] = Idle]
     /\ UNCHANGED <<row, notices, out, cur, alive, told>>

----------------------------------------------------------------------------

Worker(j) ==
  \/ StartRun(j) \/ Reclaim(j) \/ Spawn(j) \/ RecordChild(j) \/ KillRefused(j)
  \/ Collect(j) \/ TimeOut(j) \/ Return(j) \/ WriteResult(j)

Next ==
  \/ \E s \in Server, j \in Job : Admit(s, j)
  \/ \E j \in Job : Worker(j) \/ ChildExits(j)
  \/ \E s \in Server, j \in Job, kind \in {"get", "sweep", "cancel"} : Ask(s, kind, j)
  \/ \E s \in Server : Probe(s) \/ Lose(s) \/ Claim(s) \/ KillChild(s) \/ GiveUp(s) \/ Die(s)

Spec == Init /\ [][Next]_vars

(* A worker thread is scheduled, its run is bounded (the idle limit and the *)
(* ceiling), and a write its process owes is retried while that process     *)
(* lives.  Nothing obliges anyone to ask about a job or to cancel it.       *)
Fairness == \A j \in Job : WF_vars(Worker(j))

FairSpec == Spec /\ Fairness

----------------------------------------------------------------------------
(* Correctness.                                                            *)

(* Rows are rows, and one that exists has an owner. *)
RowsOK ==
  /\ row \in [Job -> Rows]
  /\ \A j \in Job : /\ row[j].child <= MaxChildren
                    /\ row[j].state # "absent" => row[j].owner \in Server

(* Every variable keeps to its domain. *)
TypeOK ==
  /\ RowsOK
  /\ up \in [Server -> BOOLEAN]
  /\ notices \in [Job -> Seq(TerminalStates)]
  /\ work \in [Job -> WorkStates]
  /\ out \in [Job -> Results]
  /\ cur \in [Job -> 0 .. MaxChildren]
  /\ alive \in [Job -> SUBSET Children]
  /\ excused \in [Job -> SUBSET (0 .. MaxChildren)]
  /\ told \in [Job -> {"nothing", "clean", "warned"}]
  /\ op \in [Server -> Ops]

(* A row has a result exactly when one completion message was sent for it,  *)
(* and that message still says what the row says: finish() commits the two  *)
(* together, repeats nothing, and no later transition moves the state       *)
(* (docs/architecture.md, "Durable completion").                            *)
NoticeMatchesRow ==
  \A j \in Job :
    IF row[j].result = "none" THEN notices[j] = <<>> ELSE notices[j] = <<row[j].state>>

(* `lost` is said only of a job whose owner is gone: an owner that could    *)
(* not be probed, or died after it had finished, never loses a result.      *)
LostMeansDead == \A j \in Job : row[j].state = "lost" => ~up[row[j].owner]

(* A child is spawned only for a job whose queued -> running claim was won, *)
(* so a cancel that lands first means the agent never runs.                 *)
NoChildUnlessClaimed == \A j \in Job : cur[j] > 0 => row[j].started

(* s holds j's child c and is about to signal it. *)
Signalling(s, j, c) == op[s].at = "kill" /\ op[s].job = j /\ op[s].child = c

(* After a cancel no child runs on unnoticed: each one still running is in  *)
(* the hands of the cancel about to signal it or of the worker whose record *)
(* of it was, or will be, refused, unless a failure put it out of reach.    *)
CancelReachesChild ==
  \A j \in Job : row[j].state = "cancelled" =>
    \A c \in alive[j] \ excused[j] :
      \/ c = cur[j] /\ work[j] \in {"claiming", "refused"}
      \/ \E s \in Server : Signalling(s, j, c)

(* One caller wins a cancel, and only the winner signals the child. *)
OneCanceller ==
  \A j \in Job, s, t \in Server :
    (op[s].at = "kill" /\ op[s].job = j) =>
      /\ row[j].state = "cancelled" /\ told[j] = "nothing"
      /\ (op[t].at = "kill" /\ op[t].job = j) => s = t

(* queued and running are one thing to the requester. *)
OutcomeOf(r) ==
  IF r.state \in ActiveStates THEN "open" ELSE r.state

(* The outcome a requester sees is settled once and told once, as           *)
(* JobPromise states it.                                                    *)
Promise == INSTANCE JobPromise WITH outcome <- [j \in Job |-> OutcomeOf(row[j])]
KeepsPromise == Promise!Spec

(* A job whose future the executor took is told its outcome, by a worker    *)
(* that ran it or by the write owed for it, or its server died first.       *)
AcceptedIsTold ==
  \A j \in Job : work[j] = "pending" ~> notices[j] # <<>> \/ work[j] = "none"

(* A cancel reported clean leaves the child it held dead: the comment on    *)
(* ALREADY_GONE says both refusals it trusts "mean our child is dead".      *)
CleanCancelMeansDead ==
  [][\A s \in Server, j \in Job :
       op[s].at = "kill" /\ op[s].job = j /\ told'[j] = "clean"
         => op[s].child \notin alive'[j]]_vars
=============================================================================
