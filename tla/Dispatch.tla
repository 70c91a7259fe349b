------------------------------ MODULE Dispatch ------------------------------
(***************************************************************************)
(* One server's background dispatch: admission under a bounded number of   *)
(* slots and the terminal writes the store refused (server.py), over an    *)
(* executor whose queued work can be removed (dispatch.py).                *)
(*                                                                         *)
(* Tool calls run in threads of their own, so admissions, cancels and      *)
(* polls interleave with each other and with the executor's workers; each  *)
(* step below is what one of them does under a lock, in one transaction,   *)
(* or on state no other thread reads.  Any store write may be refused,     *)
(* with or without having taken effect, and other servers may cancel a     *)
(* job at any time.  A crash of the server is Jobs.tla's.                  *)
(***************************************************************************)
EXTENDS JobRow, Integers, Sequences, FiniteSets, SequencesExt

CONSTANTS
  Self,        \* this server
  Job,         \* jobs this server may be asked to run, each once
  Caller,      \* concurrent tool calls and wake cycles
  Exit,        \* the thread that runs the interpreter's shutdown
  MaxPending,  \* _ASYNC_MAX_PENDING: admission slots
  MaxWorkers,  \* _ASYNC_MAX_WORKERS
  Refused      \* jobs whose terminal write the store always refuses

ASSUME SelfAssumption == Self \in Server
ASSUME ExitAssumption == Exit \notin Caller
ASSUME BoundsAssumption == MaxPending \in Nat \ {0} /\ MaxWorkers \in Nat \ {0}
ASSUME RefusedAssumption == Refused \subseteq Job

VARIABLES
  row,        \* row[j]: job j's durable row
  free,       \* _async_slots: admission slots left
  fut,        \* fut[j]: j's Future; "unsubmitted" once submit raised for it
  queue,      \* CancellableExecutor._pending: futures in order, not yet taken
  workers,    \* CancellableExecutor._workers: worker loops counted
  loops,      \* worker loops the thread pool holds, counted or not
  exec,       \* exec[j]: where the worker that took j stands
  tracked,    \* _pending_jobs
  debts,      \* _debts: owed writes, oldest first
  debtSlots,  \* _debt_slots: jobs whose slot waits for their debt
  pc,         \* pc[c]: where caller c stands
  settling,   \* who holds _settling, or "none"
  phase       \* where the process is between serving and gone

slots == <<free, debtSlots>>
pool == <<queue, workers, loops>>
process == <<settling, phase>>

vars == <<row, slots, fut, pool, exec, tracked, debts, pc, process>>

Threads == Caller \cup {Exit}

(* A debt: the job, the write ("finish", or mark_running and then finish),  *)
(* and who owed it, which tells one debt for a job from its replacement.    *)
Debt == [job : Job, kind : {"finish", "unstarted"}, by : Threads \cup {"worker"}]

(* Where a thread stands: the job in hand, the futures and debts it has     *)
(* still to go through, and where its call goes once it has reconciled.     *)
(* `stale` records what it had to retire, for ReconciledFirst.              *)
Idle == [at |-> "idle", job |-> "none", todo |-> {}, owed |-> <<>>, next |-> "none", stale |-> {}]

Places ==
  {"idle", "reconcile", "retire", "cancel", "callback", "owe", "acquire", "create", "submit",
   "fail", "track", "hook", "pay", "paid", "refused", "drain", "again"}

Init ==
  /\ row = [j \in Job |-> NoRow]
  /\ free = MaxPending
  /\ fut = [j \in Job |-> "none"]
  /\ queue = <<>>
  /\ workers = 0
  /\ loops = 0
  /\ exec = [j \in Job |-> "none"]
  /\ tracked = {}
  /\ debts = <<>>
  /\ debtSlots = {}
  /\ pc = [c \in Threads |-> Idle]
  /\ settling = "none"
  /\ phase = "serving"

----------------------------------------------------------------------------
(* What the store makes of a terminal write.                               *)

Settled(r, ok) == IF CanFinish(r, Self) THEN Finished(r, ok) ELSE r
Begun(r) == IF CanMarkRunning(r, Self) THEN MarkedRunning(r) ELSE r

Written(r, kind) == IF kind = "finish" THEN Settled(r, TRUE) ELSE Settled(Begun(r), FALSE)

(* A write that raised may have taken effect, whole or in part. *)
Torn(r, kind) == {r, Written(r, kind)} \cup (IF kind = "finish" THEN {} ELSE {Begun(r)})

(* What a write attempt for j leaves behind, and whether it raised. *)
Attempt(j, kind, raised) ==
  /\ j \in Refused => raised
  /\ \E r \in IF raised THEN Torn(row[j], kind) ELSE {Written(row[j], kind)} :
       /\ j \in Refused => r.result = row[j].result
       /\ row' = [row EXCEPT ![j] = r]

Owes(j) == \E i \in DOMAIN debts : debts[i].job = j

(* _debts[key] = write: in place of an older debt for j, else at the end. *)
WithDebt(d) ==
  IF Owes(d.job)
    THEN [i \in DOMAIN debts |-> IF debts[i].job = d.job THEN d ELSE debts[i]]
    ELSE Append(debts, d)

Without(d) == RemoveFirst(debts, d)

(* _owe: the write, kept as a debt if it raises. *)
Owe(j, kind, by) ==
  \E raised \in BOOLEAN :
    /\ Attempt(j, kind, raised)
    /\ debts' = IF raised THEN WithDebt([job |-> j, kind |-> kind, by |-> by]) ELSE debts

----------------------------------------------------------------------------
(* A future's end and its callback.                                        *)

(* Mutants of `finished`: the slot is freed whatever is owed, or freed even *)
(* as it is set aside for the debt.                                         *)
SlotFreed(j) ==
  /\ free' = free + 1
  /\ UNCHANGED debtSlots
SlotFreedToo(j) ==
  /\ free' = free + 1
  /\ debtSlots' = IF Owes(j) THEN debtSlots \cup {j} ELSE debtSlots

(* `finished`: an unpaid result keeps its slot until it is paid. *)
SlotReturned(j) ==
  IF Owes(j) THEN debtSlots' = debtSlots \cup {j} /\ UNCHANGED free
             ELSE free' = free + 1 /\ UNCHANGED debtSlots

(* _track_job's callback: `finished`, which forgets the future too. *)
Callback(j) ==
  /\ SlotReturned(j)
  /\ tracked' = tracked \ {j}

(* c has submitted j and not added the callback yet. *)
Tracking(c, j) == pc[c].at \in {"track", "hook"} /\ pc[c].job = j
Hooked(j) == \A c \in Caller : ~Tracking(c, j)

(* Future.cancel on a queued future, which leaves the executor (_forget). *)
CancelFuture(j) ==
  /\ fut[j] = "pending"
  /\ fut' = [fut EXCEPT ![j] = "cancelled"]
  /\ \E i \in DOMAIN queue : queue[i] = j /\ queue' = RemoveAt(queue, i)
  /\ UNCHANGED <<workers, loops>>

----------------------------------------------------------------------------
(* A worker loop of the executor, and the `_run` it calls.                 *)

Busy == {j \in Job : exec[j] # "none"}

(* A loop looks at the queue; the pool runs at most MaxWorkers at a time. *)
Looking == Cardinality(Busy) < loops /\ Cardinality(Busy) < MaxWorkers

Take(j) ==
  /\ Looking
  /\ queue # <<>> /\ Head(queue) = j
  /\ queue' = Tail(queue)
  /\ fut' = [fut EXCEPT ![j] = "running"]
  /\ exec' = [exec EXCEPT ![j] = "claim"]
  /\ UNCHANGED <<row, slots, workers, loops, tracked, debts, pc, process>>

Leave ==
  /\ Looking
  /\ queue = <<>>
  /\ workers' = workers - 1
  /\ loops' = loops - 1
  /\ UNCHANGED <<row, slots, fut, queue, exec, tracked, debts, pc, process>>

(* mark_running, and what its answer makes of the run. *)
RunClaim(j) ==
  LET can == CanMarkRunning(row[j], Self)
  IN /\ exec[j] = "claim"
     /\ \/ can /\ row' = [row EXCEPT ![j] = MarkedRunning(@)] /\ exec' = [exec EXCEPT ![j] = "ask"]
        \/ ~can /\ exec' = [exec EXCEPT ![j] = "finish"] /\ UNCHANGED row
        \/ row' = [row EXCEPT ![j] = Begun(@)] /\ exec' = [exec EXCEPT ![j] = "unstarted"]
        \/ exec' = [exec EXCEPT ![j] = "unstarted"] /\ UNCHANGED row
     /\ UNCHANGED <<slots, fut, pool, tracked, debts, pc, process>>

(* ask_fn returns: the agent's run, however it went. *)
RunAsk(j) ==
  /\ exec[j] = "ask"
  /\ exec' = [exec EXCEPT ![j] = "finish"]
  /\ UNCHANGED <<row, slots, fut, pool, tracked, debts, pc, process>>

RunWrite(j) ==
  /\ exec[j] \in {"finish", "unstarted"}
  /\ Owe(j, exec[j], "worker")
  /\ exec' = [exec EXCEPT ![j] = "return"]
  /\ UNCHANGED <<slots, fut, pool, tracked, pc, process>>

(* set_result; the callback is the worker's to run if it was added by then. *)
RunReturn(j) ==
  /\ exec[j] = "return"
  /\ fut' = [fut EXCEPT ![j] = "done"]
  /\ exec' = [exec EXCEPT ![j] = IF Hooked(j) THEN "callback" ELSE "none"]
  /\ UNCHANGED <<row, slots, pool, tracked, debts, pc, process>>

RunCallback(j) ==
  /\ exec[j] = "callback"
  /\ Callback(j)
  /\ exec' = [exec EXCEPT ![j] = "none"]
  /\ UNCHANGED <<row, fut, pool, debts, pc, process>>

Run(j) == Take(j) \/ RunClaim(j) \/ RunAsk(j) \/ RunWrite(j) \/ RunReturn(j) \/ RunCallback(j)

----------------------------------------------------------------------------
(* A tool call.                                                            *)

At(c, where) == pc[c].at = where
Goto(c, where) == pc' = [pc EXCEPT ![c].at = where]
Return(c) == pc' = [pc EXCEPT ![c] = Idle]
Reconciling(next) == [Idle EXCEPT !.at = "reconcile", !.next = next]

(* A tool call that is admitted an async job starts by reconciling. *)
BeginAdmit(c) ==
  /\ phase = "serving" /\ At(c, "idle")
  /\ \E j \in Job : row[j] = NoRow
  /\ pc' = [pc EXCEPT ![c] = Reconciling("acquire")]
  /\ UNCHANGED <<row, slots, fut, pool, exec, tracked, debts, process>>

(* job_cancel: request_cancel commits, then the same reconciling. *)
BeginCancel(c, j) ==
  /\ phase = "serving" /\ At(c, "idle")
  /\ CanCancel(row[j])
  /\ row' = [row EXCEPT ![j] = Cancelled(@)]
  /\ pc' = [pc EXCEPT ![c] = Reconciling("idle")]
  /\ UNCHANGED <<slots, fut, pool, exec, tracked, debts, process>>

(* The snapshot _retire_cancelled_jobs works through. *)
Reconcile(c) ==
  /\ At(c, "reconcile")
  /\ pc' = [pc EXCEPT ![c].at = "retire", ![c].todo = tracked,
                      ![c].stale = {j \in tracked : pc[c].next = "acquire" /\ row[j].state = "cancelled"}]
  /\ UNCHANGED <<row, slots, fut, pool, exec, tracked, debts, process>>

(* One future of the snapshot, passed over if it runs or is over. *)
RetireLook(c, j) ==
  /\ At(c, "retire") /\ j \in pc[c].todo
  /\ pc' = IF fut[j] = "pending"
             THEN [pc EXCEPT ![c].todo = @ \ {j}, ![c].at = "cancel", ![c].job = j]
             ELSE [pc EXCEPT ![c].todo = @ \ {j}]
  /\ UNCHANGED <<row, slots, fut, pool, exec, tracked, debts, process>>

GoOn(c) == pc' = [pc EXCEPT ![c].at = "retire", ![c].job = "none"]

(* Its row is read; Future.cancel also answers yes if another call cancelled *)
(* it since, and then leaves the callback to that call.                      *)
RetireCancel(c) ==
  LET j == pc[c].job
      wanted == row[j].state = "cancelled"
  IN /\ At(c, "cancel")
     /\ \/ /\ wanted /\ CancelFuture(j)
           /\ Goto(c, IF Hooked(j) THEN "callback" ELSE "owe")
        \/ /\ wanted /\ fut[j] = "cancelled"
           /\ Goto(c, "owe")
           /\ UNCHANGED <<fut, pool>>
        \/ /\ ~wanted \/ fut[j] \in {"running", "done"}
           /\ GoOn(c)
           /\ UNCHANGED <<fut, pool>>
     /\ UNCHANGED <<row, slots, exec, tracked, debts, process>>

RetireCallback(c) ==
  /\ At(c, "callback")
  /\ Callback(pc[c].job)
  /\ Goto(c, "owe")
  /\ UNCHANGED <<row, fut, pool, exec, debts, process>>

RetireOwe(c) ==
  /\ At(c, "owe")
  /\ Owe(pc[c].job, "finish", c)
  /\ GoOn(c)
  /\ UNCHANGED <<slots, fut, pool, exec, tracked, process>>

(* Mutant: a future whose row could not be read is passed over. *)
SkipUnread(c) ==
  /\ \/ At(c, "retire") /\ pc[c].todo = {} /\ Goto(c, pc[c].next)
     \/ At(c, "cancel") /\ GoOn(c)
  /\ UNCHANGED <<row, slots, fut, pool, exec, tracked, debts, process>>

(* The snapshot is worked through; or a read raised, which ends the call    *)
(* (before admission, as an error; after it or a cancel, suppressed).       *)
RetireEnd(c) ==
  /\ \/ At(c, "retire") /\ pc[c].todo = {} /\ pc[c].next = "idle" /\ Return(c)
     \/ At(c, "retire") /\ pc[c].todo = {} /\ pc[c].next # "idle" /\ Goto(c, pc[c].next)
     \/ At(c, "cancel") /\ Return(c)
  /\ UNCHANGED <<row, slots, fut, pool, exec, tracked, debts, process>>

(* A slot, or a refusal at once. *)
Acquire(c) ==
  /\ At(c, "acquire")
  /\ \/ free > 0 /\ free' = free - 1 /\ pc' = [pc EXCEPT ![c] = [Idle EXCEPT !.at = "create"]]
     \/ free = 0 /\ Return(c) /\ UNCHANGED free
  /\ UNCHANGED <<row, debtSlots, fut, pool, exec, tracked, debts, process>>

(* jobs.create; if it raises, the slot goes back, though the row may have   *)
(* been committed all the same.                                             *)
Create(c, j) ==
  /\ At(c, "create")
  /\ row[j] = NoRow
  /\ row' = [row EXCEPT ![j] = Created(Self)]
  /\ \/ pc' = [pc EXCEPT ![c].at = "submit", ![c].job = j] /\ UNCHANGED free
     \/ free' = free + 1 /\ Return(c)
  /\ UNCHANGED <<debtSlots, fut, pool, exec, tracked, debts, process>>

(* The lane is refused, or an error before the insert, and the slot goes back. *)
NotCreated(c) ==
  /\ At(c, "create")
  /\ free' = free + 1
  /\ Return(c)
  /\ UNCHANGED <<row, debtSlots, fut, pool, exec, tracked, debts, process>>

(* Mutant: a loop that did not start stays counted. *)
LoopStillCounted == workers' = workers + 1 /\ loops' = loops

(* A loop that does not start is not counted; the pool may hold its call,   *)
(* and run it, all the same.                                                *)
LoopRefused == workers' = workers /\ loops' \in {loops, loops + 1}

LoopStarted == workers' = workers + 1 /\ loops' = loops + 1

(* CancellableExecutor.submit: the job is queued, and a worker loop started *)
(* while there may be more; if it will not start, the job is taken back and *)
(* submit raises.                                                           *)
Submit(c) ==
  LET j == pc[c].job
  IN /\ At(c, "submit")
     /\ \/ /\ fut' = [fut EXCEPT ![j] = "pending"]
           /\ queue' = Append(queue, j)
           /\ IF workers < MaxWorkers THEN LoopStarted ELSE UNCHANGED <<workers, loops>>
           /\ Goto(c, "track")
           /\ UNCHANGED free
        \/ /\ workers < MaxWorkers
           /\ LoopRefused
           /\ fut' = [fut EXCEPT ![j] = "unsubmitted"]
           /\ free' = free + 1
           /\ Goto(c, "fail")
           /\ UNCHANGED queue
     /\ UNCHANGED <<row, debtSlots, exec, tracked, debts, process>>

(* _fail_unstarted. *)
SubmitFailed(c) ==
  /\ At(c, "fail")
  /\ Owe(pc[c].job, "unstarted", c)
  /\ Return(c)
  /\ UNCHANGED <<slots, fut, pool, exec, tracked, process>>

Track(c) ==
  /\ At(c, "track")
  /\ tracked' = tracked \cup {pc[c].job}
  /\ Goto(c, "hook")
  /\ UNCHANGED <<row, slots, fut, pool, exec, debts, process>>

(* add_done_callback, which runs the callback itself if the future has      *)
(* ended; then the receipt reconciles once more.                            *)
Hook(c) ==
  LET j == pc[c].job
  IN /\ At(c, "hook")
     /\ IF fut[j] \in {"cancelled", "done"} THEN Callback(j) ELSE UNCHANGED <<slots, tracked>>
     /\ pc' = [pc EXCEPT ![c] = Reconciling("idle")]
     /\ UNCHANGED <<row, fut, pool, exec, debts, process>>

Call(c) ==
  \/ Reconcile(c) \/ RetireCancel(c) \/ RetireCallback(c) \/ RetireOwe(c) \/ RetireEnd(c)
  \/ Acquire(c) \/ NotCreated(c) \/ Submit(c) \/ SubmitFailed(c) \/ Track(c) \/ Hook(c)
  \/ \E j \in Job : RetireLook(c, j) \/ Create(c, j)

----------------------------------------------------------------------------
(* Paying debts: a poll's, a job lookup's, a wake cycle's or the exit's.   *)

(* _settle_debts: one pass at a time, over the debts of the moment.  How    *)
(* long it rests after a refusal is left open.                              *)
BeginSettle(c) ==
  /\ phase = "serving" /\ At(c, "idle")
  /\ debts # <<>> /\ settling = "none"
  /\ settling' = c
  /\ pc' = [pc EXCEPT ![c] = [Idle EXCEPT !.at = "pay", !.owed = debts]]
  /\ UNCHANGED <<row, slots, fut, pool, exec, tracked, debts, phase>>

PayWrite(c, raised) ==
  /\ At(c, "pay") /\ pc[c].owed # <<>>
  /\ LET d == Head(pc[c].owed) IN Attempt(d.job, d.kind, raised)
  /\ Goto(c, IF raised THEN "refused" ELSE "paid")
  /\ UNCHANGED <<slots, fut, pool, exec, tracked, debts, process>>

StillOwed(d) == \E i \in DOMAIN debts : debts[i] = d

(* Removed only if it is still the debt that ran; its slot, if it has one, *)
(* is free again.                                                          *)
PayDone(c) ==
  LET d == Head(pc[c].owed)
      slot == StillOwed(d) /\ d.job \in debtSlots
  IN /\ At(c, "paid")
     /\ debts' = Without(d)
     /\ debtSlots' = IF slot THEN debtSlots \ {d.job} ELSE debtSlots
     /\ free' = IF slot THEN free + 1 ELSE free
     /\ pc' = [pc EXCEPT ![c].at = "pay", ![c].owed = Tail(@)]
     /\ UNCHANGED <<row, fut, pool, exec, tracked, process>>

(* Mutants: a refused debt keeps its place in the line, or is dropped. *)
InPlace(d) == debts
Dropped(d) == Without(d)

(* The refused debt goes to the back. *)
ToTheBack(d) == IF StillOwed(d) THEN Append(Without(d), d) ELSE debts

(* A pass is over; the exit's thread goes on to its next attempt. *)
EndPass(c) ==
  /\ settling' = "none"
  /\ pc' = [pc EXCEPT ![c] = [Idle EXCEPT !.at = IF c = Exit THEN "again" ELSE "idle"]]

PayRefused(c) ==
  /\ At(c, "refused")
  /\ debts' = ToTheBack(Head(pc[c].owed))
  /\ EndPass(c)
  /\ UNCHANGED <<row, slots, fut, pool, exec, tracked, phase>>

(* Nothing left of the snapshot. *)
PayEnd(c) ==
  /\ At(c, "pay")
  /\ pc[c].owed = <<>>
  /\ EndPass(c)
  /\ UNCHANGED <<row, slots, fut, pool, exec, tracked, debts, phase>>

Pay(c) == (\E raised \in BOOLEAN : PayWrite(c, raised)) \/ PayDone(c) \/ PayRefused(c) \/ PayEnd(c)

----------------------------------------------------------------------------
(* A clean exit.  No tool call is left by then: their threads are awaited   *)
(* before the interpreter's shutdown begins; only workers still run.        *)

(* _drain_async_executor_at_exit notes what was tracked, then closes the    *)
(* executor, which notes what is queued.                                    *)
Drain ==
  /\ phase = "serving"
  /\ \A c \in Caller : At(c, "idle")
  /\ phase' = "draining"
  /\ pc' = [pc EXCEPT ![Exit] = [Idle EXCEPT !.at = "drain", !.todo = tracked, !.owed = queue]]
  /\ UNCHANGED <<row, slots, fut, pool, exec, tracked, debts, settling>>

(* A worker may take a queued job first: it then runs as usual. *)
DrainOne ==
  /\ At(Exit, "drain") /\ pc[Exit].owed # <<>>
  /\ LET j == Head(pc[Exit].owed)
     IN \/ CancelFuture(j) /\ Callback(j)
        \/ fut[j] # "pending" /\ UNCHANGED <<slots, fut, pool, tracked>>
  /\ pc' = [pc EXCEPT ![Exit].owed = Tail(@)]
  /\ UNCHANGED <<row, exec, debts, process>>

(* Mutant: what the exit cancels is left to read lost. *)
LeftToReadLost(j) == debts

(* Each future the exit cancelled is owed a result, unless it already is. *)
OwedAtExit(j) ==
  IF fut[j] = "cancelled" /\ ~Owes(j)
    THEN Append(debts, [job |-> j, kind |-> "unstarted", by |-> Exit]) ELSE debts

DrainOwe(j) ==
  /\ At(Exit, "drain") /\ pc[Exit].owed = <<>> /\ j \in pc[Exit].todo
  /\ pc' = [pc EXCEPT ![Exit].todo = @ \ {j}]
  /\ debts' = OwedAtExit(j)
  /\ UNCHANGED <<row, slots, fut, pool, exec, tracked, process>>

(* threading._shutdown joins the workers; then atexit's _settle_at_exit. *)
Join ==
  /\ At(Exit, "drain") /\ pc[Exit].owed = <<>> /\ pc[Exit].todo = {}
  /\ loops = 0
  /\ phase' = "settling"
  /\ pc' = [pc EXCEPT ![Exit] = [Idle EXCEPT !.at = "again"]]
  /\ UNCHANGED <<row, slots, fut, pool, exec, tracked, debts, settling>>

(* It retries until nothing is owed or its time is up. *)
SettleAtExit ==
  /\ At(Exit, "again")
  /\ \/ /\ debts # <<>>
        /\ settling' = Exit
        /\ pc' = [pc EXCEPT ![Exit] = [Idle EXCEPT !.at = "pay", !.owed = debts]]
        /\ UNCHANGED phase
     \/ /\ phase' = IF debts = <<>> THEN "exited" ELSE "expired"
        /\ pc' = [pc EXCEPT ![Exit] = Idle]
        /\ UNCHANGED settling
  /\ UNCHANGED <<row, slots, fut, pool, exec, tracked, debts>>

(* A pass that meets the deadline begins no more debts. *)
OutOfTime ==
  /\ At(Exit, "pay") /\ pc[Exit].owed # <<>>
  /\ settling' = "none"
  /\ phase' = "expired"
  /\ pc' = [pc EXCEPT ![Exit] = Idle]
  /\ UNCHANGED <<row, slots, fut, pool, exec, tracked, debts>>

Leaving == OutOfTime \/ Drain \/ DrainOne \/ (\E j \in Job : DrainOwe(j)) \/ Join \/ SettleAtExit

----------------------------------------------------------------------------
(* Another server cancels a job of this one. *)
RemoteCancel(j) ==
  /\ CanCancel(row[j])
  /\ row' = [row EXCEPT ![j] = Cancelled(@)]
  /\ UNCHANGED <<slots, fut, pool, exec, tracked, debts, pc, process>>

Next ==
  \/ \E c \in Caller : BeginAdmit(c) \/ BeginSettle(c) \/ Call(c)
  \/ \E c \in Caller, j \in Job : BeginCancel(c, j)
  \/ \E c \in Threads : Pay(c)
  \/ \E j \in Job : Run(j) \/ RemoteCancel(j)
  \/ Leave \/ Leaving

Spec == Init /\ [][Next]_vars

(* What the threads' scheduling justifies.  A step of a running call, of a  *)
(* worker or of the exit is not put off forever; polls and wake cycles keep *)
(* coming, and each settles, so a pass starts if one can again and again;   *)
(* and a write the store may accept is accepted if it is tried forever.     *)
Fairness ==
  /\ \A c \in Caller : WF_vars(Call(c))
  /\ \A c \in Threads : WF_vars(Pay(c))
  /\ \A j \in Job : WF_vars(Run(j))
  /\ SF_vars(\E c \in Caller : BeginSettle(c))
  /\ \A j \in Job : SF_vars(\E c \in Threads : PayWrite(c, FALSE) /\ Head(pc[c].owed).job = j)
  /\ WF_vars(Leave)
  /\ WF_vars(DrainOne \/ (\E j \in Job : DrainOwe(j)) \/ Join \/ SettleAtExit)

FairSpec == Spec /\ Fairness

----------------------------------------------------------------------------
(* Where a job's slot is, and who has still to see to its result.          *)

CallbackDue(j) ==
  \/ exec[j] = "callback"
  \/ \E c \in Caller : Tracking(c, j) \/ (At(c, "callback") /\ pc[c].job = j)

HoldsSlot(j) == fut[j] \in {"pending", "running"} \/ CallbackDue(j) \/ j \in debtSlots

Reserving == {c \in Caller : pc[c].at \in {"create", "submit"}}

Accepted(j) == fut[j] # "none"

SeenTo(j) ==
  \/ fut[j] = "pending"
  \/ exec[j] \in {"claim", "ask", "finish", "unstarted"}
  \/ Owes(j)
  \/ \E c \in Caller : pc[c].job = j /\ pc[c].at \in {"callback", "owe", "fail"}
  \/ At(Exit, "drain") /\ j \in pc[Exit].todo

----------------------------------------------------------------------------
(* Every variable keeps its type; a job is owed one write at a time, and is *)
(* queued once, while its future is pending.                                *)
TypeOK ==
  /\ row \in [Job -> Rows]
  /\ free \in 0 .. MaxPending
  /\ fut \in [Job -> {"none", "pending", "running", "cancelled", "done", "unsubmitted"}]
  /\ workers \in Int /\ loops \in Nat /\ workers <= loops
  /\ exec \in [Job -> {"none", "claim", "ask", "finish", "unstarted", "return", "callback"}]
  /\ tracked \subseteq Job /\ debtSlots \subseteq Job
  /\ \A i \in DOMAIN debts : debts[i] \in Debt
  /\ \A i, k \in DOMAIN debts : debts[i].job = debts[k].job => i = k
  /\ \A i, k \in DOMAIN queue : queue[i] = queue[k] => i = k
  /\ {queue[i] : i \in DOMAIN queue} = {j \in Job : fut[j] = "pending"}
  /\ \A c \in Threads : pc[c].at \in Places /\ pc[c].job \in Job \cup {"none"}
  /\ settling \in Threads \cup {"none"}
  /\ phase \in {"serving", "draining", "settling", "exited", "expired"}

(* Admission slots are neither lost nor made: every one is free, with a     *)
(* call that is admitting, or with exactly one job that is queued, running, *)
(* not called back yet, or unpaid (_admit_async, _track_job, _pay_owed).    *)
SlotsConserved ==
  free + Cardinality(Reserving) + Cardinality({j \in Job : HoldsSlot(j)}) = MaxPending

(* Admission bounds debts too (server.py:138-139): a job that ran and whose *)
(* result the store has not taken keeps its slot; and a slot set aside for  *)
(* a debt always has that debt still to free it.                            *)
UnpaidKeepsSlot ==
  /\ \A j \in Job : fut[j] = "done" /\ Owes(j) /\ ~CallbackDue(j) => j \in debtSlots
  /\ \A j \in debtSlots : Owes(j)

(* A job this process accepted and that has no result is never forgotten:  *)
(* it is queued, with a worker, owed, or with the thread about to write it, *)
(* until the exit gives up on its debts.                                    *)
NothingForgotten ==
  \A j \in Job : Accepted(j) /\ row[j].result = "none" /\ phase # "expired" => SeenTo(j)

(* A process that exits owing nothing has recorded a result for every job  *)
(* it accepted: none is left to read `lost` (_settle_at_exit).              *)
ExitOwesNothing ==
  phase = "exited" => \A j \in Job : Accepted(j) => row[j].result # "none"

(* Queued work always has a worker loop to come for it: a loop leaves only *)
(* when the queue is empty, and one that failed to start is not counted.    *)
NoIdleQueue == queue # <<>> => loops > 0

(* Before a call is admitted or refused for want of a slot, every queued    *)
(* job it found cancelled has left the executor: cancelled work cannot      *)
(* crowd out its replacement (_retire_cancelled_jobs).                      *)
ReconciledFirst ==
  \A c \in Caller : At(c, "acquire") => \A j \in pc[c].stale : fut[j] # "pending"

(* Every accepted job gets its result, unless the process gives up on its   *)
(* debts at exit: a debt the store keeps refusing does not hold up the ones *)
(* behind it (_settle_debts).                                               *)
AcceptedIsSettled ==
  \A j \in Job \ Refused : Accepted(j) ~> (row[j].result # "none" \/ phase = "expired")
=============================================================================
