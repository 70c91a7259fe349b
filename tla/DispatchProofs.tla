--------------------------- MODULE DispatchProofs ---------------------------
(***************************************************************************)
(* The safety of Dispatch.tla for any jobs, tool calls, slots and workers: *)
(* one inductive invariant, Inductive, and what follows from it.           *)
(***************************************************************************)
EXTENDS Dispatch, DataLemmas

----------------------------------------------------------------------------
(* The inductive invariant. *)

Futures == {"none", "pending", "running", "cancelled", "done", "unsubmitted"}
Runs == {"none", "claim", "ask", "finish", "unstarted", "return", "callback"}
Phases == {"serving", "draining", "settling", "exited", "expired"}
Paying == {"pay", "paid", "refused"}
Retiring == {"retire", "cancel", "callback", "owe"}
WithJob == {"cancel", "callback", "owe", "submit", "fail", "track", "hook"}

Pcs == [at : Places, job : Job \cup {"none"}, todo : SUBSET Job,
        owed : Seq(Job) \cup Seq(Debt), next : {"none", "idle", "acquire"}, stale : SUBSET Job]

(* Every variable apart from where the threads stand. *)
BaseType ==
  /\ row \in [Job -> Rows] /\ free \in Nat
  /\ fut \in [Job -> Futures] /\ exec \in [Job -> Runs]
  /\ queue \in Seq(Job) /\ workers \in Int /\ loops \in Nat
  /\ tracked \in SUBSET Job /\ debtSlots \in SUBSET Job
  /\ debts \in Seq(Debt)
  /\ settling \in Threads \cup {"none"} /\ phase \in Phases

(* What each thread has in hand where it stands. *)
StandsOK(c) ==
  /\ pc[c].at \in WithJob => pc[c].job \in Job
  /\ pc[c].at \in Paying => pc[c].owed \in Seq(Debt)
  /\ pc[c].at \in {"paid", "refused"} => pc[c].owed # <<>>
  /\ pc[c].at = "drain" => pc[c].owed \in Seq(Job)
  /\ pc[c].at \in {"reconcile"} \cup Retiring => pc[c].next \in {"idle", "acquire"}
  /\ c \in Caller => pc[c].at \notin {"drain", "again"}
  /\ c = Exit => pc[c].at \in {"idle", "drain", "again"} \cup Paying

Standing == pc \in [Threads -> Pcs] /\ \A c \in Threads : StandsOK(c)

(* The executor: the queue is the pending futures, each once; what a worker *)
(* runs has its loop; and a loop is counted only if the pool holds it.      *)
QueueOK ==
  /\ \A i, k \in DOMAIN queue : queue[i] = queue[k] => i = k
  /\ \A i \in DOMAIN queue : fut[queue[i]] = "pending"
  /\ \A j \in Job : fut[j] = "pending" => \E i \in DOMAIN queue : queue[i] = j

PoolOK ==
  /\ QueueOK
  /\ workers <= loops
  /\ IsFiniteSet(Busy) /\ Cardinality(Busy) <= loops
  /\ \A j \in Job :
       /\ fut[j] = "running" <=> exec[j] \in {"claim", "ask", "finish", "unstarted", "return"}
       /\ exec[j] = "callback" => fut[j] = "done"

(* A row keeps its owner, and one that is over has a result. *)
RowOK(r) ==
  /\ r.state # "absent" => r.owner = Self
  /\ r.state \in {"completed", "failed"} => r.result # "none"

(* A write of that kind, once it is accepted, leaves a result. *)
Writable(r, kind) == r.state # "absent" /\ (kind = "finish" => r.state # "queued")

RowsOK ==
  \A j \in Job :
    /\ RowOK(row[j])
    /\ fut[j] # "none" => row[j].state # "absent"
    /\ exec[j] \in {"ask", "finish"} => row[j].state # "queued"

(* The jobs whose future a thread may have met. *)
Submitted(j) == fut[j] \in {"pending", "running", "cancelled", "done"}

HandOK(c) ==
  LET j == pc[c].job
  IN /\ pc[c].at = "submit" => fut[j] = "none" /\ row[j].state # "absent"
     /\ pc[c].at = "fail" => fut[j] = "unsubmitted"
     /\ pc[c].at \in {"track", "hook", "cancel"} => Submitted(j)
     /\ pc[c].at \in {"callback", "owe"} => fut[j] = "cancelled" /\ row[j].state = "cancelled"
     /\ \A k \in pc[c].todo : Submitted(k)
     /\ \A k \in pc[c].stale : Submitted(k) /\ row[k].state = "cancelled"

Hands ==
  /\ \A c \in Caller : HandOK(c)
  /\ \A j \in tracked : Submitted(j)
  /\ \A j \in Job : fut[j] \in {"pending", "running"} =>
       j \in tracked \/ \E c \in Caller : At(c, "track") /\ pc[c].job = j
  /\ \A c, d \in Caller : At(c, "submit") /\ At(d, "submit") /\ pc[c].job = pc[d].job => c = d

(* One thread at most has still to run a job's callback, and none once its  *)
(* slot was set aside.                                                      *)
CallingBack(c, j) == At(c, "callback") /\ pc[c].job = j

Callbacks ==
  /\ \A c, d \in Caller, j \in Job :
       (Tracking(c, j) \/ CallingBack(c, j)) /\ (Tracking(d, j) \/ CallingBack(d, j)) => c = d
  /\ \A c \in Caller, j \in Job : Tracking(c, j) => exec[j] # "callback"
  /\ \A j \in debtSlots : fut[j] \in {"done", "cancelled"} /\ ~CallbackDue(j)

(* A job is owed one write at a time, and one that will give it a result. *)
DebtsOK ==
  /\ \A i, k \in DOMAIN debts : debts[i].job = debts[k].job => i = k
  /\ \A i \in DOMAIN debts :
       Writable(row[debts[i].job], debts[i].kind) /\ fut[debts[i].job] \notin {"none", "pending"}
  /\ \A c \in Threads : pc[c].at \in Paying =>
       \A i \in DOMAIN pc[c].owed : Writable(row[pc[c].owed[i].job], pc[c].owed[i].kind)
  /\ \A c \in Threads : pc[c].at = "paid" => row[Head(pc[c].owed).job].result # "none"

(* The way out: no call is left, then no worker, then no debt. *)
Ways ==
  /\ phase # "serving" => \A c \in Caller : At(c, "idle")
  /\ phase = "draining" <=> At(Exit, "drain")
  /\ pc[Exit].at \in {"again"} \cup Paying => phase = "settling"
  /\ phase \in {"settling", "exited"} => loops = 0
  /\ phase = "exited" => debts = <<>>
  /\ phase = "draining" => \A j \in Job : fut[j] = "pending" =>
       j \in pc[Exit].todo /\ \E i \in DOMAIN pc[Exit].owed : pc[Exit].owed[i] = j

Counted ==
  /\ IsFiniteSet(Reserving) /\ IsFiniteSet({j \in Job : HoldsSlot(j)})
  /\ SlotsConserved

(* As SeenTo, but the exit has to see only to what was cancelled. *)
SeenToBy(j) ==
  \/ fut[j] = "pending"
  \/ exec[j] \in {"claim", "ask", "finish", "unstarted"}
  \/ Owes(j)
  \/ \E c \in Caller : pc[c].job = j /\ pc[c].at \in {"callback", "owe", "fail"}
  \/ At(Exit, "drain") /\ j \in pc[Exit].todo /\ fut[j] = "cancelled"

Remembered ==
  \A j \in Job : Accepted(j) /\ row[j].result = "none" /\ phase # "expired" => SeenToBy(j)

(* A queued job found cancelled is one the call has still to retire. *)
Reconciled ==
  \A c \in Caller :
    /\ pc[c].at \in Retiring => \A j \in pc[c].stale :
         fut[j] = "pending" => j \in pc[c].todo \/ (At(c, "cancel") /\ pc[c].job = j)
    /\ At(c, "acquire") => \A j \in pc[c].stale : fut[j] # "pending"

Inductive ==
  /\ BaseType /\ Standing /\ PoolOK /\ RowsOK /\ Hands /\ Callbacks /\ DebtsOK /\ Ways
  /\ Counted /\ UnpaidKeepsSlot /\ NoIdleQueue /\ Remembered /\ Reconciled

----------------------------------------------------------------------------
(* Rows. *)

(* What a step may make of a row. *)
Onward(r, t) ==
  /\ t \in Rows /\ RowOK(t)
  /\ r.state # "absent" => t.state # "absent"
  /\ r.state \notin {"absent", "queued"} => t.state \notin {"absent", "queued"}
  /\ r.state = "cancelled" => t.state = "cancelled"
  /\ r.result # "none" => t.result # "none"

LEMMA SettledColumns ==
  ASSUME NEW r \in Rows, RowOK(r), NEW ok \in BOOLEAN
  PROVE  /\ Onward(r, Settled(r, ok))
         /\ r.state \notin {"absent", "queued"} => Settled(r, ok).result # "none"
<1>1. CASE ~CanFinish(r, Self)
  BY <1>1 DEF Onward, Settled, RowOK, CanFinish, Rows, ActiveStates, TerminalStates
<1>2. CASE CanFinish(r, Self)
  <2> DEFINE t == Settled(r, ok)
  <2>1. /\ t \in Rows /\ t.owner = r.owner /\ t.result \in {"ok", "bad"}
        /\ t.state = IF r.state = "cancelled" THEN r.state ELSE IF ok THEN "completed" ELSE "failed"
    BY <1>2 DEF Settled, Finished, Rows, TerminalStates, ActiveStates, Results
  <2> QED BY <1>2, <2>1 DEF Onward, RowOK, CanFinish
<1> QED BY <1>1, <1>2

LEMMA BegunColumns ==
  ASSUME NEW r \in Rows, RowOK(r)
  PROVE  /\ Onward(r, Begun(r))
         /\ r.state # "absent" => Begun(r).state \notin {"absent", "queued"}
<1>1. CASE ~CanMarkRunning(r, Self)
  BY <1>1 DEF Onward, Begun, RowOK, CanMarkRunning
<1>2. CASE CanMarkRunning(r, Self)
  <2> DEFINE t == Begun(r)
  <2>1. t \in Rows /\ t.owner = r.owner /\ t.result = r.result /\ t.state = "running"
    BY <1>2 DEF Begun, MarkedRunning, Rows, ActiveStates
  <2> QED BY <1>2, <2>1 DEF Onward, RowOK, CanMarkRunning
<1> QED BY <1>1, <1>2

LEMMA CancelledColumns ==
  ASSUME NEW r \in Rows, RowOK(r), CanCancel(r)
  PROVE  Onward(r, Cancelled(r))
<1> DEFINE t == Cancelled(r)
<1>1. t \in Rows /\ t.owner = r.owner /\ t.result = r.result /\ t.state = "cancelled"
  BY DEF Cancelled, Rows, TerminalStates
<1>2. r.state \in {"queued", "running"}
  BY DEF CanCancel, ActiveStates
<1> QED BY <1>1, <1>2 DEF Onward, RowOK

LEMMA OnwardTwice ==
  ASSUME NEW r, NEW s, NEW t, Onward(r, s), Onward(s, t)
  PROVE  Onward(r, t)
BY DEF Onward

LEMMA WrittenColumns ==
  ASSUME NEW r \in Rows, RowOK(r), NEW kind \in {"finish", "unstarted"}
  PROVE  /\ Onward(r, Written(r, kind))
         /\ Writable(r, kind) => Written(r, kind).result # "none"
<1>1. CASE kind = "finish"
  BY <1>1, SettledColumns DEF Written, Writable
<1>2. CASE kind = "unstarted"
  <2>1. Begun(r) \in Rows /\ RowOK(Begun(r)) /\ Onward(r, Begun(r))
        /\ (r.state # "absent" => Begun(r).state \notin {"absent", "queued"})
    BY BegunColumns DEF Onward
  <2>2. /\ Onward(Begun(r), Settled(Begun(r), FALSE))
        /\ Begun(r).state \notin {"absent", "queued"} => Settled(Begun(r), FALSE).result # "none"
    BY <2>1, SettledColumns
  <2>3. Written(r, kind) = Settled(Begun(r), FALSE)
    BY <1>2 DEF Written
  <2> QED BY <2>1, <2>2, <2>3, OnwardTwice DEF Writable
<1> QED BY <1>1, <1>2

(* A write attempt moves one row, and gives it a result unless it raised. *)
LEMMA AttemptEffect ==
  ASSUME row \in [Job -> Rows], RowsOK, NEW j \in Job, NEW kind \in {"finish", "unstarted"},
         NEW raised \in BOOLEAN, Attempt(j, kind, raised)
  PROVE  /\ row' \in [Job -> Rows]
         /\ \A k \in Job : Onward(row[k], row'[k])
         /\ \A k \in Job : k # j => row'[k] = row[k]
         /\ ~raised /\ Writable(row[j], kind) => row'[j].result # "none"
<1>1. \A k \in Job : row[k] \in Rows /\ RowOK(row[k]) /\ Onward(row[k], row[k])
  BY DEF RowsOK, Onward
<1>2. PICK r \in IF raised THEN Torn(row[j], kind) ELSE {Written(row[j], kind)} :
        row' = [row EXCEPT ![j] = r]
  BY DEF Attempt
<1>3. Onward(row[j], r)
  BY <1>1, <1>2, WrittenColumns, BegunColumns DEF Torn
<1>4. ~raised /\ Writable(row[j], kind) => r.result # "none"
  BY <1>1, <1>2, WrittenColumns
<1>5. r \in Rows
  BY <1>3 DEF Onward
<1> QED BY <1>1, <1>2, <1>3, <1>4, <1>5

----------------------------------------------------------------------------
(* Debts. *)

OneEach(s) == \A i, k \in DOMAIN s : s[i].job = s[k].job => i = k
Among(d, s) == \E i \in DOMAIN s : s[i] = d

LEMMA DebtFields == ASSUME NEW d \in Debt PROVE d.job \in Job /\ d.kind \in {"finish", "unstarted"}
BY DEF Debt

(* A new debt takes the place of the job's older one. *)
LEMMA WithDebtEffect ==
  ASSUME debts \in Seq(Debt), OneEach(debts), NEW d \in Debt
  PROVE  /\ WithDebt(d) \in Seq(Debt) /\ OneEach(WithDebt(d))
         /\ \A e : Among(e, WithDebt(d)) <=> e = d \/ (Among(e, debts) /\ e.job # d.job)
<1>0. /\ DOMAIN debts = 1 .. Len(debts) /\ Len(debts) \in Nat
      /\ \A i \in DOMAIN debts : debts[i] \in Debt
  BY LenProperties, ElementOfSeq
<1>1. CASE Owes(d.job)
  <2> DEFINE t == [i \in DOMAIN debts |-> IF debts[i].job = d.job THEN d ELSE debts[i]]
  <2>1. t \in [1 .. Len(debts) -> Debt] /\ DOMAIN t = DOMAIN debts /\ WithDebt(d) = t
    BY <1>0, <1>1 DEF WithDebt
  <2>2. t \in Seq(Debt)
    <3> HIDE DEF t
    <3> QED BY <1>0, <2>1, IsASeq
  <2>3. \A i \in DOMAIN t : t[i].job = debts[i].job
    OBVIOUS
  <2>4. OneEach(t)
    BY <2>1, <2>3 DEF OneEach
  <2>5. ASSUME NEW e PROVE Among(e, t) <=> e = d \/ (Among(e, debts) /\ e.job # d.job)
    BY <1>1 DEF Among, Owes
  <2> QED BY <2>1, <2>2, <2>4, <2>5
<1>2. CASE ~Owes(d.job)
  <2> DEFINE t == Append(debts, d)
  <2>1. /\ t \in Seq(Debt) /\ DOMAIN t = 1 .. Len(debts) + 1 /\ t[Len(debts) + 1] = d
        /\ \A i \in 1 .. Len(debts) : t[i] = debts[i]
    <3>1. /\ t \in Seq(Debt) /\ Len(t) = Len(debts) + 1 /\ t[Len(debts) + 1] = d
          /\ \A i \in 1 .. Len(debts) : t[i] = debts[i]
      BY AppendProperties
    <3> HIDE DEF t
    <3> QED BY <3>1, LenProperties
  <2>2. WithDebt(d) = t
    BY <1>2 DEF WithDebt
  <2>3. \A i \in 1 .. Len(debts) : debts[i].job # d.job
    BY <1>0, <1>2 DEF Owes
  <2> HIDE DEF t
  <2>4. OneEach(t)
    <3> SUFFICES ASSUME NEW i \in 1 .. Len(debts) + 1, NEW k \in 1 .. Len(debts) + 1,
                        t[i].job = t[k].job
                 PROVE  i = k
      BY <2>1 DEF OneEach
    <3>1. (i \in 1 .. Len(debts) \/ i = Len(debts) + 1) /\ (k \in 1 .. Len(debts) \/ k = Len(debts) + 1)
      BY <1>0
    <3> QED BY <1>0, <2>1, <2>3, <3>1 DEF OneEach
  <2>5. ASSUME NEW e PROVE Among(e, t) <=> e = d \/ (Among(e, debts) /\ e.job # d.job)
    <3>1. Among(e, t) => e = d \/ Among(e, debts)
      BY <1>0, <2>1 DEF Among
    <3>2. Among(e, debts) => e.job # d.job /\ Among(e, t)
      BY <1>0, <2>1, <2>3 DEF Among
    <3>3. Among(d, t)
      BY <1>0, <2>1 DEF Among
    <3>4. e = d => Among(e, t)
      BY <3>3
    <3> QED BY <3>1, <3>2, <3>4
  <2> QED BY <2>1, <2>2, <2>4, <2>5
<1> QED BY <1>1, <1>2

(* A paid debt goes, and no other. *)
LEMMA WithoutEffect ==
  ASSUME debts \in Seq(Debt), OneEach(debts), NEW d
  PROVE  /\ Without(d) \in Seq(Debt) /\ OneEach(Without(d))
         /\ \A e : Among(e, Without(d)) <=> Among(e, debts) /\ e # d
<1>0. /\ DOMAIN debts = 1 .. Len(debts) /\ Len(debts) \in Nat
  BY LenProperties
<1>1. CASE \E i \in 1 .. Len(debts) : debts[i] = d
  <2>1. PICK i \in 1 .. Len(debts) : debts[i] = d /\ Without(d) = RemoveAt(debts, i)
    BY <1>1, RemoveFirstEffect DEF Without
  <2> DEFINE t == Without(d)
  <2>2. t \in Seq(Debt) /\ Rest(debts, i, t)
    BY <2>1, RemoveAtRest
  <2> HIDE DEF t
  <2>3. DOMAIN t = 1 .. Len(t)
    BY <2>2, LenProperties
  <2>4. OneEach(t)
    <3> SUFFICES ASSUME NEW k \in 1 .. Len(t), NEW l \in 1 .. Len(t), t[k].job = t[l].job, k # l
                 PROVE  FALSE
      BY <2>3 DEF OneEach
    <3>1. PICK m, o \in 1 .. Len(debts) : m # o /\ t[k] = debts[m] /\ t[l] = debts[o]
      BY <2>2 DEF Rest
    <3> QED BY <1>0, <3>1 DEF OneEach
  <2>5. \A m \in 1 .. Len(debts) : m # i => debts[m] # d
    BY <1>0, <2>1 DEF OneEach
  <2>6. ASSUME NEW e PROVE Among(e, t) <=> Among(e, debts) /\ e # d
    <3>1. ASSUME NEW k \in 1 .. Len(t), t[k] = e PROVE Among(e, debts) /\ e # d
      <4>1. PICK m \in 1 .. Len(debts) : m # i /\ t[k] = debts[m]
        BY <2>2 DEF Rest
      <4> QED BY <1>0, <2>5, <3>1, <4>1 DEF Among
    <3>2. Among(e, debts) /\ e # d => Among(e, t)
      BY <1>0, <2>1, <2>2, <2>3 DEF Among, Rest
    <3> QED BY <2>3, <3>1, <3>2 DEF Among
  <2> QED BY <2>2, <2>4, <2>6 DEF t
<1>2. CASE ~\E i \in 1 .. Len(debts) : debts[i] = d
  <2>1. Without(d) = debts
    BY <1>2, RemoveFirstEffect DEF Without
  <2> QED BY <1>0, <1>2, <2>1 DEF Among
<1> QED BY <1>1, <1>2

(* A refused debt changes its place only. *)
LEMMA ToTheBackEffect ==
  ASSUME debts \in Seq(Debt), OneEach(debts), NEW d
  PROVE  /\ ToTheBack(d) \in Seq(Debt) /\ OneEach(ToTheBack(d))
         /\ \A e : Among(e, ToTheBack(d)) <=> Among(e, debts)
<1>1. CASE ~StillOwed(d)
  BY <1>1 DEF ToTheBack
<1>2. CASE StillOwed(d)
  <2> DEFINE s == Without(d)
             t == Append(s, d)
  <2>1. /\ s \in Seq(Debt) /\ OneEach(s) /\ d \in Debt
        /\ \A e : Among(e, s) <=> Among(e, debts) /\ e # d
    BY <1>2, WithoutEffect, ElementOfSeq, LenProperties DEF StillOwed
  <2>2. ToTheBack(d) = t
    BY <1>2 DEF ToTheBack
  <2>3. DOMAIN s = 1 .. Len(s) /\ Len(s) \in Nat
    BY <2>1, LenProperties
  <2>4. ASSUME NEW i \in DOMAIN s PROVE s[i].job # d.job
    <3>1. Among(s[i], s)
      BY DEF Among
    <3>2. Among(s[i], debts) /\ s[i] # d
      BY <2>1, <3>1
    <3> QED BY <1>2, <3>2 DEF Among, StillOwed, OneEach
  <2> HIDE DEF s
  <2>5. /\ t \in Seq(Debt) /\ DOMAIN t = 1 .. Len(s) + 1 /\ t[Len(s) + 1] = d
        /\ \A i \in 1 .. Len(s) : t[i] = s[i]
    <3>1. /\ t \in Seq(Debt) /\ Len(t) = Len(s) + 1 /\ t[Len(s) + 1] = d
          /\ \A i \in 1 .. Len(s) : t[i] = s[i]
      BY <2>1, AppendProperties
    <3> HIDE DEF t
    <3> QED BY <3>1, LenProperties
  <2> HIDE DEF t
  <2>6. OneEach(t)
    <3> SUFFICES ASSUME NEW i \in 1 .. Len(s) + 1, NEW k \in 1 .. Len(s) + 1, t[i].job = t[k].job
                 PROVE  i = k
      BY <2>5 DEF OneEach
    <3>1. (i \in 1 .. Len(s) \/ i = Len(s) + 1) /\ (k \in 1 .. Len(s) \/ k = Len(s) + 1)
      BY <2>3
    <3> QED BY <2>1, <2>3, <2>4, <2>5, <3>1 DEF OneEach
  <2>7. ASSUME NEW e PROVE Among(e, t) <=> Among(e, debts)
    <3>1. Among(e, t) => Among(e, s) \/ e = d
      BY <2>3, <2>5 DEF Among
    <3>2. Among(e, s) => Among(e, t)
      BY <2>3, <2>5 DEF Among
    <3>3. Among(d, t) /\ Among(d, debts)
      BY <1>2, <2>3, <2>5 DEF Among, StillOwed
    <3> QED BY <2>1, <3>1, <3>2, <3>3
  <2> QED BY <2>2, <2>5, <2>6, <2>7
<1> QED BY <1>1, <1>2

----------------------------------------------------------------------------
(* Where the threads stand. *)

LEMMA IdleFields ==
  /\ Idle \in Pcs /\ Idle.at = "idle" /\ Idle.job = "none" /\ Idle.todo = {} /\ Idle.owed = <<>>
  /\ Idle.next = "none" /\ Idle.stale = {}
<1>1. <<>> \in Seq(Job)
  BY EmptySeq
<1> QED BY <1>1 DEF Idle, Pcs, Places

LEMMA Fields ==
  ASSUME Standing, NEW c \in Threads
  PROVE  /\ pc[c] \in Pcs /\ pc[c].at \in Places /\ pc[c].todo \in SUBSET Job
         /\ pc[c].stale \in SUBSET Job /\ pc[c].next \in {"none", "idle", "acquire"}
         /\ StandsOK(c)
BY DEF Standing, Pcs

(* The others stay where they are. *)
Alone(c) == \A d \in Threads : d # c => pc'[d] = pc[d]

LEMMA StepsTo ==
  ASSUME Standing, NEW c \in Threads, NEW p, pc' = [pc EXCEPT ![c] = p]
  PROVE  pc'[c] = p /\ Alone(c) /\ (p \in Pcs => pc' \in [Threads -> Pcs])
BY DEF Standing, Alone

LEMMA GotoEffect ==
  ASSUME Standing, NEW c \in Threads, NEW where, Goto(c, where)
  PROVE  /\ pc'[c].at = where /\ pc'[c].job = pc[c].job /\ pc'[c].todo = pc[c].todo
         /\ pc'[c].owed = pc[c].owed /\ pc'[c].next = pc[c].next /\ pc'[c].stale = pc[c].stale
         /\ Alone(c) /\ (where \in Places => pc' \in [Threads -> Pcs])
<1>1. pc[c] \in Pcs /\ pc \in [Threads -> Pcs]
  BY DEF Standing
<1>2. pc'[c] = [pc[c] EXCEPT !.at = where] /\ Alone(c)
  BY <1>1 DEF Goto, Alone
<1>3. where \in Places => [pc[c] EXCEPT !.at = where] \in Pcs
  BY <1>1 DEF Pcs
<1>4. pc' = [pc EXCEPT ![c] = [pc[c] EXCEPT !.at = where]]
  BY <1>1 DEF Goto
<1> QED BY <1>1, <1>2, <1>3, <1>4 DEF Pcs

LEMMA ReturnEffect ==
  ASSUME Standing, NEW c \in Threads, Return(c)
  PROVE  pc'[c] = Idle /\ Alone(c) /\ pc' \in [Threads -> Pcs]
BY StepsTo, IdleFields DEF Return

LEMMA GoOnEffect ==
  ASSUME Standing, NEW c \in Threads, GoOn(c)
  PROVE  /\ pc'[c].at = "retire" /\ pc'[c].todo = pc[c].todo
         /\ pc'[c].owed = pc[c].owed /\ pc'[c].next = pc[c].next /\ pc'[c].stale = pc[c].stale
         /\ Alone(c) /\ pc' \in [Threads -> Pcs]
<1>1. pc[c] \in Pcs /\ pc \in [Threads -> Pcs]
  BY DEF Standing
<1>2. pc' = [pc EXCEPT ![c] = [pc[c] EXCEPT !.at = "retire", !.job = "none"]]
  BY <1>1 DEF GoOn
<1>3. [pc[c] EXCEPT !.at = "retire", !.job = "none"] \in Pcs
  BY <1>1 DEF Pcs, Places
<1>4. pc'[c] = [pc[c] EXCEPT !.at = "retire", !.job = "none"]
  BY <1>1, <1>2
<1> QED BY <1>1, <1>2, <1>3, <1>4, StepsTo DEF Pcs

(* A thread that starts over: at a place, with nothing in hand. *)
LEMMA StartEffect ==
  ASSUME Standing, NEW c \in Threads, NEW where \in Places, pc' = [pc EXCEPT ![c] = [Idle EXCEPT !.at = where]]
  PROVE  /\ pc'[c].at = where /\ pc'[c].todo = {} /\ pc'[c].owed = <<>> /\ pc'[c].stale = {}
         /\ Alone(c) /\ pc' \in [Threads -> Pcs]
<1>1. [Idle EXCEPT !.at = where] \in Pcs
  BY IdleFields DEF Pcs
<1> QED BY <1>1, IdleFields, StepsTo DEF Idle

LEMMA ReconcilingEffect ==
  ASSUME Standing, NEW c \in Threads, NEW next \in {"idle", "acquire"}, pc' = [pc EXCEPT ![c] = Reconciling(next)]
  PROVE  /\ pc'[c].at = "reconcile" /\ pc'[c].todo = {} /\ pc'[c].owed = <<>> /\ pc'[c].stale = {}
         /\ pc'[c].next = next /\ Alone(c) /\ pc' \in [Threads -> Pcs]
<1>1. Reconciling(next) \in Pcs
  BY IdleFields DEF Pcs, Places, Reconciling
<1> QED BY <1>1, IdleFields, StepsTo DEF Idle, Reconciling

LEMMA ReconcileEffect ==
  ASSUME Standing, tracked \in SUBSET Job, NEW c \in Threads, Reconcile(c)
  PROVE  /\ pc[c].at = "reconcile"
         /\ pc'[c].at = "retire" /\ pc'[c].todo = tracked /\ pc'[c].next = pc[c].next
         /\ pc'[c].stale \in SUBSET tracked
         /\ \A j \in pc'[c].stale : row[j].state = "cancelled"
         /\ Alone(c) /\ pc' \in [Threads -> Pcs]
<1> DEFINE S == {j \in tracked : pc[c].next = "acquire" /\ row[j].state = "cancelled"}
           p == [pc[c] EXCEPT !.at = "retire", !.todo = tracked, !.stale = S]
<1>1. pc[c] \in Pcs /\ pc \in [Threads -> Pcs]
  BY DEF Standing
<1>2. pc' = [pc EXCEPT ![c] = p]
  BY <1>1 DEF Reconcile
<1>3. S \in SUBSET Job /\ S \in SUBSET tracked /\ \A j \in S : row[j].state = "cancelled"
  OBVIOUS
<1>4. /\ p \in Pcs /\ p.at = "retire" /\ p.todo = tracked /\ p.next = pc[c].next /\ p.stale = S
  <2> HIDE DEF S
  <2> QED BY <1>1, <1>3 DEF Pcs, Places
<1>5. pc[c].at = "reconcile"
  BY DEF Reconcile, At
<1> HIDE DEF S, p
<1>6. pc'[c] = p
  BY <1>1, <1>2
<1> QED BY <1>2, <1>3, <1>4, <1>5, <1>6, StepsTo

LEMMA RetireLookEffect ==
  ASSUME Standing, NEW c \in Threads, NEW j \in Job, RetireLook(c, j)
  PROVE  /\ pc[c].at = "retire" /\ j \in pc[c].todo
         /\ pc'[c].todo = pc[c].todo \ {j} /\ pc'[c].next = pc[c].next /\ pc'[c].stale = pc[c].stale
         /\ \/ fut[j] = "pending" /\ pc'[c].at = "cancel" /\ pc'[c].job = j
            \/ fut[j] # "pending" /\ pc'[c].at = "retire"
         /\ Alone(c) /\ pc' \in [Threads -> Pcs]
<1>1. pc[c] \in Pcs /\ pc \in [Threads -> Pcs] /\ pc[c].todo \ {j} \in SUBSET Job
  BY Fields DEF Standing
<1>2. pc[c].at = "retire" /\ j \in pc[c].todo
  BY DEF RetireLook, At
<1>3. CASE fut[j] = "pending"
  <2> DEFINE p == [pc[c] EXCEPT !.todo = pc[c].todo \ {j}, !.at = "cancel", !.job = j]
  <2>1. pc' = [pc EXCEPT ![c] = p]
    BY <1>1, <1>3 DEF RetireLook
  <2>2. /\ p \in Pcs /\ p.at = "cancel" /\ p.job = j /\ p.todo = pc[c].todo \ {j} /\ p.next = pc[c].next
        /\ p.stale = pc[c].stale
    BY <1>1 DEF Pcs, Places
  <2> HIDE DEF p
  <2>3. pc'[c] = p
    BY <1>1, <2>1
  <2> QED BY <1>2, <1>3, <2>1, <2>2, <2>3, StepsTo
<1>4. CASE fut[j] # "pending"
  <2> DEFINE p == [pc[c] EXCEPT !.todo = pc[c].todo \ {j}]
  <2>1. pc' = [pc EXCEPT ![c] = p]
    BY <1>1, <1>4 DEF RetireLook
  <2>2. /\ p \in Pcs /\ p.at = pc[c].at /\ p.todo = pc[c].todo \ {j} /\ p.next = pc[c].next
        /\ p.stale = pc[c].stale
    BY <1>1 DEF Pcs
  <2> HIDE DEF p
  <2>3. pc'[c] = p
    BY <1>1, <2>1
  <2> QED BY <1>2, <1>4, <2>1, <2>2, <2>3, StepsTo
<1> QED BY <1>3, <1>4

(* A thread that begins to pay, and one that has paid a debt. *)
LEMMA PayingEffect ==
  ASSUME Standing, debts \in Seq(Debt), NEW c \in Threads,
         pc' = [pc EXCEPT ![c] = [Idle EXCEPT !.at = "pay", !.owed = debts]]
  PROVE  /\ pc'[c].at = "pay" /\ pc'[c].owed = debts /\ pc'[c].todo = {} /\ pc'[c].stale = {}
         /\ Alone(c) /\ pc' \in [Threads -> Pcs]
<1>1. [Idle EXCEPT !.at = "pay", !.owed = debts] \in Pcs
  BY IdleFields DEF Pcs, Places
<1> QED BY <1>1, IdleFields, StepsTo DEF Idle

LEMMA PayDoneEffect ==
  ASSUME Standing, NEW c \in Threads, PayDone(c)
  PROVE  /\ pc[c].at = "paid" /\ pc[c].owed \in Seq(Debt) /\ pc[c].owed # <<>>
         /\ pc'[c].at = "pay" /\ pc'[c].owed = Tail(pc[c].owed)
         /\ pc'[c].todo = pc[c].todo /\ pc'[c].stale = pc[c].stale
         /\ Alone(c) /\ pc' \in [Threads -> Pcs]
<1> DEFINE p == [pc[c] EXCEPT !.at = "pay", !.owed = Tail(pc[c].owed)]
<1>1. pc[c] \in Pcs /\ pc \in [Threads -> Pcs] /\ pc[c].at = "paid"
      /\ pc[c].owed \in Seq(Debt) /\ pc[c].owed # <<>>
  BY Fields DEF Standing, StandsOK, PayDone, At, Paying
<1>2. Tail(pc[c].owed) \in Seq(Debt)
  BY <1>1, HeadTailProperties
<1>3. pc' = [pc EXCEPT ![c] = p]
  BY <1>1 DEF PayDone
<1>4. /\ p \in Pcs /\ p.at = "pay" /\ p.owed = Tail(pc[c].owed)
      /\ p.todo = pc[c].todo /\ p.stale = pc[c].stale
  BY <1>1, <1>2 DEF Pcs, Places
<1> HIDE DEF p
<1>5. pc'[c] = p
  BY <1>1, <1>3
<1> QED BY <1>1, <1>3, <1>4, <1>5, StepsTo

LEMMA CreateEffect ==
  ASSUME Standing, NEW c \in Threads, NEW j \in Job, Create(c, j)
  PROVE  /\ pc[c].at = "create" /\ row[j] = NoRow /\ row' = [row EXCEPT ![j] = Created(Self)]
         /\ \/ /\ pc'[c].at = "submit" /\ pc'[c].job = j /\ pc'[c].todo = pc[c].todo
               /\ pc'[c].stale = pc[c].stale /\ free' = free
            \/ pc'[c] = Idle /\ free' = free + 1
         /\ Alone(c) /\ pc' \in [Threads -> Pcs]
<1>1. pc[c] \in Pcs /\ pc \in [Threads -> Pcs]
  BY DEF Standing
<1>2. pc[c].at = "create" /\ row[j] = NoRow /\ row' = [row EXCEPT ![j] = Created(Self)]
  BY DEF Create, At
<1>3. CASE pc' = [pc EXCEPT ![c].at = "submit", ![c].job = j] /\ free' = free
  <2> DEFINE p == [pc[c] EXCEPT !.at = "submit", !.job = j]
  <2>1. pc' = [pc EXCEPT ![c] = p]
    BY <1>1, <1>3
  <2>2. p \in Pcs /\ p.at = "submit" /\ p.job = j /\ p.todo = pc[c].todo /\ p.stale = pc[c].stale
    BY <1>1 DEF Pcs, Places
  <2> HIDE DEF p
  <2>3. pc'[c] = p
    BY <1>1, <2>1
  <2> QED BY <1>2, <1>3, <2>1, <2>2, <2>3, StepsTo
<1>4. CASE free' = free + 1 /\ Return(c)
  BY <1>2, <1>4, ReturnEffect
<1> QED BY <1>3, <1>4 DEF Create

LEMMA DrainEffect ==
  ASSUME BaseType, Standing, Drain
  PROVE  /\ phase = "serving" /\ phase' = "draining" /\ \A c \in Caller : At(c, "idle")
         /\ pc'[Exit].at = "drain" /\ pc'[Exit].todo = tracked /\ pc'[Exit].owed = queue
         /\ Alone(Exit) /\ pc' \in [Threads -> Pcs]
<1>1. Exit \in Threads /\ tracked \in SUBSET Job /\ queue \in Seq(Job)
  BY DEF BaseType, Threads
<1>2. [Idle EXCEPT !.at = "drain", !.todo = tracked, !.owed = queue] \in Pcs
  BY <1>1, IdleFields DEF Pcs, Places
<1>3. pc'[Exit] = [Idle EXCEPT !.at = "drain", !.todo = tracked, !.owed = queue]
      /\ Alone(Exit) /\ pc' \in [Threads -> Pcs]
  BY <1>1, <1>2, StepsTo DEF Drain
<1> QED BY <1>3 DEF Drain, Idle

LEMMA DrainOneEffect ==
  ASSUME Standing, DrainOne
  PROVE  /\ pc[Exit].at = "drain" /\ pc[Exit].owed \in Seq(Job) /\ pc[Exit].owed # <<>>
         /\ pc'[Exit].at = "drain" /\ pc'[Exit].owed = Tail(pc[Exit].owed)
         /\ pc'[Exit].todo = pc[Exit].todo
         /\ Alone(Exit) /\ pc' \in [Threads -> Pcs]
<1> DEFINE p == [pc[Exit] EXCEPT !.owed = Tail(pc[Exit].owed)]
<1>1. Exit \in Threads
  BY DEF Threads
<1>2. pc[Exit] \in Pcs /\ pc \in [Threads -> Pcs] /\ pc[Exit].at = "drain"
      /\ pc[Exit].owed \in Seq(Job) /\ pc[Exit].owed # <<>>
  BY <1>1, Fields DEF Standing, StandsOK, DrainOne, At
<1>3. Tail(pc[Exit].owed) \in Seq(Job)
  BY <1>2, HeadTailProperties
<1>4. pc' = [pc EXCEPT ![Exit] = p]
  BY <1>2 DEF DrainOne
<1>5. p \in Pcs /\ p.at = "drain" /\ p.owed = Tail(pc[Exit].owed) /\ p.todo = pc[Exit].todo
  BY <1>2, <1>3 DEF Pcs
<1> HIDE DEF p
<1>6. pc'[Exit] = p
  BY <1>1, <1>2, <1>4
<1> QED BY <1>1, <1>2, <1>4, <1>5, <1>6, StepsTo

LEMMA DrainOweEffect ==
  ASSUME Standing, NEW j \in Job, DrainOwe(j)
  PROVE  /\ pc[Exit].at = "drain" /\ pc[Exit].owed = <<>> /\ j \in pc[Exit].todo
         /\ pc'[Exit].at = "drain" /\ pc'[Exit].owed = <<>> /\ pc'[Exit].todo = pc[Exit].todo \ {j}
         /\ Alone(Exit) /\ pc' \in [Threads -> Pcs]
<1> DEFINE p == [pc[Exit] EXCEPT !.todo = pc[Exit].todo \ {j}]
<1>1. Exit \in Threads
  BY DEF Threads
<1>2. pc[Exit] \in Pcs /\ pc \in [Threads -> Pcs] /\ pc[Exit].at = "drain"
      /\ pc[Exit].owed = <<>> /\ j \in pc[Exit].todo /\ pc[Exit].todo \ {j} \in SUBSET Job
  BY <1>1, Fields DEF Standing, DrainOwe, At
<1>3. pc' = [pc EXCEPT ![Exit] = p]
  BY <1>2 DEF DrainOwe
<1>4. p \in Pcs /\ p.at = "drain" /\ p.owed = <<>> /\ p.todo = pc[Exit].todo \ {j}
  BY <1>2 DEF Pcs
<1> HIDE DEF p
<1>5. pc'[Exit] = p
  BY <1>1, <1>2, <1>3
<1> QED BY <1>1, <1>2, <1>3, <1>4, <1>5, StepsTo

(* One thread moves, to a place where it has what it needs. *)
LEMMA StandsKept ==
  ASSUME Standing, NEW c \in Threads, Alone(c), pc' \in [Threads -> Pcs], StandsOK(c)'
  PROVE  Standing'
<1>1. ASSUME NEW d \in Threads, d # c PROVE StandsOK(d)'
  <2>1. pc'[d] = pc[d] /\ StandsOK(d)
    BY <1>1 DEF Alone, Standing
  <2> QED BY <2>1 DEF StandsOK
<1> QED BY <1>1 DEF Standing

LEMMA CallStands ==
  ASSUME BaseType, Standing, NEW c \in Caller, Call(c) \/ BeginAdmit(c) \/ \E j \in Job : BeginCancel(c, j)
  PROVE  Standing'
<1>0. c \in Threads /\ c # Exit /\ pc[c] \in Pcs /\ StandsOK(c)
      /\ pc[c].at \notin {"drain", "again"}
  BY ExitAssumption, Fields DEF Threads, StandsOK
<1>1. CASE BeginAdmit(c) \/ \E j \in Job : BeginCancel(c, j)
  <2>1. \E next \in {"idle", "acquire"} : pc' = [pc EXCEPT ![c] = Reconciling(next)]
    BY <1>1 DEF BeginAdmit, BeginCancel
  <2> QED BY <1>0, <2>1, ReconcilingEffect, StandsKept DEF StandsOK, WithJob, Paying, Retiring
<1>2. CASE Reconcile(c)
  <2>1. tracked \in SUBSET Job
    BY DEF BaseType
  <2> QED BY <1>0, <1>2, <2>1, ReconcileEffect, StandsKept DEF StandsOK, WithJob, Paying, Retiring
<1>3. ASSUME NEW j \in Job, RetireLook(c, j) PROVE Standing'
  BY <1>0, <1>3, RetireLookEffect, StandsKept DEF StandsOK, WithJob, Paying, Retiring
<1>4. CASE RetireCancel(c)
  <2>1. pc[c].at = "cancel" /\ (GoOn(c) \/ \E where \in {"callback", "owe"} : Goto(c, where))
    BY <1>4 DEF RetireCancel, At
  <2>2. CASE GoOn(c)
    BY <1>0, <2>1, <2>2, GoOnEffect, StandsKept DEF StandsOK, WithJob, Paying, Retiring
  <2>3. ASSUME NEW where \in {"callback", "owe"}, Goto(c, where) PROVE Standing'
    BY <1>0, <2>1, <2>3, GotoEffect, StandsKept DEF StandsOK, WithJob, Paying, Retiring, Places
  <2> QED BY <2>1, <2>2, <2>3
<1>5. CASE RetireCallback(c)
  <2>1. pc[c].at = "callback" /\ Goto(c, "owe") /\ "owe" \in Places
    BY <1>5 DEF RetireCallback, At, Places
  <2> QED BY <1>0, <2>1, GotoEffect, StandsKept DEF StandsOK, WithJob, Paying, Retiring
<1>6. CASE RetireOwe(c)
  <2>1. pc[c].at = "owe" /\ GoOn(c)
    BY <1>6 DEF RetireOwe, At
  <2> QED BY <1>0, <2>1, GoOnEffect, StandsKept DEF StandsOK, WithJob, Paying, Retiring
<1>7. ASSUME Return(c) PROVE Standing'
  BY <1>0, <1>7, ReturnEffect, IdleFields, StandsKept DEF StandsOK, WithJob, Paying, Retiring
<1>8. CASE RetireEnd(c)
  <2>1. ASSUME pc[c].at = "retire", Goto(c, pc[c].next), pc[c].next # "idle" PROVE Standing'
    <3>1. pc[c].next = "acquire" /\ "acquire" \in Places
      BY <1>0, <2>1 DEF StandsOK, Retiring, Places
    <3>2. Goto(c, "acquire")
      BY <2>1, <3>1
    <3> QED BY <1>0, <3>1, <3>2, GotoEffect, StandsKept DEF StandsOK, WithJob, Paying, Retiring
  <2> QED BY <1>7, <1>8, <2>1 DEF RetireEnd, At
<1>9. CASE Acquire(c)
  <2>1. CASE pc' = [pc EXCEPT ![c] = [Idle EXCEPT !.at = "create"]]
    <3>1. "create" \in Places
      BY DEF Places
    <3>2. pc'[c].at = "create" /\ Alone(c) /\ pc' \in [Threads -> Pcs]
      BY <1>0, <2>1, <3>1, StartEffect
    <3> QED BY <1>0, <3>2, StandsKept DEF StandsOK, WithJob, Paying, Retiring
  <2> QED BY <1>7, <1>9, <2>1 DEF Acquire
<1>10. ASSUME NEW j \in Job, Create(c, j) PROVE Standing'
  BY <1>0, <1>7, <1>10, CreateEffect, IdleFields, StandsKept DEF StandsOK, WithJob, Paying, Retiring
<1>11. CASE NotCreated(c) \/ SubmitFailed(c)
  BY <1>7, <1>11 DEF NotCreated, SubmitFailed
<1>12. CASE Submit(c)
  <2>1. pc[c].at = "submit" /\ \E where \in {"track", "fail"} : Goto(c, where)
    BY <1>12 DEF Submit, At
  <2> QED BY <1>0, <2>1, GotoEffect, StandsKept DEF StandsOK, WithJob, Paying, Retiring, Places
<1>13. CASE Track(c)
  <2>1. pc[c].at = "track" /\ Goto(c, "hook") /\ "hook" \in Places
    BY <1>13 DEF Track, At, Places
  <2> QED BY <1>0, <2>1, GotoEffect, StandsKept DEF StandsOK, WithJob, Paying, Retiring
<1>14. CASE Hook(c)
  <2>1. pc' = [pc EXCEPT ![c] = Reconciling("idle")]
    BY <1>14 DEF Hook
  <2> QED BY <1>0, <2>1, ReconcilingEffect, StandsKept DEF StandsOK, WithJob, Paying, Retiring
<1> QED BY <1>1, <1>2, <1>3, <1>4, <1>5, <1>6, <1>8, <1>9, <1>10, <1>11, <1>12, <1>13, <1>14 DEF Call

(* A thread that pays stays or goes idle, and the exit's begins anew. *)
LEMMA EndPassEffect ==
  ASSUME Standing, NEW c \in Threads, EndPass(c)
  PROVE  /\ pc'[c].at = IF c = Exit THEN "again" ELSE "idle"
         /\ pc'[c].todo = {} /\ pc'[c].owed = <<>> /\ pc'[c].stale = {}
         /\ Alone(c) /\ pc' \in [Threads -> Pcs]
<1> DEFINE where == IF c = Exit THEN "again" ELSE "idle"
<1>1. where \in Places
  BY DEF Places
<1>2. pc' = [pc EXCEPT ![c] = [Idle EXCEPT !.at = where]]
  BY DEF EndPass
<1> HIDE DEF where
<1>3. /\ pc'[c].at = where /\ pc'[c].todo = {} /\ pc'[c].owed = <<>> /\ pc'[c].stale = {}
      /\ Alone(c) /\ pc' \in [Threads -> Pcs]
  BY <1>1, <1>2, StartEffect
<1> QED BY <1>3 DEF where

LEMMA PayStands ==
  ASSUME BaseType, Standing, NEW c \in Threads, Pay(c) \/ (c \in Caller /\ BeginSettle(c))
  PROVE  Standing'
<1>0. StandsOK(c) /\ debts \in Seq(Debt) /\ Exit \notin Caller
  BY ExitAssumption, Fields DEF BaseType
<1>1. CASE c \in Caller /\ BeginSettle(c)
  <2>1. pc' = [pc EXCEPT ![c] = [Idle EXCEPT !.at = "pay", !.owed = debts]]
    BY <1>1 DEF BeginSettle
  <2>2. pc'[c].at = "pay" /\ pc'[c].owed = debts /\ Alone(c) /\ pc' \in [Threads -> Pcs]
    BY <1>0, <2>1, PayingEffect
  <2> QED BY <1>0, <1>1, <2>2, StandsKept DEF StandsOK, WithJob, Paying, Retiring
<1>2. ASSUME NEW raised \in BOOLEAN, PayWrite(c, raised) PROVE Standing'
  <2>1. /\ pc[c].at = "pay" /\ pc[c].owed # <<>>
        /\ \E where \in {"refused", "paid"} : Goto(c, where)
    BY <1>2 DEF PayWrite, At
  <2> QED BY <1>0, <2>1, GotoEffect, StandsKept DEF StandsOK, WithJob, Paying, Retiring, Places
<1>3. CASE PayDone(c)
  <2>1. Tail(pc[c].owed) \in Seq(Debt)
    BY <1>3, PayDoneEffect, HeadTailProperties
  <2> QED BY <1>0, <1>3, <2>1, PayDoneEffect, StandsKept DEF StandsOK, WithJob, Paying, Retiring
<1>4. CASE PayRefused(c) \/ PayEnd(c)
  <2>1. EndPass(c)
    BY <1>4 DEF PayRefused, PayEnd
  <2>2. pc'[c].at = (IF c = Exit THEN "again" ELSE "idle") /\ Alone(c) /\ pc' \in [Threads -> Pcs]
    BY <2>1, EndPassEffect
  <2>3. c = Exit \/ c \in Caller
    BY DEF Threads
  <2> QED BY <1>0, <2>2, <2>3, StandsKept DEF StandsOK, WithJob, Paying, Retiring
<1> QED BY <1>1, <1>2, <1>3, <1>4 DEF Pay

LEMMA LeavingStands ==
  ASSUME BaseType, Standing, Leaving
  PROVE  Standing'
<1>0. Exit \in Threads /\ Exit \notin Caller /\ StandsOK(Exit) /\ queue \in Seq(Job)
      /\ debts \in Seq(Debt)
  BY ExitAssumption, Fields DEF BaseType, Threads
<1>1. CASE Drain
  BY <1>0, <1>1, DrainEffect, StandsKept DEF StandsOK, WithJob, Paying, Retiring
<1>2. CASE DrainOne
  <2>1. Tail(pc[Exit].owed) \in Seq(Job)
    BY <1>2, DrainOneEffect, HeadTailProperties
  <2> QED BY <1>0, <1>2, <2>1, DrainOneEffect, StandsKept DEF StandsOK, WithJob, Paying, Retiring
<1>3. ASSUME NEW j \in Job, DrainOwe(j) PROVE Standing'
  <2>1. <<>> \in Seq(Job)
    BY EmptySeq
  <2> QED BY <1>0, <1>3, <2>1, DrainOweEffect, StandsKept DEF StandsOK, WithJob, Paying, Retiring
<1>4. CASE Join
  <2>1. pc' = [pc EXCEPT ![Exit] = [Idle EXCEPT !.at = "again"]] /\ "again" \in Places
    BY <1>4 DEF Join, Places
  <2>2. pc'[Exit].at = "again" /\ Alone(Exit) /\ pc' \in [Threads -> Pcs]
    BY <1>0, <2>1, StartEffect
  <2> QED BY <1>0, <2>2, StandsKept DEF StandsOK, WithJob, Paying, Retiring
<1>5. ASSUME pc' = [pc EXCEPT ![Exit] = Idle] PROVE Standing'
  BY <1>0, <1>5, IdleFields, StepsTo, StandsKept DEF StandsOK, WithJob, Paying, Retiring
<1>6. CASE SettleAtExit
  <2>1. CASE pc' = [pc EXCEPT ![Exit] = [Idle EXCEPT !.at = "pay", !.owed = debts]]
    <3>1. pc'[Exit].at = "pay" /\ pc'[Exit].owed = debts /\ Alone(Exit) /\ pc' \in [Threads -> Pcs]
      BY <1>0, <2>1, PayingEffect
    <3> QED BY <1>0, <3>1, StandsKept DEF StandsOK, WithJob, Paying, Retiring
  <2> QED BY <1>5, <1>6, <2>1 DEF SettleAtExit
<1>7. CASE OutOfTime
  BY <1>5, <1>7 DEF OutOfTime
<1> QED BY <1>1, <1>2, <1>3, <1>4, <1>6, <1>7 DEF Leaving

(* The steps that leave the threads where they stand. *)
Elsewhere == (\E j \in Job : Run(j) \/ RemoteCancel(j)) \/ Leave \/ UNCHANGED vars

LEMMA ElsewhereStands == Elsewhere => pc' = pc /\ settling' = settling /\ phase' = phase
BY DEF Elsewhere, Run, Take, RunClaim, RunAsk, RunWrite, RunReturn, RunCallback, RemoteCancel, Leave,
       vars, process

(* The steps there are. *)
Calling(c) == Call(c) \/ BeginAdmit(c) \/ \E j \in Job : BeginCancel(c, j)
Settling(c) == Pay(c) \/ (c \in Caller /\ BeginSettle(c))

LEMMA StepKinds ==
  ASSUME [Next]_vars
  PROVE  \/ \E c \in Caller : Calling(c)
         \/ \E c \in Threads : Settling(c)
         \/ Leaving \/ Elsewhere
BY DEF Next, Calling, Settling, Elsewhere, Threads

LEMMA StandingStep == ASSUME BaseType, Standing, [Next]_vars PROVE Standing'
<1>1. ASSUME NEW c \in Caller, Calling(c) PROVE Standing'
  BY <1>1, CallStands DEF Calling
<1>2. ASSUME NEW c \in Threads, Settling(c) PROVE Standing'
  BY <1>2, PayStands DEF Settling
<1>3. CASE Leaving
  BY <1>3, LeavingStands
<1>4. CASE Elsewhere
  BY <1>4, ElsewhereStands DEF Standing, StandsOK
<1> QED BY <1>1, <1>2, <1>3, <1>4, StepKinds

----------------------------------------------------------------------------
(* The executor. *)

Working(j) == RunClaim(j) \/ RunAsk(j) \/ RunWrite(j) \/ RunReturn(j) \/ RunCallback(j)

(* Who moves the executor. *)
LEMMA PoolMoves ==
  ASSUME [Next]_vars
  PROVE  \/ UNCHANGED <<fut, pool, exec>>
         \/ exec' = exec /\ \E j : CancelFuture(j)
         \/ \E c \in Caller : Submit(c)
         \/ \E j \in Job : Take(j) \/ Working(j)
         \/ Leave
<1> DEFINE Goal ==
      \/ UNCHANGED <<fut, pool, exec>>
      \/ exec' = exec /\ \E j : CancelFuture(j)
      \/ \E c \in Caller : Submit(c)
      \/ \E j \in Job : Take(j) \/ Working(j)
      \/ Leave
<1>1. ASSUME NEW c \in Caller, Calling(c) PROVE Goal
  <2>1. CASE RetireCancel(c)
    BY <2>1 DEF RetireCancel
  <2>2. CASE Submit(c)
    BY <2>2
  <2>3. CASE Call(c) /\ ~RetireCancel(c) /\ ~Submit(c)
    BY <2>3 DEF Call, Reconcile, RetireCallback, RetireOwe, RetireEnd, Acquire, NotCreated, SubmitFailed,
                Track, Hook, RetireLook, Create
  <2>4. CASE BeginAdmit(c) \/ \E j \in Job : BeginCancel(c, j)
    BY <2>4 DEF BeginAdmit, BeginCancel
  <2> QED BY <1>1, <2>1, <2>2, <2>3, <2>4 DEF Calling
<1>2. ASSUME NEW c \in Threads, Settling(c) PROVE Goal
  BY <1>2 DEF Settling, Pay, PayWrite, PayDone, PayRefused, PayEnd, BeginSettle
<1>3. CASE Leaving
  <2>1. CASE DrainOne
    BY <2>1 DEF DrainOne
  <2> QED BY <1>3, <2>1 DEF Leaving, Drain, DrainOwe, Join, SettleAtExit, OutOfTime
<1>4. CASE Elsewhere
  BY <1>4 DEF Elsewhere, Run, RemoteCancel, Working, vars
<1> QED BY <1>1, <1>2, <1>3, <1>4, StepKinds

(* What a worker does between taking a job and giving its loop back. *)
LEMMA WorkEffect ==
  ASSUME NEW j, Working(j)
  PROVE  /\ pool' = pool
         /\ \E e \in Runs : exec' = [exec EXCEPT ![j] = e] /\
              \/ /\ fut' = fut /\ exec[j] \in {"claim", "ask", "finish", "unstarted"}
                 /\ e \in {"ask", "finish", "unstarted", "return"}
              \/ fut' = [fut EXCEPT ![j] = "done"] /\ exec[j] = "return" /\ e \in {"callback", "none"}
              \/ fut' = fut /\ exec[j] = "callback" /\ e = "none"
<1> DEFINE Goal == \E e \in Runs : exec' = [exec EXCEPT ![j] = e] /\
              \/ /\ fut' = fut /\ exec[j] \in {"claim", "ask", "finish", "unstarted"}
                 /\ e \in {"ask", "finish", "unstarted", "return"}
              \/ fut' = [fut EXCEPT ![j] = "done"] /\ exec[j] = "return" /\ e \in {"callback", "none"}
              \/ fut' = fut /\ exec[j] = "callback" /\ e = "none"
<1>1. CASE RunClaim(j)
  <2>1. \E e \in {"ask", "finish", "unstarted"} : exec' = [exec EXCEPT ![j] = e]
    BY <1>1 DEF RunClaim
  <2> QED BY <1>1, <2>1 DEF RunClaim, Runs
<1>2. CASE RunAsk(j)
  BY <1>2 DEF RunAsk, Runs
<1>3. CASE RunWrite(j)
  BY <1>3 DEF RunWrite, Runs
<1>4. CASE RunReturn(j)
  <2>1. \E e \in {"callback", "none"} : exec' = [exec EXCEPT ![j] = e]
    BY <1>4 DEF RunReturn
  <2> QED BY <1>4, <2>1 DEF RunReturn, Runs
<1>5. CASE RunCallback(j)
  BY <1>5 DEF RunCallback, Runs
<1> QED BY <1>1, <1>2, <1>3, <1>4, <1>5 DEF Working

(* A job leaves the queue as its future leaves "pending". *)
LEMMA QueueLess ==
  ASSUME BaseType, QueueOK, NEW i \in 1 .. Len(queue), NEW f \in Futures \ {"pending"},
         queue' \in Seq(Job), Rest(queue, i, queue'), fut' = [fut EXCEPT ![queue[i]] = f]
  PROVE  QueueOK'
<1>0. /\ DOMAIN queue = 1 .. Len(queue) /\ DOMAIN queue' = 1 .. Len(queue')
      /\ \A k \in 1 .. Len(queue) : queue[k] \in Job
      /\ fut \in [Job -> Futures]
  BY LenProperties, ElementOfSeq DEF BaseType
<1>1. ASSUME NEW k \in DOMAIN queue', NEW l \in DOMAIN queue', queue'[k] = queue'[l], k # l PROVE FALSE
  <2>1. k \in 1 .. Len(queue') /\ l \in 1 .. Len(queue')
    BY <1>0
  <2>2. PICK m, o \in 1 .. Len(queue) : m # o /\ queue'[k] = queue[m] /\ queue'[l] = queue[o]
    BY <1>1, <2>1, Zenon DEF Rest
  <2> QED BY <1>0, <1>1, <2>2 DEF QueueOK
<1>2. ASSUME NEW k \in DOMAIN queue' PROVE fut'[queue'[k]] = "pending"
  <2>1. PICK m \in 1 .. Len(queue) : m # i /\ queue'[k] = queue[m]
    BY <1>0 DEF Rest
  <2>2. queue[m] # queue[i] /\ fut[queue[m]] = "pending"
    BY <1>0, <2>1 DEF QueueOK
  <2> QED BY <1>0, <2>1, <2>2
<1>3. ASSUME NEW j \in Job, fut'[j] = "pending" PROVE \E k \in DOMAIN queue' : queue'[k] = j
  <2>1. j # queue[i] /\ fut[j] = "pending"
    BY <1>0, <1>3
  <2>2. PICK m \in 1 .. Len(queue) : queue[m] = j
    BY <1>0, <2>1 DEF QueueOK
  <2>3. m # i
    BY <2>1, <2>2
  <2> QED BY <1>0, <2>2, <2>3 DEF Rest
<1> QED BY <1>1, <1>2, <1>3 DEF QueueOK

LEMMA CancelFutureEffect ==
  ASSUME BaseType, QueueOK, NEW j, CancelFuture(j)
  PROVE  /\ j \in Job /\ fut[j] = "pending" /\ fut' = [fut EXCEPT ![j] = "cancelled"]
         /\ workers' = workers /\ loops' = loops
         /\ queue' \in Seq(Job) /\ QueueOK' /\ queue # <<>>
<1>0. DOMAIN queue = 1 .. Len(queue) /\ queue \in Seq(Job) /\ (\A k \in 1 .. Len(queue) : queue[k] \in Job)
  BY LenProperties, ElementOfSeq DEF BaseType
<1>1. PICK i \in 1 .. Len(queue) : queue[i] = j /\ queue' = RemoveAt(queue, i)
  BY <1>0 DEF CancelFuture
<1>2. queue' \in Seq(Job) /\ Rest(queue, i, queue')
  BY <1>0, <1>1, RemoveAtRest
<1>3. fut[j] = "pending" /\ fut' = [fut EXCEPT ![j] = "cancelled"] /\ workers' = workers /\ loops' = loops
  BY DEF CancelFuture
<1>4. "cancelled" \in Futures \ {"pending"}
  BY DEF Futures
<1>5. QueueOK'
  BY <1>1, <1>2, <1>3, <1>4, QueueLess
<1>6. queue # <<>>
  BY <1>0, EmptySeq
<1> QED BY <1>0, <1>1, <1>2, <1>3, <1>5, <1>6

LEMMA TakeEffect ==
  ASSUME BaseType, QueueOK, NEW j \in Job, Take(j)
  PROVE  /\ fut[j] = "pending" /\ fut' = [fut EXCEPT ![j] = "running"]
         /\ queue' \in Seq(Job) /\ QueueOK' /\ queue # <<>>
<1>1. Head(queue) = queue[1] /\ 1 \in 1 .. Len(queue) /\ queue' \in Seq(Job) /\ Rest(queue, 1, queue')
  BY TailRest DEF Take, BaseType
<1>2. queue[1] = j /\ fut' = [fut EXCEPT ![j] = "running"]
  BY <1>1 DEF Take
<1>3. "running" \in Futures \ {"pending"}
  BY DEF Futures
<1>4. QueueOK'
  BY <1>1, <1>2, <1>3, QueueLess
<1>5. fut[j] = "pending"
  BY <1>1, <1>2, LenProperties DEF QueueOK, BaseType
<1> QED BY <1>1, <1>2, <1>4, <1>5 DEF Take

LEMMA SubmitEffect ==
  ASSUME BaseType, Standing, QueueOK, NEW c \in Caller, Submit(c), fut[pc[c].job] = "none"
  PROVE  LET j == pc[c].job
         IN /\ j \in Job /\ pc[c].at = "submit"
            /\ \/ /\ fut' = [fut EXCEPT ![j] = "pending"]
                  /\ queue' \in Seq(Job) /\ QueueOK' /\ queue' # <<>>
                  /\ IF workers < MaxWorkers THEN LoopStarted ELSE UNCHANGED <<workers, loops>>
                  /\ free' = free /\ Goto(c, "track")
               \/ /\ fut' = [fut EXCEPT ![j] = "unsubmitted"] /\ queue' = queue
                  /\ workers' = workers /\ loops' \in {loops, loops + 1}
                  /\ free' = free + 1 /\ Goto(c, "fail")
            /\ exec' = exec /\ debtSlots' = debtSlots
<1> DEFINE j == pc[c].job
<1>0. c \in Threads /\ pc[c].at = "submit" /\ j \in Job
  BY Fields DEF Threads, StandsOK, WithJob, Submit, At
<1> HIDE DEF j
<1>1. /\ DOMAIN queue = 1 .. Len(queue) /\ Len(queue) \in Nat /\ queue \in Seq(Job)
      /\ \A i \in 1 .. Len(queue) : queue[i] \in Job
      /\ fut \in [Job -> Futures] /\ fut[j] = "none"
  BY LenProperties, ElementOfSeq DEF BaseType, j
<1>2. ASSUME fut' = [fut EXCEPT ![j] = "pending"], queue' = Append(queue, j)
      PROVE  queue' \in Seq(Job) /\ QueueOK' /\ queue' # <<>>
  <2>1. /\ queue' \in Seq(Job) /\ Len(queue') = Len(queue) + 1 /\ queue'[Len(queue) + 1] = j
        /\ \A i \in 1 .. Len(queue) : queue'[i] = queue[i]
    BY <1>0, <1>1, <1>2, AppendProperties
  <2>2. DOMAIN queue' = 1 .. Len(queue) + 1
    BY <2>1, LenProperties
  <2>3. \A i \in 1 .. Len(queue) : queue[i] # j
    BY <1>1 DEF QueueOK
  <2>4. ASSUME NEW i \in 1 .. Len(queue) + 1, NEW k \in 1 .. Len(queue) + 1, queue'[i] = queue'[k]
        PROVE  i = k
    <3>1. (i \in 1 .. Len(queue) \/ i = Len(queue) + 1) /\ (k \in 1 .. Len(queue) \/ k = Len(queue) + 1)
      BY <1>1
    <3> QED BY <1>1, <2>1, <2>3, <2>4, <3>1 DEF QueueOK
  <2>5. ASSUME NEW i \in 1 .. Len(queue) + 1 PROVE fut'[queue'[i]] = "pending"
    <3>1. i \in 1 .. Len(queue) \/ i = Len(queue) + 1
      BY <1>1
    <3> QED BY <1>0, <1>1, <1>2, <2>1, <3>1 DEF QueueOK
  <2>6. ASSUME NEW k \in Job, fut'[k] = "pending" PROVE \E i \in 1 .. Len(queue) + 1 : queue'[i] = k
    <3>1. CASE k = j
      <4>1. Len(queue) + 1 \in 1 .. Len(queue) + 1
        BY <1>1
      <4> QED BY <2>1, <3>1, <4>1
    <3>2. CASE k # j
      <4>1. PICK i \in 1 .. Len(queue) : queue[i] = k
        BY <1>1, <1>2, <2>6, <3>2 DEF QueueOK
      <4>2. i \in 1 .. Len(queue) + 1
        BY <1>1
      <4> QED BY <2>1, <4>1, <4>2
    <3> QED BY <3>1, <3>2
  <2>7. queue' # <<>>
    BY <1>1, <2>1, EmptySeq
  <2> QED BY <2>1, <2>2, <2>4, <2>5, <2>6, <2>7 DEF QueueOK
<1>3. \/ /\ fut' = [fut EXCEPT ![j] = "pending"] /\ queue' = Append(queue, j)
         /\ IF workers < MaxWorkers THEN LoopStarted ELSE UNCHANGED <<workers, loops>>
         /\ free' = free /\ Goto(c, "track")
      \/ /\ fut' = [fut EXCEPT ![j] = "unsubmitted"] /\ queue' = queue
         /\ workers' = workers /\ loops' \in {loops, loops + 1}
         /\ free' = free + 1 /\ Goto(c, "fail")
  BY DEF Submit, LoopRefused, j
<1>4. exec' = exec /\ debtSlots' = debtSlots
  BY DEF Submit
<1> QED BY <1>0, <1>2, <1>3, <1>4 DEF j

LEMMA PoolStep ==
  ASSUME BaseType, Standing, PoolOK, Hands, NoIdleQueue, [Next]_vars
  PROVE  PoolOK' /\ NoIdleQueue'
         /\ queue' \in Seq(Job) /\ workers' \in Int /\ loops' \in Nat
         /\ fut' \in [Job -> Futures] /\ exec' \in [Job -> Runs]
<1> DEFINE Goal == /\ PoolOK' /\ NoIdleQueue'
                   /\ queue' \in Seq(Job) /\ workers' \in Int /\ loops' \in Nat
                   /\ fut' \in [Job -> Futures] /\ exec' \in [Job -> Runs]
<1>0. /\ fut \in [Job -> Futures] /\ exec \in [Job -> Runs] /\ QueueOK /\ workers <= loops
      /\ queue \in Seq(Job) /\ workers \in Int /\ loops \in Nat
      /\ IsFiniteSet(Busy) /\ Cardinality(Busy) <= loops /\ Cardinality(Busy) \in Nat
      /\ MaxWorkers \in Nat \ {0}
  BY FS_CardinalityType, BoundsAssumption DEF BaseType, PoolOK
<1>1. CASE UNCHANGED <<fut, pool, exec>>
  BY <1>0, <1>1 DEF PoolOK, QueueOK, NoIdleQueue, Busy, pool
<1>2. ASSUME exec' = exec, NEW j, CancelFuture(j) PROVE Goal
  <2>1. /\ j \in Job /\ fut[j] = "pending" /\ fut' = [fut EXCEPT ![j] = "cancelled"]
        /\ workers' = workers /\ loops' = loops /\ queue' \in Seq(Job) /\ QueueOK' /\ queue # <<>>
    BY <1>0, <1>2, CancelFutureEffect
  <2>2. Busy' = Busy
    BY <1>2 DEF Busy
  <2>3. fut' \in [Job -> Futures]
    BY <1>0, <2>1 DEF Futures
  <2>4. \A k \in Job : fut'[k] = IF k = j THEN "cancelled" ELSE fut[k]
    BY <1>0, <2>1
  <2> QED BY <1>0, <1>2, <2>1, <2>2, <2>3, <2>4 DEF PoolOK, NoIdleQueue
<1>3. ASSUME NEW c \in Caller, Submit(c) PROVE Goal
  <2> DEFINE j == pc[c].job
  <2>1. fut[j] = "none"
    BY <1>3 DEF Hands, HandOK, Submit, At
  <2>2. /\ j \in Job
        /\ \/ /\ fut' = [fut EXCEPT ![j] = "pending"]
              /\ queue' \in Seq(Job) /\ QueueOK' /\ queue' # <<>>
              /\ IF workers < MaxWorkers THEN LoopStarted ELSE UNCHANGED <<workers, loops>>
           \/ /\ fut' = [fut EXCEPT ![j] = "unsubmitted"] /\ queue' = queue
              /\ workers' = workers /\ loops' \in {loops, loops + 1}
        /\ exec' = exec
    BY <1>0, <1>3, <2>1, SubmitEffect
  <2> HIDE DEF j
  <2>3. Busy' = Busy
    BY <2>2 DEF Busy
  <2>4. fut' \in [Job -> Futures] /\ \A k \in Job : fut'[k] = fut[k] \/ (k = j /\ fut'[k] \in {"pending", "unsubmitted"})
    BY <1>0, <2>2 DEF Futures
  <2>5. /\ \A k \in Job : fut'[k] = "running" <=> fut[k] = "running"
        /\ \A k \in Job : fut[k] = "done" => fut'[k] = "done"
    BY <2>1, <2>2, <2>4
  <2>6. QueueOK' /\ queue' \in Seq(Job)
    BY <1>0, <2>1, <2>2, <2>4 DEF QueueOK
  <2>7. workers' \in Int /\ loops' \in Nat /\ workers' <= loops' /\ loops' >= loops /\ (queue' # <<>> => loops' > 0)
    <3>1. CASE queue' = queue /\ workers' = workers /\ loops' \in {loops, loops + 1}
      BY <1>0, <3>1 DEF NoIdleQueue
    <3>2. CASE IF workers < MaxWorkers THEN LoopStarted ELSE UNCHANGED <<workers, loops>>
      BY <1>0, <3>2 DEF LoopStarted
    <3> QED BY <2>2, <3>1, <3>2
  <2> QED BY <1>0, <2>2, <2>3, <2>4, <2>5, <2>6, <2>7 DEF PoolOK, NoIdleQueue
<1>4. ASSUME NEW j \in Job, Take(j) PROVE Goal
  <2>1. /\ fut[j] = "pending" /\ fut' = [fut EXCEPT ![j] = "running"]
        /\ queue' \in Seq(Job) /\ QueueOK' /\ queue # <<>>
        /\ exec' = [exec EXCEPT ![j] = "claim"] /\ workers' = workers /\ loops' = loops
        /\ Cardinality(Busy) < loops
    BY <1>0, <1>4, TakeEffect DEF Take, Looking
  <2>2. exec[j] = "none" /\ Busy' = Busy \cup {j} /\ j \notin Busy
    BY <1>0, <2>1 DEF PoolOK, Busy, Runs
  <2>3. IsFiniteSet(Busy') /\ Cardinality(Busy') = Cardinality(Busy) + 1
    BY <1>0, <2>2, FS_AddElement
  <2>4. fut' \in [Job -> Futures] /\ exec' \in [Job -> Runs]
    BY <1>0, <2>1 DEF Futures, Runs
  <2>5. \A k \in Job : /\ fut'[k] = "running" <=> exec'[k] \in {"claim", "ask", "finish", "unstarted", "return"}
                       /\ exec'[k] = "callback" => fut'[k] = "done"
    BY <1>0, <2>1 DEF PoolOK
  <2>6. Cardinality(Busy') <= loops'
    BY <1>0, <2>1, <2>3
  <2>7. NoIdleQueue'
    BY <1>0, <2>1 DEF NoIdleQueue
  <2> QED BY <1>0, <2>1, <2>3, <2>4, <2>5, <2>6, <2>7 DEF PoolOK
<1>5. ASSUME NEW j \in Job, Working(j) PROVE Goal
  <2>1. PICK e \in Runs : exec' = [exec EXCEPT ![j] = e] /\
              \/ /\ fut' = fut /\ exec[j] \in {"claim", "ask", "finish", "unstarted"}
                 /\ e \in {"ask", "finish", "unstarted", "return"}
              \/ fut' = [fut EXCEPT ![j] = "done"] /\ exec[j] = "return" /\ e \in {"callback", "none"}
              \/ fut' = fut /\ exec[j] = "callback" /\ e = "none"
    BY <1>5, WorkEffect
  <2>2. queue' = queue /\ workers' = workers /\ loops' = loops
    BY <1>5, WorkEffect DEF pool
  <2>3. Busy' \in SUBSET Busy
    BY <1>0, <2>1 DEF Busy
  <2>4. IsFiniteSet(Busy') /\ Cardinality(Busy') <= Cardinality(Busy) /\ Cardinality(Busy') \in Nat
    BY <1>0, <2>3, FS_Subset, FS_CardinalityType
  <2>5. fut' \in [Job -> Futures] /\ exec' \in [Job -> Runs]
    BY <1>0, <2>1 DEF Futures
  <2>6. \A k \in Job : fut'[k] = "pending" <=> fut[k] = "pending"
    BY <1>0, <2>1 DEF PoolOK
  <2>7. QueueOK'
    BY <1>0, <2>2, <2>6, ElementOfSeq, LenProperties DEF QueueOK
  <2>8. \A k \in Job : /\ fut'[k] = "running" <=> exec'[k] \in {"claim", "ask", "finish", "unstarted", "return"}
                       /\ exec'[k] = "callback" => fut'[k] = "done"
    BY <1>0, <2>1 DEF PoolOK
  <2>9. Cardinality(Busy') <= loops' /\ workers' <= loops'
    BY <1>0, <2>2, <2>4
  <2> QED BY <1>0, <2>2, <2>4, <2>5, <2>7, <2>8, <2>9 DEF PoolOK, NoIdleQueue
<1>6. CASE Leave
  <2>1. /\ queue = <<>> /\ queue' = queue /\ fut' = fut /\ exec' = exec /\ workers' = workers - 1
        /\ loops' = loops - 1 /\ Cardinality(Busy) < loops
    BY <1>6 DEF Leave, Looking
  <2>2. Busy' = Busy
    BY <2>1 DEF Busy
  <2>3. workers' \in Int /\ loops' \in Nat /\ workers' <= loops' /\ Cardinality(Busy) <= loops'
    BY <1>0, <2>1
  <2> QED BY <1>0, <2>1, <2>2, <2>3 DEF PoolOK, QueueOK, NoIdleQueue
<1> QED BY <1>1, <1>2, <1>3, <1>4, <1>5, <1>6, PoolMoves

(* How a job's future moves, and that only submit gives a job one. *)
FutOnward(f, g) ==
  /\ f = "none" => g \in {"none", "pending", "unsubmitted"}
  /\ f = "pending" => g \in {"pending", "running", "cancelled"}
  /\ f = "running" => g \in {"running", "done"}
  /\ f \in {"cancelled", "done", "unsubmitted"} => g = f

LEMMA FutStep ==
  ASSUME BaseType, Standing, PoolOK, Hands, [Next]_vars
  PROVE  /\ \A k \in Job : FutOnward(fut[k], fut'[k])
         /\ \A k \in Job : fut[k] = "none" /\ fut'[k] # "none" => \E c \in Caller : Submit(c) /\ pc[c].job = k
<1>0. fut \in [Job -> Futures] /\ exec \in [Job -> Runs] /\ QueueOK
  BY DEF BaseType, PoolOK
<1>1. CASE fut' = fut
  BY <1>0, <1>1 DEF FutOnward
<1>2. ASSUME NEW j, CancelFuture(j) PROVE \A k \in Job : FutOnward(fut[k], fut'[k]) /\ (fut[k] = "none" => fut'[k] = "none")
  <2>1. fut[j] = "pending" /\ fut' = [fut EXCEPT ![j] = "cancelled"]
    BY <1>2 DEF CancelFuture
  <2> QED BY <1>0, <2>1 DEF FutOnward, Futures
<1>3. ASSUME NEW c \in Caller, Submit(c)
      PROVE  \A k \in Job : FutOnward(fut[k], fut'[k]) /\ (fut[k] = "none" /\ fut'[k] # "none" => pc[c].job = k)
  <2> DEFINE j == pc[c].job
  <2>1. fut[j] = "none"
    BY <1>3 DEF Hands, HandOK, Submit, At
  <2>2. fut' = [fut EXCEPT ![j] = "pending"] \/ fut' = [fut EXCEPT ![j] = "unsubmitted"]
    BY <1>3 DEF Submit
  <2> HIDE DEF j
  <2>3. \A k \in Job : FutOnward(fut[k], fut'[k]) /\ (fut[k] = "none" /\ fut'[k] # "none" => j = k)
    BY <1>0, <2>1, <2>2 DEF FutOnward, Futures
  <2> QED BY <2>3 DEF j
<1>4. ASSUME NEW j \in Job, Take(j) PROVE \A k \in Job : FutOnward(fut[k], fut'[k]) /\ (fut[k] = "none" => fut'[k] = "none")
  <2>1. fut[j] = "pending" /\ fut' = [fut EXCEPT ![j] = "running"]
    BY <1>0, <1>4, TakeEffect
  <2> QED BY <1>0, <2>1 DEF FutOnward, Futures
<1>5. ASSUME NEW j \in Job, Working(j)
      PROVE  \A k \in Job : FutOnward(fut[k], fut'[k]) /\ (fut[k] = "none" => fut'[k] = "none")
  <2>1. fut' = fut \/ (fut' = [fut EXCEPT ![j] = "done"] /\ exec[j] = "return")
    BY <1>5, WorkEffect
  <2>2. exec[j] = "return" => fut[j] = "running"
    BY DEF PoolOK
  <2> QED BY <1>0, <2>1, <2>2 DEF FutOnward, Futures
<1>6. CASE Leave
  BY <1>1, <1>6 DEF Leave
<1>7. CASE UNCHANGED <<fut, pool, exec>>
  BY <1>1, <1>7
<1> QED BY <1>2, <1>3, <1>4, <1>5, <1>6, <1>7, PoolMoves

----------------------------------------------------------------------------
(* Rows, step by step. *)

LEMMA RowMoves ==
  ASSUME BaseType, Standing, DebtsOK, PoolOK, [Next]_vars
  PROVE  \/ row' = row
         \/ \E j \in Job : CanCancel(row[j]) /\ row' = [row EXCEPT ![j] = Cancelled(@)]
         \/ \E c \in Caller, j \in Job : Create(c, j)
         \/ \E j \in Job : RunClaim(j)
         \/ \E j \in Job, kind \in {"finish", "unstarted"}, raised \in BOOLEAN : Attempt(j, kind, raised)
<1> DEFINE Goal ==
         \/ row' = row
         \/ \E j \in Job : CanCancel(row[j]) /\ row' = [row EXCEPT ![j] = Cancelled(@)]
         \/ \E c \in Caller, j \in Job : Create(c, j)
         \/ \E j \in Job : RunClaim(j)
         \/ \E j \in Job, kind \in {"finish", "unstarted"}, raised \in BOOLEAN : Attempt(j, kind, raised)
<1>0. ASSUME NEW j \in Job, NEW kind \in {"finish", "unstarted"}, NEW by, Owe(j, kind, by) PROVE Goal
  BY <1>0 DEF Owe
<1>1. ASSUME NEW c \in Caller, Calling(c) PROVE Goal
  <2>0. c \in Threads /\ StandsOK(c)
    BY Fields DEF Threads
  <2>1. CASE RetireOwe(c)
    <3>1. pc[c].job \in Job /\ Owe(pc[c].job, "finish", c)
      BY <2>0, <2>1 DEF RetireOwe, At, StandsOK, WithJob
    <3> QED BY <1>0, <3>1
  <2>2. CASE SubmitFailed(c)
    <3>1. pc[c].job \in Job /\ Owe(pc[c].job, "unstarted", c)
      BY <2>0, <2>2 DEF SubmitFailed, At, StandsOK, WithJob
    <3> QED BY <1>0, <3>1
  <2>3. CASE Call(c) /\ ~RetireOwe(c) /\ ~SubmitFailed(c) /\ ~\E j \in Job : Create(c, j)
    BY <2>3 DEF Call, Reconcile, RetireCancel, RetireCallback, RetireEnd, Acquire, NotCreated, Submit,
                Track, Hook, RetireLook
  <2>4. CASE BeginAdmit(c) \/ \E j \in Job : BeginCancel(c, j)
    BY <2>4 DEF BeginAdmit, BeginCancel
  <2> QED BY <1>1, <2>1, <2>2, <2>3, <2>4 DEF Calling
<1>2. ASSUME NEW c \in Threads, Settling(c) PROVE Goal
  <2>1. ASSUME NEW raised \in BOOLEAN, PayWrite(c, raised) PROVE Goal
    <3>1. pc[c].owed \in Seq(Debt) /\ pc[c].owed # <<>>
      BY <2>1, Fields DEF PayWrite, At, StandsOK, Paying
    <3>2. Head(pc[c].owed) \in Debt
      BY <3>1, HeadTailProperties
    <3> QED BY <2>1, <3>2, DebtFields DEF PayWrite
  <2> QED BY <1>2, <2>1 DEF Settling, Pay, PayDone, PayRefused, PayEnd, BeginSettle
<1>3. CASE Leaving
  BY <1>3 DEF Leaving, Drain, DrainOne, DrainOwe, Join, SettleAtExit, OutOfTime
<1>4. ASSUME NEW j \in Job, Working(j) PROVE Goal
  <2>1. CASE RunWrite(j)
    <3>1. exec[j] \in {"finish", "unstarted"} /\ Owe(j, exec[j], "worker")
      BY <2>1 DEF RunWrite
    <3> QED BY <1>0, <3>1
  <2> QED BY <1>4, <2>1 DEF Working, RunAsk, RunReturn, RunCallback
<1>5. CASE Elsewhere
  BY <1>4, <1>5 DEF Elsewhere, Run, RemoteCancel, Working, Leave, Take, vars
<1> QED BY <1>1, <1>2, <1>3, <1>5, StepKinds

LEMMA RowStep ==
  ASSUME BaseType, Standing, DebtsOK, PoolOK, RowsOK, [Next]_vars
  PROVE  row' \in [Job -> Rows] /\ \A k \in Job : Onward(row[k], row'[k])
<1>0. row \in [Job -> Rows] /\ \A k \in Job : row[k] \in Rows /\ RowOK(row[k]) /\ Onward(row[k], row[k])
  BY DEF BaseType, RowsOK, Onward
<1>1. ASSUME NEW j \in Job, NEW t, Onward(row[j], t), row' = [row EXCEPT ![j] = t]
      PROVE  row' \in [Job -> Rows] /\ \A k \in Job : Onward(row[k], row'[k])
  <2>1. t \in Rows
    BY <1>1 DEF Onward
  <2> QED BY <1>0, <1>1, <2>1
<1>2. CASE row' = row
  BY <1>0, <1>2
<1>3. ASSUME NEW j \in Job, CanCancel(row[j]), row' = [row EXCEPT ![j] = Cancelled(@)]
      PROVE  row' \in [Job -> Rows] /\ \A k \in Job : Onward(row[k], row'[k])
  BY <1>0, <1>1, <1>3, CancelledColumns
<1>4. ASSUME NEW c \in Caller, NEW j \in Job, Create(c, j)
      PROVE  row' \in [Job -> Rows] /\ \A k \in Job : Onward(row[k], row'[k])
  <2>1. row[j] = NoRow /\ row' = [row EXCEPT ![j] = Created(Self)]
    BY <1>4 DEF Create
  <2>2. Created(Self) \in Rows /\ Created(Self).state = "queued" /\ Created(Self).owner = Self
    BY SelfAssumption DEF Created, NoRow, Rows, ActiveStates, Results
  <2>3. Onward(row[j], Created(Self))
    BY <2>1, <2>2 DEF Onward, RowOK, NoRow
  <2> QED BY <1>1, <2>1, <2>3
<1>5. ASSUME NEW j \in Job, RunClaim(j)
      PROVE  row' \in [Job -> Rows] /\ \A k \in Job : Onward(row[k], row'[k])
  <2>1. row' = row \/ row' = [row EXCEPT ![j] = Begun(row[j])]
    BY <1>5 DEF RunClaim, Begun
  <2> QED BY <1>0, <1>1, <1>2, <2>1, BegunColumns
<1>6. ASSUME NEW j \in Job, NEW kind \in {"finish", "unstarted"}, NEW raised \in BOOLEAN, Attempt(j, kind, raised)
      PROVE  row' \in [Job -> Rows] /\ \A k \in Job : Onward(row[k], row'[k])
  BY <1>0, <1>6, AttemptEffect
<1> QED BY <1>2, <1>3, <1>4, <1>5, <1>6, RowMoves

LEMMA RowsKept ==
  ASSUME BaseType, Standing, DebtsOK, PoolOK, RowsOK, Hands, [Next]_vars
  PROVE  RowsOK'
<1>0. \A k \in Job : Onward(row[k], row'[k]) /\ RowOK(row'[k])
  BY RowStep DEF Onward
<1>1. \A k \in Job : FutOnward(fut[k], fut'[k])
  BY FutStep
<1>2. ASSUME NEW k \in Job, fut'[k] # "none" PROVE row'[k].state # "absent"
  <2>1. CASE fut[k] # "none"
    BY <1>0, <2>1 DEF RowsOK, Onward
  <2>2. CASE fut[k] = "none"
    <3>1. PICK c \in Caller : Submit(c) /\ pc[c].job = k
      BY <1>2, <2>2, FutStep
    <3>2. row[k].state # "absent"
      BY <3>1 DEF Submit, At, Hands, HandOK
    <3> QED BY <1>0, <3>2 DEF Onward
  <2> QED BY <2>1, <2>2
<1>3. ASSUME NEW k \in Job, exec'[k] \in {"ask", "finish"} PROVE row'[k].state # "queued"
  <2>1. CASE exec[k] \in {"ask", "finish"}
    <3>1. row[k].state \notin {"absent", "queued"}
      BY <2>1 DEF RowsOK, PoolOK
    <3> QED BY <1>0, <3>1 DEF Onward
  <2>2. CASE exec[k] \notin {"ask", "finish"}
    <3>0. exec \in [Job -> Runs]
      BY DEF BaseType
    <3>1. RunClaim(k)
      <4>1. CASE \E j \in Job : Take(j) \/ Working(j)
        <5>1. PICK j \in Job : Take(j) \/ Working(j)
          BY <4>1
        <5>2. j = k
          BY <1>3, <2>2, <3>0, <5>1, WorkEffect DEF Take
        <5> QED BY <1>3, <2>2, <3>0, <5>1, <5>2 DEF Take, Working, RunAsk, RunWrite, RunReturn, RunCallback
      <4>2. CASE exec' = exec
        BY <1>3, <2>2, <4>2
      <4>3. CASE (\E c \in Caller : Submit(c)) \/ Leave
        BY <4>2, <4>3 DEF Submit, Leave
      <4> QED BY <4>1, <4>2, <4>3, PoolMoves
    <3>2. exec[k] = "claim" /\ fut[k] = "running" /\ row[k].state # "absent" /\ row[k].owner = Self /\ row \in [Job -> Rows]
      BY <3>1 DEF RunClaim, PoolOK, RowsOK, RowOK, BaseType
    <3>3. CASE CanMarkRunning(row[k], Self)
      <4>1. row' = [row EXCEPT ![k] = MarkedRunning(row[k])]
        BY <1>3, <3>0, <3>1, <3>3 DEF RunClaim, Begun
      <4>2. MarkedRunning(row[k]).state = "running"
        BY <3>2 DEF MarkedRunning, Rows
      <4> QED BY <3>2, <4>1, <4>2
    <3>4. CASE ~CanMarkRunning(row[k], Self)
      <4>1. row' = row
        BY <3>1, <3>2, <3>4 DEF RunClaim, Begun
      <4> QED BY <3>2, <3>4, <4>1 DEF CanMarkRunning
    <3> QED BY <3>3, <3>4
  <2> QED BY <2>1, <2>2
<1> QED BY <1>0, <1>2, <1>3 DEF RowsOK

----------------------------------------------------------------------------
(* Debts, step by step. *)

(* Who owes j a write of that kind. *)
Owing(j, kind) ==
  \/ RunWrite(j) /\ kind = exec[j]
  \/ \E c \in Caller : pc[c].job = j /\ (\/ RetireOwe(c) /\ kind = "finish"
                                         \/ SubmitFailed(c) /\ kind = "unstarted")

LEMMA DebtMoves ==
  ASSUME BaseType, Standing, [Next]_vars
  PROVE  \/ debts' = debts
         \/ \E j \in Job, kind \in {"finish", "unstarted"} : Owing(j, kind)
         \/ \E c \in Threads : PayDone(c) \/ PayRefused(c)
         \/ \E j \in Job : DrainOwe(j)
<1> DEFINE Goal ==
         \/ debts' = debts
         \/ \E j \in Job, kind \in {"finish", "unstarted"} : Owing(j, kind)
         \/ \E c \in Threads : PayDone(c) \/ PayRefused(c)
         \/ \E j \in Job : DrainOwe(j)
<1>1. ASSUME NEW c \in Caller, Calling(c) PROVE Goal
  <2>0. c \in Threads /\ StandsOK(c)
    BY Fields DEF Threads
  <2>1. CASE RetireOwe(c) \/ SubmitFailed(c)
    <3>1. pc[c].job \in Job
      BY <2>0, <2>1 DEF RetireOwe, SubmitFailed, At, StandsOK, WithJob
    <3>2. Owing(pc[c].job, "finish") \/ Owing(pc[c].job, "unstarted")
      BY <2>1 DEF Owing
    <3> QED BY <3>1, <3>2
  <2>2. CASE Call(c) /\ ~RetireOwe(c) /\ ~SubmitFailed(c)
    BY <2>2 DEF Call, Reconcile, RetireCancel, RetireCallback, RetireEnd, Acquire, NotCreated, Submit,
                Track, Hook, RetireLook, Create
  <2>3. CASE BeginAdmit(c) \/ \E j \in Job : BeginCancel(c, j)
    BY <2>3 DEF BeginAdmit, BeginCancel
  <2> QED BY <1>1, <2>1, <2>2, <2>3 DEF Calling
<1>2. ASSUME NEW c \in Threads, Settling(c) PROVE Goal
  BY <1>2 DEF Settling, Pay, PayWrite, PayEnd, BeginSettle
<1>3. CASE Leaving
  BY <1>3 DEF Leaving, Drain, DrainOne, Join, SettleAtExit, OutOfTime
<1>4. ASSUME NEW j \in Job, Working(j) PROVE Goal
  <2>1. CASE RunWrite(j)
    BY <2>1 DEF Owing, RunWrite
  <2> QED BY <1>4, <2>1 DEF Working, RunAsk, RunReturn, RunCallback, RunClaim
<1>5. CASE Elsewhere
  BY <1>4, <1>5 DEF Elsewhere, Run, RemoteCancel, Working, Leave, Take, vars
<1> QED BY <1>1, <1>2, <1>3, <1>5, StepKinds

LEMMA OwingEffect ==
  ASSUME BaseType, Standing, PoolOK, RowsOK, Hands, NEW j \in Job, NEW kind \in {"finish", "unstarted"}, Owing(j, kind)
  PROVE  /\ \E by \in Threads \cup {"worker"} : Owe(j, kind, by)
         /\ Writable(row[j], kind) /\ fut[j] \in {"running", "cancelled", "unsubmitted"} /\ fut' = fut
<1>1. CASE RunWrite(j) /\ kind = exec[j]
  <2>1. Owe(j, kind, "worker") /\ fut' = fut /\ exec[j] \in {"finish", "unstarted"}
    BY <1>1 DEF RunWrite
  <2>2. fut[j] = "running" /\ row[j].state # "absent" /\ (exec[j] = "finish" => row[j].state # "queued")
    BY <2>1 DEF PoolOK, RowsOK
  <2> QED BY <1>1, <2>1, <2>2 DEF Writable
<1>2. ASSUME NEW c \in Caller, pc[c].job = j, RetireOwe(c), kind = "finish"
      PROVE  /\ \E by \in Threads \cup {"worker"} : Owe(j, kind, by)
             /\ Writable(row[j], kind) /\ fut[j] \in {"running", "cancelled", "unsubmitted"} /\ fut' = fut
  <2>1. Owe(j, kind, c) /\ fut' = fut /\ c \in Threads
    BY <1>2 DEF RetireOwe, Threads
  <2>2. fut[j] = "cancelled" /\ row[j].state = "cancelled"
    BY <1>2 DEF RetireOwe, At, Hands, HandOK
  <2> QED BY <2>1, <2>2 DEF Writable
<1>3. ASSUME NEW c \in Caller, pc[c].job = j, SubmitFailed(c), kind = "unstarted"
      PROVE  /\ \E by \in Threads \cup {"worker"} : Owe(j, kind, by)
             /\ Writable(row[j], kind) /\ fut[j] \in {"running", "cancelled", "unsubmitted"} /\ fut' = fut
  <2>1. Owe(j, kind, c) /\ fut' = fut /\ c \in Threads
    BY <1>3 DEF SubmitFailed, Threads
  <2>2. fut[j] = "unsubmitted"
    BY <1>3 DEF SubmitFailed, At, Hands, HandOK
  <2>3. row[j].state # "absent"
    BY <2>2 DEF RowsOK
  <2> QED BY <1>3, <2>1, <2>2, <2>3 DEF Writable
<1> QED BY <1>1, <1>2, <1>3 DEF Owing

OwedIn(k, s) == \E i \in DOMAIN s : s[i].job = k

(* What an owed write leaves: a result in the store, or the debt. *)
LEMMA OweEffect ==
  ASSUME BaseType, RowsOK, OneEach(debts), NEW j \in Job, NEW kind \in {"finish", "unstarted"},
         NEW by \in Threads \cup {"worker"}, Owe(j, kind, by), Writable(row[j], kind)
  PROVE  /\ debts' \in Seq(Debt) /\ OneEach(debts')
         /\ \A e : Among(e, debts') => Among(e, debts) \/ (e \in Debt /\ e.job = j /\ e.kind = kind)
         /\ \A k \in Job : OwedIn(k, debts) => OwedIn(k, debts')
         /\ OwedIn(j, debts') \/ (row'[j].result # "none" /\ debts' = debts)
<1> DEFINE d == [job |-> j, kind |-> kind, by |-> by]
<1>0. debts \in Seq(Debt) /\ d \in Debt /\ d.job = j /\ d.kind = kind
  BY DEF BaseType, Debt
<1>1. PICK raised \in BOOLEAN : /\ Attempt(j, kind, raised)
                                /\ debts' = IF raised THEN WithDebt(d) ELSE debts
  BY DEF Owe
<1> HIDE DEF d
<1>2. CASE raised
  <2>1. /\ debts' \in Seq(Debt) /\ OneEach(debts')
        /\ \A e : Among(e, debts') <=> e = d \/ (Among(e, debts) /\ e.job # d.job)
    BY <1>0, <1>1, <1>2, WithDebtEffect
  <2>2. Among(d, debts')
    BY <2>1
  <2>3. OwedIn(j, debts')
    BY <1>0, <2>2 DEF Among, OwedIn
  <2>4. ASSUME NEW k \in Job, OwedIn(k, debts), k # j PROVE OwedIn(k, debts')
    <3>1. PICK i \in DOMAIN debts : debts[i].job = k
      BY <2>4 DEF OwedIn
    <3>2. Among(debts[i], debts)
      BY DEF Among
    <3>3. Among(debts[i], debts')
      BY <1>0, <2>1, <2>4, <3>1, <3>2
    <3> QED BY <3>1, <3>3 DEF Among, OwedIn
  <2> QED BY <1>0, <2>1, <2>3, <2>4
<1>3. CASE ~raised
  <2>1. row'[j].result # "none"
    BY <1>1, <1>3, AttemptEffect DEF BaseType
  <2>2. debts' = debts
    BY <1>1, <1>3
  <2> QED BY <1>0, <2>1, <2>2
<1> QED BY <1>2, <1>3

LEMMA DebtStep ==
  ASSUME BaseType, Standing, PoolOK, RowsOK, Hands, DebtsOK, [Next]_vars
  PROVE  /\ debts' \in Seq(Debt) /\ OneEach(debts')
         /\ \A e : Among(e, debts') =>
              \/ Among(e, debts)
              \/ /\ e \in Debt /\ Writable(row[e.job], e.kind)
                 /\ fut[e.job] \in {"running", "cancelled", "unsubmitted"} /\ fut' = fut
         /\ \A k \in Job : OwedIn(k, debts) =>
              \/ OwedIn(k, debts')
              \/ \E c \in Threads : PayDone(c) /\ Head(pc[c].owed).job = k
<1> DEFINE Fresh(e) == /\ e \in Debt /\ Writable(row[e.job], e.kind)
                       /\ fut[e.job] \in {"running", "cancelled", "unsubmitted"} /\ fut' = fut
           Goal ==
         /\ debts' \in Seq(Debt) /\ OneEach(debts')
         /\ \A e : Among(e, debts') => Among(e, debts) \/ Fresh(e)
         /\ \A k \in Job : OwedIn(k, debts) =>
              \/ OwedIn(k, debts')
              \/ \E c \in Threads : PayDone(c) /\ Head(pc[c].owed).job = k
<1>0. debts \in Seq(Debt) /\ OneEach(debts)
  BY DEF BaseType, DebtsOK, OneEach
<1>1. CASE debts' = debts
  BY <1>0, <1>1
<1>2. ASSUME NEW j \in Job, NEW kind \in {"finish", "unstarted"}, Owing(j, kind) PROVE Goal
  <2>1. /\ \E by \in Threads \cup {"worker"} : Owe(j, kind, by)
        /\ Writable(row[j], kind) /\ fut[j] \in {"running", "cancelled", "unsubmitted"} /\ fut' = fut
    BY <1>2, OwingEffect
  <2>2. PICK by \in Threads \cup {"worker"} : Owe(j, kind, by)
    BY <2>1
  <2>3. /\ debts' \in Seq(Debt) /\ OneEach(debts')
        /\ \A e : Among(e, debts') => Among(e, debts) \/ (e \in Debt /\ e.job = j /\ e.kind = kind)
        /\ \A k \in Job : OwedIn(k, debts) => OwedIn(k, debts')
    BY <1>0, <2>1, <2>2, OweEffect
  <2> QED BY <2>1, <2>3
<1>3. ASSUME NEW c \in Threads, PayDone(c) PROVE Goal
  <2> DEFINE d == Head(pc[c].owed)
  <2>1. debts' = Without(d)
    BY <1>3 DEF PayDone
  <2>2. /\ debts' \in Seq(Debt) /\ OneEach(debts')
        /\ \A e : Among(e, debts') <=> Among(e, debts) /\ e # d
    BY <1>0, <2>1, WithoutEffect
  <2>3. ASSUME NEW k \in Job, OwedIn(k, debts), d.job # k PROVE OwedIn(k, debts')
    <3>1. PICK i \in DOMAIN debts : debts[i].job = k
      BY <2>3 DEF OwedIn
    <3>2. Among(debts[i], debts)
      BY DEF Among
    <3>3. Among(debts[i], debts')
      BY <2>2, <2>3, <3>1, <3>2
    <3> QED BY <3>1, <3>3 DEF Among, OwedIn
  <2> QED BY <1>3, <2>2, <2>3
<1>4. ASSUME NEW c \in Threads, PayRefused(c) PROVE Goal
  <2>1. debts' = ToTheBack(Head(pc[c].owed))
    BY <1>4 DEF PayRefused
  <2>2. /\ debts' \in Seq(Debt) /\ OneEach(debts')
        /\ \A e : Among(e, debts') <=> Among(e, debts)
    BY <1>0, <2>1, ToTheBackEffect
  <2>3. ASSUME NEW k \in Job, OwedIn(k, debts) PROVE OwedIn(k, debts')
    <3>1. PICK i \in DOMAIN debts : debts[i].job = k
      BY <2>3 DEF OwedIn
    <3>2. Among(debts[i], debts')
      BY <2>2 DEF Among
    <3> QED BY <3>1, <3>2 DEF Among, OwedIn
  <2> QED BY <2>2, <2>3
<1>5. ASSUME NEW j \in Job, DrainOwe(j) PROVE Goal
  <2> DEFINE d == [job |-> j, kind |-> "unstarted", by |-> Exit]
  <2>1. debts' = OwedAtExit(j) /\ fut' = fut
    BY <1>5 DEF DrainOwe
  <2>2. CASE fut[j] = "cancelled" /\ ~Owes(j)
    <3>1. d \in Debt /\ d.job = j /\ d.kind = "unstarted" /\ debts' = WithDebt(d)
      BY <2>1, <2>2 DEF Debt, Threads, OwedAtExit, WithDebt
    <3> HIDE DEF d
    <3>2. /\ debts' \in Seq(Debt) /\ OneEach(debts')
          /\ \A e : Among(e, debts') <=> e = d \/ (Among(e, debts) /\ e.job # d.job)
      BY <1>0, <3>1, WithDebtEffect
    <3>3. row[j].state # "absent"
      BY <2>2 DEF RowsOK
    <3>4. Fresh(d)
      BY <2>1, <2>2, <3>1, <3>3 DEF Writable
    <3>5. ASSUME NEW k \in Job, OwedIn(k, debts) PROVE OwedIn(k, debts')
      <4>1. PICK i \in DOMAIN debts : debts[i].job = k
        BY <3>5 DEF OwedIn
      <4>2. Among(debts[i], debts) /\ k # j
        BY <2>2, <4>1 DEF Among, Owes
      <4>3. Among(debts[i], debts')
        BY <3>1, <3>2, <4>1, <4>2
      <4> QED BY <4>1, <4>3 DEF Among, OwedIn
    <3>6. ASSUME NEW e, Among(e, debts') PROVE Among(e, debts) \/ Fresh(e)
      BY <3>2, <3>4, <3>6
    <3> QED BY <3>2, <3>5, <3>6
  <2>3. CASE ~(fut[j] = "cancelled" /\ ~Owes(j))
    BY <1>1, <2>1, <2>3 DEF OwedAtExit
  <2> QED BY <2>2, <2>3
<1>6. CASE \E j \in Job, kind \in {"finish", "unstarted"} : Owing(j, kind)
  BY <1>2, <1>6
<1>7. CASE \E c \in Threads : PayDone(c) \/ PayRefused(c)
  BY <1>3, <1>4, <1>7
<1>8. CASE \E j \in Job : DrainOwe(j)
  BY <1>5, <1>8
<1> QED BY <1>1, <1>6, <1>7, <1>8, DebtMoves

----------------------------------------------------------------------------
(* One thread moves at a time, and what one that pays has in hand. *)

LEMMA CallAlone == ASSUME BaseType, Standing, NEW c \in Caller, Calling(c) PROVE Alone(c)
<1>0. pc \in [Threads -> Pcs] /\ c \in Threads /\ tracked \in SUBSET Job
  BY DEF Standing, Threads, BaseType
<1>1. ASSUME NEW p, pc' = [pc EXCEPT ![c] = p] PROVE Alone(c)
  BY <1>0, <1>1 DEF Alone
<1>2. CASE BeginAdmit(c) \/ \E j \in Job : BeginCancel(c, j)
  BY <1>1, <1>2 DEF BeginAdmit, BeginCancel
<1>3. CASE Reconcile(c)
  BY <1>0, <1>3, ReconcileEffect
<1>4. ASSUME NEW j \in Job, RetireLook(c, j) PROVE Alone(c)
  BY <1>0, <1>4, RetireLookEffect
<1>5. CASE Return(c) \/ GoOn(c) \/ \E where : Goto(c, where)
  BY <1>0, <1>5, ReturnEffect, GoOnEffect, GotoEffect
<1>6. CASE RetireCancel(c) \/ RetireCallback(c) \/ RetireOwe(c) \/ RetireEnd(c)
  BY <1>5, <1>6 DEF RetireCancel, RetireCallback, RetireOwe, RetireEnd
<1>7. CASE NotCreated(c) \/ Submit(c) \/ SubmitFailed(c) \/ Track(c)
  BY <1>5, <1>7 DEF NotCreated, Submit, SubmitFailed, Track
<1>8. CASE Acquire(c) \/ Hook(c)
  BY <1>1, <1>5, <1>8 DEF Acquire, Hook
<1>9. ASSUME NEW j \in Job, Create(c, j) PROVE Alone(c)
  BY <1>0, <1>9, CreateEffect
<1> QED BY <1>2, <1>3, <1>4, <1>6, <1>7, <1>8, <1>9 DEF Calling, Call

LEMMA PayPlaces ==
  ASSUME BaseType, Standing, NEW c \in Threads, Settling(c)
  PROVE  /\ Alone(c) /\ pc[c].at \in {"idle"} \cup Paying
         /\ pc'[c].at \in {"idle", "again"} \cup Paying
         /\ pc'[c].todo \in SUBSET pc[c].todo /\ pc'[c].stale \in SUBSET pc[c].stale
         /\ pc'[c].at \in Paying =>
              \/ pc'[c].at = "pay" /\ pc'[c].owed = debts /\ debts' = debts /\ phase = "serving"
              \/ \E raised \in BOOLEAN : /\ PayWrite(c, raised) /\ pc'[c].owed = pc[c].owed
                                         /\ pc'[c].at = IF raised THEN "refused" ELSE "paid"
              \/ PayDone(c)
<1>1. CASE c \in Caller /\ BeginSettle(c)
  <2>1. pc' = [pc EXCEPT ![c] = [Idle EXCEPT !.at = "pay", !.owed = debts]]
    BY <1>1 DEF BeginSettle
  <2>2. /\ pc'[c].at = "pay" /\ pc'[c].owed = debts /\ pc'[c].todo = {} /\ pc'[c].stale = {}
        /\ Alone(c)
    BY <2>1, PayingEffect DEF BaseType
  <2> QED BY <1>1, <2>2 DEF BeginSettle, At, Paying
<1>2. ASSUME NEW raised \in BOOLEAN, PayWrite(c, raised)
      PROVE  /\ Alone(c) /\ pc[c].at = "pay" /\ pc'[c].at = (IF raised THEN "refused" ELSE "paid")
             /\ pc'[c].owed = pc[c].owed
             /\ pc'[c].todo = pc[c].todo /\ pc'[c].stale = pc[c].stale
  BY <1>2, GotoEffect DEF PayWrite, At
<1>3. CASE \E raised \in BOOLEAN : PayWrite(c, raised)
  BY <1>2, <1>3 DEF Paying
<1>4. CASE PayDone(c)
  BY <1>4, PayDoneEffect DEF Paying
<1>5. CASE PayRefused(c) \/ PayEnd(c)
  BY <1>5, EndPassEffect DEF PayRefused, PayEnd, At, Paying
<1> QED BY <1>1, <1>3, <1>4, <1>5 DEF Settling, Pay

LEMMA LeavingPlaces ==
  ASSUME BaseType, Standing, Leaving
  PROVE  /\ Alone(Exit)
         /\ pc'[Exit].at \in Paying => pc'[Exit].at = "pay" /\ pc'[Exit].owed = debts /\ debts' = debts
<1>0. Exit \in Threads /\ "again" \in Places
  BY DEF Threads, Places
<1>1. CASE Drain
  BY <1>1, DrainEffect DEF Paying
<1>2. CASE DrainOne
  BY <1>2, DrainOneEffect DEF Paying
<1>3. ASSUME NEW j \in Job, DrainOwe(j) PROVE Alone(Exit) /\ pc'[Exit].at \notin Paying
  BY <1>3, DrainOweEffect DEF Paying
<1>4. CASE Join
  BY <1>0, <1>4, StartEffect DEF Join, Paying
<1>5. ASSUME pc' = [pc EXCEPT ![Exit] = Idle] PROVE Alone(Exit) /\ pc'[Exit].at \notin Paying
  BY <1>0, <1>5, StepsTo, IdleFields DEF Paying
<1>6. CASE SettleAtExit
  <2>1. CASE pc' = [pc EXCEPT ![Exit] = [Idle EXCEPT !.at = "pay", !.owed = debts]]
    <3>1. pc'[Exit].at = "pay" /\ pc'[Exit].owed = debts /\ Alone(Exit)
      BY <1>0, <2>1, PayingEffect DEF BaseType
    <3> QED BY <1>6, <3>1 DEF SettleAtExit
  <2> QED BY <1>5, <1>6, <2>1 DEF SettleAtExit
<1>7. CASE OutOfTime
  BY <1>5, <1>7 DEF OutOfTime
<1> QED BY <1>1, <1>2, <1>3, <1>4, <1>6, <1>7 DEF Leaving

(* A call neither comes from paying nor goes on to it. *)
LEMMA CallPlaces ==
  ASSUME BaseType, Standing, NEW c \in Caller, Calling(c)
  PROVE  pc[c].at \notin Paying /\ pc'[c].at \notin Paying
<1>0. c \in Threads /\ StandsOK(c) /\ tracked \in SUBSET Job
  BY Fields DEF BaseType, Threads
<1>1. CASE BeginAdmit(c) \/ \E j \in Job : BeginCancel(c, j)
  <2>1. \E next \in {"idle", "acquire"} : pc' = [pc EXCEPT ![c] = Reconciling(next)]
    BY <1>1 DEF BeginAdmit, BeginCancel
  <2>2. pc'[c].at = "reconcile"
    BY <1>0, <2>1, ReconcilingEffect
  <2>3. pc[c].at = "idle"
    BY <1>1 DEF BeginAdmit, BeginCancel, At
  <2> QED BY <2>2, <2>3 DEF Paying
<1>2. CASE Reconcile(c)
  BY <1>0, <1>2, ReconcileEffect DEF Paying
<1>3. ASSUME NEW j \in Job, RetireLook(c, j) PROVE pc[c].at \notin Paying /\ pc'[c].at \notin Paying
  BY <1>0, <1>3, RetireLookEffect DEF Paying
<1>4. CASE Return(c) \/ GoOn(c) \/ \E where : Goto(c, where) /\ where \notin Paying
  <2>1. pc'[c].at \notin Paying
    BY <1>0, <1>4, ReturnEffect, GoOnEffect, GotoEffect, IdleFields DEF Paying
  <2>2. pc[c].at \notin Paying \/ pc[c].at \in Paying
    OBVIOUS
  <2>3. CASE pc[c].at \in Paying
    <3>1. /\ ~BeginAdmit(c) /\ ~\E j \in Job : BeginCancel(c, j) \/ RetireLook(c, j) \/ Create(c, j)
          /\ ~Reconcile(c) /\ ~RetireCancel(c) /\ ~RetireCallback(c) /\ ~RetireOwe(c) /\ ~RetireEnd(c)
          /\ ~Acquire(c) /\ ~NotCreated(c) /\ ~Submit(c) /\ ~SubmitFailed(c) /\ ~Track(c) /\ ~Hook(c)
      BY <2>3 DEF BeginAdmit, BeginCancel, RetireLook, Create, Reconcile, RetireCancel, RetireCallback,
                  RetireOwe, RetireEnd, Acquire, NotCreated, Submit, SubmitFailed, Track, Hook, At, Paying
    <3> QED BY <3>1 DEF Calling, Call
  <2> QED BY <2>1, <2>3
<1>5. CASE RetireCancel(c) \/ RetireCallback(c) \/ RetireOwe(c)
  BY <1>4, <1>5 DEF RetireCancel, RetireCallback, RetireOwe, Paying
<1>6. CASE RetireEnd(c)
  <2>1. pc[c].at = "retire" => pc[c].next \in {"idle", "acquire"}
    BY <1>0 DEF StandsOK, Retiring
  <2> QED BY <1>4, <1>6, <2>1 DEF RetireEnd, Paying, At
<1>7. CASE NotCreated(c) \/ Submit(c) \/ SubmitFailed(c) \/ Track(c)
  BY <1>4, <1>7 DEF NotCreated, Submit, SubmitFailed, Track, Paying
<1>8. CASE Acquire(c)
  <2>1. CASE pc' = [pc EXCEPT ![c] = [Idle EXCEPT !.at = "create"]]
    <3>1. "create" \in Places
      BY DEF Places
    <3>2. pc'[c].at = "create"
      BY <1>0, <2>1, <3>1, StartEffect
    <3> QED BY <1>8, <3>2 DEF Acquire, At, Paying
  <2> QED BY <1>4, <1>8, <2>1 DEF Acquire
<1>9. CASE Hook(c)
  <2>1. pc'[c].at = "reconcile"
    BY <1>0, <1>9, ReconcilingEffect DEF Hook
  <2> QED BY <1>9, <2>1 DEF Hook, At, Paying
<1>10. ASSUME NEW j \in Job, Create(c, j) PROVE pc[c].at \notin Paying /\ pc'[c].at \notin Paying
  BY <1>0, <1>10, CreateEffect, IdleFields DEF Paying
<1> QED BY <1>1, <1>2, <1>3, <1>5, <1>6, <1>7, <1>8, <1>9, <1>10 DEF Calling, Call

LEMMA DebtsKept ==
  ASSUME BaseType, Standing, PoolOK, RowsOK, Hands, DebtsOK, [Next]_vars
  PROVE  DebtsOK'
<1>0. /\ \A k \in Job : Onward(row[k], row'[k]) /\ FutOnward(fut[k], fut'[k])
      /\ debts' \in Seq(Debt) /\ OneEach(debts') /\ debts \in Seq(Debt)
  BY RowStep, FutStep, DebtStep DEF BaseType
<1>1. \A k \in Job : \A kind : Writable(row[k], kind) => Writable(row'[k], kind)
  BY <1>0 DEF Onward, Writable
<1>2. ASSUME NEW e, Among(e, debts)
      PROVE  e \in Debt /\ Writable(row'[e.job], e.kind) /\ fut'[e.job] \notin {"none", "pending"}
  <2>1. PICK i \in DOMAIN debts : debts[i] = e
    BY <1>2 DEF Among
  <2>2. e \in Debt
    BY <1>0, <2>1, ElementOfSeq, LenProperties
  <2>3. Writable(row[e.job], e.kind) /\ fut[e.job] \notin {"none", "pending"} /\ e.job \in Job
    BY <2>1, <2>2, DebtFields DEF DebtsOK
  <2> QED BY <1>0, <1>1, <2>2, <2>3 DEF FutOnward, BaseType, Futures
<1>3. ASSUME NEW i \in DOMAIN debts'
      PROVE  Writable(row'[debts'[i].job], debts'[i].kind) /\ fut'[debts'[i].job] \notin {"none", "pending"}
  <2> DEFINE e == debts'[i]
  <2>1. Among(e, debts')
    BY DEF Among
  <2> HIDE DEF e
  <2>2. \/ Among(e, debts)
        \/ e \in Debt /\ Writable(row[e.job], e.kind) /\ fut[e.job] \in {"running", "cancelled", "unsubmitted"} /\ fut' = fut
    BY <2>1, DebtStep
  <2>3. Writable(row'[e.job], e.kind) /\ fut'[e.job] \notin {"none", "pending"}
    BY <1>1, <1>2, <2>2, DebtFields
  <2> QED BY <2>3 DEF e
<1>4. ASSUME NEW t \in Threads, pc'[t].at \in Paying
      PROVE  \/ pc'[t] = pc[t]
             \/ pc'[t].at = "pay" /\ pc'[t].owed = debts
             \/ \E raised \in BOOLEAN : /\ PayWrite(t, raised) /\ pc'[t].owed = pc[t].owed
                                        /\ pc'[t].at = IF raised THEN "refused" ELSE "paid"
             \/ PayDone(t)
  <2>1. ASSUME NEW c \in Caller, Calling(c) PROVE pc'[t] = pc[t]
    BY <1>4, <2>1, CallAlone, CallPlaces DEF Alone
  <2>2. ASSUME NEW c \in Threads, Settling(c), c # t PROVE pc'[t] = pc[t]
    BY <2>2, PayPlaces DEF Alone
  <2>3. CASE Settling(t)
    BY <1>4, <2>3, PayPlaces
  <2>4. CASE Leaving
    BY <1>4, <2>4, LeavingPlaces DEF Alone
  <2>5. CASE Elsewhere
    BY <2>5, ElsewhereStands
  <2> QED BY <2>1, <2>2, <2>3, <2>4, <2>5, StepKinds
<1>5. ASSUME NEW t \in Threads, pc[t].at \in Paying
      PROVE  /\ pc[t].owed \in Seq(Debt)
             /\ \A i \in 1 .. Len(pc[t].owed) : /\ pc[t].owed[i] \in Debt
                                                /\ Writable(row'[pc[t].owed[i].job], pc[t].owed[i].kind)
  <2>1. pc[t].owed \in Seq(Debt)
    BY <1>5, Fields DEF StandsOK
  <2>2. ASSUME NEW i \in 1 .. Len(pc[t].owed)
        PROVE  pc[t].owed[i] \in Debt /\ Writable(row'[pc[t].owed[i].job], pc[t].owed[i].kind)
    <3>1. pc[t].owed[i] \in Debt /\ DOMAIN pc[t].owed = 1 .. Len(pc[t].owed)
      BY <2>1, ElementOfSeq, LenProperties
    <3>2. Writable(row[pc[t].owed[i].job], pc[t].owed[i].kind)
      BY <1>5, <3>1 DEF DebtsOK
    <3> QED BY <1>1, <3>1, <3>2, DebtFields
  <2> QED BY <2>1, <2>2
<1>6. ASSUME NEW t \in Threads, PayDone(t)
      PROVE  /\ pc'[t].at = "pay"
             /\ \A i \in DOMAIN pc'[t].owed : Writable(row'[pc'[t].owed[i].job], pc'[t].owed[i].kind)
  <2> DEFINE s == pc[t].owed
             u == Tail(s)
  <2>1. pc[t].at = "paid" /\ s \in Seq(Debt) /\ s # <<>> /\ pc'[t].at = "pay" /\ pc'[t].owed = u
    BY <1>6, PayDoneEffect
  <2>2. u \in Seq(Debt) /\ Rest(s, 1, u)
    BY <2>1, TailRest
  <2>3. \A i \in 1 .. Len(s) : Writable(row'[s[i].job], s[i].kind)
    BY <1>5, <2>1 DEF Paying
  <2> HIDE DEF s, u
  <2>4. ASSUME NEW i \in DOMAIN u PROVE Writable(row'[u[i].job], u[i].kind)
    <3>1. i \in 1 .. Len(u)
      BY <2>2, LenProperties
    <3>2. PICK m \in 1 .. Len(s) : u[i] = s[m]
      BY <2>2, <3>1 DEF Rest
    <3> QED BY <2>3, <3>2
  <2> QED BY <2>1, <2>4
<1>7. ASSUME NEW t \in Threads, pc'[t].at \in Paying
      PROVE  \A i \in DOMAIN pc'[t].owed : Writable(row'[pc'[t].owed[i].job], pc'[t].owed[i].kind)
  <2>1. CASE pc'[t].owed = pc[t].owed /\ pc[t].at \in Paying
    BY <1>5, <2>1, LenProperties
  <2>2. CASE pc'[t].owed = debts
    <3>1. ASSUME NEW i \in DOMAIN debts PROVE Writable(row'[debts[i].job], debts[i].kind)
      <4>1. Among(debts[i], debts)
        BY DEF Among
      <4> QED BY <1>2, <4>1
    <3> QED BY <2>2, <3>1
  <2>3. CASE PayDone(t)
    BY <1>6, <2>3
  <2>4. ASSUME NEW raised \in BOOLEAN, PayWrite(t, raised) PROVE pc[t].at \in Paying
    BY <2>4 DEF PayWrite, At, Paying
  <2> QED BY <1>4, <1>7, <2>1, <2>2, <2>3, <2>4
<1>8. ASSUME NEW t \in Threads, pc'[t].at = "paid" PROVE row'[Head(pc'[t].owed).job].result # "none"
  <2>0. pc'[t].at \in Paying
    BY <1>8 DEF Paying
  <2>1. CASE pc'[t] = pc[t]
    <3>1. pc[t].owed \in Seq(Debt) /\ pc[t].owed # <<>> /\ row[Head(pc[t].owed).job].result # "none"
      BY <1>8, <2>1, Fields DEF StandsOK, DebtsOK, Paying
    <3>2. Head(pc[t].owed) \in Debt
      BY <3>1, HeadTailProperties
    <3> QED BY <1>0, <2>1, <3>1, <3>2, DebtFields DEF Onward
  <2>2. ASSUME PayWrite(t, FALSE), pc'[t].owed = pc[t].owed PROVE row'[Head(pc'[t].owed).job].result # "none"
    <3> DEFINE d == Head(pc[t].owed)
    <3>1. pc[t].at \in Paying /\ pc[t].owed # <<>> /\ Attempt(d.job, d.kind, FALSE)
      BY <2>2 DEF PayWrite, At, Paying
    <3>2. pc[t].owed \in Seq(Debt)
      BY <1>5, <3>1
    <3>3. d = pc[t].owed[1] /\ 1 \in DOMAIN pc[t].owed
      BY <3>1, <3>2, TailRest, LenProperties
    <3>4. d \in Debt /\ Writable(row[d.job], d.kind)
      BY <3>1, <3>2, <3>3, ElementOfSeq, LenProperties DEF DebtsOK
    <3> HIDE DEF d
    <3>5. row'[d.job].result # "none"
      BY <3>1, <3>4, AttemptEffect, DebtFields DEF BaseType
    <3> QED BY <2>2, <3>5 DEF d
  <2>3. ~PayDone(t)
    BY <1>6, <1>8
  <2>4. CASE \E raised \in BOOLEAN : /\ PayWrite(t, raised) /\ pc'[t].owed = pc[t].owed
                                     /\ pc'[t].at = IF raised THEN "refused" ELSE "paid"
    <3>1. PayWrite(t, FALSE) /\ pc'[t].owed = pc[t].owed
      BY <1>8, <2>4
    <3> QED BY <2>2, <3>1
  <2> QED BY <1>4, <1>8, <2>0, <2>1, <2>3, <2>4
<1> QED BY <1>0, <1>3, <1>7, <1>8 DEF DebtsOK, OneEach

----------------------------------------------------------------------------
(* Slots, step by step. *)

(* Where a future's callback runs. *)
Ends(j) ==
  /\ Callback(j)
  /\ \/ RunCallback(j)
     \/ \E c \in Caller : pc[c].job = j /\ (RetireCallback(c) \/ (Hook(c) /\ fut[j] \in {"cancelled", "done"}))
     \/ DrainOne /\ CancelFuture(j)

LEMMA SlotMoves ==
  ASSUME BaseType, Standing, [Next]_vars
  PROVE  \/ UNCHANGED <<free, debtSlots, tracked>>
         \/ \E j \in Job : Ends(j)
         \/ \E c \in Caller : Track(c)
         \/ \E c \in Caller : Acquire(c) \/ NotCreated(c) \/ Submit(c) \/ \E j \in Job : Create(c, j)
         \/ \E c \in Threads : PayDone(c)
<1> DEFINE Goal ==
         \/ UNCHANGED <<free, debtSlots, tracked>>
         \/ \E j \in Job : Ends(j)
         \/ \E c \in Caller : Track(c)
         \/ \E c \in Caller : Acquire(c) \/ NotCreated(c) \/ Submit(c) \/ \E j \in Job : Create(c, j)
         \/ \E c \in Threads : PayDone(c)
<1>1. ASSUME NEW c \in Caller, Calling(c) PROVE Goal
  <2>0. c \in Threads /\ StandsOK(c)
    BY Fields DEF Threads
  <2>1. CASE RetireCallback(c)
    <3>1. pc[c].job \in Job /\ Callback(pc[c].job)
      BY <2>0, <2>1 DEF RetireCallback, At, StandsOK, WithJob
    <3>2. Ends(pc[c].job)
      BY <2>1, <3>1 DEF Ends
    <3> QED BY <3>1, <3>2
  <2>2. CASE Hook(c)
    <3>1. pc[c].job \in Job
      BY <2>0, <2>2 DEF Hook, At, StandsOK, WithJob
    <3>2. CASE fut[pc[c].job] \in {"cancelled", "done"}
      <4>1. Ends(pc[c].job)
        BY <2>2, <3>2 DEF Ends, Hook
      <4> QED BY <3>1, <4>1
    <3>3. CASE fut[pc[c].job] \notin {"cancelled", "done"}
      BY <2>2, <3>3 DEF Hook, slots
    <3> QED BY <3>2, <3>3
  <2>3. CASE Call(c) /\ ~RetireCallback(c) /\ ~Hook(c)
    <3>1. CASE Reconcile(c) \/ RetireCancel(c) \/ RetireOwe(c) \/ RetireEnd(c) \/ SubmitFailed(c)
               \/ \E j \in Job : RetireLook(c, j)
      BY <3>1 DEF Reconcile, RetireCancel, RetireOwe, RetireEnd, SubmitFailed, RetireLook, slots
    <3> QED BY <2>3, <3>1 DEF Call
  <2>4. CASE BeginAdmit(c) \/ \E j \in Job : BeginCancel(c, j)
    BY <2>4 DEF BeginAdmit, BeginCancel, slots
  <2> QED BY <1>1, <2>1, <2>2, <2>3, <2>4 DEF Calling
<1>2. ASSUME NEW c \in Threads, Settling(c) PROVE Goal
  BY <1>2 DEF Settling, Pay, PayWrite, PayRefused, PayEnd, BeginSettle, slots
<1>3. CASE Leaving
  <2>1. CASE DrainOne
    <3> DEFINE j == Head(pc[Exit].owed)
    <3>1. pc[Exit].owed \in Seq(Job) /\ pc[Exit].owed # <<>>
      BY <2>1, DrainOneEffect
    <3>2. j \in Job
      BY <3>1, HeadTailProperties
    <3>3. (CancelFuture(j) /\ Callback(j)) \/ UNCHANGED <<slots, tracked>>
      BY <2>1 DEF DrainOne
    <3>4. CASE CancelFuture(j) /\ Callback(j)
      BY <2>1, <3>2, <3>4 DEF Ends
    <3> QED BY <3>3, <3>4 DEF slots
  <2> QED BY <1>3, <2>1 DEF Leaving, Drain, DrainOwe, Join, SettleAtExit, OutOfTime, slots
<1>4. ASSUME NEW j \in Job, Working(j) PROVE Goal
  <2>1. CASE RunCallback(j)
    BY <2>1 DEF Ends, RunCallback
  <2> QED BY <1>4, <2>1 DEF Working, RunAsk, RunReturn, RunWrite, RunClaim, slots
<1>5. CASE Elsewhere
  BY <1>4, <1>5 DEF Elsewhere, Run, RemoteCancel, Working, Leave, Take, vars, slots
<1> QED BY <1>1, <1>2, <1>3, <1>5, StepKinds

LEMMA EndsFuture ==
  ASSUME BaseType, PoolOK, Hands, NEW j \in Job, Ends(j)
  PROVE  fut'[j] \in {"cancelled", "done"}
<1>1. CASE RunCallback(j)
  BY <1>1 DEF RunCallback, PoolOK
<1>2. ASSUME NEW c \in Caller, pc[c].job = j, RetireCallback(c) PROVE fut'[j] \in {"cancelled", "done"}
  BY <1>2 DEF RetireCallback, At, Hands, HandOK
<1>3. ASSUME NEW c \in Caller, Hook(c), fut[j] \in {"cancelled", "done"} PROVE fut'[j] \in {"cancelled", "done"}
  BY <1>3 DEF Hook
<1>4. CASE CancelFuture(j)
  BY <1>4 DEF CancelFuture, BaseType
<1> QED BY <1>1, <1>2, <1>3, <1>4 DEF Ends

(* What a callback does to the slots. *)
LEMMA CallbackEffect ==
  ASSUME BaseType, NEW j \in Job, Callback(j)
  PROVE  /\ tracked' = tracked \ {j} /\ free' \in Nat /\ debtSlots' \in SUBSET Job
         /\ \/ Owes(j) /\ debtSlots' = debtSlots \cup {j} /\ free' = free
            \/ ~Owes(j) /\ debtSlots' = debtSlots /\ free' = free + 1
BY DEF Callback, SlotReturned, BaseType

LEMMA TypeStep ==
  ASSUME BaseType, Standing, PoolOK, RowsOK, Hands, DebtsOK, NoIdleQueue, [Next]_vars
  PROVE  BaseType'
<1>1. /\ row' \in [Job -> Rows] /\ queue' \in Seq(Job) /\ workers' \in Int /\ loops' \in Nat
      /\ fut' \in [Job -> Futures] /\ exec' \in [Job -> Runs] /\ debts' \in Seq(Debt)
  BY PoolStep, RowStep, DebtStep
<1>2. free' \in Nat /\ tracked' \in SUBSET Job /\ debtSlots' \in SUBSET Job
  <2>0. free \in Nat /\ tracked \in SUBSET Job /\ debtSlots \in SUBSET Job
    BY DEF BaseType
  <2>1. ASSUME NEW c \in Caller, Track(c) PROVE free' \in Nat /\ tracked' \in SUBSET Job /\ debtSlots' \in SUBSET Job
    <3>1. pc[c].job \in Job
      BY <2>1, Fields DEF Threads, Track, At, StandsOK, WithJob
    <3> QED BY <2>0, <2>1, <3>1 DEF Track, slots
  <2>2. ASSUME NEW c \in Caller, Acquire(c) \/ NotCreated(c) \/ Submit(c) \/ \E j \in Job : Create(c, j)
        PROVE  free' \in Nat /\ tracked' \in SUBSET Job /\ debtSlots' \in SUBSET Job
    <3>1. (free' \in {free, free + 1} \/ (free > 0 /\ free' = free - 1)) /\ tracked' = tracked /\ debtSlots' = debtSlots
      BY <2>0, <2>2 DEF Acquire, NotCreated, Submit, Create
    <3> QED BY <2>0, <3>1
  <2>3. ASSUME NEW c \in Threads, PayDone(c)
        PROVE  free' \in Nat /\ tracked' \in SUBSET Job /\ debtSlots' \in SUBSET Job
    <3>1. free' \in {free, free + 1} /\ tracked' = tracked /\ debtSlots' \in SUBSET debtSlots
      BY <2>0, <2>3 DEF PayDone
    <3> QED BY <2>0, <3>1
  <2>4. ASSUME NEW j \in Job, Ends(j) PROVE free' \in Nat /\ tracked' \in SUBSET Job /\ debtSlots' \in SUBSET Job
    BY <2>0, <2>4, CallbackEffect DEF Ends
  <2>5. CASE UNCHANGED <<free, debtSlots, tracked>>
    BY <2>0, <2>5
  <2> QED BY <2>1, <2>2, <2>3, <2>4, <2>5, SlotMoves
<1>3. settling' \in Threads \cup {"none"} /\ phase' \in Phases
  <2>0. settling \in Threads \cup {"none"} /\ phase \in Phases /\ Exit \in Threads
    BY DEF BaseType, Threads
  <2>1. ASSUME NEW c \in Caller, Calling(c) PROVE settling' = settling /\ phase' = phase
    <3>1. CASE Reconcile(c) \/ RetireCancel(c) \/ RetireCallback(c) \/ RetireOwe(c) \/ RetireEnd(c)
      BY <3>1 DEF Reconcile, RetireCancel, RetireCallback, RetireOwe, RetireEnd, process
    <3>2. CASE Acquire(c) \/ NotCreated(c) \/ Submit(c) \/ SubmitFailed(c) \/ Track(c) \/ Hook(c)
      BY <3>2 DEF Acquire, NotCreated, Submit, SubmitFailed, Track, Hook, process
    <3>3. CASE BeginAdmit(c) \/ \E j \in Job : RetireLook(c, j) \/ Create(c, j) \/ BeginCancel(c, j)
      BY <3>3 DEF BeginAdmit, BeginCancel, RetireLook, Create, process
    <3> QED BY <2>1, <3>1, <3>2, <3>3 DEF Calling, Call
  <2>2. ASSUME NEW c \in Threads, Settling(c) PROVE settling' \in {settling, c, "none"} /\ phase' = phase
    BY <2>2 DEF Settling, Pay, PayWrite, PayDone, PayRefused, PayEnd, EndPass, BeginSettle, process
  <2>3. CASE Leaving
    <3>1. settling' \in {settling, Exit, "none"} /\ phase' \in Phases
      BY <2>0, <2>3 DEF Leaving, Drain, DrainOne, DrainOwe, Join, SettleAtExit, OutOfTime, process, Phases
    <3> QED BY <2>0, <3>1
  <2>4. CASE Elsewhere
    BY <2>0, <2>4, ElsewhereStands
  <2> QED BY <2>0, <2>1, <2>2, <2>3, <2>4, StepKinds
<1> QED BY <1>1, <1>2, <1>3 DEF BaseType

----------------------------------------------------------------------------
(* What the calls have in hand, step by step. *)

Forth == \A k \in Job : FutOnward(fut[k], fut'[k]) /\ Onward(row[k], row'[k])

LEMMA Forward == ASSUME BaseType, Standing, PoolOK, RowsOK, Hands, DebtsOK, [Next]_vars PROVE Forth
BY FutStep, RowStep DEF Forth

LEMMA SubmittedForward ==
  ASSUME Forth
  PROVE  /\ \A k \in Job : Submitted(k) => Submitted(k)'
         /\ \A k \in Job : row[k].state = "cancelled" => row'[k].state = "cancelled"
         /\ \A k \in Job : row[k].state # "absent" => row'[k].state # "absent"
         /\ \A k \in Job : fut[k] \in {"cancelled", "done", "unsubmitted"} => fut'[k] = fut[k]
BY DEF Forth, FutOnward, Onward, Submitted

(* A call that does not move keeps what it has. *)
LEMMA HandKept ==
  ASSUME Standing, Forth, NEW c \in Caller, HandOK(c), pc'[c] = pc[c],
         pc[c].at = "submit" => fut'[pc[c].job] = "none"
  PROVE  HandOK(c)'
<1> DEFINE j == pc[c].job
<1>1. /\ pc[c].at \in WithJob => j \in Job
      /\ pc[c].todo \in SUBSET Job /\ pc[c].stale \in SUBSET Job
  BY Fields DEF Threads, StandsOK
<1>2. /\ pc[c].at = "submit" => fut'[j] = "none" /\ row'[j].state # "absent"
      /\ pc[c].at = "fail" => fut'[j] = "unsubmitted"
  BY <1>1, SubmittedForward DEF HandOK, WithJob
<1>3. pc[c].at \in {"track", "hook", "cancel"} => Submitted(j)'
  <2> SUFFICES ASSUME pc[c].at \in {"track", "hook", "cancel"} PROVE Submitted(j)'
    OBVIOUS
  <2>1. j \in Job /\ Submitted(j)
    BY <1>1 DEF HandOK, WithJob
  <2>2. fut[j] \in {"pending", "running", "cancelled", "done"} /\ FutOnward(fut[j], fut'[j])
    BY <2>1 DEF Submitted, Forth
  <2>3. fut'[j] \in {"pending", "running", "cancelled", "done"}
    BY <2>2 DEF FutOnward
  <2> QED BY <1>1, <2>3 DEF Submitted
<1>4. pc[c].at \in {"callback", "owe"} => fut'[j] = "cancelled" /\ row'[j].state = "cancelled"
  BY <1>1, SubmittedForward DEF HandOK, WithJob
<1>5. \A k \in pc[c].todo : Submitted(k)'
  BY <1>1, SubmittedForward DEF HandOK
<1>6. \A k \in pc[c].stale : Submitted(k)' /\ row'[k].state = "cancelled"
  BY <1>1, SubmittedForward DEF HandOK
<1> QED BY <1>2, <1>3, <1>4, <1>5, <1>6 DEF HandOK

(* Nor one whose next place asks for no job. *)
LEMMA HandLess ==
  ASSUME Standing, Forth, NEW c \in Caller, HandOK(c), pc'[c].at \notin WithJob,
         pc'[c].todo \in SUBSET pc[c].todo, pc'[c].stale \in SUBSET pc[c].stale
  PROVE  HandOK(c)'
<1>1. pc[c].todo \in SUBSET Job /\ pc[c].stale \in SUBSET Job
  BY Fields DEF Threads
<1>2. \A k \in pc[c].todo : Submitted(k)'
  BY <1>1, SubmittedForward DEF HandOK
<1>3. \A k \in pc[c].stale : Submitted(k)' /\ row'[k].state = "cancelled"
  BY <1>1, SubmittedForward DEF HandOK
<1> QED BY <1>2, <1>3 DEF HandOK, WithJob

(* Nor one at a new place for which it has what it takes. *)
LEMMA HandMoved ==
  ASSUME Standing, Forth, NEW c \in Caller, HandOK(c), NEW j, pc'[c].job = j,
         pc'[c].todo \in SUBSET pc[c].todo, pc'[c].stale = pc[c].stale,
         \/ pc'[c].at = "submit" /\ fut'[j] = "none" /\ row'[j].state # "absent"
         \/ pc'[c].at = "fail" /\ fut'[j] = "unsubmitted"
         \/ pc'[c].at \in {"track", "hook", "cancel"} /\ Submitted(j)'
         \/ pc'[c].at \in {"callback", "owe"} /\ fut'[j] = "cancelled" /\ row'[j].state = "cancelled"
  PROVE  HandOK(c)'
<1>1. pc[c].todo \in SUBSET Job /\ pc[c].stale \in SUBSET Job
  BY Fields DEF Threads
<1>2. \A k \in pc'[c].todo : Submitted(k)'
  BY <1>1, SubmittedForward DEF HandOK
<1>3. \A k \in pc'[c].stale : Submitted(k)' /\ row'[k].state = "cancelled"
  BY <1>1, SubmittedForward DEF HandOK
<1> QED BY <1>2, <1>3 DEF HandOK, Submitted

LEMMA CallHands ==
  ASSUME BaseType, Standing, RowsOK, PoolOK, Hands, Forth, NEW c \in Caller, Calling(c)
  PROVE  HandOK(c)'
<1>0. c \in Threads /\ StandsOK(c) /\ HandOK(c) /\ tracked \in SUBSET Job
      /\ fut \in [Job -> Futures] /\ row \in [Job -> Rows]
  BY Fields DEF BaseType, Threads, Hands
<1>1. CASE BeginAdmit(c) \/ \E j \in Job : BeginCancel(c, j)
  <2>1. \E next \in {"idle", "acquire"} : pc' = [pc EXCEPT ![c] = Reconciling(next)]
    BY <1>1 DEF BeginAdmit, BeginCancel
  <2>2. pc'[c].at = "reconcile" /\ pc'[c].todo = {} /\ pc'[c].stale = {}
    BY <1>0, <2>1, ReconcilingEffect
  <2> QED BY <1>0, <2>2, HandLess DEF WithJob
<1>2. CASE Reconcile(c)
  <2>1. /\ pc'[c].at = "retire" /\ pc'[c].todo = tracked /\ pc'[c].stale \in SUBSET tracked
        /\ \A j \in pc'[c].stale : row[j].state = "cancelled"
    BY <1>0, <1>2, ReconcileEffect
  <2>2. \A k \in tracked : Submitted(k)' /\ (row[k].state = "cancelled" => row'[k].state = "cancelled")
    BY <1>0, SubmittedForward DEF Hands
  <2> QED BY <2>1, <2>2 DEF HandOK
<1>3. ASSUME NEW j \in Job, RetireLook(c, j) PROVE HandOK(c)'
  <2>1. /\ pc'[c].todo = pc[c].todo \ {j} /\ pc'[c].stale = pc[c].stale
        /\ \/ fut[j] = "pending" /\ pc'[c].at = "cancel" /\ pc'[c].job = j
           \/ fut[j] # "pending" /\ pc'[c].at = "retire"
    BY <1>0, <1>3, RetireLookEffect
  <2>2. CASE pc'[c].at = "retire"
    BY <1>0, <2>1, <2>2, HandLess DEF WithJob
  <2>3. CASE fut[j] = "pending" /\ pc'[c].at = "cancel" /\ pc'[c].job = j
    <3>1. Submitted(j)'
      BY <2>3, SubmittedForward DEF Submitted
    <3> QED BY <1>0, <2>1, <2>3, <3>1, HandMoved
  <2> QED BY <2>1, <2>2, <2>3
<1>4. CASE GoOn(c)
  BY <1>0, <1>4, GoOnEffect, HandLess DEF WithJob
<1>5. CASE Return(c)
  BY <1>0, <1>5, ReturnEffect, IdleFields, HandLess DEF WithJob
<1>6. ASSUME NEW where \in {"fail", "track", "hook", "callback", "owe"}, Goto(c, where),
             \/ where = "fail" /\ fut'[pc[c].job] = "unsubmitted"
             \/ where \in {"track", "hook"} /\ Submitted(pc[c].job)'
             \/ where \in {"callback", "owe"} /\ fut'[pc[c].job] = "cancelled" /\ row'[pc[c].job].state = "cancelled"
      PROVE  HandOK(c)'
  <2>1. pc'[c].at = where /\ pc'[c].job = pc[c].job /\ pc'[c].todo = pc[c].todo /\ pc'[c].stale = pc[c].stale
    BY <1>0, <1>6, GotoEffect
  <2> DEFINE j == pc[c].job
  <2>2. \/ where = "fail" /\ fut'[j] = "unsubmitted"
        \/ where \in {"track", "hook"} /\ fut'[j] \in {"pending", "running", "cancelled", "done"}
        \/ where \in {"callback", "owe"} /\ fut'[j] = "cancelled" /\ row'[j].state = "cancelled"
    <3>1. pc'[c].job = pc[c].job
      BY <2>1
    <3> QED BY <1>6, <3>1 DEF Submitted
  <2>3. \A k \in pc'[c].todo : Submitted(k)'
    BY <1>0, <2>1, SubmittedForward, Fields DEF HandOK
  <2>4. \A k \in pc'[c].stale : Submitted(k)' /\ row'[k].state = "cancelled"
    BY <1>0, <2>1, SubmittedForward, Fields DEF HandOK
  <2> HIDE DEF j
  <2>5. pc'[c].job = j
    BY <2>1 DEF j
  <2> QED BY <2>1, <2>2, <2>3, <2>4, <2>5 DEF HandOK, Submitted
<1>7. CASE RetireCancel(c)
  <2> DEFINE j == pc[c].job
  <2>0. j \in Job
    BY <1>0, <1>7 DEF RetireCancel, At, StandsOK, WithJob
  <2>1. GoOn(c) \/ (row[j].state = "cancelled" /\ row' = row /\ fut'[j] = "cancelled" /\ \E where \in {"callback", "owe"} : Goto(c, where))
    BY <1>0, <1>7, <2>0 DEF RetireCancel, CancelFuture
  <2> QED BY <1>4, <1>6, <2>1
<1>8. CASE RetireCallback(c)
  BY <1>0, <1>6, <1>8 DEF RetireCallback, HandOK, At
<1>9. CASE RetireOwe(c)
  BY <1>4, <1>9 DEF RetireOwe
<1>10. CASE RetireEnd(c)
  <2>1. ASSUME pc[c].at = "retire", Goto(c, pc[c].next), pc[c].next # "idle" PROVE HandOK(c)'
    <3>1. Goto(c, "acquire")
      BY <1>0, <2>1 DEF StandsOK, Retiring
    <3>2. pc'[c].at = "acquire" /\ pc'[c].todo = pc[c].todo /\ pc'[c].stale = pc[c].stale
      BY <1>0, <3>1, GotoEffect
    <3> QED BY <1>0, <3>2, HandLess DEF WithJob
  <2> QED BY <1>5, <1>10, <2>1 DEF RetireEnd, At
<1>11. CASE Acquire(c)
  <2>1. CASE pc' = [pc EXCEPT ![c] = [Idle EXCEPT !.at = "create"]]
    <3>1. "create" \in Places
      BY DEF Places
    <3>2. pc'[c].at = "create" /\ pc'[c].todo = {} /\ pc'[c].stale = {}
      BY <1>0, <2>1, <3>1, StartEffect
    <3> QED BY <1>0, <3>2, HandLess DEF WithJob
  <2> QED BY <1>5, <1>11, <2>1 DEF Acquire
<1>12. ASSUME NEW j \in Job, Create(c, j) PROVE HandOK(c)'
  <2>1. CASE pc'[c] = Idle
    BY <1>0, <2>1, IdleFields, HandLess DEF WithJob
  <2>2. CASE pc'[c].at = "submit" /\ pc'[c].job = j /\ pc'[c].todo = pc[c].todo /\ pc'[c].stale = pc[c].stale
    <3>1. row[j] = NoRow /\ row' = [row EXCEPT ![j] = Created(Self)] /\ fut' = fut
      BY <1>12 DEF Create
    <3>2. fut'[j] = "none" /\ row'[j].state = "queued"
      BY <1>0, <3>1 DEF RowsOK, NoRow, Created
    <3> QED BY <1>0, <2>2, <3>2, HandMoved
  <2> QED BY <1>0, <1>12, <2>1, <2>2, CreateEffect
<1>13. CASE NotCreated(c) \/ SubmitFailed(c)
  BY <1>5, <1>13 DEF NotCreated, SubmitFailed
<1>14. CASE Submit(c)
  <2> DEFINE j == pc[c].job
  <2>0. j \in Job
    BY <1>0, <1>14 DEF Submit, At, StandsOK, WithJob
  <2>1. (fut'[j] = "pending" /\ Goto(c, "track")) \/ (fut'[j] = "unsubmitted" /\ Goto(c, "fail"))
    BY <1>0, <1>14, <2>0 DEF Submit
  <2>2. CASE fut'[j] = "pending" /\ Goto(c, "track")
    <3>1. pc'[c].job = j
      BY <1>0, <2>2, GotoEffect
    <3>2. Submitted(pc[c].job)'
      BY <2>2, <3>1 DEF Submitted
    <3> QED BY <1>6, <2>2, <3>2
  <2> QED BY <1>6, <2>1, <2>2
<1>15. CASE Track(c)
  <2>0. Goto(c, "hook") /\ fut' = fut /\ Submitted(pc[c].job)
    BY <1>0, <1>15 DEF Track, At, HandOK
  <2>1. pc'[c].job = pc[c].job
    BY <1>0, <2>0, GotoEffect
  <2>2. Submitted(pc[c].job)'
    BY <2>0, <2>1 DEF Submitted
  <2> QED BY <1>6, <2>0, <2>2
<1>16. CASE Hook(c)
  <2>1. pc'[c].at = "reconcile" /\ pc'[c].todo = {} /\ pc'[c].stale = {}
    BY <1>0, <1>16, ReconcilingEffect DEF Hook
  <2> QED BY <1>0, <2>1, HandLess DEF WithJob
<1> QED BY <1>1, <1>2, <1>3, <1>7, <1>8, <1>9, <1>10, <1>11, <1>12, <1>13, <1>14, <1>15, <1>16 DEF Calling, Call

(* What a callback or `_track_job` does to what is tracked. *)
LEMMA TrackedMoves ==
  ASSUME BaseType, Standing, PoolOK, Hands, [Next]_vars
  PROVE  \/ tracked' = tracked
         \/ \E j \in Job : Ends(j) /\ tracked' = tracked \ {j} /\ fut'[j] \in {"cancelled", "done"}
         \/ \E c \in Caller : Track(c) /\ tracked' = tracked \cup {pc[c].job}
<1>1. ASSUME NEW j \in Job, Ends(j)
      PROVE  tracked' = tracked \ {j} /\ fut'[j] \in {"cancelled", "done"}
  BY <1>1, EndsFuture, CallbackEffect DEF Ends
<1>2. ASSUME NEW c \in Caller, Track(c) PROVE tracked' = tracked \cup {pc[c].job}
  BY <1>2 DEF Track
<1>3. CASE \E c \in Caller : Acquire(c) \/ NotCreated(c) \/ Submit(c) \/ \E j \in Job : Create(c, j)
  BY <1>3 DEF Acquire, NotCreated, Submit, Create
<1>4. CASE \E c \in Threads : PayDone(c)
  BY <1>4 DEF PayDone
<1>5. CASE \E j \in Job : Ends(j)
  BY <1>1, <1>5
<1>6. CASE \E c \in Caller : Track(c)
  BY <1>2, <1>6
<1> QED BY <1>3, <1>4, <1>5, <1>6, SlotMoves

(* The call that creates or submits a job is the only one that moves. *)
LEMMA Others ==
  ASSUME BaseType, Standing, [Next]_vars, NEW c \in Caller, NEW d \in Caller, c # d,
         pc'[c] # pc[c]
  PROVE  pc'[d] = pc[d]
<1>0. c \in Threads /\ d \in Threads /\ c # Exit /\ d # Exit
  BY ExitAssumption DEF Threads
<1>1. ASSUME NEW e \in Caller, Calling(e) PROVE pc'[d] = pc[d]
  BY <1>0, <1>1, CallAlone DEF Alone
<1>2. ASSUME NEW e \in Threads, Settling(e) PROVE pc'[d] = pc[d]
  BY <1>0, <1>2, PayPlaces DEF Alone
<1>3. CASE Leaving
  BY <1>0, <1>3, LeavingPlaces DEF Alone
<1>4. CASE Elsewhere
  BY <1>4, ElsewhereStands
<1> QED BY <1>1, <1>2, <1>3, <1>4, StepKinds

(* A call stays where it is, takes a step of its own, or pays. *)
LEMMA CallerMoves ==
  ASSUME BaseType, Standing, [Next]_vars, NEW c \in Caller
  PROVE  \/ pc'[c] = pc[c]
         \/ Calling(c)
         \/ /\ pc[c].at \in {"idle"} \cup Paying /\ pc'[c].at \in {"idle"} \cup Paying
            /\ pc'[c].todo \in SUBSET pc[c].todo /\ pc'[c].stale \in SUBSET pc[c].stale
<1>0. c \in Threads /\ c # Exit
  BY ExitAssumption DEF Threads
<1>1. ASSUME NEW e \in Caller, Calling(e), e # c PROVE pc'[c] = pc[c]
  BY <1>0, <1>1, CallAlone DEF Alone
<1>2. ASSUME NEW e \in Threads, Settling(e), e # c PROVE pc'[c] = pc[c]
  BY <1>0, <1>2, PayPlaces DEF Alone
<1>3. CASE Settling(c)
  <2>1. pc'[c].at # "again"
    BY StandingStep DEF Standing, StandsOK, Threads
  <2> QED BY <1>0, <1>3, <2>1, PayPlaces
<1>4. CASE Leaving
  BY <1>0, <1>4, LeavingPlaces DEF Alone
<1>5. CASE Elsewhere
  BY <1>5, ElsewhereStands
<1> QED BY <1>1, <1>2, <1>3, <1>4, <1>5, StepKinds

(* Which step a call takes from a place, *)
LEMMA Departures ==
  ASSUME NEW c \in Caller, Calling(c)
  PROVE  /\ At(c, "idle") => BeginAdmit(c) \/ \E j \in Job : BeginCancel(c, j)
         /\ At(c, "reconcile") => Reconcile(c)
         /\ At(c, "retire") => RetireEnd(c) \/ \E j \in Job : RetireLook(c, j)
         /\ At(c, "cancel") => RetireCancel(c) \/ RetireEnd(c)
         /\ At(c, "callback") => RetireCallback(c)
         /\ At(c, "owe") => RetireOwe(c)
         /\ At(c, "acquire") => Acquire(c)
         /\ At(c, "create") => NotCreated(c) \/ \E j \in Job : Create(c, j)
         /\ At(c, "submit") => Submit(c)
         /\ At(c, "fail") => SubmitFailed(c)
         /\ At(c, "track") => Track(c)
         /\ At(c, "hook") => Hook(c)
<1>1. /\ (BeginAdmit(c) \/ \E j \in Job : BeginCancel(c, j)) => pc[c].at = "idle"
      /\ Reconcile(c) => pc[c].at = "reconcile"
      /\ (\E j \in Job : RetireLook(c, j)) => pc[c].at = "retire"
      /\ RetireEnd(c) => pc[c].at \in {"retire", "cancel"}
      /\ RetireCancel(c) => pc[c].at = "cancel"
      /\ RetireCallback(c) => pc[c].at = "callback"
      /\ RetireOwe(c) => pc[c].at = "owe"
      /\ Acquire(c) => pc[c].at = "acquire"
      /\ (NotCreated(c) \/ \E j \in Job : Create(c, j)) => pc[c].at = "create"
      /\ Submit(c) => pc[c].at = "submit"
      /\ SubmitFailed(c) => pc[c].at = "fail"
      /\ Track(c) => pc[c].at = "track"
      /\ Hook(c) => pc[c].at = "hook"
  BY DEF BeginAdmit, BeginCancel, RetireLook, Create, Reconcile, RetireCancel, RetireCallback,
         RetireOwe, RetireEnd, Acquire, NotCreated, Submit, SubmitFailed, Track, Hook, At
<1> QED BY <1>1 DEF Calling, Call, At

(* and which brings it to one. *)
Arrives(c) ==
  LET p == pc[c]
      q == pc'[c]
  IN /\ q.at = "submit" => \E j \in Job : Create(c, j) /\ q.job = j /\ free' = free
     /\ q.at = "track" => Submit(c) /\ fut'[p.job] = "pending" /\ q.job = p.job
     /\ q.at = "fail" => Submit(c) /\ fut'[p.job] = "unsubmitted" /\ q.job = p.job
     /\ q.at = "hook" => Track(c) /\ q.job = p.job
     /\ q.at = "callback" => RetireCancel(c) /\ CancelFuture(p.job) /\ Hooked(p.job) /\ q.job = p.job
     /\ q.at = "owe" => /\ q.job = p.job /\ p.job \in Job
                        /\ \/ RetireCallback(c)
                           \/ RetireCancel(c) /\ (fut[p.job] = "cancelled" \/ (CancelFuture(p.job) /\ ~Hooked(p.job)))
     /\ q.at = "create" => Acquire(c) /\ free' = free - 1
     /\ q.at = "acquire" => p.at = "retire" /\ p.todo = {} /\ q.stale = p.stale /\ RetireEnd(c)
     /\ q.at = "cancel" => \E j \in Job : RetireLook(c, j)
     /\ q.at = "retire" => \/ Reconcile(c)
                           \/ \E j \in Job : RetireLook(c, j)
                           \/ RetireOwe(c) \/ (RetireCancel(c) /\ GoOn(c))

LEMMA Arrivals ==
  ASSUME BaseType, Standing, NEW c \in Caller, Calling(c)
  PROVE  Arrives(c)
<1>0. c \in Threads /\ StandsOK(c) /\ tracked \in SUBSET Job /\ fut \in [Job -> Futures]
  BY Fields DEF BaseType, Threads
<1>1. CASE BeginAdmit(c) \/ \E j \in Job : BeginCancel(c, j)
  <2>1. \E next \in {"idle", "acquire"} : pc' = [pc EXCEPT ![c] = Reconciling(next)]
    BY <1>1 DEF BeginAdmit, BeginCancel
  <2>2. pc'[c].at = "reconcile"
    BY <1>0, <2>1, ReconcilingEffect
  <2> QED BY <2>2 DEF Arrives
<1>2. CASE Reconcile(c)
  <2>1. pc'[c].at = "retire"
    BY <1>0, <1>2, ReconcileEffect
  <2> QED BY <1>2, <2>1 DEF Arrives
<1>3. ASSUME NEW j \in Job, RetireLook(c, j) PROVE Arrives(c)
  <2>1. pc'[c].at \in {"retire", "cancel"}
    BY <1>0, <1>3, RetireLookEffect
  <2> QED BY <1>3, <2>1 DEF Arrives
<1>4. CASE Return(c)
  <2>1. pc'[c].at = "idle"
    BY <1>0, <1>4, ReturnEffect, IdleFields
  <2> QED BY <2>1 DEF Arrives
<1>5. CASE RetireCancel(c)
  <2>0. pc[c].job \in Job
    BY <1>0, <1>5 DEF RetireCancel, At, StandsOK, WithJob
  <2>1. \/ GoOn(c)
        \/ CancelFuture(pc[c].job) /\ Hooked(pc[c].job) /\ Goto(c, "callback")
        \/ CancelFuture(pc[c].job) /\ ~Hooked(pc[c].job) /\ Goto(c, "owe")
        \/ fut[pc[c].job] = "cancelled" /\ Goto(c, "owe")
    BY <1>5 DEF RetireCancel
  <2>2. CASE GoOn(c)
    <3>1. pc'[c].at = "retire"
      BY <1>0, <2>2, GoOnEffect
    <3> QED BY <1>5, <2>2, <3>1 DEF Arrives
  <2>3. CASE CancelFuture(pc[c].job) /\ Hooked(pc[c].job) /\ Goto(c, "callback")
    <3>1. pc'[c].at = "callback" /\ pc'[c].job = pc[c].job
      BY <1>0, <2>3, GotoEffect
    <3> QED BY <1>5, <2>3, <3>1 DEF Arrives
  <2>4. CASE /\ Goto(c, "owe")
             /\ fut[pc[c].job] = "cancelled" \/ (CancelFuture(pc[c].job) /\ ~Hooked(pc[c].job))
    <3>1. pc'[c].at = "owe" /\ pc'[c].job = pc[c].job
      BY <1>0, <2>4, GotoEffect
    <3> QED BY <1>5, <2>0, <2>4, <3>1 DEF Arrives
  <2> QED BY <2>1, <2>2, <2>3, <2>4
<1>6. CASE RetireCallback(c)
  <2>1. pc'[c].at = "owe" /\ pc'[c].job = pc[c].job /\ pc[c].job \in Job
    BY <1>0, <1>6, GotoEffect DEF RetireCallback, At, StandsOK, WithJob
  <2> QED BY <1>6, <2>1 DEF Arrives
<1>7. CASE RetireOwe(c)
  <2>1. pc'[c].at = "retire"
    BY <1>0, <1>7, GoOnEffect DEF RetireOwe
  <2> QED BY <1>7, <2>1 DEF Arrives
<1>8. CASE RetireEnd(c)
  <2>1. CASE pc[c].at = "retire" /\ pc[c].todo = {} /\ pc[c].next # "idle" /\ Goto(c, pc[c].next)
    <3>1. pc[c].next = "acquire"
      BY <1>0, <2>1 DEF StandsOK, Retiring
    <3>2. pc'[c].at = "acquire" /\ pc'[c].stale = pc[c].stale
      BY <1>0, <2>1, <3>1, GotoEffect
    <3> QED BY <1>8, <2>1, <3>2 DEF Arrives
  <2> QED BY <1>4, <1>8, <2>1 DEF RetireEnd, At
<1>9. CASE Acquire(c)
  <2>1. CASE free' = free - 1 /\ pc' = [pc EXCEPT ![c] = [Idle EXCEPT !.at = "create"]]
    <3>1. "create" \in Places
      BY DEF Places
    <3>2. pc'[c].at = "create"
      BY <1>0, <2>1, <3>1, StartEffect
    <3> QED BY <1>9, <2>1, <3>2 DEF Arrives
  <2> QED BY <1>4, <1>9, <2>1 DEF Acquire
<1>10. ASSUME NEW j \in Job, Create(c, j) PROVE Arrives(c)
  <2>1. CASE pc'[c] = Idle
    <3>1. pc'[c].at = "idle"
      BY <2>1, IdleFields
    <3> QED BY <3>1 DEF Arrives
  <2>2. CASE pc'[c].at = "submit" /\ pc'[c].job = j /\ free' = free
    BY <1>10, <2>2 DEF Arrives
  <2> QED BY <1>0, <1>10, <2>1, <2>2, CreateEffect
<1>11. CASE NotCreated(c) \/ SubmitFailed(c)
  BY <1>4, <1>11 DEF NotCreated, SubmitFailed
<1>12. CASE Submit(c)
  <2>0. pc[c].job \in Job
    BY <1>0, <1>12 DEF Submit, At, StandsOK, WithJob
  <2>1. \/ fut'[pc[c].job] = "pending" /\ Goto(c, "track")
        \/ fut'[pc[c].job] = "unsubmitted" /\ Goto(c, "fail")
    BY <1>0, <1>12, <2>0 DEF Submit
  <2>2. CASE fut'[pc[c].job] = "pending" /\ Goto(c, "track")
    <3>1. pc'[c].at = "track" /\ pc'[c].job = pc[c].job
      BY <1>0, <2>2, GotoEffect
    <3> QED BY <1>12, <2>2, <3>1 DEF Arrives
  <2>3. CASE fut'[pc[c].job] = "unsubmitted" /\ Goto(c, "fail")
    <3>1. pc'[c].at = "fail" /\ pc'[c].job = pc[c].job
      BY <1>0, <2>3, GotoEffect
    <3> QED BY <1>12, <2>3, <3>1 DEF Arrives
  <2> QED BY <2>1, <2>2, <2>3
<1>13. CASE Track(c)
  <2>1. pc'[c].at = "hook" /\ pc'[c].job = pc[c].job
    BY <1>0, <1>13, GotoEffect DEF Track
  <2> QED BY <1>13, <2>1 DEF Arrives
<1>14. CASE Hook(c)
  <2>1. pc'[c].at = "reconcile"
    BY <1>0, <1>14, ReconcilingEffect DEF Hook
  <2> QED BY <2>1 DEF Arrives
<1> QED BY <1>1, <1>2, <1>3, <1>5, <1>6, <1>7, <1>8, <1>9, <1>10, <1>11, <1>12, <1>13, <1>14 DEF Calling, Call

LEMMA HandsKept ==
  ASSUME BaseType, Standing, PoolOK, RowsOK, Hands, DebtsOK, [Next]_vars
  PROVE  Hands'
<1>0. /\ Forth /\ fut \in [Job -> Futures] /\ tracked \in SUBSET Job
      /\ \A c \in Caller : c \in Threads /\ StandsOK(c) /\ HandOK(c)
  BY Forward, Fields DEF BaseType, Threads, Hands
<1>1. ASSUME NEW c \in Caller PROVE HandOK(c)'
  <2>1. CASE pc'[c] = pc[c]
    <3>1. ASSUME pc[c].at = "submit", fut'[pc[c].job] # "none" PROVE FALSE
      <4>1. pc[c].job \in Job /\ fut[pc[c].job] = "none"
        BY <1>0, <3>1 DEF StandsOK, WithJob, HandOK
      <4>2. PICK d \in Caller : Submit(d) /\ pc[d].job = pc[c].job
        BY <3>1, <4>1, FutStep
      <4>3. d = c
        BY <3>1, <4>2 DEF Hands, Submit, At
      <4>4. pc'[c].at \in {"track", "fail"}
        <5>1. Goto(c, "track") \/ Goto(c, "fail")
          BY <4>2, <4>3 DEF Submit
        <5> QED BY <1>0, <5>1, GotoEffect
      <4> QED BY <2>1, <3>1, <4>4
    <3> QED BY <1>0, <2>1, <3>1, HandKept
  <2>2. CASE Calling(c)
    BY <1>0, <2>2, CallHands
  <2>3. CASE /\ pc'[c].at \in {"idle"} \cup Paying
             /\ pc'[c].todo \in SUBSET pc[c].todo /\ pc'[c].stale \in SUBSET pc[c].stale
    BY <1>0, <2>3, HandLess DEF WithJob, Paying
  <2> QED BY <2>1, <2>2, <2>3, CallerMoves
<1>2. ASSUME NEW j \in tracked' PROVE Submitted(j)'
  <2>1. CASE j \in tracked
    BY <1>0, <2>1, SubmittedForward DEF Hands
  <2>2. ASSUME NEW c \in Caller, Track(c), j = pc[c].job PROVE Submitted(j)'
    <3>1. pc[c].at = "track"
      BY <2>2 DEF Track, At
    <3>2. j \in Job /\ Submitted(j)
      BY <1>0, <2>2, <3>1 DEF StandsOK, WithJob, HandOK, Submitted
    <3>3. FutOnward(fut[j], fut'[j])
      BY <1>0, <3>2 DEF Forth
    <3> QED BY <3>2, <3>3 DEF Submitted, FutOnward
  <2> QED BY <2>1, <2>2, TrackedMoves
<1>3. ASSUME NEW j \in Job, fut'[j] \in {"pending", "running"}
      PROVE  j \in tracked' \/ \E c \in Caller : pc'[c].at = "track" /\ pc'[c].job = j
  <2>0. FutOnward(fut[j], fut'[j])
    BY <1>0 DEF Forth
  <2>1. CASE fut[j] = "none"
    <3>1. PICK c \in Caller : Submit(c) /\ pc[c].job = j
      BY <1>3, <2>1, FutStep
    <3>2. Goto(c, "track")
      BY <1>0, <1>3, <3>1 DEF Submit
    <3> QED BY <1>0, <3>1, <3>2, GotoEffect
  <2>2. CASE fut[j] # "none"
    <3>1. fut[j] \in {"pending", "running"}
      BY <1>0, <1>3, <2>0, <2>2 DEF FutOnward, Futures
    <3>2. CASE j \in tracked
      BY <1>3, <3>2, TrackedMoves
    <3>3. ASSUME NEW c \in Caller, pc[c].at = "track", pc[c].job = j
          PROVE  j \in tracked' \/ \E d \in Caller : pc'[d].at = "track" /\ pc'[d].job = j
      <4>1. CASE pc'[c] = pc[c]
        BY <3>3, <4>1
      <4>2. CASE Calling(c)
        BY <3>3, <4>2, Departures DEF At, Track
      <4> QED BY <3>3, <4>1, <4>2, CallerMoves DEF Paying
    <3> QED BY <3>1, <3>2, <3>3 DEF Hands, At
  <2> QED BY <2>1, <2>2
<1>4. ASSUME NEW c \in Caller, NEW d \in Caller, pc'[c].at = "submit", pc'[d].at = "submit",
             pc'[c].job = pc'[d].job, c # d, pc'[c] # pc[c]
      PROVE  FALSE
  <2>1. pc'[d] = pc[d]
    BY <1>4, Others
  <2>2. Calling(c)
    BY <1>4, CallerMoves DEF Paying
  <2>3. PICK j \in Job : Create(c, j) /\ pc'[c].job = j
    BY <1>4, <2>2, Arrivals DEF Arrives
  <2>4. row[j].state = "absent"
    BY <2>3 DEF Create, NoRow
  <2>5. row[j].state # "absent"
    BY <1>0, <1>4, <2>1, <2>3 DEF HandOK
  <2> QED BY <2>4, <2>5
<1>5. ASSUME NEW c \in Caller, NEW d \in Caller, pc'[c].at = "submit", pc'[d].at = "submit",
             pc'[c].job = pc'[d].job
      PROVE  c = d
  <2>1. CASE pc'[c] = pc[c] /\ pc'[d] = pc[d]
    BY <1>5, <2>1 DEF Hands, At
  <2> QED BY <1>4, <1>5, <2>1
<1> QED BY <1>1, <1>2, <1>3, <1>5 DEF Hands, At

----------------------------------------------------------------------------
(* Callbacks, step by step. *)

Due(c, j) == Tracking(c, j) \/ CallingBack(c, j)

LEMMA DueArrives ==
  ASSUME BaseType, Standing, [Next]_vars, NEW c \in Caller, NEW j \in Job, Due(c, j)', ~Due(c, j)
  PROVE  \/ Submit(c) /\ pc[c].job = j
         \/ RetireCancel(c) /\ pc[c].job = j /\ CancelFuture(j) /\ Hooked(j)
<1>1. pc'[c].at \in {"track", "hook", "callback"} /\ pc'[c].job = j
  BY DEF Due, Tracking, CallingBack, At
<1>2. pc'[c] # pc[c]
  BY <1>1 DEF Due, Tracking, CallingBack, At
<1>3. Calling(c)
  BY <1>1, <1>2, CallerMoves DEF Paying
<1>4. Arrives(c)
  BY <1>3, Arrivals
<1>5. CASE pc'[c].at = "track"
  BY <1>1, <1>4, <1>5 DEF Arrives
<1>6. CASE pc'[c].at = "hook"
  <2>1. Track(c) /\ pc[c].job = j
    BY <1>1, <1>4, <1>6 DEF Arrives
  <2> QED BY <2>1 DEF Track, At, Due, Tracking
<1>7. CASE pc'[c].at = "callback"
  <2>1. RetireCancel(c) /\ CancelFuture(pc[c].job) /\ Hooked(pc[c].job) /\ pc[c].job = j
    BY <1>1, <1>4, <1>7 DEF Arrives
  <2> QED BY <2>1
<1> QED BY <1>1, <1>5, <1>6, <1>7

(* What a due callback says of the job's future. *)
LEMMA DueFuture ==
  ASSUME Hands, NEW c \in Caller, NEW j \in Job
  PROVE  /\ Tracking(c, j) => fut[j] # "none"
         /\ CallingBack(c, j) => fut[j] = "cancelled"
BY DEF Hands, HandOK, Tracking, CallingBack, At, Submitted

LEMMA DueOnce ==
  ASSUME BaseType, Standing, Hands, Callbacks, [Next]_vars, NEW c \in Caller, NEW d \in Caller,
         NEW j \in Job, Due(c, j)', Due(d, j)', ~Due(c, j), c # d
  PROVE  FALSE
<1>1. pc'[c] # pc[c]
  BY DEF Due, Tracking, CallingBack, At
<1>2. pc'[d] = pc[d]
  BY <1>1, Others
<1>3. Due(d, j)
  BY <1>2 DEF Due, Tracking, CallingBack, At
<1>4. CASE Submit(c) /\ pc[c].job = j
  <2>1. fut[j] = "none"
    BY <1>4 DEF Hands, HandOK, Submit, At
  <2> QED BY <1>3, <2>1, DueFuture DEF Due
<1>5. CASE CancelFuture(j) /\ Hooked(j)
  <2>1. fut[j] = "pending" /\ ~Tracking(d, j)
    BY <1>5 DEF CancelFuture, Hooked
  <2> QED BY <1>3, <2>1, DueFuture DEF Due
<1> QED BY <1>4, <1>5, DueArrives

LEMMA CallbackArrives ==
  ASSUME BaseType, NEW j \in Job, exec'[j] = "callback", exec[j] # "callback", [Next]_vars
  PROVE  RunReturn(j) /\ Hooked(j)
<1>0. exec \in [Job -> Runs]
  BY DEF BaseType
<1>1. exec' # exec
  OBVIOUS
<1>2. PICK k \in Job : Take(k) \/ Working(k)
  BY <1>1, PoolMoves DEF Submit, Leave
<1>3. k = j
  BY <1>0, <1>2, WorkEffect DEF Take
<1>4. RunReturn(j)
  BY <1>0, <1>2, <1>3 DEF Take, Working, RunClaim, RunAsk, RunWrite, RunCallback
<1>5. Hooked(j)
  BY <1>0, <1>4 DEF RunReturn
<1> QED BY <1>4, <1>5

LEMMA DebtSlotMoves ==
  ASSUME BaseType, Standing, [Next]_vars, NEW j \in debtSlots', j \notin debtSlots
  PROVE  j \in Job /\ Ends(j) /\ Owes(j) /\ debts' = debts /\ free' = free /\ debtSlots' = debtSlots \cup {j}
<1>1. ASSUME NEW k \in Job, Ends(k) PROVE k = j /\ Owes(k) /\ free' = free /\ debtSlots' = debtSlots \cup {k}
  BY <1>1, CallbackEffect DEF Ends
<1>2. CASE \E c \in Caller : Acquire(c) \/ NotCreated(c) \/ Submit(c) \/ \E k \in Job : Create(c, k)
  BY <1>2 DEF Acquire, NotCreated, Submit, Create
<1>3. CASE \E c \in Threads : PayDone(c)
  BY <1>3 DEF PayDone
<1>4. CASE \E c \in Caller : Track(c)
  BY <1>4 DEF Track, slots
<1>5. \E k \in Job : Ends(k)
  BY <1>2, <1>3, <1>4, SlotMoves
<1>6. j \in Job /\ Ends(j) /\ Owes(j) /\ free' = free /\ debtSlots' = debtSlots \cup {j}
  BY <1>1, <1>5
<1>7. debts' = debts
  BY <1>6 DEF Ends, RunCallback, RetireCallback, Hook, DrainOne
<1> QED BY <1>6, <1>7

(* A callback that runs is the last thing due for its job, which held its slot. *)
LEMMA EndsDone ==
  ASSUME BaseType, Standing, PoolOK, Hands, Callbacks, Ways, [Next]_vars, NEW j \in Job, Ends(j)
  PROVE  /\ fut'[j] \in {"done", "cancelled"} /\ ~CallbackDue(j)'
         /\ HoldsSlot(j) /\ j \notin debtSlots
<1>0. /\ fut \in [Job -> Futures] /\ exec \in [Job -> Runs]
      /\ \A c \in Caller : c \in Threads
  BY DEF BaseType, Threads
<1>1. fut'[j] \in {"done", "cancelled"}
  BY EndsFuture
<1>2. ASSUME RunCallback(j) PROVE ~CallbackDue(j)'
  <2>1. exec[j] = "callback" /\ exec'[j] # "callback" /\ pc' = pc /\ fut[j] = "done"
    BY <1>0, <1>2 DEF RunCallback, PoolOK
  <2>2. ASSUME NEW c \in Caller PROVE ~Tracking(c, j) /\ ~CallingBack(c, j)
    BY <2>1, DueFuture DEF Callbacks
  <2> QED BY <1>1, <2>1, <2>2 DEF CallbackDue, Tracking, CallingBack, At
<1>3. ASSUME NEW c \in Caller, Due(c, j), ~Due(c, j)', exec'[j] # "callback" PROVE ~CallbackDue(j)'
  <2>1. ASSUME NEW d \in Caller, Due(d, j)' PROVE FALSE
    <3>1. d # c
      BY <1>3, <2>1
    <3>2. pc'[c] # pc[c]
      BY <1>3 DEF Due, Tracking, CallingBack, At
    <3>3. pc'[d] = pc[d]
      BY <3>1, <3>2, Others
    <3>4. Due(d, j)
      BY <2>1, <3>3 DEF Due, Tracking, CallingBack, At
    <3> QED BY <1>3, <3>1, <3>4 DEF Callbacks, Due
  <2> QED BY <1>3, <2>1 DEF CallbackDue, Due, CallingBack
<1>4. ASSUME NEW c \in Caller, pc[c].job = j, RetireCallback(c) PROVE ~CallbackDue(j)'
  <2>1. Due(c, j) /\ fut[j] = "cancelled" /\ Goto(c, "owe") /\ exec' = exec
    BY <1>4 DEF RetireCallback, At, Due, CallingBack, Hands, HandOK
  <2>2. pc'[c].at = "owe"
    BY <1>0, <2>1, GotoEffect
  <2>3. ~Due(c, j)'
    BY <2>2 DEF Due, Tracking, CallingBack, At
  <2>4. exec'[j] # "callback"
    BY <2>1 DEF PoolOK
  <2> QED BY <1>3, <2>1, <2>3, <2>4
<1>5. ASSUME NEW c \in Caller, pc[c].job = j, Hook(c) PROVE ~CallbackDue(j)'
  <2>1. Tracking(c, j) /\ exec' = exec /\ pc' = [pc EXCEPT ![c] = Reconciling("idle")]
    BY <1>5 DEF Hook, At, Tracking
  <2>2. pc'[c].at = "reconcile"
    BY <1>0, <2>1, ReconcilingEffect
  <2>3. Due(c, j) /\ ~Due(c, j)'
    BY <2>1, <2>2 DEF Due, Tracking, CallingBack, At
  <2>4. exec'[j] # "callback"
    BY <2>1 DEF Callbacks
  <2> QED BY <1>3, <2>3, <2>4
<1>6. ASSUME DrainOne, CancelFuture(j) PROVE ~CallbackDue(j)'
  <2>1. At(Exit, "drain") /\ fut[j] = "pending" /\ exec' = exec
    BY <1>6 DEF DrainOne, CancelFuture
  <2>2. exec'[j] # "callback"
    BY <2>1 DEF PoolOK
  <2>3. ASSUME NEW c \in Caller PROVE pc'[c].at = "idle"
    <3>1. pc[c].at = "idle" /\ c # Exit
      BY <2>1, ExitAssumption DEF Ways, At
    <3> QED BY <1>0, <1>6, <3>1, DrainOneEffect DEF Alone
  <2> QED BY <1>1, <2>2, <2>3 DEF CallbackDue, Tracking, At
<1>7. fut[j] = "pending" \/ CallbackDue(j)
  BY DEF Ends, CancelFuture, RunCallback, RetireCallback, Hook, At, CallbackDue, Tracking
<1>8. HoldsSlot(j) /\ j \notin debtSlots
  BY <1>7 DEF HoldsSlot, Callbacks
<1> QED BY <1>1, <1>2, <1>4, <1>5, <1>6, <1>8 DEF Ends

LEMMA CallbacksKept ==
  ASSUME BaseType, Standing, PoolOK, RowsOK, Hands, Callbacks, DebtsOK, Ways, [Next]_vars
  PROVE  Callbacks'
<1>0. /\ Forth /\ fut \in [Job -> Futures] /\ exec \in [Job -> Runs] /\ debtSlots \in SUBSET Job
      /\ \A c \in Caller : c \in Threads
  BY Forward DEF BaseType, Threads
<1>1. ASSUME NEW c \in Caller, NEW d \in Caller, NEW j \in Job, Due(c, j)', Due(d, j)' PROVE c = d
  <2>1. CASE Due(c, j) /\ Due(d, j)
    BY <2>1 DEF Callbacks, Due
  <2> QED BY <1>1, <2>1, DueOnce
<1>2. ASSUME NEW c \in Caller, NEW j \in Job, Tracking(c, j)', exec'[j] = "callback" PROVE FALSE
  <2>1. CASE exec[j] = "callback"
    <3>1. fut[j] = "done" /\ ~Tracking(c, j)
      BY <2>1 DEF PoolOK, Callbacks
    <3>2. ~CallingBack(c, j)
      BY <3>1, DueFuture
    <3>3. (Submit(c) /\ pc[c].job = j) \/ CancelFuture(j)
      BY <1>2, <3>1, <3>2, DueArrives DEF Due
    <3>4. Submit(c) /\ pc[c].job = j => fut[j] = "none"
      BY DEF Hands, HandOK, Submit, At
    <3> QED BY <3>1, <3>3, <3>4 DEF CancelFuture
  <2>2. CASE exec[j] # "callback"
    <3>1. RunReturn(j) /\ Hooked(j)
      BY <1>2, <2>2, CallbackArrives
    <3>2. pc' = pc
      BY <3>1 DEF RunReturn
    <3> QED BY <1>2, <3>1, <3>2 DEF Hooked, Tracking
  <2> QED BY <2>1, <2>2
<1>3. ASSUME NEW j \in debtSlots, j \in debtSlots' PROVE fut'[j] \in {"done", "cancelled"} /\ ~CallbackDue(j)'
  <2>1. fut[j] \in {"done", "cancelled"} /\ fut'[j] = fut[j] /\ ~CallbackDue(j)
    BY <1>0, SubmittedForward DEF Callbacks
  <2>2. ASSUME exec'[j] = "callback" PROVE FALSE
    <3>1. RunReturn(j)
      BY <1>0, <2>1, <2>2, CallbackArrives DEF CallbackDue
    <3> QED BY <1>0, <2>1, <3>1 DEF RunReturn, PoolOK
  <2>3. ASSUME NEW c \in Caller, Due(c, j)' PROVE FALSE
    <3>1. ~Due(c, j)
      BY <2>1 DEF Due, CallbackDue, CallingBack
    <3>2. (Submit(c) /\ pc[c].job = j) \/ CancelFuture(j)
      BY <1>0, <2>3, <3>1, DueArrives
    <3>3. Submit(c) /\ pc[c].job = j => fut[j] = "none"
      BY DEF Hands, HandOK, Submit, At
    <3> QED BY <2>1, <3>2, <3>3 DEF CancelFuture
  <2> QED BY <2>1, <2>2, <2>3 DEF CallbackDue, Due, CallingBack
<1>4. ASSUME NEW j \in debtSlots', j \notin debtSlots PROVE fut'[j] \in {"done", "cancelled"} /\ ~CallbackDue(j)'
  <2>1. j \in Job /\ Ends(j)
    BY <1>4, DebtSlotMoves
  <2> QED BY <2>1, EndsDone
<1> QED BY <1>1, <1>2, <1>3, <1>4 DEF Callbacks, Due

----------------------------------------------------------------------------
(* The way out, step by step. *)

(* Once the exit has begun, only its thread and the workers move. *)
LEMMA LateSteps ==
  ASSUME BaseType, Standing, Ways, [Next]_vars, phase # "serving"
  PROVE  Settling(Exit) \/ Leaving \/ Elsewhere
<1>1. ASSUME NEW c \in Caller PROVE ~Calling(c) /\ ~Settling(c)
  <2>1. pc[c].at = "idle"
    BY DEF Ways, At
  <2>2. ~BeginAdmit(c) /\ (\A j \in Job : ~BeginCancel(c, j)) /\ ~BeginSettle(c)
    BY DEF BeginAdmit, BeginCancel, BeginSettle
  <2>3. ~Calling(c)
    BY <2>1, <2>2, Departures DEF At
  <2>4. ~Pay(c)
    BY <2>1 DEF Pay, PayWrite, PayDone, PayRefused, PayEnd, At
  <2> QED BY <2>2, <2>3, <2>4 DEF Settling
<1> QED BY <1>1, StepKinds DEF Threads

LEMMA IdleWorkers ==
  ASSUME BaseType, PoolOK, loops = 0
  PROVE  \A j \in Job : exec[j] = "none"
<1>1. IsFiniteSet(Busy) /\ Cardinality(Busy) \in Nat /\ Cardinality(Busy) <= 0
  BY FS_CardinalityType DEF PoolOK
<1>2. Cardinality(Busy) = 0
  BY <1>1
<1>3. Busy = {}
  BY <1>1, <1>2, FS_EmptySet
<1> QED BY <1>3 DEF Busy

(* No loop starts, and none that is gone leaves, once the workers are gone. *)
LEMMA LoopsGone ==
  ASSUME BaseType, Standing, PoolOK, Ways, [Next]_vars, phase # "serving", loops = 0
  PROVE  loops' = 0 /\ \A j \in Job : ~Take(j) /\ ~Working(j)
<1>1. \A j \in Job : exec[j] = "none"
  BY IdleWorkers
<1>2. ~Looking
  <2>1. Cardinality(Busy) \in Nat
    BY FS_CardinalityType DEF PoolOK
  <2> QED BY <2>1 DEF Looking
<1>3. ASSUME NEW j \in Job PROVE ~Take(j) /\ ~Working(j)
  BY <1>1, <1>2 DEF Take, Working, RunClaim, RunAsk, RunWrite, RunReturn, RunCallback
<1>4. CASE Settling(Exit)
  BY <1>3, <1>4, ExitAssumption DEF Settling, Pay, PayWrite, PayDone, PayRefused, PayEnd, pool
<1>5. CASE Leaving
  BY <1>3, <1>5 DEF Leaving, Drain, DrainOne, DrainOwe, Join, SettleAtExit, OutOfTime, CancelFuture, pool
<1>6. CASE Elsewhere
  BY <1>2, <1>3, <1>6 DEF Elsewhere, Run, Working, RemoteCancel, Leave, vars, pool
<1> QED BY <1>3, <1>4, <1>5, <1>6, LateSteps

(* While the exit drains, no future becomes pending. *)
LEMMA NoneSubmitted ==
  ASSUME BaseType, Standing, PoolOK, Hands, Ways, [Next]_vars, phase # "serving"
  PROVE  \A j \in Job : fut'[j] = "pending" => fut[j] = "pending"
<1>1. ASSUME NEW c \in Caller PROVE ~Submit(c)
  BY DEF Ways, Submit, At
<1>2. ASSUME NEW j \in Job, fut'[j] = "pending", fut[j] # "pending" PROVE FALSE
  <2>1. fut[j] = "none"
    BY <1>2, FutStep DEF FutOnward, BaseType, Futures
  <2> QED BY <1>1, <1>2, <2>1, FutStep
<1> QED BY <1>2

LEMMA WaysKept ==
  ASSUME BaseType, Standing, PoolOK, RowsOK, Hands, DebtsOK, Ways, [Next]_vars
  PROVE  Ways'
<1>0. /\ Exit \in Threads /\ Exit \notin Caller /\ \A c \in Caller : c \in Threads
      /\ queue \in Seq(Job) /\ tracked \in SUBSET Job /\ loops \in Nat
  BY ExitAssumption DEF BaseType, Threads
<1>1. ASSUME NEW c \in Caller, Calling(c) \/ Settling(c) PROVE Ways'
  <2>1. phase = "serving"
    <3>1. pc[c].at # "idle" \/ BeginAdmit(c) \/ (\E j \in Job : BeginCancel(c, j)) \/ BeginSettle(c)
      <4>1. Calling(c) /\ pc[c].at = "idle" => BeginAdmit(c) \/ \E j \in Job : BeginCancel(c, j)
        BY Departures DEF At
      <4>2. Settling(c) /\ pc[c].at = "idle" => BeginSettle(c)
        BY DEF Settling, Pay, PayWrite, PayDone, PayRefused, PayEnd, At
      <4> QED BY <1>1, <4>1, <4>2
    <3> QED BY <3>1 DEF Ways, At, BeginAdmit, BeginCancel, BeginSettle
  <2>2. phase' = phase
    BY <1>1 DEF Calling, Call, BeginAdmit, BeginCancel, Reconcile, RetireCancel, RetireCallback, RetireOwe,
                RetireEnd, Acquire, NotCreated, Submit, SubmitFailed, Track, Hook, RetireLook, Create, process,
                Settling, Pay, PayWrite, PayDone, PayRefused, PayEnd, BeginSettle
  <2>3. pc'[Exit] = pc[Exit]
    BY <1>0, <1>1, CallAlone, PayPlaces DEF Alone
  <2> QED BY <2>1, <2>2, <2>3 DEF Ways, At
<1>2. CASE Settling(Exit)
  <2>0. Pay(Exit) /\ pc[Exit].at \in Paying
    BY <1>0, <1>2 DEF Settling, Pay, PayWrite, PayDone, PayRefused, PayEnd, At, Paying
  <2>1. phase = "settling" /\ phase' = phase /\ loops' = loops
    BY <2>0 DEF Ways, Pay, PayWrite, PayDone, PayRefused, PayEnd, process, pool
  <2>2. Alone(Exit) /\ pc'[Exit].at \in {"idle", "again"} \cup Paying
    BY <1>0, <1>2, PayPlaces
  <2>3. \A c \in Caller : pc'[c].at = "idle"
    BY <1>0, <2>1, <2>2 DEF Alone, Ways, At
  <2> QED BY <2>1, <2>2, <2>3 DEF Ways, At, Paying
<1>3. CASE Elsewhere
  <2>1. pc' = pc /\ phase' = phase
    BY <1>3, ElsewhereStands
  <2>2. phase \in {"settling", "exited"} => loops' = 0
    <3>1. CASE phase \in {"settling", "exited"}
      BY <3>1, LoopsGone DEF Ways
    <3> QED BY <3>1
  <2>3. phase = "exited" => debts' = debts
    <3>1. CASE phase = "exited"
      <4>1. \A j \in Job : ~Take(j) /\ ~Working(j)
        BY <3>1, LoopsGone DEF Ways
      <4> QED BY <1>3, <4>1 DEF Elsewhere, Run, Working, RemoteCancel, Leave, vars
    <3> QED BY <3>1
  <2>4. phase = "draining" => \A j \in Job : fut'[j] = "pending" => fut[j] = "pending"
    BY NoneSubmitted
  <2> QED BY <2>1, <2>2, <2>3, <2>4 DEF Ways, At
<1>4. ASSUME Alone(Exit), phase # "serving" \/ \A c \in Caller : At(c, "idle")
      PROVE  \A c \in Caller : pc'[c].at = "idle"
  BY <1>0, <1>4 DEF Alone, Ways, At
<1>5. CASE Drain
  <2>1. /\ phase' = "draining" /\ \A c \in Caller : At(c, "idle")
        /\ pc'[Exit].at = "drain" /\ pc'[Exit].todo = tracked /\ pc'[Exit].owed = queue /\ Alone(Exit)
    BY <1>5, DrainEffect
  <2>2. \A c \in Caller : pc'[c].at = "idle"
    BY <1>4, <2>1
  <2>3. ASSUME NEW j \in Job, fut'[j] = "pending"
        PROVE  j \in tracked /\ \E i \in DOMAIN queue : queue[i] = j
    <3>1. fut[j] = "pending"
      BY <1>5, <2>3 DEF Drain
    <3> QED BY <2>1, <3>1 DEF Hands, PoolOK, QueueOK, At
  <2> QED BY <2>1, <2>2, <2>3 DEF Ways, At, Paying
<1>6. CASE DrainOne
  <2> DEFINE s == pc[Exit].owed
             t == Tail(s)
  <2>1. /\ pc[Exit].at = "drain" /\ s \in Seq(Job) /\ s # <<>>
        /\ pc'[Exit].at = "drain" /\ pc'[Exit].owed = t /\ pc'[Exit].todo = pc[Exit].todo /\ Alone(Exit)
    BY <1>6, DrainOneEffect
  <2>2. phase = "draining" /\ phase' = phase
    BY <1>6, <2>1 DEF Ways, At, DrainOne, process
  <2>3. \A c \in Caller : pc'[c].at = "idle"
    BY <1>4, <2>1, <2>2
  <2>4. Head(s) = s[1] /\ t \in Seq(Job) /\ Rest(s, 1, t)
    BY <2>1, TailRest
  <2>5. ASSUME NEW j \in Job, fut'[j] = "pending"
        PROVE  j \in pc[Exit].todo /\ \E k \in DOMAIN t : t[k] = j
    <3>1. fut[j] = "pending"
      BY <2>2, <2>5, NoneSubmitted
    <3>2. j \in pc[Exit].todo /\ \E i \in DOMAIN s : s[i] = j
      BY <2>2, <3>1 DEF Ways
    <3>3. PICK i \in DOMAIN s : s[i] = j
      BY <3>2
    <3>4. Head(s) # j
      <4>1. CancelFuture(Head(s)) \/ fut[Head(s)] # "pending"
        BY <1>6 DEF DrainOne
      <4>2. CancelFuture(j) => fut'[j] = "cancelled"
        BY DEF CancelFuture, BaseType
      <4> QED BY <2>5, <3>1, <4>1, <4>2
    <3> HIDE DEF s, t
    <3>5. i \in 1 .. Len(s) /\ i # 1
      BY <2>1, <2>4, <3>3, <3>4, LenProperties
    <3>6. PICK k \in 1 .. Len(t) : t[k] = s[i]
      BY <2>4, <3>5 DEF Rest
    <3> QED BY <2>4, <3>2, <3>3, <3>6, LenProperties
  <2> HIDE DEF s, t
  <2> QED BY <2>1, <2>2, <2>3, <2>5 DEF Ways, At, Paying
<1>7. ASSUME NEW j \in Job, DrainOwe(j) PROVE Ways'
  <2>1. /\ pc[Exit].at = "drain" /\ pc[Exit].owed = <<>>
        /\ pc'[Exit].at = "drain" /\ Alone(Exit)
    BY <1>7, DrainOweEffect
  <2>2. phase = "draining" /\ phase' = phase /\ fut' = fut
    BY <1>7, <2>1 DEF Ways, At, DrainOwe, process
  <2>3. \A c \in Caller : pc'[c].at = "idle"
    BY <1>4, <2>1, <2>2
  <2>4. ASSUME NEW k \in Job, fut'[k] = "pending" PROVE FALSE
    <3>1. PICK i \in DOMAIN pc[Exit].owed : TRUE
      BY <2>2, <2>4 DEF Ways
    <3> QED BY <2>1, <3>1
  <2> QED BY <2>1, <2>2, <2>3, <2>4 DEF Ways, At, Paying
<1>8. CASE Join
  <2>1. pc[Exit].at = "drain" /\ phase' = "settling" /\ loops' = 0
    BY <1>8 DEF Join, At, pool
  <2>2. pc'[Exit].at = "again" /\ Alone(Exit)
    BY <1>0, <1>8, StartEffect DEF Join, Places
  <2>3. phase = "draining"
    BY <2>1 DEF Ways, At
  <2>4. \A c \in Caller : pc'[c].at = "idle"
    BY <1>4, <2>2, <2>3
  <2> QED BY <2>1, <2>2, <2>4 DEF Ways, At
<1>9. CASE SettleAtExit \/ OutOfTime
  <2>1. pc[Exit].at \in {"again"} \cup Paying
    BY <1>9 DEF SettleAtExit, OutOfTime, At, Paying
  <2>2. phase = "settling" /\ loops' = 0
    BY <1>9, <2>1 DEF Ways, SettleAtExit, OutOfTime, pool
  <2>3. Alone(Exit)
    BY <1>9, LeavingPlaces DEF Leaving
  <2>4. \A c \in Caller : pc'[c].at = "idle"
    BY <1>4, <2>2, <2>3
  <2>5. CASE pc' = [pc EXCEPT ![Exit] = Idle] /\ phase' = "expired"
    <3>1. pc'[Exit].at = "idle"
      BY <1>0, <2>5, StepsTo, IdleFields
    <3> QED BY <2>4, <2>5, <3>1 DEF Ways, At, Paying
  <2>6. CASE pc' = [pc EXCEPT ![Exit] = Idle] /\ phase' = "exited" /\ debts = <<>> /\ debts' = debts
    <3>1. pc'[Exit].at = "idle"
      BY <1>0, <2>6, StepsTo, IdleFields
    <3> QED BY <2>2, <2>4, <2>6, <3>1 DEF Ways, At, Paying
  <2>7. CASE pc' = [pc EXCEPT ![Exit] = [Idle EXCEPT !.at = "pay", !.owed = debts]] /\ phase' = phase
    <3>1. pc'[Exit].at = "pay"
      BY <1>0, <2>7, PayingEffect DEF BaseType
    <3> QED BY <2>2, <2>4, <2>7, <3>1 DEF Ways, At
  <2> QED BY <1>9, <2>5, <2>6, <2>7 DEF SettleAtExit, OutOfTime
<1>10. CASE Leaving
  BY <1>5, <1>6, <1>7, <1>8, <1>9, <1>10 DEF Leaving
<1>11. ASSUME NEW c \in Threads, Settling(c) PROVE Ways'
  BY <1>1, <1>2, <1>11 DEF Threads
<1> QED BY <1>1, <1>3, <1>10, <1>11, StepKinds

----------------------------------------------------------------------------
(* The slots' account, step by step. *)

Holding == {j \in Job : HoldsSlot(j)}

(* Who ends a job's stay in the executor. *)
LEMMA FutLeaves ==
  ASSUME BaseType, Standing, PoolOK, Hands, [Next]_vars, NEW k \in Job,
         fut[k] \in {"pending", "running"}, fut'[k] \notin {"pending", "running"}
  PROVE  \/ \E c \in Caller : RetireCancel(c) /\ pc[c].job = k /\ CancelFuture(k)
         \/ Ends(k)
         \/ RunReturn(k)
<1> DEFINE Goal ==
         \/ \E c \in Caller : RetireCancel(c) /\ pc[c].job = k /\ CancelFuture(k)
         \/ Ends(k)
         \/ RunReturn(k)
<1>0. fut \in [Job -> Futures] /\ fut' # fut
  BY DEF BaseType
<1>1. ASSUME NEW c \in Caller, Calling(c) PROVE Goal
  <2>1. CASE RetireCancel(c)
    BY <1>0, <2>1 DEF RetireCancel, CancelFuture
  <2>2. CASE Submit(c)
    <3>1. fut[pc[c].job] = "none"
      BY <2>2 DEF Hands, HandOK, Submit, At
    <3> QED BY <1>0, <2>2, <3>1 DEF Submit
  <2>3. CASE Call(c) /\ ~RetireCancel(c) /\ ~Submit(c)
    BY <1>0, <2>3 DEF Call, Reconcile, RetireCallback, RetireOwe, RetireEnd, Acquire, NotCreated, SubmitFailed,
                Track, Hook, RetireLook, Create
  <2>4. CASE BeginAdmit(c) \/ \E j \in Job : BeginCancel(c, j)
    BY <1>0, <2>4 DEF BeginAdmit, BeginCancel
  <2> QED BY <1>1, <2>1, <2>2, <2>3, <2>4 DEF Calling
<1>2. ASSUME NEW c \in Threads, Settling(c) PROVE Goal
  BY <1>0, <1>2 DEF Settling, Pay, PayWrite, PayDone, PayRefused, PayEnd, BeginSettle
<1>3. CASE Leaving
  <2>1. CASE DrainOne
    <3>1. CancelFuture(Head(pc[Exit].owed)) /\ Callback(Head(pc[Exit].owed))
      BY <1>0, <2>1 DEF DrainOne
    <3>2. Head(pc[Exit].owed) = k
      BY <1>0, <3>1 DEF CancelFuture
    <3> QED BY <2>1, <3>1, <3>2 DEF Ends
  <2> QED BY <1>0, <1>3, <2>1 DEF Leaving, Drain, DrainOwe, Join, SettleAtExit, OutOfTime
<1>4. ASSUME NEW j \in Job, Take(j) PROVE FALSE
  BY <1>0, <1>4 DEF Take
<1>5. ASSUME NEW j \in Job, Working(j) PROVE Goal
  BY <1>0, <1>5 DEF Working, RunClaim, RunAsk, RunWrite, RunReturn, RunCallback
<1>6. CASE Elsewhere
  BY <1>0, <1>4, <1>5, <1>6 DEF Elsewhere, Run, RemoteCancel, Working, Leave, vars
<1> QED BY <1>1, <1>2, <1>3, <1>6, StepKinds

LEMMA HoldsLeaves ==
  ASSUME BaseType, Standing, PoolOK, RowsOK, Hands, Callbacks, DebtsOK, Ways, [Next]_vars, NEW k \in Job,
         HoldsSlot(k), ~HoldsSlot(k)'
  PROVE  Ends(k) \/ \E c \in Threads : PayDone(c) /\ k \in debtSlots
<1>0. /\ fut \in [Job -> Futures] /\ exec \in [Job -> Runs]
      /\ \A c \in Caller : c \in Threads
      /\ fut'[k] \notin {"pending", "running"} /\ exec'[k] # "callback" /\ k \notin debtSlots'
      /\ \A c \in Caller : ~Due(c, k)'
  BY DEF BaseType, Threads, HoldsSlot, CallbackDue, Due, CallingBack
<1>1. ASSUME NEW c \in Caller, Due(c, k) PROVE Ends(k)
  <2>1. pc'[c] # pc[c] /\ pc[c].at \in {"track", "hook", "callback"} /\ pc[c].job = k
    BY <1>0, <1>1 DEF Due, Tracking, CallingBack, At
  <2>2. Calling(c)
    BY <2>1, CallerMoves DEF Paying
  <2>3. ~Track(c)
    <3>1. Track(c) => pc'[c].at = "hook" /\ pc'[c].job = k
      BY <1>0, <2>1, GotoEffect DEF Track
    <3> QED BY <1>0, <3>1 DEF Due, Tracking
  <2>4. RetireCallback(c) \/ Hook(c)
    BY <2>1, <2>2, <2>3, Departures DEF At
  <2>5. CASE RetireCallback(c)
    BY <2>1, <2>5 DEF Ends, RetireCallback
  <2>6. CASE Hook(c)
    <3>1. fut' = fut /\ Submitted(k)
      BY <2>1, <2>6 DEF Hook, At, Hands, HandOK
    <3>2. fut[k] \in {"cancelled", "done"}
      BY <1>0, <3>1 DEF Submitted
    <3>3. Callback(k)
      BY <2>1, <2>6, <3>2 DEF Hook
    <3> QED BY <2>1, <2>6, <3>2, <3>3 DEF Ends
  <2> QED BY <2>4, <2>5, <2>6
<1>2. CASE exec[k] = "callback"
  <2>1. PICK j \in Job : Take(j) \/ Working(j)
    BY <1>0, <1>2, PoolMoves DEF Submit, Leave
  <2>2. j = k
    BY <1>0, <1>2, <2>1, WorkEffect DEF Take
  <2>3. fut[k] = "done"
    BY <1>2 DEF PoolOK
  <2>4. RunCallback(k)
    <3>1. ~Take(k)
      BY <1>0, <2>3, TakeEffect DEF PoolOK
    <3> QED BY <1>2, <2>1, <2>2, <3>1 DEF Working, RunClaim, RunAsk, RunWrite, RunReturn
  <2> QED BY <2>4 DEF Ends, RunCallback
<1>3. CASE k \in debtSlots
  <2>1. ASSUME NEW j \in Job, Ends(j) PROVE FALSE
    BY <1>0, <1>3, <2>1, CallbackEffect DEF Ends
  <2>2. CASE \E c \in Caller : Acquire(c) \/ NotCreated(c) \/ Submit(c) \/ \E j \in Job : Create(c, j)
    BY <1>0, <1>3, <2>2 DEF Acquire, NotCreated, Submit, Create
  <2>3. CASE \E c \in Caller : Track(c)
    BY <1>0, <1>3, <2>3 DEF Track, slots
  <2>4. CASE UNCHANGED <<free, debtSlots, tracked>>
    BY <1>0, <1>3, <2>4
  <2> QED BY <1>3, <2>1, <2>2, <2>3, <2>4, SlotMoves
<1>4. CASE fut[k] \in {"pending", "running"}
  <2>1. ASSUME RunReturn(k) PROVE FALSE
    <3>1. ~Hooked(k)
      BY <1>0, <2>1 DEF RunReturn
    <3>2. PICK c \in Caller : Tracking(c, k)
      BY <3>1 DEF Hooked
    <3>3. pc' = pc
      BY <2>1 DEF RunReturn
    <3> QED BY <1>0, <3>2, <3>3 DEF Due, Tracking
  <2>2. ASSUME NEW c \in Caller, RetireCancel(c), pc[c].job = k, CancelFuture(k) PROVE FALSE
    <3>0. pc[c].at = "cancel" /\ fut'[k] = "cancelled" /\ fut[k] = "pending"
      BY <1>0, <2>2 DEF RetireCancel, CancelFuture, At
    <3>1. Goto(c, IF Hooked(k) THEN "callback" ELSE "owe") \/ (fut[k] = "cancelled") \/ GoOn(c)
      BY <2>2 DEF RetireCancel
    <3>2. ~GoOn(c)
      <4>1. GoOn(c) => row[k].state # "cancelled" \/ fut[k] \in {"running", "done"} \/ pc'[c].at \in {"callback", "owe"}
        BY <1>0, <2>2, GotoEffect DEF RetireCancel
      <4>2. GoOn(c) => pc'[c].at = "retire"
        BY <1>0, GoOnEffect
      <4>3. GoOn(c) => fut' = fut \/ pc'[c].at \in {"callback", "owe"}
        BY <1>0, <2>2, GotoEffect DEF RetireCancel
      <4> QED BY <3>0, <4>2, <4>3
    <3>3. CASE Hooked(k)
      <4>1. pc'[c].at = "callback" /\ pc'[c].job = k
        BY <1>0, <2>2, <3>0, <3>1, <3>2, <3>3, GotoEffect
      <4> QED BY <1>0, <4>1 DEF Due, CallingBack, At
    <3>4. CASE ~Hooked(k)
      <4>1. PICK d \in Caller : Tracking(d, k)
        BY <3>4 DEF Hooked
      <4>2. d # c
        BY <3>0, <4>1 DEF Tracking
      <4>3. pc'[c] # pc[c]
        <5>1. pc'[c].at = "owe"
          BY <1>0, <3>0, <3>1, <3>2, <3>4, GotoEffect
        <5> QED BY <3>0, <5>1
      <4>4. pc'[d] = pc[d]
        BY <4>2, <4>3, Others
      <4> QED BY <1>0, <4>1, <4>4 DEF Due, Tracking
    <3> QED BY <3>3, <3>4
  <2> QED BY <1>0, <1>4, <2>1, <2>2, FutLeaves
<1> QED BY <1>1, <1>2, <1>3, <1>4 DEF HoldsSlot, CallbackDue, Due, CallingBack

LEMMA HoldsArrives ==
  ASSUME BaseType, Standing, PoolOK, RowsOK, Hands, Callbacks, DebtsOK, Ways, [Next]_vars, NEW k \in Job,
         ~HoldsSlot(k), HoldsSlot(k)'
  PROVE  \E c \in Caller : Submit(c) /\ pc[c].job = k
<1>0. /\ fut \in [Job -> Futures] /\ exec \in [Job -> Runs]
      /\ \A c \in Caller : c \in Threads
      /\ fut[k] \notin {"pending", "running"} /\ exec[k] # "callback" /\ k \notin debtSlots
      /\ \A c \in Caller : ~Due(c, k)
  BY DEF BaseType, Threads, HoldsSlot, CallbackDue, Due, CallingBack
<1>1. CASE fut'[k] \in {"pending", "running"}
  <2>1. FutOnward(fut[k], fut'[k])
    BY FutStep
  <2>2. fut[k] = "none"
    BY <1>0, <1>1, <2>1 DEF FutOnward, Futures
  <2> QED BY <1>1, <2>2, FutStep
<1>2. ASSUME exec'[k] = "callback" PROVE FALSE
  <2>1. RunReturn(k)
    BY <1>0, <1>2, CallbackArrives
  <2> QED BY <1>0, <2>1 DEF RunReturn, PoolOK
<1>3. ASSUME k \in debtSlots' PROVE FALSE
  <2>1. Ends(k)
    BY <1>0, <1>3, DebtSlotMoves
  <2> QED BY <2>1, EndsDone
<1>4. ASSUME NEW c \in Caller, Due(c, k)' PROVE Submit(c) /\ pc[c].job = k
  <2>1. ~CancelFuture(k)
    BY <1>0 DEF CancelFuture
  <2> QED BY <1>0, <1>4, <2>1, DueArrives
<1>5. fut'[k] \in {"pending", "running"} \/ exec'[k] = "callback" \/ k \in debtSlots' \/ \E c \in Caller : Due(c, k)'
  BY DEF HoldsSlot, CallbackDue, Due, CallingBack
<1> QED BY <1>1, <1>2, <1>3, <1>4, <1>5

(* Who joins those that reserve a slot, and who leaves them. *)
LEMMA ReservingMoves ==
  ASSUME BaseType, Standing, [Next]_vars, NEW c \in Caller
  PROVE  /\ c \notin Reserving /\ c \in Reserving' => Acquire(c) /\ free' = free - 1
         /\ c \in Reserving /\ c \notin Reserving' =>
              \/ (NotCreated(c) \/ \E j \in Job : Create(c, j)) /\ free' = free + 1
              \/ Submit(c)
<1>0. c \in Threads /\ (c \in Reserving <=> pc[c].at \in {"create", "submit"})
      /\ (c \in Reserving' <=> pc'[c].at \in {"create", "submit"})
  BY DEF Threads, Reserving
<1>1. ASSUME pc[c].at \notin {"create", "submit"}, pc'[c].at \in {"create", "submit"}
      PROVE  Acquire(c) /\ free' = free - 1
  <2>1. Calling(c)
    BY <1>1, CallerMoves DEF Paying
  <2>2. \A j \in Job : ~Create(c, j)
    BY <1>1 DEF Create, At
  <2> QED BY <1>1, <2>1, <2>2, Arrivals DEF Arrives
<1>2. ASSUME pc[c].at \in {"create", "submit"}, pc'[c].at \notin {"create", "submit"}
      PROVE  ((NotCreated(c) \/ \E j \in Job : Create(c, j)) /\ free' = free + 1) \/ Submit(c)
  <2>1. Calling(c)
    BY <1>2, CallerMoves DEF Paying
  <2>2. NotCreated(c) \/ (\E j \in Job : Create(c, j)) \/ Submit(c)
    BY <1>2, <2>1, Departures DEF At
  <2>3. ASSUME NEW j \in Job, Create(c, j) PROVE free' = free + 1
    BY <1>0, <1>2, <2>3, CreateEffect
  <2> QED BY <2>2, <2>3 DEF NotCreated
<1> QED BY <1>0, <1>1, <1>2

(* What keeps a job's claim to a slot as it was. *)
LEMMA HoldsSame ==
  ASSUME NEW k \in Job, fut'[k] = fut[k], exec'[k] = exec[k], k \in debtSlots' <=> k \in debtSlots,
         \A d \in Caller : Due(d, k)' <=> Due(d, k)
  PROVE  HoldsSlot(k)' <=> HoldsSlot(k)
<1>1. CallbackDue(k)' <=> CallbackDue(k)
  BY DEF CallbackDue, Due, CallingBack
<1> QED BY <1>1 DEF HoldsSlot

LEMMA DueSame ==
  ASSUME BaseType, Standing, [Next]_vars, NEW c \in Caller, pc'[c] # pc[c], NEW k \in Job,
         ~Due(c, k), ~Due(c, k)'
  PROVE  \A d \in Caller : Due(d, k)' <=> Due(d, k)
<1>1. ASSUME NEW d \in Caller, d # c PROVE Due(d, k)' <=> Due(d, k)
  <2>1. pc'[d] = pc[d]
    BY <1>1, Others
  <2> QED BY <2>1 DEF Due, Tracking, CallingBack, At
<1> QED BY <1>1

(* One slot changes hands, or none does. *)
LEMMA Account ==
  ASSUME BaseType, Counted,
         \/ Reserving' = Reserving /\ Holding' = Holding /\ free' = free
         \/ \E c : c \notin Reserving /\ Reserving' = Reserving \cup {c} /\ Holding' = Holding /\ free' = free - 1
         \/ \E c \in Reserving : Reserving' = Reserving \ {c} /\ Holding' = Holding /\ free' = free + 1
         \/ \E c \in Reserving : \E j : j \notin Holding /\ Reserving' = Reserving \ {c} /\ Holding' = Holding \cup {j} /\ free' = free
         \/ \E j \in Holding : Reserving' = Reserving /\ Holding' = Holding \ {j} /\ free' = free + 1
  PROVE  Counted'
<1>0. /\ IsFiniteSet(Reserving) /\ IsFiniteSet(Holding) /\ free \in Int
      /\ Cardinality(Reserving) \in Nat /\ Cardinality(Holding) \in Nat
      /\ free + Cardinality(Reserving) + Cardinality(Holding) = MaxPending
  BY FS_CardinalityType DEF Counted, SlotsConserved, Holding, BaseType
<1> DEFINE Goal == /\ IsFiniteSet(Reserving') /\ IsFiniteSet(Holding')
                   /\ free' + Cardinality(Reserving') + Cardinality(Holding') = MaxPending
<1>1. ASSUME Reserving' = Reserving, Holding' = Holding, free' = free PROVE Goal
  BY <1>0, <1>1
<1>2. ASSUME NEW c, c \notin Reserving, Reserving' = Reserving \cup {c}, Holding' = Holding, free' = free - 1 PROVE Goal
  <2>1. IsFiniteSet(Reserving') /\ Cardinality(Reserving') = Cardinality(Reserving) + 1
    BY <1>0, <1>2, FS_AddElement
  <2> QED BY <1>0, <1>2, <2>1
<1>3. ASSUME NEW c \in Reserving, Reserving' = Reserving \ {c}
      PROVE  IsFiniteSet(Reserving') /\ Cardinality(Reserving') = Cardinality(Reserving) - 1
  BY <1>0, <1>3, FS_RemoveElement
<1>4. ASSUME NEW c \in Reserving, Reserving' = Reserving \ {c}, Holding' = Holding, free' = free + 1 PROVE Goal
  <2>1. IsFiniteSet(Reserving') /\ Cardinality(Reserving') = Cardinality(Reserving) - 1
    BY <1>3, <1>4
  <2> QED BY <1>0, <1>4, <2>1
<1>5. ASSUME NEW c \in Reserving, NEW j, j \notin Holding, Reserving' = Reserving \ {c}, Holding' = Holding \cup {j},
             free' = free
      PROVE  Goal
  <2>1. IsFiniteSet(Holding') /\ Cardinality(Holding') = Cardinality(Holding) + 1
    BY <1>0, <1>5, FS_AddElement
  <2>2. IsFiniteSet(Reserving') /\ Cardinality(Reserving') = Cardinality(Reserving) - 1
    BY <1>3, <1>5
  <2> QED BY <1>0, <1>5, <2>1, <2>2
<1>6. ASSUME NEW j \in Holding, Reserving' = Reserving, Holding' = Holding \ {j}, free' = free + 1 PROVE Goal
  <2>1. IsFiniteSet(Holding') /\ Cardinality(Holding') = Cardinality(Holding) - 1
    BY <1>0, <1>6, FS_RemoveElement
  <2> QED BY <1>0, <1>6, <2>1
<1>7. Goal
  BY <1>1, <1>2, <1>4, <1>5, <1>6
<1> QED BY <1>7 DEF Counted, SlotsConserved, Holding

LEMMA EndsAccount ==
  ASSUME BaseType, Standing, Ways, [Next]_vars, NEW j \in Job, Ends(j)
  PROVE  Reserving' = Reserving /\ \A k \in Job : k # j => (HoldsSlot(k)' <=> HoldsSlot(k))
<1>0. /\ fut \in [Job -> Futures] /\ exec \in [Job -> Runs] /\ \A c \in Caller : c \in Threads
      /\ \A k \in Job : k # j => (k \in debtSlots' <=> k \in debtSlots)
  BY CallbackEffect DEF BaseType, Threads, Ends
<1>1. CASE RunCallback(j)
  <2>1. fut' = fut /\ pc' = pc /\ \A k \in Job : k # j => exec'[k] = exec[k]
    BY <1>0, <1>1 DEF RunCallback
  <2>2. Reserving' = Reserving
    BY <2>1 DEF Reserving
  <2>3. \A k \in Job : \A d \in Caller : Due(d, k)' <=> Due(d, k)
    BY <2>1 DEF Due, Tracking, CallingBack, At
  <2> QED BY <1>0, <2>1, <2>2, <2>3, HoldsSame
<1>2. ASSUME NEW c \in Caller, pc[c].job = j, fut' = fut, exec' = exec, pc'[c] # pc[c],
             pc[c].at \notin {"create", "submit"}, pc'[c].at \notin {"create", "submit"},
             pc'[c].at \in {"track", "hook", "callback"} => pc'[c].job = j
      PROVE  Reserving' = Reserving /\ \A k \in Job : k # j => (HoldsSlot(k)' <=> HoldsSlot(k))
  <2>1. Reserving' = Reserving
    <3>1. ASSUME NEW d \in Caller, d # c PROVE pc'[d] = pc[d]
      BY <1>2, <3>1, Others
    <3> QED BY <1>2, <3>1 DEF Reserving
  <2>2. ASSUME NEW k \in Job, k # j PROVE \A d \in Caller : Due(d, k)' <=> Due(d, k)
    <3>1. ~Due(c, k) /\ ~Due(c, k)'
      BY <1>2, <2>2 DEF Due, Tracking, CallingBack, At
    <3> QED BY <1>2, <3>1, DueSame
  <2> QED BY <1>0, <1>2, <2>1, <2>2, HoldsSame
<1>3. ASSUME NEW c \in Caller, pc[c].job = j, RetireCallback(c)
      PROVE  Reserving' = Reserving /\ \A k \in Job : k # j => (HoldsSlot(k)' <=> HoldsSlot(k))
  <2>1. pc[c].at = "callback" /\ Goto(c, "owe") /\ fut' = fut /\ exec' = exec
    BY <1>3 DEF RetireCallback, At
  <2>2. pc'[c].at = "owe"
    BY <1>0, <2>1, GotoEffect
  <2> QED BY <1>2, <1>3, <2>1, <2>2
<1>4. ASSUME NEW c \in Caller, pc[c].job = j, Hook(c)
      PROVE  Reserving' = Reserving /\ \A k \in Job : k # j => (HoldsSlot(k)' <=> HoldsSlot(k))
  <2>1. pc[c].at = "hook" /\ pc' = [pc EXCEPT ![c] = Reconciling("idle")] /\ fut' = fut /\ exec' = exec
    BY <1>4 DEF Hook, At
  <2>2. pc'[c].at = "reconcile"
    BY <1>0, <2>1, ReconcilingEffect
  <2> QED BY <1>2, <1>4, <2>1, <2>2
<1>5. CASE DrainOne /\ CancelFuture(j)
  <2>1. exec' = exec /\ \A k \in Job : k # j => fut'[k] = fut[k]
    BY <1>0, <1>5 DEF DrainOne, CancelFuture
  <2>2. \A d \in Caller : pc'[d] = pc[d]
    BY <1>0, <1>5, DrainOneEffect, ExitAssumption DEF Alone
  <2>3. Reserving' = Reserving
    BY <2>2 DEF Reserving
  <2>4. \A k \in Job : \A d \in Caller : Due(d, k)' <=> Due(d, k)
    BY <2>2 DEF Due, Tracking, CallingBack, At
  <2> QED BY <1>0, <2>1, <2>3, <2>4, HoldsSame
<1> QED BY <1>1, <1>3, <1>4, <1>5 DEF Ends

(* A job that submit took, or refused, has moved from the call that admitted it. *)
LEMMA SubmitAccount ==
  ASSUME BaseType, Standing, PoolOK, RowsOK, Hands, Callbacks, DebtsOK, Ways, NoIdleQueue, [Next]_vars,
         NEW c \in Caller, Submit(c), NEW j, j = pc[c].job
  PROVE  /\ c \in Reserving /\ Reserving' = Reserving \ {c} /\ j \in Job /\ j \notin Holding
         /\ \/ Holding' = Holding \cup {j} /\ free' = free
            \/ Holding' = Holding /\ free' = free + 1
<1>0. /\ fut \in [Job -> Futures] /\ exec \in [Job -> Runs] /\ free \in Int
      /\ \A d \in Caller : d \in Threads
      /\ pc[c].at = "submit" /\ j \in Job /\ fut[j] = "none"
  BY DEF BaseType, Threads, Standing, StandsOK, WithJob, Submit, At, Hands, HandOK
<1>1. /\ fut'[j] \in {"pending", "unsubmitted"} /\ exec' = exec /\ debtSlots' = debtSlots
      /\ \/ fut'[j] = "pending" /\ free' = free /\ Goto(c, "track")
         \/ fut'[j] = "unsubmitted" /\ free' = free + 1 /\ Goto(c, "fail")
  BY <1>0, SubmitEffect DEF PoolOK
<1>2. pc'[c].at \in {"track", "fail"} /\ Alone(c)
  BY <1>0, <1>1, GotoEffect
<1>3. c \in Reserving /\ Reserving' = Reserving \ {c}
  BY <1>0, <1>2 DEF Reserving, Alone
<1>4. ~HoldsSlot(j)
  <2>1. \A d \in Caller : ~Due(d, j)
    BY <1>0, DueFuture DEF Due
  <2> QED BY <1>0, <2>1 DEF HoldsSlot, CallbackDue, Due, CallingBack, PoolOK, Callbacks
<1>5. ASSUME NEW k \in Job, k # j PROVE HoldsSlot(k)' <=> HoldsSlot(k)
  <2>1. ~Ends(k)
    BY <1>0, <1>1, <1>5 DEF Ends, RunCallback, RetireCallback, Hook, CancelFuture
  <2>2. \A d \in Threads : ~PayDone(d)
    BY <1>0, <1>1 DEF PayDone
  <2>3. ASSUME NEW d \in Caller, Submit(d), pc[d].job = k PROVE FALSE
    <3>1. fut' = [fut EXCEPT ![k] = "pending"] \/ fut' = [fut EXCEPT ![k] = "unsubmitted"]
      BY <2>3 DEF Submit
    <3> QED BY <1>0, <1>1, <1>5, <3>1
  <2> QED BY <2>1, <2>2, <2>3, HoldsLeaves, HoldsArrives
<1>6. CASE fut'[j] = "pending"
  <2>1. HoldsSlot(j)'
    BY <1>6 DEF HoldsSlot
  <2>2. Holding' = Holding \cup {j}
    BY <1>0, <1>5, <2>1 DEF Holding
  <2> QED BY <1>0, <1>1, <1>3, <1>4, <1>6, <2>2 DEF Holding
<1>7. CASE fut'[j] = "unsubmitted"
  <2>1. Hands'
    BY HandsKept
  <2>2. \A d \in Caller : ~Due(d, j)'
    <3>1. \A d \in Caller : HandOK(d)'
      BY <2>1 DEF Hands
    <3> QED BY <1>7, <3>1 DEF Due, Tracking, CallingBack, At, HandOK, Submitted
  <2>3. ~HoldsSlot(j)'
    <3>1. exec'[j] # "callback" /\ j \notin debtSlots'
      BY <1>0, <1>1, <1>4 DEF HoldsSlot, CallbackDue
    <3> QED BY <1>7, <2>2, <3>1 DEF HoldsSlot, CallbackDue, Due, CallingBack
  <2>4. Holding' = Holding
    BY <1>0, <1>4, <1>5, <2>3 DEF Holding
  <2> QED BY <1>0, <1>1, <1>3, <1>4, <1>7, <2>4 DEF Holding
<1> QED BY <1>1, <1>6, <1>7

(* A call that takes a slot, or gives back the one it could not use. *)
LEMMA AdmitAccount ==
  ASSUME BaseType, Standing, PoolOK, [Next]_vars, NEW c \in Caller,
         Acquire(c) \/ NotCreated(c) \/ \E j \in Job : Create(c, j)
  PROVE  /\ Holding' = Holding
         /\ \/ Reserving' = Reserving /\ free' = free
            \/ c \notin Reserving /\ Reserving' = Reserving \cup {c} /\ free' = free - 1
            \/ c \in Reserving /\ Reserving' = Reserving \ {c} /\ free' = free + 1
<1>0. \A d \in Caller : d \in Threads
  BY DEF Threads
<1>1. /\ fut' = fut /\ exec' = exec /\ debtSlots' = debtSlots /\ Alone(c)
      /\ pc[c].at \in {"acquire", "create"} /\ pc'[c].at \in {"create", "submit", "idle"}
      /\ \/ pc[c].at = "acquire" /\ pc'[c].at = "create" /\ free' = free - 1
         \/ pc[c].at = "acquire" /\ pc'[c].at = "idle" /\ free' = free
         \/ pc[c].at = "create" /\ pc'[c].at = "submit" /\ free' = free
         \/ pc[c].at = "create" /\ pc'[c].at = "idle" /\ free' = free + 1
  <2>1. CASE Acquire(c)
    <3>1. CASE Return(c) /\ free' = free
      <4>1. pc'[c] = Idle /\ Alone(c)
        BY <1>0, <3>1, ReturnEffect
      <4> QED BY <2>1, <3>1, <4>1, IdleFields DEF Acquire, At
    <3>2. CASE pc' = [pc EXCEPT ![c] = [Idle EXCEPT !.at = "create"]] /\ free' = free - 1
      <4>1. "create" \in Places
        BY DEF Places
      <4> QED BY <1>0, <2>1, <3>2, <4>1, StartEffect DEF Acquire, At
    <3>3. (Return(c) /\ free' = free) \/ (pc' = [pc EXCEPT ![c] = [Idle EXCEPT !.at = "create"]] /\ free' = free - 1)
      BY <2>1 DEF Acquire
    <3> QED BY <3>1, <3>2, <3>3
  <2>2. CASE NotCreated(c)
    BY <1>0, <2>2, ReturnEffect, IdleFields DEF NotCreated, At
  <2>3. ASSUME NEW j \in Job, Create(c, j)
        PROVE  /\ fut' = fut /\ exec' = exec /\ debtSlots' = debtSlots /\ Alone(c)
               /\ \/ pc[c].at = "create" /\ pc'[c].at = "submit" /\ free' = free
                  \/ pc[c].at = "create" /\ pc'[c].at = "idle" /\ free' = free + 1
    <3>1. fut' = fut /\ exec' = exec /\ debtSlots' = debtSlots
      BY <2>3 DEF Create
    <3> QED BY <1>0, <2>3, <3>1, CreateEffect, IdleFields
  <2> QED BY <2>1, <2>2, <2>3
<1>2. \A d \in Caller : d # c => pc'[d] = pc[d]
  BY <1>0, <1>1 DEF Alone
<1>3. ASSUME NEW k \in Job PROVE HoldsSlot(k)' <=> HoldsSlot(k)
  <2>1. ~Due(c, k) /\ ~Due(c, k)'
    BY <1>1 DEF Due, Tracking, CallingBack, At
  <2>2. pc'[c] # pc[c]
    BY <1>1
  <2>3. \A d \in Caller : Due(d, k)' <=> Due(d, k)
    BY <2>1, <2>2, DueSame
  <2> QED BY <1>1, <2>3, HoldsSame
<1>4. Holding' = Holding
  BY <1>3 DEF Holding
<1> QED BY <1>1, <1>2, <1>4 DEF Reserving

(* A paid debt frees its job's slot, if that was set aside for it. *)
LEMMA PaidAccount ==
  ASSUME BaseType, Standing, Callbacks, [Next]_vars, NEW c \in Threads, PayDone(c)
  PROVE  /\ Reserving' = Reserving
         /\ \/ Holding' = Holding /\ free' = free
            \/ \E j \in Holding : Holding' = Holding \ {j} /\ free' = free + 1
<1>0. /\ \A d \in Caller : d \in Threads
      /\ fut' = fut /\ exec' = exec
      /\ pc[c].at = "paid" /\ pc'[c].at = "pay" /\ Alone(c)
  BY PayDoneEffect DEF PayDone, Threads
<1>1. Reserving' = Reserving
  BY <1>0 DEF Reserving, Alone
<1>2. \A k \in Job : \A d \in Caller : Due(d, k)' <=> Due(d, k)
  BY <1>0 DEF Alone, Due, Tracking, CallingBack, At
<1>3. \/ debtSlots' = debtSlots /\ free' = free
      \/ \E j \in debtSlots : debtSlots' = debtSlots \ {j} /\ free' = free + 1
  BY DEF PayDone
<1>4. CASE debtSlots' = debtSlots /\ free' = free
  <2>1. \A k \in Job : HoldsSlot(k)' <=> HoldsSlot(k)
    BY <1>0, <1>2, <1>4, HoldsSame
  <2> QED BY <1>1, <1>4, <2>1 DEF Holding
<1>5. ASSUME NEW j \in debtSlots, debtSlots' = debtSlots \ {j}, free' = free + 1
      PROVE  \E i \in Holding : Holding' = Holding \ {i} /\ free' = free + 1
  <2>0. j \in Job
    BY <1>5 DEF BaseType
  <2>1. \A k \in Job : k # j => (HoldsSlot(k)' <=> HoldsSlot(k))
    <3>1. ASSUME NEW k \in Job, k # j PROVE HoldsSlot(k)' <=> HoldsSlot(k)
      <4>1. k \in debtSlots' <=> k \in debtSlots
        BY <1>5, <3>1
      <4> QED BY <1>0, <1>2, <4>1, HoldsSame
    <3> QED BY <3>1
  <2>2. HoldsSlot(j)
    BY <1>5 DEF HoldsSlot
  <2>3. ~HoldsSlot(j)'
    <3>1. fut[j] \notin {"pending", "running"} /\ exec[j] # "callback" /\ \A d \in Caller : ~Due(d, j)
      BY <1>5 DEF Callbacks, CallbackDue, Due, CallingBack
    <3>2. fut'[j] \notin {"pending", "running"} /\ exec'[j] # "callback" /\ j \notin debtSlots'
      BY <1>0, <1>5, <3>1
    <3>3. \A d \in Caller : ~Due(d, j)'
      BY <1>2, <2>0, <3>1
    <3>4. ~CallbackDue(j)'
      BY <3>2, <3>3 DEF CallbackDue, Due, CallingBack
    <3> QED BY <3>2, <3>4 DEF HoldsSlot
  <2>4. Holding' = Holding \ {j} /\ j \in Holding
    BY <2>0, <2>1, <2>2, <2>3 DEF Holding
  <2> QED BY <1>1, <1>5, <2>4
<1> QED BY <1>1, <1>3, <1>4, <1>5

LEMMA CountedKept ==
  ASSUME BaseType, Standing, PoolOK, RowsOK, Hands, Callbacks, DebtsOK, Ways, Counted, NoIdleQueue, [Next]_vars
  PROVE  Counted'
<1>0. free \in Int /\ free' \in Int
  BY TypeStep DEF BaseType
<1>1. ASSUME NEW c \in Caller, Submit(c) PROVE Counted'
  <2>1. PICK j : j = pc[c].job
    OBVIOUS
  <2>2. /\ c \in Reserving /\ Reserving' = Reserving \ {c} /\ j \notin Holding
        /\ \/ Holding' = Holding \cup {j} /\ free' = free
           \/ Holding' = Holding /\ free' = free + 1
    BY <1>1, <2>1, SubmitAccount
  <2> QED BY <2>2, Account
<1>2. ASSUME UNCHANGED <<free, debtSlots>>, \A c \in Caller : ~Submit(c) PROVE Counted'
  <2>1. \A j \in Job : ~Ends(j)
    <3>1. ASSUME NEW j \in Job, Ends(j) PROVE FALSE
      <4>1. j \notin debtSlots
        BY <3>1, EndsDone
      <4>2. Callback(j)
        BY <3>1 DEF Ends
      <4> QED BY <1>0, <1>2, <4>1, <4>2, CallbackEffect
    <3> QED BY <3>1
  <2>2. \A k \in Job : k \in debtSlots => HoldsSlot(k)'
    BY <1>2 DEF HoldsSlot
  <2>3. \A k \in Job : HoldsSlot(k)' <=> HoldsSlot(k)
    BY <1>2, <2>1, <2>2, HoldsLeaves, HoldsArrives
  <2>4. Holding' = Holding
    BY <2>3 DEF Holding
  <2>5. \A c \in Caller : c \in Reserving' <=> c \in Reserving
    BY <1>0, <1>2, ReservingMoves
  <2>6. Reserving' = Reserving
    BY <2>5 DEF Reserving
  <2> QED BY <1>2, <2>4, <2>6, Account
<1>3. ASSUME NEW j \in Job, Ends(j) PROVE Counted'
  <2>1. HoldsSlot(j) /\ j \notin debtSlots /\ ~CallbackDue(j)' /\ fut'[j] \in {"done", "cancelled"}
    BY <1>3, EndsDone
  <2>2. Reserving' = Reserving /\ \A k \in Job : k # j => (HoldsSlot(k)' <=> HoldsSlot(k))
    BY <1>3, EndsAccount
  <2>3. CASE debtSlots' = debtSlots \cup {j} /\ free' = free
    <3>1. HoldsSlot(j)'
      BY <2>3 DEF HoldsSlot
    <3>2. Holding' = Holding
      BY <2>1, <2>2, <3>1 DEF Holding
    <3> QED BY <2>2, <2>3, <3>2, Account
  <2>4. CASE debtSlots' = debtSlots /\ free' = free + 1
    <3>1. ~HoldsSlot(j)'
      BY <2>1, <2>4 DEF HoldsSlot
    <3>2. Holding' = Holding \ {j} /\ j \in Holding
      BY <2>1, <2>2, <3>1 DEF Holding
    <3> QED BY <2>2, <2>4, <3>2, Account
  <2> QED BY <1>3, <2>3, <2>4, CallbackEffect DEF Ends
<1>4. ASSUME NEW c \in Caller, Acquire(c) \/ NotCreated(c) \/ \E j \in Job : Create(c, j) PROVE Counted'
  BY <1>4, AdmitAccount, Account
<1>5. ASSUME NEW c \in Threads, PayDone(c) PROVE Counted'
  BY <1>5, PaidAccount, Account
<1>6. ASSUME NEW c \in Caller, Track(c), \A d \in Caller : ~Submit(d) PROVE Counted'
  BY <1>2, <1>6 DEF Track, slots
<1> QED BY <1>1, <1>2, <1>3, <1>4, <1>5, <1>6, SlotMoves

----------------------------------------------------------------------------
(* Unpaid results keep their slots, step by step. *)

LEMMA UnpaidKept ==
  ASSUME BaseType, Standing, PoolOK, RowsOK, Hands, Callbacks, DebtsOK, Ways, UnpaidKeepsSlot, [Next]_vars
  PROVE  UnpaidKeepsSlot'
<1>0. /\ fut \in [Job -> Futures] /\ exec \in [Job -> Runs] /\ debts \in Seq(Debt) /\ OneEach(debts)
      /\ debtSlots \in SUBSET Job
      /\ \A j : Owes(j) <=> OwedIn(j, debts)
      /\ \A j : Owes(j)' <=> OwedIn(j, debts')
  BY DEF BaseType, DebtsOK, OneEach, Owes, OwedIn
(* A debt that is paid goes, and takes its slot with it. *)
<1>1. ASSUME NEW c \in Threads, PayDone(c), NEW j \in debtSlots, Head(pc[c].owed).job = j
      PROVE  OwedIn(j, debts') <=> j \in debtSlots'
  <2>1. PICK d : d = Head(pc[c].owed)
    OBVIOUS
  <2>2. /\ debts' = Without(d) /\ d.job = j
        /\ debtSlots' = IF StillOwed(d) /\ j \in debtSlots THEN debtSlots \ {j} ELSE debtSlots
    BY <1>1, <2>1 DEF PayDone
  <2>3. \A e : Among(e, Without(d)) <=> Among(e, debts) /\ e # d
    BY <1>0, WithoutEffect
  <2>4. PICK e : Among(e, debts) /\ e.job = j
    BY <1>0, <1>1 DEF UnpaidKeepsSlot, OwedIn, Among
  <2>5. \A f : Among(f, debts) /\ f.job = j => f = e
    BY <1>0, <2>4 DEF OneEach, Among
  <2>6. OwedIn(j, debts') <=> \E f : Among(f, debts') /\ f.job = j
    BY DEF OwedIn, Among
  <2>7. CASE StillOwed(d)
    <3>1. d = e
      BY <2>2, <2>5, <2>7 DEF StillOwed, Among
    <3> QED BY <2>2, <2>3, <2>5, <2>6, <2>7, <3>1
  <2>8. CASE ~StillOwed(d)
    <3>1. d # e
      BY <2>4, <2>8 DEF StillOwed, Among
    <3> QED BY <1>1, <2>2, <2>3, <2>4, <2>6, <2>8, <3>1
  <2> QED BY <2>7, <2>8
<1>2. ASSUME NEW j \in Job, fut'[j] = "done", Owes(j)', ~CallbackDue(j)', j \notin debtSlots' PROVE FALSE
  <2>1. ~HoldsSlot(j)'
    BY <1>2 DEF HoldsSlot
  <2>2. Owes(j)
    <3>1. PICK e : Among(e, debts') /\ e.job = j
      BY <1>0, <1>2 DEF OwedIn, Among
    <3>2. Among(e, debts) \/ (fut[e.job] \in {"running", "cancelled", "unsubmitted"} /\ fut' = fut)
      BY <3>1, DebtStep
    <3>3. Among(e, debts)
      BY <1>2, <3>1, <3>2
    <3> QED BY <1>0, <3>1, <3>3 DEF OwedIn, Among
  <2>3. FutOnward(fut[j], fut'[j])
    BY FutStep
  <2>4. ~Ends(j)
    <3>1. ASSUME Ends(j) PROVE FALSE
      <4>1. Callback(j)
        BY <3>1 DEF Ends
      <4> QED BY <1>2, <2>2, <4>1, CallbackEffect
    <3> QED BY <3>1
  <2>5. CASE fut[j] = "running"
    <3>1. RunReturn(j)
      <4>1. ~CancelFuture(j)
        BY <2>5 DEF CancelFuture
      <4> QED BY <1>2, <2>4, <2>5, <4>1, FutLeaves
    <3>2. pc' = pc /\ exec'[j] = IF Hooked(j) THEN "callback" ELSE "none"
      BY <1>0, <3>1 DEF RunReturn
    <3>3. Hooked(j)
      BY <1>2, <3>2 DEF Hooked, CallbackDue, Tracking
    <3> QED BY <1>2, <3>2, <3>3 DEF CallbackDue
  <2>6. CASE fut[j] = "done"
    <3>1. CallbackDue(j) \/ j \in debtSlots
      BY <2>2, <2>6 DEF UnpaidKeepsSlot
    <3>2. HoldsSlot(j)
      BY <3>1 DEF HoldsSlot
    <3>3. PICK c \in Threads : PayDone(c) /\ j \in debtSlots
      BY <2>1, <2>4, <3>2, HoldsLeaves
    <3>4. Head(pc[c].owed).job = j
      BY <1>2, <3>3 DEF PayDone
    <3> QED BY <1>0, <1>1, <1>2, <3>3, <3>4
  <2> QED BY <1>0, <1>2, <2>3, <2>5, <2>6 DEF FutOnward, Futures
<1>3. ASSUME NEW j \in debtSlots' PROVE Owes(j)'
  <2>1. CASE j \notin debtSlots
    BY <1>0, <2>1, DebtSlotMoves
  <2>2. CASE j \in debtSlots
    <3>1. OwedIn(j, debts)
      BY <1>0, <2>2 DEF UnpaidKeepsSlot
    <3>2. OwedIn(j, debts') \/ \E c \in Threads : PayDone(c) /\ Head(pc[c].owed).job = j
      BY <1>0, <2>2, <3>1, DebtStep
    <3> QED BY <1>0, <1>1, <1>3, <2>2, <3>2
  <2> QED BY <2>1, <2>2
<1> QED BY <1>2, <1>3 DEF UnpaidKeepsSlot

----------------------------------------------------------------------------
(* A call retires what it found cancelled, step by step. *)

LEMMA RetireCancelEffect ==
  ASSUME Standing, NEW c \in Caller, RetireCancel(c)
  PROVE  /\ pc[c].at = "cancel" /\ pc'[c].todo = pc[c].todo /\ pc'[c].stale = pc[c].stale
         /\ \/ CancelFuture(pc[c].job)
            \/ fut[pc[c].job] # "pending"
            \/ row[pc[c].job].state # "cancelled"
<1>0. c \in Threads
  BY DEF Threads
<1>1. (\E where \in {"callback", "owe"} : Goto(c, where)) \/ GoOn(c)
  BY DEF RetireCancel
<1>2. pc'[c].todo = pc[c].todo /\ pc'[c].stale = pc[c].stale
  BY <1>0, <1>1, GotoEffect, GoOnEffect
<1> QED BY <1>2 DEF RetireCancel, At

LEMMA ReconciledKept ==
  ASSUME BaseType, Standing, PoolOK, RowsOK, Hands, Reconciled, [Next]_vars
  PROVE  Reconciled'
<1>0. /\ fut \in [Job -> Futures] /\ tracked \in SUBSET Job
      /\ \A c \in Caller : c \in Threads /\ HandOK(c) /\ pc[c].stale \in SUBSET Job
  BY Fields DEF BaseType, Threads, Hands
<1>1. ASSUME NEW c \in Caller, NEW j \in pc[c].stale, fut'[j] = "pending"
      PROVE  /\ fut[j] = "pending" /\ row[j].state = "cancelled" /\ ~CancelFuture(j)
             /\ pc[c].at \in Retiring => j \in pc[c].todo \/ (pc[c].at = "cancel" /\ pc[c].job = j)
             /\ pc[c].at # "acquire"
  <2>1. j \in Job /\ Submitted(j) /\ row[j].state = "cancelled"
    BY <1>0, <1>1 DEF HandOK
  <2>2. FutOnward(fut[j], fut'[j])
    BY <2>1, FutStep
  <2>3. fut[j] = "pending"
    BY <1>1, <2>1, <2>2 DEF FutOnward, Submitted
  <2>4. ~CancelFuture(j)
    BY <1>0, <1>1, <2>1 DEF CancelFuture
  <2> QED BY <1>1, <2>1, <2>3, <2>4 DEF Reconciled, At
<1>2. ASSUME NEW c \in Caller, pc'[c].at \in Retiring, NEW j \in pc'[c].stale, fut'[j] = "pending"
      PROVE  j \in pc'[c].todo \/ (pc'[c].at = "cancel" /\ pc'[c].job = j)
  <2>1. CASE pc'[c] = pc[c]
    BY <1>1, <1>2, <2>1
  <2>2. CASE Calling(c)
    <3>1. Arrives(c)
      BY <2>2, Arrivals
    <3>2. ASSUME Reconcile(c) PROVE j \in pc'[c].todo
      BY <1>0, <1>2, <3>2, ReconcileEffect
    <3>3. ASSUME NEW k \in Job, RetireLook(c, k) PROVE j \in pc'[c].todo \/ (pc'[c].at = "cancel" /\ pc'[c].job = j)
      <4>1. /\ pc[c].at = "retire" /\ pc'[c].todo = pc[c].todo \ {k} /\ pc'[c].stale = pc[c].stale
            /\ \/ fut[k] = "pending" /\ pc'[c].at = "cancel" /\ pc'[c].job = k
               \/ fut[k] # "pending" /\ pc'[c].at = "retire"
        BY <1>0, <3>3, RetireLookEffect
      <4>2. fut[j] = "pending" /\ j \in pc[c].todo
        BY <1>1, <1>2, <4>1 DEF Retiring
      <4> QED BY <4>1, <4>2
    <3>4. ASSUME RetireCancel(c) PROVE j \in pc'[c].todo
      <4>1. j \in pc[c].stale
        BY <1>2, <3>4, RetireCancelEffect
      <4> QED BY <1>1, <1>2, <3>4, <4>1, RetireCancelEffect DEF Retiring
    <3>5. ASSUME RetireOwe(c) \/ RetireCallback(c) PROVE j \in pc'[c].todo
      <4>1. pc[c].at \in {"owe", "callback"} /\ (Goto(c, "owe") \/ GoOn(c))
        BY <3>5 DEF RetireOwe, RetireCallback, At
      <4>2. pc'[c].todo = pc[c].todo /\ pc'[c].stale = pc[c].stale
        BY <1>0, <4>1, GotoEffect, GoOnEffect
      <4> QED BY <1>1, <1>2, <4>1, <4>2 DEF Retiring
    <3>6. Reconcile(c) \/ (\E k \in Job : RetireLook(c, k)) \/ RetireCancel(c) \/ RetireOwe(c) \/ RetireCallback(c)
      BY <1>2, <3>1 DEF Arrives, Retiring
    <3> QED BY <3>2, <3>3, <3>4, <3>5, <3>6
  <2> QED BY <1>2, <2>1, <2>2, CallerMoves DEF Paying, Retiring
<1>3. ASSUME NEW c \in Caller, pc'[c].at = "acquire", NEW j \in pc'[c].stale, fut'[j] = "pending" PROVE FALSE
  <2>1. CASE pc'[c] = pc[c]
    BY <1>1, <1>3, <2>1
  <2>2. CASE Calling(c)
    <3>1. Arrives(c)
      BY <2>2, Arrivals
    <3>2. pc[c].at = "retire" /\ pc[c].todo = {} /\ pc'[c].stale = pc[c].stale
      BY <1>3, <3>1 DEF Arrives
    <3> QED BY <1>1, <1>3, <3>2 DEF Retiring
  <2> QED BY <1>3, <2>1, <2>2, CallerMoves DEF Paying
<1> QED BY <1>2, <1>3 DEF Reconciled, At

----------------------------------------------------------------------------
(* No accepted job is forgotten, step by step. *)

(* An owed write that leaves no result leaves its debt. *)
LEMMA OwedOrWritten ==
  ASSUME BaseType, Standing, PoolOK, RowsOK, Hands, DebtsOK, NEW j \in Job, NEW kind \in {"finish", "unstarted"},
         Owing(j, kind), row'[j].result = "none"
  PROVE  OwedIn(j, debts')
<1>1. OneEach(debts)
  BY DEF DebtsOK, OneEach
<1>2. PICK by \in Threads \cup {"worker"} : Owe(j, kind, by)
  BY OwingEffect
<1>3. Writable(row[j], kind)
  BY OwingEffect
<1> QED BY <1>1, <1>2, <1>3, OweEffect

(* A process that gave up stays so. *)
LEMMA GaveUp ==
  ASSUME BaseType, Standing, Ways, [Next]_vars, phase = "expired"
  PROVE  phase' = "expired"
<1>0. Exit \in Threads
  BY DEF Threads
<1>1. pc[Exit].at \notin {"again", "drain"} \cup Paying
  BY DEF Ways, At
<1>2. ~Leaving
  BY <1>1, DrainOneEffect, DrainOweEffect DEF Leaving, OutOfTime, Drain, Join, SettleAtExit, At, Paying
<1>3. CASE Settling(Exit)
  BY <1>3, ExitAssumption DEF Settling, Pay, PayWrite, PayDone, PayRefused, PayEnd, process
<1> QED BY <1>2, <1>3, LateSteps, ElsewhereStands

(* A queued job is taken, or cancelled by one that sees to it. *)
LEMMA QueuedRemembered ==
  ASSUME BaseType, Standing, PoolOK, RowsOK, Hands, Callbacks, DebtsOK, Ways, [Next]_vars,
         NEW j \in Job, fut[j] = "pending"
  PROVE  SeenToBy(j)'
<1>0. /\ fut \in [Job -> Futures] /\ exec \in [Job -> Runs]
      /\ \A c \in Caller : c \in Threads
      /\ FutOnward(fut[j], fut'[j])
  BY FutStep DEF BaseType, Threads
<1>1. CASE fut'[j] = "pending"
  BY <1>1 DEF SeenToBy
<1>2. CASE fut'[j] = "running"
  <2>1. ASSUME NEW i, CancelFuture(i) PROVE FALSE
    BY <1>0, <1>2, <2>1 DEF CancelFuture
  <2>2. ASSUME NEW c \in Caller, Submit(c) PROVE FALSE
    BY <1>0, <1>2, <2>2 DEF Submit
  <2>3. PICK k \in Job : Take(k) \/ Working(k)
    BY <1>2, <2>1, <2>2, PoolMoves DEF Leave
  <2>4. ~Working(k)
    BY <1>0, <1>2, WorkEffect
  <2>5. k = j /\ exec'[j] = "claim"
    BY <1>0, <1>2, <2>3, <2>4 DEF Take
  <2> QED BY <2>5 DEF SeenToBy
<1>3. CASE fut'[j] = "cancelled"
  <2>1. ASSUME NEW c \in Caller, RetireCancel(c), pc[c].job = j, CancelFuture(j) PROVE SeenToBy(j)'
    <3>1. \/ Goto(c, "callback") \/ Goto(c, "owe")
          \/ GoOn(c) /\ (row[j].state # "cancelled" \/ fut[j] \in {"running", "done"}) /\ fut' = fut
      BY <2>1 DEF RetireCancel
    <3>2. Goto(c, "callback") \/ Goto(c, "owe")
      BY <1>3, <3>1
    <3>3. pc'[c].at \in {"callback", "owe"} /\ pc'[c].job = j
      BY <1>0, <2>1, <3>2, GotoEffect
    <3> QED BY <3>3 DEF SeenToBy
  <2>2. ASSUME Ends(j) PROVE SeenToBy(j)'
    <3>1. DrainOne
      BY <1>3, <2>2 DEF Ends, RunCallback, RetireCallback, Hook
    <3>2. At(Exit, "drain") /\ pc'[Exit].at = "drain" /\ pc'[Exit].todo = pc[Exit].todo
      BY <3>1, DrainOneEffect DEF At
    <3>3. j \in pc[Exit].todo
      BY <3>2 DEF Ways
    <3> QED BY <1>3, <3>2, <3>3 DEF SeenToBy, At
  <2>3. ~RunReturn(j)
    BY <1>0 DEF RunReturn, PoolOK
  <2> QED BY <1>3, <2>1, <2>2, <2>3, FutLeaves
<1> QED BY <1>0, <1>1, <1>2, <1>3 DEF FutOnward

(* A worker that has taken a job writes its result, or owes it. *)
LEMMA RunRemembered ==
  ASSUME BaseType, Standing, PoolOK, RowsOK, Hands, DebtsOK, [Next]_vars,
         NEW j \in Job, exec[j] \in {"claim", "ask", "finish", "unstarted"}, row'[j].result = "none"
  PROVE  SeenToBy(j)'
<1>0. exec \in [Job -> Runs]
  BY DEF BaseType
<1>1. CASE exec'[j] = exec[j]
  BY <1>1 DEF SeenToBy
<1>2. CASE exec'[j] # exec[j]
  <2>1. PICK k \in Job : Take(k) \/ Working(k)
    BY <1>2, PoolMoves DEF Submit, Leave
  <2>2. CASE Take(k)
    BY <1>0, <1>2, <2>2 DEF Take, SeenToBy
  <2>3. CASE Working(k)
    <3>1. k = j
      BY <1>0, <1>2, <2>3, WorkEffect
    <3>2. CASE RunWrite(j)
      <4>1. Owing(j, exec[j]) /\ exec[j] \in {"finish", "unstarted"}
        BY <3>2 DEF Owing, RunWrite
      <4>2. OwedIn(j, debts')
        BY <4>1, OwedOrWritten
      <4> QED BY <4>2 DEF SeenToBy, Owes, OwedIn
    <3>3. CASE RunClaim(j) \/ RunAsk(j)
      <4>1. exec'[j] \in {"ask", "finish", "unstarted"}
        BY <1>0, <3>3 DEF RunClaim, RunAsk
      <4> QED BY <4>1 DEF SeenToBy
    <3> QED BY <2>3, <3>1, <3>2, <3>3 DEF Working, RunReturn, RunCallback
  <2> QED BY <2>1, <2>2, <2>3
<1> QED BY <1>1, <1>2

(* So does a call that has a job's result to write. *)
LEMMA CallRemembered ==
  ASSUME BaseType, Standing, PoolOK, RowsOK, Hands, DebtsOK, [Next]_vars,
         NEW j \in Job, NEW c \in Caller, pc[c].job = j, pc[c].at \in {"callback", "owe", "fail"},
         row'[j].result = "none"
  PROVE  SeenToBy(j)'
<1>0. c \in Threads
  BY DEF Threads
<1>1. CASE pc'[c] = pc[c]
  BY <1>1 DEF SeenToBy
<1>2. CASE Calling(c)
  <2>1. CASE RetireCallback(c)
    <3>1. pc'[c].at = "owe" /\ pc'[c].job = j
      BY <1>0, <2>1, GotoEffect DEF RetireCallback
    <3> QED BY <3>1 DEF SeenToBy
  <2>2. CASE RetireOwe(c) \/ SubmitFailed(c)
    <3>1. Owing(j, "finish") \/ Owing(j, "unstarted")
      BY <2>2 DEF Owing
    <3>2. OwedIn(j, debts')
      BY <3>1, OwedOrWritten
    <3> QED BY <3>2 DEF SeenToBy, Owes, OwedIn
  <2> QED BY <1>2, <2>1, <2>2, Departures DEF At
<1> QED BY <1>1, <1>2, CallerMoves DEF Paying

(* And the exit, which owes what it cancelled its result. *)
LEMMA ExitRemembered ==
  ASSUME BaseType, Standing, PoolOK, RowsOK, Hands, DebtsOK, Ways, [Next]_vars,
         NEW j \in Job, At(Exit, "drain"), j \in pc[Exit].todo, fut[j] = "cancelled"
  PROVE  SeenToBy(j)'
<1>0. Exit \in Threads /\ debts \in Seq(Debt) /\ fut'[j] = "cancelled" /\ phase = "draining" /\ pc[Exit].at = "drain"
  <2>1. FutOnward(fut[j], fut'[j])
    BY FutStep
  <2> QED BY <2>1 DEF FutOnward, Threads, BaseType, Ways, At
<1>1. CASE pc'[Exit].at = "drain" /\ j \in pc'[Exit].todo
  BY <1>0, <1>1 DEF SeenToBy, At
<1>2. ASSUME NEW k \in Job, DrainOwe(k) PROVE SeenToBy(j)'
  <2>1. pc'[Exit].at = "drain" /\ pc'[Exit].todo = pc[Exit].todo \ {k} /\ debts' = OwedAtExit(k)
    BY <1>2, DrainOweEffect DEF DrainOwe
  <2>2. CASE k # j
    BY <1>1, <2>1, <2>2
  <2>3. CASE k = j /\ Owes(j)
    <3>1. debts' = debts
      BY <2>1, <2>3 DEF OwedAtExit
    <3> QED BY <2>3, <3>1 DEF SeenToBy, Owes
  <2>4. CASE k = j /\ ~Owes(j)
    <3>1. PICK d : d = [job |-> j, kind |-> "unstarted", by |-> Exit]
      OBVIOUS
    <3>2. debts' = Append(debts, d) /\ d.job = j
      BY <2>1, <2>4, <3>1 DEF OwedAtExit
    <3>3. Len(debts) + 1 \in DOMAIN debts' /\ debts'[Len(debts) + 1].job = j
      BY <1>0, <3>2
    <3> QED BY <3>3 DEF SeenToBy, Owes
  <2> QED BY <2>2, <2>3, <2>4
<1>3. CASE Settling(Exit)
  BY <1>0, <1>3, PayPlaces DEF Paying
<1>4. CASE DrainOne
  BY <1>1, <1>4, DrainOneEffect
<1>5. CASE Elsewhere
  BY <1>0, <1>1, <1>5, ElsewhereStands
<1>6. ~OutOfTime /\ ~Drain /\ ~Join /\ ~SettleAtExit
  BY <1>0 DEF OutOfTime, Drain, Join, SettleAtExit, At
<1> QED BY <1>0, <1>2, <1>3, <1>4, <1>5, <1>6, LateSteps DEF Leaving

LEMMA RememberedKept ==
  ASSUME BaseType, Standing, PoolOK, RowsOK, Hands, Callbacks, DebtsOK, Ways, Remembered, [Next]_vars
  PROVE  Remembered'
<1>1. ASSUME NEW j \in Job, fut'[j] # "none", row'[j].result = "none", phase' # "expired"
      PROVE  SeenToBy(j)'
  <2>0. /\ row[j].result = "none" /\ phase # "expired"
        /\ \A c \in Caller : c \in Threads
    <3>1. Onward(row[j], row'[j])
      BY RowStep
    <3> QED BY <1>1, <3>1, GaveUp DEF Onward, Threads
  <2>1. CASE fut[j] = "none"
    <3>1. PICK c \in Caller : Submit(c) /\ pc[c].job = j
      BY <1>1, <2>1, FutStep
    <3>2. fut'[j] = "pending" \/ Goto(c, "fail")
      <4>1. j \in DOMAIN fut
        BY DEF BaseType
      <4> QED BY <3>1, <4>1 DEF Submit
    <3>3. CASE Goto(c, "fail")
      <4>1. pc'[c].at = "fail" /\ pc'[c].job = j
        BY <2>0, <3>1, <3>3, GotoEffect
      <4> QED BY <4>1 DEF SeenToBy
    <3> QED BY <3>2, <3>3 DEF SeenToBy
  <2>2. CASE fut[j] # "none"
    <3>1. SeenToBy(j)
      BY <2>0, <2>2 DEF Remembered, Accepted
    <3>2. CASE Owes(j)
      <4>1. OwedIn(j, debts)
        BY <3>2 DEF Owes, OwedIn
      <4>2. \A c \in Threads : PayDone(c) => Head(pc[c].owed).job # j
        BY <2>0, PayDoneEffect DEF DebtsOK
      <4>3. OwedIn(j, debts')
        BY <4>1, <4>2, DebtStep
      <4> QED BY <4>3 DEF SeenToBy, Owes, OwedIn
    <3> QED BY <1>1, <3>1, <3>2, QueuedRemembered, RunRemembered, CallRemembered, ExitRemembered DEF SeenToBy
  <2> QED BY <2>1, <2>2
<1> QED BY <1>1 DEF Remembered, Accepted

----------------------------------------------------------------------------
(* The invariance of it all, and what follows from it. *)

LEMMA InitInductive == ASSUME Init PROVE Inductive
<1>0. /\ \A j \in Job : row[j] = NoRow /\ fut[j] = "none" /\ exec[j] = "none"
      /\ \A c \in Threads : pc[c] = Idle
      /\ free = MaxPending /\ queue = <<>> /\ workers = 0 /\ loops = 0 /\ tracked = {} /\ debts = <<>>
      /\ debtSlots = {} /\ settling = "none" /\ phase = "serving"
      /\ MaxPending \in Nat /\ Exit \in Threads /\ \A c \in Caller : c \in Threads
  BY BoundsAssumption DEF Init, Threads
<1>1. NoRow \in Rows /\ NoRow.state = "absent" /\ NoRow.result = "none"
  BY DEF Rows, NoRow, Results
<1>2. BaseType
  BY <1>0, <1>1 DEF Init, BaseType, Futures, Runs, Phases
<1>3. Standing
  BY <1>0, IdleFields DEF Init, Standing, StandsOK, WithJob, Paying, Retiring
<1>4. PoolOK
  <2>1. Busy = {}
    BY <1>0 DEF Busy
  <2>2. IsFiniteSet(Busy) /\ Cardinality(Busy) = 0
    BY <2>1, FS_EmptySet
  <2> QED BY <1>0, <2>2 DEF PoolOK, QueueOK
<1>5. RowsOK
  BY <1>0, <1>1 DEF RowsOK, RowOK
<1>6. Hands
  BY <1>0, IdleFields DEF Hands, HandOK, At
<1>7. \A c \in Caller, j \in Job : ~Tracking(c, j) /\ ~CallingBack(c, j)
  BY <1>0, IdleFields DEF Tracking, CallingBack, At
<1>8. Callbacks
  BY <1>0, <1>7 DEF Callbacks
<1>9. DebtsOK
  BY <1>0, IdleFields DEF DebtsOK, Paying
<1>10. Ways
  BY <1>0, IdleFields DEF Ways, At, Paying
<1>11. Counted
  <2>1. \A j \in Job : ~HoldsSlot(j)
    BY <1>0, <1>7 DEF HoldsSlot, CallbackDue, CallingBack
  <2>2. Reserving = {} /\ {j \in Job : HoldsSlot(j)} = {}
    BY <1>0, <2>1, IdleFields DEF Reserving
  <2>3. IsFiniteSet({}) /\ Cardinality({}) = 0
    BY FS_EmptySet
  <2>4. /\ IsFiniteSet(Reserving) /\ IsFiniteSet({j \in Job : HoldsSlot(j)})
        /\ Cardinality(Reserving) = 0 /\ Cardinality({j \in Job : HoldsSlot(j)}) = 0
    BY <2>2, <2>3
  <2> QED BY <1>0, <2>4 DEF Counted, SlotsConserved
<1>12. UnpaidKeepsSlot /\ NoIdleQueue /\ Remembered /\ Reconciled
  BY <1>0, IdleFields DEF UnpaidKeepsSlot, NoIdleQueue, Remembered, Accepted, Reconciled, Retiring, At
<1> QED BY <1>2, <1>3, <1>4, <1>5, <1>6, <1>8, <1>9, <1>10, <1>11, <1>12 DEF Inductive

LEMMA NextInductive == ASSUME Inductive, [Next]_vars PROVE Inductive'
<1>1. /\ BaseType /\ Standing /\ PoolOK /\ RowsOK /\ Hands /\ Callbacks /\ DebtsOK /\ Ways
      /\ Counted /\ UnpaidKeepsSlot /\ NoIdleQueue /\ Remembered /\ Reconciled
  BY DEF Inductive
<1>2. BaseType' /\ Standing' /\ PoolOK' /\ NoIdleQueue'
  BY <1>1, TypeStep, StandingStep, PoolStep
<1>3. RowsOK' /\ Hands' /\ Callbacks' /\ DebtsOK' /\ Ways'
  BY <1>1, RowsKept, HandsKept, CallbacksKept, DebtsKept, WaysKept
<1>4. Counted' /\ UnpaidKeepsSlot' /\ Remembered' /\ Reconciled'
  BY <1>1, CountedKept, UnpaidKept, RememberedKept, ReconciledKept
<1> QED BY <1>2, <1>3, <1>4 DEF Inductive

LEMMA Invariance == Spec => []Inductive
<1>1. Init => Inductive
  BY InitInductive
<1>2. Inductive /\ [Next]_vars => Inductive'
  BY NextInductive
<1> QED BY <1>1, <1>2, PTL DEF Spec

(* Every variable keeps its type: in particular the queue is exactly the    *)
(* pending futures, each once, and a job is owed one write at a time        *)
(* (CancellableExecutor._pending, _debts).                                  *)
THEOREM Types == Spec => []TypeOK
<1>1. Inductive => TypeOK
  <2> SUFFICES ASSUME Inductive PROVE TypeOK
    OBVIOUS
  <2>1. BaseType /\ Standing /\ PoolOK /\ DebtsOK /\ Counted
    BY DEF Inductive
  <2>2. free \in 0 .. MaxPending
    <3>1. Cardinality(Reserving) \in Nat /\ Cardinality({j \in Job : HoldsSlot(j)}) \in Nat
      BY <2>1, FS_CardinalityType DEF Counted
    <3>2. free + Cardinality(Reserving) + Cardinality({j \in Job : HoldsSlot(j)}) = MaxPending /\ free \in Nat
      BY <2>1 DEF Counted, SlotsConserved, BaseType
    <3>3. \A h, r \in Nat : free + r + h = MaxPending => free \in 0 .. MaxPending
      BY <2>1, BoundsAssumption DEF BaseType
    <3> QED BY <3>1, <3>2, <3>3
  <2>3. {queue[i] : i \in DOMAIN queue} = {j \in Job : fut[j] = "pending"}
    BY <2>1 DEF PoolOK, QueueOK, BaseType
  <2>4. \A c \in Threads : pc[c].at \in Places /\ pc[c].job \in Job \cup {"none"}
    BY <2>1 DEF Standing, Pcs
  <2>5. \A i \in DOMAIN debts : debts[i] \in Debt
    BY <2>1 DEF BaseType
  <2> QED BY <2>1, <2>2, <2>3, <2>4, <2>5 DEF TypeOK, BaseType, PoolOK, QueueOK, DebtsOK, Futures, Runs, Phases
<1> QED BY <1>1, Invariance, PTL

(* Admission slots are neither lost nor made: every one is free, with one   *)
(* call that is admitting, or with one job that is queued, running, not     *)
(* called back yet, or unpaid (_admit_async, `finished`, _pay_owed),        *)
(* whatever the store refuses and however calls and workers interleave.     *)
THEOREM Slots == Spec => []SlotsConserved
<1>1. Inductive => SlotsConserved
  BY DEF Inductive, Counted
<1> QED BY <1>1, Invariance, PTL

(* A job that ran keeps its slot until the store has taken its result, and  *)
(* a slot set aside for a debt always has that debt to free it (`finished`, *)
(* _settle_debts).                                                          *)
THEOREM Unpaid == Spec => []UnpaidKeepsSlot
<1>1. Inductive => UnpaidKeepsSlot
  BY DEF Inductive
<1> QED BY <1>1, Invariance, PTL

(* A job this process accepted and that has no result is queued, with a     *)
(* worker, owed, or with the thread about to write it, until the exit gives *)
(* up on its debts (_owe, _retire_cancelled_jobs, _settle_at_exit).         *)
THEOREM Remembering == Spec => []NothingForgotten
<1>1. Inductive => NothingForgotten
  BY DEF Inductive, Remembered, NothingForgotten, SeenToBy, SeenTo
<1> QED BY <1>1, Invariance, PTL

(* A process that exits owing nothing has recorded a result for every job   *)
(* it accepted, so none of them is left to read `lost` (_settle_at_exit).   *)
THEOREM CleanExit == Spec => []ExitOwesNothing
<1>1. Inductive => ExitOwesNothing
  <2> SUFFICES ASSUME Inductive, phase = "exited", NEW j \in Job, Accepted(j), row[j].result = "none" PROVE FALSE
    BY DEF ExitOwesNothing
  <2>1. BaseType /\ PoolOK /\ Ways /\ NoIdleQueue /\ Remembered
    BY DEF Inductive
  <2>2. loops = 0 /\ debts = <<>> /\ ~At(Exit, "drain") /\ \A c \in Caller : At(c, "idle")
    BY <2>1 DEF Ways
  <2>3. exec[j] = "none"
    BY <2>1, <2>2, IdleWorkers
  <2>4. fut[j] # "pending"
    <3>1. queue = <<>>
      BY <2>1, <2>2 DEF NoIdleQueue
    <3> QED BY <2>1, <3>1 DEF PoolOK, QueueOK
  <2>5. SeenToBy(j)
    BY <2>1 DEF Remembered
  <2> QED BY <2>2, <2>3, <2>4, <2>5 DEF SeenToBy, Owes, At
<1> QED BY <1>1, Invariance, PTL

(* Queued work always has a worker loop to come for it: a loop leaves only  *)
(* when the queue is empty, and one that failed to start is not counted     *)
(* (CancellableExecutor.submit, _work).                                     *)
THEOREM Served == Spec => []NoIdleQueue
<1>1. Inductive => NoIdleQueue
  BY DEF Inductive
<1> QED BY <1>1, Invariance, PTL

(* Before a call is admitted, or refused for want of a slot, every queued   *)
(* job it found cancelled has left the executor (_retire_cancelled_jobs).   *)
THEOREM Retired == Spec => []ReconciledFirst
<1>1. Inductive => ReconciledFirst
  BY DEF Inductive, Reconciled, ReconciledFirst
<1> QED BY <1>1, Invariance, PTL
=============================================================================
