----------------------------- MODULE JobsProofs -----------------------------
(***************************************************************************)
(* The safety of Jobs.tla for any servers, any jobs and any number of      *)
(* children.  Typing is inductive by itself; every other invariant follows *)
(* from one inductive invariant, Inductive, whose parts are named below.   *)
(***************************************************************************)
EXTENDS Jobs, TLAPS

----------------------------------------------------------------------------
(* Typing.                                                                 *)

(* The idle op has its type because there is a job to choose. *)
LEMMA IdleType == Idle \in Ops
  BY JobAssumption, MaxChildrenAssumption DEF Idle, Ops

(* The columns of a row, and what each transition writes of them. *)
LEMMA RowColumns ==
  ASSUME NEW r \in Rows
  PROVE  /\ r.state \in {"absent"} \cup ActiveStates \cup TerminalStates
         /\ r.owner \in Server \cup {Nobody}
         /\ r.child \in Nat /\ r.keyed \in BOOLEAN /\ r.started \in BOOLEAN
         /\ r.result \in Results
  BY DEF Rows

LEMMA NoRowColumns ==
  NoRow \in Rows /\ NoRow.state = "absent" /\ NoRow.child = 0 /\ NoRow.result = "none"
    /\ ~NoRow.started
  BY DEF NoRow, Rows, Results

LEMMA CreatedColumns ==
  ASSUME NEW s \in Server
  PROVE  LET t == Created(s)
         IN /\ t \in Rows
            /\ t.state = "queued" /\ t.owner = s /\ t.child = 0 /\ t.result = "none"
            /\ ~t.started
  BY DEF Created, NoRow, Rows, ActiveStates, Results

LEMMA MarkedColumns ==
  ASSUME NEW r \in Rows
  PROVE  LET t == MarkedRunning(r)
         IN /\ t \in Rows
            /\ t.state = "running" /\ t.owner = r.owner /\ t.child = r.child
            /\ t.result = r.result /\ t.started
  BY DEF MarkedRunning, Rows, ActiveStates

LEMMA ChildSetColumns ==
  ASSUME NEW r \in Rows, NEW c \in Nat, NEW k \in BOOLEAN
  PROVE  LET t == ChildSet(r, c, k)
         IN /\ t \in Rows
            /\ t.state = r.state /\ t.owner = r.owner /\ t.child = c
            /\ t.result = r.result /\ t.started = r.started
  BY DEF ChildSet, Rows

LEMMA FinishedColumns ==
  ASSUME NEW r \in Rows, NEW ok \in BOOLEAN
  PROVE  LET t == Finished(r, ok)
         IN /\ t \in Rows
            /\ t.state \in {"cancelled", "completed", "failed"}
            /\ t.state = "cancelled" <=> r.state = "cancelled"
            /\ t.owner = r.owner /\ t.child = 0
            /\ t.result # "none" /\ t.started = r.started
  BY DEF Finished, Rows, TerminalStates, Results

LEMMA CancelledColumns ==
  ASSUME NEW r \in Rows
  PROVE  LET t == Cancelled(r)
         IN /\ t \in Rows
            /\ t.state = "cancelled" /\ t.owner = r.owner /\ t.child = r.child
            /\ t.result = r.result /\ t.started = r.started
  BY DEF Cancelled, Rows, TerminalStates

LEMMA LostColumns ==
  ASSUME NEW r \in Rows
  PROVE  LET t == Lost(r)
         IN /\ t \in Rows
            /\ t.state = "lost" /\ t.owner = r.owner /\ t.child = r.child
            /\ t.result = r.result /\ t.started = r.started
  BY DEF Lost, Rows, TerminalStates

(* One row replaced by another that has an owner. *)
LEMMA RowReplaced ==
  ASSUME RowsOK, NEW j \in Job, NEW t \in Rows, t.child <= MaxChildren, t.owner \in Server,
         row' = [row EXCEPT ![j] = t]
  PROVE  RowsOK'
  BY DEF RowsOK

LEMMA RowSame == RowsOK /\ row' = row => RowsOK'
  BY DEF RowsOK

LEMMA InitType == Init => TypeOK
  <1> SUFFICES ASSUME Init PROVE TypeOK
    OBVIOUS
  <1>1. RowsOK
    BY NoRowColumns, MaxChildrenAssumption DEF Init, RowsOK
  <1>2. notices \in [Job -> Seq(TerminalStates)] /\ alive \in [Job -> SUBSET Children]
        /\ excused \in [Job -> SUBSET (0 .. MaxChildren)]
    BY DEF Init
  <1>3. cur \in [Job -> 0 .. MaxChildren]
    BY MaxChildrenAssumption DEF Init
  <1> QED
    BY <1>1, <1>2, <1>3, IdleType DEF Init, TypeOK, WorkStates, Results

LEMMA NextType == TypeOK /\ [Next]_vars => TypeOK'
  <1> SUFFICES ASSUME TypeOK, [Next]_vars PROVE TypeOK'
    OBVIOUS
  <1> USE DEF TypeOK
  <1>0. ASSUME NEW j \in Job
        PROVE  /\ row[j] \in Rows /\ row[j].child \in 0 .. MaxChildren
               /\ row[j].owner \in Server \/ row[j].state = "absent"
    BY RowColumns DEF RowsOK
  <1>1. ASSUME NEW s \in Server, NEW j \in Job, Admit(s, j) PROVE TypeOK'
    <2> DEFINE t == Created(s)
    <2>1. t \in Rows /\ t.child <= MaxChildren /\ t.owner \in Server
      BY CreatedColumns, MaxChildrenAssumption
    <2>2. row' = [row EXCEPT ![j] = t]
      BY <1>1 DEF Admit
    <2> HIDE DEF t
    <2>3. RowsOK'
      BY <2>1, <2>2, RowReplaced
    <2> QED BY <1>1, <2>3 DEF Admit, WorkStates, Results
  <1>2. ASSUME NEW j \in Job, StartRun(j) PROVE TypeOK'
    <2>1. RowsOK'
      <3>1. CASE row' = row
        BY <3>1, RowSame
      <3>2. CASE CanMarkRunning(row[j], row[j].owner)
                 /\ row' = [row EXCEPT ![j] = MarkedRunning(row[j])]
        <4> DEFINE t == MarkedRunning(row[j])
        <4>1. t \in Rows /\ t.child <= MaxChildren /\ t.owner \in Server
          <5>1. row[j] \in Rows /\ row[j].child <= MaxChildren /\ row[j].owner \in Server
            BY <1>0, <3>2 DEF CanMarkRunning, RowsOK
          <5>2. t \in Rows /\ t.child = row[j].child /\ t.owner = row[j].owner
            BY <5>1, MarkedColumns
          <5> HIDE DEF t
          <5> QED BY <5>1, <5>2
        <4>2. row' = [row EXCEPT ![j] = t]
          BY <3>2
        <4> HIDE DEF t
        <4> QED BY <4>1, <4>2, RowReplaced
      <3> QED BY <1>2, <3>1, <3>2 DEF StartRun
    <2> QED BY <1>2, <2>1 DEF StartRun, WorkStates, Results
  <1>3. ASSUME NEW j \in Job, Reclaim(j) PROVE TypeOK'
    <2>1. RowsOK'
      <3>1. CASE row' = row
        BY <3>1, RowSame
      <3>2. CASE CanMarkRunning(row[j], row[j].owner)
                 /\ row' = [row EXCEPT ![j] = MarkedRunning(row[j])]
        <4> DEFINE t == MarkedRunning(row[j])
        <4>1. t \in Rows /\ t.child <= MaxChildren /\ t.owner \in Server
          <5>1. row[j] \in Rows /\ row[j].child <= MaxChildren /\ row[j].owner \in Server
            BY <1>0, <3>2 DEF CanMarkRunning, RowsOK
          <5>2. t \in Rows /\ t.child = row[j].child /\ t.owner = row[j].owner
            BY <5>1, MarkedColumns
          <5> HIDE DEF t
          <5> QED BY <5>1, <5>2
        <4>2. row' = [row EXCEPT ![j] = t]
          BY <3>2
        <4> HIDE DEF t
        <4> QED BY <4>1, <4>2, RowReplaced
      <3>3. row' = row \/ /\ CanMarkRunning(row[j], row[j].owner)
                          /\ row' = [row EXCEPT ![j] = MarkedRunning(row[j])]
        BY <1>3 DEF Reclaim, RowsOK
      <3> QED BY <3>1, <3>2, <3>3
    <2> QED BY <1>3, <2>1 DEF Reclaim, WorkStates
  <1>4. ASSUME NEW j \in Job, Spawn(j) PROVE TypeOK'
    <2>1. cur[j] + 1 \in 0 .. MaxChildren /\ cur[j] + 1 \in Children
      BY <1>4, MaxChildrenAssumption DEF Spawn, Children
    <2> QED BY <1>4, <2>1, RowSame DEF Spawn, WorkStates
  <1>5. ASSUME NEW j \in Job, RecordChild(j) PROVE TypeOK'
    <2>1. cur[j] \in 0 .. MaxChildren /\ cur[j] \in Nat /\ cur[j] <= MaxChildren
      BY MaxChildrenAssumption
    <2>2. RowsOK'
      <3>1. CASE row' = row
        BY <3>1, RowSame
      <3>2. ASSUME CanSetChild(row[j], row[j].owner), NEW k \in BOOLEAN,
                   row' = [row EXCEPT ![j] = ChildSet(row[j], cur[j], k)]
            PROVE  RowsOK'
        <4> DEFINE t == ChildSet(row[j], cur[j], k)
        <4>1. t \in Rows /\ t.child <= MaxChildren /\ t.owner \in Server
          <5>1. row[j] \in Rows /\ row[j].owner \in Server
            BY <1>0, <3>2 DEF CanSetChild
          <5>2. t \in Rows /\ t.child = cur[j] /\ t.owner = row[j].owner
            BY <2>1, <3>2, <5>1, ChildSetColumns
          <5> HIDE DEF t
          <5> QED BY <2>1, <5>1, <5>2
        <4>2. row' = [row EXCEPT ![j] = t]
          BY <3>2
        <4> HIDE DEF t
        <4> QED BY <4>1, <4>2, RowReplaced
      <3> QED BY <1>5, <3>1, <3>2 DEF RecordChild
    <2>3. excused' \in [Job -> SUBSET (0 .. MaxChildren)]
      BY <1>5, <2>1 DEF RecordChild
    <2>4. work' \in [Job -> WorkStates]
      BY <1>5 DEF RecordChild, WorkStates
    <2> QED BY <1>5, <2>2, <2>3, <2>4 DEF RecordChild
  <1>6. ASSUME NEW j \in Job, KillOwn(j)
        PROVE  /\ alive' \in [Job -> SUBSET Children]
               /\ excused' \in [Job -> SUBSET (0 .. MaxChildren)]
    <2>1. cur[j] \in 0 .. MaxChildren
      OBVIOUS
    <2> QED BY <1>6, <2>1 DEF KillOwn
  <1>7. ASSUME NEW j \in Job, KillRefused(j) PROVE TypeOK'
    BY <1>6, <1>7, RowSame DEF KillRefused, WorkStates
  <1>8. ASSUME NEW j \in Job, Collect(j) PROVE TypeOK'
    BY <1>8, RowSame DEF Collect, WorkStates
  <1>9. ASSUME NEW j \in Job, TimeOut(j) PROVE TypeOK'
    BY <1>6, <1>9, RowSame DEF TimeOut, WorkStates
  <1>10. ASSUME NEW j \in Job, Return(j) PROVE TypeOK'
    BY <1>10, RowSame DEF Return, WorkStates, Results
  <1>11. ASSUME NEW j \in Job, WriteResult(j) PROVE TypeOK'
    <2>1. CASE CanFinish(row[j], row[j].owner)
      <3> DEFINE t == Finished(row[j], out[j] = "ok")
      <3>1. row[j].owner \in Server
        BY <1>0, <2>1 DEF CanFinish
      <3>2. row' = [row EXCEPT ![j] = t] /\ row'[j] = t
        BY <1>11, <2>1 DEF WriteResult, RowsOK
      <3>3. /\ t \in Rows /\ t.child = 0 /\ t.owner = row[j].owner
            /\ t.state \in TerminalStates
        BY <1>0, FinishedColumns DEF TerminalStates
      <3>4. notices' = [notices EXCEPT ![j] = Append(@, t.state)]
        BY <1>11, <2>1, <3>2 DEF WriteResult
      <3> HIDE DEF t
      <3>5. notices' \in [Job -> Seq(TerminalStates)]
        BY <3>3, <3>4
      <3>6. RowsOK'
        <4>1. t.child <= MaxChildren /\ t.owner \in Server
          BY <3>1, <3>3, MaxChildrenAssumption
        <4> QED BY <3>2, <3>3, <4>1, RowReplaced
      <3>7. work' \in [Job -> WorkStates]
        BY <1>11, <2>1 DEF WriteResult, WorkStates
      <3> QED BY <1>11, <3>5, <3>6, <3>7 DEF WriteResult
    <2>2. CASE ~CanFinish(row[j], row[j].owner)
      BY <1>11, <2>2, RowSame DEF WriteResult, WorkStates
    <2> QED BY <2>1, <2>2
  <1>12. ASSUME NEW s \in Server, NEW j \in Job, NEW kind \in {"get", "sweep", "cancel"},
                Ask(s, kind, j)
         PROVE  TypeOK'
    <2>1. ActiveOwners \subseteq Server /\ row[j].owner \in Server
      BY <1>0, <1>12 DEF Ask, ActiveOwners, ActiveStates
    <2>2. [kind |-> kind, at |-> "probe", job |-> j, child |-> 0, keyed |-> FALSE,
           who |-> IF kind = "sweep" THEN ActiveOwners ELSE {row[j].owner}] \in Ops
      BY <2>1, MaxChildrenAssumption DEF Ops
    <2> QED BY <1>12, <2>2, RowSame DEF Ask
  <1>13. ASSUME NEW s \in Server PROVE op[s] \in Ops /\ op[s].job \in Job
                                       /\ op[s].child \in 0 .. MaxChildren
                                       /\ op[s].who \subseteq Server
    BY DEF Ops
  <1>14. ASSUME NEW s \in Server, Probe(s) PROVE TypeOK'
    <2>1. ASSUME NEW dead \in SUBSET ProvedDead(op[s].who)
          PROVE  /\ [op[s] EXCEPT !.at = "lose", !.who = dead] \in Ops
                 /\ [op[s] EXCEPT !.at = "claim", !.who = {}] \in Ops
      <3>1. dead \subseteq Server
        BY <1>13 DEF ProvedDead
      <3> QED BY <1>13, <3>1 DEF Ops
    <2>2. op' \in [Server -> Ops]
      BY <1>14, <2>1, IdleType DEF Probe
    <2> QED BY <1>14, <2>2, RowSame DEF Probe
  <1>15. ASSUME NEW s \in Server, Lose(s) PROVE TypeOK'
    <2>1. ASSUME NEW j \in Job
          PROVE  row'[j] = row[j] \/ (row'[j] = Lost(row[j]) /\ row[j].state \in ActiveStates)
      BY <1>15 DEF Lose, Matched, CanLose
    <2>2. RowsOK'
      <3>1. row' = [j \in Job |-> row'[j]]
        BY <1>15 DEF Lose
      <3>2. ASSUME NEW j \in Job
            PROVE  /\ row'[j] \in Rows /\ row'[j].child <= MaxChildren
                   /\ row'[j].state # "absent" => row'[j].owner \in Server
        <4>1. CASE row'[j] = row[j]
          BY <4>1 DEF RowsOK
        <4>2. CASE row'[j] = Lost(row[j]) /\ row[j].state \in ActiveStates
          <5>1. row[j].owner \in Server /\ row[j].child <= MaxChildren
            BY <4>2 DEF ActiveStates, RowsOK
          <5>2. Lost(row[j]) \in Rows /\ Lost(row[j]).owner = row[j].owner
                /\ Lost(row[j]).child = row[j].child
            BY <1>0, LostColumns
          <5> QED BY <4>2, <5>1, <5>2
        <4> QED BY <2>1, <4>1, <4>2
      <3> QED BY <3>1, <3>2 DEF RowsOK
    <2> QED BY <1>15, <2>2, IdleType DEF Lose
  <1>16. ASSUME NEW s \in Server, Claim(s) PROVE TypeOK'
    <2> DEFINE j == op[s].job
    <2>1. j \in Job
      BY <1>13
    <2>2. CASE CanCancel(row[j])
      <3>1. row' = [row EXCEPT ![j] = Cancelled(row[j])]
        BY <1>16, <2>2 DEF Claim
      <3>2. RowsOK'
        BY <1>0, <2>1, <2>2, <3>1, CancelledColumns, RowReplaced DEF CanCancel, ActiveStates, RowsOK
      <3>3. row[j].child \in 0 .. MaxChildren /\ row[j].keyed \in BOOLEAN
        BY <1>0, <2>1, RowColumns
      <3>4. [op[s] EXCEPT !.at = "kill", !.child = row[j].child, !.keyed = row[j].keyed] \in Ops
        BY <1>13, <3>3 DEF Ops
      <3>5. op' \in [Server -> Ops]
        BY <1>16, <2>2, <3>4, IdleType DEF Claim
      <3>6. excused' \in [Job -> SUBSET (0 .. MaxChildren)]
        BY <1>16, <2>1, <2>2, <3>3 DEF Claim
      <3>7. told' \in [Job -> {"nothing", "clean", "warned"}]
        BY <1>16, <2>1, <2>2 DEF Claim
      <3> QED BY <1>16, <3>2, <3>5, <3>6, <3>7 DEF Claim
    <2>3. CASE ~CanCancel(row[j])
      BY <1>16, <2>3, RowSame, IdleType DEF Claim
    <2> QED BY <2>2, <2>3
  <1>17. ASSUME NEW s \in Server, KillChild(s) PROVE TypeOK'
    <2> DEFINE j == op[s].job
               c == op[s].child
    <2>a. j \in Job /\ c \in 0 .. MaxChildren
      BY <1>13
    <2>b. alive' = alive \/ alive' = [alive EXCEPT ![j] = @ \ {c}]
      BY <1>17 DEF KillChild
    <2>c. excused' = excused \/ excused' = [excused EXCEPT ![j] = @ \cup {c}]
      BY <1>17 DEF KillChild
    <2> HIDE DEF j, c
    <2>1. alive' \in [Job -> SUBSET Children]
      BY <2>a, <2>b
    <2>5. excused' \in [Job -> SUBSET (0 .. MaxChildren)]
      <3>1. CASE excused' = excused
        BY <3>1
      <3>2. CASE excused' = [excused EXCEPT ![j] = @ \cup {c}]
        <4>1. excused[j] \cup {c} \in SUBSET (0 .. MaxChildren)
          BY <2>a
        <4> QED BY <2>a, <3>2, <4>1
      <3> QED BY <2>c, <3>1, <3>2
    <2>2. told' \in [Job -> {"nothing", "clean", "warned"}]
      BY <1>13, <1>17 DEF KillChild
    <2>3. op' \in [Server -> Ops]
      BY <1>17, IdleType DEF KillChild
    <2> QED BY <1>17, <2>1, <2>2, <2>3, <2>5, RowSame DEF KillChild
  <1>18. ASSUME NEW s \in Server, GiveUp(s) PROVE TypeOK'
    BY <1>18, IdleType, RowSame DEF GiveUp
  <1>19. ASSUME NEW j \in Job, ChildExits(j) PROVE TypeOK'
    BY <1>19, RowSame DEF ChildExits
  <1>20. ASSUME NEW s \in Server, Die(s) PROVE TypeOK'
    <2>1. excused' \in [Job -> SUBSET (0 .. MaxChildren)]
      BY <1>13, <1>20 DEF Die
    <2>2. op' \in [Server -> Ops] /\ up' \in [Server -> BOOLEAN] /\ work' \in [Job -> WorkStates]
      BY <1>20, IdleType DEF Die, WorkStates
    <2> QED BY <1>20, <2>1, <2>2, RowSame DEF Die
  <1>21. CASE UNCHANGED vars
    BY <1>21, RowSame DEF vars
  <1> QED BY <1>1, <1>2, <1>3, <1>4, <1>5, <1>7, <1>8, <1>9, <1>10, <1>11, <1>12, <1>14,
             <1>15, <1>16, <1>17, <1>18, <1>19, <1>20, <1>21
          DEF Next, Worker

(* Every variable keeps to its domain. *)
THEOREM Typing == Spec => []TypeOK
  BY InitType, NextType, PTL DEF Spec

----------------------------------------------------------------------------
(* The inductive invariant.                                                *)

(* A job that was never admitted has no child and no report. *)
Fresh ==
  \A j \in Job : row[j].state = "absent" =>
    alive[j] = {} /\ cur[j] = 0 /\ told[j] = "nothing" /\ work[j] = "none"

(* A worker, or the write it owes, lives in its job's own live server. *)
OwnerServes ==
  \A j \in Job : work[j] # "none" => row[j].owner \in Server /\ up[row[j].owner]

(* No row short of an outcome has a result yet, nor has a lost one. *)
Unresolved ==
  \A j \in Job : row[j].state \in {"absent", "queued", "running", "lost"} => row[j].result = "none"

(* Whom a call is about to write off stays dead. *)
ProvedStaysDead == \A s \in Server : op[s].at = "lose" => \A o \in op[s].who : ~up[o]

(* Only a run that won its claim spawns. *)
RunsClaimed ==
  \A j \in Job : work[j] \in {"between", "claiming", "refused", "waiting"} => row[j].started

(* A report is of the one cancel that won. *)
ReportOfWinner == \A j \in Job : told[j] # "nothing" => row[j].state = "cancelled"

(* Only the last child spawned can still be within reach. *)
OneInReach ==
  \A j \in Job : \A c \in alive[j] \ excused[j] :
    c = cur[j] /\ c # 0 /\ work[j] \in {"claiming", "refused", "waiting", "none"}

(* And while a cancel may come, or has, it is the one on record, unless the *)
(* worker or the cancel has it in hand.                                     *)
InReach ==
  \A j \in Job : row[j].state \in ActiveStates \cup {"cancelled"} =>
    \A c \in alive[j] \ excused[j] :
      \/ work[j] \in {"claiming", "refused"}
      \/ row[j].state \in ActiveStates /\ c = row[j].child
      \/ \E s \in Server : Signalling(s, j, c)

Inductive ==
  /\ TypeOK
  /\ Fresh /\ OwnerServes /\ Unresolved /\ NoticeMatchesRow
  /\ ProvedStaysDead /\ LostMeansDead
  /\ RunsClaimed /\ NoChildUnlessClaimed
  /\ ReportOfWinner /\ OneCanceller
  /\ OneInReach /\ InReach

----------------------------------------------------------------------------
(* Results and notices.                                                    *)

(* A row that changes short of its result keeps both parts. *)
LEMMA NoticeKept ==
  ASSUME Unresolved, NoticeMatchesRow, row \in [Job -> Rows], NEW j \in Job, NEW t,
         row' = [row EXCEPT ![j] = t], notices' = notices,
         row[j].result = "none", t.result = "none"
  PROVE  Unresolved' /\ NoticeMatchesRow'
  BY DEF Unresolved, NoticeMatchesRow

LEMMA NoticeSame ==
  Unresolved /\ NoticeMatchesRow /\ UNCHANGED <<row, notices>> => Unresolved' /\ NoticeMatchesRow'
  BY DEF Unresolved, NoticeMatchesRow

LEMMA NoticeStep ==
  ASSUME TypeOK, Unresolved, NoticeMatchesRow, [Next]_vars
  PROVE  Unresolved' /\ NoticeMatchesRow'
  <1>0. /\ row \in [Job -> Rows] /\ notices \in [Job -> Seq(TerminalStates)]
        /\ \A s \in Server : op[s].job \in Job
    BY DEF TypeOK, RowsOK, Ops
  <1>1. ASSUME NEW s \in Server, NEW j \in Job, Admit(s, j)
        PROVE  Unresolved' /\ NoticeMatchesRow'
    <2>1. row[j].result = "none" /\ Created(s).result = "none"
      BY <1>1, CreatedColumns DEF Admit, Unresolved
    <2> QED BY <1>0, <1>1, <2>1, NoticeKept DEF Admit
  <1>2. ASSUME NEW j \in Job, CanMarkRunning(row[j], row[j].owner), notices' = notices,
               row' = [row EXCEPT ![j] = MarkedRunning(row[j])]
        PROVE  Unresolved' /\ NoticeMatchesRow'
    <2>1. row[j].result = "none" /\ row[j] \in Rows
      BY <1>0, <1>2 DEF CanMarkRunning, Unresolved
    <2>2. MarkedRunning(row[j]).result = "none"
      BY <2>1, MarkedColumns
    <2> QED BY <1>0, <1>2, <2>1, <2>2, NoticeKept
  <1>3. ASSUME NEW j \in Job, StartRun(j) PROVE Unresolved' /\ NoticeMatchesRow'
    BY <1>2, <1>3, NoticeSame DEF StartRun
  <1>4. ASSUME NEW j \in Job, Reclaim(j) PROVE Unresolved' /\ NoticeMatchesRow'
    <2>1. row' = row \/ /\ CanMarkRunning(row[j], row[j].owner)
                        /\ row' = [row EXCEPT ![j] = MarkedRunning(row[j])]
      BY <1>0, <1>4 DEF Reclaim
    <2> QED BY <1>2, <1>4, <2>1, NoticeSame DEF Reclaim
  <1>5. ASSUME NEW j \in Job, RecordChild(j) PROVE Unresolved' /\ NoticeMatchesRow'
    <2>1. ASSUME CanSetChild(row[j], row[j].owner), NEW k \in BOOLEAN,
                 row' = [row EXCEPT ![j] = ChildSet(row[j], cur[j], k)]
          PROVE  Unresolved' /\ NoticeMatchesRow'
      <3>1. row[j].result = "none" /\ row[j] \in Rows /\ cur[j] \in Nat
        BY <1>0, <2>1, MaxChildrenAssumption DEF CanSetChild, Unresolved, TypeOK
      <3>2. ChildSet(row[j], cur[j], k).result = "none"
        BY <3>1, ChildSetColumns
      <3> QED BY <1>0, <1>5, <2>1, <3>1, <3>2, NoticeKept DEF RecordChild
    <2> QED BY <1>5, <2>1, NoticeSame DEF RecordChild
  <1>6. ASSUME NEW j \in Job, WriteResult(j) PROVE Unresolved' /\ NoticeMatchesRow'
    <2>1. CASE CanFinish(row[j], row[j].owner)
      <3> DEFINE t == Finished(row[j], out[j] = "ok")
      <3>1. row' = [row EXCEPT ![j] = t] /\ row'[j] = t
        BY <1>0, <1>6, <2>1 DEF WriteResult
      <3>2. notices' = [notices EXCEPT ![j] = Append(@, t.state)]
        BY <1>6, <2>1, <3>1 DEF WriteResult
      <3>3. t.result # "none" /\ t.state \in {"cancelled", "completed", "failed"}
        BY <1>0, FinishedColumns
      <3>4. row[j].result = "none"
        BY <2>1 DEF CanFinish, Unresolved
      <3>5. notices[j] = <<>>
        BY <3>4 DEF NoticeMatchesRow
      <3> HIDE DEF t
      <3>6. notices'[j] = <<t.state>>
        BY <1>0, <3>2, <3>5
      <3>7. \A i \in Job \ {j} : row'[i] = row[i] /\ notices'[i] = notices[i]
        BY <1>0, <3>1, <3>2
      <3> QED BY <3>1, <3>3, <3>6, <3>7 DEF Unresolved, NoticeMatchesRow
    <2>2. CASE ~CanFinish(row[j], row[j].owner)
      BY <1>6, <2>2, NoticeSame DEF WriteResult
    <2> QED BY <2>1, <2>2
  <1>7. ASSUME NEW s \in Server, Lose(s) PROVE Unresolved' /\ NoticeMatchesRow'
    <2>1. ASSUME NEW j \in Job
          PROVE  \/ row'[j] = row[j]
                 \/ row[j].state \in ActiveStates /\ row'[j] = Lost(row[j])
      BY <1>7 DEF Lose, Matched, CanLose
    <2>2. ASSUME NEW j \in Job, row[j].state \in ActiveStates, row'[j] = Lost(row[j])
          PROVE  row'[j].result = "none" /\ row[j].result = "none"
      BY <1>0, <2>2, LostColumns DEF ActiveStates, Unresolved
    <2> QED BY <1>7, <2>1, <2>2 DEF Lose, Unresolved, NoticeMatchesRow
  <1>8. ASSUME NEW s \in Server, Claim(s) PROVE Unresolved' /\ NoticeMatchesRow'
    <2> DEFINE j == op[s].job
    <2>1. CASE CanCancel(row[j])
      <3>1. j \in Job /\ row[j] \in Rows
        BY <1>0
      <3>2. row[j].result = "none"
        BY <2>1, <3>1 DEF CanCancel, ActiveStates, Unresolved
      <3>3. Cancelled(row[j]).result = "none"
        BY <3>1, <3>2, CancelledColumns
      <3> QED BY <1>0, <1>8, <2>1, <3>1, <3>2, <3>3, NoticeKept DEF Claim
    <2>2. CASE ~CanCancel(row[j])
      BY <1>8, <2>2, NoticeSame DEF Claim
    <2> QED BY <2>1, <2>2
  <1>9. CASE UNCHANGED <<row, notices>>
    BY <1>9, NoticeSame
  <1> QED BY <1>1, <1>3, <1>4, <1>5, <1>6, <1>7, <1>8, <1>9
          DEF Next, Worker, vars, Spawn, KillRefused, Collect, TimeOut, Return, Ask, Probe,
              KillChild, GiveUp, ChildExits, Die

----------------------------------------------------------------------------
(* Rows keep their owner, and once they exist they stay.                   *)

LEMMA RowStep ==
  ASSUME TypeOK, [Next]_vars, NEW j \in Job
  PROVE  \/ /\ row[j].state = "absent"
            /\ \E s \in Server : Admit(s, j) /\ row'[j] = Created(s)
         \/ /\ row'[j].owner = row[j].owner
            /\ row'[j].state = "absent" <=> row[j].state = "absent"
            /\ row[j].started => row'[j].started
            /\ row[j].state = "cancelled" => row'[j].state = "cancelled"
            /\ row'[j].state = "lost" =>
                 row[j].state = "lost" \/ \E s \in Server : Lose(s) /\ row[j].owner \in op[s].who
  <1> DEFINE Goal(i) ==
        /\ row'[i].owner = row[i].owner
        /\ row'[i].state = "absent" <=> row[i].state = "absent"
        /\ row[i].started => row'[i].started
        /\ row[i].state = "cancelled" => row'[i].state = "cancelled"
        /\ row'[i].state = "lost" =>
             row[i].state = "lost" \/ \E s \in Server : Lose(s) /\ row[i].owner \in op[s].who
  <1>0. /\ row \in [Job -> Rows] /\ cur \in [Job -> Nat]
        /\ \A s \in Server : op[s].job \in Job
    BY MaxChildrenAssumption DEF TypeOK, RowsOK, Ops
  <1>1. ASSUME row'[j] = row[j] PROVE Goal(j)
    BY <1>1
  <1>2. ASSUME CanMarkRunning(row[j], row[j].owner), row'[j] = MarkedRunning(row[j])
        PROVE  Goal(j)
    BY <1>0, <1>2, MarkedColumns DEF CanMarkRunning
  <1>3. ASSUME CanSetChild(row[j], row[j].owner), NEW k \in BOOLEAN,
               row'[j] = ChildSet(row[j], cur[j], k)
        PROVE  Goal(j)
    BY <1>0, <1>3, ChildSetColumns DEF CanSetChild
  <1>4. ASSUME CanFinish(row[j], row[j].owner), row'[j] = Finished(row[j], out[j] = "ok")
        PROVE  Goal(j)
    <2>1. row[j].state # "absent"
      BY <1>4 DEF CanFinish
    <2> DEFINE t == Finished(row[j], out[j] = "ok")
    <2>2. /\ t.state \in {"cancelled", "completed", "failed"}
          /\ t.state = "cancelled" <=> row[j].state = "cancelled"
          /\ t.owner = row[j].owner /\ t.started = row[j].started
      BY <1>0, FinishedColumns
    <2>3. row'[j] = t
      BY <1>4
    <2> HIDE DEF t
    <2> QED BY <2>1, <2>2, <2>3
  <1>5. ASSUME CanCancel(row[j]), row'[j] = Cancelled(row[j]) PROVE Goal(j)
    BY <1>0, <1>5, CancelledColumns DEF CanCancel, ActiveStates
  <1>6. ASSUME NEW s \in Server, Lose(s), CanLose(row[j], op[s].who), row'[j] = Lost(row[j])
        PROVE  Goal(j)
    BY <1>0, <1>6, LostColumns DEF CanLose, ActiveStates
  <1> DEFINE New(i) == /\ row[i].state = "absent"
                       /\ \E s \in Server : Admit(s, i) /\ row'[i] = Created(s)
  <1> HIDE DEF Goal
  <1>7. ASSUME NEW s \in Server, NEW i \in Job, Admit(s, i)
        PROVE  Goal(j) \/ New(j)
    <2>1. row' = [row EXCEPT ![i] = Created(s)] /\ row[i].state = "absent"
      BY <1>7 DEF Admit
    <2>2. CASE i = j
      BY <1>0, <1>7, <2>1, <2>2
    <2>3. CASE i # j
      BY <1>0, <1>1, <2>1, <2>3
    <2> QED BY <2>2, <2>3
  <1> HIDE DEF New
  <1>8. ASSUME NEW i \in Job, Worker(i) PROVE Goal(j)
    <2>1. CASE StartRun(i)
      BY <1>0, <1>1, <1>2, <2>1 DEF StartRun
    <2>2. CASE Reclaim(i)
      BY <1>0, <1>1, <1>2, <2>2 DEF Reclaim
    <2>3. CASE RecordChild(i)
      BY <1>0, <1>1, <1>3, <2>3 DEF RecordChild
    <2>4. CASE WriteResult(i)
      BY <1>0, <1>1, <1>4, <2>4 DEF WriteResult
    <2>5. CASE row' = row
      BY <1>1, <2>5
    <2> QED BY <1>8, <2>1, <2>2, <2>3, <2>4, <2>5
            DEF Worker, Spawn, KillRefused, Collect, TimeOut, Return
  <1>9. ASSUME NEW s \in Server, Lose(s) PROVE Goal(j)
    BY <1>1, <1>6, <1>9 DEF Lose, Matched, CanLose
  <1>10. ASSUME NEW s \in Server, Claim(s) PROVE Goal(j)
    BY <1>0, <1>1, <1>5, <1>10 DEF Claim
  <1>11. ASSUME row' = row PROVE Goal(j)
    BY <1>1, <1>11
  <1>12. Goal(j) \/ New(j)
    <2>1. CASE \E s \in Server, i \in Job : Admit(s, i)
      BY <1>7, <2>1
    <2>2. CASE \E i \in Job : Worker(i)
      BY <1>8, <2>2
    <2>3. CASE \E s \in Server : Lose(s) \/ Claim(s)
      BY <1>9, <1>10, <2>3
    <2>4. CASE row' = row
      BY <1>11, <2>4
    <2> QED BY <2>1, <2>2, <2>3, <2>4
            DEF Next, vars, Ask, Probe, KillChild, GiveUp, ChildExits, Die
  <1> QED BY <1>12 DEF Goal, New

----------------------------------------------------------------------------
(* Deaths: who serves a job, and of whom `lost` is said.                   *)

LEMMA OwnerStep ==
  ASSUME TypeOK, OwnerServes, ProvedStaysDead, LostMeansDead, [Next]_vars
  PROVE  OwnerServes' /\ ProvedStaysDead' /\ LostMeansDead'
  <1>0. /\ up \in [Server -> BOOLEAN] /\ op \in [Server -> Ops] /\ work \in [Job -> WorkStates]
        /\ row \in [Job -> Rows]
    BY DEF TypeOK, RowsOK
  <1>1. \A s \in Server : up'[s] => up[s]
    BY <1>0 DEF Next, Worker, vars, Admit, StartRun, Reclaim, Spawn, RecordChild, KillRefused,
            Collect, TimeOut, Return, WriteResult, Ask, Probe, Lose, Claim, KillChild, GiveUp,
            ChildExits, Die
  <1>2. ASSUME NEW j \in Job, work'[j] # "none"
        PROVE  row'[j].owner \in Server /\ up'[row'[j].owner]
    <2>1. CASE \E s \in Server : Admit(s, j) /\ row'[j] = Created(s)
      BY <2>1, CreatedColumns DEF Admit
    <2>2. CASE row'[j].owner = row[j].owner
      <3>1. ASSUME NEW s \in Server, NEW i \in Job, Admit(s, i)
            PROVE  i = j \/ (work'[j] = work[j] /\ UNCHANGED up)
        BY <1>0, <3>1 DEF Admit
      <3>2. ASSUME NEW s \in Server, Admit(s, j)
            PROVE  row'[j].owner \in Server /\ up'[row'[j].owner]
        BY <1>0, <3>2, CreatedColumns DEF Admit
      <3>3. ASSUME NEW i \in Job, Worker(i)
            PROVE  UNCHANGED up /\ work[j] # "none"
        BY <1>0, <1>2, <3>3 DEF Worker, AtWork, StartRun, Reclaim, Spawn, RecordChild, KillRefused,
               Collect, TimeOut, Return, WriteResult
      <3>4. ASSUME NEW s \in Server, Die(s)
            PROVE  work[j] # "none" /\ row[j].owner # s /\ up' = [up EXCEPT ![s] = FALSE]
        BY <1>2, <3>4 DEF Die
      <3>5. CASE UNCHANGED <<up, work>>
        BY <1>2, <2>2, <3>5 DEF OwnerServes
      <3>6. ASSUME NEW s \in Server, Die(s)
            PROVE  row'[j].owner \in Server /\ up'[row'[j].owner]
        <4>1. up[row[j].owner] /\ row[j].owner \in Server /\ row[j].owner # s
          BY <3>4, <3>6 DEF OwnerServes
        <4>2. up'[row[j].owner] = up[row[j].owner]
          BY <1>0, <3>4, <3>6, <4>1
        <4> QED BY <2>2, <4>1, <4>2
      <3> QED BY <1>2, <2>2, <3>1, <3>2, <3>3, <3>5, <3>6
              DEF OwnerServes, Next, vars, Ask, Probe, Lose, Claim, KillChild, GiveUp, ChildExits
    <2> QED BY <2>1, <2>2, RowStep
  <1>3. ASSUME NEW s \in Server, op'[s].at = "lose", NEW o \in op'[s].who PROVE ~up'[o]
    <2>1. ASSUME NEW t \in Server, Probe(t), t = s PROVE o \in ProvedDead(op[s].who)
      BY <1>0, <1>3, <2>1 DEF Probe, Idle
    <2>2. CASE op'[s] = op[s]
      BY <1>0, <1>1, <1>3, <2>2 DEF ProvedStaysDead, Ops
    <2>3. ASSUME NEW t \in Server, Probe(t) PROVE op'[s] = op[s] \/ t = s
      BY <1>0, <2>3 DEF Probe
    <2>4. ASSUME NEW t \in Server, NEW j \in Job, NEW kind \in {"get", "sweep", "cancel"},
                 Ask(t, kind, j)
          PROVE  op'[s] = op[s]
      BY <1>0, <1>3, <2>4 DEF Ask
    <2>5. ASSUME NEW t \in Server, Lose(t) \/ Claim(t) \/ KillChild(t) \/ GiveUp(t) \/ Die(t)
          PROVE  op'[s] = op[s]
      <3>1. \E o2 : op' = [op EXCEPT ![t] = o2] /\ o2.at # "lose"
        <4>1. Idle.at # "lose"
          BY DEF Idle
        <4>2. \A c, k : [op[t] EXCEPT !.at = "kill", !.child = c, !.keyed = k].at # "lose"
          BY <1>0 DEF Ops
        <4>3. CASE Claim(t)
          <5>1. \/ op' = [op EXCEPT ![t] = Idle]
                \/ \E c, k : op' = [op EXCEPT ![t] =
                                      [op[t] EXCEPT !.at = "kill", !.child = c, !.keyed = k]]
            BY <4>3 DEF Claim
          <5> QED BY <4>1, <4>2, <5>1
        <4> QED BY <2>5, <4>1, <4>3 DEF Lose, KillChild, GiveUp, Die
      <3> QED BY <1>0, <1>3, <3>1
    <2>6. CASE UNCHANGED op
      BY <2>2, <2>6
    <2>7. ASSUME NEW t \in Server, Probe(t), t = s PROVE ~up'[o]
      BY <1>0, <1>1, <2>1, <2>7 DEF ProvedDead, Ops
    <2> QED BY <2>2, <2>3, <2>4, <2>5, <2>6, <2>7
            DEF Next, Worker, vars, Admit, StartRun, Reclaim, Spawn, RecordChild, KillRefused,
                Collect, TimeOut, Return, WriteResult, ChildExits
  <1>4. ASSUME NEW j \in Job, row'[j].state = "lost" PROVE ~up'[row'[j].owner]
    <2>1. \A s \in Server : Created(s).state = "queued"
      BY CreatedColumns
    <2>2. /\ row'[j].owner = row[j].owner
          /\ row[j].state = "lost" \/ \E s \in Server : Lose(s) /\ row[j].owner \in op[s].who
      BY <1>4, <2>1, RowStep
    <2>3. CASE row[j].state = "lost"
      <3>1. row[j].owner \in Server
        BY <2>3 DEF TypeOK, RowsOK
      <3> QED BY <1>1, <2>2, <2>3, <3>1 DEF LostMeansDead
    <2>4. ASSUME NEW s \in Server, Lose(s), row[j].owner \in op[s].who PROVE ~up'[row'[j].owner]
      BY <1>0, <2>2, <2>4 DEF Lose, ProvedStaysDead
    <2> QED BY <2>2, <2>3, <2>4
  <1> QED BY <1>2, <1>3, <1>4 DEF OwnerServes, ProvedStaysDead, LostMeansDead

----------------------------------------------------------------------------
(* No run without a claim.                                                 *)

LEMMA ClaimStep ==
  ASSUME TypeOK, Fresh, RunsClaimed, NoChildUnlessClaimed, [Next]_vars
  PROVE  RunsClaimed' /\ NoChildUnlessClaimed'
  <1> DEFINE At == {"between", "claiming", "refused", "waiting"}
  <1>0. /\ work \in [Job -> WorkStates] /\ row \in [Job -> Rows]
        /\ cur \in [Job -> 0 .. MaxChildren]
    BY DEF TypeOK, RowsOK
  <1>1. ASSUME NEW j \in Job, work'[j] \in At
        PROVE  row'[j].started
    <2>1. ASSUME NEW s \in Server, NEW i \in Job, Admit(s, i)
          PROVE  work[j] \in At /\ i # j
      BY <1>0, <1>1, <2>1 DEF Admit
    <2>2. ASSUME NEW i \in Job, Worker(i)
          PROVE  work[j] \in At \/ row'[j] = MarkedRunning(row[j])
      BY <1>0, <1>1, <2>2 DEF Worker, AtWork, StartRun, Reclaim, Spawn, RecordChild, KillRefused,
             Collect, TimeOut, Return, WriteResult
    <2>3. ASSUME NEW s \in Server, Die(s) PROVE work[j] \in At
      BY <1>1, <2>3 DEF Die
    <2>4. work[j] \in At \/ row'[j] = MarkedRunning(row[j])
      BY <1>1, <2>1, <2>2, <2>3
         DEF Next, vars, Ask, Probe, Lose, Claim, KillChild, GiveUp, ChildExits
    <2>5. CASE row'[j] = MarkedRunning(row[j])
      BY <1>0, <2>5, MarkedColumns
    <2>6. CASE work[j] \in At
      <3>1. row[j].started /\ row[j].state # "absent"
        BY <2>6 DEF RunsClaimed, Fresh
      <3> QED BY <3>1, RowStep
    <2> QED BY <2>4, <2>5, <2>6
  <1>2. ASSUME NEW j \in Job, cur'[j] > 0
        PROVE  row'[j].started
    <2>1. ASSUME NEW i \in Job, Spawn(i) PROVE cur'[j] = cur[j] \/ work'[j] = "claiming"
      BY <1>0, <2>1 DEF Spawn
    <2>2. cur'[j] = cur[j] \/ work'[j] = "claiming"
      BY <2>1 DEF Next, Worker, vars, Admit, StartRun, Reclaim, RecordChild, KillRefused, Collect,
             TimeOut, Return, WriteResult, Ask, Probe, Lose, Claim, KillChild, GiveUp,
             ChildExits, Die
    <2>3. CASE cur'[j] = cur[j]
      <3>1. row[j].started /\ row[j].state # "absent"
        BY <1>0, <1>2, <2>3 DEF NoChildUnlessClaimed, Fresh
      <3> QED BY <3>1, RowStep
    <2> QED BY <1>1, <2>2, <2>3
  <1> QED BY <1>1, <1>2 DEF RunsClaimed, NoChildUnlessClaimed

----------------------------------------------------------------------------
(* One cancel wins.                                                        *)

(* Who comes to hold a child to signal has just won the claim. *)
LEMMA KillStep ==
  ASSUME TypeOK, [Next]_vars, NEW s \in Server, op'[s].at = "kill"
  PROVE  \/ op'[s] = op[s]
         \/ /\ Claim(s) /\ CanCancel(row[op[s].job]) /\ op'[s].job = op[s].job
            /\ row' = [row EXCEPT ![op[s].job] = Cancelled(row[op[s].job])]
            /\ row[op[s].job].child # 0 /\ op'[s].child = row[op[s].job].child
            /\ UNCHANGED <<told, excused>>
            /\ \A t \in Server \ {s} : op'[t] = op[t]
  <1>0. op \in [Server -> Ops]
    BY DEF TypeOK
  <1>1. Idle.at # "kill"
    BY DEF Idle
  <1>2. ASSUME NEW t \in Server, Claim(t), t # s PROVE op'[s] = op[s]
    BY <1>0, <1>2 DEF Claim
  <1>3. ASSUME Claim(s)
        PROVE  /\ CanCancel(row[op[s].job]) /\ op'[s].job = op[s].job
               /\ row' = [row EXCEPT ![op[s].job] = Cancelled(row[op[s].job])]
               /\ row[op[s].job].child # 0 /\ op'[s].child = row[op[s].job].child
               /\ UNCHANGED <<told, excused>>
               /\ \A t \in Server \ {s} : op'[t] = op[t]
    <2> DEFINE r == row[op[s].job]
               o == [op[s] EXCEPT !.at = "kill", !.child = r.child, !.keyed = r.keyed]
    <2>1. op' # [op EXCEPT ![s] = Idle]
      BY <1>0, <1>1
    <2>2. /\ CanCancel(r) /\ r.child # 0 /\ op' = [op EXCEPT ![s] = o]
          /\ row' = [row EXCEPT ![op[s].job] = Cancelled(r)]
          /\ UNCHANGED <<told, excused>>
      BY <1>3, <2>1 DEF Claim
    <2>3. o.job = op[s].job /\ o.child = r.child
      BY <1>0 DEF Ops
    <2> HIDE DEF o
    <2> QED BY <1>0, <2>2, <2>3
  <1>4. ASSUME NEW t \in Server, NEW j \in Job, NEW kind \in {"get", "sweep", "cancel"},
               Ask(t, kind, j)
        PROVE  op'[s] = op[s]
    BY <1>0, <1>4 DEF Ask
  <1>5. ASSUME NEW t \in Server, Probe(t) PROVE op'[s] = op[s]
    <2>1. PICK o : op' = [op EXCEPT ![t] = o] /\ o.at # "kill"
      <3>1. \A dead : /\ [op[t] EXCEPT !.at = "lose", !.who = dead].at = "lose"
                      /\ [op[t] EXCEPT !.at = "claim", !.who = {}].at = "claim"
        BY <1>0 DEF Ops
      <3> QED BY <1>1, <1>5, <3>1 DEF Probe
    <2> QED BY <1>0, <2>1
  <1>6. ASSUME NEW t \in Server, Lose(t) \/ KillChild(t) \/ GiveUp(t) \/ Die(t) PROVE op'[s] = op[s]
    BY <1>0, <1>1, <1>6 DEF Lose, KillChild, GiveUp, Die
  <1>7. CASE UNCHANGED op
    BY <1>7
  <1> QED BY <1>2, <1>3, <1>4, <1>5, <1>6, <1>7
          DEF Next, Worker, vars, Admit, StartRun, Reclaim, Spawn, RecordChild, KillRefused,
              Collect, TimeOut, Return, WriteResult, ChildExits

(* A report is made by the claim, or by the kill that follows it. *)
LEMMA ToldStep ==
  ASSUME TypeOK, [Next]_vars, NEW j \in Job
  PROVE  \/ told'[j] = told[j]
         \/ \E s \in Server : /\ op[s].job = j
                              /\ \/ Claim(s) /\ CanCancel(row[j]) /\ row'[j] = Cancelled(row[j])
                                 \/ KillChild(s) /\ op[s].at = "kill" /\ op'[s] = Idle
  <1>0. /\ op \in [Server -> Ops] /\ told \in [Job -> {"nothing", "clean", "warned"}]
        /\ row \in [Job -> Rows]
    BY DEF TypeOK, RowsOK
  <1>1. ASSUME NEW s \in Server, Claim(s)
        PROVE  \/ told'[j] = told[j]
               \/ op[s].job = j /\ CanCancel(row[j]) /\ row'[j] = Cancelled(row[j])
    <2>1. CASE CanCancel(row[op[s].job]) /\ op[s].job = j
      BY <1>0, <1>1, <2>1 DEF Claim
    <2>2. CASE CanCancel(row[op[s].job]) /\ op[s].job # j
      <3>1. told' = told \/ told' = [told EXCEPT ![op[s].job] = "clean"]
        BY <1>1, <2>2 DEF Claim
      <3> QED BY <1>0, <2>2, <3>1
    <2>3. CASE ~CanCancel(row[op[s].job])
      <3>1. told' = told
        BY <1>1, <2>3 DEF Claim
      <3> QED BY <3>1
    <2> QED BY <2>1, <2>2, <2>3
  <1>2. ASSUME NEW s \in Server, KillChild(s)
        PROVE  told'[j] = told[j] \/ (op[s].job = j /\ op[s].at = "kill" /\ op'[s] = Idle)
    BY <1>0, <1>2 DEF KillChild
  <1> QED BY <1>1, <1>2
          DEF Next, Worker, vars, Admit, StartRun, Reclaim, Spawn, RecordChild, KillRefused,
              Collect, TimeOut, Return, WriteResult, Ask, Probe, Lose, GiveUp, ChildExits, Die

LEMMA CancelStep ==
  ASSUME TypeOK, ReportOfWinner, OneCanceller, [Next]_vars
  PROVE  ReportOfWinner' /\ OneCanceller'
  <1>0. row \in [Job -> Rows] /\ \A s \in Server : op[s].job \in Job
    BY DEF TypeOK, RowsOK, Ops
  <1> DEFINE Kills(s, j) == op[s].at = "kill" /\ op[s].job = j
  <1>1. ASSUME NEW j \in Job, row[j].state = "cancelled"
        PROVE  row'[j].state = "cancelled" /\ ~CanCancel(row[j])
    BY <1>1, RowStep DEF CanCancel, ActiveStates
  <1>2. ASSUME NEW j \in Job, told'[j] # "nothing"
        PROVE  row'[j].state = "cancelled"
    <2>1. CASE told'[j] = told[j]
      BY <1>1, <1>2, <2>1 DEF ReportOfWinner
    <2>2. CASE row'[j] = Cancelled(row[j])
      BY <1>0, <2>2, CancelledColumns
    <2>3. ASSUME NEW s \in Server, Kills(s, j) PROVE row'[j].state = "cancelled"
      BY <1>1, <2>3 DEF OneCanceller
    <2> QED BY <2>1, <2>2, <2>3, ToldStep
  <1>3. ASSUME NEW j \in Job, NEW s \in Server, Kills(s, j)', op'[s] = op[s]
        PROVE  /\ row'[j].state = "cancelled" /\ told'[j] = "nothing"
               /\ \A t \in Server : Kills(t, j)' => s = t
    <2>1. Kills(s, j) /\ row[j].state = "cancelled" /\ told[j] = "nothing"
      BY <1>3 DEF OneCanceller
    <2>2. \A t \in Server : Kills(t, j) => t = s
      BY <2>1 DEF OneCanceller
    <2>3. told'[j] = told[j]
      <3>1. Idle.at # "kill"
        BY DEF Idle
      <3> QED BY <1>1, <1>3, <2>1, <2>2, <3>1, ToldStep
    <2>4. ASSUME NEW t \in Server, Kills(t, j)' PROVE t = s
      BY <1>1, <2>1, <2>2, <2>4, KillStep
    <2> QED BY <1>1, <2>1, <2>3, <2>4
  <1>4. ASSUME NEW j \in Job, NEW s \in Server, Kills(s, j)', op'[s] # op[s]
        PROVE  /\ row'[j].state = "cancelled" /\ told'[j] = "nothing"
               /\ \A t \in Server : Kills(t, j)' => s = t
    <2>1. /\ CanCancel(row[j]) /\ row' = [row EXCEPT ![j] = Cancelled(row[j])]
          /\ told' = told /\ \A t \in Server \ {s} : op'[t] = op[t]
      BY <1>4, KillStep
    <2>2. row'[j].state = "cancelled" /\ row[j].state # "cancelled"
      BY <1>0, <2>1, CancelledColumns DEF CanCancel, ActiveStates
    <2>3. told'[j] = "nothing"
      BY <2>1, <2>2 DEF ReportOfWinner
    <2>4. ASSUME NEW t \in Server, Kills(t, j)', t # s PROVE FALSE
      BY <2>1, <2>2, <2>4 DEF OneCanceller
    <2> QED BY <2>2, <2>3, <2>4
  <1> QED BY <1>2, <1>3, <1>4 DEF ReportOfWinner, OneCanceller

LEMMA FreshStep ==
  ASSUME TypeOK, Fresh, OneCanceller, [Next]_vars
  PROVE  Fresh'
  <1> SUFFICES ASSUME NEW j \in Job, row'[j].state = "absent"
               PROVE  alive'[j] = {} /\ cur'[j] = 0 /\ told'[j] = "nothing" /\ work'[j] = "none"
    BY DEF Fresh
  <1>0. /\ work \in [Job -> WorkStates] /\ row \in [Job -> Rows]
        /\ cur \in [Job -> 0 .. MaxChildren] /\ alive \in [Job -> SUBSET Children]
        /\ \A s \in Server : op[s].job \in Job
    BY DEF TypeOK, RowsOK, Ops
  <1>1. row[j].state = "absent" /\ \A s \in Server : row'[j] # Created(s)
    <2>1. \A s \in Server : Created(s).state = "queued"
      BY CreatedColumns
    <2> QED BY <2>1, RowStep
  <1>2. alive[j] = {} /\ cur[j] = 0 /\ told[j] = "nothing" /\ work[j] = "none"
    BY <1>1 DEF Fresh
  <1>3. told'[j] = "nothing"
    BY <1>1, <1>2, ToldStep DEF CanCancel, ActiveStates, OneCanceller
  <1>4. ASSUME NEW s \in Server, NEW i \in Job, Admit(s, i)
        PROVE  UNCHANGED <<alive, cur>> /\ work'[j] = work[j]
    <2>1. i # j
      BY <1>0, <1>1, <1>4 DEF Admit
    <2> QED BY <1>0, <1>4, <2>1 DEF Admit
  <1>5. ASSUME NEW i \in Job, Worker(i)
        PROVE  alive'[j] = alive[j] /\ cur'[j] = cur[j] /\ work'[j] = work[j]
    <2>1. i # j
      BY <1>2, <1>5 DEF Worker, AtWork, StartRun, Reclaim, Spawn, RecordChild, KillRefused,
             Collect, TimeOut, Return, WriteResult
    <2> QED BY <1>0, <1>5, <2>1
            DEF Worker, KillOwn, StartRun, Reclaim, Spawn, RecordChild, KillRefused,
                Collect, TimeOut, Return, WriteResult
  <1>6. ASSUME NEW i \in Job, ChildExits(i)
        PROVE  alive'[j] = {} /\ UNCHANGED <<cur, work>>
    BY <1>0, <1>2, <1>6 DEF ChildExits
  <1>7. ASSUME NEW s \in Server, KillChild(s)
        PROVE  alive'[j] = {} /\ UNCHANGED <<cur, work>>
    BY <1>0, <1>2, <1>7 DEF KillChild
  <1>8. ASSUME NEW s \in Server, Die(s)
        PROVE  UNCHANGED <<alive, cur>> /\ work'[j] = work[j]
    BY <1>2, <1>8 DEF Die
  <1> QED BY <1>2, <1>3, <1>4, <1>5, <1>6, <1>7, <1>8
          DEF Next, vars, Ask, Probe, Lose, Claim, GiveUp

----------------------------------------------------------------------------
(* No cancelled job's child runs on unnoticed.                             *)

Reach == OneInReach /\ InReach

(* A step of j's worker after which nothing of j's is within reach. *)
LEMMA ReachEmptied ==
  ASSUME Reach, NEW j \in Job, op' = op, alive'[j] \ excused'[j] = {},
         \A i \in Job \ {j} : /\ row'[i] = row[i] /\ work'[i] = work[i] /\ cur'[i] = cur[i]
                             /\ alive'[i] = alive[i] /\ excused'[i] = excused[i]
  PROVE  Reach'
  BY DEF Reach, OneInReach, InReach, Signalling

(* A call that holds no child changes nothing by moving on. *)
LEMMA ReachOfIdle ==
  ASSUME Reach, op \in [Server -> Ops], NEW s \in Server, op[s].at # "kill",
         \A t \in Server \ {s} : op'[t] = op[t],
         UNCHANGED <<row, work, cur, alive, excused>>
  PROVE  Reach'
  <1>1. \A t \in Server : \A j \in Job : \A c : Signalling(t, j, c) => Signalling(t, j, c)'
    BY DEF Signalling
  <1> QED BY <1>1 DEF Reach, OneInReach, InReach

LEMMA ReachStep ==
  ASSUME Inductive, [Next]_vars
  PROVE  Reach'
  <1>0. /\ TypeOK /\ Reach
        /\ row \in [Job -> Rows] /\ work \in [Job -> WorkStates] /\ op \in [Server -> Ops]
        /\ alive \in [Job -> SUBSET Children] /\ cur \in [Job -> 0 .. MaxChildren]
        /\ excused \in [Job -> SUBSET (0 .. MaxChildren)]
        /\ \A s \in Server : op[s].job \in Job
    BY DEF Inductive, Reach, TypeOK, RowsOK, Ops
  <1>1. ASSUME NEW j \in Job, work[j] \notin {"claiming", "refused", "waiting", "none"}
        PROVE  alive[j] \ excused[j] = {}
    BY <1>0, <1>1 DEF Reach, OneInReach
  <1>2. ASSUME NEW s \in Server, NEW j \in Job, Admit(s, j) PROVE Reach'
    <2>1. alive[j] = {}
      BY <1>2 DEF Admit, Inductive, Fresh
    <2> QED BY <1>0, <1>2, <2>1, ReachEmptied DEF Admit
  <1>3. ASSUME NEW j \in Job, StartRun(j) \/ Reclaim(j) \/ Return(j) \/ WriteResult(j)
        PROVE  Reach'
    <2>1. alive[j] \ excused[j] = {} /\ UNCHANGED <<alive, excused, cur, op>>
      BY <1>1, <1>3 DEF AtWork, StartRun, Reclaim, Return, WriteResult
    <2>2. \A i \in Job \ {j} : row'[i] = row[i] /\ work'[i] = work[i]
      BY <1>0, <1>3 DEF StartRun, Reclaim, Return, WriteResult
    <2> QED BY <1>0, <2>1, <2>2, ReachEmptied
  <1>4. ASSUME NEW j \in Job, KillRefused(j) \/ Collect(j) \/ TimeOut(j)
        PROVE  Reach'
    <2>1. \A c \in alive[j] \ excused[j] : c = cur[j]
      BY <1>0 DEF Reach, OneInReach
    <2>2. alive'[j] \ excused'[j] = {}
      <3>1. CASE KillOwn(j)
        BY <1>0, <2>1, <3>1 DEF KillOwn
      <3>2. CASE Collect(j)
        BY <2>1, <3>2 DEF Collect
      <3> QED BY <1>4, <3>1, <3>2 DEF KillRefused, TimeOut
    <2>3. \A i \in Job \ {j} : work'[i] = work[i] /\ alive'[i] = alive[i] /\ excused'[i] = excused[i]
      BY <1>0, <1>4 DEF KillRefused, Collect, TimeOut, KillOwn
    <2>4. UNCHANGED <<row, cur, op>>
      BY <1>4 DEF KillRefused, Collect, TimeOut
    <2> QED BY <1>0, <2>2, <2>3, <2>4, ReachEmptied
  <1>5. ASSUME NEW j \in Job, Spawn(j) PROVE Reach'
    <2>1. alive[j] \ excused[j] = {}
      BY <1>1, <1>5 DEF Spawn, AtWork
    <2>2. /\ \A c \in alive'[j] \ excused'[j] : c = cur'[j] /\ c # 0
          /\ work'[j] = "claiming"
      BY <1>0, <1>5, <2>1 DEF Spawn
    <2>3. /\ UNCHANGED <<row, op, excused>>
          /\ \A i \in Job \ {j} : work'[i] = work[i] /\ alive'[i] = alive[i] /\ cur'[i] = cur[i]
      BY <1>0, <1>5 DEF Spawn
    <2> QED BY <1>0, <2>2, <2>3 DEF Reach, OneInReach, InReach, Signalling
  <1>6. ASSUME NEW j \in Job, RecordChild(j) PROVE Reach'
    <2>1. \A c \in alive[j] \ excused[j] : c = cur[j] /\ c # 0
      BY <1>0 DEF Reach, OneInReach
    <2>2. /\ UNCHANGED <<alive, cur, op>>
          /\ \A i \in Job \ {j} : row'[i] = row[i] /\ work'[i] = work[i] /\ excused'[i] = excused[i]
      BY <1>0, <1>6 DEF RecordChild
    <2>3. ASSUME CanSetChild(row[j], row[j].owner), NEW k \in BOOLEAN, excused' = excused,
                 row' = [row EXCEPT ![j] = ChildSet(row[j], cur[j], k)],
                 work' = [work EXCEPT ![j] = "waiting"]
          PROVE  Reach'
      <3>1. row'[j].state \in ActiveStates /\ row'[j].child = cur[j] /\ work'[j] = "waiting"
        BY <1>0, <2>3, ChildSetColumns, MaxChildrenAssumption DEF CanSetChild, ActiveStates
      <3> QED BY <1>0, <2>1, <2>2, <2>3, <3>1 DEF Reach, OneInReach, InReach, Signalling
    <2>4. CASE row' = row /\ excused' = excused /\ work' = [work EXCEPT ![j] = "refused"]
      BY <1>0, <2>1, <2>2, <2>4 DEF Reach, OneInReach, InReach, Signalling
    <2>5. CASE excused' = [excused EXCEPT ![j] = @ \cup {cur[j]}]
      <3>1. alive'[j] \ excused'[j] = {}
        BY <1>0, <2>1, <2>2, <2>5
      <3> QED BY <1>0, <2>2, <3>1, ReachEmptied
    <2> QED BY <1>6, <2>3, <2>4, <2>5 DEF RecordChild
  <1>7. ASSUME NEW s \in Server, NEW j \in Job, NEW kind \in {"get", "sweep", "cancel"},
               Ask(s, kind, j)
        PROVE  Reach'
    BY <1>0, <1>7, ReachOfIdle DEF Ask
  <1>8. ASSUME NEW s \in Server, Probe(s) \/ GiveUp(s) PROVE Reach'
    <2>1. \A t \in Server \ {s} : op'[t] = op[t]
      BY <1>0, <1>8 DEF Probe, GiveUp
    <2> QED BY <1>0, <1>8, <2>1, ReachOfIdle DEF Probe, GiveUp
  <1>9. ASSUME NEW s \in Server, Lose(s) PROVE Reach'
    <2>1. \A t \in Server : \A j \in Job : \A c : Signalling(t, j, c) => Signalling(t, j, c)'
      BY <1>0, <1>9 DEF Lose, Signalling
    <2>2. ASSUME NEW j \in Job
          PROVE  row'[j] = row[j] \/ row'[j].state = "lost"
      BY <1>0, <1>9, LostColumns DEF Lose, Matched
    <2>3. UNCHANGED <<work, cur, alive, excused>>
      BY <1>9 DEF Lose
    <2> QED BY <1>0, <2>1, <2>2, <2>3 DEF Reach, OneInReach, InReach, ActiveStates
  <1>10. ASSUME NEW s \in Server, Claim(s) PROVE Reach'
    <2> PICK j \in Job : j = op[s].job
      BY <1>0
    <2>0. UNCHANGED <<work, cur, alive>> /\ op[s].at = "claim"
      BY <1>10 DEF Claim
    <2>a. \A t \in Server \ {s} : op'[t] = op[t]
      BY <1>0, <1>10 DEF Claim
    <2>1. \A t \in Server : \A i \in Job : \A c : Signalling(t, i, c) => Signalling(t, i, c)'
      BY <2>0, <2>a DEF Signalling
    <2>2. CASE ~CanCancel(row[j])
      BY <1>0, <1>10, <2>0, <2>a, <2>2, ReachOfIdle DEF Claim
    <2>3. CASE CanCancel(row[j])
      <3>1. /\ row' = [row EXCEPT ![j] = Cancelled(row[j])]
            /\ row[j].state \in ActiveStates /\ row'[j].state = "cancelled"
        BY <1>0, <1>10, <2>3, CancelledColumns DEF Claim, CanCancel
      <3>2. \A i \in Job \ {j} : excused'[i] = excused[i] /\ row'[i] = row[i]
        BY <1>0, <1>10, <2>3, <3>1 DEF Claim
      <3>3. excused[j] \subseteq excused'[j]
        BY <1>0, <1>10, <2>3 DEF Claim
      <3>4. ASSUME NEW c \in alive[j] \ excused'[j], work[j] \notin {"claiming", "refused"}
            PROVE  \E t \in Server : Signalling(t, j, c)'
        <4>1. /\ c # 0 /\ c \in alive[j] \ excused[j]
              /\ c = row[j].child \/ \E t \in Server : Signalling(t, j, c)
          BY <1>0, <3>1, <3>3, <3>4 DEF Reach, OneInReach, InReach
        <4>2. CASE c = row[j].child
          <5> DEFINE o == [op[s] EXCEPT !.at = "kill", !.child = row[j].child, !.keyed = row[j].keyed]
          <5>1. o.at = "kill" /\ o.job = j /\ o.child = c
            BY <1>0, <4>2 DEF Ops
          <5>2. op' = [op EXCEPT ![s] = o] \/ c \in excused'[j]
            BY <1>0, <1>10, <2>3, <4>1, <4>2 DEF Claim
          <5> HIDE DEF o
          <5>3. op'[s] = o
            BY <1>0, <3>4, <5>2
          <5> QED BY <5>1, <5>3 DEF Signalling
        <4>3. ASSUME NEW t \in Server, Signalling(t, j, c)
              PROVE  \E u \in Server : Signalling(u, j, c)'
          BY <1>0, <2>1, <4>3
        <4> QED BY <4>1, <4>2, <4>3
      <3>5. OneInReach'
        BY <1>0, <2>0, <3>2, <3>3 DEF Reach, OneInReach
      <3>6. ASSUME NEW i \in Job \ {j}, NEW c \in alive[i] \ excused[i], NEW t \in Server,
                   Signalling(t, i, c)
            PROVE  \E u \in Server : Signalling(u, i, c)'
        BY <2>1, <3>6
      <3>7. InReach'
        BY <1>0, <2>0, <3>1, <3>2, <3>4, <3>6 DEF Reach, InReach
      <3> QED BY <3>5, <3>7 DEF Reach
    <2> QED BY <2>2, <2>3
  <1>11. ASSUME NEW s \in Server, KillChild(s) PROVE Reach'
    <2> DEFINE j == op[s].job
               c == op[s].child
    <2>1. /\ UNCHANGED <<row, work, cur>>
          /\ \A t \in Server \ {s} : op'[t] = op[t]
          /\ \A i \in Job \ {j} : alive'[i] \ excused'[i] = alive[i] \ excused[i]
          /\ alive'[j] \ excused'[j] = (alive[j] \ excused[j]) \ {c}
      <3>1. \/ alive' = [alive EXCEPT ![j] = @ \ {c}] /\ excused' = excused
            \/ excused' = [excused EXCEPT ![j] = @ \cup {c}] /\ alive' = alive
        BY <1>11 DEF KillChild
      <3> QED BY <1>0, <1>11, <3>1 DEF KillChild
    <2>2. ASSUME NEW t \in Server, NEW i \in Job, NEW d, Signalling(t, i, d), i # j \/ d # c
          PROVE  Signalling(t, i, d)'
      BY <2>1, <2>2 DEF Signalling
    <2> QED BY <1>0, <2>1, <2>2 DEF Reach, OneInReach, InReach
  <1>12. ASSUME NEW j \in Job, ChildExits(j) PROVE Reach'
    <2>1. /\ UNCHANGED <<row, work, cur, op, excused>>
          /\ \A i \in Job : alive'[i] \subseteq alive[i]
      BY <1>0, <1>12 DEF ChildExits
    <2> QED BY <1>0, <2>1 DEF Reach, OneInReach, InReach, Signalling
  <1>13. ASSUME NEW s \in Server, Die(s) PROVE Reach'
    <2>1. /\ UNCHANGED <<row, cur, alive>>
          /\ \A t \in Server \ {s} : op'[t] = op[t]
          /\ \A i \in Job : excused[i] \subseteq excused'[i]
      BY <1>0, <1>13 DEF Die
    <2>2. ASSUME NEW i \in Job
          PROVE  \/ work'[i] = work[i]
                 \/ /\ work'[i] = "none"
                    /\ work[i] \in {"claiming", "refused"} => cur[i] \in excused'[i]
      BY <1>13 DEF Die
    <2>3. ASSUME NEW i \in Job, NEW c \in alive[i] \ excused'[i], NEW t \in Server,
                 Signalling(t, i, c)
          PROVE  Signalling(t, i, c)'
      <3>1. CASE t = s
        BY <1>13, <2>3, <3>1 DEF Die, Signalling
      <3>2. CASE t # s
        BY <2>1, <2>3, <3>2 DEF Signalling
      <3> QED BY <3>1, <3>2
    <2> QED BY <1>0, <2>1, <2>2, <2>3 DEF Reach, OneInReach, InReach
  <1>14. CASE UNCHANGED vars
    BY <1>0, <1>14 DEF vars, Reach, OneInReach, InReach, Signalling
  <1> QED BY <1>2, <1>3, <1>4, <1>5, <1>6, <1>7, <1>8, <1>9, <1>10, <1>11, <1>12, <1>13, <1>14
          DEF Next, Worker

----------------------------------------------------------------------------
(* The theorems.                                                           *)

LEMMA InitInductive == Init => Inductive
  <1> SUFFICES ASSUME Init PROVE Inductive
    OBVIOUS
  <1>1. TypeOK
    BY InitType
  <1>2. \A s \in Server : op[s].at = "idle"
    BY DEF Init, Idle
  <1> QED
    BY <1>1, <1>2, NoRowColumns
       DEF Init, Inductive, Fresh, OwnerServes, Unresolved, NoticeMatchesRow, ProvedStaysDead,
           LostMeansDead, RunsClaimed, NoChildUnlessClaimed, ReportOfWinner, OneCanceller,
           OneInReach, InReach, ActiveStates

LEMMA NextInductive == Inductive /\ [Next]_vars => Inductive'
  <1> SUFFICES ASSUME Inductive, [Next]_vars PROVE Inductive'
    OBVIOUS
  <1> USE DEF Inductive
  <1>1. TypeOK'
    BY NextType
  <1>2. Unresolved' /\ NoticeMatchesRow'
    BY NoticeStep
  <1>3. OwnerServes' /\ ProvedStaysDead' /\ LostMeansDead'
    BY OwnerStep
  <1>4. RunsClaimed' /\ NoChildUnlessClaimed'
    BY ClaimStep
  <1>5. ReportOfWinner' /\ OneCanceller'
    BY CancelStep
  <1>6. Fresh'
    BY FreshStep
  <1>7. OneInReach' /\ InReach'
    BY ReachStep DEF Reach
  <1> QED BY <1>1, <1>2, <1>3, <1>4, <1>5, <1>6, <1>7

LEMMA Invariance == Spec => []Inductive
  BY InitInductive, NextInductive, PTL DEF Spec

(* A result and its completion message are one: the message is sent once,   *)
(* with the result, and keeps telling what the row says.                    *)
THEOREM ResultToldOnce == Spec => []NoticeMatchesRow
  <1>1. Inductive => NoticeMatchesRow
    BY DEF Inductive
  <1> QED BY <1>1, Invariance, PTL

(* No server's reads ever write off the job of one that is alive. *)
THEOREM OnlyTheDeadLose == Spec => []LostMeansDead
  <1>1. Inductive => LostMeansDead
    BY DEF Inductive
  <1> QED BY <1>1, Invariance, PTL

(* A job spawns nothing before its queued -> running claim is won. *)
THEOREM ClaimedBeforeSpawn == Spec => []NoChildUnlessClaimed
  <1>1. Inductive => NoChildUnlessClaimed
    BY DEF Inductive
  <1> QED BY <1>1, Invariance, PTL

(* Of any number of cancels, from any servers, one wins and one signals. *)
THEOREM CancelWonOnce == Spec => []OneCanceller
  <1>1. Inductive => OneCanceller
    BY DEF Inductive
  <1> QED BY <1>1, Invariance, PTL

(* A cancel reaches the child a job runs, whichever child that is when the  *)
(* claim lands, for any number of children spawned in turn.                 *)
THEOREM NoChildEscapes == Spec => []CancelReachesChild
  <1>1. Inductive => CancelReachesChild
    <2> SUFFICES ASSUME Inductive, NEW j \in Job, row[j].state = "cancelled",
                        NEW c \in alive[j] \ excused[j]
                 PROVE  \/ c = cur[j] /\ work[j] \in {"claiming", "refused"}
                        \/ \E s \in Server : Signalling(s, j, c)
      BY DEF CancelReachesChild
    <2>1. c = cur[j]
      BY DEF Inductive, OneInReach
    <2>2. \/ work[j] \in {"claiming", "refused"}
          \/ \E s \in Server : Signalling(s, j, c)
      BY DEF Inductive, InReach, ActiveStates
    <2> QED BY <2>1, <2>2
  <1> QED BY <1>1, Invariance, PTL

----------------------------------------------------------------------------
(* Jobs implements JobPromise.                                             *)

LEMMA PromiseInit == Init => Promise!Init
  BY NoRowColumns DEF Init, Promise!Init, OutcomeOf, ActiveStates

(* A step that moves one row, and so at most one outcome. *)
LEMMA OneOutcome ==
  ASSUME row \in [Job -> Rows], NEW j \in Job, NEW t, row' = [row EXCEPT ![j] = t]
  PROVE  [i \in Job |-> OutcomeOf(row[i])]' =
           [[i \in Job |-> OutcomeOf(row[i])] EXCEPT ![j] = OutcomeOf(t)]
  BY DEF OutcomeOf

LEMMA PromiseStep == Inductive /\ [Next]_vars => [Promise!Next]_(Promise!vars)
  <1> SUFFICES ASSUME Inductive, [Next]_vars PROVE [Promise!Next]_(Promise!vars)
    OBVIOUS
  <1> DEFINE Step == [Promise!Next]_(Promise!vars)
             outcome == [i \in Job |-> OutcomeOf(row[i])]
  <1>0. /\ row \in [Job -> Rows] /\ notices \in [Job -> Seq(TerminalStates)]
        /\ cur \in [Job -> Nat] /\ \A s \in Server : op[s].job \in Job
        /\ Unresolved /\ NoticeMatchesRow /\ OwnerServes /\ LostMeansDead
    BY MaxChildrenAssumption DEF Inductive, TypeOK, RowsOK, Ops
  <1>1. ASSUME UNCHANGED <<row, notices>> PROVE Step
    BY <1>1 DEF Promise!vars, OutcomeOf
  <1>2. ASSUME NEW j \in Job, NEW t, row' = [row EXCEPT ![j] = t], notices' = notices,
               OutcomeOf(t) = OutcomeOf(row[j])
        PROVE  Step
    <2>1. outcome' = outcome
      BY <1>0, <1>2, OneOutcome
    <2> QED BY <1>2, <2>1 DEF Promise!vars
  <1>3. ASSUME NEW s \in Server, NEW j \in Job, Admit(s, j) PROVE Step
    <2>1. row' = [row EXCEPT ![j] = Created(s)] /\ row[j].state = "absent" /\ notices' = notices
      BY <1>3 DEF Admit
    <2>2. outcome[j] = "absent" /\ OutcomeOf(Created(s)) = "open"
      BY <2>1, CreatedColumns DEF OutcomeOf, ActiveStates
    <2>3. outcome' = [outcome EXCEPT ![j] = "open"]
      BY <1>0, <2>1, <2>2, OneOutcome
    <2>4. Promise!Accept(j)
      BY <2>1, <2>2, <2>3 DEF Promise!Accept
    <2> QED BY <2>4 DEF Promise!Next
  <1>4. ASSUME NEW j \in Job, CanMarkRunning(row[j], row[j].owner), notices' = notices,
               row' = [row EXCEPT ![j] = MarkedRunning(row[j])]
        PROVE  Step
    <2>1. OutcomeOf(MarkedRunning(row[j])) = OutcomeOf(row[j])
      BY <1>0, <1>4, MarkedColumns DEF CanMarkRunning, OutcomeOf, ActiveStates
    <2> QED BY <1>2, <1>4, <2>1
  <1>5. ASSUME NEW j \in Job, StartRun(j) \/ Reclaim(j) PROVE Step
    <2>1. row' = row \/ /\ CanMarkRunning(row[j], row[j].owner)
                        /\ row' = [row EXCEPT ![j] = MarkedRunning(row[j])]
      BY <1>0, <1>5 DEF StartRun, Reclaim
    <2>2. notices' = notices
      BY <1>5 DEF StartRun, Reclaim
    <2> QED BY <1>1, <1>4, <2>1, <2>2
  <1>6. ASSUME NEW j \in Job, RecordChild(j) PROVE Step
    <2>1. ASSUME CanSetChild(row[j], row[j].owner), NEW k \in BOOLEAN,
                 row' = [row EXCEPT ![j] = ChildSet(row[j], cur[j], k)]
          PROVE  Step
      <3>1. OutcomeOf(ChildSet(row[j], cur[j], k)) = OutcomeOf(row[j])
        BY <1>0, ChildSetColumns DEF OutcomeOf
      <3> QED BY <1>2, <1>6, <2>1, <3>1 DEF RecordChild
    <2> QED BY <1>1, <1>6, <2>1 DEF RecordChild
  <1>7. ASSUME NEW j \in Job, WriteResult(j) PROVE Step
    <2>1. CASE CanFinish(row[j], row[j].owner)
      <3> DEFINE t == Finished(row[j], out[j] = "ok")
      <3>1. row' = [row EXCEPT ![j] = t] /\ row'[j] = t
        BY <1>0, <1>7, <2>1 DEF WriteResult
      <3>2. notices' = [notices EXCEPT ![j] = Append(@, t.state)]
        BY <1>7, <2>1, <3>1 DEF WriteResult
      <3>3. /\ t.state \in {"cancelled", "completed", "failed"}
            /\ t.state = "cancelled" <=> row[j].state = "cancelled"
        BY <1>0, FinishedColumns
      <3>4. notices[j] = <<>>
        BY <1>0, <2>1 DEF CanFinish, Unresolved, NoticeMatchesRow
      <3>5. row[j].state # "lost"
        BY <1>0, <1>7 DEF WriteResult, AtWork, OwnerServes, LostMeansDead
      <3>6. outcome[j] = IF row[j].state = "cancelled" THEN "cancelled" ELSE "open"
        BY <2>1, <3>5 DEF CanFinish, OutcomeOf, ActiveStates
      <3> HIDE DEF t
      <3>7. outcome' = [outcome EXCEPT ![j] = t.state]
        <4>1. OutcomeOf(t) = t.state
          BY <3>3 DEF OutcomeOf, ActiveStates
        <4> QED BY <1>0, <3>1, <4>1, OneOutcome
      <3>8. notices' = [notices EXCEPT ![j] = <<t.state>>]
        BY <1>0, <3>2, <3>4
      <3>9. Promise!Deliver(j)
        <4> HIDE DEF outcome
        <4>1. t.state \in IF outcome[j] = "open" THEN {"completed", "failed"} ELSE {"cancelled"}
          BY <3>3, <3>6
        <4> QED BY <3>4, <3>6, <3>7, <3>8, <4>1 DEF Promise!Deliver, outcome
      <3> QED BY <3>9 DEF Promise!Next
    <2>2. CASE ~CanFinish(row[j], row[j].owner)
      BY <1>1, <1>7, <2>2 DEF WriteResult
    <2> QED BY <2>1, <2>2
  <1>8. ASSUME NEW s \in Server, Lose(s) PROVE Step
    <2> DEFINE hit == Matched(s)
    <2>1. /\ row' = [j \in Job |-> IF j \in hit THEN Lost(row[j]) ELSE row[j]]
          /\ notices' = notices
      BY <1>8 DEF Lose
    <2>2. \A j \in hit : outcome[j] = "open" /\ OutcomeOf(Lost(row[j])) = "lost"
      <3> TAKE j \in hit
      <3>1. j \in Job /\ row[j].state \in ActiveStates
        BY DEF Matched, CanLose
      <3>2. Lost(row[j]).state = "lost"
        BY <1>0, <3>1, LostColumns
      <3> QED BY <3>1, <3>2 DEF OutcomeOf, ActiveStates
    <2>3. hit \subseteq Job
      BY DEF Matched
    <2> HIDE DEF hit
    <2>4. outcome' = [j \in Job |-> IF j \in hit THEN "lost" ELSE outcome[j]]
      BY <1>0, <2>1, <2>2, <2>3
    <2>5. Promise!Lose(hit)
      BY <2>1, <2>2, <2>4 DEF Promise!Lose
    <2> QED BY <2>3, <2>5 DEF Promise!Next
  <1>9. ASSUME NEW s \in Server, Claim(s) PROVE Step
    <2> PICK j \in Job : j = op[s].job
      BY <1>0
    <2>1. CASE CanCancel(row[j])
      <3>1. row' = [row EXCEPT ![j] = Cancelled(row[j])] /\ notices' = notices
        BY <1>9, <2>1 DEF Claim
      <3>2. outcome[j] = "open" /\ OutcomeOf(Cancelled(row[j])) = "cancelled"
        BY <1>0, <2>1, CancelledColumns DEF CanCancel, OutcomeOf, ActiveStates
      <3>3. outcome' = [outcome EXCEPT ![j] = "cancelled"]
        BY <1>0, <3>1, <3>2, OneOutcome
      <3>4. Promise!Cancel(j)
        BY <3>1, <3>2, <3>3 DEF Promise!Cancel
      <3> QED BY <3>4 DEF Promise!Next
    <2>2. CASE ~CanCancel(row[j])
      BY <1>1, <1>9, <2>2 DEF Claim
    <2> QED BY <2>1, <2>2
  <1> QED BY <1>1, <1>3, <1>5, <1>6, <1>7, <1>8, <1>9
          DEF Next, Worker, vars, Spawn, KillRefused, Collect, TimeOut, Return, Ask, Probe,
              KillChild, GiveUp, ChildExits, Die

(* What a requester sees of the job store is what JobPromise allows. *)
THEOREM JobsKeepPromise == Spec => KeepsPromise
  BY PromiseInit, PromiseStep, Invariance, PTL DEF Spec, KeepsPromise, Promise!Spec
=============================================================================
