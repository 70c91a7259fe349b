------------------------------- MODULE Wakes -------------------------------
(***************************************************************************)
(* The wakes of one session, of which one serves it: the announcer through *)
(* a Codex thread or a Claude inbox, the channel pusher, or a watch        *)
(* command of another process.  Mail comes, is read by whoever may, and    *)
(* names move while it works.                                              *)
(***************************************************************************)
EXTENDS Announcer, Pusher, Watcher

wakeVars == <<mailVars, annVars, pushVars, watchVars>>

Init == MailInit /\ AnnInit /\ PushInit /\ WatchInit

(* The steps A of one wake, the others staying as they are. *)
ByAnn(A) == A /\ UNCHANGED <<pushVars, watchVars>>
ByPush(A) == A /\ UNCHANGED <<annVars, watchVars>>
ByWatch(A) == A /\ UNCHANGED <<annVars, pushVars>>

Next ==
  \/ MailNext /\ UNCHANGED <<annVars, pushVars, watchVars>>
  \/ ByAnn(AnnNext)
  \/ ByPush(PushNext)
  \/ ByWatch(WatchNext)

Spec == Init /\ [][Next]_wakeVars

(* The loops, their time and their writes go on.  A store that can be read   *)
(* is read some time, wherever a sweep has got to, and then with the mail it *)
(* holds; a session that can be reached is reached some time, and answers.   *)
Works == ByAnn(AnnThread) \/ ByPush(PushThread) \/ ByWatch(WatchLoop)
Times == ByAnn(RetryFalls) \/ ByPush(PushWrites) \/ ByWatch(WatchTime)
Reads == ByAnn(ScanMail) \/ ByPush(NextBatch) \/ ByWatch(ReadPending \/ StatusRead)
Finds == ByAnn(ScanMail /\ found' # Nothing) \/ ByPush(NextBatch /\ batch' # {}) \/ ByWatch(StatusRead)
Rechecks == ByAnn(Revalidate) \/ ByWatch(Recheck)
Reaches == ByAnn(AnnSent) \/ ByPush(PushWritten) \/ ByWatch(WatchAccepts)

FairSpec ==
  /\ Spec
  /\ WF_wakeVars(Works) /\ WF_wakeVars(Times) /\ WF_wakeVars(ByAnn(LateEnds))
  /\ SF_wakeVars(Reads) /\ SF_wakeVars(Finds) /\ SF_wakeVars(Rechecks) /\ SF_wakeVars(Reaches)
  /\ SF_wakeVars(ByAnn(\E k \in landed : AcceptReceipt(k)))

----------------------------------------------------------------------------
(* Every variable of the mail and of the wakes keeps to its domain. *)
TypeOK == MailTypeOK /\ AnnTypeOK /\ PushTypeOK /\ WatchTypeOK

(* No copy of a notice follows one whose send is known to have got through,  *)
(* and no turn is asked for by mail that a turn was asked for already: see   *)
(* SureSentOnce and NoSecondTurn (announce._flush, watch.run,                 *)
(* wake_codex.poll).                                                          *)
NoSecondCopy == SureSentOnce /\ NoSecondTurn

(* What is reported of a wake is true of it: see AnnReport and PushReport    *)
(* (announce._flush and take_back, channel.sent, unsent and accept_receipt). *)
ReportHonest == AnnReport /\ PushReport

(* Mail this session may read is some time read or told of, while it can be  *)
(* reached: not once, a Codex wake has stopped or a watch has ended, nor of a *)
(* thread at work.  Failed reads, failed sends, lost receipts, names that    *)
(* come and go and mail at names held before do not keep it untold for good  *)
(* (announce.poll and run, channel.next_batch and run, watch.run).           *)
Reachable ==
  CASE kind \in {"inbox", "codex"} -> address /\ ~stopped
    [] kind = "push" -> TRUE
    [] OTHER -> watchAt # "ended" /\ thread = "idle"

Told(i) ==
  CASE kind \in {"inbox", "codex"} -> AnnTold(i)
    [] kind = "push" -> i \in written
    [] OTHER -> i \in noted

MailIsTold == \A i \in Id : []<>~(Reachable /\ i \in UnreadAt(Granted) /\ ~Told(i))
=============================================================================
