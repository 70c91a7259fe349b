------------------------------- MODULE Pusher ------------------------------
(***************************************************************************)
(* Waking a Claude Code session without an inbox: channel.py writes unread *)
(* mail into its connection in batches, reminds of what stays unread, and  *)
(* says how far receipts have come.                                        *)
(*                                                                         *)
(* One thread builds a batch, records it as pushed, writes it, and takes   *)
(* the record back if the write failed.  Tool threads bring receipts.  A   *)
(* push is its number, which is both its nonce and its time; one taken     *)
(* back leaves no trace, and its number is used again.                     *)
(***************************************************************************)
EXTENDS WakeMail

CONSTANTS
  Batch,     \* messages in one push (BATCH)
  MaxRemind, \* bound: pushes of one message
  LastRemind \* bound: the push after which no message is reminded of

ASSUME PusherAssumption ==
  Batch \in Nat \ {0} /\ MaxRemind \in Nat \ {0} /\ LastRemind \in Nat

VARIABLES
  pushAt,     \* where the push thread is: start, poll, sent or unsent
  schedule,   \* schedule[i]: times message i was pushed, and if it is due again
  hints,      \* hints[n]: the newest message at n told of while n is not held
  notices,    \* names held before to tell of in the next push
  resume,     \* where the unread sweep resumes
  batch,      \* the messages of the push in hand
  pushes,     \* the last push made and not taken back
  unreceipted, \* pushes whose receipt is awaited
  reached,    \* the delivery facts: last push, last one receipted, oldest one not
  snapshots,  \* facts on their way to the store, oldest first
  stored      \* the store has the facts as they are now

(* What has come of it; nothing in the code reads these. *)
VARIABLES
  written,    \* messages some push really took to the session
  arrived,    \* pushes that really reached the session
  failed      \* the last write to the store failed

recordVars == <<pushes, unreceipted, reached>>
storeVars == <<snapshots, stored, failed>>
pushVars == <<pushAt, schedule, hints, notices, resume, batch, recordVars, storeVars,
              written, arrived>>

Push == 1 .. MaxSent * MaxRemind + MaxSent
Unscheduled == [reminded |-> 0, due |-> FALSE]

PushInit ==
  /\ pushAt = "start"
  /\ schedule = [i \in Id |-> Unscheduled]
  /\ hints = [n \in Name |-> 0] /\ notices = {}
  /\ resume = 0 /\ batch = {} /\ pushes = 0 /\ unreceipted = {}
  /\ reached = [last |-> 0, receipted |-> 0, oldest |-> 0]
  /\ snapshots = <<>> /\ stored = FALSE /\ failed = FALSE
  /\ written = {} /\ arrived = {}

Oldest(S) == IF S = {} THEN 0 ELSE Min(S)

----------------------------------------------------------------------------
(* The facts go to the store from the thread that changed them, outside the *)
(* lock; a version number keeps an older one from landing on a newer.       *)

Snapshot(by) ==
  /\ snapshots' = Append([j \in DOMAIN snapshots |-> [snapshots[j] EXCEPT !.newest = FALSE]],
                         [by |-> by, newest |-> TRUE])
  /\ stored' = FALSE
  /\ failed' = FALSE

InHand(by) == \E j \in DOMAIN snapshots : snapshots[j].by = by

(* Those older than one written are not written any more.                    *)
NewerVersions(k) == SubSeq(snapshots, k + 1, Len(snapshots))

WriteFacts(k) ==
  /\ k \in DOMAIN snapshots
  /\ \/ stored' = snapshots[k].newest /\ snapshots' = NewerVersions(k) /\ UNCHANGED failed
     \/ failed' = (failed \/ snapshots[k].newest) /\ snapshots' = RemoveAt(snapshots, k)
        /\ UNCHANGED stored
  /\ UNCHANGED <<mailVars, pushAt, schedule, hints, notices, resume, batch, recordVars,
                 written, arrived>>

Pushing(step) == kind = "push" /\ pushAt = step /\ ~InHand("push")

----------------------------------------------------------------------------
Declare ==
  /\ Pushing("start")
  /\ pushAt' = "poll"
  /\ Snapshot("push")
  /\ UNCHANGED <<mailVars, schedule, hints, notices, resume, batch, recordVars, written, arrived>>

(* A receipt proves its push, and the channel up to it.                      *)
PushReceipt(k) ==
  /\ k \in unreceipted \cap arrived
  /\ ~InHand("tool")
  /\ unreceipted' = {j \in unreceipted : j > k}
  /\ reached' = [reached EXCEPT !.receipted = Max({@, k}), !.oldest = Oldest(unreceipted')]
  /\ Snapshot("tool")
  /\ UNCHANGED <<mailVars, pushAt, schedule, hints, notices, resume, batch, pushes, written, arrived>>

ReminderFalls(i) ==
  /\ pushes <= LastRemind
  /\ schedule[i].reminded \in 1 .. MaxRemind - 1 /\ ~schedule[i].due
  /\ schedule' = [schedule EXCEPT ![i].due = TRUE]
  /\ UNCHANGED <<mailVars, pushAt, hints, notices, resume, batch, recordVars, storeVars,
                 written, arrived>>

(* Names held before with newer mail; advice, so it may go unread.           *)
TellOf(names) ==
  /\ hints' = PointedAt(hints, names)
  /\ notices' = notices \cup names

WholeSweep(next) == resume = 0 /\ next = 0

(* A whole sweep forgets what was read. *)
Kept(swept) ==
  IF WholeSweep(swept.next)
    THEN [i \in Id |-> IF i \in swept.rows THEN schedule[i] ELSE Unscheduled]
    ELSE schedule

DueNow(entry) == entry.reminded = 0 \/ entry.due

(* What is due of the mail this session may read, oldest first. *)
NextBatch ==
  LET swept == Sweep(Owned, resume)
      known == Kept(swept)
      due == {i \in swept.rows : to[i] \in Granted /\ DueNow(known[i])}
  IN  /\ Pushing("poll")
      /\ \E names \in {{}, Newer(HeldBefore, hints)} : TellOf(names)
      /\ resume' = swept.next
      /\ schedule' = known
      /\ batch' = {i \in due : Cardinality({j \in due : j < i}) < Batch}
      /\ pushAt' = IF batch' = {} /\ notices' = {} THEN "poll" ELSE "sent"
      /\ UNCHANGED <<mailVars, recordVars, storeVars, written, arrived>>

(* The store or the registry could not be read, before or after the sweep.   *)
NextBatchFails ==
  /\ Pushing("poll")
  /\ \E names \in {{}, Newer(HeldBefore, hints)} : TellOf(names)
  /\ \/ UNCHANGED <<resume, schedule>>
     \/ LET swept == Sweep(Owned, resume)
        IN  resume' = swept.next /\ schedule' = Kept(swept)
  /\ UNCHANGED <<mailVars, pushAt, batch, recordVars, storeVars, written, arrived>>

(* Recorded before it is written: no receipt can come for an unknown push.   *)
PushSent ==
  /\ Pushing("sent")
  /\ pushes + 1 \in Push
  /\ schedule' = [i \in Id |-> IF i \in batch
                    THEN [reminded |-> schedule[i].reminded + 1, due |-> FALSE] ELSE schedule[i]]
  /\ pushes' = pushes + 1
  /\ unreceipted' = unreceipted \cup {pushes'}
  /\ reached' = [reached EXCEPT !.last = pushes', !.oldest = IF @ = 0 THEN pushes' ELSE @]
  /\ Snapshot("push")
  /\ pushAt' = "write"
  /\ UNCHANGED <<mailVars, hints, notices, resume, batch, written, arrived>>

PushWritten ==
  /\ Pushing("write")
  /\ arrived' = arrived \cup {pushes}
  /\ written' = written \cup batch
  /\ batch' = {} /\ notices' = {}
  /\ pushAt' = "poll"
  /\ UNCHANGED <<mailVars, schedule, hints, resume, recordVars, storeVars>>

DueAtOnce(i) ==
  IF schedule[i].reminded > 1 THEN [reminded |-> schedule[i].reminded - 1, due |-> TRUE]
                              ELSE Unscheduled

(* Every push really written awaits a receipt or is covered by the last.     *)
LastPush(open) == Max({reached.receipted} \cup open)

(* The write failed or timed out: it never reached the session. *)
PushUnsent ==
  /\ Pushing("write")
  /\ schedule' = [i \in Id |-> IF i \in batch THEN DueAtOnce(i) ELSE schedule[i]]
  /\ unreceipted' = unreceipted \ {pushes}
  /\ pushes' = pushes - 1
  /\ reached' = [reached EXCEPT !.last = LastPush(unreceipted'), !.oldest = Oldest(unreceipted')]
  /\ Snapshot("push")
  /\ batch' = {}
  /\ pushAt' = "poll"
  /\ UNCHANGED <<mailVars, hints, notices, resume, written, arrived>>

----------------------------------------------------------------------------
PushThread ==
  \/ Declare \/ NextBatch \/ NextBatchFails \/ PushSent \/ PushWritten \/ PushUnsent

PushWrites == \E k \in DOMAIN snapshots : WriteFacts(k)

PushNext ==
  \/ PushThread \/ PushWrites
  \/ \E i \in Id : ReminderFalls(i)
  \/ \E k \in Push : PushReceipt(k)

PushTypeOK ==
  /\ pushAt \in {"start", "poll", "sent", "write"}
  /\ schedule \in [Id -> [reminded : 0 .. MaxRemind, due : BOOLEAN]]
  /\ hints \in [Name -> 0 .. MaxSent]
  /\ notices \subseteq Name
  /\ resume \in 0 .. MaxSent
  /\ batch \cup written \subseteq Id
  /\ pushes \in Push \cup {0}
  /\ unreceipted \cup arrived \subseteq Push
  /\ reached \in [last : Push \cup {0}, receipted : Push \cup {0}, oldest : Push \cup {0}]
  /\ snapshots \in Seq([by : {"push", "tool"}, newest : BOOLEAN])
  /\ {stored, failed} \subseteq BOOLEAN

(* Nothing is certified the session never saw: but for the push in hand,     *)
(* what is scheduled as pushed was written and every push awaiting a receipt *)
(* arrived, and the facts speak of those alone; and the store has the facts, *)
(* or the last write of them failed (sent, unsent, accept_receipt, _write).  *)
PushReport ==
  /\ pushAt # "write" =>
       /\ \A i \in Id : schedule[i].reminded > 0 => i \in written
       /\ unreceipted \subseteq arrived
       /\ reached.last \in arrived \cup {0}
  /\ reached.receipted \in arrived \cup {0}
  /\ reached.oldest = Oldest(unreceipted)
  /\ unreceipted = {} => reached.last = reached.receipted
  /\ snapshots = <<>> /\ ~failed /\ pushAt # "start" => stored
=============================================================================
