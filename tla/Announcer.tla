----------------------------- MODULE Announcer -----------------------------
(***************************************************************************)
(* Waking a session with one notice at a time (announce.py), through a     *)
(* running Codex thread (codex_queue.py, codex_steer.py) or the inbox a    *)
(* Claude Code session binds (claude_inbox.py).                            *)
(*                                                                         *)
(* One thread polls, waits a fixed window, checks again and sends.  The    *)
(* event loop sees the calls a Codex thread makes; tool threads bring      *)
(* receipts.  A notice is its nonce; nonces are numbered as they go out,   *)
(* and one taken back, told to nobody, is used again.  Of a push time only *)
(* its presence matters here, and a wait is waiting, then due.             *)
(***************************************************************************)
EXTENDS WakeMail

VARIABLES
  at,        \* where the poll thread is
  address,   \* the session can be reached (pinned, or known from the start)
  stopped,   \* a second top-level thread was seen: no further notices
  issued,    \* the last notice that went out and was not taken back
  out,       \* the outstanding notice, 0 for none
  retry,     \* of the outstanding notice: none, waiting or due
  announced, \* messages some notice was for
  pointed,   \* pointed[n]: the newest message at n told of while n is not held
  undo,      \* what take_back restores of the reservation being sent
  about,     \* the messages notice `issued` is for
  found,     \* what the scan found
  sending,   \* the notice the poll thread has in hand, 0 for none
  cursor,    \* where the unread sweep resumes
  facts,     \* a push was made; one is without its receipt
  dirty,     \* the facts changed since they were last picked up to be written
  saving,    \* facts are being written: as they are now, or older
  recorded,  \* the store has the facts as they are now
  late       \* a write into a Claude inbox that timed out

(* What has come of the notices; nothing in the code reads these. *)
VARIABLES
  landed,    \* notices a copy of which reached the session
  answered,  \* notices whose receipt was accepted
  told,      \* messages notices before `issued` were for, if their names stayed since
  sure,      \* notices whose send returned as sent, of those that may still be sent
  again      \* a copy of one of those landed afterwards

gate == <<issued, out, retry, announced, pointed, undo, about, told>>
evidence == <<address, stopped>>
hand == <<found, sending, cursor>>
report == <<facts, dirty, saving, recorded>>
copies == <<landed, sure, again>>
annVars == <<at, gate, evidence, hand, report, copies, late, answered>>

Announcing == kind \in {"inbox", "codex"}

Unsaid == [n \in Name |-> 0]
Nothing == [ids |-> {}, told |-> {}]
NoUndo == [pointed |-> Unsaid, pushed |-> FALSE]
NoLate == [nonce |-> 0, state |-> "none"]
Idle == "idle"

AnnInit ==
  /\ at = Idle
  /\ address = (kind = "inbox") /\ stopped = FALSE
  /\ issued = 0 /\ out = 0 /\ retry = "none"
  /\ announced = {} /\ pointed = Unsaid /\ undo = NoUndo /\ about = {} /\ told = {}
  /\ found = Nothing /\ sending = 0 /\ cursor = 0
  /\ facts = [pushed |-> FALSE, open |-> FALSE]
  /\ dirty = (kind = "inbox") /\ saving = "no" /\ recorded = ~dirty
  /\ late = NoLate
  /\ landed = {} /\ sure = {} /\ again = FALSE /\ answered = {}

----------------------------------------------------------------------------
(* The facts, and writing them: picked up under the lock, written outside.  *)

FactsBecome(f) ==
  /\ facts' = f
  /\ dirty' = TRUE
  /\ recorded' = FALSE
  /\ saving' = IF saving = "no" THEN "no" ELSE "older"

(* A change that is picked up at once, the poll thread's own. *)
FactsWritten(f) ==
  /\ facts' = f
  /\ dirty' = FALSE
  /\ recorded' = FALSE
  /\ saving' = "now"

PickUp ==
  /\ saving' = IF dirty THEN "now" ELSE "no"
  /\ dirty' = FALSE
  /\ UNCHANGED <<facts, recorded>>

(* Mutant: a failed write is not marked to be tried again.                   *)
NotMarked == dirty

MarkedAgain == TRUE

Flush ==
  /\ saving # "no"
  /\ \/ recorded' = (saving = "now") /\ UNCHANGED dirty
     \/ dirty' = MarkedAgain /\ UNCHANGED recorded
  /\ saving' = "no"
  /\ UNCHANGED <<mailVars, at, gate, evidence, hand, facts, copies, late, answered>>

(* The poll thread goes on once its write is done. *)
Going(step) == Announcing /\ at = step /\ saving = "no"

----------------------------------------------------------------------------
(* Evidence, off the poll thread. *)

(* The first top-level thread that calls is the address. *)
Pin ==
  /\ kind = "codex" /\ ~address
  /\ address' = TRUE
  /\ FactsBecome(facts)
  /\ UNCHANGED <<mailVars, at, stopped, gate, hand, copies, late, answered>>

(* A second one stops the wake for good; a push that had its receipt counts  *)
(* as unanswered again.                                                      *)
SecondThread ==
  /\ kind = "codex" /\ address /\ ~stopped
  /\ stopped' = TRUE
  /\ IF facts.pushed THEN FactsBecome([facts EXCEPT !.open = TRUE]) ELSE UNCHANGED report
  /\ UNCHANGED <<mailVars, at, address, gate, hand, copies, late, answered>>

(* Mutant: any receipt releases the notice that is out.                      *)
AnyNotice(k) == out # 0

Releases(k) == out = k

(* The session answers a notice it got; only its own receipt releases it.    *)
AcceptReceipt(k) ==
  /\ Announcing /\ Releases(k)
  /\ out' = 0 /\ retry' = "none"
  /\ answered' = answered \cup {k}
  /\ FactsBecome([facts EXCEPT !.open = stopped /\ @])
  /\ UNCHANGED <<mailVars, at, evidence, issued, announced, pointed, undo, about, told,
                 hand, copies, late>>

RetryFalls ==
  /\ retry = "waiting"
  /\ retry' = "due"
  /\ UNCHANGED <<mailVars, at, evidence, issued, out, announced, pointed, undo, about, told,
                 hand, report, copies, late, answered>>

----------------------------------------------------------------------------
(* One poll. *)

PollStarts ==
  /\ Going(Idle)
  /\ at' = "check"
  /\ PickUp
  /\ UNCHANGED <<mailVars, evidence, gate, hand, copies, late, answered>>

(* An unsettled notice is sent again, as it was, before anything else. *)
Resend ==
  /\ Going("check") /\ address /\ ~stopped
  /\ retry = "due"
  /\ retry' = "none"
  /\ sending' = out
  /\ at' = "resend"
  /\ UNCHANGED <<mailVars, evidence, issued, out, announced, pointed, undo, about, told,
                 found, cursor, report, copies, late, answered>>

Ready == Going("check") /\ address /\ (stopped \/ retry # "due")

(* Mutant: the end of any sweep is taken for the end of a whole one.         *)
SweptEnd(next) == next = 0

SweptWhole(next) == cursor = 0 /\ next = 0

(* A whole sweep forgets what was read. *)
Known(swept) == IF SweptWhole(swept.next) THEN announced \cap swept.rows ELSE announced

Swept(swept) == cursor' = swept.next /\ announced' = Known(swept)

(* New mail this session may read, and newer mail at names it held before,   *)
(* if that could be read.                                                    *)
ScanMail ==
  LET swept == Sweep(Owned, cursor)
      new == {i \in swept.rows \ Known(swept) : to[i] \in Granted}
  IN  /\ Ready
      /\ Swept(swept)
      /\ \E waiting \in {{}, Newer(HeldBefore, pointed)} :
           found' = [ids |-> new, told |-> waiting]
      /\ at' = IF found' = Nothing THEN Idle ELSE "reserve"
      /\ UNCHANGED <<mailVars, evidence, sending, issued, out, retry, pointed, undo, about, told,
                     report, copies, late, answered>>

(* The store or the registry could not be read, before or after the sweep. *)
ScanFails ==
  /\ Ready
  /\ Swept(Sweep(Owned, cursor)) \/ UNCHANGED <<cursor, announced>>
  /\ at' = Idle
  /\ UNCHANGED <<mailVars, evidence, issued, out, retry, pointed, undo, about, told,
                 found, sending, report, copies, late, answered>>

Unaddressed ==
  /\ Going("check") /\ ~address
  /\ at' = Idle
  /\ UNCHANGED <<mailVars, evidence, gate, hand, report, copies, late, answered>>

(* Outstanding before it is sent, decided under the lock that reserves. *)
Reserve ==
  /\ Going("reserve") /\ ~stopped /\ out = 0
  /\ issued' = issued + 1 /\ out' = issued'
  /\ announced' = announced \cup found.ids
  /\ told' = (told \cup about) \ (parted \cap found.ids) /\ about' = found.ids
  /\ parted' = parted \ {i \in found.ids : to[i] \in Owned}
  /\ undo' = [pointed |-> pointed, pushed |-> facts.pushed]
  /\ pointed' = PointedAt(pointed, found.told)
  /\ FactsWritten([pushed |-> TRUE, open |-> TRUE])
  /\ found' = Nothing
  /\ sending' = issued'
  /\ at' = "window"
  /\ sure' = sure \cap {late.nonce}
  /\ UNCHANGED <<mail, evidence, retry, cursor, landed, again, late, answered>>

ReserveRefused ==
  /\ Going("reserve") /\ (stopped \/ out # 0)
  /\ found' = Nothing
  /\ at' = Idle
  /\ UNCHANGED <<mailVars, evidence, gate, sending, cursor, report, copies, late, answered>>

----------------------------------------------------------------------------
(* The send, after a window in which more mail may come. *)

(* The thread is done with the notice, and will not take it back. *)
Done ==
  /\ sending' = 0 /\ undo' = NoUndo
  /\ at' = Idle
  /\ UNCHANGED <<mailVars, evidence, found, cursor, issued, announced, pointed, about, told, answered>>

(* Nothing was delivered, so no receipt can have come: the reservation is    *)
(* undone.  A stopped wake keeps its unanswered mark.                        *)
TakeBack ==
  /\ out' = 0 /\ issued' = issued - 1
  /\ announced' = announced \ about
  /\ about' = {}
  /\ pointed' = undo.pointed
  /\ undo' = NoUndo
  /\ FactsWritten([pushed |-> undo.pushed, open |-> stopped /\ undo.pushed])
  /\ sending' = 0 /\ at' = Idle
  /\ UNCHANGED <<mailVars, evidence, retry, told, found, cursor, answered>>

(* The names held before that the notice is for, with mail still unread.     *)
Hinted == {n \in HeldBefore : pointed[n] > undo.pointed[n] /\ UnreadAt({n}) # {}}

(* Mail the notice is for still waits: unread at a name still held, or newer *)
(* than was told of before at a name held before.                            *)
StillDue ==
  \/ \E i \in about \ read : to[i] \in Granted
  \/ Newer(Hinted, undo.pointed) # {}

(* What arrived in the window goes with the notice. *)
Revalidate ==
  LET batched == {i \in Sweep(Owned, 0).rows : to[i] \in Granted} \ announced
  IN  /\ Going("window") /\ ~stopped /\ StillDue
      /\ announced' = announced \cup batched
      /\ about' = about \cup batched
      /\ told' = told \ (parted \cap batched) /\ parted' = parted \ batched
      /\ pointed' = PointedAt(pointed, Hinted)
      /\ at' = "send"
      /\ UNCHANGED <<mail, evidence, issued, out, retry, undo, hand, report, copies, late, answered>>

(* Nothing is due any more, or the store could not be read to tell. *)
Cancel ==
  /\ Going("window")
  /\ TakeBack
  /\ UNCHANGED <<copies, late>>

----------------------------------------------------------------------------
(* The transports, over the notice in hand.  A copy that is in doubt reaches *)
(* the session at its attempt or never.                                      *)

Land(k) ==
  /\ landed' = landed \cup {k}
  /\ again' = (again \/ k \in sure)

MayLand(k) == Land(k) \/ UNCHANGED <<landed, again>>

(* The send returned as sent: the notice is not sent again. *)
Sent ==
  /\ sure' = sure \cup {sending}
  /\ Done
  /\ UNCHANGED <<out, retry>>

(* Mutant: a notice that may not have been delivered is not sent again.      *)
NeverRetried == retry

Retried == IF out = sending THEN "waiting" ELSE retry

(* It may or may not have been delivered: due again, unless a receipt has    *)
(* settled it meanwhile.                                                     *)
Unsettled ==
  /\ retry' = Retried
  /\ Done
  /\ UNCHANGED <<out, sure>>

(* codex: steer into the turn that last called, and once more if the turn    *)
(* changed; queue whatever the daemon did not admit.  The route taken is     *)
(* recorded, with the facts if they changed.                                 *)
Steering == kind = "codex" /\ (Going("send") \/ Going("resend") \/ Going("steer"))

SteerAccepted == Steering /\ Land(sending) /\ Sent /\ PickUp /\ UNCHANGED late

SteerNotAdmitted ==
  /\ Steering
  /\ at' \in {"queue"} \cup (IF at = "steer" THEN {} ELSE {"steer"})
  /\ UNCHANGED <<mailVars, evidence, gate, hand, report, copies, late, answered>>

SteerAmbiguous == Steering /\ MayLand(sending) /\ Unsettled /\ PickUp /\ UNCHANGED late

Queued == Going("queue") /\ Land(sending) /\ Sent /\ PickUp /\ UNCHANGED late

QueueFails == Going("queue") /\ MayLand(sending) /\ Unsettled /\ PickUp /\ UNCHANGED late

(* inbox: one bounded write; one that timed out goes on beside the wake.     *)
Posting == kind = "inbox" /\ (Going("send") \/ Going("resend"))
Blocked == late.state \in {"alive", "delivered"}

Written == late.state = "done" /\ late.nonce = sending

PostBlocked == Posting /\ Blocked /\ Unsettled /\ UNCHANGED <<landed, again, late, report>>

PostWritten == Posting /\ Written /\ Sent /\ late' = NoLate /\ UNCHANGED <<landed, again, report>>

MayPost == Posting /\ ~Blocked /\ ~Written

Posted == MayPost /\ Land(sending) /\ Sent /\ late' = NoLate /\ UNCHANGED report

PostInDoubt == MayPost /\ MayLand(sending) /\ Unsettled /\ late' = NoLate /\ UNCHANGED report

PostTimesOut ==
  /\ MayPost
  /\ late' = [nonce |-> sending, state |-> "alive"]
  /\ Unsettled /\ UNCHANGED <<landed, again, report>>

(* Nothing was delivered: a first attempt is undone, a resend is not, since  *)
(* the first may have landed.                                                *)
PostUnreached ==
  /\ MayPost
  /\ late' = NoLate
  /\ \/ at = "send" /\ TakeBack /\ UNCHANGED copies
     \/ at = "resend" /\ Unsettled /\ UNCHANGED <<landed, again, report>>

(* The host reads what is written, or not, and the writer ends: as written, *)
(* or with a failure that may follow a delivery.                             *)
LateMoves(now) ==
  /\ late' = [late EXCEPT !.state = now]
  /\ UNCHANGED <<mailVars, at, evidence, gate, hand, report, answered>>

LateLands == late.state = "alive" /\ Land(late.nonce) /\ LateMoves("delivered") /\ UNCHANGED sure

(* A write that succeeded was as sure as any. *)
LateEnds ==
  \/ /\ late.state = "delivered"
     /\ LateMoves("done")
     /\ sure' = sure \cup {late.nonce}
     /\ UNCHANGED <<landed, again>>
  \/ late.state \in {"alive", "delivered"} /\ LateMoves("failed") /\ UNCHANGED copies

----------------------------------------------------------------------------
AnnSent == SteerAccepted \/ Queued \/ PostWritten \/ Posted

AnnThread ==
  \/ Flush
  \/ PollStarts \/ Resend \/ ScanMail \/ ScanFails \/ Unaddressed
  \/ Reserve \/ ReserveRefused \/ Revalidate \/ Cancel
  \/ AnnSent
  \/ SteerNotAdmitted \/ SteerAmbiguous \/ QueueFails
  \/ PostBlocked \/ PostInDoubt \/ PostTimesOut \/ PostUnreached

AnnNext ==
  \/ AnnThread
  \/ Pin \/ SecondThread \/ RetryFalls \/ LateLands \/ LateEnds
  \/ \E k \in landed : AcceptReceipt(k)

----------------------------------------------------------------------------
AnnTypeOK ==
  /\ at \in {Idle, "check", "reserve", "window", "send", "resend", "steer", "queue"}
  /\ {address, stopped, dirty, recorded, again} \subseteq BOOLEAN
  /\ {issued, out, sending} \subseteq Nat
  /\ retry \in {"none", "waiting", "due"}
  /\ announced \cup about \cup told \subseteq Id
  /\ pointed \in [Name -> 0 .. MaxSent]
  /\ undo \in [pointed : [Name -> 0 .. MaxSent], pushed : BOOLEAN]
  /\ found \in [ids : SUBSET Id, told : SUBSET Name]
  /\ cursor \in 0 .. MaxSent
  /\ facts \in [pushed : BOOLEAN, open : BOOLEAN]
  /\ saving \in {"no", "now", "older"}
  /\ late \in [nonce : Nat, state : {"none", "alive", "delivered", "done", "failed"}]
  /\ landed \cup sure \cup answered \subseteq Nat \ {0}

(* Every notice that reached the session was answered, but the one that is   *)
(* out: however attempts fail, retry and land late, a session never has two  *)
(* to answer (the gate in poll, accept_receipt, take_back, NotSent).         *)
OneNoticeOut == \A k \in landed \ answered : k = out

(* No message is announced by two notices, though sweeps take several polls, *)
(* reservations are undone and windows add to them, unless its name left the  *)
(* session in between, as by a release: a whole sweep forgets what is read,  *)
(* and also what is not this session's while it lasts, and a name claimed    *)
(* again brings it back unread (announced, take_back, poll).                 *)
NoSecondNotice == about \cap told = {}

(* A notice whose send returned as sent is not sent again: a Codex queue     *)
(* would not deduplicate it (unsettled, ClaudeInboxWake.send).               *)
SureSentOnce == ~again

(* What is reported of the wake: never that every push was answered while    *)
(* one was not or no other will come, never that nothing was pushed when     *)
(* something was; and the store has it, or is about to (_flush, take_back,   *)
(* observe).                                                                 *)
AnnReport ==
  /\ facts.pushed /\ ~facts.open => landed \subseteq answered /\ ~stopped
  /\ landed # {} => facts.pushed
  /\ saving = "no" /\ ~dirty => recorded

AnnTold(i) == i \in told \/ (i \in about /\ issued \in landed)
=============================================================================
