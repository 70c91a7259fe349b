------------------------------ MODULE Watcher ------------------------------
(***************************************************************************)
(* Waking a session from another process: the loop of watch.py, over its   *)
(* own output ("watch") or over the app server a Codex thread is loaded in *)
(* ("turns", wake_codex.py), where a notice starts a turn.                 *)
(*                                                                         *)
(* The loop alone schedules reminders; the app-server client keeps a time  *)
(* until which an answer it lost may have been a turn.  Both times are set *)
(* `remind_after` ahead, so they pass in the order they were set.          *)
(***************************************************************************)
EXTENDS WakeMail

VARIABLES
  watchAt,   \* where the loop is: read, poll, recheck, send or ended
  due,       \* when a notice is due: none (at the next mail), later or now
  pending,   \* the snapshot in hand: there is unread mail
  offered,   \* a notice goes with it
  uncertain, \* a turn may have been started, and its time has not passed
  failing,   \* observation has been failing since some poll
  thread     \* the Codex thread: idle or active

(* What has come of it; nothing in the code reads these. *)
VARIABLES
  window,    \* a notice reached the session less than remind_after ago, and
             \* no empty inbox was seen since
  twice,     \* another did, in that time
  noted      \* the mail that waited when a notice last reached the session

ghosts == <<window, twice, noted>>
watchVars == <<watchAt, due, pending, offered, uncertain, failing, thread, ghosts>>

Watches == kind \in {"watch", "turns"}
Watching(step) == Watches /\ watchAt = step
Turning(step) == kind = "turns" /\ watchAt = step

WatchInit ==
  /\ watchAt = "read" /\ due = "none"
  /\ pending = FALSE /\ offered = FALSE /\ uncertain = FALSE /\ failing = FALSE
  /\ thread = "idle"
  /\ window = FALSE /\ twice = FALSE /\ noted = {}

(* The registry's names of the owner, whatever its server remembers. *)
Waiting == UnreadAt(Granted)

----------------------------------------------------------------------------
(* One snapshot.  An empty one makes a notice due at the next mail. *)
ReadPending ==
  /\ Watching("read") /\ Granted # {}
  /\ pending' = (Waiting # {})
  /\ due' = IF pending' THEN due ELSE "none"
  /\ offered' = (pending' /\ due # "later")
  /\ window' = (window /\ pending')
  /\ watchAt' = "poll"
  /\ UNCHANGED <<mailVars, uncertain, failing, thread, twice, noted>>

(* Observation failed, or the owner has no name now: tried again until the   *)
(* grace is over.                                                            *)
Fail ==
  /\ failing' = TRUE
  /\ watchAt' \in {"read"} \cup (IF failing THEN {"ended"} ELSE {})
  /\ pending' = FALSE /\ offered' = FALSE

ReadUnavailable ==
  /\ Watching("read")
  /\ Fail
  /\ UNCHANGED <<mailVars, due, uncertain, thread, ghosts>>

(* The owner, its host or the thread is gone, or the app server says what    *)
(* cannot be: the watch ends, to be armed again with a new target.           *)
TargetLost ==
  /\ Watches /\ watchAt # "ended"
  /\ watchAt' = "ended"
  /\ UNCHANGED <<mailVars, due, pending, offered, uncertain, failing, thread, ghosts>>

(* The poll is over, and with it the snapshot. *)
Polled ==
  /\ failing' = FALSE
  /\ pending' = FALSE /\ offered' = FALSE
  /\ watchAt' = "read"

(* A notice reaches the session. *)
Wake ==
  /\ window' = TRUE
  /\ twice' = (twice \/ window)
  /\ noted' = Waiting

----------------------------------------------------------------------------
(* Over its own output a notice is accepted as it is written. *)
Emit ==
  /\ kind = "watch" /\ watchAt = "poll" /\ offered
  /\ Wake
  /\ due' = "later"
  /\ Polled
  /\ UNCHANGED <<mailVars, uncertain, thread>>

Quiet ==
  /\ kind = "watch" /\ watchAt = "poll" /\ ~offered
  /\ Polled
  /\ UNCHANGED <<mailVars, due, uncertain, thread, ghosts>>

----------------------------------------------------------------------------
(* Over the app server, which is asked even when nothing is due. *)

(* An empty inbox settles it, even if the host cannot be asked.              *)
StillUncertain == uncertain /\ pending

StatusRead ==
  /\ Turning("poll")
  /\ uncertain' = StillUncertain
  /\ IF ~offered \/ thread = "active" \/ uncertain'
       THEN Polled
       ELSE watchAt' = "recheck" /\ UNCHANGED <<pending, offered, failing>>
  /\ UNCHANGED <<mailVars, due, thread, ghosts>>

StatusUnavailable ==
  /\ Turning("poll")
  /\ uncertain' = StillUncertain
  /\ Fail
  /\ UNCHANGED <<mailVars, due, thread, ghosts>>

(* The mail may have been read while the host was asked.  A time for an      *)
(* answer that may be lost is reserved before the turn is asked for.         *)
Recheck ==
  /\ Turning("recheck") /\ Granted # {}
  /\ IF Waiting = {}
       THEN Polled /\ UNCHANGED uncertain
       ELSE watchAt' = "send" /\ uncertain' = TRUE /\ UNCHANGED <<pending, offered, failing>>
  /\ UNCHANGED <<mailVars, due, thread, ghosts>>

RecheckUnavailable ==
  /\ Turning("recheck")
  /\ Fail
  /\ UNCHANGED <<mailVars, due, uncertain, thread, ghosts>>

(* The turn is confirmed, *)
TurnAccepted ==
  /\ Turning("send")
  /\ Wake
  /\ thread' = "active"
  /\ due' = "later" /\ uncertain' = FALSE
  /\ Polled
  /\ UNCHANGED mailVars

(* or refused, which proves there is none: the host may be asked again,      *)
TurnRefused ==
  /\ Turning("send")
  /\ uncertain' = FALSE
  /\ Fail
  /\ UNCHANGED <<mailVars, due, thread, ghosts>>

(* Mutant: a lost answer is taken for a refusal.                             *)
ReservedNot == FALSE

Reserved == uncertain

(* or its answer is lost, and it was started or not. *)
TurnUnknown ==
  /\ Turning("send")
  /\ \/ Wake /\ thread' = "active"
     \/ UNCHANGED <<thread, ghosts>>
  /\ uncertain' = Reserved
  /\ Fail
  /\ UNCHANGED <<mailVars, due>>

----------------------------------------------------------------------------
(* Time.  A notice's window began before it was accepted, so it ends first.  *)
WindowPasses ==
  /\ watchAt # "send" /\ (window \/ uncertain)
  /\ window' = FALSE /\ uncertain' = FALSE
  /\ UNCHANGED <<mailVars, watchAt, due, pending, offered, failing, thread, twice, noted>>

DueFalls ==
  /\ due = "later" /\ ~window
  /\ due' = "now"
  /\ UNCHANGED <<mailVars, watchAt, pending, offered, uncertain, failing, thread, ghosts>>

(* The thread works on its own too. *)
ThreadMoves ==
  /\ kind = "turns"
  /\ thread' = IF thread = "idle" THEN "active" ELSE "idle"
  /\ UNCHANGED <<mailVars, watchAt, due, pending, offered, uncertain, failing, ghosts>>

----------------------------------------------------------------------------
WatchLoop ==
  \/ ReadPending \/ ReadUnavailable \/ Emit \/ Quiet
  \/ StatusRead \/ StatusUnavailable \/ Recheck \/ RecheckUnavailable
  \/ TurnAccepted \/ TurnRefused \/ TurnUnknown

WatchTime == WindowPasses \/ DueFalls

WatchNext == WatchLoop \/ TargetLost \/ WatchTime \/ ThreadMoves

(* A notice goes out: mail that can be seen is, by an idle thread too. *)
WatchAccepts == Emit \/ TurnAccepted

WatchTypeOK ==
  /\ watchAt \in {"read", "poll", "recheck", "send", "ended"}
  /\ due \in {"none", "later", "now"}
  /\ {pending, offered, uncertain, failing, window, twice} \subseteq BOOLEAN
  /\ thread \in {"idle", "active"}
  /\ noted \subseteq Id

(* No second notice reaches the session within remind_after of one, unless   *)
(* an empty inbox was seen in between: not though the answer of the first    *)
(* was lost, the host is asked again after each failure and other polls      *)
(* carry no notice (run, CodexWake.poll, _rpc).                              *)
NoSecondTurn == ~twice
=============================================================================
