------------------------------ MODULE WakeMail -----------------------------
(***************************************************************************)
(* What every way of waking a session has around it: the unread mail of    *)
(* one server's session, the names that mail is addressed to, and which of *)
(* three wakes serves the session (server.py: serve_streams, _wake_claude). *)
(* Announcer.tla, Pusher.tla and Watcher.tla are the wakes; Wakes.tla puts *)
(* them together.                                                          *)
(*                                                                         *)
(* A message is its id, its place in `to`.  A name is held, remembered but *)
(* not granted, was held by this conversation in an earlier server, or not *)
(* this session's (Lanes.tla, Threads.tla model how names move).           *)
(***************************************************************************)
EXTENDS Naturals, SequencesExt

Places == {"held", "lost", "before", "none"}

CONSTANTS
  Name,
  Kinds,     \* the ways of waking a session that are explored
  Earlier,   \* names a Claude conversation held before its server restarted
  Moves,     \* Moves[k]: which names move, and how, while k serves the session
  MaxSent,   \* bound: messages ever sent
  MaxLeft,   \* bound: names that leave the session, each time it happens
  Scan       \* unread mail read in one poll (_SCAN * _PAGES)

(* A grant goes missing and is regained; a name is released, claimed by      *)
(* another session or by this one, again or for the first time; what is known *)
(* of names held earlier changes.                                            *)
AllMoves == {move \in Name \X Places \X Places : move[2] # move[3]}

ASSUME WakeMailAssumption ==
  /\ Kinds \subseteq {"inbox", "codex", "push", "watch", "turns"}
  /\ Earlier \subseteq Name /\ Moves \in [Kinds -> SUBSET AllMoves]
  /\ MaxSent \in Nat /\ MaxLeft \in Nat /\ Scan \in Nat \ {0}

VARIABLES
  kind,   \* the wake that serves this session, decided once
  to,     \* to[i]: the name message i is addressed to
  read,   \* the messages that were acked
  place,  \* place[n]: what this session has to do with n
  left,   \* how often a name has left the session
  parted  \* ghost: messages whose name has left the session since their announcement

mail == <<kind, to, read, place, left>>
mailVars == <<mail, parted>>

Id == 1 .. MaxSent

(* A Codex connection is woken through its thread, a Claude one through its  *)
(* inbox if it has a proven one and by channel events if not, never both; a  *)
(* watch command is another process.  Only Claude has a conversation id.     *)
MailInit ==
  /\ kind \in Kinds
  /\ to = <<>> /\ read = {} /\ left = 0 /\ parted = {}
  /\ place = [n \in Name |-> IF n \notin Earlier THEN "held"
                             ELSE IF kind \in {"inbox", "push"} THEN "before" ELSE "none"]

Owned == {n \in Name : place[n] \in {"held", "lost"}}
Granted == {n \in Name : place[n] = "held"}
HeldBefore == {n \in Name : place[n] = "before"}

UnreadAt(N) == {i \in DOMAIN to : to[i] \in N /\ i \notin read}

(* Unread mail at N past `after`, and where to resume: 0 once the end was    *)
(* reached.                                                                  *)
Sweep(N, after) ==
  LET past == {i \in UnreadAt(N) : i > after}
      page == {i \in past : Cardinality({j \in past : j < i}) < Scan}
  IN  [rows |-> page, next |-> IF Cardinality(page) < Scan THEN 0 ELSE Max(page)]

(* The newest unread message at each of the names N, 0 for none. *)
Newest(N) ==
  [n \in Name |-> IF n \in N THEN Max({0} \cup UnreadAt({n})) ELSE 0]

(* The names N with newer mail than `pointed` says was told of. *)
Newer(N, pointed) == {n \in N : Newest(N)[n] > pointed[n]}

(* `pointed` once the names `told` were told of up to their newest mail. *)
PointedAt(pointed, told) ==
  [n \in Name |-> IF n \in told THEN Newest(told)[n] ELSE pointed[n]]

----------------------------------------------------------------------------
Post(n) ==
  /\ Len(to) < MaxSent
  /\ to' = Append(to, n)
  /\ UNCHANGED <<kind, read, place, left, parted>>

(* Read by this session, or by somebody else who may. *)
Consume(i) ==
  /\ i \in DOMAIN to \ read
  /\ read' = read \cup {i}
  /\ UNCHANGED <<kind, to, place, left, parted>>

NameMoves(n) ==
  \E move \in Moves[kind] :
    /\ move[1] = n /\ place[n] = move[2]
    /\ place' = [place EXCEPT ![n] = move[3]]
    /\ IF Owned \subseteq Owned'
       THEN UNCHANGED <<left, parted>>
       ELSE /\ left < MaxLeft /\ left' = left + 1
            /\ parted' = parted \cup {i \in DOMAIN to : to[i] = n}
    /\ UNCHANGED <<kind, to, read>>

MailNext ==
  \/ \E n \in Name : Post(n) \/ NameMoves(n)
  \/ \E i \in Id : Consume(i)

MailTypeOK ==
  /\ kind \in Kinds
  /\ to \in Seq(Name) /\ Len(to) <= MaxSent
  /\ read \subseteq Id /\ parted \subseteq DOMAIN to
  /\ place \in [Name -> Places] /\ left \in 0 .. MaxLeft
=============================================================================
