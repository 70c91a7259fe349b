---------------------------- MODULE WakesProofs ----------------------------
(***************************************************************************)
(* The safety of the wakes of Wakes.tla, for any names, bounds, moves of   *)
(* names and choice of wakes.  Each wake has an inductive invariant of its *)
(* own, over its variables and the mail; the steps of one wake leave those *)
(* of the others alone.                                                    *)
(***************************************************************************)
EXTENDS Wakes, DataLemmas

----------------------------------------------------------------------------
(* What is inductive. *)

(* A notice is in the poll thread's hand; so far nobody can have got it. *)
InHandNow == at \in {"window", "send", "resend", "steer", "queue"}
FirstTry == at \in {"window", "send"}

(* The notice that is out is the last issued, and is the one in hand unless *)
(* its receipt came; one that can still be taken back reached nobody.       *)
Gate ==
  /\ out \in {0, issued} /\ (out = 0 => retry = "none")
  /\ landed \subseteq 1 .. issued /\ answered \subseteq landed
  /\ OneNoticeOut
  /\ late.nonce <= issued
  /\ InHandNow => /\ sending = issued /\ issued > 0 /\ retry = "none"
                  /\ out = issued \/ issued \in answered
  /\ FirstTry => /\ out = issued /\ issued \notin landed \cup sure
                 /\ late.nonce < issued

(* A write that timed out is of an answered notice or the one out, and no   *)
(* notice that may be sent again was sent for sure, unless that write, now  *)
(* done, is what sent it; only an inbox can be written to late.             *)
Copies ==
  /\ ~again
  /\ sure \subseteq 1 .. issued
  /\ kind # "inbox" => late = NoLate
  /\ at \in {"steer", "queue"} => kind = "codex"
  /\ late.state \in {"alive", "delivered"} =>
       /\ late.nonce \notin sure /\ late.nonce > 0
       /\ late.nonce \in answered \/ late.nonce = out
  /\ (InHandNow \/ retry # "none") /\ issued \in sure =>
       late = [nonce |-> issued, state |-> "done"]

(* What is reported while a notice is out, and what a reservation undone    *)
(* goes back to; facts that are not written are marked or on their way.     *)
Facts ==
  /\ out # 0 => facts.pushed /\ facts.open
  /\ stopped /\ facts.pushed => facts.open
  /\ landed # {} => facts.pushed /\ (FirstTry => undo.pushed)
  /\ saving = "older" => dirty
  /\ ~dirty => recorded \/ saving = "now"

(* Mail at names that are this session's. *)
Ours == {i \in DOMAIN to : to[i] \in Owned}

(* What was announced is remembered until it was read or its name left; so  *)
(* what a sweep found is new, but for what has parted.                      *)
Announced ==
  /\ NoSecondNotice
  /\ told \cup about \cup found.ids \subseteq Ours \cup parted
  /\ told \cup about \subseteq announced \cup read \cup parted
  /\ at = "reserve" => found.ids \cap (told \cup about) \subseteq parted

AnnInv == AnnTypeOK /\ Gate /\ Copies /\ Facts /\ Announced

(* A push in hand is the last made, and the session has all before it.      *)
Pushed ==
  /\ arrived \cup unreceipted \subseteq 1 .. pushes
  /\ reached.receipted \in arrived \cup {0}
  /\ reached.last \in {reached.receipted} \cup unreceipted
  /\ \A k \in {reached.receipted} \cup unreceipted : k <= reached.last
  /\ reached.oldest = Oldest(unreceipted)
  /\ IF pushAt = "write"
       THEN pushes \in unreceipted \ arrived /\ unreceipted \subseteq arrived \cup {pushes}
       ELSE unreceipted \subseteq arrived

(* What a push taken back gives back to each of its messages.               *)
Scheduled ==
  /\ \A i \in Id : schedule[i].due => schedule[i].reminded \in 1 .. MaxRemind - 1
  /\ pushAt = "sent" => \A i \in batch : DueNow(schedule[i])
  /\ pushAt = "write" => \A i \in batch : schedule[i].reminded > 0
  /\ \A i \in Id :
       IF pushAt = "write" /\ i \in batch
         THEN schedule[i].reminded > 1 => i \in written
         ELSE schedule[i].reminded > 0 => i \in written

(* The newest facts are stored, on their way, or failed to be.              *)
Snapshots ==
  /\ stored => snapshots = <<>>
  /\ \A j \in DOMAIN snapshots : snapshots[j].newest => j = Len(snapshots)
  /\ ~failed /\ pushAt # "start" =>
       stored \/ (snapshots # <<>> /\ snapshots[Len(snapshots)].newest)

PushInv == PushTypeOK /\ Pushed /\ Scheduled /\ Snapshots

(* While a notice may still be fresh none is due, or a turn is uncertain;    *)
(* none is asked for before that is settled.                                *)
WatchInv ==
  /\ WatchTypeOK /\ NoSecondTurn
  /\ kind = "watch" => ~uncertain
  /\ window => due = "later" \/ uncertain
  /\ offered => due # "later"
  /\ watchAt = "poll" /\ ~pending => ~window
  /\ watchAt \in {"recheck", "send"} => ~window
  /\ watchAt = "send" => uncertain

Inductive == MailTypeOK /\ AnnInv /\ PushInv /\ WatchInv

----------------------------------------------------------------------------
(* The mail.                                                               *)

LEMMA MailFacts ==
  ASSUME MailTypeOK
  PROVE  /\ Len(to) \in 0 .. MaxSent /\ DOMAIN to = 1 .. Len(to) /\ DOMAIN to \subseteq Id
         /\ \A i \in DOMAIN to : to[i] \in Name
         /\ Owned \in SUBSET Name /\ Granted \in SUBSET Owned /\ HeldBefore \in SUBSET Name
<1>1. to \in Seq(Name) /\ Len(to) \in Nat /\ DOMAIN to = 1 .. Len(to)
      /\ \A i \in 1 .. Len(to) : to[i] \in Name
  BY LenProperties, ElementOfSeq DEF MailTypeOK
<1>2. Len(to) \in 0 .. MaxSent /\ 1 .. Len(to) \subseteq Id
  BY <1>1, WakeMailAssumption DEF MailTypeOK, Id
<1>3. Owned \in SUBSET Name /\ Granted \in SUBSET Owned /\ HeldBefore \in SUBSET Name
  BY DEF Owned, Granted, HeldBefore
<1> QED BY <1>1, <1>2, <1>3

(* Mail comes, is read and stays; mail whose name leaves has parted.        *)
LEMMA MailGrows ==
  ASSUME MailTypeOK, MailNext
  PROVE  /\ MailTypeOK' /\ kind' = kind
         /\ DOMAIN to \subseteq DOMAIN to' /\ \A i \in DOMAIN to : to'[i] = to[i]
         /\ read \subseteq read' /\ parted \subseteq parted' /\ Ours \subseteq Ours' \cup parted'
<1>0. Len(to) \in Nat /\ to \in Seq(Name) /\ DOMAIN to = 1 .. Len(to) /\ DOMAIN to \subseteq Id
  BY MailFacts DEF MailTypeOK
<1>1. ASSUME NEW n \in Name, Post(n)
      PROVE  /\ MailTypeOK' /\ kind' = kind
             /\ DOMAIN to \subseteq DOMAIN to' /\ \A i \in DOMAIN to : to'[i] = to[i]
             /\ read \subseteq read' /\ parted \subseteq parted' /\ Ours \subseteq Ours' \cup parted'
  <2>1. /\ to' \in Seq(Name) /\ Len(to') = Len(to) + 1
        /\ \A i \in 1 .. Len(to) : to'[i] = to[i]
    BY <1>0, <1>1, AppendProperties DEF Post
  <2>2. DOMAIN to' = 1 .. Len(to) + 1
    BY <2>1, LenProperties
  <2>3. Len(to) + 1 <= MaxSent
    BY <1>0, <1>1, WakeMailAssumption DEF Post
  <2>4. MailTypeOK'
    BY <1>0, <1>1, <2>1, <2>2, <2>3 DEF MailTypeOK, Post, Id
  <2> QED BY <1>0, <1>1, <2>1, <2>2, <2>4 DEF Post, Owned, Ours
<1>2. ASSUME NEW n \in Name, NameMoves(n)
      PROVE  /\ MailTypeOK' /\ kind' = kind
             /\ DOMAIN to \subseteq DOMAIN to' /\ \A i \in DOMAIN to : to'[i] = to[i]
             /\ read \subseteq read' /\ parted \subseteq parted' /\ Ours \subseteq Ours' \cup parted'
  <2>1. PICK move \in Moves[kind] : place' = [place EXCEPT ![n] = move[3]]
    BY <1>2 DEF NameMoves
  <2>2. UNCHANGED <<kind, to, read>>
    BY <1>2 DEF NameMoves
  <2>3. move \in AllMoves
    BY WakeMailAssumption DEF MailTypeOK
  <2>4. place' \in [Name -> Places]
    BY <2>1, <2>3 DEF AllMoves, MailTypeOK
  <2>5. /\ left' \in 0 .. MaxLeft /\ parted \subseteq parted' /\ parted' \subseteq DOMAIN to
        /\ Owned \subseteq Owned' \/ \A i \in DOMAIN to : to[i] = n => i \in parted'
    <3>1. left \in 0 .. MaxLeft /\ MaxLeft \in Nat /\ parted \subseteq DOMAIN to
      BY WakeMailAssumption DEF MailTypeOK
    <3>2. CASE Owned \subseteq Owned'
      BY <1>2, <3>1, <3>2 DEF NameMoves
    <3>3. CASE ~(Owned \subseteq Owned')
      <4>1. left < MaxLeft /\ left' = left + 1 /\ parted' = parted \cup {i \in DOMAIN to : to[i] = n}
        BY <1>2, <3>3 DEF NameMoves
      <4> QED BY <1>0, <3>1, <4>1
    <3> QED BY <3>2, <3>3
  <2>6. Ours \subseteq Ours' \cup parted'
    <3> SUFFICES ASSUME NEW i \in DOMAIN to, to[i] \in Owned, i \notin parted'
                 PROVE  to[i] \in Owned'
      BY <2>2 DEF Ours
    <3>1. CASE Owned \subseteq Owned'
      BY <3>1
    <3>2. CASE to[i] # n
      BY <2>1, <3>2 DEF Owned, MailTypeOK
    <3> QED BY <2>5, <3>1, <3>2
  <2>7. MailTypeOK'
    BY <2>2, <2>4, <2>5 DEF MailTypeOK, Id
  <2> QED BY <2>2, <2>5, <2>6, <2>7
<1>3. ASSUME NEW i \in Id, Consume(i)
      PROVE  /\ MailTypeOK' /\ kind' = kind
             /\ DOMAIN to \subseteq DOMAIN to' /\ \A k \in DOMAIN to : to'[k] = to[k]
             /\ read \subseteq read' /\ parted \subseteq parted' /\ Ours \subseteq Ours' \cup parted'
  BY <1>3 DEF Consume, MailTypeOK, Owned, Ours, Id
<1> QED BY <1>1, <1>2, <1>3 DEF MailNext

LEMMA UnreadFacts ==
  ASSUME MailTypeOK, NEW N
  PROVE  /\ UnreadAt(N) \in SUBSET (1 .. Len(to)) /\ UnreadAt(N) \in SUBSET Id
         /\ UnreadAt(N) \in SUBSET Nat /\ \A i \in UnreadAt(N) : i <= MaxSent
<1>1. UnreadAt(N) \in SUBSET (1 .. Len(to)) /\ UnreadAt(N) \in SUBSET Id
  BY MailFacts DEF UnreadAt
<1>2. \A i \in Id : i \in Nat /\ i <= MaxSent
  BY WakeMailAssumption DEF Id
<1> QED BY <1>1, <1>2

(* A page is unread mail in order of age; a page that is not full, which is *)
(* what leaves no place to resume at, is all there is past the cursor.      *)
LEMMA SweepFacts ==
  ASSUME MailTypeOK, NEW N, NEW after \in Nat
  PROVE  /\ Sweep(N, after).rows \in SUBSET UnreadAt(N)
         /\ Sweep(N, after).next \in 0 .. MaxSent
         /\ Sweep(N, after).next = 0 =>
              Sweep(N, after).rows = {i \in UnreadAt(N) : i > after}
<1> DEFINE past == {i \in UnreadAt(N) : i > after}
           page == {i \in past : Cardinality({j \in past : j < i}) < Scan}
<1>1. Sweep(N, after) = [rows |-> page, next |-> IF Cardinality(page) < Scan THEN 0 ELSE Max(page)]
  BY DEF Sweep
<1>2. past \in SUBSET (1 .. Len(to)) /\ Len(to) \in Nat /\ page \in SUBSET past
  BY UnreadFacts, MailFacts
<1>3. Scan \in Nat \ {0} /\ MaxSent \in Nat
  BY WakeMailAssumption
<1>4. IsFiniteSet(past) /\ IsFiniteSet(page) /\ Cardinality(page) \in Nat
  <2>1. IsFiniteSet(1 .. Len(to))
    BY <1>2, FS_Interval
  <2>2. IsFiniteSet(past)
    BY <1>2, <2>1, FS_Subset
  <2>3. IsFiniteSet(page)
    BY <1>2, <2>2, FS_Subset
  <2> QED BY <2>2, <2>3, FS_CardinalityType
<1>5. CASE Cardinality(page) < Scan
  <2>1. page = past
    <3> SUFFICES ASSUME past \ page # {} PROVE FALSE
      BY <1>2
    <3>1. past \ page \in SUBSET Nat
      BY <1>2
    <3>2. PICK i \in past \ page : \A j \in past \ page : i <= j
      BY <3>1, LeastNat
    <3> DEFINE L == {j \in past : j < i}
    <3>3. L \in SUBSET page
      <4>1. ASSUME NEW j \in L PROVE j \in page
        <5>1. j \in past /\ j < i /\ j \in Nat /\ i \in Nat
          BY <1>2, <3>1
        <5>2. j \notin past \ page
          BY <3>2, <5>1
        <5> QED BY <5>1, <5>2
      <4> QED BY <4>1
    <3>4. Cardinality(L) <= Cardinality(page) /\ IsFiniteSet(L)
      BY <1>4, <3>3, FS_Subset
    <3>5. Cardinality(L) \in Nat
      BY <3>4, FS_CardinalityType
    <3>6. Cardinality(L) < Scan
      BY <1>3, <1>4, <1>5, <3>4, <3>5
    <3>7. i \in page
      BY <3>2, <3>6
    <3> QED BY <3>2, <3>7
  <2>2. Sweep(N, after).rows = page /\ Sweep(N, after).next = 0
    BY <1>1, <1>5
  <2>3. page \in SUBSET UnreadAt(N)
    OBVIOUS
  <2> HIDE DEF page
  <2> QED BY <1>3, <2>1, <2>2, <2>3
<1>6. CASE ~(Cardinality(page) < Scan)
  <2>1. page # {}
    <3>1. Cardinality({}) = 0
      BY FS_EmptySet
    <3> HIDE DEF page
    <3> QED BY <1>3, <1>6, <3>1
  <2>2. page \in SUBSET Nat /\ page \in SUBSET (1 .. Len(to)) /\ \A i \in page : i <= Len(to)
    BY <1>2
  <2>3. Max(page) \in page
    <3> HIDE DEF page
    <3> QED BY <1>2, <2>1, <2>2, MaxNat
  <2>4. Max(page) \in 1 .. MaxSent
    <3>1. Len(to) \in 0 .. MaxSent
      BY MailFacts
    <3> HIDE DEF page
    <3>2. Max(page) \in 1 .. Len(to)
      BY <2>2, <2>3
    <3> HIDE DEF past
    <3> QED BY <1>3, <3>1, <3>2
  <2>5. Sweep(N, after).rows = page /\ Sweep(N, after).next = Max(page)
    BY <1>1, <1>6
  <2>6. page \in SUBSET UnreadAt(N)
    OBVIOUS
  <2> HIDE DEF page
  <2> QED BY <1>3, <2>4, <2>5, <2>6
<1> QED BY <1>5, <1>6

(* Telling of names marks each with a message there is, or with none.       *)
LEMMA PointedType ==
  ASSUME MailTypeOK, NEW pointed0 \in [Name -> 0 .. MaxSent], NEW names \in SUBSET Name
  PROVE  PointedAt(pointed0, names) \in [Name -> 0 .. MaxSent]
<1>1. ASSUME NEW n \in Name PROVE Max({0} \cup UnreadAt({n})) \in 0 .. MaxSent
  <2> DEFINE S == {0} \cup UnreadAt({n})
  <2>1. MaxSent \in Nat
    BY WakeMailAssumption
  <2>2. S \in SUBSET Nat /\ S # {} /\ \A i \in S : i <= MaxSent
    BY <2>1, UnreadFacts
  <2>3. Max(S) \in S
    <3> HIDE DEF S
    <3> QED BY <2>1, <2>2, MaxNat
  <2>4. Max(S) \in Nat /\ Max(S) <= MaxSent
    <3> HIDE DEF S
    <3> QED BY <2>2, <2>3
  <2> HIDE DEF S
  <2>5. Max(S) \in 0 .. MaxSent
    BY <2>1, <2>4
  <2> QED BY <2>5 DEF S
<1>2. \A n \in Name : Newest(names)[n] \in 0 .. MaxSent
  BY <1>1, WakeMailAssumption DEF Newest
<1> QED BY <1>2 DEF PointedAt

----------------------------------------------------------------------------
(* The watch.                                                              *)

LEMMA WatchStarts ==
  ASSUME MailInit, WatchInit
  PROVE  WatchInv
BY DEF MailInit, WatchInit, WatchInv, WatchTypeOK, NoSecondTurn

(* Each step of the loop, and of time, keeps what says no second notice     *)
(* can reach the session yet.                                               *)
LEMMA WatchStep ==
  ASSUME MailTypeOK, WatchInv, WatchNext
  PROVE  WatchInv' /\ UNCHANGED mailVars
<1> USE DEF WatchInv, WatchTypeOK, NoSecondTurn, ghosts, mailVars, mail
<1>0. Waiting \in SUBSET Id
  BY UnreadFacts DEF Waiting
<1>1. CASE ReadPending
  BY <1>0, <1>1 DEF ReadPending, Watching, Watches
<1>2. CASE ReadUnavailable
  BY <1>0, <1>2 DEF ReadUnavailable, Watching, Watches, Fail
<1>3. CASE Emit
  BY <1>0, <1>3 DEF Emit, Wake, Polled
<1>4. CASE Quiet
  BY <1>0, <1>4 DEF Quiet, Polled
<1>5. CASE StatusRead
  BY <1>0, <1>5 DEF StatusRead, Turning, StillUncertain, Polled
<1>6. CASE StatusUnavailable
  BY <1>0, <1>6 DEF StatusUnavailable, Turning, StillUncertain, Fail
<1>7. CASE Recheck
  BY <1>0, <1>7 DEF Recheck, Turning, Polled
<1>8. CASE RecheckUnavailable
  BY <1>0, <1>8 DEF RecheckUnavailable, Turning, Fail
<1>9. CASE TurnAccepted
  BY <1>0, <1>9 DEF TurnAccepted, Turning, Wake, Polled
<1>10. CASE TurnRefused
  BY <1>0, <1>10 DEF TurnRefused, Turning, Fail
<1>11. CASE TurnUnknown
  <2>1. uncertain /\ ~window /\ kind = "turns" /\ uncertain' = uncertain /\ due' = due
        /\ UNCHANGED mailVars /\ Fail
    BY <1>11 DEF TurnUnknown, Turning, Reserved
  <2>2. CASE Wake /\ thread' = "active"
    BY <1>0, <2>1, <2>2 DEF Wake, Fail
  <2>3. CASE UNCHANGED <<thread, ghosts>>
    BY <2>1, <2>3 DEF Fail
  <2> QED BY <1>11, <2>2, <2>3 DEF TurnUnknown
<1>12. CASE TargetLost
  BY <1>0, <1>12 DEF TargetLost, Watches
<1>13. CASE WindowPasses
  BY <1>0, <1>13 DEF WindowPasses
<1>14. CASE DueFalls
  BY <1>0, <1>14 DEF DueFalls
<1>15. CASE ThreadMoves
  BY <1>0, <1>15 DEF ThreadMoves
<1> QED
  BY <1>1, <1>2, <1>3, <1>4, <1>5, <1>6, <1>7, <1>8, <1>9, <1>10, <1>11, <1>12, <1>13, <1>14, <1>15
  DEF WatchNext, WatchLoop, WatchTime

----------------------------------------------------------------------------
(* The pushes.                                                             *)

Snap == [by : {"push", "tool"}, newest : BOOLEAN]

LEMMA PushBound ==
  Push \in SUBSET (Nat \ {0}) /\ MaxRemind \in Nat \ {0} /\ \E b \in Nat : Push = 1 .. b
<1>1. MaxSent * MaxRemind + MaxSent \in Nat
  BY WakeMailAssumption, PusherAssumption
<1> QED BY <1>1, PusherAssumption DEF Push

LEMMA OldestFacts ==
  ASSUME NEW S \in SUBSET (Nat \ {0})
  PROVE  /\ S = {} => Oldest(S) = 0
         /\ S # {} => Oldest(S) \in S /\ \A k \in S : Oldest(S) <= k
<1>1. S \in SUBSET Nat
  OBVIOUS
<1> QED BY <1>1, MinNat DEF Oldest

(* A newer push is older than none that is still to be receipted.           *)
LEMMA OldestStays ==
  ASSUME NEW p \in Nat, NEW S \in SUBSET (1 .. p)
  PROVE  Oldest(S \cup {p + 1}) = IF Oldest(S) = 0 THEN p + 1 ELSE Oldest(S)
<1> DEFINE T == S \cup {p + 1}
<1>1. S \in SUBSET (Nat \ {0}) /\ T \in SUBSET (Nat \ {0}) /\ T # {}
  OBVIOUS
<1>2. Oldest(T) \in T /\ \A k \in T : Oldest(T) <= k
  <2> HIDE DEF T
  <2> QED BY <1>1, OldestFacts
<1>3. CASE S = {}
  BY <1>2, <1>3, <1>1, OldestFacts
<1>4. CASE S # {}
  <2>1. Oldest(S) \in S /\ \A k \in S : Oldest(S) <= k
    BY <1>1, <1>4, OldestFacts
  <2>2. Oldest(S) \in 1 .. p
    BY <2>1
  <2>3. Oldest(T) <= Oldest(S)
    BY <1>2, <2>1
  <2>4. Oldest(T) # p + 1
    BY <2>2, <2>3
  <2>5. Oldest(T) \in S
    BY <1>2, <2>4
  <2>6. Oldest(S) <= Oldest(T) /\ Oldest(T) \in 1 .. p
    BY <2>1, <2>5
  <2> QED BY <2>2, <2>3, <2>6
<1> QED BY <1>3, <1>4

(* New facts are on their way, and nothing older is newest.                 *)
LEMMA SnapshotKeeps ==
  ASSUME PushTypeOK, NEW by \in {"push", "tool"}, Snapshot(by)
  PROVE  snapshots' \in Seq(Snap) /\ {stored', failed'} \subseteq BOOLEAN /\ Snapshots'
<1> DEFINE aged == [j \in DOMAIN snapshots |-> [snapshots[j] EXCEPT !.newest = FALSE]]
<1>1. /\ snapshots \in Seq(Snap) /\ Len(snapshots) \in Nat
      /\ DOMAIN snapshots = 1 .. Len(snapshots)
      /\ \A j \in 1 .. Len(snapshots) : snapshots[j] \in Snap
  BY LenProperties, ElementOfSeq DEF PushTypeOK, Snap
<1>2. aged \in [1 .. Len(snapshots) -> Snap] /\ \A j \in 1 .. Len(snapshots) : ~aged[j].newest
  BY <1>1 DEF Snap
<1>3. aged \in Seq(Snap)
  <2> HIDE DEF aged
  <2> QED BY <1>1, <1>2, FunctionIsSeq
<1>4. Len(aged) = Len(snapshots)
  <2>1. DOMAIN aged = 1 .. Len(snapshots)
    BY <1>1
  <2> HIDE DEF aged
  <2> QED BY <1>1, <1>3, <2>1, LenProperties
<1>5. snapshots' = Append(aged, [by |-> by, newest |-> TRUE]) /\ ~stored' /\ ~failed'
      /\ stored' \in BOOLEAN /\ failed' \in BOOLEAN
  BY DEF Snapshot
<1>6. [by |-> by, newest |-> TRUE] \in Snap
  BY DEF Snap
<1> HIDE DEF aged
<1>7. /\ snapshots' \in Seq(Snap) /\ Len(snapshots') = Len(snapshots) + 1
      /\ \A j \in 1 .. Len(snapshots) : snapshots'[j] = aged[j]
      /\ snapshots'[Len(snapshots) + 1] = [by |-> by, newest |-> TRUE]
  BY <1>3, <1>4, <1>5, <1>6, AppendProperties
<1>8. DOMAIN snapshots' = 1 .. Len(snapshots) + 1 /\ snapshots' # <<>>
  BY <1>1, <1>7, LenProperties, EmptySeq
<1>9. snapshots'[Len(snapshots')].newest
  BY <1>7
<1>10. \A j \in DOMAIN snapshots' : snapshots'[j].newest => j = Len(snapshots')
  BY <1>1, <1>2, <1>7, <1>8
<1> QED BY <1>5, <1>7, <1>8, <1>9, <1>10 DEF Snapshots

(* A write stores facts, and drops those older, or it fails.                *)
LEMMA WriteKeeps ==
  ASSUME PushTypeOK, Snapshots, NEW k, WriteFacts(k)
  PROVE  snapshots' \in Seq(Snap) /\ {stored', failed'} \subseteq BOOLEAN /\ Snapshots'
<1> DEFINE n == Len(snapshots)
<1>1. /\ snapshots \in Seq(Snap) /\ n \in Nat /\ DOMAIN snapshots = 1 .. n
      /\ \A j \in 1 .. n : snapshots[j] \in Snap
  BY LenProperties, ElementOfSeq DEF PushTypeOK, Snap
<1>2. k \in 1 .. n /\ snapshots[k].newest \in BOOLEAN /\ snapshots # <<>> /\ ~stored
      /\ pushAt' = pushAt
  <2>1. k \in 1 .. n
    BY <1>1 DEF WriteFacts
  <2>2. snapshots # <<>>
    BY <1>1, <2>1, EmptySeq
  <2> QED BY <1>1, <2>1, <2>2 DEF WriteFacts, Snapshots, Snap
<1>3. snapshots[k].newest => k = n
  BY <1>1, <1>2 DEF Snapshots
<1>4. ~failed /\ pushAt # "start" => snapshots[n].newest
  BY <1>2 DEF Snapshots
<1>5. CASE stored' = snapshots[k].newest /\ snapshots' = NewerVersions(k) /\ UNCHANGED failed
  <2>1. /\ snapshots' \in Seq(Snap)
        /\ Len(snapshots') = n - k
        /\ \A j \in 1 .. n - k : snapshots'[j] = snapshots[k + j]
    <3>1. \A j \in k + 1 .. n : snapshots[j] \in Snap
      BY <1>1, <1>2
    <3>2. k + 1 \in Int /\ n \in Int /\ k \in Int
      BY <1>1, <1>2
    <3>3. /\ SubSeq(snapshots, k + 1, n) \in Seq(Snap)
          /\ Len(SubSeq(snapshots, k + 1, n)) = IF k + 1 <= n THEN n - (k + 1) + 1 ELSE 0
          /\ \A j \in 1 .. n - (k + 1) + 1 : SubSeq(snapshots, k + 1, n)[j] = snapshots[(k + 1) + j - 1]
      <4> HIDE DEF n
      <4> QED BY <3>1, <3>2, SubSeqProperties
    <3>4. snapshots' = SubSeq(snapshots, k + 1, n)
      BY <1>5 DEF NewerVersions
    <3> HIDE DEF n
    <3> QED BY <1>1, <1>2, <3>2, <3>3, <3>4
  <2>2. DOMAIN snapshots' = 1 .. n - k
    BY <2>1, LenProperties
  <2>3. stored' => snapshots' = <<>>
    <3> SUFFICES ASSUME stored' PROVE snapshots' = <<>>
      OBVIOUS
    <3>1. Len(snapshots') = 0
      <4>1. k = n /\ n \in Nat /\ Len(snapshots') = n - k
        BY <1>1, <1>2, <1>3, <1>5, <2>1
      <4> HIDE DEF n
      <4> QED BY <4>1
    <3> QED BY <2>1, <3>1, EmptySeq
  <2>4. \A j \in DOMAIN snapshots' : snapshots'[j].newest => j = Len(snapshots')
    <3> SUFFICES ASSUME NEW j \in 1 .. n - k, snapshots'[j].newest PROVE j = n - k
      BY <2>1, <2>2
    <3>0. n \in Nat /\ k \in 1 .. n
      BY <1>1, <1>2
    <3>1. k + j \in 1 .. n /\ snapshots[k + j].newest
      <4> HIDE DEF n
      <4> QED BY <3>0, <2>1
    <3>2. k + j = n
      BY <1>1, <3>1 DEF Snapshots
    <3> HIDE DEF n
    <3> QED BY <3>0, <3>2
  <2>5. ~failed' /\ pushAt' # "start" =>
          stored' \/ (snapshots' # <<>> /\ snapshots'[Len(snapshots')].newest)
    <3> SUFFICES ASSUME ~failed, pushAt # "start", ~snapshots[k].newest
                 PROVE  snapshots' # <<>> /\ snapshots'[Len(snapshots')].newest
      BY <1>2, <1>5
    <3>1. snapshots[n].newest
      BY <1>4
    <3>2. k # n
      BY <3>1
    <3>3. n - k \in 1 .. n - k /\ k + (n - k) = n /\ n - k # 0
      <4>1. n \in Nat /\ k \in 1 .. n
        BY <1>1, <1>2
      <4> HIDE DEF n
      <4> QED BY <4>1, <3>2
    <3>4. snapshots'[n - k] = snapshots[n]
      BY <2>1, <3>3
    <3> QED BY <2>1, <3>1, <3>3, <3>4, EmptySeq
  <2> QED BY <1>2, <1>5, <2>1, <2>3, <2>4, <2>5 DEF Snapshots, PushTypeOK
<1>6. CASE failed' = (failed \/ snapshots[k].newest) /\ snapshots' = RemoveAt(snapshots, k)
           /\ UNCHANGED stored
  <2>1. /\ snapshots' \in Seq(Snap) /\ Len(snapshots') = n - 1
        /\ \A j \in 1 .. n - 1 : snapshots'[j] = IF j < k THEN snapshots[j] ELSE snapshots[j + 1]
    BY <1>1, <1>2, <1>6, RemoveAtEffect
  <2>2. DOMAIN snapshots' = 1 .. n - 1
    BY <2>1, LenProperties
  <2>3. \A j \in DOMAIN snapshots' : snapshots'[j].newest => j = Len(snapshots')
    <3> SUFFICES ASSUME NEW j \in 1 .. n - 1, snapshots'[j].newest PROVE j = n - 1
      BY <2>1, <2>2
    <3>1. j \in 1 .. n /\ j + 1 \in 1 .. n /\ j # n
      <4>1. n \in Nat
        BY <1>1
      <4> HIDE DEF n
      <4> QED BY <4>1
    <3>2. ~(snapshots[j].newest)
      BY <1>1, <3>1 DEF Snapshots
    <3>3. snapshots[j + 1].newest
      BY <2>1, <3>2
    <3>4. j + 1 = n
      BY <1>1, <3>1, <3>3 DEF Snapshots
    <3>5. n \in Nat
      BY <1>1
    <3> HIDE DEF n
    <3> QED BY <3>4, <3>5
  <2>4. ~failed' /\ pushAt' # "start" =>
          stored' \/ (snapshots' # <<>> /\ snapshots'[Len(snapshots')].newest)
    <3> SUFFICES ASSUME ~failed, pushAt # "start", ~snapshots[k].newest
                 PROVE  snapshots' # <<>> /\ snapshots'[Len(snapshots')].newest
      BY <1>2, <1>6
    <3>1. snapshots[n].newest
      BY <1>4
    <3>2. k # n
      BY <3>1
    <3>3. n - 1 \in 1 .. n - 1 /\ ~(n - 1 < k) /\ (n - 1) + 1 = n /\ n - 1 # 0
      <4>1. n \in Nat /\ k \in 1 .. n
        BY <1>1, <1>2
      <4> HIDE DEF n
      <4> QED BY <4>1, <3>2
    <3>4. snapshots'[n - 1] = snapshots[n]
      BY <2>1, <3>3
    <3> QED BY <2>1, <3>1, <3>3, <3>4, EmptySeq
  <2> QED BY <1>2, <1>6, <2>1, <2>3, <2>4 DEF Snapshots, PushTypeOK
<1> QED BY <1>5, <1>6 DEF WriteFacts

LEMMA PushStarts ==
  ASSUME PushInit
  PROVE  PushInv
<1>1. MaxSent \in Nat /\ MaxRemind \in Nat \ {0}
  BY WakeMailAssumption, PusherAssumption
<1>2. PushTypeOK
  <2>1. /\ pushAt = "start" /\ notices = {} /\ resume = 0 /\ batch = {} /\ pushes = 0
        /\ unreceipted = {} /\ written = {} /\ arrived = {} /\ stored = FALSE /\ failed = FALSE
        /\ snapshots = <<>> /\ reached = [last |-> 0, receipted |-> 0, oldest |-> 0]
        /\ schedule = [i \in Id |-> Unscheduled] /\ hints = [n \in Name |-> 0]
    BY DEF PushInit
  <2>2. schedule \in [Id -> [reminded : 0 .. MaxRemind, due : BOOLEAN]]
    BY <1>1, <2>1 DEF Unscheduled
  <2>3. hints \in [Name -> 0 .. MaxSent] /\ resume \in 0 .. MaxSent
    BY <1>1, <2>1
  <2>4. reached \in [last : Push \cup {0}, receipted : Push \cup {0}, oldest : Push \cup {0}]
    BY <2>1
  <2>5. snapshots \in Seq([by : {"push", "tool"}, newest : BOOLEAN])
    BY <2>1, EmptySeq
  <2>6. notices \subseteq Name /\ batch \cup written \subseteq Id /\ pushes \in Push \cup {0}
        /\ unreceipted \cup arrived \subseteq Push /\ {stored, failed} \subseteq BOOLEAN
    BY <2>1
  <2> QED BY <2>1, <2>2, <2>3, <2>4, <2>5, <2>6 DEF PushTypeOK
<1>3. Pushed
  BY <1>1 DEF PushInit, Pushed, Oldest
<1>4. Scheduled
  BY <1>1 DEF PushInit, Scheduled, Unscheduled
<1>5. Snapshots
  BY EmptySeq, LenProperties DEF PushInit, Snapshots
<1> QED BY <1>2, <1>3, <1>4, <1>5 DEF PushInv

(* The store's facts are about the other state of a push only in that       *)
(* nothing is stored before the first.                                      *)
LEMMA StoreKept ==
  ASSUME PushTypeOK, Snapshots, UNCHANGED storeVars, pushAt = "start" => pushAt' = "start"
  PROVE  Snapshots'
BY DEF Snapshots, storeVars

(* What a sweep forgets was not scheduled before it is again.               *)
LEMMA KeptFacts ==
  ASSUME PushTypeOK, NEW swept
  PROVE  /\ Kept(swept) \in [Id -> [reminded : 0 .. MaxRemind, due : BOOLEAN]]
         /\ \A i \in Id : Kept(swept)[i] \in {schedule[i], Unscheduled}
<1>1. Unscheduled \in [reminded : 0 .. MaxRemind, due : BOOLEAN]
  BY PushBound DEF Unscheduled
<1> QED BY <1>1 DEF Kept, PushTypeOK

LEMMA TellOfFacts ==
  ASSUME MailTypeOK, PushTypeOK, \E names \in {{}, Newer(HeldBefore, hints)} : TellOf(names)
  PROVE  hints' \in [Name -> 0 .. MaxSent] /\ notices' \subseteq Name
<1>1. PICK names \in {{}, Newer(HeldBefore, hints)} : TellOf(names)
  OBVIOUS
<1>2. names \in SUBSET Name
  BY MailFacts DEF Newer
<1>3. hints \in [Name -> 0 .. MaxSent] /\ notices \subseteq Name
  BY DEF PushTypeOK
<1>4. PointedAt(hints, names) \in [Name -> 0 .. MaxSent]
  BY <1>2, <1>3, PointedType
<1> QED BY <1>1, <1>2, <1>3, <1>4 DEF TellOf

(* A schedule with messages forgotten, while no push is in hand.            *)
LEMMA ScheduledForgets ==
  ASSUME PushTypeOK, Scheduled, pushAt # "write", pushAt' # "write",
         schedule' \in [Id -> [reminded : 0 .. MaxRemind, due : BOOLEAN]],
         \A i \in Id : schedule'[i] \in {schedule[i], Unscheduled},
         pushAt' = "sent" => \A i \in batch' : DueNow(schedule'[i]),
         UNCHANGED written
  PROVE  Scheduled'
<1>1. Unscheduled.reminded = 0 /\ ~Unscheduled.due
  BY DEF Unscheduled
<1>2. \A i \in Id : schedule'[i].due => schedule'[i].reminded \in 1 .. MaxRemind - 1
  BY <1>1 DEF Scheduled
<1>3. \A i \in Id : schedule'[i].reminded > 0 => i \in written'
  BY <1>1 DEF Scheduled
<1> QED BY <1>2, <1>3 DEF Scheduled, DueNow

LEMMA DeclareKeeps ==
  ASSUME PushInv, Declare
  PROVE  PushInv'
<1>1. snapshots' \in Seq(Snap) /\ {stored', failed'} \subseteq BOOLEAN /\ Snapshots'
  BY SnapshotKeeps DEF PushInv, Declare
<1>2. PushTypeOK'
  BY <1>1 DEF PushInv, PushTypeOK, Declare, Pushing, Snap, recordVars
<1>3. Pushed'
  BY DEF PushInv, Pushed, Declare, Pushing, recordVars
<1>4. Scheduled'
  BY DEF PushInv, Scheduled, Declare, Pushing, DueNow
<1> QED BY <1>1, <1>2, <1>3, <1>4 DEF PushInv

LEMMA NextBatchKeeps ==
  ASSUME MailTypeOK, PushInv, NextBatch
  PROVE  PushInv'
<1> DEFINE swept == Sweep(Owned, resume)
           due0 == {i \in swept.rows : to[i] \in Granted /\ DueNow(Kept(swept)[i])}
<1>0. PushTypeOK /\ Scheduled /\ Snapshots /\ Pushed
  BY DEF PushInv
<1>1. swept.rows \in SUBSET Id /\ swept.next \in 0 .. MaxSent
  <2>1. resume \in Nat
    BY <1>0, WakeMailAssumption DEF PushTypeOK
  <2> QED BY <2>1, SweepFacts, UnreadFacts
<1>2. /\ Kept(swept) \in [Id -> [reminded : 0 .. MaxRemind, due : BOOLEAN]]
      /\ \A i \in Id : Kept(swept)[i] \in {schedule[i], Unscheduled}
  BY <1>0, KeptFacts
<1>3. /\ pushAt = "poll" /\ pushAt' \in {"poll", "sent"} /\ UNCHANGED <<recordVars, storeVars, written, arrived>>
      /\ resume' = swept.next /\ schedule' = Kept(swept) /\ batch' \subseteq due0
      /\ \E names \in {{}, Newer(HeldBefore, hints)} : TellOf(names)
  BY DEF NextBatch, Pushing
<1>4. hints' \in [Name -> 0 .. MaxSent] /\ notices' \subseteq Name
  BY <1>0, <1>3, TellOfFacts
<1>5. batch' \subseteq Id /\ \A i \in batch' : DueNow(schedule'[i])
  BY <1>1, <1>3
<1> HIDE DEF swept, due0
<1>6. PushTypeOK'
  BY <1>0, <1>1, <1>2, <1>3, <1>4, <1>5 DEF PushTypeOK, recordVars, storeVars
<1>7. Pushed'
  BY <1>0, <1>3 DEF Pushed, recordVars
<1>8. Scheduled'
  BY <1>0, <1>2, <1>3, <1>5, ScheduledForgets
<1>9. Snapshots'
  BY <1>0, <1>3, StoreKept
<1> QED BY <1>6, <1>7, <1>8, <1>9 DEF PushInv

LEMMA NextBatchFailsKeeps ==
  ASSUME MailTypeOK, PushInv, NextBatchFails
  PROVE  PushInv'
<1> DEFINE swept == Sweep(Owned, resume)
<1>0. PushTypeOK /\ Scheduled /\ Snapshots /\ Pushed
  BY DEF PushInv
<1>1. swept.next \in 0 .. MaxSent
  <2>1. resume \in Nat
    BY <1>0, WakeMailAssumption DEF PushTypeOK
  <2> QED BY <2>1, SweepFacts
<1>2. /\ Kept(swept) \in [Id -> [reminded : 0 .. MaxRemind, due : BOOLEAN]]
      /\ \A i \in Id : Kept(swept)[i] \in {schedule[i], Unscheduled}
  BY <1>0, KeptFacts
<1>3. /\ pushAt = "poll" /\ UNCHANGED <<pushAt, batch, recordVars, storeVars, written, arrived>>
      /\ \/ UNCHANGED <<resume, schedule>>
         \/ resume' = swept.next /\ schedule' = Kept(swept)
      /\ \E names \in {{}, Newer(HeldBefore, hints)} : TellOf(names)
  BY DEF NextBatchFails, Pushing
<1>4. hints' \in [Name -> 0 .. MaxSent] /\ notices' \subseteq Name
  BY <1>0, <1>3, TellOfFacts
<1> HIDE DEF swept
<1>5. /\ schedule' \in [Id -> [reminded : 0 .. MaxRemind, due : BOOLEAN]] /\ resume' \in 0 .. MaxSent
      /\ \A i \in Id : schedule'[i] \in {schedule[i], Unscheduled}
  BY <1>0, <1>1, <1>2, <1>3 DEF PushTypeOK
<1>6. PushTypeOK'
  BY <1>0, <1>3, <1>4, <1>5 DEF PushTypeOK, recordVars, storeVars
<1>7. Pushed'
  BY <1>0, <1>3 DEF Pushed, recordVars
<1>8. Scheduled'
  BY <1>0, <1>3, <1>5, ScheduledForgets
<1>9. Snapshots'
  BY <1>0, <1>3, StoreKept
<1> QED BY <1>6, <1>7, <1>8, <1>9 DEF PushInv

LEMMA ReminderKeeps ==
  ASSUME PushInv, NEW i \in Id, ReminderFalls(i)
  PROVE  PushInv'
<1>0. PushTypeOK /\ Scheduled /\ Snapshots /\ Pushed
  BY DEF PushInv
<1>1. /\ schedule[i].reminded \in 1 .. MaxRemind - 1
      /\ schedule' = [schedule EXCEPT ![i].due = TRUE]
      /\ UNCHANGED <<pushAt, hints, notices, resume, batch, recordVars, storeVars, written, arrived>>
  BY DEF ReminderFalls
<1>2. /\ schedule' \in [Id -> [reminded : 0 .. MaxRemind, due : BOOLEAN]]
      /\ \A k \in Id : schedule'[k].reminded = schedule[k].reminded
      /\ \A k \in Id : schedule'[k].due = (schedule[k].due \/ k = i)
  BY <1>0, <1>1 DEF PushTypeOK
<1>3. PushTypeOK'
  BY <1>0, <1>1, <1>2 DEF PushTypeOK, recordVars, storeVars
<1>4. Pushed'
  BY <1>0, <1>1 DEF Pushed, recordVars
<1>5. batch \subseteq Id
  BY <1>0 DEF PushTypeOK
<1>6. Scheduled'
  BY <1>0, <1>1, <1>2, <1>5 DEF Scheduled, DueNow
<1>7. Snapshots'
  BY <1>0, <1>1, StoreKept
<1> QED BY <1>3, <1>4, <1>6, <1>7 DEF PushInv

(* A push is made, and is the newest of those whose receipt is awaited.     *)
LEMMA SentKeeps ==
  ASSUME PushInv, PushSent
  PROVE  PushInv'
<1>0. PushTypeOK /\ Scheduled /\ Snapshots /\ Pushed
  BY DEF PushInv
<1>1. /\ pushAt = "sent" /\ pushAt' = "write" /\ pushes + 1 \in Push
      /\ pushes' = pushes + 1 /\ unreceipted' = unreceipted \cup {pushes + 1}
      /\ schedule' = [i \in Id |-> IF i \in batch
                        THEN [reminded |-> schedule[i].reminded + 1, due |-> FALSE] ELSE schedule[i]]
      /\ reached' = [reached EXCEPT !.last = pushes + 1,
                                    !.oldest = IF @ = 0 THEN pushes + 1 ELSE @]
      /\ Snapshot("push")
      /\ UNCHANGED <<hints, notices, resume, batch, written, arrived>>
  BY DEF PushSent, Pushing
<1>2. snapshots' \in Seq(Snap) /\ {stored', failed'} \subseteq BOOLEAN /\ Snapshots'
  BY <1>0, <1>1, SnapshotKeeps
<1>3. /\ pushes \in Nat /\ unreceipted \in SUBSET (1 .. pushes) /\ arrived \in SUBSET (1 .. pushes)
      /\ unreceipted \subseteq arrived /\ batch \subseteq Id
      /\ \A i \in Id : /\ schedule[i].reminded \in 0 .. MaxRemind /\ schedule[i].due \in BOOLEAN
                       /\ schedule[i] \in [reminded : 0 .. MaxRemind, due : BOOLEAN]
  BY <1>0, <1>1, PushBound DEF PushTypeOK, Pushed
<1>4. \A i \in batch : schedule[i].reminded + 1 \in 1 .. MaxRemind
  <2> SUFFICES ASSUME NEW i \in batch PROVE schedule[i].reminded + 1 \in 1 .. MaxRemind
    OBVIOUS
  <2>1. schedule[i].reminded = 0 \/ schedule[i].reminded \in 1 .. MaxRemind - 1
    BY <1>0, <1>1, <1>3 DEF Scheduled, DueNow
  <2> QED BY <2>1, PushBound
<1>5. schedule' \in [Id -> [reminded : 0 .. MaxRemind, due : BOOLEAN]]
  <2> SUFFICES ASSUME NEW i \in Id
               PROVE  schedule'[i] \in [reminded : 0 .. MaxRemind, due : BOOLEAN]
    BY <1>1
  <2>1. CASE i \in batch
    <3>1. schedule[i].reminded + 1 \in 0 .. MaxRemind
      BY <1>4, <2>1
    <3> QED BY <1>1, <2>1, <3>1
  <2>2. CASE i \notin batch
    BY <1>1, <1>3, <2>2
  <2> QED BY <2>1, <2>2
<1>6. /\ reached' \in [last : Push \cup {0}, receipted : Push \cup {0}, oldest : Push \cup {0}]
      /\ reached'.last = pushes + 1 /\ reached'.receipted = reached.receipted
      /\ reached'.oldest = IF reached.oldest = 0 THEN pushes + 1 ELSE reached.oldest
  BY <1>0, <1>1 DEF PushTypeOK
<1>7. PushTypeOK'
  BY <1>0, <1>1, <1>2, <1>5, <1>6 DEF PushTypeOK, Snap
<1>8. Pushed'
  <2>1. reached'.oldest = Oldest(unreceipted')
    BY <1>0, <1>1, <1>3, <1>6, OldestStays DEF Pushed
  <2>2. \A k \in {reached.receipted} \cup unreceipted \cup {pushes + 1} : k <= pushes + 1
    <3>1. reached.receipted \in 1 .. pushes \cup {0}
      BY <1>0, <1>3 DEF Pushed
    <3>2. \A k \in 1 .. pushes \cup {0} \cup {pushes + 1} : k <= pushes + 1
      BY <1>3
    <3> QED BY <1>3, <3>1, <3>2
  <2>3. arrived \cup unreceipted' \subseteq 1 .. pushes + 1 /\ pushes + 1 \notin arrived
    BY <1>1, <1>3
  <2>4. reached.receipted \in arrived \cup {0}
    BY <1>0 DEF Pushed
  <2> QED BY <1>1, <1>3, <1>6, <2>1, <2>2, <2>3, <2>4 DEF Pushed
<1>9. Scheduled'
  <2>1. \A i \in batch : schedule'[i].reminded = schedule[i].reminded + 1 /\ ~schedule'[i].due
    BY <1>1, <1>3
  <2>2. \A i \in Id \ batch : schedule'[i] = schedule[i]
    BY <1>1
  <2>3. \A i \in Id : schedule'[i].due => schedule'[i].reminded \in 1 .. MaxRemind - 1
    BY <1>0, <2>1, <2>2 DEF Scheduled
  <2>4. \A i \in batch : schedule'[i].reminded > 0 /\ (schedule'[i].reminded > 1 => i \in written)
    BY <1>0, <1>1, <1>3, <2>1 DEF Scheduled
  <2>5. \A i \in Id \ batch : schedule'[i].reminded > 0 => i \in written
    BY <1>0, <1>1, <2>2 DEF Scheduled
  <2> QED BY <1>1, <2>3, <2>4, <2>5 DEF Scheduled
<1> QED BY <1>2, <1>7, <1>8, <1>9 DEF PushInv

LEMMA WrittenKeeps ==
  ASSUME PushInv, PushWritten
  PROVE  PushInv'
<1>0. PushTypeOK /\ Scheduled /\ Snapshots /\ Pushed
  BY DEF PushInv
<1>1. /\ pushAt = "write" /\ pushAt' = "poll"
      /\ arrived' = arrived \cup {pushes} /\ written' = written \cup batch
      /\ batch' = {} /\ notices' = {}
      /\ UNCHANGED <<schedule, hints, resume, recordVars, storeVars>>
  BY DEF PushWritten, Pushing
<1>2. pushes \in unreceipted /\ unreceipted \subseteq arrived \cup {pushes}
      /\ arrived \cup unreceipted \subseteq 1 .. pushes /\ unreceipted \cup arrived \subseteq Push
  BY <1>0, <1>1 DEF Pushed, PushTypeOK
<1>3. PushTypeOK'
  BY <1>0, <1>1, <1>2 DEF PushTypeOK, recordVars, storeVars
<1>4. Pushed'
  <2>1. /\ arrived' \cup unreceipted' \subseteq 1 .. pushes' /\ unreceipted' \subseteq arrived'
        /\ UNCHANGED <<reached, unreceipted>>
    BY <1>1, <1>2 DEF recordVars
  <2>2. reached'.receipted \in arrived' \cup {0}
    BY <1>0, <1>1, <2>1 DEF Pushed
  <2> QED BY <1>0, <1>1, <2>1, <2>2 DEF Pushed
<1>5. Scheduled'
  <2>1. \A i \in Id : schedule[i].reminded > 0 => i \in written'
    BY <1>0, <1>1 DEF Scheduled
  <2> QED BY <1>0, <1>1, <2>1 DEF Scheduled
<1>6. Snapshots'
  BY <1>0, <1>1, StoreKept
<1> QED BY <1>3, <1>4, <1>5, <1>6 DEF PushInv

(* A push that failed is gone, and the last is again the newest that the     *)
(* session has or acknowledged.                                             *)
LEMMA UnsentKeeps ==
  ASSUME PushInv, PushUnsent
  PROVE  PushInv'
<1> DEFINE open == unreceipted \ {pushes}
<1>0. PushTypeOK /\ Scheduled /\ Snapshots /\ Pushed
  BY DEF PushInv
<1>1. /\ pushAt = "write" /\ pushAt' = "poll"
      /\ schedule' = [i \in Id |-> IF i \in batch THEN DueAtOnce(i) ELSE schedule[i]]
      /\ unreceipted' = open /\ pushes' = pushes - 1
      /\ reached' = [reached EXCEPT !.last = LastPush(open), !.oldest = Oldest(open)]
      /\ Snapshot("push") /\ batch' = {}
      /\ UNCHANGED <<hints, notices, resume, written, arrived>>
  BY DEF PushUnsent, Pushing
<1>2. snapshots' \in Seq(Snap) /\ {stored', failed'} \subseteq BOOLEAN /\ Snapshots'
  BY <1>0, <1>1, SnapshotKeeps
<1>3. /\ pushes \in Push /\ pushes \in Nat \ {0} /\ pushes \notin arrived
      /\ open \subseteq arrived /\ arrived \subseteq 1 .. pushes /\ arrived \subseteq Push
      /\ reached.receipted \in arrived \cup {0}
  BY <1>0, <1>1, PushBound DEF Pushed, PushTypeOK
<1>4. /\ arrived \subseteq 1 .. pushes - 1 /\ pushes - 1 \in Push \cup {0}
      /\ pushes - 1 \in Nat
  <2>1. pushes - 1 \in Push \cup {0}
    <3>1. PICK b \in Nat : Push = 1 .. b
      BY PushBound
    <3> HIDE DEF open
    <3> QED BY <1>3, <3>1
  <2> QED BY <1>3, <2>1
<1>5. /\ LastPush(open) \in {reached.receipted} \cup open
      /\ \A k \in {reached.receipted} \cup open : k <= LastPush(open)
  <2> DEFINE S == {reached.receipted} \cup open
  <2>1. S \in SUBSET Nat /\ S # {} /\ \A k \in S : k <= pushes
    <3>1. S \subseteq 1 .. pushes \cup {0} /\ S # {}
      BY <1>3
    <3>2. \A k \in 1 .. pushes \cup {0} : k \in Nat /\ k <= pushes
      BY <1>3
    <3> HIDE DEF S
    <3> QED BY <3>1, <3>2
  <2>2. Max(S) \in S /\ \A k \in S : k <= Max(S)
    <3> HIDE DEF S
    <3> QED BY <1>3, <2>1, MaxNat
  <2>3. LastPush(open) = Max(S)
    BY DEF LastPush
  <2> QED BY <2>2, <2>3
<1>6. Oldest(open) \in Push \cup {0}
  <2>1. open \in SUBSET (Nat \ {0}) /\ open \subseteq Push
    BY <1>3, PushBound
  <2> HIDE DEF open
  <2> QED BY <2>1, OldestFacts
<1>7. \A i \in batch : /\ schedule[i].reminded \in 1 .. MaxRemind /\ schedule[i].due \in BOOLEAN
                       /\ schedule[i].reminded > 1 => i \in written
  BY <1>0, <1>1 DEF Scheduled, PushTypeOK
<1>8. \A i \in batch :
        \/ DueAtOnce(i) = [reminded |-> 0, due |-> FALSE]
        \/ /\ DueAtOnce(i) = [reminded |-> schedule[i].reminded - 1, due |-> TRUE]
           /\ schedule[i].reminded - 1 \in 1 .. MaxRemind - 1 /\ i \in written
  BY <1>7, PushBound DEF DueAtOnce, Unscheduled
<1> HIDE DEF open
<1>9. schedule' \in [Id -> [reminded : 0 .. MaxRemind, due : BOOLEAN]]
  <2>1. \A i \in batch : DueAtOnce(i) \in [reminded : 0 .. MaxRemind, due : BOOLEAN]
    <3> SUFFICES ASSUME NEW i \in batch
                 PROVE  DueAtOnce(i) \in [reminded : 0 .. MaxRemind, due : BOOLEAN]
      OBVIOUS
    <3>1. \A r \in 1 .. MaxRemind - 1 : [reminded |-> r, due |-> TRUE] \in [reminded : 0 .. MaxRemind, due : BOOLEAN]
      BY PushBound
    <3>2. [reminded |-> 0, due |-> FALSE] \in [reminded : 0 .. MaxRemind, due : BOOLEAN]
      BY PushBound
    <3> QED BY <1>8, <3>1, <3>2
  <2> QED BY <1>0, <1>1, <2>1 DEF PushTypeOK
<1>10. /\ reached' \in [last : Push \cup {0}, receipted : Push \cup {0}, oldest : Push \cup {0}]
       /\ reached'.last = LastPush(open) /\ reached'.receipted = reached.receipted
       /\ reached'.oldest = Oldest(open)
  <2>1. LastPush(open) \in Push \cup {0}
    BY <1>3, <1>5
  <2> QED BY <1>0, <1>1, <1>6, <2>1 DEF PushTypeOK
<1>11. PushTypeOK'
  <2>1. unreceipted' \subseteq Push
    BY <1>1, <1>3
  <2> QED BY <1>0, <1>1, <1>2, <1>4, <1>9, <1>10, <2>1 DEF PushTypeOK, Snap
<1>12. Pushed'
  <2>1. arrived' \cup unreceipted' \subseteq 1 .. pushes'
    BY <1>1, <1>3, <1>4
  <2> QED BY <1>1, <1>3, <1>5, <1>10, <2>1 DEF Pushed
<1>13. Scheduled'
  <2>1. \A i \in batch : schedule'[i] = DueAtOnce(i)
    BY <1>0, <1>1 DEF PushTypeOK
  <2>2. \A i \in Id \ batch : schedule'[i] = schedule[i]
    BY <1>1
  <2>3. \A i \in Id : schedule'[i].due => schedule'[i].reminded \in 1 .. MaxRemind - 1
    BY <1>0, <1>8, <2>1, <2>2 DEF Scheduled
  <2>4. \A i \in Id : schedule'[i].reminded > 0 => i \in written
    BY <1>0, <1>1, <1>8, <2>1, <2>2 DEF Scheduled
  <2> QED BY <1>1, <2>3, <2>4 DEF Scheduled
<1> QED BY <1>2, <1>11, <1>12, <1>13 DEF PushInv

(* A receipt moves on what is acknowledged, and not what is the last.       *)
LEMMA ReceiptKeeps ==
  ASSUME PushInv, NEW k \in Push, PushReceipt(k)
  PROVE  PushInv'
<1> DEFINE open == {j \in unreceipted : j > k}
           got == Max({reached.receipted, k})
<1>0. PushTypeOK /\ Scheduled /\ Snapshots /\ Pushed
  BY DEF PushInv
<1>1. /\ k \in unreceipted \cap arrived
      /\ unreceipted' = open
      /\ reached' = [reached EXCEPT !.receipted = got, !.oldest = Oldest(open)]
      /\ Snapshot("tool")
      /\ UNCHANGED <<pushAt, schedule, hints, notices, resume, batch, pushes, written, arrived>>
  BY DEF PushReceipt
<1>2. snapshots' \in Seq(Snap) /\ {stored', failed'} \subseteq BOOLEAN /\ Snapshots'
  BY <1>0, <1>1, SnapshotKeeps
<1>3. /\ unreceipted \in SUBSET Nat /\ reached.receipted \in Nat /\ reached.receipted \in arrived \cup {0}
      /\ arrived \subseteq Push /\ unreceipted \subseteq Push /\ k \in Nat
      /\ arrived \cup unreceipted \subseteq 1 .. pushes
  BY <1>0, PushBound DEF PushTypeOK, Pushed
<1>4. got \in {reached.receipted, k} /\ reached.receipted <= got /\ k <= got
  <2> DEFINE S == {reached.receipted, k}
  <2>1. S \in SUBSET Nat /\ S # {} /\ reached.receipted + k \in Nat
        /\ \A j \in S : j <= reached.receipted + k
    BY <1>3
  <2>2. Max(S) \in S /\ \A j \in S : j <= Max(S)
    <3> HIDE DEF S
    <3> QED BY <2>1, MaxNat
  <2> QED BY <2>2
<1>5. got \in arrived \cup {0} /\ got \in Push \cup {0}
  BY <1>1, <1>3, <1>4
<1>6. Oldest(open) \in Push \cup {0}
  <2>1. open \in SUBSET (Nat \ {0}) /\ open \subseteq Push
    BY <1>3, PushBound
  <2> HIDE DEF open
  <2> QED BY <2>1, OldestFacts
<1>7. open \subseteq unreceipted /\ \A j \in unreceipted \ open : j <= k
  BY <1>3
<1>8. reached.last \in {got} \cup open /\ \A j \in {got} \cup open : j <= reached.last
  <2>1. reached.last \in {reached.receipted} \cup unreceipted
        /\ \A j \in {reached.receipted} \cup unreceipted : j <= reached.last
    BY <1>0 DEF Pushed
  <2>2. k <= reached.last /\ got <= reached.last /\ reached.last \in Nat /\ got \in Nat
    BY <1>1, <1>3, <1>4, <2>1
  <2>3. CASE reached.last \in open
    BY <1>7, <2>1, <2>2, <2>3
  <2>4. CASE reached.last \notin open
    <3>1. reached.last <= got
      <4>1. CASE reached.last = reached.receipted
        BY <1>4, <4>1
      <4>2. CASE reached.last \in unreceipted
        <5>1. reached.last <= k
          BY <1>7, <2>4, <4>2
        <5> HIDE DEF got
        <5> QED BY <1>3, <1>4, <2>2, <5>1
      <4> QED BY <2>1, <4>1, <4>2
    <3>2. reached.last = got
      <4> HIDE DEF got
      <4> QED BY <2>2, <3>1
    <3> QED BY <1>7, <2>1, <2>2, <3>2
  <2> QED BY <2>3, <2>4
<1> HIDE DEF open, got
<1>9. /\ reached' \in [last : Push \cup {0}, receipted : Push \cup {0}, oldest : Push \cup {0}]
      /\ reached'.last = reached.last /\ reached'.receipted = got
      /\ reached'.oldest = Oldest(open)
  BY <1>0, <1>1, <1>5, <1>6 DEF PushTypeOK
<1>10. PushTypeOK'
  <2>1. unreceipted' \subseteq Push
    BY <1>1, <1>3, <1>7
  <2> QED BY <1>0, <1>1, <1>2, <1>9, <2>1 DEF PushTypeOK, Snap
<1>11. Pushed'
  <2>1. arrived' \cup unreceipted' \subseteq 1 .. pushes'
    BY <1>1, <1>3, <1>7
  <2>2. IF pushAt' = "write"
          THEN pushes' \in unreceipted' \ arrived' /\ unreceipted' \subseteq arrived' \cup {pushes'}
          ELSE unreceipted' \subseteq arrived'
    <3>1. CASE pushAt = "write"
      <4>1. pushes \in unreceipted \ arrived /\ unreceipted \subseteq arrived \cup {pushes}
        BY <1>0, <3>1 DEF Pushed
      <4>2. pushes \in open
        <5>1. k # pushes /\ k \in 1 .. pushes /\ pushes \in Nat
          BY <1>1, <1>3, <4>1
        <5> QED BY <4>1, <5>1 DEF open
      <4> QED BY <1>1, <1>7, <3>1, <4>1, <4>2
    <3>2. CASE pushAt # "write"
      BY <1>0, <1>1, <1>7, <3>2 DEF Pushed
    <3> QED BY <3>1, <3>2
  <2> QED BY <1>1, <1>5, <1>8, <1>9, <2>1, <2>2 DEF Pushed
<1>12. Scheduled'
  BY <1>0, <1>1 DEF Scheduled, DueNow
<1> QED BY <1>2, <1>10, <1>11, <1>12 DEF PushInv

LEMMA PushStep ==
  ASSUME MailTypeOK, PushInv, PushNext
  PROVE  PushInv' /\ UNCHANGED mailVars
<1>1. CASE Declare
  BY <1>1, DeclareKeeps DEF Declare
<1>2. CASE NextBatch
  BY <1>2, NextBatchKeeps DEF NextBatch
<1>3. CASE NextBatchFails
  BY <1>3, NextBatchFailsKeeps DEF NextBatchFails
<1>4. CASE PushSent
  BY <1>4, SentKeeps DEF PushSent
<1>5. CASE PushWritten
  BY <1>5, WrittenKeeps DEF PushWritten
<1>6. CASE PushUnsent
  BY <1>6, UnsentKeeps DEF PushUnsent
<1>7. ASSUME NEW k \in DOMAIN snapshots, WriteFacts(k) PROVE PushInv' /\ UNCHANGED mailVars
  <2>1. snapshots' \in Seq(Snap) /\ {stored', failed'} \subseteq BOOLEAN /\ Snapshots'
    BY <1>7, WriteKeeps DEF PushInv
  <2>2. UNCHANGED <<mailVars, pushAt, schedule, hints, notices, resume, batch, recordVars,
                    written, arrived>>
    BY <1>7 DEF WriteFacts
  <2>3. PushTypeOK'
    BY <2>1, <2>2 DEF PushInv, PushTypeOK, Snap, recordVars
  <2>4. Pushed' /\ Scheduled'
    BY <2>2 DEF PushInv, Pushed, Scheduled, DueNow, recordVars
  <2> QED BY <2>1, <2>2, <2>3, <2>4 DEF PushInv
<1>8. ASSUME NEW i \in Id, ReminderFalls(i) PROVE PushInv' /\ UNCHANGED mailVars
  BY <1>8, ReminderKeeps DEF ReminderFalls
<1>9. ASSUME NEW k \in Push, PushReceipt(k) PROVE PushInv' /\ UNCHANGED mailVars
  BY <1>9, ReceiptKeeps DEF PushReceipt
<1> QED
  BY <1>1, <1>2, <1>3, <1>4, <1>5, <1>6, <1>7, <1>8, <1>9 DEF PushNext, PushThread, PushWrites

(* What is reported of pushes follows.                                      *)
LEMMA PushReportFollows ==
  ASSUME PushInv
  PROVE  PushReport
BY DEF PushInv, Pushed, Scheduled, Snapshots, PushReport

----------------------------------------------------------------------------
(* The notices.                                                            *)

LEMMA AnnStarts ==
  ASSUME MailInit, AnnInit
  PROVE  AnnInv
<1>1. MaxSent \in Nat
  BY WakeMailAssumption
<1>2. to = <<>> /\ read = {} /\ at = Idle /\ issued = 0 /\ out = 0 /\ retry = "none"
      /\ announced = {} /\ pointed = Unsaid /\ undo = NoUndo /\ about = {} /\ told = {}
      /\ found = Nothing /\ sending = 0 /\ cursor = 0 /\ landed = {} /\ sure = {} /\ again = FALSE
      /\ answered = {} /\ late = NoLate /\ facts = [pushed |-> FALSE, open |-> FALSE]
      /\ dirty = (kind = "inbox") /\ saving = "no" /\ recorded = ~dirty
      /\ address = (kind = "inbox") /\ stopped = FALSE
  BY DEF MailInit, AnnInit
<1>3. Unsaid \in [Name -> 0 .. MaxSent]
  BY <1>1 DEF Unsaid
<1>4. AnnTypeOK
  <2>1. NoUndo \in [pointed : [Name -> 0 .. MaxSent], pushed : BOOLEAN]
    BY <1>3 DEF NoUndo
  <2>2. Nothing \in [ids : SUBSET Id, told : SUBSET Name]
    BY DEF Nothing
  <2>3. {address, stopped, dirty, recorded, again} \subseteq BOOLEAN
    BY <1>2
  <2> QED BY <1>1, <1>2, <1>3, <2>1, <2>2, <2>3 DEF AnnTypeOK, NoLate, Idle
<1>5. Gate
  BY <1>2 DEF Gate, OneNoticeOut, InHandNow, FirstTry, Idle, NoLate
<1>6. Copies
  BY <1>2 DEF Copies, InHandNow, Idle, NoLate
<1>7. Facts
  BY <1>2 DEF Facts
<1>8. Announced
  BY <1>2 DEF Announced, NoSecondNotice, Idle, Nothing
<1> QED BY <1>4, <1>5, <1>6, <1>7, <1>8 DEF AnnInv

(* Mail that comes, is read and changes hands disturbs none of it.          *)
LEMMA AnnUnderMail ==
  ASSUME MailTypeOK, AnnInv, MailNext, UNCHANGED annVars
  PROVE  AnnInv'
<1> USE DEF annVars, gate, evidence, hand, report, copies
<1>1. /\ kind' = kind /\ DOMAIN to \subseteq DOMAIN to' /\ \A i \in DOMAIN to : to'[i] = to[i]
      /\ read \subseteq read' /\ parted \subseteq parted' /\ Ours \subseteq Ours' \cup parted'
  BY MailGrows
<1>2. AnnTypeOK'
  BY DEF AnnInv, AnnTypeOK, Id
<1>3. Gate'
  BY DEF AnnInv, Gate, OneNoticeOut, InHandNow, FirstTry
<1>4. Copies'
  BY <1>1 DEF AnnInv, Copies, InHandNow, NoLate
<1>5. Facts'
  BY DEF AnnInv, Facts, FirstTry
<1>6. Announced'
  BY <1>1 DEF AnnInv, Announced, NoSecondNotice
<1> QED BY <1>2, <1>3, <1>4, <1>5, <1>6 DEF AnnInv

(* Changes of the facts alone leave them written, or marked to be.          *)
LEMMA ReportMoves ==
  ASSUME AnnInv,
         \/ \E f \in [pushed : BOOLEAN, open : BOOLEAN] : FactsBecome(f)
         \/ saving = "no" /\ \E f \in [pushed : BOOLEAN, open : BOOLEAN] : FactsWritten(f)
         \/ saving = "no" /\ PickUp
         \/ UNCHANGED report
  PROVE  /\ facts' \in [pushed : BOOLEAN, open : BOOLEAN]
         /\ {dirty', recorded'} \subseteq BOOLEAN /\ saving' \in {"no", "now", "older"}
         /\ saving' = "older" => dirty'
         /\ ~dirty' => recorded' \/ saving' = "now"
BY DEF AnnInv, AnnTypeOK, Facts, FactsBecome, FactsWritten, PickUp, report

LEMMA FlushKeeps ==
  ASSUME AnnInv, Flush
  PROVE  AnnInv'
<1>1. /\ saving # "no" /\ saving' = "no"
      /\ \/ recorded' = (saving = "now") /\ dirty' = dirty
         \/ dirty' = TRUE /\ recorded' = recorded
      /\ UNCHANGED <<mailVars, at, gate, evidence, hand, facts, copies, late, answered>>
  BY DEF Flush, MarkedAgain
<1> USE <1>1 DEF gate, evidence, hand, copies, mailVars, mail
<1>2. AnnTypeOK'
  BY DEF AnnInv, AnnTypeOK, Id
<1>3. Gate'
  BY DEF AnnInv, Gate, OneNoticeOut, InHandNow, FirstTry
<1>4. Copies'
  BY DEF AnnInv, Copies, InHandNow, NoLate
<1>5. Facts'
  <2>1. Facts /\ dirty \in BOOLEAN /\ recorded \in BOOLEAN /\ saving \in {"no", "now", "older"}
    BY DEF AnnInv, AnnTypeOK
  <2>2. ~dirty' => recorded'
    <3>1. CASE recorded' = (saving = "now") /\ dirty' = dirty
      <4>1. dirty \/ saving = "now"
        BY <2>1 DEF Facts
      <4> QED BY <3>1, <4>1
    <3>2. CASE dirty' = TRUE
      BY <3>2
    <3> QED BY <3>1, <3>2
  <2> QED BY <2>1, <2>2 DEF Facts, FirstTry
<1>6. Announced'
  BY DEF AnnInv, Announced, NoSecondNotice, Ours, Owned
<1> QED BY <1>2, <1>3, <1>4, <1>5, <1>6 DEF AnnInv

LEMMA PinKeeps ==
  ASSUME AnnInv, Pin
  PROVE  AnnInv'
<1>1. /\ address' = TRUE /\ FactsBecome(facts)
      /\ UNCHANGED <<mailVars, at, stopped, gate, hand, copies, late, answered>>
  BY DEF Pin
<1>2. facts' = facts /\ facts \in [pushed : BOOLEAN, open : BOOLEAN]
  BY <1>1 DEF FactsBecome, AnnInv, AnnTypeOK
<1>3. /\ {dirty', recorded'} \subseteq BOOLEAN /\ saving' \in {"no", "now", "older"}
      /\ saving' = "older" => dirty'
      /\ ~dirty' => recorded' \/ saving' = "now"
  BY <1>1, <1>2, ReportMoves
<1> USE <1>1, <1>2, <1>3 DEF gate, hand, copies, mailVars, mail
<1>4. AnnTypeOK'
  BY DEF AnnInv, AnnTypeOK, Id
<1>5. Gate'
  BY DEF AnnInv, Gate, OneNoticeOut, InHandNow, FirstTry
<1>6. Copies'
  BY DEF AnnInv, Copies, InHandNow, NoLate
<1>7. Facts'
  BY DEF AnnInv, Facts, FirstTry
<1>8. Announced'
  BY DEF AnnInv, Announced, NoSecondNotice, Ours, Owned
<1> QED BY <1>4, <1>5, <1>6, <1>7, <1>8 DEF AnnInv

LEMMA SecondThreadKeeps ==
  ASSUME AnnInv, SecondThread
  PROVE  AnnInv'
<1>1. /\ stopped' = TRUE
      /\ IF facts.pushed THEN FactsBecome([facts EXCEPT !.open = TRUE]) ELSE UNCHANGED report
      /\ UNCHANGED <<mailVars, at, address, gate, hand, copies, late, answered>>
  BY DEF SecondThread
<1>2. facts \in [pushed : BOOLEAN, open : BOOLEAN]
      /\ [facts EXCEPT !.open = TRUE] \in [pushed : BOOLEAN, open : BOOLEAN]
  BY DEF AnnInv, AnnTypeOK
<1>3. /\ facts' \in [pushed : BOOLEAN, open : BOOLEAN] /\ facts'.pushed = facts.pushed
      /\ facts.open => facts'.open
      /\ facts'.pushed => facts'.open
  BY <1>1, <1>2 DEF FactsBecome, report
<1>4. /\ {dirty', recorded'} \subseteq BOOLEAN /\ saving' \in {"no", "now", "older"}
      /\ saving' = "older" => dirty'
      /\ ~dirty' => recorded' \/ saving' = "now"
  BY <1>1, <1>2, ReportMoves
<1> USE <1>1, <1>3, <1>4 DEF gate, hand, copies, mailVars, mail
<1>5. AnnTypeOK'
  BY DEF AnnInv, AnnTypeOK, Id
<1>6. Gate'
  BY DEF AnnInv, Gate, OneNoticeOut, InHandNow, FirstTry
<1>7. Copies'
  BY DEF AnnInv, Copies, InHandNow, NoLate
<1>8. Facts'
  BY DEF AnnInv, Facts, FirstTry
<1>9. Announced'
  BY DEF AnnInv, Announced, NoSecondNotice, Ours, Owned
<1> QED BY <1>5, <1>6, <1>7, <1>8, <1>9 DEF AnnInv

(* A receipt releases the notice that is out, which reached the session.    *)
LEMMA AcceptKeeps ==
  ASSUME AnnInv, NEW k \in landed, AcceptReceipt(k)
  PROVE  AnnInv'
<1>1. /\ out = k /\ out' = 0 /\ retry' = "none" /\ answered' = answered \cup {k}
      /\ FactsBecome([facts EXCEPT !.open = stopped /\ @])
      /\ UNCHANGED <<mailVars, at, evidence, issued, announced, pointed, undo, about, told,
                     hand, copies, late>>
  BY DEF AcceptReceipt, Releases
<1>2. k = issued /\ k > 0 /\ k \in Nat /\ ~FirstTry
  BY <1>1 DEF AnnInv, Gate, AnnTypeOK
<1>3. [facts EXCEPT !.open = stopped /\ @] \in [pushed : BOOLEAN, open : BOOLEAN]
  BY DEF AnnInv, AnnTypeOK
<1>4. /\ facts' \in [pushed : BOOLEAN, open : BOOLEAN]
      /\ facts'.pushed = facts.pushed /\ facts'.open = (stopped /\ facts.open)
  BY <1>1, <1>3 DEF FactsBecome, AnnInv, AnnTypeOK
<1>5. /\ {dirty', recorded'} \subseteq BOOLEAN /\ saving' \in {"no", "now", "older"}
      /\ saving' = "older" => dirty'
      /\ ~dirty' => recorded' \/ saving' = "now"
  BY <1>1, <1>3, ReportMoves
<1> USE <1>1, <1>2, <1>4, <1>5 DEF evidence, hand, copies, mailVars, mail
<1>6. AnnTypeOK'
  BY DEF AnnInv, AnnTypeOK, Id
<1>7. Gate'
  BY DEF AnnInv, Gate, OneNoticeOut, InHandNow, FirstTry
<1>8. Copies'
  BY DEF AnnInv, Copies, InHandNow, NoLate
<1>9. Facts'
  BY DEF AnnInv, Facts, FirstTry
<1>10. Announced'
  BY DEF AnnInv, Announced, NoSecondNotice, Ours, Owned
<1> QED BY <1>6, <1>7, <1>8, <1>9, <1>10 DEF AnnInv

LEMMA RetryKeeps ==
  ASSUME AnnInv, RetryFalls
  PROVE  AnnInv'
<1>1. /\ retry = "waiting" /\ retry' = "due"
      /\ UNCHANGED <<mailVars, at, evidence, issued, out, announced, pointed, undo, about, told,
                     hand, report, copies, late, answered>>
  BY DEF RetryFalls
<1> USE <1>1 DEF evidence, hand, copies, mailVars, mail, report
<1>2. AnnTypeOK'
  BY DEF AnnInv, AnnTypeOK, Id
<1>3. Gate'
  BY DEF AnnInv, Gate, OneNoticeOut, InHandNow, FirstTry
<1>4. Copies'
  BY DEF AnnInv, Copies, InHandNow, NoLate
<1>5. Facts'
  BY DEF AnnInv, Facts, FirstTry
<1>6. Announced'
  BY DEF AnnInv, Announced, NoSecondNotice, Ours, Owned
<1> QED BY <1>2, <1>3, <1>4, <1>5, <1>6 DEF AnnInv

(* Steps of the poll thread that move it and leave the notices alone: to a  *)
(* place where none is in hand, or on with the one in hand.                 *)
LEMMA MoveKeeps ==
  ASSUME AnnInv, saving = "no",
         UNCHANGED <<mailVars, evidence, issued, out, retry, announced, pointed, undo, about, told,
                     sending, cursor, copies, late, answered>>,
         found' \in {found, Nothing},
         UNCHANGED report \/ PickUp,
         \/ at' \in {Idle, "check"}
         \/ InHandNow /\ kind = "codex" /\ at' \in {"steer", "queue"}
  PROVE  AnnInv'
<1>1. facts' = facts
  BY DEF PickUp, report
<1>2. /\ {dirty', recorded'} \subseteq BOOLEAN /\ saving' \in {"no", "now", "older"}
      /\ saving' = "older" => dirty'
      /\ ~dirty' => recorded' \/ saving' = "now"
  BY ReportMoves
<1>3. /\ ~(at' \in {"window", "send"}) /\ at' # "reserve"
      /\ at' \in {"window", "send", "resend", "steer", "queue"} => InHandNow
      /\ at' \in {Idle, "check", "reserve", "window", "send", "resend", "steer", "queue"}
      /\ at' \in {"steer", "queue"} => kind = "codex"
  BY DEF Idle
<1>4. found' \in [ids : SUBSET Id, told : SUBSET Name] /\ found'.ids \subseteq found.ids
  BY DEF AnnInv, AnnTypeOK, Nothing
<1> USE <1>1, <1>2, <1>3, <1>4 DEF evidence, copies, mailVars, mail
<1>5. AnnTypeOK'
  BY DEF AnnInv, AnnTypeOK, Id
<1>6. Gate'
  BY DEF AnnInv, Gate, OneNoticeOut, InHandNow, FirstTry
<1>7. Copies'
  BY DEF AnnInv, Copies, InHandNow, NoLate
<1>8. Facts'
  BY DEF AnnInv, Facts, FirstTry
<1>9. Announced'
  BY DEF AnnInv, Announced, NoSecondNotice, Ours, Owned
<1> QED BY <1>5, <1>6, <1>7, <1>8, <1>9 DEF AnnInv

LEMMA ResendKeeps ==
  ASSUME AnnInv, Resend
  PROVE  AnnInv'
<1>1. /\ retry = "due" /\ retry' = "none" /\ sending' = out /\ at' = "resend"
      /\ UNCHANGED <<mailVars, evidence, issued, out, announced, pointed, undo, about, told,
                     found, cursor, report, copies, late, answered>>
  BY DEF Resend
<1>2. out = issued /\ out # 0 /\ issued \in Nat
  BY <1>1 DEF AnnInv, Gate, AnnTypeOK
<1> USE <1>1, <1>2 DEF evidence, copies, mailVars, mail, report
<1>3. AnnTypeOK'
  BY DEF AnnInv, AnnTypeOK, Id
<1>4. Gate'
  BY DEF AnnInv, Gate, OneNoticeOut, InHandNow, FirstTry
<1>5. Copies'
  BY DEF AnnInv, Copies, InHandNow, NoLate
<1>6. Facts'
  BY DEF AnnInv, Facts, FirstTry
<1>7. Announced'
  BY DEF AnnInv, Announced, NoSecondNotice, Ours, Owned
<1> QED BY <1>3, <1>4, <1>5, <1>6, <1>7 DEF AnnInv

(* A sweep forgets only what was read, and what has parted.                 *)
LEMMA ScanFacts ==
  ASSUME MailTypeOK, AnnInv
  PROVE  LET swept == Sweep(Owned, cursor)
         IN  /\ swept.rows \in SUBSET Id /\ swept.rows \subseteq DOMAIN to \ read
             /\ \A i \in swept.rows : to[i] \in Owned
             /\ swept.next \in 0 .. MaxSent
             /\ Known(swept) \subseteq announced
             /\ told \cup about \subseteq Known(swept) \cup read \cup parted
<1> DEFINE swept == Sweep(Owned, cursor)
<1>1. cursor \in Nat /\ MaxSent \in Nat
  BY WakeMailAssumption DEF AnnInv, AnnTypeOK
<1>2. /\ swept.rows \in SUBSET UnreadAt(Owned) /\ swept.next \in 0 .. MaxSent
      /\ swept.next = 0 => swept.rows = {i \in UnreadAt(Owned) : i > cursor}
  BY <1>1, SweepFacts
<1>3. UnreadAt(Owned) = {i \in DOMAIN to : to[i] \in Owned /\ i \notin read}
      /\ UnreadAt(Owned) \in SUBSET Id /\ UnreadAt(Owned) \in SUBSET Nat
      /\ \A i \in UnreadAt(Owned) : i > 0
  <2>1. \A i \in Id : i > 0
    BY <1>1 DEF Id
  <2> QED BY <2>1, UnreadFacts DEF UnreadAt
<1> HIDE DEF swept
<1>4. Known(swept) \subseteq announced
  BY DEF Known
<1>5. told \cup about \subseteq announced \cup read \cup parted
      /\ told \cup about \subseteq Ours \cup parted
  BY DEF AnnInv, Announced
<1>6. told \cup about \subseteq Known(swept) \cup read \cup parted
  <2>1. CASE SweptWhole(swept.next)
    <3>1. swept.rows = {i \in UnreadAt(Owned) : i > 0}
      BY <1>2, <2>1 DEF SweptWhole
    <3>2. swept.rows = UnreadAt(Owned)
      BY <1>3, <3>1
    <3>3. Known(swept) = announced \cap swept.rows
      BY <2>1 DEF Known
    <3> QED BY <1>3, <1>5, <3>2, <3>3 DEF Ours
  <2>2. CASE ~SweptWhole(swept.next)
    BY <1>5, <2>2 DEF Known
  <2> QED BY <2>1, <2>2
<1>7. swept.rows \in SUBSET Id /\ swept.rows \subseteq DOMAIN to \ read /\ \A i \in swept.rows : to[i] \in Owned
  BY <1>2, <1>3
<1> QED BY <1>2, <1>4, <1>6, <1>7 DEF swept

LEMMA ScanKeeps ==
  ASSUME MailTypeOK, AnnInv, ScanMail
  PROVE  AnnInv'
<1> DEFINE swept == Sweep(Owned, cursor)
           new == {i \in swept.rows \ Known(swept) : to[i] \in Granted}
<1>1. /\ swept.rows \in SUBSET Id /\ swept.rows \subseteq DOMAIN to \ read
      /\ \A i \in swept.rows : to[i] \in Owned
      /\ swept.next \in 0 .. MaxSent
      /\ Known(swept) \subseteq announced
      /\ told \cup about \subseteq Known(swept) \cup read \cup parted
  BY ScanFacts
<1>2. /\ cursor' = swept.next /\ announced' = Known(swept)
      /\ at' = IF found' = Nothing THEN Idle ELSE "reserve"
      /\ UNCHANGED <<mailVars, evidence, sending, issued, out, retry, pointed, undo, about, told,
                     report, copies, late, answered>>
  BY DEF ScanMail, Swept
<1>3. PICK waiting \in {{}, Newer(HeldBefore, pointed)} : found' = [ids |-> new, told |-> waiting]
  BY DEF ScanMail
<1>4. waiting \in SUBSET Name /\ new \in SUBSET swept.rows /\ new \cap (told \cup about) \subseteq parted
  <2>1. waiting \in SUBSET Name
    BY MailFacts DEF Newer
  <2> QED BY <1>1, <2>1
<1> HIDE DEF swept, new
<1>5. /\ found' \in [ids : SUBSET Id, told : SUBSET Name] /\ found'.ids = new
  BY <1>1, <1>3, <1>4
<1>6. at' \in {Idle, "reserve"} /\ announced' \subseteq Id
  BY <1>1, <1>2 DEF AnnInv, AnnTypeOK
<1> USE <1>2, <1>5, <1>6 DEF evidence, copies, mailVars, mail, report
<1>7. AnnTypeOK'
  BY <1>1 DEF AnnInv, AnnTypeOK, Id
<1>8. Gate'
  BY DEF AnnInv, Gate, OneNoticeOut, InHandNow, FirstTry, Idle
<1>9. Copies'
  BY DEF AnnInv, Copies, InHandNow, NoLate, Idle
<1>10. Facts'
  BY DEF AnnInv, Facts, FirstTry, Idle
<1>11. Announced'
  <2>1. told' \cup about' \subseteq announced' \cup read' \cup parted'
    BY <1>1
  <2>2. told' \cup about' \cup found'.ids \subseteq Ours' \cup parted'
    BY <1>1, <1>4 DEF AnnInv, Announced, Ours, Owned
  <2>3. NoSecondNotice' /\ found'.ids \cap (told' \cup about') \subseteq parted'
    BY <1>4 DEF AnnInv, Announced, NoSecondNotice
  <2> QED BY <2>1, <2>2, <2>3 DEF Announced
<1> QED BY <1>7, <1>8, <1>9, <1>10, <1>11 DEF AnnInv

LEMMA ScanFailsKeeps ==
  ASSUME MailTypeOK, AnnInv, ScanFails
  PROVE  AnnInv'
<1> DEFINE swept == Sweep(Owned, cursor)
<1>1. /\ swept.next \in 0 .. MaxSent /\ Known(swept) \subseteq announced
      /\ told \cup about \subseteq Known(swept) \cup read \cup parted
  BY ScanFacts
<1>2. /\ at' = Idle
      /\ \/ cursor' = swept.next /\ announced' = Known(swept)
         \/ UNCHANGED <<cursor, announced>>
      /\ UNCHANGED <<mailVars, evidence, issued, out, retry, pointed, undo, about, told,
                     found, sending, report, copies, late, answered>>
  BY DEF ScanFails, Swept
<1> HIDE DEF swept
<1>3. announced' \subseteq Id /\ cursor' \in 0 .. MaxSent
      /\ told \cup about \subseteq announced' \cup read \cup parted
  BY <1>1, <1>2 DEF AnnInv, AnnTypeOK, Announced
<1> USE <1>3 DEF evidence, copies, mailVars, mail, report
<1>4. AnnTypeOK'
  BY <1>2 DEF AnnInv, AnnTypeOK, Id
<1>5. Gate'
  BY <1>2 DEF AnnInv, Gate, OneNoticeOut, InHandNow, FirstTry, Idle
<1>6. Copies'
  BY <1>2 DEF AnnInv, Copies, InHandNow, NoLate, Idle
<1>7. Facts'
  BY <1>2 DEF AnnInv, Facts, FirstTry, Idle
<1>8. Announced'
  BY <1>2 DEF AnnInv, Announced, NoSecondNotice, Ours, Owned, Idle
<1> QED BY <1>4, <1>5, <1>6, <1>7, <1>8 DEF AnnInv

(* A notice goes out, under a nonce no notice anybody got has.              *)
LEMMA ReserveKeeps ==
  ASSUME MailTypeOK, AnnInv, Reserve
  PROVE  AnnInv'
<1>1. /\ at = "reserve" /\ saving = "no" /\ ~stopped /\ out = 0
      /\ issued' = issued + 1 /\ out' = issued + 1
      /\ announced' = announced \cup found.ids
      /\ told' = (told \cup about) \ (parted \cap found.ids) /\ about' = found.ids
      /\ parted' = parted \ {i \in found.ids : to[i] \in Owned}
      /\ undo' = [pointed |-> pointed, pushed |-> facts.pushed]
      /\ pointed' = PointedAt(pointed, found.told)
      /\ FactsWritten([pushed |-> TRUE, open |-> TRUE])
      /\ found' = Nothing /\ sending' = issued + 1 /\ at' = "window"
      /\ sure' = sure \cap {late.nonce}
      /\ UNCHANGED <<mail, evidence, retry, cursor, landed, again, late, answered>>
  BY DEF Reserve, Going
<1>2. /\ issued \in Nat /\ pointed \in [Name -> 0 .. MaxSent] /\ facts.pushed \in BOOLEAN
      /\ found.ids \in SUBSET Id /\ found.told \in SUBSET Name
  BY DEF AnnInv, AnnTypeOK
<1>3. pointed' \in [Name -> 0 .. MaxSent]
  BY <1>1, <1>2, PointedType
<1>4. [pushed |-> TRUE, open |-> TRUE] \in [pushed : BOOLEAN, open : BOOLEAN]
  OBVIOUS
<1>5. /\ {dirty', recorded'} \subseteq BOOLEAN /\ saving' \in {"no", "now", "older"}
      /\ saving' = "older" => dirty'
      /\ ~dirty' => recorded' \/ saving' = "now"
  BY <1>1, <1>4, ReportMoves
<1>6. facts' = [pushed |-> TRUE, open |-> TRUE] /\ found'.ids = {} /\ found'.told = {}
  BY <1>1 DEF FactsWritten, Nothing
<1>7. landed \subseteq answered /\ retry = "none"
  <2>1. \A k \in landed : k # 0
    BY <1>2 DEF AnnInv, Gate
  <2> QED BY <1>1, <2>1 DEF AnnInv, Gate, OneNoticeOut
<1>8. /\ landed \subseteq 1 .. issued /\ sure' \subseteq 1 .. issued /\ sure' \subseteq sure
      /\ late.nonce <= issued /\ answered \subseteq landed /\ late.nonce \in Nat
      /\ issued + 1 \notin landed \cup sure' /\ late.nonce < issued + 1
  BY <1>1, <1>2 DEF AnnInv, Gate, Copies, AnnTypeOK
<1>9. AnnTypeOK'
  <2>1. undo' \in [pointed : [Name -> 0 .. MaxSent], pushed : BOOLEAN]
    BY <1>1, <1>2
  <2>2. found' \in [ids : SUBSET Id, told : SUBSET Name]
    BY <1>1 DEF Nothing
  <2>3. announced' \cup about' \cup told' \subseteq Id'
    BY <1>1, <1>2 DEF AnnInv, AnnTypeOK, Id
  <2>4. {issued', out', sending'} \subseteq Nat
    BY <1>1, <1>2
  <2> QED BY <1>1, <1>3, <1>5, <1>6, <1>8, <2>1, <2>2, <2>3, <2>4
          DEF AnnInv, AnnTypeOK, evidence
<1>10. Gate'
  <2>1. landed' \subseteq 1 .. issued' /\ late'.nonce <= issued' /\ issued' > 0 /\ late'.nonce < issued'
    BY <1>1, <1>2, <1>8
  <2>2. issued' \notin landed' \cup sure' /\ out' = issued' /\ out' # 0 /\ sending' = issued' /\ retry' = "none"
    BY <1>1, <1>2, <1>7, <1>8
  <2>3. landed' \subseteq answered' /\ answered' \subseteq landed'
    BY <1>1, <1>7, <1>8
  <2> QED BY <2>1, <2>2, <2>3 DEF Gate, OneNoticeOut
<1>11. Copies'
  <2>1. /\ ~again /\ (kind # "inbox" => late = NoLate)
        /\ late.state \in {"alive", "delivered"} =>
             late.nonce \notin sure /\ late.nonce > 0 /\ late.nonce \in answered
    BY <1>1 DEF AnnInv, Copies
  <2>2. issued' \notin sure'
    BY <1>1, <1>8
  <2>3. sure' \subseteq 1 .. issued'
    BY <1>1, <1>2, <1>8
  <2>4. again' = again /\ kind' = kind /\ late' = late /\ answered' = answered /\ sure' \subseteq sure
    BY <1>1, <1>8 DEF mailVars, mail
  <2>5. late'.state \in {"alive", "delivered"} =>
          late'.nonce \notin sure' /\ late'.nonce > 0 /\ late'.nonce \in answered'
    BY <2>1, <2>4
  <2>6. ~again' /\ (kind' # "inbox" => late' = NoLate)
    BY <2>1, <2>4
  <2> QED BY <1>1, <2>2, <2>3, <2>5, <2>6 DEF Copies, NoLate
<1>12. Facts'
  <2>1. landed # {} => facts.pushed
    BY DEF AnnInv, Facts
  <2> QED BY <1>1, <1>5, <1>6, <2>1 DEF Facts, evidence
<1>13. Announced'
  <2>1. /\ found.ids \cap (told \cup about) \subseteq parted
        /\ told \cup about \subseteq announced \cup read \cup parted
        /\ told \cup about \cup found.ids \subseteq Ours \cup parted
    BY <1>1 DEF AnnInv, Announced
  <2>2. Ours' = Ours /\ read' = read /\ \A i \in Ours : to[i] \in Owned
    BY <1>1 DEF Ours, Owned, mail
  <2>3. parted \ found.ids \subseteq parted' /\ told' \cap found.ids = {} /\ told' \subseteq told \cup about
    BY <1>1, <2>1
  <2>4. parted \ parted' \subseteq Ours'
    <3>1. parted \subseteq DOMAIN to
      BY DEF MailTypeOK
    <3> QED BY <1>1, <2>2, <3>1 DEF Ours
  <2>5. NoSecondNotice'
    BY <1>1, <2>3 DEF NoSecondNotice
  <2>6. told' \cup about' \cup found'.ids \subseteq Ours' \cup parted'
    BY <1>1, <1>6, <2>1, <2>2, <2>3, <2>4
  <2>7. told' \cup about' \subseteq announced' \cup read' \cup parted'
    BY <1>1, <2>1, <2>2, <2>3
  <2> QED BY <1>1, <2>5, <2>6, <2>7 DEF Announced
<1> QED BY <1>9, <1>10, <1>11, <1>12, <1>13 DEF AnnInv

(* What came in the window is new too.                                      *)
LEMMA RevalidateKeeps ==
  ASSUME MailTypeOK, AnnInv, Revalidate
  PROVE  AnnInv'
<1> DEFINE batched == {i \in Sweep(Owned, 0).rows : to[i] \in Granted} \ announced
<1>1. /\ at = "window" /\ at' = "send"
      /\ announced' = announced \cup batched /\ about' = about \cup batched
      /\ pointed' = PointedAt(pointed, Hinted)
      /\ told' = told \ (parted \cap batched) /\ parted' = parted \ batched
      /\ UNCHANGED <<mail, evidence, issued, out, retry, undo, hand, report, copies,
                     late, answered>>
  BY DEF Revalidate, Going
<1>2. batched \in SUBSET Id /\ batched \subseteq Ours \ (announced \cup read)
  <2>1. Sweep(Owned, 0).rows \in SUBSET UnreadAt(Owned)
    BY SweepFacts
  <2> QED BY <2>1, UnreadFacts DEF UnreadAt, Ours
<1> HIDE DEF batched
<1>3. pointed' \in [Name -> 0 .. MaxSent]
  <2>1. Hinted \in SUBSET Name /\ pointed \in [Name -> 0 .. MaxSent]
    BY MailFacts DEF Hinted, AnnInv, AnnTypeOK
  <2> QED BY <1>1, <2>1, PointedType
<1> USE <1>1 DEF evidence, copies, mail, report, hand
<1>4. AnnTypeOK'
  BY <1>2, <1>3 DEF AnnInv, AnnTypeOK, Id
<1>5. Gate'
  BY DEF AnnInv, Gate, OneNoticeOut, InHandNow, FirstTry
<1>6. Copies'
  BY DEF AnnInv, Copies, InHandNow, NoLate
<1>7. Facts'
  BY DEF AnnInv, Facts, FirstTry
<1>8. Announced'
  <2>1. /\ about \cap told = {}
        /\ told \cup about \subseteq announced \cup read \cup parted
        /\ told \cup about \cup found.ids \subseteq Ours \cup parted
    BY DEF AnnInv, Announced, NoSecondNotice
  <2>2. Ours' = Ours /\ read' = read
    BY DEF Ours, Owned
  <2>3. told \cap batched \subseteq parted
    BY <1>2, <2>1
  <2>4. NoSecondNotice'
    BY <2>1, <2>3 DEF NoSecondNotice
  <2>5. told' \cup about' \cup found'.ids \subseteq Ours' \cup parted'
    BY <1>2, <2>1, <2>2
  <2>6. told' \cup about' \subseteq announced' \cup read' \cup parted'
    BY <2>1, <2>2
  <2> QED BY <2>4, <2>5, <2>6 DEF Announced
<1> QED BY <1>4, <1>5, <1>6, <1>7, <1>8 DEF AnnInv

(* A notice nobody can have got is undone, and its nonce is free again.      *)
LEMMA TakeBackKeeps ==
  ASSUME MailTypeOK, AnnInv, FirstTry, saving = "no", TakeBack, UNCHANGED copies,
         late' \in {late, NoLate}
  PROVE  AnnInv'
<1>1. /\ out' = 0 /\ issued' = issued - 1
      /\ announced' = announced \ about /\ about' = {}
      /\ pointed' = undo.pointed /\ undo' = NoUndo
      /\ FactsWritten([pushed |-> undo.pushed, open |-> stopped /\ undo.pushed])
      /\ sending' = 0 /\ at' = Idle
      /\ UNCHANGED <<mailVars, evidence, retry, told, found, cursor, answered>>
  BY DEF TakeBack
<1>2. /\ issued \in Nat /\ undo \in [pointed : [Name -> 0 .. MaxSent], pushed : BOOLEAN]
      /\ stopped \in BOOLEAN
  BY DEF AnnInv, AnnTypeOK
<1>3. [pushed |-> undo.pushed, open |-> stopped /\ undo.pushed] \in [pushed : BOOLEAN, open : BOOLEAN]
  BY <1>2
<1>4. /\ {dirty', recorded'} \subseteq BOOLEAN /\ saving' \in {"no", "now", "older"}
      /\ saving' = "older" => dirty'
      /\ ~dirty' => recorded' \/ saving' = "now"
      /\ facts' \in [pushed : BOOLEAN, open : BOOLEAN]
  <2>1. \E f \in [pushed : BOOLEAN, open : BOOLEAN] : FactsWritten(f)
    BY <1>1, <1>3
  <2> QED BY <2>1, ReportMoves
<1>5. facts'.pushed = undo.pushed /\ facts'.open = (stopped /\ undo.pushed)
  BY <1>1 DEF FactsWritten
<1>6. InHandNow
  BY DEF FirstTry, InHandNow
<1>7. /\ issued > 0 /\ retry = "none" /\ out = issued /\ issued \notin landed \cup sure
      /\ late.nonce < issued /\ landed \subseteq answered /\ answered \subseteq landed
      /\ landed \subseteq 1 .. issued /\ sure \subseteq 1 .. issued
  BY <1>6 DEF AnnInv, Gate, OneNoticeOut, Copies
<1>8. late'.nonce \in Nat /\ late'.nonce <= issued - 1 /\ late.nonce \in Nat
  BY <1>2, <1>7 DEF AnnInv, AnnTypeOK, NoLate
<1>9. AnnTypeOK'
  <2>1. NoUndo \in [pointed : [Name -> 0 .. MaxSent], pushed : BOOLEAN]
    BY WakeMailAssumption DEF NoUndo, Unsaid
  <2>2. pointed' \in [Name -> 0 .. MaxSent]
    BY <1>1, <1>2
  <2>3. late' \in [nonce : Nat, state : {"none", "alive", "delivered", "done", "failed"}]
    BY DEF AnnInv, AnnTypeOK, NoLate
  <2>4. {issued', out', sending'} \subseteq Nat
    BY <1>1, <1>2, <1>7
  <2>5. announced' \cup about' \cup told' \subseteq Id'
    BY <1>1 DEF AnnInv, AnnTypeOK, Id
  <2> QED BY <1>1, <1>4, <2>1, <2>2, <2>3, <2>4, <2>5
          DEF AnnInv, AnnTypeOK, Idle, evidence, copies
<1>10. Gate'
  <2>1. landed' \subseteq 1 .. issued' /\ late'.nonce <= issued'
    BY <1>1, <1>2, <1>7, <1>8 DEF copies
  <2>2. ~InHandNow' /\ ~FirstTry'
    BY <1>1 DEF InHandNow, FirstTry, Idle
  <2> QED BY <1>1, <1>7, <2>1, <2>2 DEF Gate, OneNoticeOut, copies
<1>11. Copies'
  <2>1. sure' \subseteq 1 .. issued' /\ ~InHandNow' /\ retry' = "none" /\ kind' = kind
    BY <1>1, <1>2, <1>7 DEF copies, InHandNow, Idle, mailVars, mail
  <2>2. late'.state \in {"alive", "delivered"} =>
          late' = late /\ late.nonce \notin sure /\ late.nonce > 0 /\ late.nonce \in answered
    <3>1. late'.state \in {"alive", "delivered"} => late' = late
      BY DEF NoLate
    <3>2. late.state \in {"alive", "delivered"} =>
            late.nonce \notin sure /\ late.nonce > 0 /\ (late.nonce \in answered \/ late.nonce = out)
      BY DEF AnnInv, Copies
    <3>3. late.nonce # out
      BY <1>2, <1>7, <1>8
    <3> QED BY <3>1, <3>2, <3>3
  <2>3. ~again /\ (kind # "inbox" => late = NoLate)
    BY DEF AnnInv, Copies
  <2> QED BY <1>1, <2>1, <2>2, <2>3 DEF Copies, copies, NoLate, Idle
<1>12. Facts'
  <2>1. landed # {} => undo.pushed
    BY DEF AnnInv, Facts
  <2> QED BY <1>1, <1>4, <1>5, <2>1 DEF Facts, copies, FirstTry, Idle, evidence
<1>13. Announced'
  <2>1. /\ about \cap told = {}
        /\ told \cup about \subseteq announced \cup read \cup parted
        /\ told \cup about \cup found.ids \subseteq Ours \cup parted
    BY DEF AnnInv, Announced, NoSecondNotice
  <2> QED BY <1>1, <2>1 DEF Announced, NoSecondNotice, Ours, Owned, mailVars, mail, Idle
<1> QED BY <1>9, <1>10, <1>11, <1>12, <1>13 DEF AnnInv

(* A notice is sent, or not for sure: then it is sent again, unless its     *)
(* receipt came.  One sent for sure already is not in hand, but for a write *)
(* that ended late.                                                         *)
LEMMA SendKeeps ==
  ASSUME AnnInv, saving = "no", at \in {"send", "resend", "steer", "queue"}, Done,
         UNCHANGED report \/ PickUp,
         UNCHANGED <<landed, again>> \/ (issued \notin sure /\ Land(sending)),
         \/ sure' = sure \cup {sending} /\ UNCHANGED <<out, retry>> /\ late' = NoLate
         \/ /\ sure' = sure /\ out' = out /\ retry' = Retried /\ issued \notin sure
            /\ \/ late' \in {late, NoLate}
               \/ kind = "inbox" /\ late' = [nonce |-> sending, state |-> "alive"]
  PROVE  AnnInv'
<1>1. /\ sending' = 0 /\ undo' = NoUndo /\ at' = Idle
      /\ UNCHANGED <<mailVars, evidence, found, cursor, issued, announced, pointed, about, told, answered>>
  BY DEF Done
<1>2. InHandNow /\ sending = issued /\ issued > 0 /\ retry = "none" /\ issued \in Nat
      /\ (out = issued \/ issued \in answered) /\ out \in {0, issued}
  BY DEF InHandNow, AnnInv, Gate, AnnTypeOK
<1>3. ~InHandNow' /\ ~FirstTry' /\ at' # "reserve"
  BY <1>1 DEF InHandNow, FirstTry, Idle
<1>4. facts' = facts
  BY DEF PickUp, report
<1>5. /\ {dirty', recorded'} \subseteq BOOLEAN /\ saving' \in {"no", "now", "older"}
      /\ saving' = "older" => dirty'
      /\ ~dirty' => recorded' \/ saving' = "now"
  BY ReportMoves
<1>6. landed' \in {landed, landed \cup {issued}} /\ ~again'
  <2>1. ~again
    BY DEF AnnInv, Copies
  <2>2. CASE UNCHANGED <<landed, again>>
    BY <2>1, <2>2
  <2>3. CASE issued \notin sure /\ Land(sending)
    BY <1>2, <2>1, <2>3 DEF Land
  <2> QED BY <2>2, <2>3
<1>7. /\ out' = out /\ retry' \in {"none", "waiting"}
      /\ retry' # "none" => out = issued /\ issued \notin sure /\ sure' = sure
      /\ sure' \in {sure, sure \cup {issued}}
  BY <1>2 DEF Retried
<1>8. /\ late' \in {late, NoLate, [nonce |-> issued, state |-> "alive"]}
      /\ late' \in [nonce : Nat, state : {"none", "alive", "delivered", "done", "failed"}]
      /\ late'.nonce <= issued
      /\ kind # "inbox" => late' = NoLate
      /\ late' # NoLate => sure' = sure /\ issued \notin sure
  <2>1. /\ late \in [nonce : Nat, state : {"none", "alive", "delivered", "done", "failed"}]
        /\ late.nonce <= issued /\ (kind # "inbox" => late = NoLate)
    BY DEF AnnInv, AnnTypeOK, Gate, Copies
  <2> QED BY <1>2, <2>1 DEF NoLate
<1>9. AnnTypeOK'
  <2>1. NoUndo \in [pointed : [Name -> 0 .. MaxSent], pushed : BOOLEAN]
    BY WakeMailAssumption DEF NoUndo, Unsaid
  <2>2. /\ landed' \cup sure' \cup answered' \subseteq Nat \ {0}
        /\ {issued', out', sending'} \subseteq Nat
    BY <1>1, <1>2, <1>6, <1>7 DEF AnnInv, AnnTypeOK
  <2>3. announced' \cup about' \cup told' \subseteq Id'
    BY <1>1 DEF AnnInv, AnnTypeOK, Id
  <2>4. {address', stopped', dirty', recorded', again'} \subseteq BOOLEAN
    BY <1>1, <1>5 DEF AnnInv, AnnTypeOK, evidence, Land, Copies
  <2> QED BY <1>1, <1>4, <1>5, <1>7, <1>8, <2>1, <2>2, <2>3, <2>4 DEF AnnInv, AnnTypeOK, Idle
<1>10. Gate'
  <2>1. /\ landed \subseteq 1 .. issued /\ answered \subseteq landed
        /\ (out = 0 => retry = "none") /\ \A k \in landed \ answered : k = out
    BY DEF AnnInv, Gate, OneNoticeOut
  <2>2. landed' \subseteq 1 .. issued' /\ answered' \subseteq landed'
    BY <1>1, <1>2, <1>6, <2>1
  <2>3. \A k \in landed' \ answered' : k = out'
    BY <1>1, <1>2, <1>6, <1>7, <2>1
  <2>4. out' = 0 => retry' = "none"
    BY <1>2, <1>7
  <2> QED BY <1>1, <1>2, <1>3, <1>7, <1>8, <2>2, <2>3, <2>4 DEF Gate, OneNoticeOut
<1>11. Copies'
  <2>1. /\ sure \subseteq 1 .. issued
        /\ late.state \in {"alive", "delivered"} =>
             late.nonce \notin sure /\ late.nonce > 0 /\ (late.nonce \in answered \/ late.nonce = out)
    BY DEF AnnInv, Copies
  <2>2. sure' \subseteq 1 .. issued'
    BY <1>1, <1>2, <1>7, <2>1
  <2>3. late'.state \in {"alive", "delivered"} =>
          /\ late'.nonce \notin sure' /\ late'.nonce > 0
          /\ late'.nonce \in answered' \/ late'.nonce = out'
    BY <1>1, <1>2, <1>7, <1>8, <2>1 DEF NoLate
  <2>4. retry' # "none" => issued' \notin sure'
    BY <1>1, <1>7
  <2>5. kind' # "inbox" => late' = NoLate'
    BY <1>1, <1>8 DEF mailVars, mail, NoLate
  <2> QED BY <1>1, <1>3, <1>6, <2>2, <2>3, <2>4, <2>5 DEF Copies, Idle
<1>12. Facts'
  <2>1. /\ out # 0 => facts.pushed /\ facts.open
        /\ stopped /\ facts.pushed => facts.open
        /\ landed # {} => facts.pushed
        /\ issued \in answered => landed # {}
    BY DEF AnnInv, Facts, Gate
  <2>2. facts.pushed
    BY <1>2, <2>1
  <2> QED BY <1>1, <1>3, <1>4, <1>5, <1>7, <2>1, <2>2 DEF Facts, evidence
<1>13. Announced'
  BY <1>1, <1>3 DEF AnnInv, Announced, NoSecondNotice, Ours, Owned, mailVars, mail
<1> QED BY <1>9, <1>10, <1>11, <1>12, <1>13 DEF AnnInv

(* A write that timed out moves on beside the wake.                         *)
LEMMA LateKeeps ==
  ASSUME AnnInv, LateLands \/ LateEnds
  PROVE  AnnInv'
<1>1. /\ late.state \in {"alive", "delivered"}
      /\ UNCHANGED <<mailVars, at, evidence, gate, hand, report, answered>>
      /\ late'.nonce = late.nonce
      /\ late'.state \in {"delivered", "done", "failed"}
      /\ late' = [nonce |-> late.nonce, state |-> late'.state]
  <2>1. late \in [nonce : Nat, state : {"none", "alive", "delivered", "done", "failed"}]
    BY DEF AnnInv, AnnTypeOK
  <2> QED BY <2>1 DEF LateLands, LateEnds, LateMoves
<1>2. /\ late.nonce \notin sure /\ late.nonce > 0 /\ late.nonce \in Nat /\ late.nonce <= issued
      /\ late.nonce \in answered \/ late.nonce = out
      /\ issued \in Nat /\ kind = "inbox"
  BY <1>1 DEF AnnInv, AnnTypeOK, Copies, Gate, NoLate
<1>3. /\ landed' \in {landed, landed \cup {late.nonce}} /\ ~again'
      /\ again' \in BOOLEAN
      /\ sure' \in {sure, sure \cup {late.nonce}}
      /\ sure' # sure => late'.state = "done"
      /\ late'.state \in {"alive", "delivered"} => sure' = sure
  <2>1. ~again /\ again \in BOOLEAN /\ late \in [nonce : Nat, state : {"none", "alive", "delivered", "done", "failed"}]
    BY DEF AnnInv, Copies, AnnTypeOK
  <2>2. CASE LateLands
    BY <1>2, <2>1, <2>2 DEF LateLands, LateMoves, Land
  <2>3. CASE late.state = "delivered" /\ LateMoves("done") /\ sure' = sure \cup {late.nonce}
             /\ UNCHANGED <<landed, again>>
    BY <2>1, <2>3 DEF LateMoves
  <2>4. CASE LateMoves("failed") /\ UNCHANGED copies
    BY <2>1, <2>4 DEF LateMoves, copies
  <2> QED BY <2>2, <2>3, <2>4 DEF LateEnds
<1>4. InHandNow' = InHandNow /\ FirstTry' = FirstTry
  BY <1>1 DEF InHandNow, FirstTry
<1> USE <1>1 DEF gate, evidence, hand, report
<1>5. AnnTypeOK'
  <2>1. late' \in [nonce : Nat, state : {"none", "alive", "delivered", "done", "failed"}]
    BY <1>2
  <2>2. landed' \cup sure' \cup answered' \subseteq Nat \ {0}
    BY <1>2, <1>3 DEF AnnInv, AnnTypeOK
  <2>3. announced' \cup about' \cup told' \subseteq Id'
    BY DEF AnnInv, AnnTypeOK, Id
  <2>4. {address', stopped', dirty', recorded', again'} \subseteq BOOLEAN
    BY <1>3 DEF AnnInv, AnnTypeOK
  <2> QED BY <2>1, <2>2, <2>3, <2>4 DEF AnnInv, AnnTypeOK
<1>6. Gate'
  <2>1. /\ landed \subseteq 1 .. issued /\ answered \subseteq landed
        /\ \A k \in landed \ answered : k = out
    BY DEF AnnInv, Gate, OneNoticeOut
  <2>2. landed' \subseteq 1 .. issued' /\ answered' \subseteq landed'
    BY <1>2, <1>3, <2>1
  <2>3. \A k \in landed' \ answered' : k = out'
    BY <1>2, <1>3, <2>1
  <2>4. FirstTry => issued \notin landed' \cup sure'
    <3>1. FirstTry => issued \notin landed \cup sure /\ late.nonce < issued
      BY DEF AnnInv, Gate
    <3>2. FirstTry => late.nonce # issued
      BY <1>2, <3>1
    <3> QED BY <1>3, <3>1, <3>2
  <2> QED BY <1>4, <2>2, <2>3, <2>4 DEF AnnInv, Gate, OneNoticeOut
<1>7. Copies'
  <2>1. /\ sure \subseteq 1 .. issued
        /\ (InHandNow \/ retry # "none") => issued \notin sure
    BY DEF AnnInv, Copies
  <2>2. sure' \subseteq 1 .. issued'
    BY <1>2, <1>3, <2>1
  <2>3. (InHandNow' \/ retry' # "none") /\ issued' \in sure' =>
          late' = [nonce |-> issued', state |-> "done"]
    BY <1>3, <1>4, <2>1
  <2>4. late'.state \in {"alive", "delivered"} =>
          /\ late'.nonce \notin sure' /\ late'.nonce > 0
          /\ late'.nonce \in answered' \/ late'.nonce = out'
    BY <1>2, <1>3
  <2>5. kind' = "inbox"
    BY <1>2 DEF mailVars, mail
  <2>6. at' \in {"steer", "queue"} => kind' = "codex"
    BY DEF AnnInv, Copies, mailVars, mail
  <2> QED BY <1>3, <2>2, <2>3, <2>4, <2>5, <2>6 DEF Copies
<1>8. Facts'
  <2>1. landed' # {} => facts.pushed /\ (FirstTry => undo.pushed)
    <3>1. CASE late.nonce \in answered
      <4>1. landed # {}
        BY <3>1 DEF AnnInv, Gate
      <4> QED BY <4>1 DEF AnnInv, Facts
    <3>2. CASE late.nonce = out
      <4>1. facts.pushed
        BY <1>2, <3>2 DEF AnnInv, Facts
      <4>2. ~FirstTry
        BY <1>2, <3>2 DEF AnnInv, Gate
      <4> QED BY <4>1, <4>2
    <3> QED BY <1>2, <3>1, <3>2
  <2> QED BY <1>4, <2>1 DEF AnnInv, Facts
<1>9. Announced'
  BY DEF AnnInv, Announced, NoSecondNotice, Ours, Owned, mailVars, mail
<1> QED BY <1>5, <1>6, <1>7, <1>8, <1>9 DEF AnnInv

(* What does not move keeps.                                                *)
LEMMA AnnStays ==
  ASSUME AnnInv, UNCHANGED mailVars, UNCHANGED annVars
  PROVE  AnnInv'
<1> USE DEF annVars, mailVars, mail, gate, evidence, hand, report, copies
<1>1. AnnTypeOK'
  BY DEF AnnInv, AnnTypeOK, Id
<1>2. Gate' /\ Copies'
  BY DEF AnnInv, Gate, Copies, OneNoticeOut, InHandNow, FirstTry, NoLate
<1>3. Facts' /\ Announced'
  BY DEF AnnInv, Facts, FirstTry, Announced, NoSecondNotice, Ours, Owned
<1> QED BY <1>1, <1>2, <1>3 DEF AnnInv

(* The ways a send goes, in a thread or into an inbox.                      *)
LEMMA NotSureInHand ==
  ASSUME AnnInv, InHandNow, kind = "codex" \/ ~Written
  PROVE  issued \notin sure
BY DEF AnnInv, Copies, Gate, Written, NoLate

LEMMA SteeringKeeps ==
  ASSUME AnnInv, SteerAccepted \/ SteerAmbiguous \/ Queued \/ QueueFails
  PROVE  AnnInv' /\ UNCHANGED mailVars
<1>1. /\ at \in {"send", "resend", "steer", "queue"} /\ saving = "no" /\ InHandNow
      /\ Done /\ PickUp /\ UNCHANGED mailVars /\ late' = late /\ kind = "codex"
  BY DEF SteerAccepted, SteerAmbiguous, Queued, QueueFails, Steering, Going, Sent, Unsettled,
         InHandNow, Done, AnnInv, Copies
<1>2. late = NoLate /\ issued \notin sure
  BY <1>1, NotSureInHand DEF AnnInv, Copies
<1>3. UNCHANGED <<landed, again>> \/ (issued \notin sure /\ Land(sending))
  BY <1>2 DEF SteerAccepted, SteerAmbiguous, Queued, QueueFails, MayLand
<1>4. \/ sure' = sure \cup {sending} /\ UNCHANGED <<out, retry>>
      \/ sure' = sure /\ out' = out /\ retry' = Retried
  BY DEF SteerAccepted, SteerAmbiguous, Queued, QueueFails, Sent, Unsettled
<1> QED BY <1>1, <1>2, <1>3, <1>4, SendKeeps

LEMMA PostingKeeps ==
  ASSUME AnnInv,
         \/ PostBlocked \/ PostWritten \/ Posted \/ PostInDoubt \/ PostTimesOut
         \/ MayPost /\ late' = NoLate /\ at = "resend" /\ Unsettled /\ UNCHANGED <<landed, again, report>>
  PROVE  AnnInv' /\ UNCHANGED mailVars
<1>1. /\ at \in {"send", "resend", "steer", "queue"} /\ saving = "no" /\ InHandNow
      /\ Done /\ UNCHANGED report /\ UNCHANGED mailVars /\ kind = "inbox"
  BY DEF PostBlocked, PostWritten, Posted, PostInDoubt, PostTimesOut, MayPost, Posting, Going,
         Sent, Unsettled, InHandNow, Done
<1>2. ~PostWritten => ~Written
  BY DEF PostBlocked, Blocked, Posted, PostInDoubt, PostTimesOut, MayPost, Written
<1>3. ~PostWritten => issued \notin sure
  BY <1>1, <1>2, NotSureInHand
<1>4. UNCHANGED <<landed, again>> \/ (issued \notin sure /\ Land(sending))
  BY <1>3 DEF PostBlocked, PostWritten, Posted, PostInDoubt, PostTimesOut, MayLand
<1>5. \/ sure' = sure \cup {sending} /\ UNCHANGED <<out, retry>> /\ late' = NoLate
      \/ /\ sure' = sure /\ out' = out /\ retry' = Retried /\ issued \notin sure
         /\ \/ late' \in {late, NoLate}
            \/ kind = "inbox" /\ late' = [nonce |-> sending, state |-> "alive"]
  <2>1. CASE PostWritten
    BY <2>1 DEF PostWritten, Sent
  <2>2. CASE Posted
    BY <2>2 DEF Posted, Sent
  <2>3. CASE PostBlocked
    BY <1>2, <1>3, <2>3 DEF PostBlocked, PostWritten, Unsettled, Posting, Blocked, Written
  <2>4. CASE PostInDoubt
    BY <1>3, <2>4 DEF PostInDoubt, PostWritten, MayPost, Unsettled
  <2>5. CASE PostTimesOut
    BY <1>1, <1>3, <2>5 DEF PostTimesOut, PostWritten, MayPost, Unsettled
  <2>6. CASE MayPost /\ late' = NoLate /\ at = "resend" /\ Unsettled
    BY <1>3, <2>6 DEF PostWritten, MayPost, Unsettled
  <2> QED BY <2>1, <2>2, <2>3, <2>4, <2>5, <2>6
<1> QED BY <1>1, <1>4, <1>5, SendKeeps

LEMMA AnnStep ==
  ASSUME MailTypeOK, AnnInv, AnnNext
  PROVE  AnnInv' /\ UNCHANGED mail /\ parted' \subseteq parted
<1> USE DEF mailVars
<1>1. CASE Flush
  BY <1>1, FlushKeeps DEF Flush
<1>2. CASE PollStarts
  <2>1. /\ saving = "no" /\ PickUp /\ at' = "check"
        /\ UNCHANGED <<mailVars, evidence, gate, hand, copies, late, answered>>
    BY <1>2 DEF PollStarts, Going
  <2> QED BY <2>1, MoveKeeps DEF gate, hand
<1>3. CASE Resend
  BY <1>3, ResendKeeps DEF Resend
<1>4. CASE ScanMail
  BY <1>4, ScanKeeps DEF ScanMail
<1>5. CASE ScanFails
  BY <1>5, ScanFailsKeeps DEF ScanFails
<1>6. CASE Unaddressed
  <2>1. /\ saving = "no" /\ at' = Idle
        /\ UNCHANGED <<mailVars, evidence, gate, hand, report, copies, late, answered>>
    BY <1>6 DEF Unaddressed, Going
  <2> QED BY <2>1, MoveKeeps DEF gate, hand
<1>7. CASE Reserve
  BY <1>7, ReserveKeeps DEF Reserve
<1>8. CASE ReserveRefused
  <2>1. /\ saving = "no" /\ at' = Idle /\ found' = Nothing
        /\ UNCHANGED <<mailVars, evidence, gate, sending, cursor, report, copies, late, answered>>
    BY <1>8 DEF ReserveRefused, Going
  <2> QED BY <2>1, MoveKeeps DEF gate
<1>9. CASE Revalidate
  BY <1>9, RevalidateKeeps DEF Revalidate
<1>10. CASE Cancel
  <2>1. FirstTry /\ saving = "no" /\ TakeBack /\ UNCHANGED copies /\ late' = late
    BY <1>10 DEF Cancel, Going, FirstTry
  <2> QED BY <2>1, TakeBackKeeps DEF TakeBack
<1>11. CASE SteerNotAdmitted
  <2>1. /\ saving = "no" /\ at' \in {"steer", "queue"} /\ InHandNow /\ kind = "codex"
        /\ UNCHANGED <<mailVars, evidence, gate, hand, report, copies, late, answered>>
    BY <1>11 DEF SteerNotAdmitted, Steering, Going, InHandNow
  <2> QED BY <2>1, MoveKeeps DEF gate, hand
<1>12. CASE SteerAccepted \/ SteerAmbiguous \/ Queued \/ QueueFails
  BY <1>12, SteeringKeeps
<1>13. CASE PostBlocked \/ PostWritten \/ Posted \/ PostInDoubt \/ PostTimesOut
  BY <1>13, PostingKeeps
<1>14. CASE PostUnreached
  <2>1. CASE at = "send" /\ TakeBack /\ UNCHANGED copies
    <3>1. FirstTry /\ saving = "no" /\ late' = NoLate
      BY <1>14, <2>1 DEF PostUnreached, MayPost, Posting, Going, FirstTry
    <3> QED BY <2>1, <3>1, TakeBackKeeps DEF TakeBack
  <2>2. CASE at = "resend" /\ Unsettled /\ UNCHANGED <<landed, again, report>>
    <3>1. MayPost /\ late' = NoLate
      BY <1>14 DEF PostUnreached
    <3> QED BY <2>2, <3>1, PostingKeeps
  <2> QED BY <1>14, <2>1, <2>2 DEF PostUnreached
<1>15. CASE Pin
  BY <1>15, PinKeeps DEF Pin
<1>16. CASE SecondThread
  BY <1>16, SecondThreadKeeps DEF SecondThread
<1>17. CASE RetryFalls
  BY <1>17, RetryKeeps DEF RetryFalls
<1>18. CASE LateLands \/ LateEnds
  BY <1>18, LateKeeps DEF LateLands, LateEnds, LateMoves
<1>19. ASSUME NEW k \in landed, AcceptReceipt(k) PROVE AnnInv' /\ UNCHANGED mail /\ parted' \subseteq parted
  BY <1>19, AcceptKeeps DEF AcceptReceipt
<1> QED
  BY <1>1, <1>2, <1>3, <1>4, <1>5, <1>6, <1>7, <1>8, <1>9, <1>10, <1>11, <1>12, <1>13, <1>14,
     <1>15, <1>16, <1>17, <1>18, <1>19
  DEF AnnNext, AnnThread, AnnSent

(* What is reported of notices follows: a notice unanswered is out, and     *)
(* what is out is reported as open.                                         *)
LEMMA AnnReportFollows ==
  ASSUME AnnInv
  PROVE  AnnReport
<1>1. ASSUME facts.pushed, ~facts.open PROVE landed \subseteq answered /\ ~stopped
  <2>1. out = 0 /\ ~stopped
    BY <1>1 DEF AnnInv, Facts, Gate, AnnTypeOK
  <2>2. \A k \in landed : k # 0
    BY DEF AnnInv, Gate, AnnTypeOK
  <2> QED BY <2>1, <2>2 DEF AnnInv, Gate, OneNoticeOut
<1>2. landed # {} => facts.pushed
  BY DEF AnnInv, Facts
<1>3. saving = "no" /\ ~dirty => recorded
  BY DEF AnnInv, Facts
<1> QED BY <1>1, <1>2, <1>3 DEF AnnReport

----------------------------------------------------------------------------
(* The wakes together.                                                     *)

LEMMA Invariance == Spec => []Inductive
<1> USE DEF Inductive
<1>1. Init => Inductive
  <2> SUFFICES ASSUME Init PROVE Inductive
    OBVIOUS
  <2>1. MailTypeOK
    <3>1. to = <<>> /\ read = {} /\ kind \in Kinds /\ MaxSent \in Nat
          /\ place \in [Name -> Places] /\ left = 0 /\ parted = {} /\ MaxLeft \in Nat
      BY WakeMailAssumption DEF Init, MailInit, Places
    <3> QED BY <3>1, EmptySeq DEF MailTypeOK
  <2> QED BY <2>1, AnnStarts, PushStarts, WatchStarts DEF Init
<1>2. Inductive /\ [Next]_wakeVars => Inductive'
  <2> SUFFICES ASSUME Inductive, [Next]_wakeVars PROVE Inductive'
    OBVIOUS
  <2>1. CASE MailNext /\ UNCHANGED <<annVars, pushVars, watchVars>>
    <3>1. MailTypeOK' /\ AnnInv'
      BY <2>1, MailGrows, AnnUnderMail
    <3>2. PushInv'
      BY <2>1 DEF PushInv, PushTypeOK, Pushed, Scheduled, Snapshots, DueNow, pushVars, recordVars,
                  storeVars, Id
    <3>3. WatchInv'
      BY <2>1, MailGrows DEF WatchInv, WatchTypeOK, NoSecondTurn, watchVars, ghosts, Id
    <3> QED BY <3>1, <3>2, <3>3
  <2>2. CASE ByAnn(AnnNext)
    <3>1. AnnInv' /\ UNCHANGED mail /\ parted' \subseteq parted /\ UNCHANGED <<pushVars, watchVars>>
      BY <2>2, AnnStep DEF ByAnn
    <3>2. MailTypeOK' /\ WatchInv'
      BY <3>1 DEF MailTypeOK, WatchInv, WatchTypeOK, NoSecondTurn, watchVars, ghosts, mail, Id
    <3>3. PushInv'
      BY <3>1 DEF PushInv, PushTypeOK, Pushed, Scheduled, Snapshots, DueNow, pushVars, recordVars,
                  storeVars, Id
    <3> QED BY <3>1, <3>2, <3>3
  <2>3. CASE ByPush(PushNext)
    <3>1. PushInv' /\ UNCHANGED mailVars /\ UNCHANGED <<annVars, watchVars>>
      BY <2>3, PushStep DEF ByPush
    <3>2. MailTypeOK' /\ WatchInv'
      BY <3>1 DEF MailTypeOK, WatchInv, WatchTypeOK, NoSecondTurn, watchVars, ghosts, mailVars, mail, Id
    <3>3. AnnInv'
      BY <3>1, AnnStays
    <3> QED BY <3>1, <3>2, <3>3
  <2>4. CASE ByWatch(WatchNext)
    <3>1. WatchInv' /\ UNCHANGED mailVars /\ UNCHANGED <<annVars, pushVars>>
      BY <2>4, WatchStep DEF ByWatch
    <3>2. MailTypeOK'
      BY <3>1 DEF MailTypeOK, mailVars, mail, Id
    <3>3. PushInv'
      BY <3>1 DEF PushInv, PushTypeOK, Pushed, Scheduled, Snapshots, DueNow, pushVars, recordVars,
                  storeVars, Id
    <3>4. AnnInv'
      BY <3>1, AnnStays
    <3> QED BY <3>1, <3>2, <3>3, <3>4
  <2>5. CASE UNCHANGED wakeVars
    <3>1. UNCHANGED mailVars /\ UNCHANGED <<annVars, pushVars, watchVars>>
      BY <2>5 DEF wakeVars
    <3>2. MailTypeOK' /\ WatchInv'
      BY <3>1 DEF MailTypeOK, WatchInv, WatchTypeOK, NoSecondTurn, watchVars, ghosts, mailVars, mail, Id
    <3>3. PushInv'
      BY <3>1 DEF PushInv, PushTypeOK, Pushed, Scheduled, Snapshots, DueNow, pushVars, recordVars,
                  storeVars, Id
    <3>4. AnnInv'
      BY <3>1, AnnStays
    <3> QED BY <3>2, <3>3, <3>4
  <2> QED BY <2>1, <2>2, <2>3, <2>4, <2>5 DEF Next
<1> QED BY <1>1, <1>2, PTL DEF Spec

(* Every variable of the mail and of the wakes keeps to its domain (the state *)
(* of announce.py, channel.py, watch.py and wake_codex.py).                  *)
THEOREM Types == Spec => []TypeOK
<1>1. Inductive => TypeOK
  BY DEF Inductive, AnnInv, PushInv, WatchInv, TypeOK
<1> QED BY <1>1, Invariance, PTL

(* However sends fail, are retried and land late, a session has at most one  *)
(* notice to answer, and that is the one the wake holds out: it sends no     *)
(* other before its receipt (announce.poll, accept_receipt, take_back).      *)
THEOREM OneOut == Spec => []OneNoticeOut
<1>1. Inductive => OneNoticeOut
  BY DEF Inductive, AnnInv, Gate
<1> QED BY <1>1, Invariance, PTL

(* No message is in two notices unless its name left the session in between, *)
(* though a sweep takes several polls, a window adds to a notice and a        *)
(* reservation may be undone (announce._remember, take_back).                *)
THEOREM AnnouncedOnce == Spec => []NoSecondNotice
<1>1. Inductive => NoSecondNotice
  BY DEF Inductive, AnnInv, Announced
<1> QED BY <1>1, Invariance, PTL

(* No copy of a notice lands after one was sent for sure, and no second turn *)
(* is asked for while the first may have been started (codex_queue.send,     *)
(* claude_inbox.send, wake_codex.poll).                                      *)
THEOREM NoCopies == Spec => []NoSecondCopy
<1>1. Inductive => NoSecondCopy
  BY DEF Inductive, AnnInv, Copies, WatchInv, NoSecondCopy, SureSentOnce
<1> QED BY <1>1, Invariance, PTL

(* What a wake reports of its pushes and receipts is true, and stored, on    *)
(* its way to the store, or known not to be (announce._flush, channel.sent,  *)
(* unsent, accept_receipt).                                                 *)
THEOREM TrueReports == Spec => []ReportHonest
<1>1. Inductive => ReportHonest
  BY AnnReportFollows, PushReportFollows
     DEF Inductive, AnnInv, PushInv, ReportHonest
<1> QED BY <1>1, Invariance, PTL
=============================================================================
