--------------------------- MODULE MailboxProofs ---------------------------
(***************************************************************************)
(* The safety of Mailbox.tla for any sessions, lanes, batches and number   *)
(* of messages.  Typing and the count of replies are inductive together;   *)
(* what a reply may say of the mail it left needs Behind and PagesOf.      *)
(***************************************************************************)
EXTENDS Mailbox, DataLemmas

----------------------------------------------------------------------------
(* Typing.                                                                 *)

Recipient == Lane \cup {Bare}

Calls == [at : {"idle", "asked", "read", "reply"}, agents : SUBSET Recipient,
          consuming : BOOLEAN, after : 0 .. MaxSent, mark : 0 .. MaxSent,
          mine : SUBSET Recipient, page : {S \in SUBSET Id : Cardinality(S) <= Limit},
          left : BOOLEAN, more : BOOLEAN]

Sweeps == [upto : 0 .. MaxSent, mine : SUBSET Recipient, seen : SUBSET Id]

(* The mail is three sequences of one length. *)
LEMMA MailSeqs ==
  ASSUME TypeOK
  PROVE  /\ Len(to) \in 0 .. MaxSent /\ DOMAIN to = 1 .. Len(to)
         /\ to \in [1 .. Len(to) -> Recipient]
         /\ acker \in Seq(Reader \cup {NoReader}) /\ Len(acker) = Len(to)
         /\ told \in Seq(Nat) /\ Len(told) = Len(to)
<1>1. to \in Seq(Recipient) /\ Len(to) \in Nat /\ DOMAIN to = 1 .. Len(to)
      /\ to \in [1 .. Len(to) -> Recipient]
  BY LenProperties DEF TypeOK, Recipient
<1>2. Len(to) \in 0 .. MaxSent
  BY <1>1, MailAssumption DEF TypeOK
<1>3. acker \in Seq(Reader \cup {NoReader})
  <2>1. acker \in [1 .. Len(to) -> Reader \cup {NoReader}]
    BY <1>1 DEF TypeOK
  <2> QED BY <1>1, <2>1, FunctionIsSeq
<1>4. told \in Seq(Nat)
  <2>1. told \in [1 .. Len(to) -> Nat]
    BY <1>1 DEF TypeOK
  <2> QED BY <1>1, <2>1, FunctionIsSeq
<1>5. Len(acker) = Len(to) /\ Len(told) = Len(to)
  BY <1>1, <1>3, <1>4, LenProperties DEF TypeOK
<1> QED BY <1>1, <1>2, <1>3, <1>4, <1>5

LEMMA UnreadType ==
  ASSUME TypeOK, NEW A
  PROVE  Unread(A) \in SUBSET (1 .. Len(to)) /\ 1 .. Len(to) \subseteq Id
BY MailSeqs, MailAssumption DEF Unread, Id

LEMMA IdleType == Idle \in Calls /\ NoSweep \in Sweeps
<1>1. {} \in SUBSET Id /\ Cardinality({}) <= Limit
  BY FS_EmptySet, MailAssumption
<1> QED BY <1>1, MailAssumption DEF Idle, NoSweep, Calls, Sweeps

(* What the steps of a call make of it. *)
LEMMA CallType ==
  ASSUME NEW c \in Calls, NEW mine \in SUBSET Recipient
  PROVE  /\ [c EXCEPT !.at = "reply", !.mine = mine] \in Calls
         /\ [c EXCEPT !.at = "read"] \in Calls
         /\ \A page \in SUBSET Id, left, more \in BOOLEAN :
              Cardinality(page) <= Limit =>
                [c EXCEPT !.at = "reply", !.page = page, !.mine = mine,
                          !.left = left, !.more = more] \in Calls
BY DEF Calls

(* A page keeps to the limit, and lists unread mail past the cursor. *)
LEMMA PageType ==
  ASSUME TypeOK, NEW r \in Reader
  PROVE  /\ Page(r) \in SUBSET Id /\ Cardinality(Page(r)) <= Limit
         /\ Page(r) \subseteq Unread(call[r].agents)
         /\ \A k \in Page(r) : k > call[r].after
<1> DEFINE S == {i \in Unread(call[r].agents) : i > call[r].after}
<1>1. S \in SUBSET (1 .. Len(to)) /\ Len(to) \in Nat /\ 1 .. Len(to) \subseteq Id
  <2>1. S \subseteq Unread(call[r].agents)
    OBVIOUS
  <2>2. Len(to) \in Nat
    BY MailSeqs
  <2> QED BY <2>1, <2>2, UnreadType
<1>2. Page(r) = {i \in S : Cardinality({j \in S : j < i}) < Limit}
  BY DEF Page, Oldest
<1>3. Limit \in Nat \ {0}
  BY MailAssumption
<1>4. Cardinality(Page(r)) <= Limit
  <2> HIDE DEF S
  <2> QED BY <1>1, <1>2, <1>3, FirstOnes
<1>5. Page(r) \subseteq S
  BY <1>2
<1> QED BY <1>1, <1>4, <1>5

(* A page skips nothing: what precedes a message of it is on it. *)
LEMMA PageClosed ==
  ASSUME TypeOK, NEW r \in Reader, NEW k \in Page(r),
         NEW i \in Unread(call[r].agents), i > call[r].after, i <= k
  PROVE  i \in Page(r)
<1> DEFINE S == {j \in Unread(call[r].agents) : j > call[r].after}
           L == {j \in S : j < i}
           M == {j \in S : j < k}
<1>1. S \in SUBSET (1 .. Len(to)) /\ Len(to) \in Nat
  <2>1. S \subseteq Unread(call[r].agents)
    OBVIOUS
  <2>2. Len(to) \in Nat
    BY MailSeqs
  <2> QED BY <2>1, <2>2, UnreadType
<1>2. i \in S /\ k \in S /\ Cardinality(M) < Limit
  BY DEF Page, Oldest
<1>3. IsFiniteSet(M)
  <2>1. IsFiniteSet(1 .. Len(to))
    BY <1>1, 1 \in Int, Len(to) \in Int, FS_Interval
  <2>2. M \in SUBSET (1 .. Len(to))
    BY <1>1
  <2> QED BY <2>1, <2>2, FS_Subset
<1>4. L \in SUBSET M
  <2> SUFFICES ASSUME NEW j \in S, j < i PROVE j < k
    OBVIOUS
  <2>1. i \in Nat /\ k \in Nat /\ j \in Nat
    BY <1>1, <1>2
  <2> QED BY <2>1
<1>5. Cardinality(L) <= Cardinality(M) /\ IsFiniteSet(L)
  BY <1>3, <1>4, FS_Subset
<1>6. Cardinality(L) \in Nat /\ Cardinality(M) \in Nat
  BY <1>3, <1>5, FS_CardinalityType
<1>7. Cardinality(L) < Limit
  BY <1>2, <1>5, <1>6, MailAssumption
<1> QED BY <1>2, <1>7 DEF Page, Oldest

(* Where a reader that pages goes on from. *)
LEMMA SeenMax ==
  ASSUME TypeOK, NEW r \in Reader, sweep[r].seen # {}
  PROVE  /\ Max(sweep[r].seen) \in sweep[r].seen /\ Max(sweep[r].seen) \in 0 .. MaxSent
         /\ \A k \in sweep[r].seen : k <= Max(sweep[r].seen)
<1>1. sweep[r].seen \in SUBSET Nat /\ sweep[r].seen \in SUBSET (1 .. MaxSent)
      /\ \A k \in sweep[r].seen : k <= MaxSent
  BY MailAssumption DEF TypeOK, Id
<1>2. Max(sweep[r].seen) \in sweep[r].seen /\ \A k \in sweep[r].seen : k <= Max(sweep[r].seen)
  BY <1>1, MailAssumption, MaxNat
<1> QED BY <1>1, <1>2

LEMMA InitType == Init => TypeOK
<1> SUFFICES ASSUME Init PROVE TypeOK
  OBVIOUS
<1>1. to \in Seq(Recipient) /\ Len(to) = 0 /\ DOMAIN to = {}
  BY EmptySeq DEF Init
<1>2. acker \in [DOMAIN to -> Reader \cup {NoReader}] /\ told \in [DOMAIN to -> Nat]
  BY <1>1 DEF Init
<1> QED BY <1>1, <1>2, IdleType, MailAssumption DEF Init, TypeOK, Recipient, Calls, Sweeps

(* The typing of each variable apart, for the steps that move one or two. *)
LEMMA TypeParts ==
  TypeOK <=> /\ to \in Seq(Recipient) /\ Len(to) <= MaxSent
             /\ acker \in [DOMAIN to -> Reader \cup {NoReader}] /\ told \in [DOMAIN to -> Nat]
             /\ owner \in [Lane -> Reader \cup {NoReader}] /\ memory \in [Reader -> SUBSET Lane]
             /\ call \in [Reader -> Calls] /\ sweep \in [Reader -> Sweeps]
BY DEF TypeOK, Recipient, Calls, Sweeps

LEMMA SendType ==
  ASSUME TypeOK, NEW n \in Recipient, Send(n)
  PROVE  /\ TypeOK' /\ Len(to') = Len(to) + 1
         /\ \A i \in 1 .. Len(to) : to'[i] = to[i] /\ acker'[i] = acker[i] /\ told'[i] = told[i]
         /\ acker'[Len(to) + 1] = NoReader /\ told'[Len(to) + 1] = 0
<1>1. to \in Seq(Recipient) /\ Len(to) \in Nat
  BY TypeParts, MailSeqs
<1>2. /\ to' \in Seq(Recipient) /\ Len(to') = Len(to) + 1
      /\ \A i \in 1 .. Len(to) : to'[i] = to[i]
  BY <1>1, AppendProperties DEF Send
<1>3. /\ acker' \in Seq(Reader \cup {NoReader}) /\ Len(acker') = Len(to) + 1
      /\ \A i \in 1 .. Len(to) : acker'[i] = acker[i]
      /\ acker'[Len(to) + 1] = NoReader
  BY MailSeqs, AppendProperties DEF Send
<1>4. /\ told' \in Seq(Nat) /\ Len(told') = Len(to) + 1
      /\ \A i \in 1 .. Len(to) : told'[i] = told[i]
      /\ told'[Len(to) + 1] = 0
  BY MailSeqs, AppendProperties, 0 \in Nat DEF Send
<1>5. DOMAIN to' = 1 .. Len(to) + 1 /\ acker' \in [1 .. Len(to) + 1 -> Reader \cup {NoReader}]
      /\ told' \in [1 .. Len(to) + 1 -> Nat]
  BY <1>2, <1>3, <1>4, LenProperties
<1>6. Len(to') <= MaxSent
  BY <1>1, <1>2, MailAssumption DEF Send
<1>7. owner' = owner /\ memory' = memory /\ call' = call /\ sweep' = sweep
  BY DEF Send, lanes
<1>8. TypeOK'
  BY <1>2, <1>5, <1>6, <1>7, TypeParts DEF TypeOK, Recipient
<1> QED BY <1>2, <1>3, <1>4, <1>8

(* A step on the mail there is, that types what it writes, keeps the types. *)
LEMMA KeepType ==
  ASSUME TypeOK, to' = to,
         acker' \in [DOMAIN to -> Reader \cup {NoReader}], told' \in [DOMAIN to -> Nat],
         owner' \in [Lane -> Reader \cup {NoReader}], memory' \in [Reader -> SUBSET Lane],
         call' \in [Reader -> Calls], sweep' \in [Reader -> Sweeps]
  PROVE  TypeOK'
BY DEF TypeOK, Recipient, Calls, Sweeps

LEMMA LaneType ==
  ASSUME TypeOK, NEW r \in Reader, NEW n \in Lane,
         Grant(r, n) \/ Adopt(r, n) \/ Release(r, n)
  PROVE  TypeOK'
<1>1. owner \in [Lane -> Reader \cup {NoReader}] /\ memory \in [Reader -> SUBSET Lane]
      /\ call \in [Reader -> Calls] /\ sweep \in [Reader -> Sweeps]
      /\ acker \in [DOMAIN to -> Reader \cup {NoReader}] /\ told \in [DOMAIN to -> Nat]
  BY TypeParts
<1>2. CASE Grant(r, n)
  BY <1>1, <1>2, KeepType DEF Grant, mail
<1>3. CASE Adopt(r, n)
  BY <1>1, <1>3, KeepType DEF Adopt, mail
<1>4. CASE Release(r, n)
  BY <1>1, <1>4, KeepType DEF Release, mail
<1> QED BY <1>2, <1>3, <1>4

LEMMA ContestType ==
  ASSUME TypeOK, NEW n \in Lane, Contest(n)
  PROVE  TypeOK'
BY TypeParts, KeepType DEF Contest, mail

LEMMA RestartType ==
  ASSUME TypeOK, NEW r \in Reader, Restart(r)
  PROVE  TypeOK'
BY TypeParts, KeepType, IdleType DEF Restart, mail

LEMMA AskedType ==
  ASSUME TypeOK, NEW r \in Reader, NEW agents \in SUBSET Recipient, NEW consuming \in BOOLEAN,
         NEW after \in 0 .. MaxSent, Ask(r, agents, consuming, after)
  PROVE  call' \in [Reader -> Calls]
<1>1. call \in [Reader -> Calls] /\ Len(to) \in 0 .. MaxSent
  BY TypeParts, MailSeqs
<1>2. [Idle EXCEPT !.at = "asked", !.agents = agents, !.consuming = consuming,
                   !.after = after, !.mark = Len(to)] \in Calls
  BY <1>1, IdleType DEF Calls
<1> QED BY <1>1, <1>2 DEF Ask

LEMMA CallStarts ==
  ASSUME TypeOK, NEW r \in Reader, NEW agents \in SUBSET Recipient,
         (\E after \in 0 .. Len(to) : Poll(r, agents, after)) \/ Browse(r, agents) \/ BrowseOn(r, agents)
  PROVE  TypeOK'
<1>1. /\ Len(to) \in 0 .. MaxSent /\ MaxSent \in Nat
      /\ owner \in [Lane -> Reader \cup {NoReader}] /\ memory \in [Reader -> SUBSET Lane]
      /\ sweep \in [Reader -> Sweeps]
      /\ acker \in [DOMAIN to -> Reader \cup {NoReader}] /\ told \in [DOMAIN to -> Nat]
  BY TypeParts, MailSeqs, MailAssumption
<1>2. ASSUME NEW after \in 0 .. Len(to), Poll(r, agents, after) PROVE TypeOK'
  <2>1. call' \in [Reader -> Calls]
    <3>1. Ask(r, agents, TRUE, after)
      BY <1>2 DEF Poll
    <3>2. after \in 0 .. MaxSent
      BY <1>1
    <3> QED BY <3>1, <3>2, AskedType
  <2> QED BY <1>1, <1>2, <2>1, KeepType DEF Poll, Ask, mail, lanes
<1>3. CASE Browse(r, agents)
  <2>1. call' \in [Reader -> Calls]
    <3>1. Ask(r, agents, FALSE, 0)
      BY <1>3 DEF Browse
    <3>2. 0 \in 0 .. MaxSent
      BY <1>1
    <3> QED BY <3>1, <3>2, AskedType
  <2>2. sweep' \in [Reader -> Sweeps]
    BY <1>1, <1>3 DEF Browse, Sweeps
  <2> QED BY <1>1, <1>3, <2>1, <2>2, KeepType DEF Browse, Ask, mail, lanes
<1>4. CASE BrowseOn(r, agents)
  <2>1. call' \in [Reader -> Calls]
    BY <1>1, <1>4, AskedType, SeenMax DEF BrowseOn
  <2> QED BY <1>1, <1>4, <2>1, KeepType DEF BrowseOn, Ask, mail, lanes
<1> QED BY <1>2, <1>3, <1>4

LEMMA CallMoves ==
  ASSUME TypeOK, NEW r \in Reader, ProbeEmpty(r) \/ ProbeFound(r) \/ Reply(r) \/ ReplyLost(r)
  PROVE  TypeOK'
<1>1. /\ call \in [Reader -> Calls] /\ sweep \in [Reader -> Sweeps]
      /\ owner \in [Lane -> Reader \cup {NoReader}] /\ memory \in [Reader -> SUBSET Lane]
      /\ acker \in [DOMAIN to -> Reader \cup {NoReader}] /\ told \in [DOMAIN to -> Nat]
  BY TypeParts
<1>2. CASE ProbeEmpty(r)
  <2>1. call' \in [Reader -> Calls]
    <3>1. call' = [call EXCEPT ![r] = [@ EXCEPT !.at = "reply", !.mine = call[r].agents]]
      BY <1>1, <1>2 DEF ProbeEmpty
    <3>2. [call[r] EXCEPT !.at = "reply", !.mine = call[r].agents] \in Calls
      <4>1. call[r].agents \in SUBSET Recipient /\ call[r] \in Calls
        BY <1>1 DEF Calls
      <4> QED BY <4>1, CallType
    <3> QED BY <1>1, <3>1, <3>2
  <2> QED BY <1>1, <1>2, <2>1, KeepType DEF ProbeEmpty, mail, lanes
<1>3. CASE ProbeFound(r)
  <2>1. call' \in [Reader -> Calls]
    BY <1>1, <1>3 DEF ProbeFound, Calls
  <2> QED BY <1>1, <1>3, <2>1, KeepType DEF ProbeFound, mail, lanes
<1>4. CASE Reply(r)
  <2>1. Shown(r) \in SUBSET Id /\ Covered(r) \in SUBSET Recipient
    BY <1>1 DEF Shown, Covered, Calls, Sweeps
  <2>2. sweep' \in [Reader -> Sweeps]
    <3>1. CASE call[r].consuming
      BY <1>1, <1>4, <3>1 DEF Reply
    <3>2. CASE ~call[r].consuming /\ call[r].more
      BY <1>1, <1>4, <2>1, <3>2 DEF Reply, Sweeps
    <3>3. CASE ~call[r].consuming /\ ~call[r].more
      BY <1>1, <1>4, <3>3, IdleType DEF Reply
    <3> QED BY <3>1, <3>2, <3>3
  <2> QED BY <1>1, <1>4, <2>2, KeepType, IdleType DEF Reply, mail, lanes
<1>5. CASE ReplyLost(r)
  BY <1>1, <1>5, KeepType, IdleType DEF ReplyLost, mail, lanes
<1> QED BY <1>2, <1>3, <1>4, <1>5

LEMMA HoldingType ==
  ASSUME NEW r, NEW owned \in Holding(r)
  PROVE  owned \subseteq Granted(r)
BY DEF Holding

LEMMA ReadType ==
  ASSUME TypeOK, NEW r \in Reader, NEW owned, Read(r, owned)
  PROVE  TypeOK'
<1>1. /\ call \in [Reader -> Calls] /\ sweep \in [Reader -> Sweeps]
      /\ owner \in [Lane -> Reader \cup {NoReader}] /\ memory \in [Reader -> SUBSET Lane]
      /\ acker \in [DOMAIN to -> Reader \cup {NoReader}] /\ told \in [DOMAIN to -> Nat]
  BY TypeParts
<1>2. acker' \in [DOMAIN to -> Reader \cup {NoReader}] /\ told' \in [DOMAIN to -> Nat]
  BY <1>1 DEF Read
<1>3. call' \in [Reader -> Calls]
  <2> DEFINE c == [call[r] EXCEPT !.at = "reply", !.page = Page(r),
                     !.mine = {n \in call[r].agents : n = Bare \/ n \in owned},
                     !.left = Remaining(r, owned) # {}, !.more = More(r, owned)]
  <2>1. Page(r) \in {S \in SUBSET Id : Cardinality(S) <= Limit}
    BY PageType
  <2>2. (Remaining(r, owned) # {}) \in BOOLEAN /\ More(r, owned) \in BOOLEAN
    BY DEF More
  <2>3. c \in Calls
    <3>1. call[r] \in Calls /\ {n \in call[r].agents : n = Bare \/ n \in owned} \in SUBSET Recipient
      BY <1>1 DEF Calls
    <3> QED BY <2>1, <2>2, <3>1, CallType
  <2>4. call' = [call EXCEPT ![r] = c]
    BY DEF Read
  <2> HIDE DEF c
  <2> QED BY <1>1, <2>3, <2>4
<1> QED BY <1>1, <1>2, <1>3, KeepType DEF Read, lanes

LEMMA AckType ==
  ASSUME TypeOK, NEW r \in Reader, NEW i \in DOMAIN to, NEW owned, Ack(r, i, owned)
  PROVE  TypeOK'
<1>1. /\ call \in [Reader -> Calls] /\ sweep \in [Reader -> Sweeps]
      /\ owner \in [Lane -> Reader \cup {NoReader}] /\ memory \in [Reader -> SUBSET Lane]
      /\ acker \in [DOMAIN to -> Reader \cup {NoReader}] /\ told \in [DOMAIN to -> Nat]
  BY TypeParts
<1>2. acker' \in [DOMAIN to -> Reader \cup {NoReader}] /\ told' \in [DOMAIN to -> Nat]
  BY <1>1 DEF Ack
<1> QED BY <1>1, <1>2, KeepType DEF Ack, lanes

LEMMA NextType == TypeOK /\ [Next]_vars => TypeOK'
<1> SUFFICES ASSUME TypeOK, [Next]_vars PROVE TypeOK'
  OBVIOUS
<1>1. ASSUME NEW n \in Recipient, Send(n) PROVE TypeOK'
  BY <1>1, SendType
<1>2. ASSUME NEW r \in Reader, Session(r) PROVE TypeOK'
  <2>1. ASSUME NEW n \in Lane, Grant(r, n) \/ Adopt(r, n) \/ Release(r, n) PROVE TypeOK'
    BY <2>1, LaneType
  <2>2. CASE Restart(r)
    BY <2>2, RestartType
  <2>3. ASSUME NEW agents \in {Mine(r)} \cup {{n} : n \in Recipient},
               (\E after \in 0 .. Len(to) : Poll(r, agents, after))
                  \/ Browse(r, agents) \/ BrowseOn(r, agents)
        PROVE  TypeOK'
    <3>1. agents \in SUBSET Recipient
      BY TypeParts DEF Mine, Recipient
    <3> QED BY <2>3, <3>1, CallStarts
  <2>4. CASE ProbeEmpty(r) \/ ProbeFound(r) \/ Reply(r) \/ ReplyLost(r)
    BY <2>4, CallMoves
  <2>5. ASSUME NEW owned \in Holding(r), Read(r, owned) PROVE TypeOK'
    BY <2>5, ReadType
  <2>6. ASSUME NEW owned \in Holding(r), NEW i \in DOMAIN to, Ack(r, i, owned) PROVE TypeOK'
    BY <2>6, AckType
  <2> QED BY <1>2, <2>1, <2>2, <2>3, <2>4, <2>5, <2>6 DEF Session, Recipient
<1>3. ASSUME NEW n \in Lane, Contest(n) PROVE TypeOK'
  BY <1>3, ContestType
<1>4. CASE UNCHANGED vars
  BY <1>4 DEF TypeOK, vars, mail, lanes
<1> QED BY <1>1, <1>2, <1>3, <1>4 DEF Next, Recipient

(* Every variable of the mailbox keeps to its domain, and a page of mail to *)
(* its limit, whatever the sessions, lanes, batches and messages.           *)
THEOREM Typing == Spec => []TypeOK
<1>1. TypeOK /\ [Next]_vars => TypeOK'
  BY NextType
<1> QED BY <1>1, InitType, PTL DEF Spec

----------------------------------------------------------------------------
(* The inductive invariant. *)

(* One reply told of each message consumed. *)
CountOK == \A i \in DOMAIN to : told[i] = IF acker[i] = NoReader THEN 0 ELSE 1

(* Calls and sweeps look back on mail that is there; a call not answered has *)
(* said nothing yet.                                                         *)
Behind ==
  \A r \in Reader :
    /\ call[r].mark <= Len(to) /\ sweep[r].upto <= Len(to)
    /\ call[r].at \in {"asked", "read"} => ~call[r].left

(* i is among the mail r's sweep began with, still unread, at a name of N. *)
Left(r, N, i) == i \in 1 .. sweep[r].upto /\ to[i] \in N /\ acker[i] = NoReader

(* The pages shown have no holes; a call that pages goes on from the last of *)
(* what was shown; and its reply has no hole either, nor stops short when it *)
(* says there is no more.                                                    *)
PagesOf(r) ==
  LET c == call[r]
      s == sweep[r]
  IN  /\ \A k \in s.seen, i \in Id : Left(r, s.mine, i) /\ i <= k => i \in s.seen
      /\ c.at # "idle" /\ ~c.consuming =>
           \/ s.seen = {} /\ c.after = 0
           \/ c.after \in s.seen
      /\ c.at = "reply" /\ ~c.consuming =>
           /\ \A k \in c.page, i \in Id : Left(r, c.mine, i) /\ c.after < i /\ i <= k => i \in c.page
           /\ ~c.more => \A i \in Id : Left(r, c.mine, i) /\ c.after < i => i \in c.page

Pages == \A r \in Reader : PagesOf(r)

Inductive == TypeOK /\ CountOK /\ Behind /\ DrainedMeansEmpty /\ Pages

----------------------------------------------------------------------------
(* What a step does to the mail, and to a call. *)

(* What r itself does to its call or its sweep. *)
CallStep(r) ==
  \/ Restart(r)
  \/ \E agents \in SUBSET Recipient :
       \/ \E after \in 0 .. Len(to) : Poll(r, agents, after)
       \/ Browse(r, agents) \/ BrowseOn(r, agents)
  \/ ProbeEmpty(r) \/ ProbeFound(r) \/ Reply(r) \/ ReplyLost(r)
  \/ \E owned \in Holding(r) : Read(r, owned)

(* What leaves every call and sweep as they are. *)
QuietStep ==
  \/ \E n \in Recipient : Send(n)
  \/ \E n \in Lane : Contest(n)
  \/ \E r \in Reader, n \in Lane : Grant(r, n) \/ Adopt(r, n) \/ Release(r, n)
  \/ \E r \in Reader, i \in DOMAIN to : \E owned : owned \subseteq Granted(r) /\ Ack(r, i, owned)
  \/ UNCHANGED vars

LEMMA StepKinds ==
  ASSUME TypeOK, [Next]_vars
  PROVE  QuietStep \/ \E r \in Reader : CallStep(r)
<1>1. ASSUME NEW r \in Reader, Session(r) PROVE QuietStep \/ CallStep(r)
  <2>1. CASE \E n \in Lane : Grant(r, n) \/ Adopt(r, n) \/ Release(r, n)
    BY <2>1 DEF QuietStep
  <2>2. CASE Restart(r) \/ ProbeEmpty(r) \/ ProbeFound(r) \/ Reply(r) \/ ReplyLost(r)
             \/ \E owned \in Holding(r) : Read(r, owned)
    BY <2>2 DEF CallStep
  <2>3. ASSUME NEW agents \in {Mine(r)} \cup {{n} : n \in Recipient},
               (\E after \in 0 .. Len(to) : Poll(r, agents, after))
                  \/ Browse(r, agents) \/ BrowseOn(r, agents)
        PROVE  CallStep(r)
    <3>1. agents \in SUBSET Recipient
      BY TypeParts DEF Mine, Recipient
    <3> QED BY <2>3, <3>1 DEF CallStep
  <2>4. ASSUME NEW owned \in Holding(r), NEW i \in DOMAIN to, Ack(r, i, owned) PROVE QuietStep
    BY <2>4, HoldingType DEF QuietStep
  <2> QED BY <1>1, <2>1, <2>2, <2>3, <2>4 DEF Session, Recipient
<1>2. ASSUME NEW n \in Recipient, Send(n) PROVE QuietStep
  BY <1>2 DEF QuietStep
<1>3. ASSUME NEW n \in Lane, Contest(n) PROVE QuietStep
  BY <1>3 DEF QuietStep
<1>4. CASE UNCHANGED vars
  BY <1>4 DEF QuietStep
<1> QED BY <1>1, <1>2, <1>3, <1>4 DEF Next, Recipient

LEMMA QuietCalls ==
  ASSUME QuietStep PROVE call' = call /\ sweep' = sweep
BY DEF QuietStep, Send, Contest, Grant, Adopt, Release, Ack, vars

LEMMA OthersCalls ==
  ASSUME TypeOK, NEW r \in Reader, CallStep(r), NEW q \in Reader, q # r
  PROVE  call'[q] = call[q] /\ sweep'[q] = sweep[q]
<1>1. call \in [Reader -> Calls] /\ sweep \in [Reader -> Sweeps]
  BY TypeParts
<1>2. CASE Restart(r) \/ ProbeEmpty(r) \/ ProbeFound(r) \/ Reply(r) \/ ReplyLost(r)
           \/ \E owned \in Holding(r) : Read(r, owned)
  BY <1>1, <1>2 DEF Restart, ProbeEmpty, ProbeFound, Reply, ReplyLost, Read
<1>3. CASE \E agents \in SUBSET Recipient :
             \/ \E after \in 0 .. Len(to) : Poll(r, agents, after)
             \/ Browse(r, agents) \/ BrowseOn(r, agents)
  BY <1>1, <1>3 DEF Poll, Browse, BrowseOn, Ask
<1> QED BY <1>2, <1>3 DEF CallStep

(* What the steps of a call make of it. *)
LEMMA AskEffect ==
  ASSUME TypeOK, NEW r \in Reader, NEW agents, NEW consuming, NEW after,
         Ask(r, agents, consuming, after)
  PROVE  /\ call[r].at = "idle"
         /\ call'[r].at = "asked" /\ call'[r].agents = agents /\ call'[r].consuming = consuming
         /\ call'[r].after = after /\ call'[r].mark = Len(to) /\ ~call'[r].left
BY TypeParts DEF Ask, Idle

LEMMA ProbeFoundEffect ==
  ASSUME TypeOK, NEW r \in Reader, ProbeFound(r)
  PROVE  /\ call[r].at = "asked"
         /\ call'[r].at = "read" /\ call'[r].mark = call[r].mark /\ call'[r].left = call[r].left
         /\ call'[r].consuming = call[r].consuming /\ call'[r].after = call[r].after
         /\ sweep' = sweep /\ to' = to /\ acker' = acker
BY TypeParts DEF ProbeFound, Calls, mail

LEMMA ProbeEmptyEffect ==
  ASSUME TypeOK, NEW r \in Reader, ProbeEmpty(r)
  PROVE  /\ call[r].at = "asked" /\ call[r].consuming /\ Unread(call[r].agents) = {}
         /\ call'[r].at = "reply" /\ call'[r].mark = call[r].mark /\ call'[r].left = call[r].left
         /\ call'[r].consuming = call[r].consuming /\ call'[r].after = call[r].after
         /\ call'[r].mine = call[r].agents
         /\ sweep' = sweep /\ to' = to /\ acker' = acker
BY TypeParts DEF ProbeEmpty, Calls, mail

LEMMA ReadEffect ==
  ASSUME TypeOK, NEW r \in Reader, NEW owned, Read(r, owned)
  PROVE  /\ call[r].at = "read" /\ call'[r].at = "reply"
         /\ call'[r].mark = call[r].mark /\ call'[r].consuming = call[r].consuming
         /\ call'[r].after = call[r].after /\ call'[r].page = Page(r)
         /\ call'[r].mine = {n \in call[r].agents : n = Bare \/ n \in owned}
         /\ call'[r].left = (Remaining(r, owned) # {}) /\ call'[r].more = More(r, owned)
         /\ sweep' = sweep /\ to' = to
<1>1. call[r] \in Calls /\ call \in [Reader -> Calls]
  BY TypeParts
<1>2. call'[r] = [call[r] EXCEPT !.at = "reply", !.page = Page(r),
                     !.mine = {n \in call[r].agents : n = Bare \/ n \in owned},
                     !.left = Remaining(r, owned) # {}, !.more = More(r, owned)]
  BY <1>1 DEF Read
<1>3. call[r].at = "read" /\ sweep' = sweep /\ to' = to
  BY DEF Read
<1> QED BY <1>1, <1>2, <1>3 DEF Calls

LEMMA EndEffect ==
  ASSUME TypeOK, NEW r \in Reader, Restart(r) \/ Reply(r) \/ ReplyLost(r)
  PROVE  call'[r] = Idle /\ to' = to /\ acker' = acker
BY TypeParts DEF Restart, Reply, ReplyLost, mail

LEMMA SweepEffect ==
  ASSUME TypeOK, NEW r \in Reader
  PROVE  /\ Restart(r) => sweep'[r] = NoSweep
         /\ Reply(r) =>
              \/ call[r].consuming /\ sweep'[r] = sweep[r]
              \/ ~call[r].consuming /\ ~call[r].more /\ sweep'[r] = NoSweep
              \/ /\ ~call[r].consuming /\ call[r].more
                 /\ sweep'[r] = [upto |-> sweep[r].upto, mine |-> Covered(r), seen |-> Shown(r)]
         /\ ReplyLost(r) => sweep'[r] \in {sweep[r], NoSweep}
         /\ \A agents : Browse(r, agents) =>
              sweep'[r] = [upto |-> Len(to), mine |-> agents, seen |-> {}]
<1>1. sweep \in [Reader -> Sweeps]
  BY TypeParts
<1>2. ASSUME Reply(r), ~call[r].consuming, call[r].more
      PROVE  sweep'[r] = [upto |-> sweep[r].upto, mine |-> Covered(r), seen |-> Shown(r)]
  <2>1. sweep'[r] = [sweep[r] EXCEPT !.seen = Shown(r), !.mine = Covered(r)]
    BY <1>1, <1>2 DEF Reply
  <2>2. sweep[r] \in Sweeps
    BY <1>1
  <2> QED BY <2>1, <2>2 DEF Sweeps
<1>3. ASSUME Reply(r), ~(~call[r].consuming /\ call[r].more)
      PROVE  \/ call[r].consuming /\ sweep'[r] = sweep[r]
             \/ ~call[r].consuming /\ ~call[r].more /\ sweep'[r] = NoSweep
  BY <1>1, <1>3 DEF Reply
<1>4. /\ Restart(r) => sweep'[r] = NoSweep
      /\ ReplyLost(r) => sweep'[r] \in {sweep[r], NoSweep}
      /\ \A agents : Browse(r, agents) =>
           sweep'[r] = [upto |-> Len(to), mine |-> agents, seen |-> {}]
  BY <1>1 DEF Restart, ReplyLost, Browse
<1> QED BY <1>2, <1>3, <1>4

(* No step but a read changes the mail on its way. *)
LEMMA CallsLeaveMail ==
  ASSUME NEW r \in Reader, CallStep(r)
  PROVE  (to' = to /\ acker' = acker /\ told' = told) \/ \E owned \in Holding(r) : Read(r, owned)
BY DEF CallStep, Restart, ProbeEmpty, ProbeFound, Reply, ReplyLost, Poll, Browse, BrowseOn, Ask, mail

(* What a read consumes was unread, at the shared name or a lane r holds. *)
LEMMA ReadTakes ==
  ASSUME TypeOK, NEW r \in Reader, NEW owned, Read(r, owned), NEW i \in DOMAIN to
  PROVE  /\ to' = to
         /\ (call[r].consuming /\ i \in Page(r) /\ Ackable(i, owned))
              => acker[i] = NoReader /\ acker'[i] = r /\ told'[i] = told[i] + 1
         /\ ~(call[r].consuming /\ i \in Page(r) /\ Ackable(i, owned))
              => acker'[i] = acker[i] /\ told'[i] = told[i]
<1>1. i \in Page(r) => acker[i] = NoReader
  BY PageType DEF Unread
<1> QED BY <1>1 DEF Read

(* Mail there was is there, to the same name, and never unread again. *)
LEMMA MailGrows ==
  ASSUME TypeOK, [Next]_vars
  PROVE  /\ Len(to) \in Nat /\ Len(to') \in Nat /\ Len(to) <= Len(to')
         /\ \A i \in 1 .. Len(to) : to'[i] = to[i] /\ (acker'[i] = NoReader => acker[i] = NoReader)
<1>1. Len(to) \in Nat /\ DOMAIN to = 1 .. Len(to)
  BY MailSeqs
<1>2. CASE QuietStep
  <2>1. ASSUME NEW n \in Recipient, Send(n)
        PROVE  /\ Len(to') = Len(to) + 1
               /\ \A i \in 1 .. Len(to) : to'[i] = to[i] /\ acker'[i] = acker[i]
    BY <2>1, SendType
  <2>2. ASSUME NEW r \in Reader, NEW i \in DOMAIN to, NEW owned, Ack(r, i, owned)
        PROVE  to' = to /\ \A k \in 1 .. Len(to) : acker'[k] = NoReader => acker[k] = NoReader
    BY <1>1, <2>2, TypeParts DEF Ack
  <2>3. CASE \/ \E n \in Lane : Contest(n)
             \/ \E r \in Reader, n \in Lane : Grant(r, n) \/ Adopt(r, n) \/ Release(r, n)
             \/ UNCHANGED vars
    BY <2>3 DEF Contest, Grant, Adopt, Release, vars, mail
  <2> QED BY <1>1, <1>2, <2>1, <2>2, <2>3 DEF QuietStep, mail
<1>3. ASSUME NEW r \in Reader, CallStep(r)
      PROVE  to' = to /\ \A i \in 1 .. Len(to) : acker'[i] = NoReader => acker[i] = NoReader
  <2>1. ASSUME NEW owned \in Holding(r), Read(r, owned)
        PROVE  to' = to /\ \A i \in 1 .. Len(to) : acker'[i] = NoReader => acker[i] = NoReader
    <3>1. to' = to
      BY <2>1 DEF Read
    <3>2. ASSUME NEW i \in 1 .. Len(to), acker'[i] = NoReader PROVE acker[i] = NoReader
      BY <1>1, <2>1, <3>2, ReadTakes, MailAssumption
    <3> QED BY <3>1, <3>2
  <2> QED BY <1>3, <2>1, CallsLeaveMail
<1> QED BY <1>1, <1>2, <1>3, StepKinds

----------------------------------------------------------------------------
(* Each part is kept. *)

LEMMA CountStep ==
  ASSUME TypeOK, CountOK, [Next]_vars
  PROVE  CountOK'
<1> SUFFICES ASSUME NEW k \in DOMAIN to' PROVE (told'[k] = IF acker'[k] = NoReader THEN 0 ELSE 1)
  BY DEF CountOK
<1>0. /\ acker \in [DOMAIN to -> Reader \cup {NoReader}] /\ told \in [DOMAIN to -> Nat]
      /\ DOMAIN to = 1 .. Len(to) /\ Len(to) \in Nat
  BY TypeParts, MailSeqs
<1>1. ASSUME NEW n \in Recipient, Send(n) PROVE told'[k] = IF acker'[k] = NoReader THEN 0 ELSE 1
  <2>1. DOMAIN to' = 1 .. Len(to) + 1
    BY <1>1, SendType, MailSeqs, LenProperties DEF TypeOK
  <2>2. CASE k \in 1 .. Len(to)
    BY <1>0, <1>1, <2>2, SendType DEF CountOK
  <2>3. CASE k = Len(to) + 1
    BY <1>1, <2>3, SendType
  <2> QED BY <1>0, <2>1, <2>2, <2>3
<1>2. ASSUME NEW r \in Reader, NEW i \in DOMAIN to, NEW owned, Ack(r, i, owned)
      PROVE  told'[k] = IF acker'[k] = NoReader THEN 0 ELSE 1
  <2>1. told[i] = 0 /\ r # NoReader
    BY <1>2, MailAssumption DEF CountOK, Ack
  <2> QED BY <1>0, <1>2, <2>1 DEF CountOK, Ack
<1>3. ASSUME NEW r \in Reader, NEW owned \in Holding(r), Read(r, owned)
      PROVE  told'[k] = IF acker'[k] = NoReader THEN 0 ELSE 1
  <2>1. to' = to
    BY <1>3 DEF Read
  <2> QED BY <1>0, <1>3, <2>1, ReadTakes, MailAssumption DEF CountOK
<1>4. CASE to' = to /\ acker' = acker /\ told' = told
  BY <1>4 DEF CountOK
<1>5. CASE QuietStep
  BY <1>1, <1>2, <1>4, <1>5 DEF QuietStep, Contest, Grant, Adopt, Release, vars, mail
<1> QED BY <1>3, <1>4, <1>5, CallsLeaveMail, StepKinds

(* The lanes a step consumes mail at are granted to who consumes it. *)
LEMMA HolderStep ==
  ASSUME TypeOK, [Next]_vars
  PROVE  \A i \in DOMAIN to :
           acker[i] = NoReader /\ acker'[i] # NoReader /\ to[i] # Bare => owner[to[i]] = acker'[i]
<1> SUFFICES ASSUME NEW k \in DOMAIN to, acker[k] = NoReader, acker'[k] # NoReader, to[k] # Bare
             PROVE  owner[to[k]] = acker'[k]
  OBVIOUS
<1>0. acker \in [DOMAIN to -> Reader \cup {NoReader}] /\ DOMAIN to = 1 .. Len(to)
  BY TypeParts, MailSeqs
<1>1. ASSUME NEW n \in Recipient, Send(n) PROVE FALSE
  BY <1>0, <1>1, SendType
<1>2. ASSUME NEW r \in Reader, NEW i \in DOMAIN to, NEW owned, owned \subseteq Granted(r), Ack(r, i, owned)
      PROVE  owner[to[k]] = acker'[k]
  <2>1. i = k /\ acker'[k] = r
    BY <1>0, <1>2 DEF Ack
  <2> QED BY <1>2, <2>1 DEF Ack, Ackable, Granted
<1>3. ASSUME NEW r \in Reader, NEW owned \in Holding(r), Read(r, owned)
      PROVE  owner[to[k]] = acker'[k]
  <2>1. acker'[k] = r /\ Ackable(k, owned)
    BY <1>3, ReadTakes
  <2> QED BY <2>1, HoldingType DEF Ackable, Granted
<1>4. CASE acker' = acker
  BY <1>4
<1>5. CASE QuietStep
  BY <1>1, <1>2, <1>4, <1>5 DEF QuietStep, Contest, Grant, Adopt, Release, vars, mail
<1> QED BY <1>3, <1>4, <1>5, CallsLeaveMail, StepKinds

LEMMA BehindStep ==
  ASSUME TypeOK, Behind, [Next]_vars
  PROVE  Behind'
<1> SUFFICES ASSUME NEW q \in Reader
             PROVE  /\ call'[q].mark <= Len(to') /\ sweep'[q].upto <= Len(to')
                    /\ call'[q].at \in {"asked", "read"} => ~call'[q].left
  BY DEF Behind
<1>0. /\ Len(to) \in Nat /\ Len(to') \in Nat /\ Len(to) <= Len(to')
      /\ call \in [Reader -> Calls] /\ sweep \in [Reader -> Sweeps]
      /\ call[q].mark \in Nat /\ sweep[q].upto \in Nat
  BY MailGrows, TypeParts, MailAssumption DEF Calls, Sweeps
<1>1. CASE call'[q] = call[q] /\ sweep'[q] = sweep[q]
  BY <1>0, <1>1 DEF Behind
<1>2. ASSUME CallStep(q)
      PROVE  /\ call'[q].mark <= Len(to') /\ sweep'[q].upto <= Len(to')
             /\ call'[q].at \in {"asked", "read"} => ~call'[q].left
  <2>1. CASE Restart(q) \/ Reply(q) \/ ReplyLost(q)
    <3>1. call'[q].mark = 0 /\ call'[q].at = "idle"
      BY <2>1, EndEffect DEF Idle
    <3>2. sweep'[q].upto \in {sweep[q].upto, 0}
      <4>1. NoSweep.upto = 0
        BY DEF NoSweep
      <4>2. CASE Restart(q)
        BY <4>1, <4>2, SweepEffect
      <4>3. CASE Reply(q)
        <5>1. \/ sweep'[q] = sweep[q] \/ sweep'[q] = NoSweep
              \/ sweep'[q] = [upto |-> sweep[q].upto, mine |-> Covered(q), seen |-> Shown(q)]
          BY <4>3, SweepEffect
        <5> QED BY <4>1, <5>1
      <4>4. CASE ReplyLost(q)
        BY <4>1, <4>4, SweepEffect
      <4> QED BY <2>1, <4>2, <4>3, <4>4
    <3> QED BY <1>0, <3>1, <3>2 DEF Behind
  <2>2. ASSUME NEW agents, NEW consuming, NEW after, Ask(q, agents, consuming, after)
        PROVE  call'[q].mark = Len(to) /\ ~call'[q].left
    BY <2>2, AskEffect
  <2>3. ASSUME NEW agents, NEW after, Poll(q, agents, after) PROVE sweep'[q] = sweep[q]
    BY <2>3 DEF Poll
  <2>4. ASSUME NEW agents, Browse(q, agents) PROVE sweep'[q].upto = Len(to)
    BY <1>0, <2>4 DEF Browse
  <2>5. ASSUME NEW agents, BrowseOn(q, agents) PROVE sweep'[q] = sweep[q]
    BY <2>5 DEF BrowseOn
  <2>6. ASSUME NEW agents \in SUBSET Recipient,
               (\E after \in 0 .. Len(to) : Poll(q, agents, after)) \/ Browse(q, agents) \/ BrowseOn(q, agents)
        PROVE  /\ call'[q].mark = Len(to) /\ ~call'[q].left
               /\ sweep'[q].upto \in {sweep[q].upto, Len(to)}
    BY <2>2, <2>3, <2>4, <2>5, <2>6 DEF Poll, Browse, BrowseOn
  <2>7. CASE ProbeEmpty(q) \/ ProbeFound(q)
    BY <1>0, <2>7, ProbeEmptyEffect, ProbeFoundEffect DEF Behind
  <2>8. ASSUME NEW owned \in Holding(q), Read(q, owned)
        PROVE  call'[q].mark = call[q].mark /\ sweep'[q] = sweep[q] /\ call'[q].at = "reply"
    BY <2>8, ReadEffect
  <2>9. ASSUME call'[q].mark \in {call[q].mark, Len(to)}, sweep'[q].upto \in {sweep[q].upto, Len(to)}
        PROVE  call'[q].mark <= Len(to') /\ sweep'[q].upto <= Len(to')
    BY <1>0, <2>9 DEF Behind
  <2> QED BY <1>2, <2>1, <2>6, <2>7, <2>8, <2>9 DEF CallStep
<1> QED BY <1>1, <1>2, StepKinds, QuietCalls, OthersCalls

(* Mail unread after a read that says nothing remains is not what its reader *)
(* could have consumed.                                                      *)
LEMMA ReadDrains ==
  ASSUME TypeOK, NEW r \in Reader, NEW owned, Read(r, owned), Remaining(r, owned) = {},
         NEW i \in DOMAIN to, to[i] \in call[r].agents, to[i] = Bare \/ to[i] \in owned
  PROVE  acker'[i] # NoReader
<1> SUFFICES ASSUME acker'[i] = NoReader PROVE FALSE
  OBVIOUS
<1>1. acker[i] = NoReader /\ ~(call[r].consuming /\ i \in Page(r) /\ Ackable(i, owned))
  BY ReadTakes, MailAssumption
<1>2. Ackable(i, owned) /\ i \in Unread(call[r].agents)
  BY <1>1 DEF Ackable, Unread
<1>3. i \in Remaining(r, owned)
  BY <1>1, <1>2 DEF Remaining
<1> QED BY <1>3

LEMMA DrainedStep ==
  ASSUME TypeOK, Behind, DrainedMeansEmpty, [Next]_vars
  PROVE  DrainedMeansEmpty'
<1> SUFFICES ASSUME NEW q \in Reader, call'[q].at = "reply", ~call'[q].left,
                    NEW i \in 1 .. call'[q].mark, to'[i] \in call'[q].mine
             PROVE  acker'[i] # NoReader
  BY DEF DrainedMeansEmpty
<1>0. /\ Len(to) \in Nat /\ DOMAIN to = 1 .. Len(to)
      /\ call \in [Reader -> Calls] /\ call[q].mark \in Nat /\ call[q].mark <= Len(to)
  BY MailSeqs, TypeParts, MailAssumption DEF Calls, Behind
<1>1. CASE call'[q] = call[q]
  <2>1. i \in 1 .. Len(to) /\ acker[i] # NoReader
    <3>1. i \in 1 .. Len(to)
      BY <1>0, <1>1
    <3>2. to[i] \in call[q].mine
      BY <3>1, <1>1, MailGrows
    <3> QED BY <1>1, <3>1, <3>2 DEF DrainedMeansEmpty
  <2> QED BY <2>1, MailGrows
<1>2. CASE ProbeEmpty(q)
  <2>1. /\ call'[q].mark = call[q].mark /\ call'[q].mine = call[q].agents
        /\ Unread(call[q].agents) = {} /\ to' = to /\ acker' = acker
    BY <1>2, ProbeEmptyEffect
  <2>2. i \in DOMAIN to
    BY <1>0, <2>1
  <2> QED BY <2>1, <2>2 DEF Unread
<1>3. ASSUME NEW owned \in Holding(q), Read(q, owned) PROVE acker'[i] # NoReader
  <2>1. /\ call'[q].mark = call[q].mark /\ to' = to
        /\ call'[q].mine = {n \in call[q].agents : n = Bare \/ n \in owned}
        /\ call'[q].left = (Remaining(q, owned) # {})
    BY <1>3, ReadEffect
  <2>2. i \in DOMAIN to /\ to[i] \in call[q].agents /\ (to[i] = Bare \/ to[i] \in owned)
        /\ Remaining(q, owned) = {}
    <3>1. i \in 1 .. call[q].mark /\ to[i] \in call'[q].mine
      BY <2>1
    <3>2. i \in DOMAIN to
      BY <1>0, <3>1
    <3>3. Remaining(q, owned) = {}
      BY <2>1
    <3> QED BY <2>1, <3>1, <3>2, <3>3
  <2> QED BY <1>3, <2>2, ReadDrains
<1>4. CASE Restart(q) \/ ProbeFound(q) \/ Reply(q) \/ ReplyLost(q)
  BY <1>4, EndEffect, ProbeFoundEffect DEF Idle
<1>5. ASSUME NEW agents, NEW consuming, NEW after, Ask(q, agents, consuming, after) PROVE FALSE
  BY <1>5, AskEffect
<1>6. CASE CallStep(q)
  BY <1>2, <1>3, <1>4, <1>5, <1>6 DEF CallStep, Poll, Browse, BrowseOn
<1> QED BY <1>1, <1>6, StepKinds, QuietCalls, OthersCalls

----------------------------------------------------------------------------
(* Pages. *)

(* What was left to a sweep or a page after a step was left to it before. *)
LEMMA LeftShrinks ==
  ASSUME TypeOK, Behind, [Next]_vars, NEW r \in Reader, NEW N, NEW i,
         sweep'[r].upto = sweep[r].upto, Left(r, N, i)'
  PROVE  Left(r, N, i)
<1>1. sweep[r].upto \in Nat /\ sweep[r].upto <= Len(to) /\ Len(to) \in Nat
  BY TypeParts, MailGrows, MailAssumption DEF Sweeps, Behind
<1>2. i \in 1 .. sweep[r].upto /\ to'[i] \in N /\ acker'[i] = NoReader
  BY DEF Left
<1>3. i \in 1 .. Len(to)
  BY <1>1, <1>2
<1> QED BY <1>2, <1>3, MailGrows DEF Left

(* Nothing is left to a reader whose sweep is over. *)
LEMMA NothingLeft ==
  ASSUME NEW r \in Reader, sweep[r].upto = 0, NEW N, NEW i
  PROVE  ~Left(r, N, i)
BY DEF Left

(* A call and a sweep that a step leaves alone keep what holds of them. *)
LEMMA PagesKept ==
  ASSUME TypeOK, Behind, [Next]_vars, NEW r \in Reader, PagesOf(r),
         call'[r] = call[r], sweep'[r] = sweep[r]
  PROVE  PagesOf(r)'
<1>1. ASSUME NEW N, NEW i, Left(r, N, i)' PROVE Left(r, N, i)
  BY <1>1, LeftShrinks
<1> QED BY <1>1 DEF PagesOf

(* A page adds to what was shown with no hole before it or in it. *)
LEMMA PagesTurned ==
  ASSUME TypeOK, Behind, [Next]_vars, NEW r \in Reader, PagesOf(r), Reply(r)
  PROVE  PagesOf(r)'
<1>0. /\ call[r] \in Calls /\ sweep[r] \in Sweeps /\ call[r].at = "reply"
      /\ call[r].after \in Nat /\ call[r].page \subseteq Nat /\ sweep[r].seen \subseteq Nat
      /\ Id \subseteq Nat
  BY TypeParts, MailAssumption DEF Calls, Sweeps, Id, Reply
<1>1. call'[r] = Idle /\ call'[r].at = "idle"
  BY EndEffect DEF Idle
<1>2. CASE sweep'[r] = NoSweep
  BY <1>1, <1>2 DEF PagesOf, NoSweep
<1>3. CASE sweep'[r] = sweep[r]
  <2>1. ASSUME NEW N, NEW i, Left(r, N, i)' PROVE Left(r, N, i)
    BY <1>3, <2>1, LeftShrinks
  <2> QED BY <1>1, <1>3, <2>1 DEF PagesOf
<1>4. CASE /\ ~call[r].consuming /\ call[r].more
           /\ sweep'[r] = [upto |-> sweep[r].upto, mine |-> Covered(r), seen |-> Shown(r)]
  <2>1. sweep'[r].upto = sweep[r].upto /\ sweep'[r].seen = Shown(r) /\ sweep'[r].mine = Covered(r)
    BY <1>4
  <2>2. ASSUME NEW N, N = Covered(r), NEW k \in Shown(r), NEW i \in Id, Left(r, N, i)', i <= k
        PROVE  i \in Shown(r)
    <3>1. Left(r, N, i)
      BY <2>1, <2>2, LeftShrinks
    <3>2. Left(r, sweep[r].mine, i) /\ Left(r, call[r].mine, i)
      BY <2>2, <3>1 DEF Left, Covered
    <3>3. ASSUME NEW j \in sweep[r].seen, i <= j PROVE i \in Shown(r)
      BY <3>2, <3>3 DEF PagesOf, Shown
    <3>4. CASE k \in sweep[r].seen
      BY <2>2, <3>3, <3>4
    <3>5. CASE k \in call[r].page /\ i <= call[r].after
      <4>1. i > 0
        BY <3>2, <1>0, MailAssumption DEF Id
      <4>2. call[r].after \in sweep[r].seen
        BY <1>0, <1>4, <3>5, <4>1 DEF PagesOf
      <4> QED BY <3>3, <3>5, <4>2
    <3>6. CASE k \in call[r].page /\ call[r].after < i
      BY <1>0, <1>4, <2>2, <3>2, <3>6 DEF PagesOf, Shown
    <3> QED BY <1>0, <2>2, <3>4, <3>5, <3>6 DEF Shown
  <2> QED BY <1>1, <2>1, <2>2 DEF PagesOf
<1> QED BY <1>2, <1>3, <1>4, SweepEffect

(* A page reaches everything that was left past the cursor, unless it says *)
(* there is more.                                                          *)
LEMMA PagesRead ==
  ASSUME TypeOK, Behind, [Next]_vars, NEW r \in Reader, PagesOf(r), NEW owned, Read(r, owned)
  PROVE  PagesOf(r)'
<1>0. /\ call[r] \in Calls /\ Len(to) \in Nat /\ DOMAIN to = 1 .. Len(to)
      /\ sweep[r].upto \in Nat /\ sweep[r].upto <= Len(to)
      /\ call[r].after \in Nat /\ Id \in SUBSET Nat
  BY TypeParts, MailSeqs, MailAssumption DEF Calls, Sweeps, Behind, Id
<1>1. /\ call[r].at = "read" /\ call'[r].at = "reply" /\ call'[r].consuming = call[r].consuming
      /\ call'[r].after = call[r].after /\ call'[r].page = Page(r) /\ sweep' = sweep
      /\ call'[r].mine = {n \in call[r].agents : n = Bare \/ n \in owned}
      /\ call'[r].more = More(r, owned)
  BY ReadEffect
<1>2. ASSUME NEW N, NEW i, Left(r, N, i)' PROVE Left(r, N, i)
  BY <1>1, <1>2, LeftShrinks
<1>3. ASSUME NEW i, Left(r, call'[r].mine, i)
      PROVE  i \in Unread(call[r].agents) /\ Ackable(i, owned)
  BY <1>0, <1>1, <1>3 DEF Left, Unread, Ackable
<1>4. ASSUME NEW k \in Page(r), NEW i \in Id, Left(r, call'[r].mine, i), call[r].after < i, i <= k
      PROVE  i \in Page(r)
  <2>1. i > call[r].after
    BY <1>0, <1>4
  <2> QED BY <1>3, <1>4, <2>1, PageClosed
<1>5. ASSUME ~call[r].consuming, ~More(r, owned),
             NEW i \in Id, Left(r, call'[r].mine, i), call[r].after < i
      PROVE  i \in Page(r)
  <2>1. i \in Remaining(r, owned) /\ i \in Nat
    BY <1>0, <1>3, <1>5 DEF Remaining
  <2>2. ~(i > (IF Page(r) = {} THEN call[r].after ELSE Max(Page(r))))
    BY <1>5, <2>1 DEF More
  <2>3. Page(r) # {}
    BY <1>0, <1>5, <2>1, <2>2
  <2>4. Max(Page(r)) \in Page(r)
    <3>1. Page(r) \in SUBSET Nat /\ \A k \in Page(r) : k <= MaxSent
      BY PageType, MailAssumption DEF Id
    <3> QED BY <2>3, <3>1, MailAssumption, MaxNat
  <2>5. Max(Page(r)) \in Nat
    BY <2>4, PageType, <1>0
  <2>6. i <= Max(Page(r))
    BY <2>1, <2>2, <2>3, <2>5
  <2> QED BY <1>4, <1>5, <2>4, <2>6
<1> QED BY <1>1, <1>2, <1>4, <1>5 DEF PagesOf

(* Where a call that pages starts. *)
LEMMA PagesAsked ==
  ASSUME TypeOK, Behind, [Next]_vars, NEW r \in Reader, PagesOf(r), NEW agents,
         (\E after \in 0 .. Len(to) : Poll(r, agents, after)) \/ Browse(r, agents) \/ BrowseOn(r, agents)
  PROVE  PagesOf(r)'
<1>1. ASSUME NEW after, Poll(r, agents, after) PROVE PagesOf(r)'
  <2>1. call'[r].consuming /\ call'[r].at = "asked" /\ sweep' = sweep
    BY <1>1, AskEffect DEF Poll
  <2>2. ASSUME NEW N, NEW i, Left(r, N, i)' PROVE Left(r, N, i)
    BY <2>1, <2>2, LeftShrinks
  <2> QED BY <2>1, <2>2 DEF PagesOf
<1>2. CASE Browse(r, agents)
  <2>1. call'[r].at = "asked" /\ call'[r].after = 0
    <3>1. Ask(r, agents, FALSE, 0)
      BY <1>2 DEF Browse
    <3> QED BY <3>1, TypeParts DEF Ask, Idle
  <2>2. sweep'[r].seen = {}
    <3>1. sweep'[r] = [upto |-> Len(to), mine |-> agents, seen |-> {}]
      BY <1>2, SweepEffect
    <3> QED BY <3>1
  <2> QED BY <2>1, <2>2 DEF PagesOf
<1>3. CASE BrowseOn(r, agents)
  <2>1. /\ call'[r].at = "asked" /\ call'[r].after = Max(sweep[r].seen)
        /\ sweep' = sweep /\ sweep[r].seen # {}
    <3>1. Ask(r, agents, FALSE, Max(sweep[r].seen)) /\ sweep' = sweep /\ sweep[r].seen # {}
      BY <1>3 DEF BrowseOn
    <3> QED BY <3>1, TypeParts DEF Ask, Idle
  <2>2. Max(sweep[r].seen) \in sweep[r].seen
    BY <2>1, SeenMax
  <2>3. ASSUME NEW N, NEW i, Left(r, N, i)' PROVE Left(r, N, i)
    BY <2>1, <2>3, LeftShrinks
  <2> QED BY <2>1, <2>2, <2>3 DEF PagesOf
<1> QED BY <1>1, <1>2, <1>3

LEMMA PagesStep ==
  ASSUME TypeOK, Behind, Pages, [Next]_vars
  PROVE  Pages'
<1> SUFFICES ASSUME NEW q \in Reader PROVE PagesOf(q)'
  BY DEF Pages
<1>0. PagesOf(q)
  BY DEF Pages
<1>1. CASE call'[q] = call[q] /\ sweep'[q] = sweep[q]
  BY <1>0, <1>1, PagesKept
<1>2. CASE CallStep(q)
  <2>1. CASE Reply(q)
    BY <1>0, <2>1, PagesTurned
  <2>2. CASE Restart(q) \/ ReplyLost(q)
    <3>1. call'[q].at = "idle" /\ sweep'[q] \in {sweep[q], NoSweep}
      <4>1. call'[q] = Idle
        BY <2>2, EndEffect
      <4>2. sweep'[q] \in {sweep[q], NoSweep}
        BY <2>2, SweepEffect
      <4> QED BY <4>1, <4>2 DEF Idle
    <3>2. CASE sweep'[q] = NoSweep
      BY <3>1, <3>2 DEF PagesOf, NoSweep
    <3>3. CASE sweep'[q] = sweep[q]
      <4>1. ASSUME NEW N, NEW i, Left(q, N, i)' PROVE Left(q, N, i)
        BY <3>3, <4>1, LeftShrinks
      <4> QED BY <1>0, <3>1, <3>3, <4>1 DEF PagesOf
    <3> QED BY <3>1, <3>2, <3>3
  <2>3. CASE ProbeFound(q) \/ ProbeEmpty(q)
    <3>1. /\ call[q].at = "asked" /\ call'[q].at \in {"read", "reply"}
          /\ call'[q].at = "reply" => call'[q].consuming
          /\ call'[q].consuming = call[q].consuming /\ call'[q].after = call[q].after
          /\ sweep' = sweep
      BY <2>3, ProbeFoundEffect, ProbeEmptyEffect
    <3>2. ASSUME NEW N, NEW i, Left(q, N, i)' PROVE Left(q, N, i)
      BY <3>1, <3>2, LeftShrinks
    <3> QED BY <1>0, <3>1, <3>2 DEF PagesOf
  <2>4. ASSUME NEW owned \in Holding(q), Read(q, owned) PROVE PagesOf(q)'
    BY <1>0, <2>4, PagesRead
  <2>5. ASSUME NEW agents,
               (\E after \in 0 .. Len(to) : Poll(q, agents, after)) \/ Browse(q, agents) \/ BrowseOn(q, agents)
        PROVE  PagesOf(q)'
    BY <1>0, <2>5, PagesAsked
  <2> QED BY <1>2, <2>1, <2>2, <2>3, <2>4, <2>5 DEF CallStep
<1> QED BY <1>1, <1>2, StepKinds, QuietCalls, OthersCalls

----------------------------------------------------------------------------
(* The inductive invariant, and what it gives. *)

LEMMA InitInductive == Init => Inductive
<1> SUFFICES ASSUME Init PROVE Inductive
  OBVIOUS
<1>1. Len(to) = 0 /\ DOMAIN to = {} /\ CountOK
  BY EmptySeq DEF Init, CountOK
<1>2. /\ \A r \in Reader : call[r] = Idle /\ sweep[r] = NoSweep
      /\ Idle.at = "idle" /\ Idle.mark = 0 /\ NoSweep.upto = 0 /\ NoSweep.seen = {}
  BY DEF Init, Idle, NoSweep
<1>3. Behind /\ DrainedMeansEmpty
  BY <1>1, <1>2 DEF Behind, DrainedMeansEmpty
<1>4. Pages
  BY <1>2 DEF Pages, PagesOf
<1> QED BY <1>1, <1>3, <1>4, InitType DEF Inductive

LEMMA NextInductive == Inductive /\ [Next]_vars => Inductive'
BY NextType, CountStep, BehindStep, DrainedStep, PagesStep DEF Inductive

LEMMA Invariance == Spec => []Inductive
BY InitInductive, NextInductive, PTL DEF Spec

(* A message is handed over as consumed by one reply and no more, however    *)
(* the reads and acks of any sessions interleave (inbox and ack: the writer  *)
(* reserved before the SELECT, acked_at IS NULL in both).                    *)
THEOREM Once == Spec => []ConsumedOnce
<1>1. Inductive => ConsumedOnce
  BY DEF Inductive, ConsumedOnce, CountOK
<1> QED BY <1>1, Invariance, PTL

(* Every step that consumes mail at a lane is its holder's, as the registry  *)
(* grants the lane in the state of that step (verify, inside the transaction *)
(* that consumes).                                                           *)
THEOREM HoldersOnly == Spec => OnlyHoldersConsume
<1>1. TypeOK /\ [Next]_vars =>
        [\A i \in DOMAIN to :
           acker[i] = NoReader /\ acker'[i] # NoReader /\ to[i] # Bare
             => owner[to[i]] = acker'[i]]_vars
  BY HolderStep
<1> QED BY <1>1, Typing, PTL DEF Spec, OnlyHoldersConsume

(* "Nothing remains", said by a reply, is so of all mail sent before its     *)
(* call, at any cursor and any batch size (inbox: the probe and the count    *)
(* ignore after_id).                                                         *)
THEOREM Drained == Spec => []DrainedMeansEmpty
<1>1. Inductive => DrainedMeansEmpty
  BY DEF Inductive
<1> QED BY <1>1, Invariance, PTL

(* A reader that leaves its mail unread and pages while `more` is true has   *)
(* missed nothing when it is false, for any number of pages of any size      *)
(* (inbox: after_id, more).                                                  *)
THEOREM Swept == Spec => []SweepMissesNothing
<1>1. ASSUME Inductive PROVE SweepMissesNothing
  <2> SUFFICES ASSUME NEW r \in Reader, call[r].at = "reply", ~call[r].consuming, ~call[r].more,
                      NEW i \in 1 .. sweep[r].upto, to[i] \in Covered(r), acker[i] = NoReader
               PROVE  i \in Shown(r)
    BY DEF SweepMissesNothing
  <2>1. /\ sweep[r].upto \in 0 .. MaxSent /\ MaxSent \in Nat /\ call[r].after \in Nat
        /\ PagesOf(r)
    BY <1>1, TypeParts, MailAssumption DEF Inductive, Calls, Sweeps, Pages
  <2>2. i \in Id /\ i \in Nat /\ i > 0
    BY <2>1 DEF Id
  <2>3. Left(r, sweep[r].mine, i) /\ Left(r, call[r].mine, i)
    BY DEF Left, Covered
  <2>4. CASE i <= call[r].after
    <3>1. call[r].after \in sweep[r].seen
      BY <2>1, <2>2, <2>4 DEF PagesOf
    <3> QED BY <2>1, <2>2, <2>3, <2>4, <3>1 DEF PagesOf, Shown
  <2>5. CASE call[r].after < i
    BY <2>1, <2>2, <2>3, <2>5 DEF PagesOf, Shown
  <2> QED BY <2>1, <2>2, <2>4, <2>5
<1> QED BY <1>1, Invariance, PTL
=============================================================================
