------------------------------ MODULE Mailbox ------------------------------
(***************************************************************************)
(* The shared mailbox (mailbox.py) under the sessions that read it: batched *)
(* reads that consume what they return, reads that leave it and page past  *)
(* it, acks, and the ownership both obey (server.py: inbox, _consume, ack). *)
(*                                                                         *)
(* A message is its id, the place it has in `to`.  Which lanes a session    *)
(* remembers as its own and which the registry grants it are two things:   *)
(* Lanes.tla models how they come apart, here they only do.  A call picks   *)
(* what it reads outside the identity lock, looks before it reserves the   *)
(* one writer, and reads, checks and consumes in one transaction; its reply *)
(* may be lost.                                                             *)
(***************************************************************************)
EXTENDS Naturals, SequencesExt

CONSTANTS
  Reader, Lane,
  Bare,      \* the unqualified recipient every session shares
  NoReader,
  Limit,     \* messages in a batch
  MaxSent,   \* bound: messages ever sent
  Caller,    \* bound: readers whose calls are followed step by step; the
             \* others only ack, one message or several, as a call of theirs would
  Attended   \* readers that keep polling and are let finish

ASSUME MailAssumption ==
  Bare \notin Lane /\ NoReader \notin Reader /\ Limit \in Nat \ {0} /\ MaxSent \in Nat

VARIABLES
  to,      \* to[i]: the recipient of message i
  acker,   \* acker[i]: who consumed i, or NoReader (acked_at, message_acks)
  told,    \* told[i]: how many replies said they consumed i
  owner,   \* owner[n]: whom the registry grants n
  memory,  \* memory[r]: the lanes r believes it holds (owned_recipients)
  call,    \* call[r]: r's inbox call
  sweep    \* sweep[r]: what a reader paging past its mail has been shown

mail == <<to, acker, told>>
lanes == <<owner, memory>>
vars == <<mail, lanes, call, sweep>>

Idle == [at |-> "idle", agents |-> {}, consuming |-> FALSE, after |-> 0, mark |-> 0,
         mine |-> {}, page |-> {}, left |-> FALSE, more |-> FALSE]
NoSweep == [upto |-> 0, mine |-> {}, seen |-> {}]

Init ==
  /\ to = <<>> /\ acker = <<>> /\ told = <<>>
  /\ owner = [n \in Lane |-> NoReader]
  /\ memory = [r \in Reader |-> {}]
  /\ call = [r \in Reader |-> Idle]
  /\ sweep = [r \in Reader |-> NoSweep]

(* Nobody else reads or moves what r holds: a read has its identity lock.    *)
Unlocked(r) == call[r].at # "read"

(* Mutant: what a session remembers is what it holds.                       *)
Remembered(r) == memory[r]

(* What the registry grants of what r remembers (sessions.granted).          *)
Granted(r) == {n \in memory[r] : owner[n] = r}

----------------------------------------------------------------------------
(* Selecting. *)

(* Mutant: mail already read is read again.                                  *)
Addressed(agents) == {i \in DOMAIN to : to[i] \in agents}

Unread(agents) == {i \in DOMAIN to : to[i] \in agents /\ acker[i] = NoReader}

(* The first Limit ids of S. *)
Oldest(S) == {i \in S : Cardinality({j \in S : j < i}) < Limit}

Page(r) == Oldest({i \in Unread(call[r].agents) : i > call[r].after})

(* Mutant: only mail at a lane has an owner to consume it.                   *)
OwnedOnly(i, owned) == to[i] \in owned

(* Bare mail is anybody's, a lane's its holder's (_lane_ackable). *)
Ackable(i, owned) == to[i] = Bare \/ to[i] \in owned

(* Mutant: what remains is counted past the cursor only.                     *)
RemainingAfter(r, owned) ==
  {i \in Unread(call[r].agents) \ Page(r) : Ackable(i, owned) /\ i > call[r].after}

(* What the caller could still consume once this read is done, wherever its  *)
(* cursor is.                                                                *)
Remaining(r, owned) ==
  {i \in Unread(call[r].agents) :
     Ackable(i, owned) /\ ~(call[r].consuming /\ i \in Page(r))}

(* Mutant: there is more when more remains than the page held.               *)
MoreThanPage(r, owned) == Cardinality(Remaining(r, owned)) > Cardinality(Page(r))

(* Some of it lies past this page, or past the cursor if the page is empty.  *)
More(r, owned) ==
  \E i \in Remaining(r, owned) :
    i > (IF Page(r) = {} THEN call[r].after ELSE Max(Page(r)))

----------------------------------------------------------------------------
(* Mail and names. *)

Send(n) ==
  /\ Len(to) < MaxSent
  /\ to' = Append(to, n)
  /\ acker' = Append(acker, NoReader)
  /\ told' = Append(told, 0)
  /\ UNCHANGED <<lanes, call, sweep>>

(* r claims n, or registers it again. *)
Grant(r, n) ==
  /\ owner[n] = NoReader
  /\ owner' = [owner EXCEPT ![n] = r]
  /\ UNCHANGED <<mail, memory, call, sweep>>

Adopt(r, n) ==
  /\ Unlocked(r) /\ owner[n] = r
  /\ memory' = [memory EXCEPT ![r] = @ \cup {n}]
  /\ UNCHANGED <<mail, owner, call, sweep>>

(* A store rebuilt, or rows an older revision left in conflict. *)
Contest(n) ==
  /\ owner[n] # NoReader
  /\ owner' = [owner EXCEPT ![n] = NoReader]
  /\ UNCHANGED <<mail, memory, call, sweep>>

Release(r, n) ==
  /\ Unlocked(r) /\ n \in memory[r]
  /\ owner' = IF owner[n] = r THEN [owner EXCEPT ![n] = NoReader] ELSE owner
  /\ memory' = [memory EXCEPT ![r] = @ \ {n}]
  /\ UNCHANGED <<mail, call, sweep>>

(* r's server goes, and another one, that remembers nothing, takes its place. *)
Restart(r) ==
  /\ owner' = [n \in Lane |-> IF owner[n] = r THEN NoReader ELSE owner[n]]
  /\ memory' = [memory EXCEPT ![r] = {}]
  /\ call' = [call EXCEPT ![r] = Idle]
  /\ sweep' = [sweep EXCEPT ![r] = NoSweep]
  /\ UNCHANGED mail

----------------------------------------------------------------------------
(* A call of inbox. *)

Ask(r, agents, consuming, after) ==
  /\ call[r].at = "idle"
  /\ call' = [call EXCEPT ![r] =
       [Idle EXCEPT !.at = "asked", !.agents = agents, !.consuming = consuming,
                    !.after = after, !.mark = Len(to)]]
  /\ UNCHANGED <<mail, lanes>>

(* The whole of a session's mail, or one lane by name. *)
Mine(r) == memory[r] \cup {Bare}

Poll(r, agents, after) == Ask(r, agents, TRUE, after) /\ UNCHANGED sweep

(* Mail left unread is paged past: from the start, or on from the last page  *)
(* while there is more.                                                      *)
Browse(r, agents) ==
  /\ Ask(r, agents, FALSE, 0)
  /\ sweep' = [sweep EXCEPT ![r] =
                 [upto |-> Len(to), mine |-> agents, seen |-> {}]]

BrowseOn(r, agents) ==
  /\ sweep[r].seen # {}
  /\ Ask(r, agents, FALSE, Max(sweep[r].seen))
  /\ UNCHANGED sweep

(* A consuming call looks before it reserves the writer. *)
ProbeEmpty(r) ==
  /\ call[r].at = "asked" /\ call[r].consuming
  /\ Unread(call[r].agents) = {}
  /\ call' = [call EXCEPT ![r].at = "reply", ![r].mine = call[r].agents]
  /\ UNCHANGED <<mail, lanes, sweep>>

ProbeFound(r) ==
  /\ call[r].at = "asked"
  /\ call[r].consuming => Unread(call[r].agents) # {}
  /\ call' = [call EXCEPT ![r].at = "read"]
  /\ UNCHANGED <<mail, lanes, sweep>>

(* One transaction: ownership, the page, what it consumes, what remains.     *)
(* A registry that cannot be read grants nothing.                            *)
Read(r, owned) ==
  LET taken == IF call[r].consuming THEN {i \in Page(r) : Ackable(i, owned)} ELSE {}
  IN  /\ call[r].at = "read"
      /\ acker' = [i \in DOMAIN to |-> IF i \in taken THEN r ELSE acker[i]]
      /\ told' = [i \in DOMAIN to |-> IF i \in taken THEN told[i] + 1 ELSE told[i]]
      /\ call' = [call EXCEPT ![r] =
           [@ EXCEPT !.at = "reply", !.page = Page(r),
                     !.mine = {n \in call[r].agents : n = Bare \/ n \in owned},
                     !.left = Remaining(r, owned) # {}, !.more = More(r, owned)]]
      /\ UNCHANGED <<to, lanes, sweep>>

(* What the pages of r have shown and covered, the present reply with them. *)
Shown(r) == sweep[r].seen \cup call[r].page
Covered(r) == sweep[r].mine \cap call[r].mine

Reply(r) ==
  /\ call[r].at = "reply"
  /\ call' = [call EXCEPT ![r] = Idle]
  /\ sweep' = IF call[r].consuming THEN sweep
              ELSE [sweep EXCEPT ![r] =
                      IF call[r].more THEN [@ EXCEPT !.seen = Shown(r), !.mine = Covered(r)]
                      ELSE NoSweep]
  /\ UNCHANGED <<mail, lanes>>

(* What a lost reply consumed stays consumed; a reader paging starts again.  *)
ReplyLost(r) ==
  /\ call[r].at = "reply"
  /\ call' = [call EXCEPT ![r] = Idle]
  /\ sweep' = IF call[r].consuming THEN sweep ELSE [sweep EXCEPT ![r] = NoSweep]
  /\ UNCHANGED <<mail, lanes>>

(* ack, under the identity lock and in one transaction. *)
Ack(r, i, owned) ==
  /\ Unlocked(r)
  /\ acker[i] = NoReader /\ Ackable(i, owned)
  /\ acker' = [acker EXCEPT ![i] = r]
  /\ told' = [told EXCEPT ![i] = @ + 1]
  /\ UNCHANGED <<to, lanes, call, sweep>>

----------------------------------------------------------------------------
Holding(r) == {Granted(r), {}}

Session(r) ==
  \/ \E n \in Lane : Grant(r, n) \/ Adopt(r, n) \/ Release(r, n)
  \/ Restart(r)
  \/ r \in Caller /\ \E agents \in {Mine(r)} \cup {{n} : n \in Lane \cup {Bare}} :
       \/ \E after \in 0 .. Len(to) : Poll(r, agents, after)
       \/ Browse(r, agents) \/ BrowseOn(r, agents)
  \/ ProbeEmpty(r) \/ ProbeFound(r) \/ Reply(r) \/ ReplyLost(r)
  \/ \E owned \in Holding(r) : Read(r, owned) \/ \E i \in DOMAIN to : Ack(r, i, owned)

Next ==
  \/ \E n \in Lane \cup {Bare} : Send(n)
  \/ \E n \in Lane : Contest(n)
  \/ \E r \in Reader : Session(r)

Spec == Init /\ [][Next]_vars

FullPoll(r) == call[r].consuming /\ call[r].after = 0 /\ call[r].agents = Mine(r)

(* An attended session polls all its mail from the start again and again; it *)
(* is let finish its calls, restarts do not fall inside every one of them,   *)
(* and it does not find the registry unreadable for ever.                    *)
Fairness(r) ==
  /\ WF_vars(ProbeEmpty(r) \/ ProbeFound(r) \/ Reply(r) \/ \E owned \in Holding(r) : Read(r, owned))
  /\ SF_vars(Poll(r, Mine(r), 0))
  /\ SF_vars(FullPoll(r) /\ ProbeFound(r))
  /\ SF_vars(FullPoll(r) /\ Read(r, Granted(r)))

FairSpec == Spec /\ \A r \in Attended : Fairness(r)

----------------------------------------------------------------------------
Id == 1 .. MaxSent

(* Every variable keeps to its domain, a page to its limit. *)
TypeOK ==
  /\ to \in Seq(Lane \cup {Bare}) /\ Len(to) <= MaxSent
  /\ acker \in [DOMAIN to -> Reader \cup {NoReader}]
  /\ told \in [DOMAIN to -> Nat]
  /\ owner \in [Lane -> Reader \cup {NoReader}]
  /\ memory \in [Reader -> SUBSET Lane]
  /\ call \in [Reader -> [at : {"idle", "asked", "read", "reply"},
                          agents : SUBSET (Lane \cup {Bare}), consuming : BOOLEAN,
                          after : 0 .. MaxSent, mark : 0 .. MaxSent,
                          mine : SUBSET (Lane \cup {Bare}),
                          page : {S \in SUBSET Id : Cardinality(S) <= Limit},
                          left : BOOLEAN, more : BOOLEAN]]
  /\ sweep \in [Reader -> [upto : 0 .. MaxSent, mine : SUBSET (Lane \cup {Bare}),
                           seen : SUBSET Id]]

(* A message is handed over as consumed once, by the reply of the one call   *)
(* that marked it, however reads and acks of several sessions interleave     *)
(* (BEGIN IMMEDIATE before the SELECT; acked_at IS NULL in both).            *)
ConsumedOnce ==
  /\ TypeOK
  /\ \A i \in DOMAIN to : told[i] = IF acker[i] = NoReader THEN 0 ELSE 1

(* Mail at a lane is consumed only by the session the registry grants that   *)
(* lane at that moment, whatever it remembers and whatever was true when its *)
(* call began (verify, inside the transaction that consumes).                *)
OnlyHoldersConsume ==
  [][\A i \in DOMAIN to :
       acker[i] = NoReader /\ acker'[i] # NoReader /\ to[i] # Bare
         => owner[to[i]] = acker'[i]]_vars

(* A reply that says nothing remains is not mistaken: of the mail sent       *)
(* before the call, none that the caller could consume and asked for is      *)
(* unread, wherever its cursor stood (the probe and the count ignore it).    *)
DrainedMeansEmpty ==
  \A r \in Reader : call[r].at = "reply" /\ ~call[r].left =>
    \A i \in 1 .. call[r].mark : to[i] \in call[r].mine => acker[i] # NoReader

(* A reader that leaves its mail and pages while `more` is true has been      *)
(* shown all of it when `more` is false: what was there when it started,      *)
(* still unread, at a name its pages all covered (`more`, `after_id`).        *)
SweepMissesNothing ==
  \A r \in Reader : call[r].at = "reply" /\ ~call[r].consuming /\ ~call[r].more =>
    \A i \in 1 .. sweep[r].upto :
      to[i] \in Covered(r) /\ acker[i] = NoReader => i \in Shown(r)

(* A session that keeps polling, and holds every lane it remembers, is not    *)
(* pinned to one batch: all its mail is consumed in the end, though others    *)
(* read, ack, fail and lose replies (consuming what is returned).             *)
BacklogDrains ==
  \A r \in Attended, i \in Id :
    []<>~(/\ i \in DOMAIN to /\ acker[i] = NoReader
          /\ to[i] \in Mine(r) /\ Granted(r) = memory[r])
=============================================================================
