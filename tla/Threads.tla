------------------------------ MODULE Threads ------------------------------
(***************************************************************************)
(* Names that outlive the process that claimed them.  A Codex thread's     *)
(* names are bound to it (thread_names, bindings.py) and the thread's next *)
(* server claims them back, a page at a time (sessions.survey and restore, *)
(* server._restore_attempt).  A Claude conversation's names are only       *)
(* remembered (lane_hints, hints.py), as advice.  Several servers of one   *)
(* thread or conversation, and of others, run at a time; each may die.  A  *)
(* server that was asked nothing yet stands for one yet to start.          *)
(*                                                                         *)
(* All servers are of one side: codex and claude names never meet.  A      *)
(* server is followed from the call that pins it to its thread, its        *)
(* derived lane and its pending claims are in Lanes, and the seq of        *)
(* registry rows is left out.                                              *)
(***************************************************************************)
EXTENDS Integers, FiniteSets, SequencesExt, FiniteSetsExt

CONSTANTS
  Server,     \* hardline processes, none of which starts twice
  Name,       \* the names they claim
  Home,       \* Home[s]: the thread, or conversation, that server s serves
  None,       \* no binding, no hint, nothing in hand
  Page,       \* bindings a survey reads: _RESTORE_PAGE
  MaxClaims,  \* MAX_CLAIMED_LANES
  PerConversation, Rows,   \* hints kept of a conversation, and in all: hints.py
  MaxAsks     \* bound: claims, releases and dismissals asked for

ASSUME ThreadsAssumption ==
  /\ IsFiniteSet(Server) /\ IsFiniteSet(Name) /\ DOMAIN Home = Server
  /\ None \notin Server \cup Range(Home)
  /\ None \notin [thread : Range(Home), seq : Nat, writer : Server]
  /\ None \notin [conv : Range(Home), seq : Nat, writer : Server]
  /\ None \notin [what : {"record", "forget"}, name : Name]
  /\ Page \in Nat \ {0} /\ MaxClaims \in Nat \ {0} /\ MaxAsks \in Nat
  /\ PerConversation \in Nat \ {0} /\ Rows \in Nat \ {0}

VARIABLES
  side,      \* "codex" or "claude": what these servers serve
  gone,      \* the servers that have died
  row,       \* registry: the names each server's rows hold
  bind,      \* thread_names: [thread, seq, writer] of a name, or None
  hint,      \* lane_hints: [conv, seq, writer] of a name, or None; seq is the rowid
  claims,    \* _claimed_lanes of each server
  restored,  \* _restored: the claims that are restorations
  stopped,   \* the wake met a second top-level thread
  attempt,   \* a restoration between its survey and its write, or None
  cursor,    \* _restoration["cursor"], or None
  note,      \* a hint still to be written, under the claim mutex, or None
  asks,      \* claims, releases and dismissals so far
  gaveUp,    \* ghost: homes that gave a name up since it was last bound
  excused    \* ghost: names whose last hint failed, was dismissed or was crowded out

vars == <<side, gone, row, bind, hint, claims, restored, stopped, attempt, cursor,
          note, asks, gaveUp, excused>>

Binding == [thread : Range(Home), seq : Nat \ {0}, writer : Server]
Candidate == [name : Name, was : Binding]

Init ==
  /\ side \in {"codex", "claude"}
  /\ gone = {}
  /\ row = [s \in Server |-> {}]
  /\ bind = [n \in Name |-> None]
  /\ hint = [n \in Name |-> None]
  /\ claims = [s \in Server |-> <<>>]
  /\ restored = [s \in Server |-> {}]
  /\ stopped = [s \in Server |-> FALSE]
  /\ attempt = [s \in Server |-> None]
  /\ cursor = [s \in Server |-> None]
  /\ note = [s \in Server |-> None]
  /\ asks = 0
  /\ gaveUp = [n \in Name |-> {}]
  /\ excused = {}

----------------------------------------------------------------------------
(* The tables. *)

(* The claim mutex of s is free. *)
Free(s) == s \notin gone /\ attempt[s] = None /\ note[s] = None

Listed(s) == ToSet(claims[s])

Dead(t, unsure) == t \in gone \ unsure

(* The ownership rule refuses s a name: another server's row holds it that *)
(* is not known dead.  unsure: gone processes a probe cannot tell of.      *)
Refused(s, n, unsure) == \E t \in Server \ {s} : n \in row[t] /\ ~Dead(t, unsure)

(* Names bound to s's thread by s. *)
Own(b, s) == {n \in Name : b[n] # None /\ b[n].thread = Home[s] /\ b[n].writer = s}

(* Mutant: a server numbers its bindings from one. *)
NumberedFromOne(b, s, order) ==
  [n \in Name |-> IF n \in Own(b, s) /\ Contains(order, n)
                  THEN [b[n] EXCEPT !.seq = SelectInSeq(order, LAMBDA e : e = n)]
                  ELSE b[n]]

(* s's own bindings follow its order, above any other writer's. *)
Renumber(b, s, order) ==
  LET others == {n \in Name \ Own(b, s) : b[n] # None /\ b[n].thread = Home[s]}
      base == Max({b[n].seq : n \in others} \cup {0})
  IN [n \in Name |-> IF n \in Own(b, s) /\ Contains(order, n)
                     THEN [b[n] EXCEPT !.seq = base + SelectInSeq(order, LAMBDA e : e = n)]
                     ELSE b[n]]

(* Dropping what s wrote of n, or what is bound to its thread. *)
Withdraw(s, n) ==
  IF bind[n] # None /\ (bind[n].writer = s \/ bind[n].thread = Home[s])
  THEN [bind EXCEPT ![n] = None] ELSE bind

(* What a claim from a request of s's own thread, or not, binds n to. *)
Settled(s, n, attributed, order) ==
  IF side = "codex" /\ attributed /\ ~stopped[s]
  THEN Renumber([bind EXCEPT ![n] = [thread |-> Home[s], seq |-> 0, writer |-> s]], s, order)
  ELSE [bind EXCEPT ![n] = None]

(* The rows once s holds the names N too. *)
Taken(s, N) == [t \in Server |-> IF t = s THEN row[s] \cup N ELSE row[t] \ N]

----------------------------------------------------------------------------
(* Processes and what they are asked. *)

(* A server dies wherever it is; its rows, bindings and hints stay. *)
Die(s) ==
  /\ s \notin gone
  /\ gone' = gone \cup {s}
  /\ claims' = [claims EXCEPT ![s] = <<>>]
  /\ restored' = [restored EXCEPT ![s] = {}]
  /\ stopped' = [stopped EXCEPT ![s] = FALSE]
  /\ attempt' = [attempt EXCEPT ![s] = None]
  /\ cursor' = [cursor EXCEPT ![s] = None]
  /\ note' = [note EXCEPT ![s] = None]
  /\ UNCHANGED <<side, row, bind, hint, asks, gaveUp, excused>>

(* A second top-level thread calls s: nothing is attributed any more. *)
SecondThread(s) ==
  /\ side = "codex" /\ s \notin gone /\ ~stopped[s]
  /\ stopped' = [stopped EXCEPT ![s] = TRUE]
  /\ UNCHANGED <<side, gone, row, bind, hint, claims, restored, attempt, cursor, note, asks, gaveUp, excused>>

Ask == asks < MaxAsks /\ asks' = asks + 1

(* The hint a claim or a release leaves to write, of a conversation. *)
Noted(s, what, n) ==
  IF side = "claude" THEN [note EXCEPT ![s] = [what |-> what, name |-> n]] ELSE note

Claim(s, n, attributed, unsure) ==
  LET order == IF n \in Listed(s) THEN claims[s] ELSE Append(claims[s], n)
  IN /\ Free(s) /\ Ask
     /\ Len(order) <= MaxClaims
     /\ ~Refused(s, n, unsure)
     /\ row' = Taken(s, {n})
     /\ bind' = Settled(s, n, attributed, order)
     /\ claims' = [claims EXCEPT ![s] = order]
     /\ restored' = IF n \in Listed(s) THEN restored ELSE [restored EXCEPT ![s] = @ \ {n}]
     /\ note' = Noted(s, "record", n)
     /\ gaveUp' = IF bind'[n] # None THEN [gaveUp EXCEPT ![n] = {}] ELSE gaveUp
     /\ UNCHANGED <<side, gone, hint, stopped, attempt, cursor, excused>>

Release(s, n) ==
  /\ Free(s) /\ Ask
  /\ n \in Listed(s)
  /\ row' = [row EXCEPT ![s] = @ \ {n}]
  /\ bind' = Withdraw(s, n)
  /\ claims' = [claims EXCEPT ![s] = RemoveFirst(@, n)]
  /\ restored' = [restored EXCEPT ![s] = @ \ {n}]
  /\ note' = Noted(s, "forget", n)
  /\ gaveUp' = [gaveUp EXCEPT ![n] = @ \cup {Home[s]}]
  /\ UNCHANGED <<side, gone, hint, stopped, attempt, cursor, excused>>

(* release_session of a name not held here: the thread's binding goes, or *)
(* the conversation's advice, whoever wrote it.                           *)
Dismiss(s, n) ==
  /\ Free(s) /\ Ask
  /\ n \notin Listed(s)
  /\ bind' = IF bind[n] # None /\ bind[n].thread = Home[s] THEN [bind EXCEPT ![n] = None] ELSE bind
  /\ hint' = IF hint[n] # None /\ hint[n].conv = Home[s] THEN [hint EXCEPT ![n] = None] ELSE hint
  /\ <<bind, hint>>' # <<bind, hint>>
  /\ gaveUp' = [gaveUp EXCEPT ![n] = @ \cup {Home[s]}]
  /\ excused' = IF hint' # hint THEN excused \cup {n} ELSE excused
  /\ UNCHANGED <<side, gone, row, claims, restored, stopped, attempt, cursor, note>>

----------------------------------------------------------------------------
(* Hints, in a transaction of their own after the claim's or the release's. *)

(* Mutant: a release drops the conversation's hint, whoever wrote it. *)
AnyHint(s, n) == hint[n] # None /\ hint[n].conv = Home[s]

(* The hint that a release drops: the one its own grant wrote. *)
OwnHint(s, n) == hint[n] # None /\ hint[n].conv = Home[s] /\ hint[n].writer = s

Hinted(h) == {n \in Name : h[n] # None}
Of(h, c) == {n \in Hinted(h) : h[n].conv = c}

(* The hints without those of the names N that K newer ones are among. *)
KeepNewest(h, N, K) ==
  [n \in Name |-> IF n \in N /\ Cardinality({m \in N : h[m].seq > h[n].seq}) >= K
                  THEN None ELSE h[n]]

(* A grant's hint replaces the name's last one, and crowds out the oldest of *)
(* the conversation's, and of all, beyond what is kept.                      *)
Recorded(s, n) ==
  LET last == Max({hint[m].seq : m \in Hinted(hint) \ {n}} \cup {0})
      new == [hint EXCEPT ![n] = [conv |-> Home[s], seq |-> last + 1, writer |-> s]]
      own == KeepNewest(new, Of(new, Home[s]), PerConversation)
  IN KeepNewest(own, Hinted(own), Rows)

WriteHint(s) ==
  /\ note[s] # None
  /\ note' = [note EXCEPT ![s] = None]
  /\ LET n == note[s].name
     IN \/ /\ note[s].what = "record"
           /\ hint' = Recorded(s, n)
           /\ excused' = (excused \ {n}) \cup (Hinted(hint) \ Hinted(hint'))
        \/ /\ note[s].what = "forget"
           /\ hint' = IF OwnHint(s, n) THEN [hint EXCEPT ![n] = None] ELSE hint
           /\ UNCHANGED excused
        \/ excused' = excused \cup {n} /\ UNCHANGED hint   \* best effort: it fails
  /\ UNCHANGED <<side, gone, row, bind, claims, restored, stopped, attempt, cursor, asks, gaveUp>>

----------------------------------------------------------------------------
(* Restoration: a page surveyed without the writer, then one transaction. *)

Serving(s) == side = "codex" /\ s \notin gone /\ ~stopped[s]

(* The thread's bindings below the cursor, newest first. *)
Below(s) ==
  {n \in Name : /\ bind[n] # None /\ bind[n].thread = Home[s]
                /\ cursor[s] = None \/ bind[n].seq < cursor[s]}
Paged(s) ==
  LET all == Below(s)
  IN {n \in all : Cardinality({m \in all : bind[m].seq > bind[n].seq}) < Page}

(* A binding of the page is claimed back unless it is held here, its writer *)
(* may live, or the ownership rule refuses it.                              *)
Due(s, n, unsure) ==
  /\ ~(bind[n].writer = s /\ n \in Listed(s))
  /\ bind[n].writer = s \/ Dead(bind[n].writer, unsure)
  /\ ~Refused(s, n, unsure)

(* Mutant: a sweep never starts over. *)
CursorKept(page) == IF page = {} THEN 1 ELSE Min({bind[n].seq : n \in page})

(* A short page ends the sweep. *)
NextCursor(page) ==
  IF Cardinality(page) < Page THEN None ELSE Min({bind[n].seq : n \in page})

Survey(s, unsure) ==
  /\ Free(s) /\ Serving(s)
  /\ LET page == Paged(s)
         due == {n \in page : Due(s, n, unsure)}
     IN IF due = {}
        THEN cursor' = [cursor EXCEPT ![s] = NextCursor(page)] /\ UNCHANGED attempt
        ELSE /\ attempt' = [attempt EXCEPT ![s] =
                   [due |-> {[name |-> n, was |-> bind[n]] : n \in due},
                    cursor |-> NextCursor(page)]]
             /\ UNCHANGED cursor
  /\ UNCHANGED <<side, gone, row, bind, hint, claims, restored, stopped, note, asks, gaveUp, excused>>

(* Mutant: the write trusts its survey. *)
DueAsSurveyed(s, c, unsure) == bind[c.name] # None

(* In the write, a candidate is judged again. *)
StillDue(s, c, unsure) ==
  /\ bind[c.name] = c.was
  /\ c.was.writer = s \/ Dead(c.was.writer, unsure)
  /\ ~Refused(s, c.name, unsure)

(* Mutant: restored names do not count. *)
AcceptedAll(s, due, unsure) == {c.name : c \in {d \in due : StillDue(s, d, unsure)}}

(* The candidates accepted: those listed here, and the newest of the others *)
(* while there is room.                                                     *)
Accepted(s, due, unsure) ==
  LET still == {c \in due : StillDue(s, c, unsure)}
      Newer(c) == {d \in still : d.name \notin Listed(s) /\ d.was.seq > c.was.seq}
  IN {c.name : c \in {d \in still : \/ d.name \in Listed(s)
                                   \/ Len(claims[s]) + Cardinality(Newer(d)) < MaxClaims}}

(* Mutant: a restored name goes to the front. *)
PlaceFirst(b, s, list, back, n) == <<n>> \o list

(* Where a restored name goes: before the first restored name bound after  *)
(* it, or before the first explicit claim.                                 *)
Place(b, s, list, back, n) ==
  LET After(e) == \/ e \in back /\ e \in Own(b, s) /\ b[e].seq > b[n].seq
                  \/ e \notin back
      at == SelectInSeq(list, After)
  IN IF at = 0 THEN Append(list, n) ELSE InsertAt(list, at, n)

(* The oldest binding left goes to its place. *)
Insert(b, s, acc) ==
  LET n == CHOOSE n \in acc.left : \A m \in acc.left : b[n].seq <= b[m].seq
  IN [list |-> Place(b, s, acc.list, acc.back, n),
      back |-> acc.back \cup {n},
      left |-> acc.left \ {n}]

(* The list with the new names N, once each has gone to its place. *)
WithRestored(b, s, N) ==
  LET after[i \in 0..Cardinality(N)] ==
        IF i = 0 THEN [list |-> claims[s], back |-> restored[s], left |-> N]
                 ELSE Insert(b, s, after[i - 1])
  IN after[Cardinality(N)]

(* One transaction writes the rows of what it takes back, and the bindings   *)
(* under their new writer, numbered as s will answer to them.                *)
Commit(s, due, unsure) ==
  LET names == Accepted(s, due, unsure)
      mine == [n \in Name |-> IF n \in names THEN [bind[n] EXCEPT !.writer = s] ELSE bind[n]]
      left == WithRestored(mine, s, names \ Listed(s))
  IN /\ row' = Taken(s, names)
     /\ bind' = IF names = {} THEN bind ELSE Renumber(mine, s, left.list)
     /\ claims' = [claims EXCEPT ![s] = left.list]
     /\ restored' = [restored EXCEPT ![s] = left.back]

Restore(s, unsure) ==
  /\ attempt[s] # None /\ Serving(s)
  /\ Commit(s, attempt[s].due, unsure)
  /\ attempt' = [attempt EXCEPT ![s] = None]
  /\ cursor' = [cursor EXCEPT ![s] = attempt[s].cursor]
  /\ UNCHANGED <<side, gone, hint, stopped, note, asks, gaveUp, excused>>

(* The wake stopped in between: nothing is written, nor published. *)
Abandon(s) ==
  /\ attempt[s] # None /\ stopped[s]
  /\ attempt' = [attempt EXCEPT ![s] = None]
  /\ UNCHANGED <<side, gone, row, bind, hint, claims, restored, stopped, cursor, note, asks, gaveUp, excused>>

----------------------------------------------------------------------------
Next ==
  \E s \in Server :
    \/ Die(s) \/ SecondThread(s) \/ WriteHint(s) \/ Abandon(s)
    \/ \E n \in Name : Release(s, n) \/ Dismiss(s, n)
    \/ \E n \in Name, attributed \in BOOLEAN, unsure \in SUBSET gone : Claim(s, n, attributed, unsure)
    \/ \E unsure \in SUBSET gone : Survey(s, unsure) \/ Restore(s, unsure)

Spec == Init /\ [][Next]_vars

(* The wake polls on, and a server that found names to claim back finishes. *)
(* A process that is gone is known to be some time: in a survey, in one that *)
(* has it for a candidate's writer, and in the write.                       *)
Finds(s) == Survey(s, {}) /\ attempt' # attempt

FairSpec ==
  /\ Spec
  /\ \A s \in Server : WF_vars(Survey(s, {})) /\ SF_vars(Finds(s)) /\ SF_vars(Restore(s, {}))

----------------------------------------------------------------------------
(* Every variable keeps to its domain, a server's list holds a name once and *)
(* no more names than it may, and a live server's rows are the names of its   *)
(* list.                                                                     *)
TypeOK ==
  /\ side \in {"codex", "claude"}
  /\ gone \subseteq Server
  /\ row \in [Server -> SUBSET Name]
  /\ bind \in [Name -> Binding \cup {None}]
  /\ hint \in [Name -> [conv : Range(Home), seq : Nat, writer : Server] \cup {None}]
  /\ claims \in [Server -> Seq(Name)]
  /\ restored \in [Server -> SUBSET Name]
  /\ stopped \in [Server -> BOOLEAN]
  /\ attempt \in [Server -> [due : SUBSET Candidate, cursor : Nat \cup {None}] \cup {None}]
  /\ cursor \in [Server -> Nat \cup {None}]
  /\ note \in [Server -> [what : {"record", "forget"}, name : Name] \cup {None}]
  /\ asks \in 0..MaxAsks
  /\ gaveUp \in [Name -> SUBSET Range(Home)] /\ excused \subseteq Name
  /\ \A s \in Server :
       /\ Len(claims[s]) <= MaxClaims /\ IsInjective(claims[s])
       /\ restored[s] \subseteq Listed(s)
       /\ s \notin gone => Listed(s) = row[s]

(* A thread's bindings are numbered in the order in which the server that   *)
(* wrote them answers to the names, and no two alike: the next server takes *)
(* them back in that order, and a page misses none.  In a server's list the *)
(* names it was given back precede those it claimed itself                  *)
(* (bindings.renumber, adapters._with_restored).                            *)
OrderKept ==
  /\ \A s \in Server \ gone :
       \A i, j \in DOMAIN claims[s] :
         i < j =>
           /\ {claims[s][i], claims[s][j]} \subseteq Own(bind, s) =>
                bind[claims[s][i]].seq < bind[claims[s][j]].seq
           /\ claims[s][j] \in restored[s] => claims[s][i] \in restored[s]
  /\ \A m, n \in Name :
       m # n /\ bind[m] # None /\ bind[n] # None /\ bind[m].thread = bind[n].thread =>
         bind[m].seq # bind[n].seq

(* Once a server's hint is written, the advice on its names is its own, and *)
(* a name it gave up is not advised on its account, whatever hint another   *)
(* window of the conversation wrote or dropped meanwhile; excused is a name *)
(* whose hint newer ones have crowded out, for no more are kept of a        *)
(* conversation, and of all, than the caps (hints.record, forget).          *)
Advises(s, n) == hint[n] # None /\ hint[n].conv = Home[s] /\ hint[n].writer = s

AdviceHolds ==
  side = "claude" =>
    /\ \A s \in Server \ gone, n \in Name \ excused :
         note[s] = None => (n \in Listed(s) <=> Advises(s, n))
    /\ \A s \in Server : Cardinality(Of(hint, Home[s])) <= PerConversation
    /\ Cardinality(Hinted(hint)) <= Rows

(* A restoration takes only names bound to the server's own thread, by a    *)
(* process that is gone or by itself, that the thread has not given up      *)
(* since, that no live server holds, and not once a second thread has       *)
(* called: whatever was surveyed before (sessions.restore, _restore_one).   *)
OnlyOwnNamesRestored ==
  [][\A s \in Server : \A n \in restored'[s] \ restored[s] :
       /\ ~stopped[s]
       /\ bind[n].thread = Home[s] /\ Home[s] \notin gaveUp[n]
       /\ bind[n].writer = s \/ bind[n].writer \in gone
       /\ \A t \in Server \ (gone \cup {s}) : n \notin Listed(t)]_vars

(* Restored names take their places in the order of their bindings, those  *)
(* restored in an earlier page or sweep and still bound included: the list  *)
(* of the last server comes back as it was (adapters._with_restored).       *)
RestoredInOrder ==
  [][\A s \in Server : LET new == restored'[s] \ restored[s]
                       known == restored'[s] \cap (Own(bind, s) \cup new)
     IN new # {} =>
          \A i, j \in DOMAIN claims'[s] :
            i < j /\ {claims'[s][i], claims'[s][j]} \subseteq known =>
              bind[claims'[s][i]].seq < bind[claims'[s][j]].seq]_vars

(* Names of a thread whose writer is gone come back to a server of that     *)
(* thread, all of them, while it has room and nothing stops it, unless some *)
(* other server takes them (server._restore_pending, _publish_sweep).       *)
Lost(s, n) ==
  /\ Serving(s) /\ n \notin Listed(s) /\ Len(claims[s]) < MaxClaims
  /\ bind[n] # None
  /\ bind[n].thread = Home[s] /\ bind[n].writer \in gone
  /\ \A t \in Server \ gone : n \notin row[t]

NamesComeBack == []<>(\A s \in Server, n \in Name : ~Lost(s, n))
=============================================================================
