------------------------------- MODULE Lanes -------------------------------
(***************************************************************************)
(* Who holds which name: the session registry (sessions.py), one row per   *)
(* process and lane in the shared store, under the servers that announce,  *)
(* claim, await, release and prune (server.py, adapters.py).               *)
(*                                                                         *)
(* A server is a process instance; instances may share a pid, one after    *)
(* another.  Its threads meet at two locks: `_claim_mutex`, held by an     *)
(* explicit claim, a fulfilment or a release, and `_identity_lock`, held   *)
(* by whatever reads the names it holds and then writes or relies on them. *)
(* Between two servers nothing but the store orders them, one transaction  *)
(* at a time.                                                              *)
(*                                                                         *)
(* A probe of a process or of its launching host may go unanswered:        *)
(* `unsure` is the set of servers whose probe did, chosen anew each time.  *)
(***************************************************************************)
EXTENDS Naturals, SequencesExt

CONSTANTS
  Server, Name,
  NoName,     \* no lane
  Pid,        \* Pid[s]: s's pid
  Own,        \* Own[s]: the lane s derives from its environment, or NoName
  Durable,    \* servers whose derived lane a relaunch would derive again
  Orphan,     \* bound: servers whose host may die before them
  Attended,   \* servers whose scheduling is assumed fair
  MaxClaims,  \* MAX_CLAIMED_LANES
  MaxAsks,    \* bound: explicit register_session calls, by anyone
  MaxOwed     \* bound: unfinished jobs at once

ASSUME NameAssumption == NoName \notin Name /\ IsFiniteSet(Name)
ASSUME OwnAssumption == Own \in [Server -> Name \cup {NoName}]
ASSUME BoundAssumption == {MaxClaims, MaxAsks, MaxOwed} \subseteq Nat

VARIABLES
  up,       \* up[s]: not started, running or gone
  host,     \* host[s]: the process that launched s runs
  row,      \* row[s][n]: the seq of s's registry row for n; 0 for no row
  owed,     \* <<s, n>>: s owns an unfinished job whose requester is n
  claims,   \* claims[s]: the names s claimed, oldest first (_claimed_lanes)
  pending,  \* pending[s][n]: s's waiting claim of n, told apart by number; 0 for none
  failed,   \* failed[s]: _registration_failure is set
  ilock,    \* ilock[s]: what holds s's identity lock
  snap,     \* snap[s]: the recipients an announcement read under it
  to,       \* to[s]: the lane an admission chose under it
  claim,    \* claim[s]: what holds s's claim mutex
  seen,     \* seen[s]: the waiting claim a fulfilment read before the mutex
  wanted,   \* wanted[s]: the names s's session asked for and did not give up
  asks,     \* explicit calls so far
  doomed    \* rows a reader judged dead and is about to prune

world == <<up, host>>
store == <<row, owed, doomed>>
names == <<claims, pending, wanted>>   \* moved by the holder of the claim mutex
told == <<failed, snap, to>>           \* moved by the holder of the identity lock
vars == <<world, store, names, told, ilock, claim, seen, asks>>

Up(s) == up[s] = "up"
Live(s) == Up(s) /\ host[s]

NoClaim == [at |-> "free", name |-> NoName, rec |-> 0, wait |-> FALSE]
NoRecord == [name |-> NoName, rec |-> 0]

Init ==
  /\ up = [s \in Server |-> "unborn"]
  /\ host = [s \in Server |-> TRUE]
  /\ row = [s \in Server |-> [n \in Name |-> 0]]
  /\ owed = {}
  /\ claims = [s \in Server |-> <<>>]
  /\ pending = [s \in Server |-> [n \in Name |-> 0]]
  /\ failed = [s \in Server |-> FALSE]
  /\ ilock = [s \in Server |-> "free"]
  /\ snap = [s \in Server |-> <<>>]
  /\ to = [s \in Server |-> NoName]
  /\ claim = [s \in Server |-> NoClaim]
  /\ seen = [s \in Server |-> NoRecord]
  /\ wanted = [s \in Server |-> {}]
  /\ asks = 0
  /\ doomed = {}

----------------------------------------------------------------------------
(* The ownership rule. *)

(* Who may go unanswered: alive or unknown, a live server is not DEAD.       *)
Doubts == SUBSET {s \in Server : up[s] # "unborn" /\ ~Live(s)}

(* The owner of a job may still deliver: DEAD is the only answer that lets go. *)
MayRun(s, unsure) == Up(s) \/ s \in unsure

(* A row may still be a destination: its process and its host both. *)
MayLive(s, unsure) == MayRun(s, unsure) /\ (host[s] \/ s \in unsure)

(* Mutant: the work still owed to a name is not looked for.                  *)
HeldOnly(s, n, unsure) ==
  \E t \in Server : Pid[t] # Pid[s] /\ row[t][n] # 0 /\ MayLive(t, unsure)

(* A live row of another process, or unfinished work of one, keeps n. *)
Refused(s, n, unsure) ==
  \E t \in Server :
    /\ Pid[t] # Pid[s]
    /\ \/ row[t][n] # 0 /\ MayLive(t, unsure)
       \/ <<t, n>> \in owed /\ MayRun(t, unsure)

Granted(s, n, unsure) ==
  ~Refused(s, n, unsure) /\ row[s][n] # 0 /\ MayLive(s, unsure)

Place(order, n) == CHOOSE i \in DOMAIN order : order[i] = n

(* Mutant: rows a registration does not grant keep their old place.         *)
PlaceKept(s, order) == row

Rerank(s, order) ==
  [row EXCEPT ![s] = [n \in Name |->
     IF @[n] # 0 /\ n \in ToSet(order) THEN Place(order, n) ELSE @[n]]]

(* A row of s is made, or given the place it is written with; one that is    *)
(* not accepted keeps to its rank.                                           *)
Upserted(s, order, accepted) ==
  LET kept == Rerank(s, order)[s]
  IN [n \in Name |-> IF n \in accepted THEN Place(order, n) ELSE kept[n]]

(* The rows once s is granted `accepted` of the lanes in order: they are its *)
(* own, a predecessor under its pid is gone, and what it holds is ranked.    *)
Acquired(s, order, accepted) ==
  LET mine == Upserted(s, order, accepted)
      Lost(t, n) == n \in accepted \/ (accepted # {} /\ Pid[t] = Pid[s])
  IN [t \in Server |->
        IF t = s THEN mine ELSE [n \in Name |-> IF Lost(t, n) THEN 0 ELSE row[t][n]]]

----------------------------------------------------------------------------
(* What a server answers to. *)

Ordered(s, list) ==
  IF Own[s] = NoName \/ Own[s] \in ToSet(list) THEN list ELSE <<Own[s]>> \o list

Held(s) == Ordered(s, claims[s])

(* Held lanes as they will stand once n is a claim. *)
ClaimOrder(s, n) ==
  IF n \in ToSet(claims[s]) THEN Held(s) ELSE Ordered(s, Append(claims[s], n))

Waiting(s) == {n \in Name : pending[s][n] # 0}

(* Mutant: a waiting claim does not count.                                  *)
CapacityOfClaims(s, n) ==
  n \in ToSet(claims[s]) \/ Len(claims[s]) < MaxClaims

HasCapacity(s, n) ==
  LET taken == ToSet(claims[s]) \cup Waiting(s)
  IN  n \in taken \/ Cardinality(taken) < MaxClaims


----------------------------------------------------------------------------
(* Announcing: at start, by a heartbeat, a wake cycle or a consuming read.  *)

LockIdentity(s, holder) ==
  /\ ilock[s] = "free"
  /\ ilock' = [ilock EXCEPT ![s] = holder]
  /\ snap' = [snap EXCEPT ![s] = Held(s)]

UnlockIdentity(s) ==
  /\ ilock' = [ilock EXCEPT ![s] = "free"]
  /\ snap' = [snap EXCEPT ![s] = <<>>]

Start(s) ==
  /\ up[s] = "unborn"
  /\ \A t \in Server : Pid[t] = Pid[s] => ~Up(t)
  /\ up' = [up EXCEPT ![s] = "up"]
  /\ LockIdentity(s, "beat")
  /\ UNCHANGED <<host, store, names, failed, to, claim, seen, asks>>

Beat(s) ==
  /\ Up(s)
  /\ LockIdentity(s, "beat")
  /\ UNCHANGED <<world, store, names, failed, to, claim, seen, asks>>

(* A retry of the wake cycle: only while the last announcement failed. *)
Regain(s) == failed[s] /\ Beat(s)

HostGone(s, unsure) == ~host[s] /\ s \notin unsure

Allowed(s, order, unsure) ==
  IF HostGone(s, unsure) THEN {}
  ELSE {n \in ToSet(order) : ~Refused(s, n, unsure)}

(* Mutant: a contested lane is not counted as a failure.                    *)
RegisterSilently(s, order, unsure) ==
  /\ row' = IF HostGone(s, unsure) THEN row
            ELSE Acquired(s, order, Allowed(s, order, unsure))
  /\ failed' = [failed EXCEPT ![s] = FALSE]
  /\ UNCHANGED <<owed, doomed>>

(* One transaction registers what it can of the lanes in order. *)
Register(s, order, unsure) ==
  /\ row' = IF HostGone(s, unsure) THEN row
            ELSE Acquired(s, order, Allowed(s, order, unsure))
  /\ failed' = [failed EXCEPT ![s] = Allowed(s, order, unsure) # ToSet(order)]
  /\ UNCHANGED <<owed, doomed>>

(* The store refused the transaction, or a consuming read found a grant      *)
(* missing: said, and tried again.                                           *)
RegisterFails(s) ==
  /\ failed' = [failed EXCEPT ![s] = TRUE]
  /\ UNCHANGED store

(* An announcement that follows a claim gives the claim mutex back too. *)
Announced(s) ==
  /\ ilock[s] \in {"beat", "claim"}
  /\ UnlockIdentity(s)
  /\ claim' = IF ilock[s] = "claim" THEN [claim EXCEPT ![s] = NoClaim] ELSE claim
  /\ UNCHANGED <<world, names, to, seen, asks>>

Announce(s, unsure) == Announced(s) /\ Register(s, snap[s], unsure)

AnnounceFails(s) == Announced(s) /\ RegisterFails(s)

----------------------------------------------------------------------------
(* Claiming, at once or in time. *)

(* register_session(label=n, wait=w), past its local checks. *)
Ask(s, n, w) ==
  /\ Up(s) /\ claim[s] = NoClaim
  /\ asks < MaxAsks
  /\ HasCapacity(s, n)
  /\ asks' = asks + 1
  /\ claim' = [claim EXCEPT ![s] = [at |-> "claim", name |-> n, rec |-> asks', wait |-> w]]
  /\ wanted' = [wanted EXCEPT ![s] = @ \cup {n}]
  /\ UNCHANGED <<world, store, claims, pending, told, ilock, seen>>

(* The wake cycle reads what waits, then goes for the mutex without blocking. *)
FulfilRead(s, n) ==
  /\ Up(s) /\ seen[s] = NoRecord
  /\ pending[s][n] # 0
  /\ seen' = [seen EXCEPT ![s] = [name |-> n, rec |-> pending[s][n]]]
  /\ UNCHANGED <<world, store, names, told, ilock, claim, asks>>

(* Mutants: the record read before the mutex is not checked again; no record *)
(* is ever the one read.                                                     *)
AnyRecord(s) == TRUE
NoSameRecord(s) == pending[s][seen[s].name] > seen[s].rec

SameRecord(s) == pending[s][seen[s].name] = seen[s].rec

Fulfil(s) ==
  /\ seen[s] # NoRecord /\ claim[s] = NoClaim
  /\ SameRecord(s)
  /\ claim' = [claim EXCEPT ![s] =
                 [at |-> "claim", name |-> seen[s].name, rec |-> seen[s].rec, wait |-> FALSE]]
  /\ seen' = [seen EXCEPT ![s] = NoRecord]
  /\ UNCHANGED <<world, store, names, told, ilock, asks>>

FulfilSkip(s) ==
  /\ seen[s] # NoRecord
  /\ claim[s] # NoClaim \/ ~SameRecord(s)
  /\ seen' = [seen EXCEPT ![s] = NoRecord]
  /\ UNCHANGED <<world, store, names, told, ilock, claim, asks>>

(* One transaction takes the name and every lane held, or changes nothing. *)
ClaimGranted(s, unsure) ==
  LET order == ClaimOrder(s, claim[s].name)
  IN  /\ claim[s].at = "claim"
      /\ Allowed(s, order, unsure) = ToSet(order)
      /\ row' = Acquired(s, order, ToSet(order))
      /\ claim' = [claim EXCEPT ![s].at = "adopt"]
      /\ UNCHANGED <<world, owed, doomed, names, told, ilock, seen, asks>>

(* Only a holder or owed work can be waited out, not a host that is gone.  *)
ClaimRefused(s, unsure) ==
  LET n == claim[s].name
      known == n \in ToSet(claims[s])
      waits == claim[s].wait /\ ~HostGone(s, unsure) /\ ~known
  IN  /\ claim[s].at = "claim"
      /\ Allowed(s, ClaimOrder(s, n), unsure) # ToSet(ClaimOrder(s, n))
      /\ claim' = [claim EXCEPT ![s] = NoClaim]
      /\ pending' = IF waits THEN [pending EXCEPT ![s][n] = claim[s].rec] ELSE pending
      /\ wanted' = IF waits \/ known \/ n \in Waiting(s) THEN wanted
                    ELSE [wanted EXCEPT ![s] = @ \ {n}]
      /\ UNCHANGED <<world, store, claims, told, ilock, seen, asks>>

(* The name is this server's own from here on, whole to whoever reads it   *)
(* under the identity lock.                                                 *)
Adopt(s) ==
  LET n == claim[s].name
  IN  /\ claim[s].at = "adopt" /\ ilock[s] = "free"
      /\ claims' = IF n \in ToSet(claims[s]) THEN claims
                   ELSE [claims EXCEPT ![s] = Append(@, n)]
      /\ pending' = [pending EXCEPT ![s][n] = 0]
      /\ claim' = [claim EXCEPT ![s].at = "announce"]
      /\ UNCHANGED <<world, store, wanted, told, ilock, seen, asks>>

AnnounceClaim(s) ==
  /\ claim[s].at = "announce"
  /\ LockIdentity(s, "claim")
  /\ UNCHANGED <<world, store, names, failed, to, claim, seen, asks>>

----------------------------------------------------------------------------
(* release_session, whole under the claim mutex. *)

Cancel(s, n) ==
  /\ claim[s] = NoClaim /\ pending[s][n] # 0
  /\ pending' = [pending EXCEPT ![s][n] = 0]
  /\ wanted' = [wanted EXCEPT ![s] = @ \ {n}]
  /\ UNCHANGED <<world, store, claims, told, ilock, claim, seen, asks>>

(* Durable first: the row goes, or drops to the derived lane's place.  A    *)
(* derived lane that was not claimed cannot be released.                    *)
ReleaseDrop(s, n) ==
  /\ claim[s] = NoClaim /\ n \in ToSet(claims[s]) /\ pending[s][n] = 0
  /\ LockIdentity(s, "release")
  /\ claim' = [claim EXCEPT ![s] = [at |-> "release", name |-> n, rec |-> 0, wait |-> FALSE]]
  /\ row' = IF n = Own[s]
            THEN Rerank(s, Ordered(s, RemoveFirst(claims[s], n)))
            ELSE [t \in Server |-> IF Pid[t] = Pid[s] THEN [row[t] EXCEPT ![n] = 0] ELSE row[t]]
  /\ wanted' = [wanted EXCEPT ![s] = @ \ {n}]
  /\ UNCHANGED <<world, owed, doomed, claims, pending, failed, to, seen, asks>>

ReleaseForget(s) ==
  /\ ilock[s] = "release"
  /\ UnlockIdentity(s)
  /\ claims' = [claims EXCEPT ![s] = RemoveFirst(@, claim[s].name)]
  /\ claim' = [claim EXCEPT ![s] = NoClaim]
  /\ UNCHANGED <<world, store, pending, wanted, failed, to, seen, asks>>

----------------------------------------------------------------------------
(* Where a result goes: chosen, checked and recorded under one hold of the  *)
(* identity lock.                                                           *)

ResultLane(s, unsure) ==
  IF s \in Durable /\ Own[s] \in Name /\ Granted(s, Own[s], unsure)
  THEN Own[s] ELSE Last(Held(s))

Choose(s, lane) ==
  /\ Up(s) /\ Held(s) # <<>>
  /\ Cardinality(owed) < MaxOwed
  /\ \E unsure \in Doubts : lane = ResultLane(s, unsure)
  /\ to' = [to EXCEPT ![s] = lane]

AdmitGranted(s, lane, unsure) ==
  /\ LockIdentity(s, "create")
  /\ Choose(s, lane)
  /\ Granted(s, lane, unsure)
  /\ UNCHANGED <<world, store, names, failed, claim, seen, asks>>

(* A grant may be missing with nobody else holding the lane: announce, once. *)
AdmitRepair(s, lane, unsure) ==
  /\ LockIdentity(s, "recheck")
  /\ Choose(s, lane)
  /\ \E judged \in Doubts : ~Granted(s, lane, judged)
  /\ Register(s, Held(s), unsure) \/ RegisterFails(s)
  /\ UNCHANGED <<world, names, claim, seen, asks>>

AdmitRepaired(s, unsure) ==
  /\ ilock[s] = "recheck"
  /\ Granted(s, to[s], unsure)
  /\ ilock' = [ilock EXCEPT ![s] = "create"]
  /\ UNCHANGED <<world, store, names, told, claim, seen, asks>>

AdmitRefuse(s, unsure) ==
  /\ ilock[s] = "recheck"
  /\ ~Granted(s, to[s], unsure)
  /\ UnlockIdentity(s)
  /\ to' = [to EXCEPT ![s] = NoName]
  /\ UNCHANGED <<world, store, names, failed, claim, seen, asks>>

AdmitCreate(s) ==
  /\ ilock[s] = "create"
  /\ UnlockIdentity(s)
  /\ owed' = owed \cup {<<s, to[s]>>}
  /\ to' = [to EXCEPT ![s] = NoName]
  /\ UNCHANGED <<world, row, doomed, names, failed, claim, seen, asks>>

(* The job ends, or a reader finds its owner dead. *)
Settle(s, n) ==
  /\ <<s, n>> \in owed
  /\ owed' = owed \ {<<s, n>>}
  /\ UNCHANGED <<world, row, doomed, names, told, ilock, claim, seen, asks>>

----------------------------------------------------------------------------
(* Pruning, by any reader: judged outside a transaction, deleted by exact    *)
(* instance.                                                                 *)

DeadRows(unsure) ==
  {r \in Server \X Name : row[r[1]][r[2]] # 0 /\ ~MayLive(r[1], unsure)}

PruneRead(unsure) ==
  /\ doomed = {} /\ DeadRows(unsure) # {}
  /\ doomed' = DeadRows(unsure)
  /\ UNCHANGED <<world, row, owed, names, told, ilock, claim, seen, asks>>

(* Mutant: rows are deleted by pid and lane alone.                          *)
PrunedByPid(s, n) == \E t \in Server : Pid[t] = Pid[s] /\ <<t, n>> \in doomed

Pruned(s, n) == <<s, n>> \in doomed

PruneDelete ==
  /\ doomed # {}
  /\ row' = [s \in Server |-> [n \in Name |-> IF Pruned(s, n) THEN 0 ELSE row[s][n]]]
  /\ doomed' = {}
  /\ UNCHANGED <<world, owed, names, told, ilock, claim, seen, asks>>

----------------------------------------------------------------------------
(* Deaths. *)

(* What a process knew goes with it. *)
Gone(s) ==
  /\ Up(s)
  /\ up' = [up EXCEPT ![s] = "gone"]
  /\ claims' = [claims EXCEPT ![s] = <<>>]
  /\ pending' = [pending EXCEPT ![s] = [n \in Name |-> 0]]
  /\ wanted' = [wanted EXCEPT ![s] = {}]
  /\ failed' = [failed EXCEPT ![s] = FALSE]
  /\ snap' = [snap EXCEPT ![s] = <<>>]
  /\ to' = [to EXCEPT ![s] = NoName]
  /\ ilock' = [ilock EXCEPT ![s] = "free"]
  /\ claim' = [claim EXCEPT ![s] = NoClaim]
  /\ seen' = [seen EXCEPT ![s] = NoRecord]
  /\ UNCHANGED <<host, owed, doomed, asks>>

Die(s) == Gone(s) /\ UNCHANGED row

(* A clean exit takes its rows away, by pid. *)
Unregister(s) ==
  /\ Gone(s)
  /\ row' = [t \in Server |-> IF Pid[t] = Pid[s] THEN [n \in Name |-> 0] ELSE row[t]]

HostDies(s) ==
  /\ Live(s) /\ s \in Orphan
  /\ host' = [host EXCEPT ![s] = FALSE]
  /\ UNCHANGED <<up, store, names, told, ilock, claim, seen, asks>>

----------------------------------------------------------------------------
Step(s, unsure) ==
  \/ Announce(s, unsure)
  \/ ClaimGranted(s, unsure) \/ ClaimRefused(s, unsure)
  \/ \E lane \in Name : AdmitGranted(s, lane, unsure) \/ AdmitRepair(s, lane, unsure)
  \/ AdmitRepaired(s, unsure) \/ AdmitRefuse(s, unsure)

Server_(s) ==
  \/ Start(s) \/ Beat(s) \/ AnnounceFails(s)
  \/ \E n \in Name : \/ \E w \in BOOLEAN : Ask(s, n, w)
                     \/ FulfilRead(s, n) \/ Cancel(s, n) \/ ReleaseDrop(s, n) \/ Settle(s, n)
  \/ Fulfil(s) \/ FulfilSkip(s) \/ Adopt(s) \/ AnnounceClaim(s) \/ ReleaseForget(s)
  \/ AdmitCreate(s)
  \/ Die(s) \/ Unregister(s) \/ HostDies(s)

Next ==
  \/ \E s \in Server : Server_(s) \/ (Up(s) /\ \E unsure \in Doubts : Step(s, unsure))
  \/ \E unsure \in Doubts : PruneRead(unsure)
  \/ PruneDelete

Spec == Init /\ [][Next]_vars

(* What the scheduling of an attended server is relied on for, whatever the  *)
(* others do.  Its threads go on; a lock that is free again and again is got *)
(* some time; a store and probes that can answer do so some time.  The wake  *)
(* cycle retries; nothing obliges a heartbeat or a tool call.                *)
Proceed(s) ==
  \/ AnnounceFails(s) \/ \E unsure \in Doubts : ClaimRefused(s, unsure)
  \/ FulfilSkip(s) \/ ReleaseForget(s)
  \/ AdmitCreate(s) \/ AdmitRefuse(s, {}) \/ AdmitRepaired(s, {})

Fairness(s) ==
  /\ WF_vars(Proceed(s))
  /\ SF_vars(Announce(s, {}))
  /\ SF_vars(Regain(s))
  /\ SF_vars(\E n \in Name : FulfilRead(s, n))
  /\ SF_vars(Fulfil(s))
  /\ SF_vars(ClaimGranted(s, {}) \/ Adopt(s) \/ AnnounceClaim(s))

FairSpec == Spec /\ \A s \in Attended : Fairness(s)

----------------------------------------------------------------------------
TypeOK ==
  /\ up \in [Server -> {"unborn", "up", "gone"}]
  /\ host \in [Server -> BOOLEAN]
  /\ row \in [Server -> [Name -> Nat]]
  /\ owed \subseteq Server \X Name
  /\ \A s \in Server : claims[s] \in Seq(Name) /\ IsInjective(claims[s])
  /\ pending \in [Server -> [Name -> 0 .. MaxAsks]]
  /\ failed \in [Server -> BOOLEAN]
  /\ ilock \in [Server -> {"free", "beat", "claim", "release", "recheck", "create"}]
  /\ \A s \in Server : snap[s] \in Seq(Name)
  /\ to \in [Server -> Name \cup {NoName}]
  /\ claim \in [Server -> [at : {"free", "claim", "adopt", "announce", "release"},
                           name : Name \cup {NoName}, rec : 0 .. MaxAsks, wait : BOOLEAN]]
  /\ seen \in [Server -> [name : Name \cup {NoName}, rec : 0 .. MaxAsks]]
  /\ wanted \in [Server -> SUBSET Name]
  /\ asks \in 0 .. MaxAsks
  /\ doomed \subseteq Server \X Name

Promise == INSTANCE NamePromise WITH
  live <- {s \in Server : Live(s)},
  holds <- {r \in Server \X Name : row[r[1]][r[2]] # 0}

(* A name passes only from a session that gave it up or is gone, whole with  *)
(* every other name its taker holds, and not while a result is owed to it by *)
(* another live session (_refusal inside the transaction that reserves the   *)
(* writer; the identity lock over an admission).                             *)
KeepsNamePromise == Promise!Spec

(* A live session's row goes only by its own release or exit: no claim,       *)
(* announcement or prune, judged on a probe made earlier or of a pid since   *)
(* reused, takes it away (_prune_dead, _acquire).                            *)
OnlyGivenUp ==
  [][\A s \in Server, n \in Name :
       Live(s) /\ row[s][n] # 0 /\ row'[s][n] = 0
         => ilock'[s] = "release" \/ up'[s] = "gone"]_vars

(* A running server's rows and claims are the names its session asked for and *)
(* has not given up, besides the lane it derives: no stale heartbeat brings a *)
(* released name back, no fulfilment a cancelled one, no claim leaves a row   *)
(* that nobody adopted (_release_locked, _fulfil_pending, _register_locked).  *)
OnlyWanted ==
  \A s \in Server : Up(s) =>
    /\ \A n \in Name : row[s][n] # 0 => n \in wanted[s] \cup {Own[s]}
    /\ claim[s] = NoClaim => ToSet(claims[s]) \cup Waiting(s) = wanted[s]

(* The registry lists a server's names in the order it answers to them, so   *)
(* that the last is where mail finds it, whenever no claim or announcement   *)
(* is under way and the last one succeeded (rerank, `ranked`).               *)
AdvertisedInOrder ==
  \A s \in Server : Up(s) /\ ilock[s] = "free" /\ claim[s] = NoClaim /\ ~failed[s] =>
    \A i, j \in DOMAIN Held(s) :
      LET ri == row[s][Held(s)[i]]
          rj == row[s][Held(s)[j]]
      IN  i < j /\ ri # 0 /\ rj # 0 => ri < rj

(* A claim the registry granted is never refused by the claimant's own cap,  *)
(* which was asked before: nothing adds a name between (claim_lane).         *)
AdoptionFits ==
  \A s \in Server : claim[s].at = "adopt" =>
    Cardinality(ToSet(claims[s]) \cup Waiting(s) \cup {claim[s].name}) <= MaxClaims

(* No waiting claim waits for ever on nobody: once neither the name nor a    *)
(* lane held with it is kept by another, it is granted (_fulfil_pending).    *)
WaitIsServed ==
  \A s \in Attended, n \in Name :
    []<>~(/\ Live(s) /\ pending[s][n] # 0
          /\ Allowed(s, ClaimOrder(s, n), {}) = ToSet(ClaimOrder(s, n)))

(* A session refused its own lane gets it once its holder is gone, though    *)
(* nobody calls it (_regain_lanes, _registration_failure).                   *)
OwnLaneRegained ==
  \A s \in Attended : Own[s] \in Name =>
    []<>~(Live(s) /\ row[s][Own[s]] = 0 /\ ~Refused(s, Own[s], {}))
=============================================================================
