---------------------------- MODULE LanesProofs ----------------------------
(***************************************************************************)
(* The safety of Lanes.tla for any servers, names and process ids: one     *)
(* inductive invariant, Inductive, and what follows from it, that Lanes    *)
(* implements NamePromise included.                                        *)
(***************************************************************************)
EXTENDS Lanes, DataLemmas

----------------------------------------------------------------------------
(* The inductive invariant. *)

Locks == {"free", "beat", "claim", "release", "recheck", "create"}
Stages == {"free", "claim", "adopt", "announce", "release"}
Names == Name \cup {NoName}
Claims == [at : Stages, name : Names, rec : 0 .. MaxAsks, wait : BOOLEAN]
Records == [name : Names, rec : 0 .. MaxAsks]

Type ==
  /\ up \in [Server -> {"unborn", "up", "gone"}] /\ host \in [Server -> BOOLEAN]
  /\ row \in [Server -> [Name -> Nat]]
  /\ owed \in SUBSET (Server \X Name) /\ doomed \in SUBSET (Server \X Name)
  /\ claims \in [Server -> Seq(Name)] /\ \A s \in Server : IsInjective(claims[s])
  /\ pending \in [Server -> [Name -> 0 .. MaxAsks]] /\ wanted \in [Server -> SUBSET Name]
  /\ failed \in [Server -> BOOLEAN] /\ snap \in [Server -> Seq(Name)] /\ to \in [Server -> Names]
  /\ ilock \in [Server -> Locks] /\ claim \in [Server -> Claims] /\ seen \in [Server -> Records]
  /\ asks \in 0 .. MaxAsks

(* A pid has one running process at a time, and what a process knew is gone *)
(* with it; one not started has no rows; and what is about to be pruned is  *)
(* dead for good.                                                           *)
Knows(s) ==
  claims[s] # <<>> \/ claim[s] # NoClaim \/ ilock[s] # "free" \/ seen[s] # NoRecord \/ wanted[s] # {}
    \/ \E n \in Name : pending[s][n] # 0

Life ==
  /\ \A s, t \in Server : Up(s) /\ Up(t) /\ Pid[s] = Pid[t] => s = t
  /\ \A s \in Server : Knows(s) => Up(s)
  /\ \A s \in Server : up[s] = "unborn" =>
       host[s] /\ \A n \in Name : row[s][n] = 0 /\ <<s, n>> \notin owed
  /\ \A r \in doomed : up[r[1]] # "unborn" /\ ~Live(r[1])

(* What is held, and what its holder has in hand. *)
MutexOK(s) ==
  /\ ilock[s] # "free" => snap[s] = Held(s)
  /\ ilock[s] = "release" <=> claim[s].at = "release"
  /\ ilock[s] = "claim" => claim[s].at = "announce"
  /\ claim[s].at = "free" => claim[s] = NoClaim
  /\ claim[s].at # "free" => claim[s].name \in Name
  /\ claim[s].at = "claim" => claim[s].rec # 0
  /\ claim[s].at \in {"announce", "release"} => claim[s].name \in ToSet(claims[s])
  /\ seen[s] # NoRecord => seen[s].name \in Name /\ seen[s].rec # 0

(* The name a claim is after, until it is one of the claims. *)
After(s) == IF claim[s].at \in {"claim", "adopt"} THEN {claim[s].name} ELSE {}

(* The name a release is giving up, until it is forgotten. *)
GivingUp(s) == IF claim[s].at = "release" THEN {claim[s].name} ELSE {}

Taken(s) == ToSet(claims[s]) \cup Waiting(s) \cup After(s)

WantsOK(s) ==
  /\ \A n \in ToSet(claims[s]) : pending[s][n] = 0
  /\ wanted[s] = Taken(s) \ GivingUp(s)
  /\ Cardinality(Taken(s)) <= MaxClaims

(* The lanes a row of s may be for. *)
Answers(s) ==
  (ToSet(claims[s]) \ GivingUp(s)) \cup {Own[s]}
    \cup (IF claim[s].at = "adopt" THEN {claim[s].name} ELSE {})

RowsOK == \A s \in Server : Up(s) => \A n \in Name : row[s][n] # 0 => n \in Answers(s)

(* The rows of s are in that order. *)
RankedBy(r, order) ==
  \A i, j \in DOMAIN order : i < j /\ r[order[i]] # 0 /\ r[order[j]] # 0 => r[order[i]] < r[order[j]]

Remaining(s) ==
  IF claim[s].at = "release" THEN Ordered(s, RemoveFirst(claims[s], claim[s].name)) ELSE Held(s)

Ranks ==
  \A s \in Server : Up(s) /\ ~failed[s] /\ claim[s].at \notin {"adopt", "announce"} =>
    RankedBy(row[s], Remaining(s))

(* One that has taken a name is alone in the registry under its pid; a name *)
(* has one live holder; and a result goes where its server is registered.   *)
Holding ==
  /\ \A s, t \in Server :
       /\ s # t /\ Pid[s] = Pid[t] /\ (claims[s] # <<>> \/ claim[s].at = "adopt")
       => \A n \in Name : row[t][n] = 0
  /\ \A s, t \in Server, n \in Name :
       Live(s) /\ Live(t) /\ row[s][n] # 0 /\ row[t][n] # 0 => s = t
  /\ \A s \in Server : ilock[s] \in {"recheck", "create"} => to[s] \in Name
  /\ \A s \in Server : ilock[s] = "create" /\ Live(s) => row[s][to[s]] # 0

Inductive ==
  /\ Type /\ Life
  /\ (\A s \in Server : MutexOK(s)) /\ (\A s \in Server : WantsOK(s))
  /\ RowsOK /\ Ranks /\ Holding

----------------------------------------------------------------------------
(* Lists of names. *)

LEMMA SeqFacts ==
  ASSUME NEW c \in Seq(Name)
  PROVE  /\ Len(c) \in Nat /\ DOMAIN c = 1 .. Len(c) /\ \A i \in DOMAIN c : c[i] \in Name
         /\ ToSet(c) \in SUBSET Name
         /\ \A n : n \in ToSet(c) <=> \E i \in DOMAIN c : c[i] = n
         /\ c = <<>> <=> ToSet(c) = {}
<1>1. Len(c) \in Nat /\ DOMAIN c = 1 .. Len(c) /\ \A i \in DOMAIN c : c[i] \in Name
  BY LenProperties, ElementOfSeq
<1>2. \A n : n \in ToSet(c) <=> \E i \in DOMAIN c : c[i] = n
  BY DEF ToSet
<1>3. c = <<>> => ToSet(c) = {}
  BY DEF ToSet
<1>4. c # <<>> => ToSet(c) # {}
  <2>1. c # <<>> => 1 \in DOMAIN c
    BY <1>1, EmptySeq
  <2> QED BY <1>2, <2>1
<1> QED BY <1>1, <1>2, <1>3, <1>4

(* A name added at the end, or in front. *)
LEMMA AppendFacts ==
  ASSUME NEW c \in Seq(Name), IsInjective(c), NEW n \in Name, n \notin ToSet(c)
  PROVE  /\ Append(c, n) \in Seq(Name) /\ IsInjective(Append(c, n)) /\ ToSet(Append(c, n)) = ToSet(c) \cup {n}
         /\ Append(c, n) # <<>>
<1>1. PICK d : d = Append(c, n)
  OBVIOUS
<1>2. /\ d \in Seq(Name) /\ Len(d) = Len(c) + 1 /\ d # <<>>
      /\ \A i \in 1 .. Len(c) : d[i] = c[i]
      /\ d[Len(c) + 1] = n
  BY <1>1, AppendProperties
<1>3. Len(c) \in Nat /\ DOMAIN c = 1 .. Len(c) /\ DOMAIN d = 1 .. Len(c) + 1
  BY <1>2, LenProperties
<1>4. \A i \in DOMAIN c : c[i] # n
  BY SeqFacts
<1>5. IsInjective(d)
  BY <1>2, <1>3, <1>4 DEF IsInjective
<1>6. \A m : m \in ToSet(d) <=> m \in ToSet(c) \/ m = n
  <2>1. \A m : m \in ToSet(d) <=> \E i \in 1 .. Len(c) + 1 : d[i] = m
    BY <1>2, <1>3, SeqFacts
  <2>2. \A m : m \in ToSet(c) <=> \E i \in 1 .. Len(c) : c[i] = m
    BY <1>3, SeqFacts
  <2>3. \A i \in 1 .. Len(c) + 1 : i \in 1 .. Len(c) \/ i = Len(c) + 1
    BY <1>3
  <2>4. 1 .. Len(c) \subseteq 1 .. Len(c) + 1 /\ Len(c) + 1 \in 1 .. Len(c) + 1
    BY <1>3
  <2> QED BY <1>2, <2>1, <2>2, <2>3, <2>4
<1> QED BY <1>1, <1>2, <1>5, <1>6

LEMMA PushFacts ==
  ASSUME NEW c \in Seq(Name), IsInjective(c), NEW n \in Name, n \notin ToSet(c)
  PROVE  /\ <<n>> \o c \in Seq(Name) /\ IsInjective(<<n>> \o c) /\ ToSet(<<n>> \o c) = ToSet(c) \cup {n}
         /\ Len(<<n>> \o c) = Len(c) + 1
         /\ (<<n>> \o c)[1] = n
         /\ \A i \in 1 .. Len(c) : (<<n>> \o c)[i + 1] = c[i]
<1>1. PICK d : d = <<n>> \o c
  OBVIOUS
<1>2. <<n>> \in Seq(Name) /\ Len(<<n>>) = 1 /\ <<n>>[1] = n
  OBVIOUS
<1>3. /\ d \in Seq(Name) /\ Len(d) = 1 + Len(c)
      /\ \A i \in 1 .. 1 + Len(c) : d[i] = IF i <= 1 THEN <<n>>[i] ELSE c[i - 1]
  BY <1>1, <1>2, ConcatProperties
<1>4. Len(c) \in Nat /\ DOMAIN c = 1 .. Len(c) /\ DOMAIN d = 1 .. 1 + Len(c)
  BY <1>3, LenProperties
<1>5. d[1] = n /\ \A i \in 1 .. Len(c) : d[i + 1] = c[i]
  BY <1>2, <1>3, <1>4
<1>6. \A i \in 1 .. 1 + Len(c) : i = 1 \/ (i - 1 \in 1 .. Len(c) /\ d[i] = c[i - 1])
  BY <1>3, <1>4
<1>7. \A i \in DOMAIN c : c[i] # n
  BY SeqFacts
<1>8. IsInjective(d)
  <2>1. ASSUME NEW i \in 1 .. 1 + Len(c), NEW k \in 1 .. 1 + Len(c), d[i] = d[k] PROVE i = k
    <3>1. CASE i = 1 \/ k = 1
      BY <1>4, <1>5, <1>6, <1>7, <2>1, <3>1
    <3>2. CASE i # 1 /\ k # 1
      <4>1. i - 1 = k - 1
        BY <1>4, <1>6, <2>1, <3>2 DEF IsInjective
      <4> QED BY <1>4, <4>1
    <3> QED BY <3>1, <3>2
  <2> QED BY <1>4, <2>1 DEF IsInjective
<1>9. \A m : m \in ToSet(d) <=> m \in ToSet(c) \/ m = n
  <2>1. \A m : m \in ToSet(d) <=> \E i \in 1 .. 1 + Len(c) : d[i] = m
    BY <1>3, <1>4, SeqFacts
  <2>2. \A m : m \in ToSet(c) <=> \E i \in 1 .. Len(c) : c[i] = m
    BY <1>4, SeqFacts
  <2>3. 1 \in 1 .. 1 + Len(c) /\ \A i \in 1 .. Len(c) : i + 1 \in 1 .. 1 + Len(c)
    BY <1>4
  <2> QED BY <1>5, <1>6, <2>1, <2>2, <2>3
<1> QED BY <1>1, <1>3, <1>4, <1>5, <1>8, <1>9

(* A name taken out: what is left keeps its order. *)
LEMMA RemoveFacts ==
  ASSUME NEW c \in Seq(Name), IsInjective(c), NEW n \in ToSet(c)
  PROVE  LET d == RemoveFirst(c, n)
         IN /\ d \in Seq(Name) /\ IsInjective(d) /\ ToSet(d) = ToSet(c) \ {n}
            /\ \E f \in [DOMAIN d -> DOMAIN c] :
                 /\ \A i \in DOMAIN d : d[i] = c[f[i]]
                 /\ \A i, k \in DOMAIN d : i < k => f[i] < f[k]
<1>1. Len(c) \in Nat /\ DOMAIN c = 1 .. Len(c) /\ \E i \in 1 .. Len(c) : c[i] = n
  BY SeqFacts
<1>2. PICK p \in 1 .. Len(c) : c[p] = n /\ RemoveFirst(c, n) = RemoveAt(c, p)
  BY <1>1, RemoveFirstEffect
<1>3. PICK d : d = RemoveFirst(c, n)
  OBVIOUS
<1>4. /\ d \in Seq(Name) /\ Len(d) = Len(c) - 1
      /\ \A k \in 1 .. Len(c) - 1 : d[k] = IF k < p THEN c[k] ELSE c[k + 1]
  BY <1>2, <1>3, RemoveAtEffect
<1>5. DOMAIN d = 1 .. Len(c) - 1
  BY <1>4, LenProperties
<1>6. PICK f : f = [k \in 1 .. Len(c) - 1 |-> IF k < p THEN k ELSE k + 1]
  OBVIOUS
<1>7. /\ f \in [DOMAIN d -> DOMAIN c] /\ \A k \in DOMAIN d : d[k] = c[f[k]] /\ f[k] # p
      /\ \A i, k \in DOMAIN d : i < k => f[i] < f[k]
  BY <1>1, <1>4, <1>5, <1>6
<1>8. IsInjective(d)
  <2>1. ASSUME NEW i \in DOMAIN d, NEW k \in DOMAIN d, d[i] = d[k] PROVE i = k
    <3>1. f[i] = f[k]
      BY <1>7, <2>1 DEF IsInjective
    <3> QED BY <1>1, <1>5, <1>7, <3>1
  <2> QED BY <2>1 DEF IsInjective
<1>9. \A m : m \in ToSet(d) <=> m \in ToSet(c) /\ m # n
  <2>1. ASSUME NEW m, m \in ToSet(d) PROVE m \in ToSet(c) /\ m # n
    <3>1. PICK k \in DOMAIN d : d[k] = m
      BY <1>4, <2>1, SeqFacts
    <3>2. m = c[f[k]] /\ f[k] \in DOMAIN c /\ f[k] # p
      BY <1>7, <3>1
    <3> QED BY <1>1, <1>2, <3>2, SeqFacts DEF IsInjective
  <2>2. ASSUME NEW m \in ToSet(c), m # n PROVE m \in ToSet(d)
    <3>1. PICK k \in 1 .. Len(c) : c[k] = m
      BY <1>1, SeqFacts
    <3>2. k # p
      BY <1>2, <2>2, <3>1
    <3>3. CASE k < p
      <4>1. k \in DOMAIN d /\ d[k] = m
        BY <1>1, <1>4, <1>5, <3>1, <3>3
      <4> QED BY <1>4, <4>1, SeqFacts
    <3>4. CASE k > p
      <4>1. k - 1 \in DOMAIN d /\ d[k - 1] = m
        BY <1>1, <1>4, <1>5, <3>1, <3>4
      <4> QED BY <1>4, <4>1, SeqFacts
    <3> QED BY <1>1, <3>2, <3>3, <3>4
  <2> QED BY <2>1, <2>2
<1> QED BY <1>3, <1>4, <1>7, <1>8, <1>9

----------------------------------------------------------------------------
(* What a server answers to. *)

LEMMA OrderedFacts ==
  ASSUME NEW s \in Server, NEW c \in Seq(Name), IsInjective(c)
  PROVE  /\ Ordered(s, c) \in Seq(Name) /\ IsInjective(Ordered(s, c))
         /\ ToSet(Ordered(s, c)) = ToSet(c) \cup ({Own[s]} \cap Name)
<1>0. Own[s] \in Name \cup {NoName} /\ NoName \notin Name /\ ToSet(c) \in SUBSET Name
  BY OwnAssumption, NameAssumption, SeqFacts
<1>1. CASE Own[s] = NoName \/ Own[s] \in ToSet(c)
  BY <1>0, <1>1 DEF Ordered
<1>2. CASE Own[s] # NoName /\ Own[s] \notin ToSet(c)
  BY <1>0, <1>2, PushFacts DEF Ordered
<1> QED BY <1>1, <1>2

LEMMA HeldFacts ==
  ASSUME Type, NEW s \in Server
  PROVE  /\ Held(s) \in Seq(Name) /\ IsInjective(Held(s))
         /\ ToSet(Held(s)) = ToSet(claims[s]) \cup ({Own[s]} \cap Name)
BY OrderedFacts DEF Type, Held

LEMMA ClaimOrderFacts ==
  ASSUME Type, NEW s \in Server, NEW n \in Name
  PROVE  /\ ClaimOrder(s, n) \in Seq(Name) /\ IsInjective(ClaimOrder(s, n))
         /\ ToSet(ClaimOrder(s, n)) = ToSet(claims[s]) \cup {n} \cup ({Own[s]} \cap Name)
<1>0. claims[s] \in Seq(Name) /\ IsInjective(claims[s])
  BY DEF Type
<1>1. CASE n \in ToSet(claims[s])
  BY <1>1, HeldFacts DEF ClaimOrder
<1>2. CASE n \notin ToSet(claims[s])
  <2>1. /\ Append(claims[s], n) \in Seq(Name) /\ IsInjective(Append(claims[s], n))
        /\ ToSet(Append(claims[s], n)) = ToSet(claims[s]) \cup {n}
    BY <1>0, <1>2, AppendFacts
  <2>2. ClaimOrder(s, n) = Ordered(s, Append(claims[s], n))
    BY <1>2 DEF ClaimOrder
  <2> QED BY <2>1, <2>2, OrderedFacts
<1> QED BY <1>1, <1>2

----------------------------------------------------------------------------
(* The rows a registration leaves. *)

LEMMA PlaceFacts ==
  ASSUME NEW order \in Seq(Name), IsInjective(order)
  PROVE  /\ \A n \in ToSet(order) : Place(order, n) \in Nat /\ Place(order, n) # 0
         /\ \A i \in DOMAIN order : Place(order, order[i]) = i
<1>1. Len(order) \in Nat /\ DOMAIN order = 1 .. Len(order)
  BY LenProperties
<1>2. ASSUME NEW i \in DOMAIN order PROVE Place(order, order[i]) = i
  <2>1. \A k \in DOMAIN order : order[k] = order[i] => k = i
    BY DEF IsInjective
  <2> QED BY <2>1 DEF Place
<1>3. ASSUME NEW n \in ToSet(order) PROVE Place(order, n) \in Nat /\ Place(order, n) # 0
  <2>1. PICK i \in DOMAIN order : order[i] = n
    BY SeqFacts
  <2> QED BY <1>1, <1>2, <2>1
<1> QED BY <1>2, <1>3

(* Rows that have their place in the order, or none. *)
LEMMA RankedByPlace ==
  ASSUME NEW order \in Seq(Name), IsInjective(order), NEW r,
         \A n \in ToSet(order) : r[n] = 0 \/ r[n] = Place(order, n)
  PROVE  RankedBy(r, order)
<1>1. \A i \in DOMAIN order : r[order[i]] = 0 \/ r[order[i]] = i
  BY PlaceFacts, SeqFacts
<1> QED BY <1>1, SeqFacts DEF RankedBy

LEMMA RerankFacts ==
  ASSUME Type, NEW s \in Server, NEW order \in Seq(Name), IsInjective(order)
  PROVE  /\ Rerank(s, order) \in [Server -> [Name -> Nat]]
         /\ \A t \in Server : t # s => Rerank(s, order)[t] = row[t]
         /\ \A n \in Name : Rerank(s, order)[s][n] = 0 <=> row[s][n] = 0
         /\ \A n \in ToSet(order) : Rerank(s, order)[s][n] \in {0, Place(order, n)}
<1>0. row \in [Server -> [Name -> Nat]] /\ ToSet(order) \in SUBSET Name
  BY SeqFacts DEF Type
<1>1. PICK r : r = [n \in Name |-> IF row[s][n] # 0 /\ n \in ToSet(order) THEN Place(order, n) ELSE row[s][n]]
  OBVIOUS
<1>2. Rerank(s, order) = [row EXCEPT ![s] = r]
  BY <1>1 DEF Rerank
<1>3. r \in [Name -> Nat] /\ (\A n \in Name : r[n] = 0 <=> row[s][n] = 0)
      /\ \A n \in ToSet(order) : r[n] \in {0, Place(order, n)}
  BY <1>0, <1>1, PlaceFacts
<1> QED BY <1>0, <1>2, <1>3

(* Which rows of the others go when s is granted `accepted`. *)
Loses(s, t, n, accepted) == n \in accepted \/ (accepted # {} /\ Pid[t] = Pid[s])

LEMMA AcquiredFacts ==
  ASSUME Type, NEW s \in Server, NEW order \in Seq(Name), IsInjective(order),
         NEW accepted \in SUBSET ToSet(order)
  PROVE  LET q == Acquired(s, order, accepted)
         IN /\ q \in [Server -> [Name -> Nat]]
            /\ \A n \in Name : q[s][n] # 0 <=> row[s][n] # 0 \/ n \in accepted
            /\ RankedBy(q[s], order)
            /\ \A t \in Server, n \in Name : t # s => q[t][n] = IF Loses(s, t, n, accepted) THEN 0 ELSE row[t][n]
<1>0. row \in [Server -> [Name -> Nat]] /\ ToSet(order) \in SUBSET Name
  BY SeqFacts DEF Type
<1>1. PICK kept : kept = Rerank(s, order)[s]
  OBVIOUS
<1>2. /\ kept \in [Name -> Nat] /\ \A n \in Name : kept[n] = 0 <=> row[s][n] = 0
      /\ \A n \in ToSet(order) : kept[n] \in {0, Place(order, n)}
  BY <1>1, RerankFacts
<1>3. PICK mine : mine = Upserted(s, order, accepted)
  OBVIOUS
<1>4. mine = [n \in Name |-> IF n \in accepted THEN Place(order, n) ELSE kept[n]]
  BY <1>1, <1>3 DEF Upserted
<1>5. /\ mine \in [Name -> Nat] /\ \A n \in Name : mine[n] # 0 <=> row[s][n] # 0 \/ n \in accepted
      /\ \A n \in ToSet(order) : mine[n] \in {0, Place(order, n)}
  BY <1>0, <1>2, <1>4, PlaceFacts
<1>6. RankedBy(mine, order)
  BY <1>5, RankedByPlace
<1>7. Acquired(s, order, accepted) =
        [t \in Server |-> IF t = s THEN mine
                          ELSE [n \in Name |-> IF Loses(s, t, n, accepted) THEN 0 ELSE row[t][n]]]
  BY <1>3 DEF Acquired, Loses
<1>8. PICK q : q = Acquired(s, order, accepted)
  OBVIOUS
<1>9. q \in [Server -> [Name -> Nat]] /\ q[s] = mine
      /\ \A t \in Server, n \in Name : t # s => q[t][n] = IF Loses(s, t, n, accepted) THEN 0 ELSE row[t][n]
  BY <1>0, <1>5, <1>7, <1>8
<1> QED BY <1>5, <1>6, <1>8, <1>9

----------------------------------------------------------------------------
(* The steps there are. *)

Acts(s) == Server_(s) \/ (Up(s) /\ \E unsure \in Doubts : Step(s, unsure))

LEMMA StepKinds ==
  ASSUME [Next]_vars
  PROVE  \/ \E s \in Server : Acts(s)
         \/ \E unsure \in Doubts : PruneRead(unsure)
         \/ PruneDelete \/ UNCHANGED vars
BY DEF Next, Acts

(* What a registration asks of the others, whatever the probes answer. *)
Unkept(s, n) ==
  \A t \in Server : Pid[t] # Pid[s] =>
    ~(Live(t) /\ row[t][n] # 0) /\ ~(Up(t) /\ <<t, n>> \in owed)

LEMMA UnkeptUnlessRefused ==
  ASSUME NEW s \in Server, NEW n, NEW unsure, ~Refused(s, n, unsure)
  PROVE  Unkept(s, n)
BY DEF Unkept, Refused, MayLive, MayRun, Live

(* What it makes of the rows. *)
Takes(s, N) ==
  /\ \A n \in N : Unkept(s, n)
  /\ \A n \in Name : row'[s][n] # 0 <=> row[s][n] # 0 \/ n \in N
  /\ \A t \in Server, n \in Name : t # s => row'[t][n] = IF Loses(s, t, n, N) THEN 0 ELSE row[t][n]

LEMMA RegisterFacts ==
  ASSUME Type, NEW s \in Server, NEW order \in Seq(Name), IsInjective(order), NEW unsure,
         Register(s, order, unsure)
  PROVE  /\ row' \in [Server -> [Name -> Nat]]
         /\ failed' \in [Server -> BOOLEAN] /\ \A t \in Server : t # s => failed'[t] = failed[t]
         /\ owed' = owed /\ doomed' = doomed
         /\ ~failed'[s] => RankedBy(row'[s], order)
         /\ \E N \in SUBSET ToSet(order) : Takes(s, N)
<1>0. /\ row \in [Server -> [Name -> Nat]] /\ failed \in [Server -> BOOLEAN]
      /\ ToSet(order) \in SUBSET Name
  BY SeqFacts DEF Type
<1>1. /\ owed' = owed /\ doomed' = doomed
      /\ failed' \in [Server -> BOOLEAN] /\ \A t \in Server : t # s => failed'[t] = failed[t]
      /\ failed'[s] = (Allowed(s, order, unsure) # ToSet(order))
  BY <1>0 DEF Register
<1>2. CASE HostGone(s, unsure)
  <2>1. row' = row /\ Allowed(s, order, unsure) = {}
    BY <1>2 DEF Register, Allowed
  <2>2. ~failed'[s] => RankedBy(row'[s], order)
    BY <1>1, <2>1, SeqFacts DEF RankedBy
  <2>3. Takes(s, {}) /\ {} \in SUBSET ToSet(order)
    BY <1>0, <2>1 DEF Takes, Loses
  <2> QED BY <1>0, <1>1, <2>1, <2>2, <2>3
<1>3. CASE ~HostGone(s, unsure)
  <2>1. PICK N : N = Allowed(s, order, unsure)
    OBVIOUS
  <2>2. N \in SUBSET ToSet(order) /\ (\A n \in N : Unkept(s, n)) /\ row' = Acquired(s, order, N)
    BY <1>3, <2>1, UnkeptUnlessRefused DEF Register, Allowed
  <2>3. /\ row' \in [Server -> [Name -> Nat]] /\ RankedBy(row'[s], order)
        /\ \A n \in Name : row'[s][n] # 0 <=> row[s][n] # 0 \/ n \in N
        /\ \A t \in Server, n \in Name : t # s => row'[t][n] = IF Loses(s, t, n, N) THEN 0 ELSE row[t][n]
    BY <2>2, AcquiredFacts
  <2> QED BY <1>1, <2>2, <2>3 DEF Takes
<1> QED BY <1>2, <1>3

LEMMA LockFacts ==
  ASSUME Type, NEW s \in Server, NEW holder \in Locks, LockIdentity(s, holder)
  PROVE  /\ ilock[s] = "free" /\ ilock'[s] = holder /\ snap'[s] = Held(s)
         /\ ilock' \in [Server -> Locks] /\ snap' \in [Server -> Seq(Name)]
         /\ \A t \in Server : t # s => ilock'[t] = ilock[t] /\ snap'[t] = snap[t]
BY HeldFacts DEF LockIdentity, Type

LEMMA UnlockFacts ==
  ASSUME Type, NEW s \in Server, UnlockIdentity(s)
  PROVE  /\ ilock'[s] = "free"
         /\ ilock' \in [Server -> Locks] /\ snap' \in [Server -> Seq(Name)]
         /\ \A t \in Server : t # s => ilock'[t] = ilock[t] /\ snap'[t] = snap[t]
<1>1. <<>> \in Seq(Name) /\ "free" \in Locks
  BY DEF Locks
<1> QED BY <1>1 DEF UnlockIdentity, Type

(* What a server keeps to itself. *)
Same(t) ==
  /\ up'[t] = up[t] /\ host'[t] = host[t]
  /\ claims'[t] = claims[t] /\ pending'[t] = pending[t] /\ wanted'[t] = wanted[t] /\ failed'[t] = failed[t]
  /\ ilock'[t] = ilock[t] /\ snap'[t] = snap[t] /\ to'[t] = to[t] /\ claim'[t] = claim[t] /\ seen'[t] = seen[t]

(* The typing of what only a server's own steps move, and that they move no *)
(* other's.                                                                 *)
Private ==
  /\ up \in [Server -> {"unborn", "up", "gone"}] /\ host \in [Server -> BOOLEAN]
  /\ claims \in [Server -> Seq(Name)] /\ \A s \in Server : IsInjective(claims[s])
  /\ pending \in [Server -> [Name -> 0 .. MaxAsks]] /\ wanted \in [Server -> SUBSET Name]
  /\ failed \in [Server -> BOOLEAN] /\ snap \in [Server -> Seq(Name)] /\ to \in [Server -> Names]
  /\ ilock \in [Server -> Locks] /\ claim \in [Server -> Claims] /\ seen \in [Server -> Records]

Shared ==
  /\ row \in [Server -> [Name -> Nat]]
  /\ owed \in SUBSET (Server \X Name) /\ doomed \in SUBSET (Server \X Name)
  /\ asks \in 0 .. MaxAsks

LEMMA TypeParts == Type <=> Private /\ Shared
BY DEF Type, Private, Shared

LEMMA PrivateStep ==
  ASSUME Type, NEW s \in Server, MutexOK(s), Acts(s)
  PROVE  Private' /\ \A t \in Server : t # s => Same(t)
<1> USE DEF world, store, names, told
<1>0. Private /\ asks \in 0 .. MaxAsks /\ MaxAsks \in Nat
  BY TypeParts, BoundAssumption DEF Shared
<1>1. CASE Start(s)
  <2>1. {"beat"} \subseteq Locks
    BY DEF Locks
  <2> QED BY <1>0, <1>1, <2>1, LockFacts DEF Start, Private, Same
<1>2. CASE Beat(s)
  <2>1. {"beat"} \subseteq Locks
    BY DEF Locks
  <2> QED BY <1>0, <1>2, <2>1, LockFacts DEF Beat, Private, Same
<1>3. CASE Announced(s) /\ failed' \in [Server -> BOOLEAN] /\ \A t \in Server : t # s => failed'[t] = failed[t]
  <2>1. NoClaim \in Claims
    BY <1>0, NameAssumption DEF NoClaim, Claims, Stages, Names
  <2> QED BY <1>0, <1>3, <2>1, UnlockFacts DEF Announced, Private, Same
<1>4. CASE AnnounceFails(s)
  BY <1>0, <1>3, <1>4 DEF AnnounceFails, RegisterFails, Private
<1>5. ASSUME NEW unsure \in Doubts, Announce(s, unsure) PROVE Private' /\ \A t \in Server : t # s => Same(t)
  <2>1. snap[s] \in Seq(Name) /\ IsInjective(snap[s])
    BY <1>0, <1>5, HeldFacts DEF Announce, Announced, MutexOK, Private
  <2> QED BY <1>3, <1>5, <2>1, RegisterFacts DEF Announce
<1>6. ASSUME NEW n \in Name, NEW w \in BOOLEAN, Ask(s, n, w) PROVE Private' /\ \A t \in Server : t # s => Same(t)
  <2>1. [at |-> "claim", name |-> n, rec |-> asks', wait |-> w] \in Claims
    BY <1>0, <1>6 DEF Ask, Claims, Stages, Names
  <2> QED BY <1>0, <1>6, <2>1 DEF Ask, Private, Same
<1>7. ASSUME NEW n \in Name, FulfilRead(s, n) PROVE Private' /\ \A t \in Server : t # s => Same(t)
  BY <1>0, <1>7 DEF FulfilRead, Private, Same, Records, Names
<1>8. CASE Fulfil(s)
  <2>1. NoRecord \in Records /\ [at |-> "claim", name |-> seen[s].name, rec |-> seen[s].rec, wait |-> FALSE] \in Claims
    BY <1>0 DEF Private, NoRecord, Records, Claims, Stages, Names
  <2> QED BY <1>0, <1>8, <2>1 DEF Fulfil, Private, Same
<1>9. CASE FulfilSkip(s)
  <2>1. NoRecord \in Records
    BY <1>0 DEF NoRecord, Records, Names
  <2> QED BY <1>0, <1>9, <2>1 DEF FulfilSkip, Private, Same
<1>10. ASSUME NEW unsure \in Doubts, ClaimGranted(s, unsure) PROVE Private' /\ \A t \in Server : t # s => Same(t)
  <2>1. claim' \in [Server -> Claims]
    BY <1>0, <1>10 DEF ClaimGranted, Private, Claims, Stages
  <2> QED BY <1>0, <1>10, <2>1 DEF ClaimGranted, Private, Same
<1>11. ASSUME NEW unsure \in Doubts, ClaimRefused(s, unsure) PROVE Private' /\ \A t \in Server : t # s => Same(t)
  <2>1. NoClaim \in Claims /\ claim[s].rec \in 0 .. MaxAsks
    BY <1>0 DEF NoClaim, Claims, Stages, Names, Private
  <2>2. claim' \in [Server -> Claims] /\ \A t \in Server : t # s => claim'[t] = claim[t]
    BY <1>0, <1>11, <2>1 DEF ClaimRefused, Private
  <2>3. pending' \in [Server -> [Name -> 0 .. MaxAsks]] /\ \A t \in Server : t # s => pending'[t] = pending[t]
    BY <1>0, <1>11, <2>1 DEF ClaimRefused, Private
  <2>4. wanted' \in [Server -> SUBSET Name] /\ \A t \in Server : t # s => wanted'[t] = wanted[t]
    BY <1>0, <1>11 DEF ClaimRefused, Private
  <2> QED BY <1>0, <1>11, <2>2, <2>3, <2>4 DEF ClaimRefused, Private, Same
<1>12. CASE Adopt(s)
  <2>1. claim[s].name \in Name
    BY <1>12 DEF Adopt, MutexOK
  <2>2. claim' \in [Server -> Claims] /\ \A t \in Server : t # s => claim'[t] = claim[t]
    BY <1>0, <1>12 DEF Adopt, Private, Claims, Stages
  <2>3. pending' \in [Server -> [Name -> 0 .. MaxAsks]] /\ \A t \in Server : t # s => pending'[t] = pending[t]
    BY <1>0, <1>12, <2>1 DEF Adopt, Private
  <2>4. claims' \in [Server -> Seq(Name)] /\ (\A t \in Server : IsInjective(claims'[t]))
        /\ \A t \in Server : t # s => claims'[t] = claims[t]
    <3>1. PICK c : c = Append(claims[s], claim[s].name)
      OBVIOUS
    <3>2. claim[s].name \notin ToSet(claims[s]) => c \in Seq(Name) /\ IsInjective(c)
      BY <1>0, <2>1, <3>1, AppendFacts DEF Private
    <3>3. claims' = IF claim[s].name \in ToSet(claims[s]) THEN claims ELSE [claims EXCEPT ![s] = c]
      BY <1>12, <3>1 DEF Adopt
    <3> QED BY <1>0, <3>2, <3>3 DEF Private
  <2> QED BY <1>0, <1>12, <2>2, <2>3, <2>4 DEF Adopt, Private, Same
<1>13. CASE AnnounceClaim(s)
  <2>1. "claim" \in Locks
    BY DEF Locks
  <2> QED BY <1>0, <1>13, <2>1, LockFacts DEF AnnounceClaim, Private, Same
<1>14. ASSUME NEW n \in Name, Cancel(s, n) PROVE Private' /\ \A t \in Server : t # s => Same(t)
  <2>1. pending' \in [Server -> [Name -> 0 .. MaxAsks]] /\ \A t \in Server : t # s => pending'[t] = pending[t]
    BY <1>0, <1>14 DEF Cancel, Private
  <2>2. wanted' \in [Server -> SUBSET Name] /\ \A t \in Server : t # s => wanted'[t] = wanted[t]
    BY <1>0, <1>14 DEF Cancel, Private
  <2> QED BY <1>0, <1>14, <2>1, <2>2 DEF Cancel, Private, Same
<1>15. ASSUME NEW n \in Name, ReleaseDrop(s, n) PROVE Private' /\ \A t \in Server : t # s => Same(t)
  <2>1. "release" \in Locks /\ [at |-> "release", name |-> n, rec |-> 0, wait |-> FALSE] \in Claims
    BY <1>0 DEF Locks, Claims, Stages, Names
  <2>2. wanted' \in [Server -> SUBSET Name] /\ \A t \in Server : t # s => wanted'[t] = wanted[t]
    BY <1>0, <1>15 DEF ReleaseDrop, Private
  <2> QED BY <1>0, <1>15, <2>1, <2>2, LockFacts DEF ReleaseDrop, Private, Same
<1>16. CASE ReleaseForget(s)
  <2>1. claim[s].name \in ToSet(claims[s]) /\ NoClaim \in Claims
    BY <1>0, <1>16 DEF ReleaseForget, MutexOK, NoClaim, Claims, Stages, Names
  <2>2. PICK c : c = RemoveFirst(claims[s], claim[s].name)
    OBVIOUS
  <2>3. c \in Seq(Name) /\ IsInjective(c)
    BY <1>0, <2>1, <2>2, RemoveFacts DEF Private
  <2>4. claims' = [claims EXCEPT ![s] = c]
    BY <1>16, <2>2 DEF ReleaseForget
  <2> QED BY <1>0, <1>16, <2>1, <2>3, <2>4, UnlockFacts DEF ReleaseForget, Private, Same
<1>17. ASSUME NEW lane \in Name, NEW unsure \in Doubts, AdmitGranted(s, lane, unsure)
       PROVE  Private' /\ \A t \in Server : t # s => Same(t)
  <2>1. "create" \in Locks
    BY DEF Locks
  <2> QED BY <1>0, <1>17, <2>1, LockFacts DEF AdmitGranted, Choose, Private, Same, Names
<1>18. ASSUME NEW lane \in Name, NEW unsure \in Doubts, AdmitRepair(s, lane, unsure)
       PROVE  Private' /\ \A t \in Server : t # s => Same(t)
  <2>1. "recheck" \in Locks
    BY DEF Locks
  <2>2. failed' \in [Server -> BOOLEAN] /\ \A t \in Server : t # s => failed'[t] = failed[t]
    <3>1. CASE Register(s, Held(s), unsure)
      BY <3>1, HeldFacts, RegisterFacts
    <3>2. CASE RegisterFails(s)
      BY <1>0, <3>2 DEF RegisterFails, Private
    <3> QED BY <1>18, <3>1, <3>2 DEF AdmitRepair
  <2> QED BY <1>0, <1>18, <2>1, <2>2, LockFacts DEF AdmitRepair, Choose, Private, Same, Names
<1>19. ASSUME NEW unsure \in Doubts, AdmitRepaired(s, unsure) PROVE Private' /\ \A t \in Server : t # s => Same(t)
  BY <1>0, <1>19 DEF AdmitRepaired, Private, Same, Locks
<1>20. ASSUME NEW unsure \in Doubts, AdmitRefuse(s, unsure) PROVE Private' /\ \A t \in Server : t # s => Same(t)
  BY <1>0, <1>20, UnlockFacts DEF AdmitRefuse, Private, Same, Names
<1>21. CASE AdmitCreate(s)
  BY <1>0, <1>21, UnlockFacts DEF AdmitCreate, Private, Same, Names
<1>22. ASSUME NEW n \in Name, Settle(s, n) PROVE Private' /\ \A t \in Server : t # s => Same(t)
  BY <1>0, <1>22 DEF Settle, Private, Same
<1>23. CASE Gone(s)
  <2>1. /\ <<>> \in Seq(Name) /\ IsInjective(<<>>) /\ [n \in Name |-> 0] \in [Name -> 0 .. MaxAsks]
        /\ NoName \in Names /\ NoClaim \in Claims /\ NoRecord \in Records /\ "free" \in Locks
    BY <1>0 DEF IsInjective, NoClaim, NoRecord, Claims, Records, Stages, Names, Locks
  <2>2. /\ up' \in [Server -> {"unborn", "up", "gone"}] /\ host' \in [Server -> BOOLEAN]
        /\ claims' \in [Server -> Seq(Name)] /\ \A t \in Server : IsInjective(claims'[t])
        /\ pending' \in [Server -> [Name -> 0 .. MaxAsks]] /\ wanted' \in [Server -> SUBSET Name]
    BY <1>0, <1>23, <2>1 DEF Gone, Private
  <2>3. /\ failed' \in [Server -> BOOLEAN] /\ snap' \in [Server -> Seq(Name)] /\ to' \in [Server -> Names]
        /\ ilock' \in [Server -> Locks] /\ claim' \in [Server -> Claims] /\ seen' \in [Server -> Records]
    BY <1>0, <1>23, <2>1 DEF Gone, Private
  <2>4. \A t \in Server : t # s => Same(t)
    BY <1>0, <1>23 DEF Gone, Private, Same
  <2> QED BY <2>2, <2>3, <2>4 DEF Private
<1>24. CASE HostDies(s)
  BY <1>0, <1>24 DEF HostDies, Private, Same
<1> QED BY <1>1, <1>2, <1>4, <1>5, <1>6, <1>7, <1>8, <1>9, <1>10, <1>11, <1>12, <1>13, <1>14, <1>15, <1>16,
           <1>17, <1>18, <1>19, <1>20, <1>21, <1>22, <1>23, <1>24
        DEF Acts, Server_, Step, Die, Unregister

----------------------------------------------------------------------------
(* What a server holds and has in hand. *)

(* A step that leaves the claims alone, and what waits and is claimed. *)
Quiet(s) ==
  /\ claims'[s] = claims[s] /\ pending'[s] = pending[s] /\ wanted'[s] = wanted[s]
  /\ seen'[s] = seen[s] /\ claim'[s] = claim[s]

(* What such a step may do with the identity lock. *)
Moves(s) ==
  \/ ilock'[s] = ilock[s] /\ snap'[s] = snap[s]
  \/ ilock'[s] = "free" /\ ilock[s] \in {"beat", "recheck", "create"}
  \/ ilock'[s] \in {"beat", "recheck", "create"} /\ snap'[s] = Held(s) /\ ilock[s] = "free"
  \/ ilock'[s] = "create" /\ ilock[s] = "recheck" /\ snap'[s] = snap[s]

LEMMA ActKinds ==
  ASSUME Type, NEW s \in Server, Acts(s)
  PROVE  \/ Quiet(s) /\ Moves(s)
         \/ Announced(s) /\ ilock[s] = "claim"
         \/ \E n \in Name : (\E w \in BOOLEAN : Ask(s, n, w)) \/ FulfilRead(s, n) \/ Cancel(s, n) \/ ReleaseDrop(s, n)
         \/ \E unsure \in Doubts : ClaimGranted(s, unsure) \/ ClaimRefused(s, unsure)
         \/ Fulfil(s) \/ FulfilSkip(s) \/ Adopt(s) \/ AnnounceClaim(s) \/ ReleaseForget(s) \/ Gone(s)
<1> USE DEF world, store, names, told, Quiet, Moves
<1>0. {"beat", "recheck", "create"} \subseteq Locks
  BY DEF Locks
<1>1. ASSUME Start(s) \/ Beat(s) PROVE Quiet(s) /\ Moves(s)
  BY <1>0, <1>1, LockFacts DEF Start, Beat
<1>2. ASSUME Announced(s), ilock[s] # "claim" PROVE Quiet(s) /\ Moves(s)
  BY <1>2, UnlockFacts DEF Announced
<1>3. ASSUME NEW lane \in Name, NEW unsure \in Doubts, AdmitGranted(s, lane, unsure) \/ AdmitRepair(s, lane, unsure)
      PROVE  Quiet(s) /\ Moves(s)
  BY <1>0, <1>3, LockFacts DEF AdmitGranted, AdmitRepair
<1>4. ASSUME NEW unsure \in Doubts, AdmitRepaired(s, unsure) PROVE Quiet(s) /\ Moves(s)
  BY <1>4 DEF AdmitRepaired, Type
<1>5. ASSUME AdmitCreate(s) \/ \E unsure \in Doubts : AdmitRefuse(s, unsure) PROVE Quiet(s) /\ Moves(s)
  BY <1>5, UnlockFacts DEF AdmitRefuse, AdmitCreate
<1>6. ASSUME HostDies(s) \/ \E n \in Name : Settle(s, n) PROVE Quiet(s) /\ Moves(s)
  BY <1>6 DEF HostDies, Settle
<1> HIDE DEF Quiet, Moves
<1> QED BY <1>1, <1>2, <1>3, <1>4, <1>5, <1>6
        DEF Acts, Server_, Step, Die, Unregister, Announce, AnnounceFails

LEMMA MutexStep ==
  ASSUME Type, NEW s \in Server, MutexOK(s), Acts(s)
  PROVE  MutexOK(s)'
<1> USE DEF world, store, names, told
<1>0. /\ claim \in [Server -> Claims] /\ claims \in [Server -> Seq(Name)] /\ seen \in [Server -> Records]
      /\ ilock \in [Server -> Locks] /\ snap \in [Server -> Seq(Name)]
      /\ pending \in [Server -> [Name -> 0 .. MaxAsks]] /\ asks \in Nat
  BY BoundAssumption DEF Type
<1>1. ASSUME claims'[s] = claims[s] PROVE Held(s)' = Held(s)
  BY <1>1 DEF Held, Ordered
<1>2. CASE Quiet(s) /\ Moves(s)
  BY <1>1, <1>2 DEF MutexOK, Quiet, Moves
<1>3. CASE Announced(s) /\ ilock[s] = "claim"
  <2>1. ilock'[s] = "free" /\ claim'[s] = NoClaim /\ seen'[s] = seen[s]
    BY <1>0, <1>3, UnlockFacts DEF Announced
  <2> QED BY <2>1 DEF MutexOK, NoClaim
<1>4. ASSUME NEW n \in Name, NEW w \in BOOLEAN, Ask(s, n, w) PROVE MutexOK(s)'
  <2>1. claim'[s] = [at |-> "claim", name |-> n, rec |-> asks + 1, wait |-> w] /\ claim[s] = NoClaim
    BY <1>0, <1>4 DEF Ask
  <2>2. asks + 1 # 0
    BY <1>0
  <2> QED BY <1>0, <1>1, <1>4, <2>1, <2>2 DEF Ask, MutexOK, NoClaim
<1>5. ASSUME NEW n \in Name, FulfilRead(s, n) PROVE MutexOK(s)'
  <2>1. seen'[s] = [name |-> n, rec |-> pending[s][n]] /\ pending[s][n] # 0
    BY <1>0, <1>5 DEF FulfilRead
  <2> QED BY <1>0, <1>1, <1>5, <2>1 DEF FulfilRead, MutexOK
<1>6. ASSUME NEW n \in Name, Cancel(s, n) PROVE MutexOK(s)'
  BY <1>1, <1>6 DEF Cancel, MutexOK
<1>7. ASSUME NEW n \in Name, ReleaseDrop(s, n) PROVE MutexOK(s)'
  <2>1. claim'[s] = [at |-> "release", name |-> n, rec |-> 0, wait |-> FALSE] /\ n \in ToSet(claims[s])
    BY <1>0, <1>7 DEF ReleaseDrop
  <2>2. ilock'[s] = "release" /\ snap'[s] = Held(s)
    BY <1>7, LockFacts DEF ReleaseDrop, Locks
  <2> QED BY <1>1, <1>7, <2>1, <2>2 DEF ReleaseDrop, MutexOK
<1>8. ASSUME NEW unsure \in Doubts, ClaimGranted(s, unsure) PROVE MutexOK(s)'
  <2>1. claim'[s].at = "adopt" /\ claim'[s].name = claim[s].name /\ claim[s].at = "claim"
    BY <1>0, <1>8 DEF ClaimGranted, Claims
  <2> QED BY <1>1, <1>8, <2>1 DEF ClaimGranted, MutexOK
<1>9. ASSUME NEW unsure \in Doubts, ClaimRefused(s, unsure) PROVE MutexOK(s)'
  <2>1. claim'[s] = NoClaim /\ claim[s].at = "claim"
    BY <1>0, <1>9 DEF ClaimRefused
  <2> QED BY <1>1, <1>9, <2>1 DEF ClaimRefused, MutexOK, NoClaim
<1>10. CASE Fulfil(s)
  <2>1. claim'[s] = [at |-> "claim", name |-> seen[s].name, rec |-> seen[s].rec, wait |-> FALSE]
        /\ seen'[s] = NoRecord /\ claim[s] = NoClaim
    BY <1>0, <1>10 DEF Fulfil
  <2> QED BY <1>1, <1>10, <2>1 DEF Fulfil, MutexOK, NoClaim
<1>11. CASE FulfilSkip(s)
  <2>1. seen'[s] = NoRecord
    BY <1>0, <1>11 DEF FulfilSkip
  <2> QED BY <1>1, <1>11, <2>1 DEF FulfilSkip, MutexOK
<1>12. CASE Adopt(s)
  <2>1. claim[s].at = "adopt" /\ claim[s].name \in Name /\ claim'[s].at = "announce" /\ claim'[s].name = claim[s].name
    BY <1>0, <1>12 DEF Adopt, MutexOK, Claims
  <2>2. claim[s].name \in ToSet(claims'[s])
    <3>1. CASE claim[s].name \in ToSet(claims[s])
      BY <1>12, <3>1 DEF Adopt
    <3>2. CASE claim[s].name \notin ToSet(claims[s])
      <4>1. PICK c : c = Append(claims[s], claim[s].name)
        OBVIOUS
      <4>2. claims'[s] = c
        BY <1>0, <1>12, <3>2, <4>1 DEF Adopt
      <4>3. claim[s].name \in ToSet(c)
        BY <1>0, <2>1, <3>2, <4>1, AppendFacts DEF Type
      <4> QED BY <4>2, <4>3
    <3> QED BY <3>1, <3>2
  <2> QED BY <1>12, <2>1, <2>2 DEF Adopt, MutexOK
<1>13. CASE AnnounceClaim(s)
  <2>1. ilock'[s] = "claim" /\ snap'[s] = Held(s)
    BY <1>13, LockFacts DEF AnnounceClaim, Locks
  <2> QED BY <1>1, <1>13, <2>1 DEF AnnounceClaim, MutexOK
<1>14. CASE ReleaseForget(s)
  <2>1. ilock'[s] = "free" /\ claim'[s] = NoClaim /\ seen'[s] = seen[s]
    BY <1>0, <1>14, UnlockFacts DEF ReleaseForget
  <2> QED BY <2>1 DEF MutexOK, NoClaim
<1>15. CASE Gone(s)
  <2>1. ilock'[s] = "free" /\ claim'[s] = NoClaim /\ seen'[s] = NoRecord
    BY <1>0, <1>15 DEF Gone
  <2> QED BY <2>1 DEF MutexOK, NoClaim
<1> QED BY <1>2, <1>3, <1>4, <1>5, <1>6, <1>7, <1>8, <1>9, <1>10, <1>11, <1>12, <1>13, <1>14, <1>15, ActKinds

LEMMA TakenFacts ==
  ASSUME Type, NEW s \in Server, MutexOK(s)
  PROVE  /\ Taken(s) \in SUBSET Name /\ ToSet(claims[s]) \in SUBSET Name /\ IsFiniteSet(Taken(s))
         /\ Cardinality(Taken(s)) \in Nat /\ MaxClaims \in Nat
         /\ \A T \in SUBSET Taken(s) : Cardinality(T) <= Cardinality(Taken(s)) /\ Cardinality(T) \in Nat
<1>1. Taken(s) \in SUBSET Name /\ ToSet(claims[s]) \in SUBSET Name
  BY SeqFacts DEF Type, Taken, Waiting, After, MutexOK
<1>2. IsFiniteSet(Taken(s))
  BY <1>1, NameAssumption, FS_Subset
<1>3. Cardinality(Taken(s)) \in Nat
  BY <1>2, FS_CardinalityType
<1>4. \A T \in SUBSET Taken(s) : Cardinality(T) <= Cardinality(Taken(s)) /\ Cardinality(T) \in Nat
  BY <1>2, FS_Subset, FS_CardinalityType
<1> QED BY <1>1, <1>2, <1>3, <1>4, BoundAssumption

LEMMA WantsStep ==
  ASSUME Type, NEW s \in Server, MutexOK(s), WantsOK(s), Acts(s)
  PROVE  WantsOK(s)'
<1> USE DEF world, store, names, told
<1>0. /\ claim \in [Server -> Claims] /\ claims \in [Server -> Seq(Name)]
      /\ pending \in [Server -> [Name -> 0 .. MaxAsks]] /\ wanted \in [Server -> SUBSET Name]
  BY DEF Type
<1>1. ASSUME Taken(s)' \in SUBSET Taken(s) PROVE Cardinality(Taken(s)') <= MaxClaims
  BY <1>1, TakenFacts DEF WantsOK
<1>2. CASE Quiet(s) /\ Moves(s)
  BY <1>2 DEF Quiet, WantsOK, Taken, Waiting, After, GivingUp
<1>3. CASE Announced(s) /\ ilock[s] = "claim"
  <2>1. claim[s].at = "announce" /\ claim'[s] = NoClaim
    BY <1>0, <1>3 DEF Announced, MutexOK
  <2>2. After(s) = {} /\ After(s)' = {} /\ GivingUp(s) = {} /\ GivingUp(s)' = {}
    BY <2>1 DEF After, GivingUp, NoClaim
  <2>3. Taken(s)' = Taken(s)
    BY <1>3, <2>2 DEF Announced, Taken, Waiting
  <2> QED BY <1>1, <1>3, <2>2, <2>3 DEF Announced, WantsOK
<1>4. ASSUME NEW n \in Name, NEW w \in BOOLEAN, Ask(s, n, w) PROVE WantsOK(s)'
  <2>1. claim'[s].at = "claim" /\ claim'[s].name = n /\ claim[s] = NoClaim /\ wanted'[s] = wanted[s] \cup {n}
    BY <1>0, <1>4 DEF Ask
  <2>2. After(s) = {} /\ After(s)' = {n} /\ GivingUp(s) = {} /\ GivingUp(s)' = {}
    BY <2>1 DEF After, GivingUp, NoClaim
  <2>3. Taken(s)' = Taken(s) \cup {n} /\ claims' = claims /\ pending' = pending
    BY <1>4, <2>2 DEF Ask, Taken, Waiting
  <2>4. n \in Taken(s) \/ Cardinality(Taken(s)) < MaxClaims
    BY <1>4, <2>2 DEF Ask, HasCapacity, Taken
  <2>5. Cardinality(Taken(s)') <= MaxClaims
    <3>1. CASE n \in Taken(s)
      BY <1>1, <2>3, <3>1
    <3>2. CASE n \notin Taken(s)
      <4>1. Cardinality(Taken(s) \cup {n}) = Cardinality(Taken(s)) + 1
        BY <3>2, TakenFacts, FS_AddElement
      <4> QED BY <2>3, <2>4, <3>2, <4>1, TakenFacts
    <3> QED BY <3>1, <3>2
  <2> QED BY <2>1, <2>2, <2>3, <2>5 DEF WantsOK
<1>5. ASSUME NEW n \in Name, FulfilRead(s, n) PROVE WantsOK(s)'
  BY <1>5 DEF FulfilRead, WantsOK, Taken, Waiting, After, GivingUp
<1>6. ASSUME NEW n \in Name, Cancel(s, n) PROVE WantsOK(s)'
  <2>1. /\ claim[s] = NoClaim /\ claim' = claim /\ claims' = claims /\ wanted'[s] = wanted[s] \ {n} /\ pending[s][n] # 0
        /\ \A m \in Name : pending'[s][m] = IF m = n THEN 0 ELSE pending[s][m]
    BY <1>0, <1>6 DEF Cancel
  <2>2. After(s) = {} /\ After(s)' = {} /\ GivingUp(s) = {} /\ GivingUp(s)' = {}
    BY <2>1 DEF After, GivingUp, NoClaim
  <2>3. Taken(s)' = Taken(s) \ {n}
    BY <2>1, <2>2 DEF Taken, Waiting, WantsOK
  <2>4. \A m \in ToSet(claims'[s]) : pending'[s][m] = 0
    BY <2>1, TakenFacts DEF WantsOK
  <2> QED BY <1>1, <2>1, <2>2, <2>3, <2>4 DEF WantsOK
<1>7. ASSUME NEW n \in Name, ReleaseDrop(s, n) PROVE WantsOK(s)'
  <2>1. claim'[s].at = "release" /\ claim'[s].name = n /\ claim[s] = NoClaim /\ wanted'[s] = wanted[s] \ {n}
        /\ claims' = claims /\ pending' = pending
    BY <1>0, <1>7 DEF ReleaseDrop
  <2>2. After(s) = {} /\ After(s)' = {} /\ GivingUp(s) = {} /\ GivingUp(s)' = {n}
    BY <2>1 DEF After, GivingUp, NoClaim
  <2> QED BY <2>1, <2>2 DEF WantsOK, Taken, Waiting
<1>8. ASSUME NEW unsure \in Doubts, ClaimGranted(s, unsure) PROVE WantsOK(s)'
  <2>1. claim'[s].at = "adopt" /\ claim'[s].name = claim[s].name /\ claim[s].at = "claim"
    BY <1>0, <1>8 DEF ClaimGranted, Claims
  <2> QED BY <1>8, <2>1 DEF ClaimGranted, WantsOK, Taken, Waiting, After, GivingUp
<1>9. ASSUME NEW unsure \in Doubts, ClaimRefused(s, unsure) PROVE WantsOK(s)'
  <2>0. PICK n \in Name : n = claim[s].name
    BY <1>9 DEF ClaimRefused, MutexOK
  <2>1. claim'[s] = NoClaim /\ claim[s].at = "claim" /\ claims' = claims /\ claim[s].rec # 0
    BY <1>0, <1>9 DEF ClaimRefused, MutexOK
  <2>2. After(s) = {n} /\ After(s)' = {} /\ GivingUp(s) = {} /\ GivingUp(s)' = {}
    BY <2>0, <2>1 DEF After, GivingUp, NoClaim
  <2>3. CASE n \notin ToSet(claims[s]) /\ pending' = [pending EXCEPT ![s][n] = claim[s].rec] /\ wanted' = wanted
    <3>1. /\ pending'[s][n] # 0 /\ \A m \in Name : m # n => pending'[s][m] = pending[s][m]
      BY <1>0, <2>1, <2>3
    <3>2. Taken(s)' = Taken(s)
      BY <2>1, <2>2, <3>1 DEF Taken, Waiting
    <3>3. \A m \in ToSet(claims'[s]) : pending'[s][m] = 0
      BY <2>1, <2>3, <3>1, TakenFacts DEF WantsOK
    <3> QED BY <1>1, <2>2, <2>3, <3>2, <3>3 DEF WantsOK
  <2>4. CASE n \in ToSet(claims[s]) \cup Waiting(s) /\ pending' = pending /\ wanted' = wanted
    <3>1. Taken(s)' = Taken(s)
      BY <2>1, <2>2, <2>4 DEF Taken, Waiting
    <3> QED BY <1>1, <2>1, <2>2, <2>4, <3>1 DEF WantsOK
  <2>5. CASE n \notin ToSet(claims[s]) \cup Waiting(s) /\ pending' = pending /\ wanted' = [wanted EXCEPT ![s] = @ \ {n}]
    <3>1. Taken(s)' = Taken(s) \ {n} /\ wanted'[s] = wanted[s] \ {n}
      BY <1>0, <2>1, <2>2, <2>5 DEF Taken, Waiting
    <3> QED BY <1>1, <2>1, <2>2, <2>5, <3>1 DEF WantsOK
  <2> QED BY <1>9, <2>0, <2>3, <2>4, <2>5 DEF ClaimRefused
<1>10. CASE Fulfil(s)
  <2>1. claim'[s].at = "claim" /\ claim'[s].name = seen[s].name /\ claim[s] = NoClaim /\ pending[s][seen[s].name] # 0
        /\ seen[s].name \in Name /\ pending' = pending /\ claims' = claims /\ wanted' = wanted
    BY <1>0, <1>10 DEF Fulfil, SameRecord, MutexOK
  <2>2. After(s) = {} /\ After(s)' = {seen[s].name} /\ GivingUp(s) = {} /\ GivingUp(s)' = {}
    BY <2>1 DEF After, GivingUp, NoClaim
  <2>3. Taken(s)' = Taken(s)
    BY <2>1, <2>2 DEF Taken, Waiting
  <2> QED BY <1>1, <2>1, <2>2, <2>3 DEF WantsOK
<1>11. CASE FulfilSkip(s)
  BY <1>11 DEF FulfilSkip, WantsOK, Taken, Waiting, After, GivingUp
<1>12. CASE Adopt(s)
  <2>0. PICK n \in Name : n = claim[s].name
    BY <1>12 DEF Adopt, MutexOK
  <2>1. claim[s].at = "adopt" /\ claim'[s].at = "announce" /\ wanted' = wanted
    BY <1>0, <1>12 DEF Adopt, Claims
  <2>2. After(s) = {n} /\ After(s)' = {} /\ GivingUp(s) = {} /\ GivingUp(s)' = {}
    BY <2>0, <2>1 DEF After, GivingUp
  <2>3. ToSet(claims'[s]) = ToSet(claims[s]) \cup {n}
    <3>1. CASE n \in ToSet(claims[s])
      BY <1>12, <2>0, <3>1 DEF Adopt
    <3>2. CASE n \notin ToSet(claims[s])
      <4>1. PICK c : c = Append(claims[s], n)
        OBVIOUS
      <4>2. claims'[s] = c
        BY <1>0, <1>12, <2>0, <3>2, <4>1 DEF Adopt
      <4>3. ToSet(c) = ToSet(claims[s]) \cup {n}
        BY <1>0, <3>2, <4>1, AppendFacts DEF Type
      <4> QED BY <4>2, <4>3
    <3> QED BY <3>1, <3>2
  <2>4. \A m \in Name : pending'[s][m] = IF m = n THEN 0 ELSE pending[s][m]
    BY <1>0, <1>12, <2>0 DEF Adopt
  <2>5. Taken(s)' = Taken(s)
    BY <2>2, <2>3, <2>4 DEF Taken, Waiting
  <2>6. \A m \in ToSet(claims'[s]) : pending'[s][m] = 0
    BY <2>3, <2>4, TakenFacts DEF WantsOK
  <2> QED BY <1>1, <2>1, <2>2, <2>5, <2>6 DEF WantsOK
<1>13. CASE AnnounceClaim(s)
  BY <1>13 DEF AnnounceClaim, WantsOK, Taken, Waiting, After, GivingUp
<1>14. CASE ReleaseForget(s)
  <2>0. PICK n \in Name : n = claim[s].name /\ n \in ToSet(claims[s])
    BY <1>14 DEF ReleaseForget, MutexOK
  <2>1. claim[s].at = "release" /\ claim'[s] = NoClaim /\ wanted' = wanted /\ pending' = pending
    BY <1>0, <1>14 DEF ReleaseForget, MutexOK
  <2>2. After(s) = {} /\ After(s)' = {} /\ GivingUp(s) = {n} /\ GivingUp(s)' = {}
    BY <2>0, <2>1 DEF After, GivingUp, NoClaim
  <2>3. PICK c : c = RemoveFirst(claims[s], n)
    OBVIOUS
  <2>4. claims'[s] = c
    BY <1>0, <1>14, <2>0, <2>3 DEF ReleaseForget
  <2>5. ToSet(c) = ToSet(claims[s]) \ {n}
    BY <1>0, <2>0, <2>3, RemoveFacts DEF Type
  <2>6. Taken(s)' = Taken(s) \ {n}
    BY <2>0, <2>1, <2>2, <2>4, <2>5 DEF Taken, Waiting, WantsOK
  <2> QED BY <1>1, <2>1, <2>2, <2>4, <2>5, <2>6 DEF WantsOK
<1>15. CASE Gone(s)
  <2>1. claims'[s] = <<>> /\ (\A n \in Name : pending'[s][n] = 0) /\ wanted'[s] = {} /\ claim'[s] = NoClaim
    BY <1>0, <1>15 DEF Gone
  <2>2. ToSet(claims'[s]) = {} /\ Taken(s)' = {} /\ GivingUp(s)' = {}
    BY <2>1 DEF Taken, Waiting, After, GivingUp, NoClaim, ToSet
  <2> QED BY <1>1, <2>1, <2>2 DEF WantsOK
<1> QED BY <1>2, <1>3, <1>4, <1>5, <1>6, <1>7, <1>8, <1>9, <1>10, <1>11, <1>12, <1>13, <1>14, <1>15, ActKinds

----------------------------------------------------------------------------
(* The rows a server has are for lanes it answers to. *)

LEMMA AnswersGrow ==
  ASSUME Type, NEW s \in Server, MutexOK(s), Acts(s)
  PROVE  Gone(s) \/ (\E n \in Name : ReleaseDrop(s, n)) \/ Answers(s) \in SUBSET Answers(s)'
<1> USE DEF world, store, names, told
<1>0. claim \in [Server -> Claims] /\ claims \in [Server -> Seq(Name)] /\ ToSet(claims[s]) \in SUBSET Name
  BY TakenFacts DEF Type
<1>1. CASE Quiet(s)
  BY <1>1 DEF Quiet, Answers, GivingUp
<1>2. CASE Announced(s) /\ ilock[s] = "claim"
  <2>1. claim[s].at = "announce" /\ claim'[s] = NoClaim
    BY <1>0, <1>2 DEF Announced, MutexOK
  <2> QED BY <1>2, <2>1 DEF Announced, Answers, GivingUp, NoClaim
<1>3. ASSUME NEW n \in Name, NEW w \in BOOLEAN, Ask(s, n, w) PROVE Answers(s) \in SUBSET Answers(s)'
  <2>1. claim'[s].at = "claim" /\ claim[s] = NoClaim
    BY <1>0, <1>3 DEF Ask
  <2> QED BY <1>3, <2>1 DEF Ask, Answers, GivingUp, NoClaim
<1>4. ASSUME NEW n \in Name, FulfilRead(s, n) \/ Cancel(s, n) PROVE Answers(s) \in SUBSET Answers(s)'
  BY <1>4 DEF FulfilRead, Cancel, Answers, GivingUp
<1>5. ASSUME NEW unsure \in Doubts, ClaimGranted(s, unsure) PROVE Answers(s) \in SUBSET Answers(s)'
  <2>1. claim'[s].at = "adopt" /\ claim'[s].name = claim[s].name /\ claim[s].at = "claim"
    BY <1>0, <1>5 DEF ClaimGranted, Claims
  <2> QED BY <1>5, <2>1 DEF ClaimGranted, Answers, GivingUp
<1>6. ASSUME NEW unsure \in Doubts, ClaimRefused(s, unsure) PROVE Answers(s) \in SUBSET Answers(s)'
  <2>1. claim'[s] = NoClaim /\ claim[s].at = "claim" /\ claims' = claims
    BY <1>0, <1>6 DEF ClaimRefused
  <2> QED BY <2>1 DEF Answers, GivingUp, NoClaim
<1>7. CASE Fulfil(s)
  <2>1. claim'[s].at = "claim" /\ claim[s] = NoClaim /\ claims' = claims
    BY <1>0, <1>7 DEF Fulfil
  <2> QED BY <2>1 DEF Answers, GivingUp, NoClaim
<1>8. CASE FulfilSkip(s) \/ AnnounceClaim(s)
  BY <1>8 DEF FulfilSkip, AnnounceClaim, Answers, GivingUp
<1>9. CASE Adopt(s)
  <2>0. PICK n \in Name : n = claim[s].name
    BY <1>9 DEF Adopt, MutexOK
  <2>1. claim[s].at = "adopt" /\ claim'[s].at = "announce"
    BY <1>0, <1>9 DEF Adopt, Claims
  <2>2. ToSet(claims'[s]) = ToSet(claims[s]) \cup {n}
    <3>1. CASE n \in ToSet(claims[s])
      BY <1>9, <2>0, <3>1 DEF Adopt
    <3>2. CASE n \notin ToSet(claims[s])
      <4>1. PICK c : c = Append(claims[s], n)
        OBVIOUS
      <4>2. claims'[s] = c
        BY <1>0, <1>9, <2>0, <3>2, <4>1 DEF Adopt
      <4>3. ToSet(c) = ToSet(claims[s]) \cup {n}
        BY <1>0, <3>2, <4>1, AppendFacts DEF Type
      <4> QED BY <4>2, <4>3
    <3> QED BY <3>1, <3>2
  <2> QED BY <2>0, <2>1, <2>2 DEF Answers, GivingUp
<1>10. CASE ReleaseForget(s)
  <2>0. PICK n \in Name : n = claim[s].name /\ n \in ToSet(claims[s])
    BY <1>0, <1>10 DEF ReleaseForget, MutexOK
  <2>1. claim[s].at = "release" /\ claim'[s] = NoClaim
    BY <1>0, <1>10 DEF ReleaseForget, MutexOK
  <2>2. PICK c : c = RemoveFirst(claims[s], n)
    OBVIOUS
  <2>3. claims'[s] = c
    BY <1>0, <1>10, <2>0, <2>2 DEF ReleaseForget
  <2>4. ToSet(c) = ToSet(claims[s]) \ {n}
    BY <1>0, <2>0, <2>2, RemoveFacts DEF Type
  <2> QED BY <2>0, <2>1, <2>3, <2>4 DEF Answers, GivingUp, NoClaim
<1> QED BY <1>1, <1>2, <1>3, <1>4, <1>5, <1>6, <1>7, <1>8, <1>9, <1>10, ActKinds

(* The lanes a registration asks for: what is held, and a name being claimed. *)
Asked(s) == ToSet(Held(s)) \cup (IF claim'[s].at = "adopt" THEN {claim'[s].name} ELSE {})

LEMMA RowKinds ==
  ASSUME Type, NEW s \in Server, MutexOK(s), Acts(s)
  PROVE  /\ row' \in [Server -> [Name -> Nat]]
         /\ \/ row' = row
            \/ /\ Up(s) /\ ilock[s] # "release" /\ claims' = claims /\ UNCHANGED <<world, owed, doomed>>
               /\ claim'[s] = claim[s] \/ claim'[s] = NoClaim \/ claim'[s].at = "adopt"
               /\ Asked(s) \in SUBSET Name /\ \E N \in SUBSET Asked(s) : Takes(s, N)
            \/ \E n \in Name : ReleaseDrop(s, n)
            \/ Unregister(s)
<1> USE DEF world, store, names, told
<1>0. /\ claim \in [Server -> Claims] /\ claims \in [Server -> Seq(Name)] /\ row \in [Server -> [Name -> Nat]]
      /\ Held(s) \in Seq(Name) /\ IsInjective(Held(s)) /\ ToSet(Held(s)) \in SUBSET Name
  BY HeldFacts, SeqFacts DEF Type
<1>1. ASSUME NEW unsure \in Doubts, Announce(s, unsure), Up(s)
      PROVE  /\ row' \in [Server -> [Name -> Nat]]
             /\ ilock[s] # "release" /\ claims' = claims /\ UNCHANGED <<world, owed, doomed>>
             /\ claim'[s] = claim[s] \/ claim'[s] = NoClaim
             /\ \E N \in SUBSET ToSet(Held(s)) : Takes(s, N)
  <2>1. snap[s] = Held(s) /\ claims' = claims /\ UNCHANGED world /\ (claim'[s] = claim[s] \/ claim'[s] = NoClaim)
        /\ ilock[s] # "release"
    BY <1>0, <1>1 DEF Announce, Announced, MutexOK
  <2>2. Register(s, Held(s), unsure)
    BY <1>1, <2>1 DEF Announce
  <2> QED BY <1>0, <2>1, <2>2, RegisterFacts
<1>2. ASSUME NEW lane \in Name, NEW unsure \in Doubts, AdmitRepair(s, lane, unsure), Up(s)
      PROVE  /\ row' \in [Server -> [Name -> Nat]]
             /\ \/ row' = row
                \/ /\ ilock[s] # "release" /\ claims' = claims /\ UNCHANGED <<world, owed, doomed>>
                   /\ claim'[s] = claim[s] /\ \E N \in SUBSET ToSet(Held(s)) : Takes(s, N)
  <2>1. ilock[s] = "free" /\ claims' = claims /\ UNCHANGED world /\ claim' = claim
    BY <1>2 DEF AdmitRepair, LockIdentity
  <2>2. CASE Register(s, Held(s), unsure)
    BY <1>0, <2>1, <2>2, RegisterFacts
  <2>3. CASE RegisterFails(s)
    BY <1>0, <2>3 DEF RegisterFails
  <2> QED BY <1>2, <2>2, <2>3 DEF AdmitRepair
<1>3. ASSUME NEW unsure \in Doubts, ClaimGranted(s, unsure), Up(s)
      PROVE  /\ row' \in [Server -> [Name -> Nat]]
             /\ ilock[s] # "release" /\ claims' = claims /\ UNCHANGED <<world, owed, doomed>> /\ claim'[s].at = "adopt"
             /\ Asked(s) \in SUBSET Name /\ \E N \in SUBSET Asked(s) : Takes(s, N)
  <2>0. PICK n \in Name : n = claim[s].name
    BY <1>3 DEF ClaimGranted, MutexOK
  <2>1. /\ claim[s].at = "claim" /\ claim'[s].at = "adopt" /\ claim'[s].name = n /\ claims' = claims
        /\ UNCHANGED <<world, owed, doomed>> /\ ilock[s] # "release"
    BY <1>0, <1>3, <2>0 DEF ClaimGranted, Claims, MutexOK
  <2>2. PICK order : order = ClaimOrder(s, n)
    OBVIOUS
  <2>3. order \in Seq(Name) /\ IsInjective(order) /\ ToSet(order) = ToSet(Held(s)) \cup {n} /\ ToSet(order) \in SUBSET Name
    <3>1. order \in Seq(Name) /\ IsInjective(order) /\ ToSet(order) = ToSet(claims[s]) \cup {n} \cup ({Own[s]} \cap Name)
      BY <2>2, ClaimOrderFacts
    <3>2. ToSet(Held(s)) = ToSet(claims[s]) \cup ({Own[s]} \cap Name)
      BY HeldFacts
    <3> QED BY <1>0, <3>1, <3>2
  <2>4. Allowed(s, order, unsure) = ToSet(order) /\ row' = Acquired(s, order, ToSet(order))
    BY <1>3, <2>0, <2>2 DEF ClaimGranted
  <2>5. row' \in [Server -> [Name -> Nat]] /\ Takes(s, ToSet(order))
    <3>1. \A m \in ToSet(order) : Unkept(s, m)
      BY <2>4, UnkeptUnlessRefused DEF Allowed
    <3>2. PICK N \in SUBSET ToSet(order) : N = ToSet(order)
      OBVIOUS
    <3>3. row' = Acquired(s, order, N)
      BY <2>4, <3>2
    <3>4. /\ row' \in [Server -> [Name -> Nat]]
          /\ \A m \in Name : row'[s][m] # 0 <=> row[s][m] # 0 \/ m \in N
          /\ \A t \in Server, m \in Name : t # s => row'[t][m] = IF Loses(s, t, m, N) THEN 0 ELSE row[t][m]
      BY <2>3, <3>3, AcquiredFacts
    <3> QED BY <3>1, <3>2, <3>4 DEF Takes
  <2>6. Asked(s) = ToSet(order)
    BY <2>1, <2>3 DEF Asked
  <2> QED BY <2>1, <2>3, <2>5, <2>6
<1>4. ASSUME NEW n \in Name, ReleaseDrop(s, n) PROVE row' \in [Server -> [Name -> Nat]]
  <2>1. CASE n = Own[s]
    <3>1. RemoveFirst(claims[s], n) \in Seq(Name) /\ IsInjective(RemoveFirst(claims[s], n))
      BY <1>0, <1>4, RemoveFacts DEF ReleaseDrop, Type
    <3>2. Ordered(s, RemoveFirst(claims[s], n)) \in Seq(Name) /\ IsInjective(Ordered(s, RemoveFirst(claims[s], n)))
      BY <3>1, OrderedFacts
    <3> QED BY <1>4, <2>1, <3>2, RerankFacts DEF ReleaseDrop
  <2>2. CASE n # Own[s]
    BY <1>0, <1>4, <2>2 DEF ReleaseDrop
  <2> QED BY <2>1, <2>2
<1>5. ASSUME Unregister(s) PROVE row' \in [Server -> [Name -> Nat]]
  BY <1>0, <1>5 DEF Unregister
<1>6. \/ row' = row
      \/ Up(s) /\ \E unsure \in Doubts : \/ Announce(s, unsure) \/ ClaimGranted(s, unsure)
                                         \/ \E lane \in Name : AdmitRepair(s, lane, unsure)
      \/ \E n \in Name : ReleaseDrop(s, n)
      \/ Unregister(s)
  BY DEF Acts, Server_, Step, Start, Beat, AnnounceFails, RegisterFails, Ask, FulfilRead, Cancel, Settle, Fulfil, FulfilSkip,
         Adopt, AnnounceClaim, ReleaseForget, AdmitCreate, Die, HostDies, ClaimRefused, AdmitGranted,
         AdmitRepaired, AdmitRefuse
<1>7. ASSUME claim'[s] = claim[s] \/ claim'[s] = NoClaim
      PROVE  Asked(s) \in SUBSET Name /\ ToSet(Held(s)) \in SUBSET Asked(s)
  <2>1. claim'[s].at = "adopt" => claim'[s].name \in Name
    BY <1>7 DEF MutexOK, NoClaim
  <2> QED BY <1>0, <2>1 DEF Asked
<1>8. CASE row' = row
  BY <1>0, <1>8
<1>9. ASSUME Up(s), NEW unsure \in Doubts, Announce(s, unsure) \/ \E lane \in Name : AdmitRepair(s, lane, unsure)
      PROVE  /\ row' \in [Server -> [Name -> Nat]]
             /\ \/ row' = row
                \/ /\ ilock[s] # "release" /\ claims' = claims /\ UNCHANGED <<world, owed, doomed>>
                   /\ claim'[s] = claim[s] \/ claim'[s] = NoClaim
                   /\ Asked(s) \in SUBSET Name /\ \E N \in SUBSET Asked(s) : Takes(s, N)
  <2>1. /\ row' \in [Server -> [Name -> Nat]]
        /\ \/ row' = row
           \/ /\ ilock[s] # "release" /\ claims' = claims /\ UNCHANGED <<world, owed, doomed>>
              /\ claim'[s] = claim[s] \/ claim'[s] = NoClaim
              /\ \E N \in SUBSET ToSet(Held(s)) : Takes(s, N)
    BY <1>1, <1>2, <1>9
  <2> QED BY <1>7, <2>1
<1>10. CASE Up(s) /\ \E unsure \in Doubts : ClaimGranted(s, unsure)
  <2>1. /\ row' \in [Server -> [Name -> Nat]]
        /\ ilock[s] # "release" /\ claims' = claims /\ UNCHANGED <<world, owed, doomed>> /\ claim'[s].at = "adopt"
        /\ Asked(s) \in SUBSET Name /\ \E N \in SUBSET Asked(s) : Takes(s, N)
    BY <1>3, <1>10
  <2> QED BY <1>10, <2>1
<1>11. CASE Up(s) /\ \E unsure \in Doubts : Announce(s, unsure) \/ \E lane \in Name : AdmitRepair(s, lane, unsure)
  BY <1>9, <1>11
<1>12. CASE (\E n \in Name : ReleaseDrop(s, n)) \/ Unregister(s)
  BY <1>4, <1>5, <1>12
<1> QED BY <1>6, <1>8, <1>10, <1>11, <1>12

(* What a release does to the rows. *)
LEMMA DropFacts ==
  ASSUME Type, NEW s \in Server, NEW n \in Name, ReleaseDrop(s, n)
  PROVE  LET left == Ordered(s, RemoveFirst(claims[s], n))
         IN /\ left \in Seq(Name) /\ IsInjective(left)
            /\ n = Own[s] => /\ RankedBy(row'[s], left)
                             /\ \A m \in Name : row'[s][m] = 0 <=> row[s][m] = 0
                             /\ \A t \in Server : t # s => row'[t] = row[t]
            /\ n # Own[s] => \A t \in Server, m \in Name :
                 row'[t][m] = IF Pid[t] = Pid[s] /\ m = n THEN 0 ELSE row[t][m]
<1>0. claims[s] \in Seq(Name) /\ IsInjective(claims[s]) /\ row \in [Server -> [Name -> Nat]] /\ n \in ToSet(claims[s])
  BY DEF Type, ReleaseDrop
<1>1. PICK left : left = Ordered(s, RemoveFirst(claims[s], n))
  OBVIOUS
<1>2. left \in Seq(Name) /\ IsInjective(left)
  <2>1. PICK c : c = RemoveFirst(claims[s], n)
    OBVIOUS
  <2>2. c \in Seq(Name) /\ IsInjective(c)
    BY <1>0, <2>1, RemoveFacts
  <2> QED BY <1>1, <2>1, <2>2, OrderedFacts
<1>3. ASSUME n = Own[s]
      PROVE  /\ RankedBy(row'[s], left) /\ \A m \in Name : row'[s][m] = 0 <=> row[s][m] = 0
             /\ \A t \in Server : t # s => row'[t] = row[t]
  <2>1. PICK r : r = Rerank(s, left)
    OBVIOUS
  <2>2. row' = r
    BY <1>1, <1>3, <2>1 DEF ReleaseDrop
  <2>3. /\ \A t \in Server : t # s => r[t] = row[t]
        /\ \A m \in Name : r[s][m] = 0 <=> row[s][m] = 0
        /\ \A m \in ToSet(left) : r[s][m] \in {0, Place(left, m)}
    BY <1>2, <2>1, RerankFacts
  <2>4. RankedBy(r[s], left)
    BY <1>2, <2>3, RankedByPlace
  <2> QED BY <2>2, <2>3, <2>4
<1>4. ASSUME n # Own[s], NEW t \in Server, NEW m \in Name
      PROVE  row'[t][m] = IF Pid[t] = Pid[s] /\ m = n THEN 0 ELSE row[t][m]
  BY <1>0, <1>4 DEF ReleaseDrop
<1> QED BY <1>1, <1>2, <1>3, <1>4

(* Nobody gives another server a row. *)
LEMMA RowsOfOthers ==
  ASSUME Type, NEW s \in Server, MutexOK(s), Acts(s), NEW t \in Server, t # s, NEW m \in Name
  PROVE  row'[t][m] = row[t][m] \/ row'[t][m] = 0
<1>0. row \in [Server -> [Name -> Nat]]
  BY DEF Type
<1>1. ASSUME NEW N, Takes(s, N) PROVE row'[t][m] = row[t][m] \/ row'[t][m] = 0
  BY <1>1 DEF Takes
<1>2. ASSUME NEW n \in Name, ReleaseDrop(s, n) PROVE row'[t][m] = row[t][m] \/ row'[t][m] = 0
  BY <1>2, DropFacts
<1>3. CASE Unregister(s)
  BY <1>0, <1>3 DEF Unregister
<1> QED BY <1>1, <1>2, <1>3, RowKinds

LEMMA UpKinds ==
  ASSUME Life, NEW s \in Server, Acts(s)
  PROVE  /\ UNCHANGED world \/ Start(s) \/ Gone(s) \/ HostDies(s)
         /\ Start(s) \/ Up(s) \/ \E n \in Name : Settle(s, n)
<1>1. UNCHANGED world \/ Start(s) \/ Gone(s) \/ HostDies(s)
  BY DEF Acts, Server_, Step, Beat, Announce, AnnounceFails, Announced, Ask, FulfilRead, Cancel, ReleaseDrop, Settle,
         Fulfil, FulfilSkip, Adopt, AnnounceClaim, ReleaseForget, AdmitCreate, Die, Unregister, ClaimGranted, ClaimRefused,
         AdmitGranted, AdmitRepair, AdmitRepaired, AdmitRefuse
<1>2. Knows(s) => Up(s)
  BY DEF Life
<1>3. ASSUME AnnounceFails(s) \/ ReleaseForget(s) \/ AdmitCreate(s) PROVE ilock[s] # "free"
  BY <1>3 DEF AnnounceFails, Announced, ReleaseForget, AdmitCreate
<1>4. ASSUME Adopt(s) \/ AnnounceClaim(s) PROVE claim[s] # NoClaim
  BY <1>4 DEF Adopt, AnnounceClaim, NoClaim
<1>5. ASSUME NEW n \in Name, Cancel(s, n) \/ ReleaseDrop(s, n) PROVE pending[s][n] # 0 \/ claims[s] # <<>>
  <2>1. claims[s] = <<>> => ToSet(claims[s]) = {}
    BY DEF ToSet
  <2> QED BY <1>5, <2>1 DEF Cancel, ReleaseDrop
<1>6. ASSUME Fulfil(s) \/ FulfilSkip(s) PROVE seen[s] # NoRecord
  BY <1>6 DEF Fulfil, FulfilSkip
<1>7. Start(s) \/ Up(s) \/ \E n \in Name : Settle(s, n)
  BY <1>2, <1>3, <1>4, <1>5, <1>6 DEF Acts, Server_, Beat, Ask, FulfilRead, Die, Unregister, Gone, HostDies, Live, Knows
<1> QED BY <1>1, <1>7

LEMMA RowsOKStep ==
  ASSUME Inductive, NEW s \in Server, Acts(s)
  PROVE  RowsOK'
<1>0. /\ Type /\ MutexOK(s) /\ RowsOK /\ Life /\ row \in [Server -> [Name -> Nat]]
      /\ claim \in [Server -> Claims] /\ claims \in [Server -> Seq(Name)]
  BY DEF Inductive, Type
<1>1. ASSUME NEW t \in Server, t # s, Up(t)', NEW m \in Name, row'[t][m] # 0 PROVE m \in Answers(t)'
  <2>1. Same(t)
    BY <1>0, <1>1, PrivateStep
  <2>2. Up(t) /\ row[t][m] # 0
    BY <1>0, <1>1, <2>1, RowsOfOthers DEF Same, Up
  <2>3. m \in Answers(t)
    BY <1>0, <2>2 DEF RowsOK
  <2> QED BY <2>1, <2>3 DEF Same, Answers, GivingUp
<1>2. ASSUME Up(s)', NEW m \in Name, row'[s][m] # 0 PROVE m \in Answers(s)'
  <2>1. CASE Start(s)
    BY <1>0, <1>2, <2>1 DEF Start, Life, store
  <2>2. CASE ~Start(s)
    <3>1. ~Gone(s)
      BY <1>0, <1>2 DEF Up, Gone, Type
    <3>2. Up(s)
      BY <1>0, <1>2, <2>2, <3>1, UpKinds DEF Up, world, HostDies
    <3>3. row[s][m] # 0 => m \in Answers(s)
      BY <1>0, <3>2 DEF RowsOK
    <3>4. CASE row' = row /\ ~\E n \in Name : ReleaseDrop(s, n)
      BY <1>0, <1>2, <3>1, <3>3, <3>4, AnswersGrow
    <3>5. ASSUME NEW N \in SUBSET Asked(s), Takes(s, N), ilock[s] # "release", claims' = claims,
                 claim'[s] = claim[s] \/ claim'[s] = NoClaim \/ claim'[s].at = "adopt", Asked(s) \in SUBSET Name,
                 ~\E n \in Name : ReleaseDrop(s, n)
          PROVE  m \in Answers(s)'
      <4>1. row[s][m] # 0 \/ m \in Asked(s)
        BY <1>2, <3>5 DEF Takes
      <4>2. row[s][m] # 0 => m \in Answers(s)'
        BY <1>0, <3>1, <3>3, <3>5, AnswersGrow
      <4>3. claim'[s].at # "release" /\ ToSet(Held(s)) = ToSet(claims[s]) \cup ({Own[s]} \cap Name)
        BY <1>0, <3>5, HeldFacts DEF MutexOK, NoClaim
      <4>4. m \in Asked(s) => m \in Answers(s)'
        BY <3>5, <4>3 DEF Asked, Answers, GivingUp
      <4> QED BY <4>1, <4>2, <4>4
    <3>6. ASSUME NEW n \in Name, ReleaseDrop(s, n) PROVE m \in Answers(s)'
      <4>1. claim[s] = NoClaim /\ claim'[s].at = "release" /\ claim'[s].name = n /\ claims' = claims
        BY <1>0, <3>6 DEF ReleaseDrop
      <4>2. row[s][m] # 0 /\ (m = n => n = Own[s])
        BY <1>0, <1>2, <3>6, DropFacts
      <4>3. m \in ToSet(claims[s]) \cup {Own[s]}
        BY <3>3, <4>1, <4>2 DEF Answers, NoClaim
      <4> QED BY <4>1, <4>2, <4>3 DEF Answers, GivingUp
    <3> QED BY <1>0, <3>1, <3>4, <3>5, <3>6, RowKinds DEF Unregister
  <2> QED BY <2>1, <2>2
<1> QED BY <1>1, <1>2 DEF RowsOK

----------------------------------------------------------------------------
(* Lives and deaths. *)

(* What changes the debts and the rows to prune. *)
LEMMA DebtKinds ==
  ASSUME NEW s \in Server, Acts(s)
  PROVE  /\ doomed' = doomed
         /\ \/ owed' = owed
            \/ AdmitCreate(s) /\ owed' = owed \cup {<<s, to[s]>>}
            \/ \E n \in Name : Settle(s, n) /\ owed' = owed \ {<<s, n>>}
BY DEF Acts, Server_, Step, Start, Beat, Announce, AnnounceFails, Register, RegisterFails, Ask, FulfilRead, Cancel,
       ReleaseDrop, Settle, Fulfil, FulfilSkip, Adopt, AnnounceClaim, ReleaseForget, AdmitCreate, Die, Unregister, Gone,
       HostDies, ClaimGranted, ClaimRefused, AdmitGranted, AdmitRepair, AdmitRepaired, AdmitRefuse, store

LEMMA KnowsStep ==
  ASSUME Type, NEW s \in Server, MutexOK(s), Life, Acts(s), Knows(s)'
  PROVE  Up(s)'
<1>0. /\ ilock \in [Server -> Locks] /\ claim \in [Server -> Claims] /\ claims \in [Server -> Seq(Name)]
      /\ seen \in [Server -> Records] /\ pending \in [Server -> [Name -> 0 .. MaxAsks]]
      /\ wanted \in [Server -> SUBSET Name] /\ up \in [Server -> {"unborn", "up", "gone"}]
  BY DEF Type
<1>1. CASE Start(s)
  BY <1>0, <1>1 DEF Start, Up
<1>2. CASE Gone(s)
  BY <1>0, <1>2 DEF Gone, Knows
<1>3. CASE \E n \in Name : Settle(s, n)
  <2>1. Knows(s) /\ Up(s)' = Up(s)
    BY <1>3 DEF Settle, Knows, names, told, world, Up
  <2> QED BY <2>1 DEF Life
<1>4. CASE Up(s) /\ (UNCHANGED world \/ HostDies(s))
  BY <1>4 DEF world, HostDies, Up
<1> QED BY <1>1, <1>2, <1>3, <1>4, UpKinds DEF HostDies, Live, Settle, world

LEMMA LifeStep ==
  ASSUME Inductive, NEW s \in Server, Acts(s)
  PROVE  Life'
<1>0. /\ Type /\ MutexOK(s) /\ Life /\ row \in [Server -> [Name -> Nat]]
      /\ up \in [Server -> {"unborn", "up", "gone"}] /\ host \in [Server -> BOOLEAN]
  BY DEF Inductive, Type
<1>1. \A t \in Server : t # s => Same(t)
  BY <1>0, PrivateStep
<1>2. UNCHANGED world \/ Start(s) \/ Gone(s) \/ HostDies(s)
  BY <1>0, UpKinds
<1>3. up'[s] = "unborn" => up[s] = "unborn" /\ host'[s] = host[s]
  BY <1>0, <1>2 DEF world, Start, Gone, HostDies, Live, Up
<1>4. ASSUME NEW t \in Server, NEW u \in Server, Up(t)', Up(u)', Pid[t] = Pid[u] PROVE t = u
  <2>1. \A v \in Server : v # s => (Up(v)' <=> Up(v))
    BY <1>1 DEF Same, Up
  <2>2. Up(s)' => Up(s) \/ \A v \in Server : Pid[v] = Pid[s] => ~Up(v)
    BY <1>0, <1>2 DEF world, Start, Gone, HostDies, Up
  <2> QED BY <1>0, <1>4, <2>1, <2>2 DEF Life
<1>5. ASSUME NEW t \in Server, Knows(t)' PROVE Up(t)'
  <2>1. CASE t # s
    <3>1. Knows(t) /\ Up(t)' = Up(t)
      BY <1>1, <1>5, <2>1 DEF Same, Knows, Up
    <3> QED BY <1>0, <3>1 DEF Life
  <2>2. CASE t = s
    BY <1>0, <1>5, <2>2, KnowsStep
  <2> QED BY <2>1, <2>2
<1>6. ASSUME NEW t \in Server, up'[t] = "unborn"
      PROVE  host'[t] /\ \A n \in Name : row'[t][n] = 0 /\ <<t, n>> \notin owed'
  <2>1. up[t] = "unborn" /\ host'[t] = host[t]
    BY <1>1, <1>3, <1>6 DEF Same
  <2>2. host[t] /\ \A n \in Name : row[t][n] = 0 /\ <<t, n>> \notin owed
    BY <1>0, <2>1 DEF Life
  <2>3. ASSUME NEW n \in Name PROVE row'[t][n] = 0
    <3>1. CASE t # s
      BY <1>0, <2>2, <3>1, RowsOfOthers
    <3>2. CASE t = s
      <4>1. ~Up(s) /\ ~Start(s)
        BY <1>0, <1>6, <2>1, <3>2 DEF Start, Up
      <4>2. \E m \in Name : Settle(s, m)
        BY <1>0, <4>1, UpKinds
      <4> QED BY <2>2, <3>2, <4>2 DEF Settle
    <3> QED BY <3>1, <3>2
  <2>4. ASSUME NEW n \in Name PROVE <<t, n>> \notin owed'
    <3>1. AdmitCreate(s) => t # s
      BY <1>0, <2>1 DEF AdmitCreate, Life, Knows, Up
    <3> QED BY <2>2, <3>1, DebtKinds
  <2> QED BY <2>1, <2>2, <2>3, <2>4
<1>7. ASSUME NEW r \in doomed' PROVE up'[r[1]] # "unborn" /\ ~Live(r[1])'
  <2>1. PICK t \in Server : t = r[1] /\ up[t] # "unborn" /\ ~Live(t)
    BY <1>0, <1>7, DebtKinds DEF Life, Type
  <2>2. t # s => up'[t] # "unborn" /\ ~Live(t)'
    BY <1>1, <2>1 DEF Same, Live, Up
  <2>3. t = s => up'[t] # "unborn" /\ ~Live(t)'
    BY <1>0, <1>2, <2>1 DEF world, Start, Gone, HostDies, Live, Up
  <2> QED BY <2>1, <2>2, <2>3
<1> QED BY <1>4, <1>5, <1>6, <1>7 DEF Life

----------------------------------------------------------------------------
(* The order of a server's rows. *)

(* A list within another, in the same order, is ranked as that one is, and *)
(* rows that go spoil no order.                                            *)
LEMMA RankedWithin ==
  ASSUME NEW whole \in Seq(Name), NEW part \in Seq(Name), NEW g \in [DOMAIN part -> DOMAIN whole],
         \A i \in DOMAIN part : part[i] = whole[g[i]],
         \A i, k \in DOMAIN part : i < k => g[i] < g[k],
         NEW r, NEW q, \A n \in Name : q[n] \in {0, r[n]},
         RankedBy(r, whole)
  PROVE  RankedBy(q, part)
BY SeqFacts DEF RankedBy

LEMMA RankedRest ==
  ASSUME NEW s \in Server, NEW c \in Seq(Name), IsInjective(c), NEW n \in ToSet(c), n # Own[s],
         NEW r, NEW q, \A m \in Name : q[m] \in {0, r[m]},
         RankedBy(r, Ordered(s, c))
  PROVE  RankedBy(q, Ordered(s, RemoveFirst(c, n)))
<1>0. PICK d : d = RemoveFirst(c, n)
  OBVIOUS
<1>1. d \in Seq(Name) /\ IsInjective(d) /\ ToSet(d) = ToSet(c) \ {n}
  BY <1>0, RemoveFacts
<1>2. PICK f \in [DOMAIN d -> DOMAIN c] : /\ \A i \in DOMAIN d : d[i] = c[f[i]]
                                          /\ \A i, k \in DOMAIN d : i < k => f[i] < f[k]
  BY <1>0, RemoveFacts
<1>3. CASE Own[s] = NoName \/ Own[s] \in ToSet(c)
  <2>1. Ordered(s, c) = c /\ Ordered(s, d) = d
    BY <1>1, <1>3 DEF Ordered
  <2>2. RankedBy(r, c)
    BY <2>1
  <2>3. RankedBy(q, d)
    BY <1>1, <1>2, <2>2, RankedWithin
  <2> QED BY <1>0, <2>1, <2>3
<1>4. CASE Own[s] # NoName /\ Own[s] \notin ToSet(c)
  <2>0. PICK own \in Name : own = Own[s] /\ own \notin ToSet(c) /\ own \notin ToSet(d)
    BY <1>1, <1>4, OwnAssumption
  <2>1. PICK cc : cc = <<own>> \o c
    OBVIOUS
  <2>2. PICK dd : dd = <<own>> \o d
    OBVIOUS
  <2>3. Ordered(s, c) = cc /\ Ordered(s, d) = dd
    BY <1>4, <2>0, <2>1, <2>2 DEF Ordered
  <2>4. cc \in Seq(Name) /\ Len(cc) = Len(c) + 1 /\ cc[1] = own /\ \A i \in 1 .. Len(c) : cc[i + 1] = c[i]
    BY <2>0, <2>1, PushFacts
  <2>5. dd \in Seq(Name) /\ Len(dd) = Len(d) + 1 /\ dd[1] = own /\ \A i \in 1 .. Len(d) : dd[i + 1] = d[i]
    BY <1>1, <2>0, <2>2, PushFacts
  <2>6. /\ Len(c) \in Nat /\ DOMAIN c = 1 .. Len(c) /\ DOMAIN cc = 1 .. Len(c) + 1
        /\ Len(d) \in Nat /\ DOMAIN d = 1 .. Len(d) /\ DOMAIN dd = 1 .. Len(d) + 1
    BY <1>1, <2>4, <2>5, LenProperties
  <2>7. PICK g : g = [i \in 1 .. Len(d) + 1 |-> IF i = 1 THEN 1 ELSE f[i - 1] + 1]
    OBVIOUS
  <2>8. ASSUME NEW i \in 1 .. Len(d) + 1 PROVE g[i] \in 1 .. Len(c) + 1 /\ dd[i] = cc[g[i]]
    <3>1. CASE i = 1
      BY <2>4, <2>5, <2>6, <2>7, <3>1
    <3>2. CASE i # 1
      <4>1. i - 1 \in 1 .. Len(d) /\ (i - 1) + 1 = i
        BY <2>6, <3>2
      <4>2. f[i - 1] \in 1 .. Len(c) /\ d[i - 1] = c[f[i - 1]] /\ g[i] = f[i - 1] + 1
        BY <1>2, <2>6, <2>7, <3>2, <4>1
      <4>3. dd[i] = d[i - 1] /\ cc[g[i]] = c[f[i - 1]]
        BY <2>4, <2>5, <4>1, <4>2
      <4> QED BY <2>6, <4>2, <4>3
    <3> QED BY <3>1, <3>2
  <2>9. ASSUME NEW i \in 1 .. Len(d) + 1, NEW k \in 1 .. Len(d) + 1, i < k PROVE g[i] < g[k]
    <3>1. k - 1 \in 1 .. Len(d) /\ f[k - 1] \in 1 .. Len(c) /\ g[k] = f[k - 1] + 1
      BY <1>2, <2>6, <2>7, <2>9
    <3>2. CASE i = 1
      BY <2>6, <2>7, <3>1, <3>2
    <3>3. CASE i # 1
      <4>1. i - 1 \in 1 .. Len(d) /\ f[i - 1] \in 1 .. Len(c) /\ g[i] = f[i - 1] + 1 /\ i - 1 < k - 1
        BY <1>2, <2>6, <2>7, <2>9, <3>3
      <4>2. f[i - 1] < f[k - 1]
        BY <1>2, <2>6, <3>1, <4>1
      <4> QED BY <2>6, <3>1, <4>1, <4>2
    <3> QED BY <3>2, <3>3
  <2>10. g \in [DOMAIN dd -> DOMAIN cc] /\ (\A i \in DOMAIN dd : dd[i] = cc[g[i]])
         /\ \A i, k \in DOMAIN dd : i < k => g[i] < g[k]
    BY <2>6, <2>7, <2>8, <2>9
  <2>11. RankedBy(q, dd)
    <3>1. RankedBy(r, cc)
      BY <2>3
    <3> QED BY <2>4, <2>5, <2>10, <3>1, RankedWithin
  <2> QED BY <1>0, <2>3, <2>11
<1> QED BY <1>3, <1>4

LEMMA RanksStep ==
  ASSUME Inductive, NEW s \in Server, Acts(s)
  PROVE  Ranks'
<1> USE DEF world, store, names, told
<1>0. /\ Type /\ MutexOK(s) /\ Ranks /\ Life /\ row \in [Server -> [Name -> Nat]]
      /\ claim \in [Server -> Claims] /\ claims \in [Server -> Seq(Name)] /\ failed \in [Server -> BOOLEAN]
      /\ (\A t \in Server : MutexOK(t))
  BY DEF Inductive, Type
<1>1. ASSUME NEW t \in Server, t # s, Up(t)', ~failed'[t], claim'[t].at \notin {"adopt", "announce"}
      PROVE  RankedBy(row'[t], Remaining(t)')
  <2>1. Same(t)
    BY <1>0, <1>1, PrivateStep
  <2>2. RankedBy(row[t], Remaining(t))
    BY <1>0, <1>1, <2>1 DEF Same, Up, Ranks
  <2>3. Remaining(t)' = Remaining(t)
    BY <2>1 DEF Same, Remaining, Held, Ordered
  <2>4. \A n \in Name : row'[t][n] \in {0, row[t][n]}
    BY <1>0, <1>1, RowsOfOthers
  <2>5. Remaining(t) \in Seq(Name)
    <3>1. claim[t].at = "release" => claim[t].name \in ToSet(claims[t])
      BY <1>0 DEF MutexOK
    <3>2. claim[t].at = "release" => RemoveFirst(claims[t], claim[t].name) \in Seq(Name)
                                     /\ IsInjective(RemoveFirst(claims[t], claim[t].name))
      BY <1>0, <3>1, RemoveFacts DEF Type
    <3> QED BY <1>0, <3>2, OrderedFacts, HeldFacts DEF Remaining
  <2>6. PICK order \in Seq(Name) : order = Remaining(t)
    BY <2>5
  <2> QED BY <2>2, <2>3, <2>4, <2>6, SeqFacts DEF RankedBy
<1>2. ASSUME Up(s)', ~failed'[s], claim'[s].at \notin {"adopt", "announce"}
      PROVE  RankedBy(row'[s], Remaining(s)')
  <2>0. ASSUME claims'[s] = claims[s], claim'[s].at # "release" PROVE Remaining(s)' = Held(s)
    BY <2>0 DEF Remaining, Held, Ordered
  <2>1. ASSUME NEW unsure, Register(s, Held(s), unsure), claims' = claims, claim'[s].at # "release"
        PROVE  RankedBy(row'[s], Remaining(s)')
    BY <1>0, <1>2, <2>0, <2>1, HeldFacts, RegisterFacts
  <2>2. ASSUME RegisterFails(s) PROVE FALSE
    BY <1>0, <1>2, <2>2 DEF RegisterFails
  <2>3. ASSUME row'[s] = row[s], failed' = failed, Up(s), claims'[s] = claims[s], claim[s].at \notin {"adopt", "announce"},
               claim[s].at = "release" => claim'[s] = claim[s], claim'[s].at = "release" => claim'[s] = claim[s]
        PROVE  RankedBy(row'[s], Remaining(s)')
    <3>1. Remaining(s)' = Remaining(s)
      BY <2>3 DEF Remaining, Held, Ordered
    <3>2. RankedBy(row[s], Remaining(s))
      BY <1>0, <1>2, <2>3 DEF Ranks
    <3> QED BY <2>3, <3>1, <3>2
  <2>4. CASE Start(s)
    <3>1. \A n \in Name : row'[s][n] = 0
      BY <1>0, <2>4 DEF Start, Life
    <3>2. claim'[s].at # "release" /\ claims'[s] = claims[s]
      BY <1>0, <2>4 DEF Start, Life, Knows, Up, NoClaim
    <3>3. Remaining(s)' \in Seq(Name)
      BY <1>0, <2>0, <3>2, HeldFacts
    <3>4. PICK order \in Seq(Name) : order = Remaining(s)'
      BY <3>3
    <3> QED BY <3>1, <3>4, SeqFacts DEF RankedBy
  <2>5. ASSUME NEW unsure \in Doubts, Announce(s, unsure) PROVE RankedBy(row'[s], Remaining(s)')
    <3>1. snap[s] = Held(s) /\ claims' = claims /\ claim'[s].at # "release"
      BY <1>0, <2>5 DEF Announce, Announced, MutexOK, NoClaim
    <3> QED BY <2>1, <2>5, <3>1 DEF Announce
  <2>6. ASSUME NEW lane \in Name, NEW unsure \in Doubts, AdmitRepair(s, lane, unsure) PROVE RankedBy(row'[s], Remaining(s)')
    <3>1. claims' = claims /\ claim'[s].at # "release"
      BY <1>0, <2>6 DEF AdmitRepair, LockIdentity, MutexOK
    <3> QED BY <2>1, <2>2, <2>6, <3>1 DEF AdmitRepair
  <2>7. CASE AnnounceFails(s)
    BY <2>2, <2>7 DEF AnnounceFails
  <2>8. ASSUME NEW unsure \in Doubts, ClaimGranted(s, unsure) PROVE FALSE
    BY <1>0, <1>2, <2>8 DEF ClaimGranted, Claims
  <2>9. ASSUME NEW n \in Name, ReleaseDrop(s, n) PROVE RankedBy(row'[s], Remaining(s)')
    <3>1. claim[s] = NoClaim /\ claim'[s].at = "release" /\ claim'[s].name = n /\ claims' = claims /\ failed' = failed
          /\ n \in ToSet(claims[s]) /\ Up(s)
      BY <1>0, <1>2, <2>9 DEF ReleaseDrop, Up
    <3>2. Remaining(s)' = Ordered(s, RemoveFirst(claims[s], n))
      BY <3>1 DEF Remaining, Ordered
    <3>3. CASE n = Own[s]
      BY <1>0, <2>9, <3>2, <3>3, DropFacts
    <3>4. CASE n # Own[s]
      <4>1. RankedBy(row[s], Ordered(s, claims[s]))
        <5>0. ~failed[s] /\ claim[s].at \notin {"adopt", "announce"}
          BY <1>2, <3>1 DEF NoClaim
        <5>1. RankedBy(row[s], Remaining(s))
          BY <1>0, <3>1, <5>0 DEF Ranks
        <5>2. Remaining(s) = Ordered(s, claims[s])
          BY <3>1 DEF Remaining, Held, NoClaim
        <5> QED BY <5>1, <5>2
      <4>2. \A m \in Name : row'[s][m] \in {0, row[s][m]}
        BY <1>0, <2>9, <3>4, DropFacts
      <4>3. PICK r, q : r = row[s] /\ q = row'[s]
        OBVIOUS
      <4>4. claims[s] \in Seq(Name) /\ IsInjective(claims[s])
        BY <1>0 DEF Type
      <4>5. PICK c : c = claims[s]
        OBVIOUS
      <4>6. RankedBy(q, Ordered(s, RemoveFirst(c, n)))
        BY <3>1, <3>4, <4>1, <4>2, <4>3, <4>4, <4>5, RankedRest
      <4> QED BY <3>2, <4>3, <4>5, <4>6
    <3> QED BY <3>3, <3>4
  <2>10. CASE ReleaseForget(s)
    <3>1. claim[s].at = "release" /\ claim'[s].at # "release" /\ row' = row /\ failed' = failed /\ Up(s)
          /\ claims'[s] = RemoveFirst(claims[s], claim[s].name)
      BY <1>0, <1>2, <2>10 DEF ReleaseForget, MutexOK, NoClaim, Up
    <3>2. Remaining(s)' = Remaining(s)
      BY <3>1 DEF Remaining, Held, Ordered
    <3> QED BY <1>0, <1>2, <3>1, <3>2 DEF Ranks
  <2>11. CASE Gone(s)
    BY <1>0, <1>2, <2>11 DEF Gone, Up, Type
  <2>12. ASSUME NEW n \in Name, NEW w \in BOOLEAN, Ask(s, n, w) PROVE RankedBy(row'[s], Remaining(s)')
    BY <1>0, <1>2, <2>3, <2>12 DEF Ask, NoClaim
  <2>13. ASSUME NEW n \in Name, FulfilRead(s, n) \/ Cancel(s, n) \/ Settle(s, n) PROVE RankedBy(row'[s], Remaining(s)')
    BY <1>2, <2>3, <2>13 DEF FulfilRead, Cancel, Settle, Up
  <2>14. CASE Fulfil(s)
    BY <1>0, <1>2, <2>3, <2>14 DEF Fulfil, NoClaim, Up
  <2>15. CASE FulfilSkip(s) \/ AdmitCreate(s) \/ Beat(s) \/ HostDies(s)
    BY <1>0, <1>2, <2>3, <2>15 DEF FulfilSkip, AdmitCreate, Beat, HostDies, Up
  <2>16. CASE Adopt(s) \/ AnnounceClaim(s)
    BY <1>0, <1>2, <2>16 DEF Adopt, AnnounceClaim, Claims
  <2>17. ASSUME NEW unsure \in Doubts, ClaimRefused(s, unsure) PROVE RankedBy(row'[s], Remaining(s)')
    BY <1>0, <1>2, <2>3, <2>17 DEF ClaimRefused, NoClaim, Up
  <2>18. ASSUME NEW unsure \in Doubts,
                (\E lane \in Name : AdmitGranted(s, lane, unsure)) \/ AdmitRepaired(s, unsure) \/ AdmitRefuse(s, unsure)
         PROVE  RankedBy(row'[s], Remaining(s)')
    BY <1>0, <1>2, <2>3, <2>18 DEF AdmitGranted, AdmitRepaired, AdmitRefuse, Up
  <2> QED BY <2>4, <2>5, <2>6, <2>7, <2>8, <2>9, <2>10, <2>11, <2>12, <2>13, <2>14, <2>15, <2>16, <2>17, <2>18
          DEF Acts, Server_, Step, Die, Unregister
<1> QED BY <1>1, <1>2 DEF Ranks

----------------------------------------------------------------------------
(* Who holds what. *)

(* Nobody takes the row of another server that lives. *)
LEMMA LiveKept ==
  ASSUME Inductive, NEW a \in Server, Acts(a), NEW s \in Server, s # a, Live(s), NEW n \in Name, row[s][n] # 0
  PROVE  row'[s][n] # 0
<1>0. Type /\ MutexOK(a) /\ Life /\ row \in [Server -> [Name -> Nat]] /\ Up(s)
  BY DEF Inductive, Type, Live
<1>1. ASSUME Up(a) PROVE Pid[s] # Pid[a]
  BY <1>0, <1>1 DEF Life
<1>2. ASSUME NEW N, Takes(a, N), Up(a) PROVE row'[s][n] # 0
  BY <1>0, <1>1, <1>2 DEF Takes, Loses, Unkept
<1>3. ASSUME NEW m \in Name, ReleaseDrop(a, m) PROVE row'[s][n] # 0
  <2>1. Up(a)
    <3>1. claims[a] # <<>>
      BY <1>3 DEF ReleaseDrop, ToSet
    <3> QED BY <1>0, <3>1 DEF Life, Knows
  <2>2. Pid[s] # Pid[a]
    BY <1>1, <2>1
  <2>3. row'[s][n] = row[s][n]
    <3>1. CASE m = Own[a]
      BY <1>0, <1>3, <3>1, DropFacts
    <3>2. CASE m # Own[a]
      BY <1>0, <1>3, <2>2, <3>2, DropFacts
    <3> QED BY <3>1, <3>2
  <2> QED BY <2>3
<1>4. ASSUME Unregister(a) PROVE row'[s][n] # 0
  BY <1>0, <1>1, <1>4 DEF Unregister, Gone
<1> QED BY <1>0, <1>2, <1>3, <1>4, RowKinds

(* What a server claims is new only by a grant. *)
LEMMA ClaimsNew ==
  ASSUME Type, NEW s \in Server, MutexOK(s), Acts(s), claims'[s] # <<>> \/ claim'[s].at = "adopt"
  PROVE  claims[s] # <<>> \/ claim[s].at = "adopt" \/ \E unsure \in Doubts : ClaimGranted(s, unsure)
<1> USE DEF world, store, names, told
<1>0. claim \in [Server -> Claims] /\ claims \in [Server -> Seq(Name)]
  BY DEF Type
<1>1. ASSUME Quiet(s) \/ (Announced(s) /\ ilock[s] = "claim") PROVE claims[s] # <<>> \/ claim[s].at = "adopt"
  BY <1>0, <1>1 DEF Quiet, Announced, NoClaim
<1>2. ASSUME NEW n \in Name, (\E w \in BOOLEAN : Ask(s, n, w)) \/ FulfilRead(s, n) \/ Cancel(s, n) \/ ReleaseDrop(s, n)
      PROVE  claims[s] # <<>> \/ claim[s].at = "adopt"
  BY <1>0, <1>2 DEF Ask, FulfilRead, Cancel, ReleaseDrop
<1>3. ASSUME NEW unsure \in Doubts, ClaimRefused(s, unsure) PROVE claims[s] # <<>> \/ claim[s].at = "adopt"
  BY <1>0, <1>3 DEF ClaimRefused, NoClaim
<1>4. ASSUME Fulfil(s) \/ FulfilSkip(s) \/ Adopt(s) \/ AnnounceClaim(s) PROVE claims[s] # <<>> \/ claim[s].at = "adopt"
  BY <1>0, <1>4 DEF Fulfil, FulfilSkip, Adopt, AnnounceClaim, NoClaim
<1>5. ASSUME ReleaseForget(s) PROVE claims[s] # <<>>
  <2>1. claim[s].name \in ToSet(claims[s])
    BY <1>5 DEF ReleaseForget, MutexOK
  <2> QED BY <2>1 DEF ToSet
<1>6. ~Gone(s)
  BY <1>0 DEF Gone, NoClaim
<1> QED BY <1>1, <1>2, <1>3, <1>4, <1>5, <1>6, ActKinds

(* One that has taken a name is alone in the registry under its pid. *)
LEMMA AloneStep ==
  ASSUME Inductive, NEW a \in Server, Acts(a), NEW s \in Server, NEW t \in Server, s # t, Pid[s] = Pid[t],
         claims'[s] # <<>> \/ claim'[s].at = "adopt", NEW n \in Name
  PROVE  row'[t][n] = 0
<1>0. Type /\ MutexOK(a) /\ MutexOK(s) /\ Life /\ Holding /\ row \in [Server -> [Name -> Nat]]
      /\ claim \in [Server -> Claims]
  BY DEF Inductive, Type
<1>1. CASE claims[s] # <<>> \/ claim[s].at = "adopt"
  <2>1. row[t][n] = 0 /\ Up(s)
    BY <1>0, <1>1 DEF Holding, Life, Knows, NoClaim
  <2>2. ~Up(t)
    BY <1>0, <2>1 DEF Life
  <2>3. CASE t # a
    BY <1>0, <2>1, <2>3, RowsOfOthers
  <2>4. CASE t = a
    <3>1. Start(t) \/ \E m \in Name : Settle(t, m)
      BY <1>0, <2>2, <2>4, UpKinds
    <3> QED BY <2>1, <3>1 DEF Start, Settle, store
  <2> QED BY <2>3, <2>4
<1>2. CASE ~(claims[s] # <<>> \/ claim[s].at = "adopt")
  <2>1. s = a
    BY <1>0, <1>2, PrivateStep DEF Same
  <2>2. PICK unsure \in Doubts : ClaimGranted(s, unsure)
    BY <1>0, <1>2, <2>1, ClaimsNew
  <2>3. PICK m \in Name : m = claim[s].name
    BY <1>0, <2>2 DEF ClaimGranted, MutexOK
  <2>4. PICK order : order = ClaimOrder(s, m)
    OBVIOUS
  <2>5. order \in Seq(Name) /\ IsInjective(order) /\ m \in ToSet(order) /\ row' = Acquired(s, order, ToSet(order))
    BY <1>0, <2>2, <2>3, <2>4, ClaimOrderFacts DEF ClaimGranted
  <2>6. PICK N \in SUBSET ToSet(order) : N = ToSet(order)
    OBVIOUS
  <2>7. row'[t][n] = IF Loses(s, t, n, N) THEN 0 ELSE row[t][n]
    BY <1>0, <2>5, <2>6, AcquiredFacts
  <2> QED BY <2>5, <2>6, <2>7 DEF Loses
<1> QED BY <1>1, <1>2

(* A name has one live holder. *)
LEMMA SoleHolderStep ==
  ASSUME Inductive, NEW a \in Server, Acts(a), NEW s \in Server, NEW t \in Server, s # t, t # a, NEW n \in Name,
         Live(s)', Live(t)', row'[s][n] # 0, row'[t][n] # 0
  PROVE  FALSE
<1>0. /\ Type /\ MutexOK(a) /\ Life /\ Holding /\ row \in [Server -> [Name -> Nat]]
      /\ up \in [Server -> {"unborn", "up", "gone"}] /\ host \in [Server -> BOOLEAN]
  BY DEF Inductive, Type
<1>1. row[t][n] # 0 /\ Live(t)
  BY <1>0, RowsOfOthers, PrivateStep DEF Same, Live, Up
<1>2. CASE s # a
  <2>1. row[s][n] # 0 /\ Live(s)
    BY <1>0, <1>2, RowsOfOthers, PrivateStep DEF Same, Live, Up
  <2> QED BY <1>0, <1>1, <2>1 DEF Holding
<1>3. CASE s = a
  <2>1. ~Start(s)
    BY <1>0 DEF Start, Life, store
  <2>2. Live(s) /\ ~Unregister(s)
    BY <1>0, <1>3, <2>1, UpKinds DEF world, Gone, HostDies, Live, Up, Unregister
  <2>3. row[s][n] = 0
    BY <1>0, <1>1, <2>2 DEF Holding
  <2>4. ASSUME NEW N, Takes(s, N) PROVE FALSE
    BY <1>3, <2>3, <2>4 DEF Takes, Loses
  <2>5. ASSUME NEW m \in Name, ReleaseDrop(s, m) PROVE FALSE
    BY <1>0, <2>3, <2>5, DropFacts
  <2> QED BY <1>0, <1>3, <2>2, <2>3, <2>4, <2>5, RowKinds
<1> QED BY <1>2, <1>3

(* Who admits a job: it chose a lane of its own, and has it. *)
LEMMA AdmitKinds ==
  ASSUME Type, NEW s \in Server, Acts(s), ilock'[s] \in {"recheck", "create"}
  PROVE  \/ /\ ilock[s] \in {"recheck", "create"} /\ to'[s] = to[s]
            /\ ilock'[s] = ilock[s] \/ \E unsure \in Doubts : AdmitRepaired(s, unsure)
            /\ \A n \in Name : ~ReleaseDrop(s, n)
         \/ \E lane \in Name, unsure \in Doubts : AdmitGranted(s, lane, unsure) \/ AdmitRepair(s, lane, unsure)
<1> USE DEF world, store, names, told
<1>0. /\ ilock \in [Server -> Locks] /\ to \in [Server -> Names]
      /\ {"beat", "claim", "release", "recheck", "create"} \subseteq Locks
  BY DEF Type, Locks
<1>1. ASSUME NEW holder \in {"beat", "claim", "release"} PROVE ~LockIdentity(s, holder)
  BY <1>0, LockFacts
<1>2. ~UnlockIdentity(s)
  BY UnlockFacts
<1>3. /\ ~Start(s) /\ ~Beat(s) /\ ~AnnounceClaim(s) /\ ~ReleaseForget(s) /\ ~AdmitCreate(s) /\ ~Announced(s)
      /\ (\A n \in Name : ~ReleaseDrop(s, n)) /\ \A unsure \in Doubts : ~AdmitRefuse(s, unsure)
  BY <1>1, <1>2 DEF Start, Beat, AnnounceClaim, ReleaseForget, AdmitCreate, Announced, ReleaseDrop, AdmitRefuse
<1>4. ~Gone(s)
  BY <1>0 DEF Gone
<1>5. ASSUME NEW unsure \in Doubts, AdmitRepaired(s, unsure) PROVE ilock[s] = "recheck" /\ to'[s] = to[s]
  BY <1>5 DEF AdmitRepaired
<1>6. ASSUME ilock' = ilock, to' = to PROVE ilock[s] \in {"recheck", "create"} /\ to'[s] = to[s] /\ ilock'[s] = ilock[s]
  BY <1>6
<1>7. ASSUME NEW unsure \in Doubts, ClaimGranted(s, unsure) \/ ClaimRefused(s, unsure) PROVE ilock' = ilock /\ to' = to
  BY <1>7 DEF ClaimGranted, ClaimRefused
<1>8. ASSUME NEW n \in Name, (\E w \in BOOLEAN : Ask(s, n, w)) \/ FulfilRead(s, n) \/ Cancel(s, n) \/ Settle(s, n)
      PROVE  ilock' = ilock /\ to' = to
  BY <1>8 DEF Ask, FulfilRead, Cancel, Settle
<1>9. ASSUME Fulfil(s) \/ FulfilSkip(s) \/ Adopt(s) \/ HostDies(s) PROVE ilock' = ilock /\ to' = to
  BY <1>9 DEF Fulfil, FulfilSkip, Adopt, HostDies
<1> QED BY <1>3, <1>4, <1>5, <1>6, <1>7, <1>8, <1>9
        DEF Acts, Server_, Step, Announce, AnnounceFails, Die, Unregister

LEMMA AdmitStep ==
  ASSUME Inductive, NEW a \in Server, Acts(a), NEW s \in Server
  PROVE  /\ ilock'[s] \in {"recheck", "create"} => to'[s] \in Name
         /\ ilock'[s] = "create" /\ Live(s)' => row'[s][to'[s]] # 0
<1>0. /\ Type /\ MutexOK(a) /\ Life /\ Holding /\ row \in [Server -> [Name -> Nat]]
      /\ up \in [Server -> {"unborn", "up", "gone"}] /\ host \in [Server -> BOOLEAN]
      /\ ilock \in [Server -> Locks] /\ to \in [Server -> Names]
  BY DEF Inductive, Type
<1>1. CASE s # a
  <2>1. Same(s)
    BY <1>0, <1>1, PrivateStep
  <2>2. ilock'[s] \in {"recheck", "create"} => to'[s] = to[s] /\ to[s] \in Name
    BY <1>0, <2>1 DEF Same, Holding
  <2>3. ASSUME ilock'[s] = "create", Live(s)' PROVE row'[s][to'[s]] # 0
    <3>1. PICK n \in Name : n = to[s] /\ n = to'[s]
      BY <2>2, <2>3
    <3>2. Live(s) /\ row[s][n] # 0
      <4>1. Live(s) /\ ilock[s] = "create"
        BY <2>1, <2>3 DEF Same, Live, Up
      <4>2. row[s][to[s]] # 0
        BY <1>0, <4>1 DEF Holding
      <4> QED BY <3>1, <4>1, <4>2
    <3> QED BY <1>1, <3>1, <3>2, LiveKept
  <2> QED BY <2>2, <2>3
<1>2. CASE s = a
  <2>1. ASSUME NEW lane \in Name, NEW unsure \in Doubts, AdmitGranted(s, lane, unsure)
        PROVE  to'[s] = lane /\ row'[s][lane] # 0
    BY <1>0, <2>1 DEF AdmitGranted, Choose, Granted, store
  <2>2. ASSUME NEW lane \in Name, NEW unsure \in Doubts, AdmitRepair(s, lane, unsure)
        PROVE  to'[s] = lane /\ ilock'[s] = "recheck"
    BY <1>0, <2>2, LockFacts DEF AdmitRepair, Choose, Locks
  <2>3. ASSUME NEW unsure \in Doubts, AdmitRepaired(s, unsure) PROVE to'[s] = to[s] /\ row'[s][to[s]] # 0
    BY <1>0, <2>3 DEF AdmitRepaired, Granted, store, told
  <2>4. ASSUME ilock'[s] = "create", ilock[s] = "create", to'[s] = to[s], Live(s)', \A n \in Name : ~ReleaseDrop(s, n)
        PROVE  row'[s][to[s]] # 0
    <3>1. Up(s) /\ ~Start(s) /\ ~Gone(s)
      BY <1>0, <2>4 DEF Life, Knows, Start, Gone, Live, Up
    <3>2. Live(s)
      BY <1>0, <1>2, <2>4, <3>1, UpKinds DEF world, HostDies, Live, Up
    <3>3. PICK n \in Name : n = to[s] /\ row[s][n] # 0
      BY <1>0, <2>4, <3>2 DEF Holding
    <3> QED BY <1>0, <1>2, <2>4, <3>1, <3>3, RowKinds DEF Takes, Unregister
  <2> QED BY <1>0, <1>2, <2>1, <2>2, <2>3, <2>4, AdmitKinds DEF Holding
<1> QED BY <1>1, <1>2

LEMMA HoldingStep ==
  ASSUME Inductive, NEW a \in Server, Acts(a)
  PROVE  Holding'
<1>1. ASSUME NEW s \in Server, NEW t \in Server, NEW n \in Name, Live(s)', Live(t)', row'[s][n] # 0, row'[t][n] # 0
      PROVE  s = t
  BY <1>1, SoleHolderStep
<1> QED BY <1>1, AloneStep, AdmitStep DEF Holding

----------------------------------------------------------------------------
(* Inductive is invariant. *)

LEMMA SharedStep ==
  ASSUME Inductive, NEW s \in Server, Acts(s)
  PROVE  Shared'
<1>0. Type /\ MutexOK(s) /\ Shared /\ Holding
  BY TypeParts DEF Inductive
<1>1. row' \in [Server -> [Name -> Nat]]
  BY <1>0, RowKinds
<1>2. owed' \in SUBSET (Server \X Name) /\ doomed' \in SUBSET (Server \X Name)
  <2>1. AdmitCreate(s) => to[s] \in Name
    BY <1>0 DEF AdmitCreate, Holding
  <2> QED BY <1>0, <2>1, DebtKinds DEF Shared
<1>3. asks' \in 0 .. MaxAsks
  <2>1. asks' = asks \/ (asks < MaxAsks /\ asks' = asks + 1)
    BY DEF Acts, Server_, Step, Start, Beat, Announce, AnnounceFails, Announced, Ask, FulfilRead, Cancel, ReleaseDrop, Settle,
           Fulfil, FulfilSkip, Adopt, AnnounceClaim, ReleaseForget, AdmitCreate, Die, Unregister, Gone, HostDies,
           ClaimGranted, ClaimRefused, AdmitGranted, AdmitRepair, AdmitRepaired, AdmitRefuse
  <2> QED BY <1>0, <2>1, BoundAssumption DEF Shared
<1> QED BY <1>1, <1>2, <1>3 DEF Shared

(* What a server that does not move has, it keeps. *)
LEMMA UnmovedKeeps ==
  ASSUME NEW s \in Server, MutexOK(s), WantsOK(s), ilock'[s] = ilock[s], snap'[s] = snap[s], claim'[s] = claim[s],
         seen'[s] = seen[s], claims'[s] = claims[s], pending'[s] = pending[s], wanted'[s] = wanted[s]
  PROVE  MutexOK(s)' /\ WantsOK(s)'
<1>1. Held(s)' = Held(s)
  BY DEF Held, Ordered
<1>2. Taken(s)' = Taken(s) /\ GivingUp(s)' = GivingUp(s)
  BY DEF Taken, Waiting, After, GivingUp
<1>3. MutexOK(s)'
  BY <1>1 DEF MutexOK
<1>4. WantsOK(s)'
  BY <1>2 DEF WantsOK
<1> QED BY <1>3, <1>4

LEMMA ActStep ==
  ASSUME Inductive, NEW s \in Server, Acts(s)
  PROVE  Inductive'
<1>0. Type /\ MutexOK(s) /\ WantsOK(s) /\ \A t \in Server : MutexOK(t) /\ WantsOK(t)
  BY DEF Inductive
<1>1. Type'
  <2>1. Private' /\ Shared'
    BY <1>0, PrivateStep, SharedStep
  <2> QED BY <2>1 DEF Type, Private, Shared
<1>2. ASSUME NEW t \in Server PROVE MutexOK(t)' /\ WantsOK(t)'
  <2>1. CASE t = s
    BY <1>0, <2>1, MutexStep, WantsStep
  <2>2. CASE t # s
    <3>1. Same(t)
      BY <1>0, <2>2, PrivateStep
    <3> QED BY <1>0, <3>1, UnmovedKeeps DEF Same
  <2> QED BY <2>1, <2>2
<1> QED BY <1>1, <1>2, LifeStep, RowsOKStep, RanksStep, HoldingStep DEF Inductive

(* A reader's step leaves every server what it knows. *)
LEMMA ReaderStep ==
  ASSUME Inductive, UNCHANGED <<world, owed, names, told, ilock, claim, seen, asks>>,
         row' \in [Server -> [Name -> Nat]], \A s \in Server, n \in Name : row'[s][n] \in {0, row[s][n]},
         \A s \in Server, n \in Name : Live(s) => row'[s][n] = row[s][n],
         doomed' \in SUBSET (Server \X Name), \A r \in doomed' : up[r[1]] # "unborn" /\ ~Live(r[1])
  PROVE  Inductive'
<1> USE DEF world, names, told
<1>0. Type /\ Life /\ RowsOK /\ Ranks /\ Holding /\ (\A s \in Server : MutexOK(s)) /\ (\A s \in Server : WantsOK(s))
  BY DEF Inductive
<1>1. Type'
  BY <1>0 DEF Type
<1>2. Life'
  <2>1. \A s \in Server : (Up(s)' <=> Up(s)) /\ (Live(s)' <=> Live(s)) /\ (Knows(s)' <=> Knows(s))
    BY DEF Up, Live, Knows
  <2> QED BY <1>0, <2>1 DEF Life
<1>3. ASSUME NEW s \in Server PROVE MutexOK(s)' /\ WantsOK(s)'
  BY <1>0, UnmovedKeeps
<1>4. RowsOK'
  BY <1>0 DEF RowsOK, Answers, GivingUp, Up
<1>5. ASSUME NEW s \in Server, Up(s)', ~failed'[s], claim'[s].at \notin {"adopt", "announce"}
      PROVE  RankedBy(row'[s], Remaining(s)')
  <2>1. RankedBy(row[s], Remaining(s)) /\ Remaining(s)' = Remaining(s)
    BY <1>0, <1>5 DEF Ranks, Remaining, Held, Ordered, Up
  <2>2. claim[s].at = "release" => RemoveFirst(claims[s], claim[s].name) \in Seq(Name)
                                   /\ IsInjective(RemoveFirst(claims[s], claim[s].name))
    BY <1>0, RemoveFacts DEF Type, MutexOK
  <2>3. Remaining(s) \in Seq(Name)
    BY <1>0, <2>2, OrderedFacts, HeldFacts DEF Remaining
  <2>4. PICK order \in Seq(Name) : order = Remaining(s)
    BY <2>3
  <2>5. PICK r, q : r = row[s] /\ q = row'[s]
    OBVIOUS
  <2>6. RankedBy(r, order) /\ \A n \in Name : q[n] \in {0, r[n]}
    BY <2>1, <2>4, <2>5
  <2>7. RankedBy(q, order)
    BY <2>6, SeqFacts DEF RankedBy
  <2> QED BY <2>1, <2>4, <2>5, <2>7
<1>6. Holding'
  <2>1. \A s \in Server : (Live(s)' <=> Live(s))
    BY DEF Up, Live
  <2>2. \A s, t \in Server : s # t /\ Pid[s] = Pid[t] /\ (claims'[s] # <<>> \/ claim'[s].at = "adopt")
          => \A n \in Name : row'[t][n] = 0
    BY <1>0 DEF Holding
  <2>3. \A s, t \in Server, n \in Name : Live(s)' /\ Live(t)' /\ row'[s][n] # 0 /\ row'[t][n] # 0 => s = t
    BY <1>0, <2>1 DEF Holding
  <2>4. \A s \in Server : ilock'[s] \in {"recheck", "create"} => to'[s] \in Name
    BY <1>0 DEF Holding
  <2>5. ASSUME NEW s \in Server, ilock'[s] = "create", Live(s)' PROVE row'[s][to'[s]] # 0
    <3>1. PICK n \in Name : n = to[s] /\ n = to'[s]
      BY <1>0, <2>5 DEF Holding
    <3>2. row[s][n] # 0 /\ Live(s)
      BY <1>0, <2>1, <2>5, <3>1 DEF Holding
    <3> QED BY <3>1, <3>2
  <2> QED BY <2>2, <2>3, <2>4, <2>5 DEF Holding
<1> QED BY <1>1, <1>2, <1>3, <1>4, <1>5, <1>6 DEF Inductive, Ranks

(* A delete takes rows of the dead only. *)
LEMMA PruneFacts ==
  ASSUME Inductive, PruneDelete
  PROVE  /\ row' \in [Server -> [Name -> Nat]]
         /\ \A s \in Server, n \in Name : row'[s][n] \in {0, row[s][n]}
         /\ \A s \in Server, n \in Name : Live(s) => row'[s][n] = row[s][n]
<1>1. row \in [Server -> [Name -> Nat]] /\ \A r \in doomed : ~Live(r[1])
  BY DEF Inductive, Type, Life
<1>2. \A s \in Server, n \in Name : Live(s) => ~Pruned(s, n)
  BY <1>1 DEF Pruned
<1> QED BY <1>1, <1>2 DEF PruneDelete

LEMMA InductiveStep ==
  ASSUME Inductive, [Next]_vars
  PROVE  Inductive'
<1>0. Type /\ Life
  BY DEF Inductive
<1>1. ASSUME NEW unsure \in Doubts, PruneRead(unsure) PROVE Inductive'
  <2>1. \A r \in DeadRows(unsure) : r \in Server \X Name /\ up[r[1]] # "unborn" /\ ~Live(r[1])
    <3>1. ASSUME NEW s \in Server, NEW n \in Name, row[s][n] # 0, ~MayLive(s, unsure)
          PROVE  up[s] # "unborn" /\ ~Live(s)
      BY <1>0, <3>1 DEF Life, MayLive, MayRun, Live
    <3> QED BY <3>1 DEF DeadRows
  <2>2. doomed' = DeadRows(unsure) /\ UNCHANGED <<world, owed, names, told, ilock, claim, seen, asks>> /\ row' = row
    BY <1>1 DEF PruneRead
  <2>3. row \in [Server -> [Name -> Nat]] /\ doomed' \in SUBSET (Server \X Name)
    BY <1>0, <2>1, <2>2 DEF Type
  <2> QED BY <2>1, <2>2, <2>3, ReaderStep
<1>2. CASE PruneDelete
  BY <1>2, PruneFacts, ReaderStep DEF PruneDelete
<1>3. CASE UNCHANGED vars
  BY <1>0, <1>3, ReaderStep DEF vars, store, Type, Life
<1> QED BY <1>1, <1>2, <1>3, StepKinds, ActStep

LEMMA InductiveInit == Init => Inductive
<1> SUFFICES ASSUME Init PROVE Inductive
  OBVIOUS
<1>0. MaxAsks \in Nat /\ MaxClaims \in Nat /\ NoClaim \in Claims /\ NoRecord \in Records /\ NoName \in Names
      /\ "free" \in Locks /\ <<>> \in Seq(Name) /\ IsInjective(<<>>) /\ NoClaim.at = "free"
  BY BoundAssumption DEF NoClaim, NoRecord, Claims, Records, Stages, Names, Locks, IsInjective
<1>1. Type
  BY <1>0 DEF Init, Type
<1>2. ASSUME NEW s \in Server
      PROVE  /\ ~Up(s) /\ ~Live(s) /\ ~Knows(s) /\ claims[s] = <<>> /\ wanted[s] = {} /\ claim[s] = NoClaim /\ ilock[s] = "free"
             /\ seen[s] = NoRecord /\ host[s] /\ \A n \in Name : row[s][n] = 0 /\ pending[s][n] = 0
  BY DEF Init, Up, Live, Knows
<1>3. ASSUME NEW s \in Server PROVE MutexOK(s)
  BY <1>0, <1>2 DEF MutexOK
<1>4. ASSUME NEW s \in Server PROVE WantsOK(s)
  <2>1. Taken(s) = {} /\ GivingUp(s) = {} /\ ToSet(claims[s]) = {}
    BY <1>0, <1>2 DEF Taken, Waiting, After, GivingUp, ToSet
  <2> QED BY <1>0, <1>2, <2>1, FS_EmptySet DEF WantsOK
<1>5. Life
  BY <1>2 DEF Life, Init
<1>6. RowsOK /\ Ranks
  BY <1>2 DEF RowsOK, Ranks
<1>7. Holding
  BY <1>0, <1>2 DEF Holding
<1> QED BY <1>1, <1>3, <1>4, <1>5, <1>6, <1>7 DEF Inductive

(* The invariant holds in every reachable state, whatever the servers, their *)
(* names and pids, the probes' answers and the bounds.                       *)
THEOREM Invariance == Spec => []Inductive
BY InductiveInit, InductiveStep, PTL DEF Spec

----------------------------------------------------------------------------
(* What follows from it. *)

(* Every variable keeps its type: in particular no server claims a name     *)
(* twice (claim_lane).                                                      *)
THEOREM Types == Spec => []TypeOK
<1>1. Inductive => TypeOK
  BY DEF Inductive, Type, TypeOK, Locks, Stages, Names, Claims, Records
<1> QED BY <1>1, Invariance, PTL

(* The rows and claims of a running server are the names its session asked  *)
(* for and did not give up, besides the lane it derives: no stale heartbeat *)
(* brings a released name back and no fulfilment a cancelled one            *)
(* (_release_locked, _fulfil_pending, _register_locked).                    *)
THEOREM Wanted == Spec => []OnlyWanted
<1>1. Inductive => OnlyWanted
  <2> SUFFICES ASSUME Inductive, NEW s \in Server, Up(s)
               PROVE  /\ \A n \in Name : row[s][n] # 0 => n \in wanted[s] \cup {Own[s]}
                      /\ claim[s] = NoClaim => ToSet(claims[s]) \cup Waiting(s) = wanted[s]
    BY DEF OnlyWanted
  <2>1. wanted[s] = Taken(s) \ GivingUp(s) /\ \A n \in Name : row[s][n] # 0 => n \in Answers(s)
    BY DEF Inductive, WantsOK, RowsOK
  <2>2. Answers(s) \in SUBSET (wanted[s] \cup {Own[s]})
    BY <2>1 DEF Answers, Taken, GivingUp, After
  <2>3. claim[s] = NoClaim => ToSet(claims[s]) \cup Waiting(s) = wanted[s]
    BY <2>1 DEF Taken, GivingUp, After, NoClaim
  <2> QED BY <2>1, <2>2, <2>3
<1> QED BY <1>1, Invariance, PTL

(* While no claim or announcement is under way and the last one succeeded,  *)
(* the registry lists a server's names in the order the server answers to   *)
(* them (rerank, `ranked`).                                                 *)
THEOREM InOrder == Spec => []AdvertisedInOrder
<1>1. Inductive => AdvertisedInOrder
  <2> SUFFICES ASSUME Inductive, NEW s \in Server, Up(s), claim[s] = NoClaim, ~failed[s]
               PROVE  RankedBy(row[s], Held(s))
    BY DEF AdvertisedInOrder, RankedBy
  <2> QED BY DEF Inductive, Ranks, Remaining, NoClaim
<1> QED BY <1>1, Invariance, PTL

(* A claim the registry granted never finds its claimant full: the capacity *)
(* that was asked for before is still there (HasCapacity, claim_lane).      *)
THEOREM Fits == Spec => []AdoptionFits
<1>1. Inductive => AdoptionFits
  BY DEF Inductive, WantsOK, Taken, After, AdoptionFits
<1> QED BY <1>1, Invariance, PTL

(* The row of a session that lives goes only by its own release or exit: no *)
(* claim, announcement or prune takes it, however old the probe it judged   *)
(* by (_prune_dead, _acquire).                                              *)
THEOREM GivenUp == Spec => OnlyGivenUp
<1>1. ASSUME Inductive, [Next]_vars, NEW s \in Server, NEW n \in Name, Live(s), row[s][n] # 0, row'[s][n] = 0
      PROVE  ilock'[s] = "release" \/ up'[s] = "gone"
  <2>0. Type /\ \A t \in Server : MutexOK(t)
    BY <1>1 DEF Inductive
  <2>1. ASSUME NEW a \in Server, Acts(a) PROVE ilock'[s] = "release" \/ up'[s] = "gone"
    <3>1. a = s
      BY <1>1, <2>1, LiveKept
    <3>2. ASSUME NEW N, Takes(a, N) PROVE FALSE
      BY <1>1, <3>1, <3>2 DEF Takes
    <3>3. ASSUME NEW m \in Name, ReleaseDrop(s, m) PROVE ilock'[s] = "release"
      BY <2>0, <3>3, LockFacts DEF ReleaseDrop, Locks
    <3>4. Unregister(s) => up'[s] = "gone"
      BY <2>0 DEF Unregister, Gone, Type
    <3> QED BY <1>1, <2>0, <2>1, <3>1, <3>2, <3>3, <3>4, RowKinds
  <2>2. ASSUME NEW unsure \in Doubts, PruneRead(unsure) PROVE FALSE
    BY <1>1, <2>2 DEF PruneRead
  <2>3. ASSUME PruneDelete PROVE FALSE
    BY <1>1, <2>3, PruneFacts
  <2>4. ASSUME UNCHANGED vars PROVE FALSE
    BY <1>1, <2>4 DEF vars, store
  <2> QED BY <1>1, <2>1, <2>2, <2>3, <2>4, StepKinds
<1>2. Inductive /\ [Next]_vars =>
        [\A s \in Server, n \in Name :
           Live(s) /\ row[s][n] # 0 /\ row'[s][n] = 0 => ilock'[s] = "release" \/ up'[s] = "gone"]_vars
  BY <1>1
<1> QED BY <1>2, Invariance, PTL DEF Spec, OnlyGivenUp

----------------------------------------------------------------------------
(* Lanes implements NamePromise. *)

Lives == {s \in Server : Live(s)}
Grants == {r \in Server \X Name : row[r[1]][r[2]] # 0}

LEMMA GrantsFacts ==
  /\ \A s, n : <<s, n>> \in Grants <=> s \in Server /\ n \in Name /\ row[s][n] # 0
  /\ \A h \in Grants : h[1] \in Server /\ h[2] \in Name /\ h = <<h[1], h[2]>> /\ row[h[1]][h[2]] # 0
  /\ Grants \in SUBSET (Server \X Name) /\ Grants' \in SUBSET (Server \X Name)
  /\ \A s, n : <<s, n>> \in Grants' <=> s \in Server /\ n \in Name /\ row'[s][n] # 0
  /\ \A h \in Grants' : h[1] \in Server /\ h[2] \in Name /\ h = <<h[1], h[2]>> /\ row'[h[1]][h[2]] # 0
BY DEF Grants

(* Rows of servers outside L that go, and others that stay. *)
LEMMA GrantsLess ==
  ASSUME NEW L, \A s \in Server, n \in Name : row'[s][n] # 0 => row[s][n] # 0,
         \A s \in Server, n \in Name : s \in L /\ row[s][n] # 0 => row'[s][n] # 0
  PROVE  \E D \in SUBSET {h \in Grants : h[1] \notin L} : Grants' = Grants \ D
<1>1. PICK D : D = {h \in Grants : row'[h[1]][h[2]] = 0}
  OBVIOUS
<1>2. D \in SUBSET {h \in Grants : h[1] \notin L}
  BY <1>1, GrantsFacts
<1>3. Grants' = Grants \ D
  BY <1>1 DEF Grants
<1> QED BY <1>2, <1>3

(* A server comes: nothing is registered for it or owed to it. *)
LEMMA StartJoins ==
  ASSUME Inductive, NEW s \in Server, Start(s)
  PROVE  Promise!Join(s)
<1>0. up \in [Server -> {"unborn", "up", "gone"}] /\ up[s] = "unborn" /\ ~Up(s) /\ host[s]
      /\ \A n \in Name : row[s][n] = 0 /\ <<s, n>> \notin owed
  BY DEF Inductive, Type, Life, Start, Up
<1>1. up' = [up EXCEPT ![s] = "up"] /\ host' = host /\ row' = row /\ owed' = owed
  BY DEF Start, store
<1>2. Lives' = Lives \cup {s} /\ s \notin Lives
  BY <1>0, <1>1 DEF Lives, Live, Up
<1>3. Grants' = Grants /\ \A n \in Name : <<s, n>> \notin Grants \cup owed
  BY <1>0, <1>1, GrantsFacts DEF Grants
<1> QED BY <1>1, <1>2, <1>3 DEF Promise!Join, Lives, Grants

(* A server or its host dies: what it takes away was a dead one's or its own. *)
LEMMA DeathFades ==
  ASSUME Inductive, NEW s \in Server, Acts(s), Gone(s) \/ HostDies(s)
  PROVE  Promise!Fade(s)
<1>0. Type /\ Life /\ MutexOK(s) /\ row \in [Server -> [Name -> Nat]]
      /\ up \in [Server -> {"unborn", "up", "gone"}] /\ host \in [Server -> BOOLEAN]
  BY DEF Inductive, Type
<1>1. Up(s) /\ owed' = owed /\ (row' = row \/ Unregister(s))
  <2>1. Acts(s) /\ HostDies(s) => Up(s) /\ owed' = owed /\ row' = row
    BY DEF HostDies, Live, store
  <2>2. ASSUME Gone(s) PROVE Up(s) /\ owed' = owed /\ (row' = row \/ Unregister(s))
    <3>1. \A N : Takes(s, N) /\ UNCHANGED world => FALSE
      BY <1>0, <2>2 DEF Gone, world, Up
    <3>2. ASSUME NEW n \in Name, ReleaseDrop(s, n) PROVE FALSE
      BY <1>0, <2>2, <3>2 DEF ReleaseDrop, Gone, world, Up
    <3> QED BY <1>0, <2>2, <3>1, <3>2, RowKinds DEF Gone
  <2> QED BY <2>1, <2>2
<1>2. Lives' = Lives \ {s}
  BY <1>0 DEF Lives, Live, Up, Gone, HostDies
<1>3. PICK L : L = Lives \ {s}
  OBVIOUS
<1>4. \A t \in Server, n \in Name : row'[t][n] # 0 => row[t][n] # 0
  BY <1>0, <1>1 DEF Unregister
<1>5. ASSUME NEW t \in Server, NEW n \in Name, t \in L, row[t][n] # 0 PROVE row'[t][n] # 0
  <2>1. Pid[t] # Pid[s]
    BY <1>0, <1>1, <1>3, <1>5 DEF Lives, Live, Life
  <2> QED BY <1>0, <1>1, <1>5, <2>1 DEF Unregister
<1>6. PICK D \in SUBSET {h \in Grants : h[1] \notin L} : Grants' = Grants \ D
  BY <1>4, <1>5, GrantsLess
<1> QED BY <1>1, <1>2, <1>3, <1>6 DEF Promise!Fade, Promise!Stale, Lives, Grants

(* A registration takes names nobody else alive keeps. *)
LEMMA TakesTake ==
  ASSUME Inductive, NEW s \in Server, Up(s), NEW N \in SUBSET Name, Takes(s, N), UNCHANGED <<world, owed>>
  PROVE  Promise!Take(s, N)
<1>0. Life
  BY DEF Inductive
<1>1. Lives' = Lives
  BY DEF Lives, Live, Up, world
<1>2. ASSUME NEW t \in Lives, t # s PROVE Pid[t] # Pid[s] /\ t \in Server /\ Up(t) /\ Live(t)
  BY <1>0, <1>2 DEF Lives, Live, Life
<1>3. ASSUME NEW n \in N, NEW t \in Lives \ {s} PROVE <<t, n>> \notin Grants \cup owed
  BY <1>2, <1>3, GrantsFacts DEF Takes, Unkept
<1>4. PICK D : D = {h \in Grants : h[1] # s /\ Loses(s, h[1], h[2], N)}
  OBVIOUS
<1>5. D \in SUBSET {h \in Grants : h[1] \notin Lives \ {s}}
  <2>1. ASSUME NEW h \in Grants, h[1] # s, Loses(s, h[1], h[2], N), h[1] \in Lives PROVE FALSE
    BY <1>2, <2>1, GrantsFacts DEF Loses, Takes, Unkept
  <2> QED BY <1>4, <2>1
<1>6. \A h \in Grants : h[2] \in N /\ h[1] # s => h \in D
  BY <1>4 DEF Loses
<1>7. Grants' = (Grants \ D) \cup ({s} \X N)
  <2>1. ASSUME NEW t \in Server, NEW n \in Name
        PROVE  <<t, n>> \in Grants' <=> <<t, n>> \in (Grants \ D) \cup ({s} \X N)
    <3>1. CASE t = s
      BY <1>4, <3>1, GrantsFacts DEF Takes
    <3>2. CASE t # s
      <4>1. row'[t][n] = IF Loses(s, t, n, N) THEN 0 ELSE row[t][n]
        BY <3>2 DEF Takes
      <4>2. <<t, n>> \in Grants' <=> row[t][n] # 0 /\ ~Loses(s, t, n, N)
        BY <4>1, GrantsFacts
      <4>3. <<t, n>> \in Grants \ D <=> row[t][n] # 0 /\ ~Loses(s, t, n, N)
        BY <1>4, <3>2, GrantsFacts
      <4> QED BY <3>2, <4>2, <4>3
    <3> QED BY <3>1, <3>2
  <2>2. Grants' \in SUBSET (Server \X Name) /\ (Grants \ D) \cup ({s} \X N) \in SUBSET (Server \X Name)
    BY GrantsFacts
  <2> QED BY <2>1, <2>2
<1> QED BY <1>1, <1>3, <1>4, <1>5, <1>6, <1>7 DEF Promise!Take, Promise!Free, Promise!Stale, Lives, Grants

(* A release gives up one name, and no other server's. *)
LEMMA DropYields ==
  ASSUME Inductive, NEW s \in Server, NEW n \in Name, ReleaseDrop(s, n)
  PROVE  Promise!Yield(s, n) \/ UNCHANGED Promise!vars
<1>0. Type /\ Holding /\ claims[s] # <<>>
  BY DEF Inductive, ReleaseDrop, ToSet
<1>1. Lives' = Lives /\ owed' = owed
  BY DEF ReleaseDrop, Lives, Live, Up, world
<1>2. CASE n = Own[s]
  <2>1. \A t \in Server, m \in Name : row'[t][m] # 0 <=> row[t][m] # 0
    BY <1>0, <1>2, DropFacts
  <2>2. Grants' = Grants
    BY <2>1 DEF Grants
  <2> QED BY <1>1, <2>2 DEF Promise!vars, Lives, Grants
<1>3. CASE n # Own[s]
  <2>1. \A t \in Server, m \in Name : row'[t][m] = IF Pid[t] = Pid[s] /\ m = n THEN 0 ELSE row[t][m]
    BY <1>0, <1>3, DropFacts
  <2>2. \A t \in Server : t # s /\ Pid[t] = Pid[s] => row[t][n] = 0
    BY <1>0 DEF Holding
  <2>3. \A t \in Server, m \in Name : row'[t][m] # 0 <=> row[t][m] # 0 /\ ~(t = s /\ m = n)
    BY <2>1, <2>2
  <2>4. Grants' = Grants \ {<<s, n>>}
    <3>1. \A t \in Server, m \in Name : <<t, m>> \in Grants' <=> <<t, m>> \in Grants \ {<<s, n>>}
      BY <2>3, GrantsFacts
    <3> QED BY <3>1, GrantsFacts
  <2> QED BY <1>1, <2>4 DEF Promise!Yield, Lives, Grants
<1> QED BY <1>2, <1>3

(* A job is admitted for a lane its server holds, alone of those that live. *)
LEMMA CreateOwes ==
  ASSUME Inductive, NEW s \in Server, AdmitCreate(s)
  PROVE  to[s] \in Name /\ Promise!Owe(s, to[s])
<1>1. to[s] \in Name /\ (Live(s) => row[s][to[s]] # 0)
  BY DEF Inductive, Holding, AdmitCreate
<1>2. PICK n \in Name : n = to[s]
  BY <1>1
<1>3. Live(s) => \A t \in Server : Live(t) /\ t # s => row[t][n] = 0
  BY <1>1, <1>2 DEF Inductive, Holding
<1>4. s \in Lives => \A t \in Lives \ {s} : <<t, n>> \notin Grants
  BY <1>3, GrantsFacts DEF Lives
<1>5. Lives' = Lives /\ Grants' = Grants /\ owed' = owed \cup {<<s, n>>}
  BY <1>2 DEF AdmitCreate, Lives, Grants, Live, Up, world
<1>6. Promise!Owe(s, n)
  BY <1>4, <1>5 DEF Promise!Owe, Lives, Grants
<1> QED BY <1>2, <1>6

LEMMA PromiseStep == Inductive /\ [Next]_vars => [Promise!Next]_(Promise!vars)
<1> SUFFICES ASSUME Inductive, [Next]_vars PROVE [Promise!Next]_(Promise!vars)
  OBVIOUS
<1>0. Type /\ Life /\ \A s \in Server : MutexOK(s)
  BY DEF Inductive
<1>1. ASSUME UNCHANGED world, row' = row, owed' = owed PROVE UNCHANGED Promise!vars
  <2>1. Lives' = Lives /\ Grants' = Grants
    BY <1>1 DEF Lives, Grants, Live, Up, world
  <2> QED BY <1>1, <2>1 DEF Promise!vars, Lives, Grants
<1>2. ASSUME NEW s \in Server, Acts(s) PROVE [Promise!Next]_(Promise!vars)
  <2>1. CASE Start(s)
    BY <2>1, StartJoins DEF Promise!Next
  <2>2. CASE Gone(s) \/ HostDies(s)
    BY <1>2, <2>2, DeathFades DEF Promise!Next
  <2>3. ASSUME NEW n \in Name, ReleaseDrop(s, n) PROVE [Promise!Next]_(Promise!vars)
    BY <2>3, DropYields DEF Promise!Next
  <2>4. CASE AdmitCreate(s)
    BY <2>4, CreateOwes DEF Promise!Next
  <2>5. ASSUME NEW n \in Name, Settle(s, n) PROVE [Promise!Next]_(Promise!vars)
    <3>1. Lives' = Lives /\ Grants' = Grants /\ owed' = owed \ {<<s, n>>}
      BY <2>5 DEF Settle, Lives, Grants, Live, Up, world
    <3>2. Promise!Settle(s, n)
      BY <3>1 DEF Promise!Settle, Lives, Grants
    <3> QED BY <3>2 DEF Promise!Next
  <2>6. ASSUME NEW N \in SUBSET Name, Takes(s, N), Up(s), UNCHANGED <<world, owed>> PROVE [Promise!Next]_(Promise!vars)
    BY <2>6, TakesTake DEF Promise!Next
  <2>7. CASE UNCHANGED world /\ row' = row /\ owed' = owed
    BY <1>1, <2>7
  <2>8. UNCHANGED world \/ Start(s) \/ Gone(s) \/ HostDies(s)
    BY <1>0, <1>2, UpKinds
  <2>9. owed' = owed \/ AdmitCreate(s) \/ \E n \in Name : Settle(s, n)
    BY <1>2, DebtKinds
  <2>10. \/ row' = row
         \/ Up(s) /\ UNCHANGED <<world, owed>> /\ \E N \in SUBSET Name : Takes(s, N)
         \/ \E n \in Name : ReleaseDrop(s, n)
         \/ Gone(s)
    BY <1>0, <1>2, RowKinds DEF Unregister
  <2> QED BY <2>1, <2>2, <2>3, <2>4, <2>5, <2>6, <2>7, <2>8, <2>9, <2>10
<1>3. ASSUME PruneDelete PROVE [Promise!Next]_(Promise!vars)
  <2>1. Lives' = Lives /\ owed' = owed
    BY <1>3 DEF PruneDelete, Lives, Live, Up, world
  <2>2. \A s \in Server, n \in Name : row'[s][n] # 0 => row[s][n] # 0
    BY <1>3, PruneFacts
  <2>3. \A s \in Server, n \in Name : s \in Lives /\ row[s][n] # 0 => row'[s][n] # 0
    BY <1>3, PruneFacts DEF Lives
  <2>4. PICK L : L = Lives
    OBVIOUS
  <2>5. PICK D \in SUBSET {h \in Grants : h[1] \notin L} : Grants' = Grants \ D
    BY <2>2, <2>3, <2>4, GrantsLess
  <2>6. Promise!Forget
    BY <2>1, <2>4, <2>5 DEF Promise!Forget, Promise!Stale, Lives, Grants
  <2> QED BY <2>6 DEF Promise!Next
<1>4. ASSUME NEW unsure \in Doubts, PruneRead(unsure) PROVE [Promise!Next]_(Promise!vars)
  BY <1>1, <1>4 DEF PruneRead
<1>5. CASE UNCHANGED vars
  BY <1>1, <1>5 DEF vars, store
<1> QED BY <1>2, <1>3, <1>4, <1>5, StepKinds

LEMMA PromiseInit == Init => Promise!Init
<1> SUFFICES ASSUME Init PROVE Promise!Init
  OBVIOUS
<1>1. Lives = {} /\ Grants = {} /\ owed = {}
  BY DEF Init, Lives, Grants, Live, Up
<1> QED BY <1>1 DEF Promise!Init, Lives, Grants

(* A name passes only from a session that gave it up or is gone, together   *)
(* with every other its taker asks for, and not while another live session  *)
(* owes a result to it: the registry implements NamePromise (_refusal and   *)
(* _acquire in one transaction; the identity lock over an admission).       *)
THEOREM LanesKeepPromise == Spec => KeepsNamePromise
BY PromiseInit, PromiseStep, Invariance, PTL DEF Spec, KeepsNamePromise, Promise!Spec
=============================================================================
