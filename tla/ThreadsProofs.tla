---------------------------- MODULE ThreadsProofs ----------------------------
(***************************************************************************)
(* Theorems about Threads, for any servers, names, homes, page and cap:    *)
(* which names a restoration takes, the order they come back in, how a     *)
(* thread's bindings are numbered, and what a conversation is advised.     *)
(***************************************************************************)
EXTENDS Threads, DataLemmas

----------------------------------------------------------------------------
(* Lists. *)

(* Where a name goes: after restored names bound before it or not bound,   *)
(* before the first that is bound after it or that was claimed.            *)
Spot(b, s, list, back, n, p) ==
  /\ \A k \in 1 .. p - 1 :
       list[k] \in back /\ ~(list[k] \in Own(b, s) /\ b[list[k]].seq > b[n].seq)
  /\ p \in 1 .. Len(list) /\ list[p] \in back =>
       list[p] \in Own(b, s) /\ b[list[p]].seq > b[n].seq

LEMMA PlaceSpot ==
  ASSUME NEW b, NEW s, NEW list \in Seq(Name), NEW back, NEW n \in Name
  PROVE  /\ Place(b, s, list, back, n) \in Seq(Name)
         /\ \E p \in 1 .. Len(list) + 1 :
              /\ Inserted(list, p, n, Place(b, s, list, back, n))
              /\ Spot(b, s, list, back, n, p)
<1> DEFINE After(e) == \/ e \in back /\ e \in Own(b, s) /\ b[e].seq > b[n].seq
                       \/ e \notin back
           I == {i \in 1 .. Len(list) : After(list[i])}
           q == Place(b, s, list, back, n)
<1>0. Len(list) \in Nat
  BY LenProperties
<1>1. CASE I = {}
  <2>1. q = Append(list, n)
    BY <1>1 DEF Place, SelectInSeq
  <2>2. q \in Seq(Name) /\ Inserted(list, Len(list) + 1, n, q)
    BY <2>1, AppendInserts
  <2>3. \A k \in 1 .. Len(list) : ~After(list[k])
    BY <1>1
  <2>4. Spot(b, s, list, back, n, Len(list) + 1)
    <3>1. ~(Len(list) + 1 \in 1 .. Len(list)) /\ (Len(list) + 1) - 1 = Len(list)
      BY <1>0
    <3> QED BY <2>3, <3>1 DEF Spot
  <2>5. Len(list) + 1 \in 1 .. Len(list) + 1
    BY <1>0
  <2> HIDE DEF q
  <2> QED BY <2>2, <2>4, <2>5 DEF q
<1>2. CASE I # {}
  <2>1. Min(I) \in I /\ \A i \in I : Min(I) <= i
    <3>1. I \in SUBSET Nat
      OBVIOUS
    <3> HIDE DEF I
    <3> QED BY <1>2, <3>1, MinNat
  <2> DEFINE p == Min(I)
  <2>2. p \in 1 .. Len(list) /\ p # 0 /\ After(list[p])
    <3>1. p \in I
      BY <2>1
    <3> HIDE DEF p
    <3> QED BY <3>1
  <2>3. q = InsertAt(list, p, n)
    <3>1. q = IF p = 0 THEN Append(list, n) ELSE InsertAt(list, p, n)
      BY <1>2 DEF Place, SelectInSeq
    <3> HIDE DEF p, q
    <3> QED BY <2>2, <3>1
  <2>4. \A k \in 1 .. p - 1 : ~After(list[k])
    <3> SUFFICES ASSUME NEW k \in 1 .. p - 1, k \in I PROVE FALSE
      BY <1>0, <2>2
    <3>1. p <= k
      BY <2>1
    <3> HIDE DEF p
    <3> QED BY <2>2, <3>1
  <2> HIDE DEF p, I, q
  <2>5. q \in Seq(Name) /\ Inserted(list, p, n, q)
    BY <2>2, <2>3, InsertAtEffect
  <2>6. Spot(b, s, list, back, n, p)
    BY <2>2, <2>4 DEF Spot
  <2>7. p \in 1 .. Len(list) + 1
    BY <1>0, <2>2
  <2> QED BY <2>5, <2>6, <2>7 DEF q
<1> QED BY <1>1, <1>2

(* What an insertion does to the elements of a list, and to their order. *)
LEMMA InsertedElements ==
  ASSUME NEW s \in Seq(Name), NEW n \in Name, NEW t \in Seq(Name), NEW p \in 1 .. Len(s) + 1,
         Inserted(s, p, n, t)
  PROVE  /\ ToSet(t) = ToSet(s) \cup {n}
         /\ IsInjective(s) /\ n \notin ToSet(s) => IsInjective(t)
         /\ DOMAIN t = 1 .. Len(s) + 1 /\ DOMAIN s = 1 .. Len(s) /\ Len(s) \in Nat
<1>0. /\ DOMAIN t = 1 .. Len(s) + 1 /\ DOMAIN s = 1 .. Len(s) /\ Len(s) \in Nat
      /\ p \in Nat /\ p >= 1 /\ p <= Len(s) + 1
  BY LenProperties DEF Inserted
<1>1. \A k \in 1 .. Len(s) + 1 : t[k] = IF k < p THEN s[k] ELSE IF k = p THEN n ELSE s[k - 1]
  BY DEF Inserted
<1> DEFINE To(k) == IF k < p THEN k ELSE k + 1
<1>2. \A k \in 1 .. Len(s) : To(k) \in 1 .. Len(s) + 1 /\ t[To(k)] = s[k]
  <2> SUFFICES ASSUME NEW k \in 1 .. Len(s) PROVE To(k) \in 1 .. Len(s) + 1 /\ t[To(k)] = s[k]
    OBVIOUS
  <2>1. CASE k < p
    BY <1>0, <1>1, <2>1
  <2>2. CASE ~(k < p)
    <3>1. k + 1 \in 1 .. Len(s) + 1 /\ ~(k + 1 < p) /\ k + 1 # p /\ (k + 1) - 1 = k
      BY <1>0, <2>2
    <3> QED BY <1>1, <2>2, <3>1
  <2> QED BY <2>1, <2>2
<1>3. t[p] = n
  BY <1>0, <1>1
<1>4. \A k \in 1 .. Len(s) + 1 : k # p => \E m \in 1 .. Len(s) : k = To(m) /\ t[k] = s[m]
  <2> SUFFICES ASSUME NEW k \in 1 .. Len(s) + 1, k # p
               PROVE  \E m \in 1 .. Len(s) : k = To(m) /\ t[k] = s[m]
    OBVIOUS
  <2>1. CASE k < p
    <3>1. k \in 1 .. Len(s) /\ k = To(k)
      BY <1>0, <2>1
    <3> QED BY <1>1, <2>1, <3>1
  <2>2. CASE ~(k < p)
    <3>1. k - 1 \in 1 .. Len(s) /\ k = To(k - 1)
      BY <1>0, <2>2
    <3>2. t[k] = s[k - 1]
      BY <1>1, <2>2
    <3> QED BY <3>1, <3>2
  <2> QED BY <2>1, <2>2
<1> HIDE DEF To
<1>5. ToSet(t) = ToSet(s) \cup {n}
  <2>1. ASSUME NEW k \in 1 .. Len(s) + 1 PROVE t[k] \in ToSet(s) \cup {n}
    BY <1>0, <1>3, <1>4 DEF ToSet
  <2>2. ASSUME NEW k \in 1 .. Len(s) PROVE s[k] \in ToSet(t)
    BY <1>0, <1>2 DEF ToSet
  <2>3. n \in ToSet(t)
    BY <1>0, <1>3 DEF ToSet
  <2> QED BY <1>0, <2>1, <2>2, <2>3 DEF ToSet
<1>6. ASSUME IsInjective(s), n \notin ToSet(s) PROVE IsInjective(t)
  <2>1. \A m \in 1 .. Len(s) : s[m] # n
    BY <1>0, <1>6 DEF ToSet
  <2> SUFFICES ASSUME NEW k \in 1 .. Len(s) + 1, NEW l \in 1 .. Len(s) + 1, t[k] = t[l]
               PROVE  k = l
    BY <1>0 DEF IsInjective
  <2>2. CASE k = p
    BY <1>3, <1>4, <2>1, <2>2
  <2>3. CASE l = p
    BY <1>3, <1>4, <2>1, <2>3
  <2>4. CASE k # p /\ l # p
    <3>1. PICK i \in 1 .. Len(s) : k = To(i) /\ t[k] = s[i]
      BY <1>4, <2>4
    <3>2. PICK j \in 1 .. Len(s) : l = To(j) /\ t[l] = s[j]
      BY <1>4, <2>4
    <3>3. i = j
      BY <1>0, <1>6, <3>1, <3>2 DEF IsInjective
    <3> QED BY <3>1, <3>2, <3>3
  <2> QED BY <2>2, <2>3, <2>4
<1> QED BY <1>0, <1>5, <1>6

----------------------------------------------------------------------------
(* Restored names, put into their places one by one. *)

(* In the list, restored names precede claimed ones, and those bound to    *)
(* s's thread by s are in the order of their bindings.                     *)
InOrder(b, s, list, back) ==
  \A i, j \in DOMAIN list :
    i < j =>
      /\ list[j] \in back => list[i] \in back
      /\ {list[i], list[j]} \subseteq back \cap Own(b, s) => b[list[i]].seq < b[list[j]].seq

(* The list and the restored names after some of N have gone to their places. *)
Placed(b, s, N, acc) ==
  /\ acc \in [list : Seq(Name), back : SUBSET Name, left : SUBSET N]
  /\ IsInjective(acc.list)
  /\ ToSet(acc.list) = (Listed(s) \cup N) \ acc.left
  /\ acc.back = restored[s] \cup (N \ acc.left)
  /\ Len(acc.list) + Cardinality(acc.left) = Len(claims[s]) + Cardinality(N)
  /\ InOrder(b, s, acc.list, acc.back)

(* What the insertion of a list of names into s's list starts from. *)
Placeable(b, s, N) ==
  /\ claims[s] \in Seq(Name) /\ IsInjective(claims[s])
  /\ restored[s] \subseteq Listed(s)
  /\ N \in SUBSET Name /\ IsFiniteSet(N) /\ N \cap Listed(s) = {}
  /\ N \subseteq Own(b, s)
  /\ \A n \in Own(b, s) : b[n].seq \in Nat
  /\ \A m, n \in Own(b, s) : m # n => b[m].seq # b[n].seq
  /\ InOrder(b, s, claims[s], restored[s])

LEMMA InsertKeeps ==
  ASSUME NEW b, NEW s, NEW N, Placeable(b, s, N), NEW acc, Placed(b, s, N, acc), acc.left # {}
  PROVE  /\ Placed(b, s, N, Insert(b, s, acc))
         /\ Cardinality(Insert(b, s, acc).left) = Cardinality(acc.left) - 1
<1> DEFINE Least(n) == n \in acc.left /\ \A m \in acc.left : b[n].seq <= b[m].seq
           n == CHOOSE n \in acc.left : \A m \in acc.left : b[n].seq <= b[m].seq
           q == Place(b, s, acc.list, acc.back, n)
           new == [list |-> q, back |-> acc.back \cup {n}, left |-> acc.left \ {n}]
<1>0. /\ acc.list \in Seq(Name) /\ acc.back \in SUBSET Name /\ acc.left \in SUBSET N
      /\ N \in SUBSET Name /\ N \subseteq Own(b, s) /\ IsFiniteSet(N) /\ N \cap Listed(s) = {}
      /\ \A m \in Own(b, s) : b[m].seq \in Nat
  BY DEF Placed, Placeable
<1>1. n \in acc.left /\ n \in Name /\ n \in N /\ n \in Own(b, s)
  <2> DEFINE V == {b[m].seq : m \in acc.left}
  <2>1. PICK v \in V : \A w \in V : v <= w
    <3>1. V \in SUBSET Nat /\ V # {}
      BY <1>0
    <3> HIDE DEF V
    <3> QED BY <3>1, LeastNat
  <2>2. \E e \in acc.left : \A m \in acc.left : b[e].seq <= b[m].seq
    BY <2>1
  <2>3. n \in acc.left
    BY <2>2
  <2> HIDE DEF n
  <2> QED BY <1>0, <2>3
<1>2. Insert(b, s, acc) = new
  BY DEF Insert
<1> HIDE DEF n
<1>3. PICK p \in 1 .. Len(acc.list) + 1 :
        Inserted(acc.list, p, n, q) /\ Spot(b, s, acc.list, acc.back, n, p)
  BY <1>0, <1>1, PlaceSpot
<1>4. q \in Seq(Name)
  BY <1>0, <1>1, PlaceSpot
<1> HIDE DEF q
<1>5. n \notin ToSet(acc.list) /\ n \notin acc.back
  <2>1. restored[s] \subseteq Listed(s)
    BY DEF Placeable
  <2> QED BY <1>0, <1>1, <2>1 DEF Placed
<1>6. /\ ToSet(q) = ToSet(acc.list) \cup {n} /\ IsInjective(q)
      /\ DOMAIN q = 1 .. Len(acc.list) + 1 /\ DOMAIN acc.list = 1 .. Len(acc.list)
      /\ Len(acc.list) \in Nat
  <2>1. IsInjective(acc.list)
    BY DEF Placed
  <2> QED BY <1>0, <1>1, <1>3, <1>4, <1>5, <2>1, InsertedElements
<1>7. new \in [list : Seq(Name), back : SUBSET Name, left : SUBSET N]
  BY <1>0, <1>1, <1>4
<1>8. /\ IsFiniteSet(acc.left) /\ Cardinality(acc.left) \in Nat
      /\ Cardinality(acc.left \ {n}) = Cardinality(acc.left) - 1
  <2>1. IsFiniteSet(acc.left)
    BY <1>0, FS_Subset
  <2> QED BY <1>1, <2>1, FS_RemoveElement, FS_CardinalityType
<1>9. ToSet(q) = (Listed(s) \cup N) \ (acc.left \ {n})
  <2>1. ToSet(acc.list) = (Listed(s) \cup N) \ acc.left
    BY DEF Placed
  <2> QED BY <1>1, <1>6, <2>1
<1>10. acc.back \cup {n} = restored[s] \cup (N \ (acc.left \ {n}))
  <2>1. acc.back = restored[s] \cup (N \ acc.left)
    BY DEF Placed
  <2> QED BY <1>1, <2>1
<1>11. Len(q) + Cardinality(acc.left \ {n}) = Len(claims[s]) + Cardinality(N)
  <2>1. Len(q) = Len(acc.list) + 1
    BY <1>3 DEF Inserted
  <2>2. Len(acc.list) + Cardinality(acc.left) = Len(claims[s]) + Cardinality(N)
    BY DEF Placed
  <2>3. Len(q) + Cardinality(acc.left \ {n}) = Len(acc.list) + Cardinality(acc.left)
    BY <1>6, <1>8, <2>1
  <2> QED BY <2>2, <2>3
<1>12. InOrder(b, s, q, acc.back \cup {n})
  <2> DEFINE l == acc.list
             back == acc.back
             At(k) == IF k < p THEN k ELSE k - 1
  <2>1. \A k \in 1 .. Len(l) + 1 : k # p => At(k) \in 1 .. Len(l) /\ q[k] = l[At(k)] /\ q[k] # n
    <3> SUFFICES ASSUME NEW k \in 1 .. Len(l) + 1, k # p
                 PROVE  At(k) \in 1 .. Len(l) /\ q[k] = l[At(k)] /\ q[k] # n
      OBVIOUS
    <3>1. At(k) \in 1 .. Len(l) /\ q[k] = l[At(k)]
      BY <1>3, <1>6 DEF Inserted
    <3> HIDE DEF At
    <3>2. l[At(k)] \in ToSet(l)
      BY <1>6, <3>1 DEF ToSet
    <3> QED BY <1>5, <3>1, <3>2
  <2>2. \A k, m \in 1 .. Len(l) + 1 : k < m /\ k # p /\ m # p => At(k) < At(m)
    BY <1>6
  <2>3. q[p] = n
    BY <1>3, <1>6 DEF Inserted
  <2>4. \A i, j \in 1 .. Len(l) :
          i < j => /\ l[j] \in back => l[i] \in back
                   /\ l[i] \in back /\ l[j] \in back /\ l[i] \in Own(b, s) /\ l[j] \in Own(b, s) =>
                        b[l[i]].seq < b[l[j]].seq
    BY <1>6 DEF Placed, InOrder
  <2>5. /\ \A k \in 1 .. p - 1 : l[k] \in back /\ ~(l[k] \in Own(b, s) /\ b[l[k]].seq > b[n].seq)
        /\ p \in 1 .. Len(l) /\ l[p] \in back => l[p] \in Own(b, s) /\ b[l[p]].seq > b[n].seq
    BY <1>3 DEF Spot
  <2>6. \A e \in Own(b, s) : b[e].seq \in Nat /\ (e # n => b[e].seq # b[n].seq)
    BY <1>1 DEF Placeable
  <2> SUFFICES ASSUME NEW i \in 1 .. Len(l) + 1, NEW j \in 1 .. Len(l) + 1, i < j
               PROVE  /\ q[j] \in back \cup {n} => q[i] \in back \cup {n}
                      /\ q[i] \in back \cup {n} /\ q[j] \in back \cup {n}
                         /\ q[i] \in Own(b, s) /\ q[j] \in Own(b, s) => b[q[i]].seq < b[q[j]].seq
    BY <1>6 DEF InOrder
  <2> HIDE DEF l, back
  <2>7. CASE i # p /\ j # p
    <3>1. At(i) < At(j) /\ At(i) \in 1 .. Len(l) /\ At(j) \in 1 .. Len(l)
      BY <2>1, <2>2, <2>7
    <3>2. q[i] = l[At(i)] /\ q[j] = l[At(j)] /\ q[i] # n /\ q[j] # n
      BY <2>1, <2>7
    <3> HIDE DEF At
    <3> QED BY <2>4, <3>1, <3>2
  <2>8. CASE j = p
    <3>1. i \in 1 .. p - 1 /\ i # p /\ At(i) = i
      BY <1>3, <2>8
    <3>2. q[i] = l[i] /\ q[i] # n
      BY <2>1, <3>1
    <3>3. l[i] \in back /\ ~(l[i] \in Own(b, s) /\ b[l[i]].seq > b[n].seq)
      BY <2>5, <3>1
    <3>4. q[i] \in Own(b, s) => b[q[i]].seq \in Nat /\ b[n].seq \in Nat /\ b[q[i]].seq # b[n].seq
      BY <1>1, <2>6, <3>2
    <3>5. q[i] \in Own(b, s) => b[q[i]].seq < b[n].seq
      BY <3>2, <3>3, <3>4
    <3> QED BY <2>3, <2>8, <3>2, <3>3, <3>5
  <2>9. CASE i = p
    <3>1. j # p /\ p \in 1 .. Len(l) /\ At(j) = j - 1 /\ j - 1 \in 1 .. Len(l) /\ p <= j - 1
      BY <1>3, <1>6, <2>9 DEF l
    <3>2. q[j] = l[j - 1] /\ q[j] # n
      BY <2>1, <3>1
    <3>3. q[j] \in back => l[p] \in back
      <4>1. CASE p = j - 1
        BY <3>2, <4>1
      <4>2. CASE p < j - 1
        BY <2>4, <3>1, <3>2, <4>2
      <4> QED BY <1>3, <3>1, <4>1, <4>2
    <3>4. q[j] \in back => l[p] \in Own(b, s) /\ b[l[p]].seq > b[n].seq
      BY <2>5, <3>1, <3>3
    <3>5. q[j] \in back /\ q[j] \in Own(b, s) => b[n].seq < b[q[j]].seq
      <4> SUFFICES ASSUME q[j] \in back, q[j] \in Own(b, s) PROVE b[n].seq < b[q[j]].seq
        OBVIOUS
      <4>0. b[n].seq \in Nat /\ b[q[j]].seq \in Nat /\ b[l[p]].seq \in Nat
        BY <1>1, <2>6, <3>4
      <4>1. CASE p = j - 1
        BY <3>2, <3>4, <4>1, <4>0
      <4>2. CASE p < j - 1
        <5>1. b[l[p]].seq < b[l[j - 1]].seq
          BY <2>4, <3>1, <3>2, <3>3, <3>4, <4>2
        <5> QED BY <3>2, <3>4, <4>0, <5>1
      <4> QED BY <1>3, <3>1, <4>1, <4>2
    <3> QED BY <2>3, <2>9, <3>2, <3>5
  <2> QED BY <2>7, <2>8, <2>9
<1>13. Placed(b, s, N, new)
  BY <1>6, <1>7, <1>9, <1>10, <1>11, <1>12 DEF Placed
<1> QED BY <1>2, <1>8, <1>13

(* When all of N have gone to their places. *)
LEMMA AllPlaced ==
  ASSUME NEW b, NEW s, NEW N, Placeable(b, s, N)
  PROVE  LET end == WithRestored(b, s, N)
         IN Placed(b, s, N, end) /\ end.left = {} /\ (N = {} => end.list = claims[s])
<1> DEFINE base == [list |-> claims[s], back |-> restored[s], left |-> N]
           A == {acc \in [list : Seq(Name), back : SUBSET Name, left : SUBSET N] : Placed(b, s, N, acc)}
           F == [acc \in A |-> IF acc.left = {} THEN acc ELSE Insert(b, s, acc)]
           k == Cardinality(N)
           Steps(h) == h = [i \in 0 .. k |-> IF i = 0 THEN base ELSE Insert(b, s, h[i - 1])]
<1>1. k \in Nat
  BY FS_CardinalityType DEF Placeable
<1>2. base \in A
  <2>1. Len(base.list) + Cardinality(base.left) = Len(claims[s]) + Cardinality(N)
    OBVIOUS
  <2>2. ToSet(base.list) = (Listed(s) \cup N) \ base.left
    BY DEF Placeable, Listed
  <2>3. base \in [list : Seq(Name), back : SUBSET Name, left : SUBSET N]
    <3>1. Listed(s) \in SUBSET Name
      <4>1. \A i \in 1 .. Len(claims[s]) : claims[s][i] \in Name
        BY ElementOfSeq DEF Placeable
      <4> QED BY <4>1, LenProperties DEF Placeable, Listed, ToSet
    <3> QED BY <3>1 DEF Placeable
  <2>4. base.back = restored[s] \cup (N \ base.left)
    OBVIOUS
  <2>5. IsInjective(base.list) /\ InOrder(b, s, base.list, base.back)
    BY DEF Placeable
  <2> HIDE DEF base
  <2> QED BY <2>1, <2>2, <2>3, <2>4, <2>5 DEF Placed
<1>3. F \in [A -> A]
  <2> SUFFICES ASSUME NEW acc \in A PROVE (IF acc.left = {} THEN acc ELSE Insert(b, s, acc)) \in A
    OBVIOUS
  <2>1. CASE acc.left = {}
    BY <2>1
  <2>2. CASE acc.left # {}
    <3>1. Placed(b, s, N, Insert(b, s, acc))
      BY <2>2, InsertKeeps
    <3> QED BY <2>2, <3>1 DEF Placed
  <2> QED BY <2>1, <2>2
<1> HIDE DEF base
<1>4. PICK f \in [Nat -> A] : f[0] = base /\ \A i \in Nat : f[i + 1] = F[f[i]]
  <2> HIDE DEF A, F
  <2> QED BY <1>2, <1>3, Iteration
<1>5. \A i \in Nat : Placed(b, s, N, f[i]) /\ f[i] \in A
  OBVIOUS
<1>6. \A i \in Nat : i <= k => Cardinality(f[i].left) = k - i
  <2> DEFINE S == {i \in Nat : i <= k => Cardinality(f[i].left) = k - i}
  <2>1. 0 \in S
    BY <1>1, <1>4 DEF base
  <2>2. ASSUME NEW i \in Nat, i \in S PROVE i + 1 \in S
    <3> SUFFICES ASSUME i + 1 <= k PROVE Cardinality(f[i + 1].left) = k - (i + 1)
      OBVIOUS
    <3>1. Cardinality(f[i].left) = k - i /\ k - i # 0
      BY <1>1, <2>2
    <3>2. f[i].left # {}
      BY <3>1, FS_EmptySet
    <3>3. f[i + 1] = Insert(b, s, f[i])
      BY <1>4, <1>5, <3>2
    <3>4. Cardinality(Insert(b, s, f[i]).left) = Cardinality(f[i].left) - 1
      BY <1>5, <3>2, InsertKeeps
    <3> HIDE DEF A, F, k
    <3> QED BY <1>1, <3>1, <3>3, <3>4
  <2> HIDE DEF S
  <2>3. \A i \in Nat : i \in S
    BY <2>1, <2>2, NatInduct
  <2> QED BY <2>3 DEF S
<1>7. \A i \in Nat : i < k => f[i + 1] = Insert(b, s, f[i])
  <2> SUFFICES ASSUME NEW i \in Nat, i < k PROVE f[i + 1] = Insert(b, s, f[i])
    OBVIOUS
  <2>1. Cardinality(f[i].left) # 0
    <3> HIDE DEF k, A, F
    <3>1. Cardinality(f[i].left) = k - i
      <4>1. i <= k
        BY <1>1
      <4> QED BY <1>6, <4>1
    <3> QED BY <1>1, <3>1
  <2>2. f[i].left # {}
    BY <2>1, FS_EmptySet
  <2> QED BY <1>4, <1>5, <2>2
<1> HIDE DEF A, F, k
<1>8. Steps([i \in 0 .. k |-> f[i]])
  <2> DEFINE h == [i \in 0 .. k |-> f[i]]
  <2>1. ASSUME NEW i \in 0 .. k
        PROVE  h[i] = IF i = 0 THEN base ELSE Insert(b, s, h[i - 1])
    <3>1. CASE i = 0
      BY <1>4, <3>1
    <3>2. CASE i # 0
      <4>1. i - 1 \in Nat /\ i - 1 \in 0 .. k /\ i - 1 < k /\ (i - 1) + 1 = i
        BY <1>1, <3>2
      <4>2. f[i] = Insert(b, s, f[i - 1])
        BY <1>7, <4>1
      <4> QED BY <3>2, <4>1, <4>2
    <3> QED BY <3>1, <3>2
  <2>2. h = [i \in 0 .. k |-> h[i]]
    OBVIOUS
  <2> HIDE DEF h
  <2>3. h = [i \in 0 .. k |-> IF i = 0 THEN base ELSE Insert(b, s, h[i - 1])]
    BY <2>1, <2>2
  <2> QED BY <2>3 DEF h
<1> DEFINE after == CHOOSE h : Steps(h)
<1>9. Steps(after)
  <2> HIDE DEF Steps
  <2> QED BY <1>8
<1>10. WithRestored(b, s, N) = after[k]
  BY DEF WithRestored, k, base
<1> HIDE DEF after
<1>11. \A i \in Nat : i <= k => after[i] = f[i]
  <2> DEFINE S == {i \in Nat : i <= k => after[i] = f[i]}
  <2>1. 0 \in S
    <3>1. 0 \in 0 .. k
      BY <1>1
    <3> QED BY <1>4, <1>9, <3>1
  <2>2. ASSUME NEW i \in Nat, i \in S PROVE i + 1 \in S
    <3> SUFFICES ASSUME i + 1 <= k PROVE after[i + 1] = f[i + 1]
      OBVIOUS
    <3>1. i + 1 \in 0 .. k /\ i + 1 # 0 /\ (i + 1) - 1 = i /\ i < k /\ i <= k
      BY <1>1
    <3>2. after[i + 1] = Insert(b, s, after[i])
      BY <1>9, <3>1
    <3> QED BY <1>7, <2>2, <3>1, <3>2
  <2> HIDE DEF S
  <2>3. \A i \in Nat : i \in S
    BY <2>1, <2>2, NatInduct
  <2> QED BY <2>3 DEF S
<1>12. WithRestored(b, s, N) = f[k]
  BY <1>1, <1>10, <1>11
<1>13. Cardinality(f[k].left) = 0
  BY <1>1, <1>6
<1>14. f[k].left = {}
  <2>1. IsFiniteSet(f[k].left)
    <3>1. f[k].left \in SUBSET N
      BY <1>1, <1>5 DEF Placed
    <3> QED BY <3>1, FS_Subset DEF Placeable
  <2> QED BY <1>13, <2>1, FS_EmptySet
<1>15. N = {} => f[k].list = claims[s]
  <2> SUFFICES ASSUME N = {} PROVE f[k].list = claims[s]
    OBVIOUS
  <2>1. k = 0
    BY FS_EmptySet DEF k
  <2> QED BY <1>4, <2>1 DEF base
<1> QED BY <1>1, <1>5, <1>12, <1>14, <1>15

----------------------------------------------------------------------------
(* Numbering a thread's bindings. *)

(* r is b with s's bindings of its thread numbered as in its list, above   *)
(* those of any other writer, which do not exceed base.                    *)
Numbered(b, s, order, base, r) ==
  /\ r = [n \in Name |-> r[n]]
  /\ \A n \in Name \ Own(b, s) :
       r[n] = b[n] /\ (b[n] # None /\ b[n].thread = Home[s] => b[n].seq <= base)
  /\ \A n \in Own(b, s) : \E i \in 1 .. Len(order) :
       order[i] = n /\ r[n] = [b[n] EXCEPT !.seq = base + i]

LEMMA RenumberEffect ==
  ASSUME ThreadsAssumption, NEW b, NEW s, NEW order \in Seq(Name), Own(b, s) \subseteq ToSet(order),
         \A n \in Name \ Own(b, s) : b[n] # None /\ b[n].thread = Home[s] => b[n].seq \in Nat
  PROVE  \E base \in Nat : Numbered(b, s, order, base, Renumber(b, s, order))
<1> DEFINE others == {n \in Name \ Own(b, s) : b[n] # None /\ b[n].thread = Home[s]}
           seqs == {b[n].seq : n \in others} \cup {0}
           base == Max(seqs)
           at(n) == SelectInSeq(order, LAMBDA e : e = n)
           r == Renumber(b, s, order)
<1>1. base \in Nat /\ \A n \in others : b[n].seq <= base
  <2>1. seqs \in SUBSET Nat /\ seqs # {}
    OBVIOUS
  <2>2. IsFiniteSet(seqs)
    <3> DEFINE f == [n \in others |-> b[n].seq]
    <3>1. IsFiniteSet(others)
      BY FS_Subset DEF ThreadsAssumption
    <3> HIDE DEF others
    <3>2. IsFiniteSet({f[n] : n \in others})
      <4>1. DOMAIN f = others /\ f = [n \in others |-> f[n]]
        OBVIOUS
      <4> HIDE DEF f
      <4> QED BY <3>1, <4>1, ImageSize
    <3>3. {f[n] : n \in others} = {b[n].seq : n \in others}
      OBVIOUS
    <3> QED BY <3>2, <3>3, FS_AddElement
  <2>3. PICK m \in Nat : \A x \in seqs : x <= m
    <3> HIDE DEF seqs
    <3> QED BY <2>1, <2>2, FiniteBounded
  <2>4. base \in seqs /\ \A x \in seqs : x <= base
    <3> HIDE DEF seqs
    <3> QED BY <2>1, <2>3, MaxNat
  <2> HIDE DEF base
  <2> QED BY <2>1, <2>4
<1>2. r = [n \in Name |-> IF n \in Own(b, s) /\ Contains(order, n)
                          THEN [b[n] EXCEPT !.seq = base + at(n)] ELSE b[n]]
  BY DEF Renumber
<1> HIDE DEF base
<1>3. \A n \in Own(b, s) : at(n) \in 1 .. Len(order) /\ order[at(n)] = n /\ Contains(order, n)
  <2> SUFFICES ASSUME NEW n \in Own(b, s)
               PROVE  at(n) \in 1 .. Len(order) /\ order[at(n)] = n /\ Contains(order, n)
    OBVIOUS
  <2> DEFINE I == {i \in 1 .. Len(order) : order[i] = n}
  <2>1. I # {} /\ I \in SUBSET Nat
    <3>1. n \in ToSet(order) /\ DOMAIN order = 1 .. Len(order)
      BY LenProperties
    <3> QED BY <3>1 DEF ToSet
  <2>2. Min(I) \in I
    <3> HIDE DEF I
    <3> QED BY <2>1, MinNat
  <2>3. at(n) = Min(I)
    BY <2>1 DEF SelectInSeq
  <2> HIDE DEF at
  <2> QED BY <2>2, <2>3 DEF Contains
<1> HIDE DEF at
<1>4. Own(b, s) \subseteq Name
  BY DEF Own
<1> HIDE DEF r
<1>5. r = [n \in Name |-> r[n]]
  BY <1>2
<1>6. \A n \in Name \ Own(b, s) :
        r[n] = b[n] /\ (b[n] # None /\ b[n].thread = Home[s] => b[n].seq <= base)
  BY <1>1, <1>2
<1>7. \A n \in Own(b, s) : \E i \in 1 .. Len(order) :
        order[i] = n /\ r[n] = [b[n] EXCEPT !.seq = base + i]
  BY <1>2, <1>3, <1>4
<1>8. Numbered(b, s, order, base, r)
  BY <1>5, <1>6, <1>7 DEF Numbered
<1> QED BY <1>1, <1>8 DEF r

(* Bindings that a claim or a restoration is about to number. *)
Unnumbered == [Name -> [thread : Range(Home), seq : Nat, writer : Server] \cup {None}]

(* No two bindings of a thread have one number. *)
Apart(b, N) ==
  \A m, n \in N : m # n /\ b[m] # None /\ b[n] # None /\ b[m].thread = b[n].thread =>
    b[m].seq # b[n].seq

LEMMA NumberedKeeps ==
  ASSUME ThreadsAssumption, NEW b \in Unnumbered, NEW s \in Server, NEW order \in Seq(Name),
         IsInjective(order), NEW base \in Nat, NEW r, Numbered(b, s, order, base, r),
         \A n \in Name \ Own(b, s) : b[n] # None => b[n].seq # 0,
         Apart(b, Name \ Own(b, s))
  PROVE  /\ r \in [Name -> Binding \cup {None}]
         /\ \A n \in Name : /\ r[n] = None <=> b[n] = None
                            /\ b[n] # None => r[n].thread = b[n].thread /\ r[n].writer = b[n].writer
         /\ \A n \in Name \ Own(b, s) : r[n] = b[n]
         /\ Apart(r, Name)
         /\ \A i, j \in 1 .. Len(order) : i < j /\ order[i] \in Own(b, s) /\ order[j] \in Own(b, s) =>
              r[order[i]].seq < r[order[j]].seq
<1>0. /\ None \notin [thread : Range(Home), seq : Nat, writer : Server]
      /\ Len(order) \in Nat /\ DOMAIN order = 1 .. Len(order) /\ Own(b, s) \subseteq Name
  BY LenProperties DEF ThreadsAssumption, Own
<1>1. \A n \in Own(b, s) :
        /\ n \in Name /\ b[n] # None /\ b[n].thread = Home[s] /\ b[n].writer = s
        /\ b[n] \in [thread : Range(Home), seq : Nat, writer : Server]
  BY DEF Own, Unnumbered
<1>2. \A n \in Own(b, s) : \E i \in 1 .. Len(order) :
        order[i] = n /\ r[n] = [b[n] EXCEPT !.seq = base + i]
  BY DEF Numbered
<1>3. \A n \in Own(b, s) : \E i \in 1 .. Len(order) :
        /\ order[i] = n /\ r[n].seq = base + i /\ r[n] \in Binding
        /\ r[n].thread = b[n].thread /\ r[n].writer = b[n].writer
  <2> SUFFICES ASSUME NEW n \in Own(b, s)
               PROVE  \E i \in 1 .. Len(order) :
                        /\ order[i] = n /\ r[n].seq = base + i /\ r[n] \in Binding
                        /\ r[n].thread = b[n].thread /\ r[n].writer = b[n].writer
    OBVIOUS
  <2>1. PICK i \in 1 .. Len(order) : order[i] = n /\ r[n] = [b[n] EXCEPT !.seq = base + i]
    BY <1>2
  <2>2. base + i \in Nat \ {0}
    BY <1>0
  <2>3. b[n] \in [thread : Range(Home), seq : Nat, writer : Server]
    BY <1>1
  <2> QED BY <2>1, <2>2, <2>3 DEF Binding
<1>4. \A n \in Name \ Own(b, s) :
        r[n] = b[n] /\ (b[n] # None /\ b[n].thread = Home[s] => b[n].seq <= base)
  BY DEF Numbered
<1>5. r \in [Name -> Binding \cup {None}]
  <2>1. ASSUME NEW n \in Name PROVE r[n] \in Binding \cup {None}
    <3>1. CASE n \in Own(b, s)
      BY <1>3, <3>1
    <3>2. CASE n \notin Own(b, s) /\ b[n] = None
      BY <1>4, <3>2
    <3>3. CASE n \notin Own(b, s) /\ b[n] # None
      <4>1. b[n] \in [thread : Range(Home), seq : Nat, writer : Server] /\ b[n].seq # 0
        BY <3>3 DEF Unnumbered
      <4> QED BY <1>4, <3>3, <4>1 DEF Binding
    <3> QED BY <3>1, <3>2, <3>3
  <2>2. r = [n \in Name |-> r[n]]
    BY DEF Numbered
  <2> QED BY <2>1, <2>2
<1>6. ASSUME NEW n \in Name
      PROVE  /\ r[n] = None <=> b[n] = None
             /\ b[n] # None => r[n].thread = b[n].thread /\ r[n].writer = b[n].writer
  <2>1. CASE n \in Own(b, s)
    <3>1. r[n] \in Binding /\ r[n].thread = b[n].thread /\ r[n].writer = b[n].writer /\ b[n] # None
      BY <1>1, <1>3, <2>1
    <3>2. r[n] # None
      BY <1>0, <3>1 DEF Binding
    <3> QED BY <3>1, <3>2
  <2>2. CASE n \notin Own(b, s)
    BY <1>4, <2>2
  <2> QED BY <2>1, <2>2
<1>7. Apart(r, Name)
  <2> SUFFICES ASSUME NEW m \in Name, NEW n \in Name, m # n, r[m] # None, r[n] # None,
                      r[m].thread = r[n].thread
               PROVE  r[m].seq # r[n].seq
    BY DEF Apart
  <2>1. b[m] # None /\ b[n] # None /\ b[m].thread = b[n].thread
    BY <1>6
  <2>2. \A e \in Name : b[e] # None => b[e].seq \in Nat
    BY DEF Unnumbered
  <2>3. CASE m \in Own(b, s) /\ n \in Own(b, s)
    BY <1>0, <1>3, <2>3
  <2>4. CASE m \in Own(b, s) /\ n \notin Own(b, s)
    <3>1. r[n].seq \in Nat /\ r[n].seq <= base
      BY <1>1, <1>4, <2>1, <2>2, <2>4
    <3>2. \E i \in 1 .. Len(order) : r[m].seq = base + i
      BY <1>3, <2>4
    <3> QED BY <1>0, <3>1, <3>2
  <2>5. CASE m \notin Own(b, s) /\ n \in Own(b, s)
    <3>1. r[m].seq \in Nat /\ r[m].seq <= base
      BY <1>1, <1>4, <2>1, <2>2, <2>5
    <3>2. \E i \in 1 .. Len(order) : r[n].seq = base + i
      BY <1>3, <2>5
    <3> QED BY <1>0, <3>1, <3>2
  <2>6. CASE m \notin Own(b, s) /\ n \notin Own(b, s)
    BY <1>4, <2>1, <2>6 DEF Apart
  <2> QED BY <2>3, <2>4, <2>5, <2>6
<1>8. ASSUME NEW i \in 1 .. Len(order), NEW j \in 1 .. Len(order), i < j,
             order[i] \in Own(b, s), order[j] \in Own(b, s)
      PROVE  r[order[i]].seq < r[order[j]].seq
  <2>1. PICK k \in 1 .. Len(order) : order[k] = order[i] /\ r[order[i]].seq = base + k
    BY <1>3, <1>8
  <2>2. PICK l \in 1 .. Len(order) : order[l] = order[j] /\ r[order[j]].seq = base + l
    BY <1>3, <1>8
  <2>3. k = i /\ l = j
    BY <1>0, <2>1, <2>2 DEF IsInjective
  <2> QED BY <1>8, <2>1, <2>2, <2>3
<1> QED BY <1>4, <1>5, <1>6, <1>7, <1>8

----------------------------------------------------------------------------
(* The inductive invariant. *)

(* A binding is of its writer's thread, which has not given the name up     *)
(* since, and a live server has written the binding of every name it lists, *)
(* if there is one, and of no other.                                        *)
Bound ==
  /\ \A n \in Name : bind[n] # None =>
       bind[n].thread = Home[bind[n].writer] /\ bind[n].thread \notin gaveUp[n]
  /\ \A s \in Server \ gone, n \in Name :
       bind[n] # None => (bind[n].writer = s <=> n \in Listed(s))

(* No two live servers list one name. *)
Alone == \A s, t \in Server \ gone : s # t => Listed(s) \cap Listed(t) = {}

(* What a server surveyed was bound to its own thread. *)
Surveyed ==
  \A s \in Server : attempt[s] # None =>
    /\ s \notin gone /\ side = "codex"
    /\ \A c \in attempt[s].due : c.was.thread = Home[s]

(* A hint waits to be written of a name just claimed, or just given up. *)
Noting ==
  \A s \in Server : note[s] # None =>
    /\ s \notin gone /\ side = "claude"
    /\ note[s].what = "record" <=> note[s].name \in Listed(s)

(* Only the hint that waits may be at odds with a server's list. *)
WrittenBy(h, s, n) == h[n] # None /\ h[n].conv = Home[s] /\ h[n].writer = s

Advised ==
  side = "claude" =>
    \A s \in Server \ gone, n \in Name \ excused : (note[s] = None \/ note[s].name # n) =>
      (n \in Listed(s) <=> WrittenBy(hint, s, n))

Inductive == TypeOK /\ OrderKept /\ Bound /\ Alone /\ Surveyed /\ Noting /\ Advised

(* A server's list: restored names first, its bindings numbered alike. *)
Ordered(b, s, list, back) ==
  \A i, j \in DOMAIN list :
    i < j =>
      /\ {list[i], list[j]} \subseteq Own(b, s) => b[list[i]].seq < b[list[j]].seq
      /\ list[j] \in back => list[i] \in back

LEMMA OrderKeptParts ==
  OrderKept <=> /\ \A s \in Server \ gone : Ordered(bind, s, claims[s], restored[s])
                /\ Apart(bind, Name)
BY DEF OrderKept, Ordered, Apart

LEMMA OrderKeptPartsNext ==
  OrderKept' <=> /\ \A s \in (Server \ gone)' : Ordered(bind', s, claims'[s], restored'[s])
                 /\ Apart(bind', Name)
BY DEF OrderKept, Ordered, Apart, Own

(* s, now answering to list, of which back are restored, has taken N. *)
Took(s, N, list, back) ==
  /\ claims' = [claims EXCEPT ![s] = list]
  /\ restored' = [restored EXCEPT ![s] = back]
  /\ row' = Taken(s, N)
  /\ gone' = gone
  /\ list \in Seq(Name) /\ Len(list) <= MaxClaims /\ IsInjective(list)
  /\ ToSet(list) = Listed(s) \cup N /\ back \subseteq ToSet(list)
  /\ N \in SUBSET Name
  /\ \A t \in Server \ gone : t # s => N \cap Listed(t) = {}
  /\ bind' \in [Name -> Binding \cup {None}]
  /\ Apart(bind', Name)
  /\ Ordered(bind', s, list, back)
  /\ \A m \in Name \ N : /\ bind'[m] = None <=> bind[m] = None
                         /\ bind[m] # None => bind'[m].thread = bind[m].thread /\ bind'[m].writer = bind[m].writer
                         /\ m \in Own(bind, s) \/ bind'[m] = bind[m]
  /\ \A m \in N : bind'[m] # None => bind'[m].thread = Home[s] /\ bind'[m].writer = s

(* The part of TypeOK that is about lists. *)
ListsOK ==
  \A s \in Server :
    /\ Len(claims[s]) <= MaxClaims /\ IsInjective(claims[s])
    /\ restored[s] \subseteq Listed(s)
    /\ s \notin gone => Listed(s) = row[s]

(* Bound without what was given up. *)
WriterLists ==
  /\ \A n \in Name : bind[n] # None => bind[n].thread = Home[bind[n].writer]
  /\ \A s \in Server \ gone, n \in Name :
       bind[n] # None => (bind[n].writer = s <=> n \in Listed(s))

LEMMA TookKeeps ==
  ASSUME ThreadsAssumption, Inductive, NEW s \in Server \ gone, NEW N, NEW list, NEW back,
         Took(s, N, list, back)
  PROVE  /\ claims' \in [Server -> Seq(Name)] /\ restored' \in [Server -> SUBSET Name]
         /\ row' \in [Server -> SUBSET Name]
         /\ ListsOK' /\ OrderKept' /\ WriterLists' /\ Alone'
         /\ Listed(s)' = Listed(s) \cup N
         /\ \A t \in Server : t # s => Listed(t)' = Listed(t)
<1>0. /\ claims \in [Server -> Seq(Name)] /\ restored \in [Server -> SUBSET Name]
      /\ row \in [Server -> SUBSET Name] /\ bind \in [Name -> Binding \cup {None}]
      /\ ListsOK
  BY DEF Inductive, TypeOK, ListsOK
<1>1. /\ claims' = [claims EXCEPT ![s] = list]
      /\ restored' = [restored EXCEPT ![s] = back]
      /\ row' = Taken(s, N) /\ gone' = gone
      /\ list \in Seq(Name) /\ Len(list) <= MaxClaims /\ IsInjective(list)
      /\ ToSet(list) = Listed(s) \cup N /\ back \subseteq ToSet(list)
      /\ N \in SUBSET Name
      /\ \A t \in Server \ gone : t # s => N \cap Listed(t) = {}
  BY DEF Took
<1>2. /\ \A m \in Name \ N : /\ bind'[m] = None <=> bind[m] = None
                             /\ bind[m] # None => bind'[m].thread = bind[m].thread /\ bind'[m].writer = bind[m].writer
                             /\ m \in Own(bind, s) \/ bind'[m] = bind[m]
      /\ \A m \in N : bind'[m] # None => bind'[m].thread = Home[s] /\ bind'[m].writer = s
  BY DEF Took
<1>3. claims'[s] = list /\ restored'[s] = back /\ row'[s] = row[s] \cup N
  BY <1>0, <1>1 DEF Taken
<1>4. \A t \in Server : t # s => claims'[t] = claims[t] /\ restored'[t] = restored[t] /\ row'[t] = row[t] \ N
  BY <1>0, <1>1 DEF Taken
<1>5. Listed(s)' = Listed(s) \cup N
  BY <1>1, <1>3 DEF Listed
<1>6. \A t \in Server : t # s => Listed(t)' = Listed(t)
  BY <1>4 DEF Listed
<1>7. \A t \in Server : Listed(t) \in SUBSET Name
  <2> SUFFICES ASSUME NEW t \in Server PROVE Listed(t) \in SUBSET Name
    OBVIOUS
  <2>1. \A i \in 1 .. Len(claims[t]) : claims[t][i] \in Name
    BY <1>0, ElementOfSeq
  <2> QED BY <1>0, <2>1, LenProperties DEF Listed, ToSet
<1>8. claims' \in [Server -> Seq(Name)] /\ restored' \in [Server -> SUBSET Name]
      /\ row' \in [Server -> SUBSET Name]
  <2>1. back \in SUBSET Name
    BY <1>1, <1>7
  <2>2. claims' \in [Server -> Seq(Name)] /\ restored' \in [Server -> SUBSET Name]
    BY <1>0, <1>1, <2>1
  <2>3. row' \in [Server -> SUBSET Name]
    BY <1>0, <1>1 DEF Taken
  <2> QED BY <2>2, <2>3
<1>9. ListsOK'
  <2> SUFFICES ASSUME NEW t \in Server
               PROVE  /\ Len(claims'[t]) <= MaxClaims /\ IsInjective(claims'[t])
                      /\ restored'[t] \subseteq Listed(t)'
                      /\ t \notin gone => Listed(t)' = row'[t]
    BY <1>1 DEF ListsOK
  <2>1. CASE t = s
    <3>1. Listed(s) = row[s]
      BY <1>0 DEF ListsOK
    <3> QED BY <1>1, <1>3, <1>5, <2>1, <3>1
  <2>2. CASE t # s
    <3>1. t \notin gone => N \cap Listed(t) = {} /\ Listed(t) = row[t]
      BY <1>0, <1>1, <2>2 DEF ListsOK
    <3>2. Len(claims[t]) <= MaxClaims /\ IsInjective(claims[t]) /\ restored[t] \subseteq Listed(t)
      BY <1>0 DEF ListsOK
    <3>3. t \notin gone => Listed(t) = row[t] \ N
      BY <3>1
    <3>4. /\ claims'[t] = claims[t] /\ restored'[t] = restored[t]
          /\ row'[t] = row[t] \ N /\ Listed(t)' = Listed(t)
      BY <1>4, <1>6, <2>2
    <3> QED BY <3>2, <3>3, <3>4
  <2> QED BY <2>1, <2>2
<1>10. WriterLists'
  <2>1. ASSUME NEW n \in Name, bind'[n] # None PROVE bind'[n].thread = Home[bind'[n].writer]
    <3>1. CASE n \in N
      BY <1>2, <2>1, <3>1
    <3>2. CASE n \notin N
      BY <1>2, <2>1, <3>2 DEF Inductive, Bound
    <3> QED BY <3>1, <3>2
  <2>2. ASSUME NEW t \in Server \ gone, NEW n \in Name, bind'[n] # None
        PROVE  bind'[n].writer = t <=> n \in Listed(t)'
    <3>1. CASE n \in N /\ t = s
      BY <1>2, <1>5, <2>2, <3>1
    <3>2. CASE n \in N /\ t # s
      BY <1>1, <1>2, <1>6, <2>2, <3>2
    <3>3. CASE n \notin N
      <4>1. bind[n] # None /\ bind'[n].writer = bind[n].writer
        BY <1>2, <2>2, <3>3
      <4>2. bind[n].writer = t <=> n \in Listed(t)
        BY <4>1 DEF Inductive, Bound
      <4> QED BY <1>5, <1>6, <3>3, <4>1, <4>2
    <3> QED BY <3>1, <3>2, <3>3
  <2> QED BY <1>1, <2>1, <2>2 DEF WriterLists
<1>11. Alone'
  <2> SUFFICES ASSUME NEW t \in Server \ gone, NEW u \in Server \ gone, t # u
               PROVE  Listed(t)' \cap Listed(u)' = {}
    BY <1>1 DEF Alone
  <2>1. Listed(t) \cap Listed(u) = {}
    BY DEF Inductive, Alone
  <2>2. CASE t = s
    BY <1>1, <1>5, <1>6, <2>1, <2>2
  <2>3. CASE u = s
    BY <1>1, <1>5, <1>6, <2>1, <2>3
  <2>4. CASE t # s /\ u # s
    BY <1>6, <2>1, <2>4
  <2> QED BY <2>2, <2>3, <2>4
<1>12. OrderKept'
  <2>1. ASSUME NEW t \in Server \ gone PROVE Ordered(bind', t, claims'[t], restored'[t])
    <3>1. CASE t = s
      BY <1>3, <3>1 DEF Took
    <3>2. CASE t # s
      <4>1. \A m \in Own(bind', t) : m \in Own(bind, t) /\ bind'[m] = bind[m]
        <5> SUFFICES ASSUME NEW m \in Own(bind', t) PROVE m \in Own(bind, t) /\ bind'[m] = bind[m]
          OBVIOUS
        <5>1. m \in Name /\ bind'[m] # None /\ bind'[m].thread = Home[t] /\ bind'[m].writer = t
          BY DEF Own
        <5>2. m \notin N
          BY <1>2, <3>2, <5>1
        <5>3. bind[m] # None /\ bind[m].thread = Home[t] /\ bind[m].writer = t
          BY <1>2, <5>1, <5>2
        <5>4. m \notin Own(bind, s) /\ m \in Own(bind, t)
          BY <3>2, <5>1, <5>3 DEF Own
        <5> QED BY <1>2, <5>1, <5>2, <5>4
      <4>2. Ordered(bind, t, claims[t], restored[t])
        BY OrderKeptParts DEF Inductive
      <4>3. claims'[t] = claims[t] /\ restored'[t] = restored[t]
        BY <1>4, <3>2
      <4> QED BY <4>1, <4>2, <4>3 DEF Ordered
    <3> QED BY <3>1, <3>2
  <2>2. Apart(bind', Name)
    BY DEF Took
  <2> QED BY <1>1, <2>1, <2>2, OrderKeptPartsNext
<1> QED BY <1>5, <1>6, <1>8, <1>9, <1>10, <1>11, <1>12

----------------------------------------------------------------------------
(* What a claim does. *)

(* s's list with n, at the end unless it is there. *)
With(s, n) == IF n \in Listed(s) THEN claims[s] ELSE Append(claims[s], n)

LEMMA WithEffect ==
  ASSUME Inductive, NEW s \in Server, NEW n \in Name
  PROVE  /\ With(s, n) \in Seq(Name) /\ IsInjective(With(s, n))
         /\ ToSet(With(s, n)) = Listed(s) \cup {n}
         /\ Len(claims[s]) \in Nat /\ DOMAIN claims[s] = 1 .. Len(claims[s])
         /\ DOMAIN With(s, n) = 1 .. Len(With(s, n))
         /\ \A i \in 1 .. Len(claims[s]) : With(s, n)[i] = claims[s][i]
         /\ n \notin Listed(s) =>
              Len(With(s, n)) = Len(claims[s]) + 1 /\ With(s, n)[Len(claims[s]) + 1] = n
         /\ n \in Listed(s) => With(s, n) = claims[s]
<1>0. claims[s] \in Seq(Name) /\ IsInjective(claims[s])
  BY DEF Inductive, TypeOK
<1>1. Len(claims[s]) \in Nat /\ DOMAIN claims[s] = 1 .. Len(claims[s])
  BY <1>0, LenProperties
<1>2. CASE n \in Listed(s)
  BY <1>0, <1>1, <1>2 DEF With, Listed
<1>3. CASE n \notin Listed(s)
  <2> DEFINE l == claims[s]
             q == Append(claims[s], n)
  <2>1. q \in Seq(Name) /\ Inserted(l, Len(l) + 1, n, q)
    BY <1>0, AppendInserts
  <2>2. Len(l) + 1 \in 1 .. Len(l) + 1
    BY <1>1
  <2> HIDE DEF q
  <2>3. ToSet(q) = ToSet(l) \cup {n} /\ IsInjective(q) /\ DOMAIN q = 1 .. Len(l) + 1
    BY <1>0, <1>3, <2>1, <2>2, InsertedElements DEF Listed
  <2>4. /\ Len(q) = Len(l) + 1
        /\ \A i \in 1 .. Len(l) + 1 : q[i] = IF i < Len(l) + 1 THEN l[i] ELSE IF i = Len(l) + 1 THEN n ELSE l[i - 1]
    BY <2>1 DEF Inserted
  <2>5. /\ \A i \in 1 .. Len(l) : q[i] = l[i]
        /\ q[Len(l) + 1] = n
    BY <1>1, <2>2, <2>4
  <2>6. With(s, n) = q
    BY <1>3 DEF With, q
  <2> QED BY <1>1, <1>3, <2>1, <2>3, <2>4, <2>5, <2>6 DEF Listed
<1> QED BY <1>2, <1>3

(* No live server but s lists a name s is not refused. *)
LEMMA NotRefused ==
  ASSUME Inductive, NEW s \in Server, NEW n \in Name, NEW unsure, ~Refused(s, n, unsure),
         NEW t \in Server \ gone, t # s
  PROVE  n \notin Listed(t)
<1>1. Listed(t) = row[t]
  BY DEF Inductive, TypeOK
<1>2. ~Dead(t, unsure)
  BY DEF Dead
<1> QED BY <1>1, <1>2 DEF Refused

(* The bindings once a claim is settled. *)
LEMMA SettledEffect ==
  ASSUME ThreadsAssumption, Inductive, NEW s \in Server \ gone, NEW n \in Name, NEW attributed,
         NEW r, r = Settled(s, n, attributed, With(s, n))
  PROVE  /\ r \in [Name -> Binding \cup {None}]
         /\ Apart(r, Name)
         /\ \A m \in Name \ {n} : /\ r[m] = None <=> bind[m] = None
                                  /\ bind[m] # None => r[m].thread = bind[m].thread /\ r[m].writer = bind[m].writer
                                  /\ m \in Own(bind, s) \/ r[m] = bind[m]
         /\ r[n] # None => r[n].thread = Home[s] /\ r[n].writer = s
         /\ \A i, j \in 1 .. Len(With(s, n)) :
              i < j /\ With(s, n)[i] \in Own(r, s) /\ With(s, n)[j] \in Own(r, s) =>
                r[With(s, n)[i]].seq < r[With(s, n)[j]].seq
<1> DEFINE order == With(s, n)
           l == claims[s]
<1>0. /\ bind \in [Name -> Binding \cup {None}] /\ Home[s] \in Range(Home)
      /\ None \notin [thread : Range(Home), seq : Nat, writer : Server]
  BY DEF Inductive, TypeOK, ThreadsAssumption, Range
<1>1. /\ order \in Seq(Name) /\ IsInjective(order) /\ ToSet(order) = Listed(s) \cup {n}
      /\ Len(l) \in Nat /\ DOMAIN l = 1 .. Len(l) /\ DOMAIN order = 1 .. Len(order)
      /\ \A i \in 1 .. Len(l) : order[i] = l[i]
      /\ n \notin Listed(s) => Len(order) = Len(l) + 1 /\ order[Len(l) + 1] = n
      /\ n \in Listed(s) => order = l
  BY WithEffect
<1>2. Apart(bind, Name) /\ Ordered(bind, s, l, restored[s])
  BY OrderKeptParts DEF Inductive
<1> HIDE DEF order
<1>3. CASE side = "codex" /\ attributed /\ ~stopped[s]
  <2> DEFINE b == [bind EXCEPT ![n] = [thread |-> Home[s], seq |-> 0, writer |-> s]]
  <2>1. b \in Unnumbered /\ b[n] # None /\ b[n].thread = Home[s] /\ b[n].writer = s
        /\ \A m \in Name \ {n} : b[m] = bind[m]
    <3>1. [thread |-> Home[s], seq |-> 0, writer |-> s] \in [thread : Range(Home), seq : Nat, writer : Server]
      BY <1>0
    <3>2. bind \in Unnumbered
      BY <1>0 DEF Binding, Unnumbered
    <3>3. b \in Unnumbered
      BY <3>1, <3>2 DEF Unnumbered
    <3> QED BY <1>0, <3>1, <3>3
  <2> HIDE DEF b
  <2>2. n \in Own(b, s) /\ \A m \in Name \ Own(b, s) : m # n /\ b[m] = bind[m] /\ m \notin Own(bind, s)
    BY <2>1 DEF Own
  <2>3. Own(b, s) \subseteq ToSet(order)
    <3> SUFFICES ASSUME NEW m \in Own(b, s), m # n PROVE m \in Listed(s)
      BY <1>1
    <3>1. m \in Name /\ bind[m] # None /\ bind[m].writer = s
      BY <2>1 DEF Own
    <3> QED BY <3>1 DEF Inductive, Bound
  <2>4. \A m \in Name \ Own(b, s) : b[m] # None => b[m].seq \in Nat /\ b[m].seq # 0
    <3> SUFFICES ASSUME NEW m \in Name \ Own(b, s), b[m] # None PROVE b[m].seq \in Nat \ {0}
      OBVIOUS
    <3>1. bind[m] \in Binding /\ b[m] = bind[m]
      BY <1>0, <2>2
    <3> QED BY <3>1 DEF Binding
  <2>5. PICK base \in Nat : Numbered(b, s, order, base, Renumber(b, s, order))
    BY <1>1, <2>3, <2>4, RenumberEffect
  <2>6. r = Renumber(b, s, order)
    BY <1>3 DEF Settled, b, order
  <2>7. Apart(b, Name \ Own(b, s))
    BY <1>2, <2>2 DEF Apart
  <2>8. /\ r \in [Name -> Binding \cup {None}]
        /\ \A m \in Name : /\ r[m] = None <=> b[m] = None
                           /\ b[m] # None => r[m].thread = b[m].thread /\ r[m].writer = b[m].writer
        /\ \A m \in Name \ Own(b, s) : r[m] = b[m]
        /\ Apart(r, Name)
        /\ \A i, j \in 1 .. Len(order) : i < j /\ order[i] \in Own(b, s) /\ order[j] \in Own(b, s) =>
             r[order[i]].seq < r[order[j]].seq
    <3>1. Numbered(b, s, order, base, r)
      BY <2>5, <2>6
    <3>2. \A m \in Name \ Own(b, s) : b[m] # None => b[m].seq # 0
      BY <2>4
    <3>3. b \in Unnumbered /\ order \in Seq(Name) /\ IsInjective(order)
      BY <1>1, <2>1
    <3> HIDE DEF l
    <3> QED BY <2>7, <3>1, <3>2, <3>3, NumberedKeeps
  <2>9. Own(r, s) \subseteq Own(b, s)
    BY <2>8 DEF Own
  <2>10. \A m \in Name \ {n} : m \in Own(b, s) => m \in Own(bind, s)
    BY <2>1 DEF Own
  <2>11. \A m \in Name \ {n} : /\ r[m] = None <=> bind[m] = None
                               /\ bind[m] # None => r[m].thread = bind[m].thread /\ r[m].writer = bind[m].writer
                               /\ m \in Own(bind, s) \/ r[m] = bind[m]
    BY <2>1, <2>8, <2>10
  <2>12. r[n].thread = Home[s] /\ r[n].writer = s
    BY <2>1, <2>8
  <2> QED BY <2>8, <2>9, <2>11, <2>12 DEF order
<1>4. CASE ~(side = "codex" /\ attributed /\ ~stopped[s])
  <2>1. r = [bind EXCEPT ![n] = None]
    BY <1>4 DEF Settled
  <2>2. r[n] = None /\ \A m \in Name \ {n} : r[m] = bind[m]
    BY <1>0, <2>1
  <2>3. r \in [Name -> Binding \cup {None}]
    BY <1>0, <2>1
  <2>4. Apart(r, Name)
    BY <1>2, <2>2 DEF Apart
  <2>5. \A m \in Own(r, s) : m # n /\ m \in Own(bind, s) /\ r[m] = bind[m]
    BY <2>2 DEF Own
  <2>6. ASSUME NEW i \in 1 .. Len(order), NEW j \in 1 .. Len(order), i < j,
               order[i] \in Own(r, s), order[j] \in Own(r, s)
        PROVE  r[order[i]].seq < r[order[j]].seq
    <3>1. i \in 1 .. Len(l) /\ j \in 1 .. Len(l)
      <4>1. CASE n \in Listed(s)
        BY <1>1, <4>1
      <4>2. CASE n \notin Listed(s)
        <5>1. i # Len(l) + 1 /\ j # Len(l) + 1
          BY <1>1, <2>5, <2>6, <4>2
        <5>2. Len(order) = Len(l) + 1 /\ Len(l) \in Nat
          BY <1>1, <4>2
        <5> HIDE DEF l
        <5> QED BY <5>1, <5>2
      <4> QED BY <4>1, <4>2
    <3>2. order[i] = l[i] /\ order[j] = l[j]
      BY <1>1, <3>1
    <3>3. l[i] \in Own(bind, s) /\ l[j] \in Own(bind, s)
      BY <2>5, <2>6, <3>2
    <3>4. bind[l[i]].seq < bind[l[j]].seq
      BY <1>1, <1>2, <2>6, <3>1, <3>3 DEF Ordered
    <3> QED BY <2>5, <2>6, <3>2, <3>4
  <2> QED BY <2>2, <2>3, <2>4, <2>6 DEF order
<1> QED BY <1>3, <1>4

LEMMA ClaimTakes ==
  ASSUME ThreadsAssumption, Inductive, NEW s \in Server, NEW n \in Name, NEW attributed, NEW unsure,
         Claim(s, n, attributed, unsure)
  PROVE  s \in Server \ gone /\ \E list, back : back \subseteq restored[s] /\ Took(s, {n}, list, back)
<1> DEFINE order == With(s, n)
           l == claims[s]
           back == restored[s] \ IF n \in Listed(s) THEN {} ELSE {n}
<1>0. /\ s \notin gone /\ Len(order) <= MaxClaims /\ ~Refused(s, n, unsure)
      /\ row' = Taken(s, {n}) /\ bind' = Settled(s, n, attributed, order)
      /\ claims' = [claims EXCEPT ![s] = order] /\ gone' = gone
      /\ restored' = IF n \in Listed(s) THEN restored ELSE [restored EXCEPT ![s] = @ \ {n}]
  BY DEF Claim, Free, With
<1>1. restored \in [Server -> SUBSET Name] /\ restored[s] \subseteq Listed(s)
  BY DEF Inductive, TypeOK
<1>2. restored' = [restored EXCEPT ![s] = back]
  BY <1>0, <1>1
<1>3. /\ order \in Seq(Name) /\ IsInjective(order) /\ ToSet(order) = Listed(s) \cup {n}
      /\ Len(l) \in Nat /\ DOMAIN l = 1 .. Len(l) /\ DOMAIN order = 1 .. Len(order)
      /\ \A i \in 1 .. Len(l) : order[i] = l[i]
      /\ n \notin Listed(s) => Len(order) = Len(l) + 1 /\ order[Len(l) + 1] = n
      /\ n \in Listed(s) => order = l
  BY WithEffect
<1>4. /\ bind' \in [Name -> Binding \cup {None}]
      /\ Apart(bind', Name)
      /\ \A m \in Name \ {n} : /\ bind'[m] = None <=> bind[m] = None
                               /\ bind[m] # None => bind'[m].thread = bind[m].thread /\ bind'[m].writer = bind[m].writer
                               /\ m \in Own(bind, s) \/ bind'[m] = bind[m]
      /\ bind'[n] # None => bind'[n].thread = Home[s] /\ bind'[n].writer = s
      /\ \A i, j \in 1 .. Len(order) :
           i < j /\ order[i] \in Own(bind', s) /\ order[j] \in Own(bind', s) =>
             bind'[order[i]].seq < bind'[order[j]].seq
  BY <1>0, SettledEffect
<1>5. Ordered(bind, s, l, restored[s])
  BY <1>0, OrderKeptParts DEF Inductive
<1> HIDE DEF order
<1>6. ASSUME NEW i \in 1 .. Len(order), NEW j \in 1 .. Len(order), i < j, order[j] \in back
      PROVE  order[i] \in back
  <2>1. i \in 1 .. Len(l) /\ j \in 1 .. Len(l)
    <3>1. CASE n \in Listed(s)
      BY <1>3, <3>1
    <3>2. CASE n \notin Listed(s)
      <4>1. n \notin back
        BY <1>1, <3>2
      <4>2. j # Len(l) + 1
        BY <1>3, <1>6, <3>2, <4>1
      <4>3. Len(order) = Len(l) + 1 /\ Len(l) \in Nat
        BY <1>3, <3>2
      <4> HIDE DEF l
      <4> QED BY <1>6, <4>2, <4>3
    <3> QED BY <3>1, <3>2
  <2>2. order[i] = l[i] /\ order[j] = l[j]
    BY <1>3, <2>1
  <2>3. l[i] \in restored[s]
    BY <1>3, <1>5, <1>6, <2>1, <2>2 DEF Ordered
  <2>4. n \notin Listed(s) => l[i] # n
    BY <1>1, <2>3
  <2> QED BY <2>2, <2>3, <2>4
<1>7. Ordered(bind', s, order, back)
  BY <1>3, <1>4, <1>6 DEF Ordered
<1>8. \A t \in Server \ gone : t # s => {n} \cap Listed(t) = {}
  BY <1>0, NotRefused
<1>9. back \subseteq ToSet(order) /\ back \subseteq restored[s]
  BY <1>1, <1>3
<1> HIDE DEF back
<1>10. Took(s, {n}, order, back)
  BY <1>0, <1>2, <1>3, <1>4, <1>7, <1>8, <1>9 DEF Took
<1> QED BY <1>0, <1>9, <1>10

----------------------------------------------------------------------------
(* What a restoration does. *)

(* N can be accepted: bound to the thread of s, by s or a process that is   *)
(* gone, not refused, and no more new names than there is room for.        *)
Acceptable(s, unsure, N) ==
  /\ N \in SUBSET Name
  /\ \A n \in N : /\ bind[n] \in Binding /\ bind[n].thread = Home[s]
                  /\ bind[n].writer = s \/ bind[n].writer \in gone
                  /\ ~Refused(s, n, unsure)
  /\ IsFiniteSet(N \ Listed(s))
  /\ Cardinality(N \ Listed(s)) \in Nat /\ Len(claims[s]) \in Nat
  /\ Len(claims[s]) + Cardinality(N \ Listed(s)) <= MaxClaims

LEMMA AcceptedEffect ==
  ASSUME ThreadsAssumption, Inductive, NEW s \in Server, NEW unsure, attempt[s] # None,
         NEW N, N = Accepted(s, attempt[s].due, unsure)
  PROVE  Acceptable(s, unsure, N)
<1> DEFINE due == attempt[s].due
           still == {c \in due : StillDue(s, c, unsure)}
           Newer(c) == {d \in still : d.name \notin Listed(s) /\ d.was.seq > c.was.seq}
           fresh == {c \in still : c.name \notin Listed(s)}
           T == {d \in fresh : Len(claims[s]) + Cardinality(Newer(d)) < MaxClaims}
           k == MaxClaims - Len(claims[s])
<1>1. due \in SUBSET Candidate /\ \A c \in due : c.was.thread = Home[s]
  BY DEF Inductive, TypeOK, Surveyed
<1>2. \A c \in still : /\ c \in Candidate /\ c.name \in Name /\ bind[c.name] = c.was /\ c.was \in Binding
                       /\ c.was.thread = Home[s]
                       /\ c.was.writer = s \/ c.was.writer \in gone
                       /\ ~Refused(s, c.name, unsure)
  BY <1>1 DEF StillDue, Dead, Candidate
<1>3. N = {c.name : c \in {d \in still : \/ d.name \in Listed(s)
                                         \/ Len(claims[s]) + Cardinality(Newer(d)) < MaxClaims}}
  BY DEF Accepted
<1>4. \A n \in N : \E c \in still : n = c.name
  BY <1>3
<1>5. N \ Listed(s) = {c.name : c \in T}
  BY <1>3
<1>6. Len(claims[s]) \in Nat /\ Len(claims[s]) <= MaxClaims /\ MaxClaims \in Nat /\ k \in Nat
  <2>1. claims[s] \in Seq(Name) /\ Len(claims[s]) <= MaxClaims /\ MaxClaims \in Nat
    BY DEF Inductive, TypeOK, ThreadsAssumption
  <2>2. Len(claims[s]) \in Nat
    BY <2>1, LenProperties
  <2> QED BY <2>1, <2>2
<1>7. IsFiniteSet(fresh)
  <2> DEFINE g == [n \in Name |-> [name |-> n, was |-> bind[n]]]
             G == {g[n] : n \in Name}
  <2>1. IsFiniteSet(G)
    <3>1. DOMAIN g = Name /\ g = [n \in Name |-> g[n]]
      OBVIOUS
    <3>2. IsFiniteSet(Name)
      BY DEF ThreadsAssumption
    <3> HIDE DEF g
    <3> QED BY <3>1, <3>2, ImageSize
  <2>2. fresh \in SUBSET G
    <3> SUFFICES ASSUME NEW c \in fresh PROVE c \in G
      OBVIOUS
    <3>1. c \in Candidate /\ c.name \in Name /\ bind[c.name] = c.was
      BY <1>2
    <3>2. c = [name |-> c.name, was |-> c.was]
      BY <3>1 DEF Candidate
    <3>3. c = g[c.name]
      BY <3>1, <3>2
    <3> QED BY <3>1, <3>3
  <2> HIDE DEF G
  <2> QED BY <2>1, <2>2, FS_Subset
<1> DEFINE f == [c \in fresh |-> c.was.seq]
<1>8. f \in [fresh -> Nat]
  <2>1. \A c \in fresh : c.was.seq \in Nat
    BY <1>2 DEF Binding
  <2> QED BY <2>1
<1>9. \A c, d \in fresh : f[c] = f[d] => c = d
  <2> SUFFICES ASSUME NEW c \in fresh, NEW d \in fresh, c.was.seq = d.was.seq PROVE c = d
    OBVIOUS
  <2>1. /\ c \in Candidate /\ d \in Candidate /\ c.name \in Name /\ d.name \in Name
        /\ bind[c.name] = c.was /\ bind[d.name] = d.was
        /\ c.was.thread = Home[s] /\ d.was.thread = Home[s] /\ c.was \in Binding /\ d.was \in Binding
    BY <1>2
  <2>2. c.was # None /\ d.was # None
    BY <2>1 DEF ThreadsAssumption, Binding
  <2>3. c.name = d.name
    <3>1. Apart(bind, Name)
      BY OrderKeptParts DEF Inductive
    <3> QED BY <2>1, <2>2, <3>1 DEF Apart
  <2>4. c = [name |-> c.name, was |-> c.was] /\ d = [name |-> d.name, was |-> d.was]
    BY <2>1 DEF Candidate
  <2> QED BY <2>1, <2>3, <2>4
<1>10. \A x \in T : \E U \in SUBSET fresh :
         Cardinality(U) < k /\ \A y \in fresh : f[y] > f[x] => y \in U
  <2> SUFFICES ASSUME NEW x \in T
               PROVE  \E U \in SUBSET fresh :
                        Cardinality(U) < k /\ \A y \in fresh : f[y] > f[x] => y \in U
    OBVIOUS
  <2>1. Newer(x) \in SUBSET fresh /\ \A y \in fresh : f[y] > f[x] => y \in Newer(x)
    OBVIOUS
  <2>2. Len(claims[s]) + Cardinality(Newer(x)) < MaxClaims
    OBVIOUS
  <2>3. Cardinality(Newer(x)) \in Nat
    <3>1. Newer(x) \in SUBSET fresh
      OBVIOUS
    <3>2. IsFiniteSet(Newer(x))
      <4> HIDE DEF fresh, Newer
      <4> QED BY <1>7, <3>1, FS_Subset
    <3> QED BY <3>2, FS_CardinalityType
  <2>4. Cardinality(Newer(x)) < k
    <3> HIDE DEF Newer, T
    <3> QED BY <1>6, <2>2, <2>3
  <2> HIDE DEF Newer, f, fresh
  <2> QED BY <2>1, <2>4
<1>11. IsFiniteSet(T) /\ Cardinality(T) <= k
  <2>1. T \in SUBSET fresh
    OBVIOUS
  <2> HIDE DEF T, f, fresh, k
  <2> QED BY <1>6, <1>7, <1>8, <1>9, <1>10, <2>1, GreatestOnes
<1>12. /\ IsFiniteSet({c.name : c \in T})
       /\ Cardinality({c.name : c \in T}) <= Cardinality(T)
  <2> DEFINE h == [c \in T |-> c.name]
  <2>1. DOMAIN h = T /\ h = [c \in T |-> h[c]]
    OBVIOUS
  <2>2. {h[c] : c \in T} = {c.name : c \in T}
    OBVIOUS
  <2>3. /\ IsFiniteSet({h[c] : c \in T})
        /\ Cardinality({h[c] : c \in T}) <= Cardinality(T)
    <3> HIDE DEF h, T
    <3> QED BY <1>11, <2>1, ImageSize
  <2> HIDE DEF h, T
  <2> QED BY <2>2, <2>3
<1>13. /\ IsFiniteSet(N \ Listed(s)) /\ Cardinality(N \ Listed(s)) \in Nat
       /\ Len(claims[s]) + Cardinality(N \ Listed(s)) <= MaxClaims
  <2>1. IsFiniteSet(N \ Listed(s)) /\ Cardinality(N \ Listed(s)) <= Cardinality(T)
    BY <1>5, <1>12
  <2>2. Cardinality(N \ Listed(s)) \in Nat /\ Cardinality(T) \in Nat
    BY <1>11, <2>1, FS_CardinalityType
  <2> HIDE DEF T
  <2> QED BY <1>6, <1>11, <2>1, <2>2
<1> HIDE DEF still
<1>14. N \in SUBSET Name /\ \A n \in N : /\ bind[n] \in Binding /\ bind[n].thread = Home[s]
                                         /\ bind[n].writer = s \/ bind[n].writer \in gone
                                         /\ ~Refused(s, n, unsure)
  BY <1>2, <1>4
<1> QED BY <1>6, <1>13, <1>14 DEF Acceptable

(* The bindings of s once it has taken N over. *)
Mine(s, N) == [n \in Name |-> IF n \in N THEN [bind[n] EXCEPT !.writer = s] ELSE bind[n]]

LEMMA MineEffect ==
  ASSUME ThreadsAssumption, Inductive, NEW s \in Server \ gone, NEW N \in SUBSET Name,
         \A n \in N : bind[n] \in Binding /\ bind[n].thread = Home[s]
  PROVE  /\ Mine(s, N) \in Unnumbered
         /\ \A n \in N : /\ Mine(s, N)[n] # None /\ Mine(s, N)[n].thread = Home[s]
                         /\ Mine(s, N)[n].writer = s /\ Mine(s, N)[n].seq = bind[n].seq
         /\ \A n \in Name \ N : Mine(s, N)[n] = bind[n]
         /\ Own(Mine(s, N), s) = Own(bind, s) \cup N
         /\ \A n \in Own(Mine(s, N), s) : /\ bind[n] # None /\ bind[n].thread = Home[s]
                                          /\ Mine(s, N)[n].seq = bind[n].seq /\ bind[n].seq \in Nat
         /\ Own(Mine(s, N), s) \cap Listed(s) \subseteq Own(bind, s)
<1> DEFINE b == Mine(s, N)
<1>0. /\ bind \in [Name -> Binding \cup {None}]
      /\ None \notin [thread : Range(Home), seq : Nat, writer : Server]
  BY DEF Inductive, TypeOK, ThreadsAssumption
<1>1. b = [n \in Name |-> IF n \in N THEN [bind[n] EXCEPT !.writer = s] ELSE bind[n]]
  BY DEF Mine
<1> HIDE DEF b
<1>2. \A n \in N : /\ b[n] \in [thread : Range(Home), seq : Nat, writer : Server]
                   /\ b[n].thread = Home[s] /\ b[n].writer = s /\ b[n].seq = bind[n].seq
  BY <1>1 DEF Binding
<1>3. \A n \in Name \ N : b[n] = bind[n]
  BY <1>1
<1>4. \A n \in N : b[n] # None /\ bind[n] # None
  BY <1>0, <1>2 DEF Binding
<1>5. b \in Unnumbered
  <2>1. \A n \in Name : b[n] \in [thread : Range(Home), seq : Nat, writer : Server] \cup {None}
    BY <1>0, <1>2, <1>3 DEF Binding
  <2> QED BY <1>1, <2>1 DEF Unnumbered
<1>6. Own(b, s) = Own(bind, s) \cup N
  BY <1>2, <1>3, <1>4 DEF Own
<1>7. \A n \in Own(b, s) : /\ bind[n] # None /\ bind[n].thread = Home[s]
                           /\ b[n].seq = bind[n].seq /\ bind[n].seq \in Nat
  <2> SUFFICES ASSUME NEW n \in Own(b, s)
               PROVE  /\ bind[n] # None /\ bind[n].thread = Home[s]
                      /\ b[n].seq = bind[n].seq /\ bind[n].seq \in Nat
    OBVIOUS
  <2>1. bind[n] # None /\ bind[n].thread = Home[s] /\ b[n].seq = bind[n].seq /\ n \in Name
    BY <1>2, <1>3, <1>4, <1>6 DEF Own
  <2> QED BY <1>0, <2>1 DEF Binding
<1>8. Own(b, s) \cap Listed(s) \subseteq Own(bind, s)
  <2> SUFFICES ASSUME NEW n \in Own(b, s), n \in Listed(s) PROVE n \in Own(bind, s)
    OBVIOUS
  <2>1. n \in Name /\ bind[n] # None /\ bind[n].thread = Home[s]
    BY <1>7 DEF Own
  <2>2. bind[n].writer = s
    BY <2>1 DEF Inductive, Bound
  <2> QED BY <2>1, <2>2 DEF Own
<1> QED BY <1>2, <1>3, <1>4, <1>5, <1>6, <1>7, <1>8 DEF b

(* A restoration takes the names it accepts, each to its place. *)
LEMMA RestoreTakes ==
  ASSUME ThreadsAssumption, Inductive, NEW s \in Server, NEW unsure, Restore(s, unsure),
         NEW N, N = Accepted(s, attempt[s].due, unsure)
  PROVE  /\ s \in Server \ gone
         /\ \E list : /\ Took(s, N, list, restored[s] \cup (N \ Listed(s)))
                      /\ InOrder(Mine(s, N), s, list, restored[s] \cup (N \ Listed(s)))
<1>a. PICK M : M = N \ Listed(s)
  OBVIOUS
<1>b. PICK b : b = Mine(s, N)
  OBVIOUS
<1>c. PICK end : end = WithRestored(b, s, M)
  OBVIOUS
<1> DEFINE list == end.list
           back == restored[s] \cup (N \ Listed(s))
<1>0. s \in Server \ gone /\ attempt[s] # None
  BY DEF Restore, Serving
<1>1. /\ N \in SUBSET Name
      /\ \A n \in N : /\ bind[n] \in Binding /\ bind[n].thread = Home[s]
                      /\ bind[n].writer = s \/ bind[n].writer \in gone
                      /\ ~Refused(s, n, unsure)
      /\ IsFiniteSet(M)
      /\ Cardinality(M) \in Nat /\ Len(claims[s]) \in Nat
      /\ Len(claims[s]) + Cardinality(M) <= MaxClaims
  <2>1. Acceptable(s, unsure, N)
    BY <1>0, AcceptedEffect
  <2> QED BY <1>a, <2>1 DEF Acceptable
<1>2. /\ row' = Taken(s, N) /\ gone' = gone
      /\ bind' = IF N = {} THEN bind ELSE Renumber(b, s, list)
      /\ claims' = [claims EXCEPT ![s] = list]
      /\ restored' = [restored EXCEPT ![s] = end.back]
  BY <1>a, <1>b, <1>c DEF Restore, Commit, Mine
<1>3. /\ b \in Unnumbered
      /\ \A n \in N : /\ b[n] # None /\ b[n].thread = Home[s]
                      /\ b[n].writer = s /\ b[n].seq = bind[n].seq
      /\ \A n \in Name \ N : b[n] = bind[n]
      /\ Own(b, s) = Own(bind, s) \cup N
      /\ \A n \in Own(b, s) : /\ bind[n] # None /\ bind[n].thread = Home[s]
                              /\ b[n].seq = bind[n].seq /\ bind[n].seq \in Nat
      /\ Own(b, s) \cap Listed(s) \subseteq Own(bind, s)
  BY <1>b, <1>0, <1>1, MineEffect
<1>4. /\ claims[s] \in Seq(Name) /\ IsInjective(claims[s]) /\ restored[s] \in SUBSET Name
      /\ restored[s] \subseteq Listed(s) /\ DOMAIN claims[s] = 1 .. Len(claims[s])
  <2>1. claims[s] \in Seq(Name)
    BY DEF Inductive, TypeOK
  <2> QED BY <2>1, LenProperties DEF Inductive, TypeOK
<1>5. Ordered(bind, s, claims[s], restored[s]) /\ Apart(bind, Name)
  BY <1>0, OrderKeptParts DEF Inductive
<1>6. Own(b, s) \subseteq Name
  BY DEF Own
<1>7. Placeable(b, s, M)
  <2>1. \A m, n \in Own(b, s) : m # n => b[m].seq # b[n].seq
    BY <1>3, <1>5, <1>6 DEF Apart
  <2>2. InOrder(b, s, claims[s], restored[s])
    <3> SUFFICES ASSUME NEW i \in DOMAIN claims[s], NEW j \in DOMAIN claims[s], i < j
                 PROVE  /\ claims[s][j] \in restored[s] => claims[s][i] \in restored[s]
                        /\ claims[s][i] \in Own(b, s) /\ claims[s][j] \in Own(b, s) =>
                             b[claims[s][i]].seq < b[claims[s][j]].seq
      BY DEF InOrder
    <3>1. claims[s][i] \in Listed(s) /\ claims[s][j] \in Listed(s)
      BY DEF Listed, ToSet
    <3>2. claims[s][j] \in restored[s] => claims[s][i] \in restored[s]
      BY <1>5 DEF Ordered
    <3>3. ASSUME claims[s][i] \in Own(b, s), claims[s][j] \in Own(b, s)
          PROVE  b[claims[s][i]].seq < b[claims[s][j]].seq
      <4>1. claims[s][i] \in Own(bind, s) /\ claims[s][j] \in Own(bind, s)
        BY <1>3, <3>1, <3>3
      <4>2. bind[claims[s][i]].seq < bind[claims[s][j]].seq
        BY <1>5, <4>1 DEF Ordered
      <4> QED BY <1>3, <3>3, <4>2
    <3> QED BY <3>2, <3>3
  <2>3. \A n \in Own(b, s) : b[n].seq \in Nat
    BY <1>3
  <2>4. M \subseteq Own(b, s) /\ M \in SUBSET Name /\ M \cap Listed(s) = {}
    BY <1>a, <1>1, <1>3
  <2> QED BY <1>1, <1>4, <2>1, <2>2, <2>3, <2>4 DEF Placeable
<1>8. Placed(b, s, M, end) /\ end.left = {} /\ (M = {} => list = claims[s])
  BY <1>c, <1>7, AllPlaced
<1>9. /\ list \in Seq(Name) /\ IsInjective(list) /\ ToSet(list) = Listed(s) \cup M
      /\ end.back = back /\ InOrder(b, s, list, back)
      /\ Len(list) = Len(claims[s]) + Cardinality(M)
  <2>1. end \in [list : Seq(Name), back : SUBSET Name, left : SUBSET M]
    BY <1>8 DEF Placed
  <2>2. list \in Seq(Name) /\ IsInjective(list) /\ ToSet(list) = Listed(s) \cup M
    BY <1>8, <2>1 DEF Placed
  <2>3. end.back = back
    BY <1>a, <1>8 DEF Placed
  <2>4. InOrder(b, s, list, back)
    BY <1>8, <2>3 DEF Placed
  <2>5. Len(list) = Len(claims[s]) + Cardinality(M)
    <3>1. Len(list) + 0 = Len(claims[s]) + Cardinality(M)
      BY <1>8, FS_EmptySet DEF Placed
    <3>2. Len(list) \in Nat
      BY <2>2, LenProperties
    <3> HIDE DEF list
    <3> QED BY <3>1, <3>2
  <2> QED BY <2>2, <2>3, <2>4, <2>5
<1> HIDE DEF list
<1>10. DOMAIN list = 1 .. Len(list)
  BY <1>9, LenProperties
<1>11. Len(list) <= MaxClaims
  BY <1>1, <1>9
<1>12. ToSet(list) = Listed(s) \cup N /\ back \subseteq ToSet(list)
  BY <1>a, <1>4, <1>9
<1>13. \A t \in Server \ gone : t # s => N \cap Listed(t) = {}
  BY <1>1, NotRefused
<1>14. /\ bind' \in [Name -> Binding \cup {None}]
       /\ Apart(bind', Name)
       /\ Ordered(bind', s, list, back)
       /\ \A m \in Name \ N : /\ bind'[m] = None <=> bind[m] = None
                              /\ bind[m] # None => bind'[m].thread = bind[m].thread /\ bind'[m].writer = bind[m].writer
                              /\ m \in Own(bind, s) \/ bind'[m] = bind[m]
       /\ \A m \in N : bind'[m] # None => bind'[m].thread = Home[s] /\ bind'[m].writer = s
  <2>1. CASE N = {}
    <3>1. bind' = bind /\ list = claims[s] /\ back = restored[s]
      BY <1>a, <1>2, <1>8, <2>1
    <3>2. bind \in [Name -> Binding \cup {None}]
      BY DEF Inductive, TypeOK
    <3> HIDE DEF back
    <3> QED BY <1>5, <2>1, <3>1, <3>2
  <2>2. CASE N # {}
    <3>1. Own(b, s) \subseteq ToSet(list)
      <4> SUFFICES ASSUME NEW m \in Own(bind, s) PROVE m \in Listed(s)
        BY <1>3, <1>12
      <4> QED BY <1>0 DEF Own, Inductive, Bound
    <3>2. \A m \in Name \ Own(b, s) : b[m] = bind[m]
      BY <1>3
    <3>3. \A m \in Name : bind[m] # None => bind[m].seq \in Nat \ {0}
      <4>1. \A m \in Name : bind[m] # None => bind[m] \in Binding
        BY DEF Inductive, TypeOK
      <4> QED BY <4>1 DEF Binding
    <3>4. PICK base \in Nat : Numbered(b, s, list, base, bind')
      <4>1. \A m \in Name \ Own(b, s) : b[m] # None /\ b[m].thread = Home[s] => b[m].seq \in Nat
        BY <3>2, <3>3
      <4>2. bind' = Renumber(b, s, list)
        BY <1>2, <2>2
      <4> QED BY <1>9, <3>1, <4>1, <4>2, RenumberEffect
    <3>5. \A m \in Name \ Own(b, s) : b[m] # None => b[m].seq # 0
      BY <3>2, <3>3
    <3>6. Apart(b, Name \ Own(b, s))
      BY <1>5, <3>2 DEF Apart
    <3>7. /\ bind' \in [Name -> Binding \cup {None}]
          /\ \A m \in Name : /\ bind'[m] = None <=> b[m] = None
                             /\ b[m] # None => bind'[m].thread = b[m].thread /\ bind'[m].writer = b[m].writer
          /\ \A m \in Name \ Own(b, s) : bind'[m] = b[m]
          /\ Apart(bind', Name)
          /\ \A i, j \in 1 .. Len(list) : i < j /\ list[i] \in Own(b, s) /\ list[j] \in Own(b, s) =>
               bind'[list[i]].seq < bind'[list[j]].seq
      BY <1>0, <1>3, <1>9, <3>4, <3>5, <3>6, NumberedKeeps
    <3>8. Own(bind', s) \subseteq Own(b, s)
      BY <3>7 DEF Own
    <3>9. Ordered(bind', s, list, back)
      <4>1. \A i, j \in DOMAIN list : i < j => (list[j] \in back => list[i] \in back)
        BY <1>9 DEF InOrder
      <4> HIDE DEF back
      <4> QED BY <1>10, <3>7, <3>8, <4>1 DEF Ordered
    <3>10. \A m \in Name \ N : /\ bind'[m] = None <=> bind[m] = None
                               /\ bind[m] # None => bind'[m].thread = bind[m].thread /\ bind'[m].writer = bind[m].writer
                               /\ m \in Own(bind, s) \/ bind'[m] = bind[m]
      BY <1>3, <3>7
    <3>11. \A m \in N : bind'[m].thread = Home[s] /\ bind'[m].writer = s
      BY <1>1, <1>3, <3>7
    <3> HIDE DEF back
    <3> QED BY <3>7, <3>9, <3>10, <3>11
  <2> QED BY <2>1, <2>2
<1>15. restored' = [restored EXCEPT ![s] = back]
  BY <1>2, <1>9
<1> HIDE DEF back
<1>16. Took(s, N, list, back)
  BY <1>1, <1>2, <1>9, <1>11, <1>12, <1>13, <1>14, <1>15 DEF Took
<1> QED BY <1>b, <1>0, <1>9, <1>16 DEF back

----------------------------------------------------------------------------
(* What the other steps do to lists and bindings. *)

(* The part of Bound that is about what was given up. *)
GivenUp == \A n \in Name : bind[n] # None => bind[n].thread \notin gaveUp[n]

LEMMA BoundParts ==
  /\ Bound <=> WriterLists /\ GivenUp
  /\ Bound' <=> WriterLists' /\ GivenUp'
BY DEF Bound, WriterLists, GivenUp

(* Dropping bindings disturbs no order. *)
LEMMA Dropping ==
  ASSUME NEW b, NEW r, \A n \in Name : r[n] = b[n] \/ r[n] = None
  PROVE  /\ Apart(b, Name) => Apart(r, Name)
         /\ \A s, list, back : Ordered(b, s, list, back) => Ordered(r, s, list, back)
<1>1. Apart(b, Name) => Apart(r, Name)
  BY DEF Apart
<1>2. ASSUME NEW s, NEW list, NEW back, Ordered(b, s, list, back) PROVE Ordered(r, s, list, back)
  <2>1. \A n \in Own(r, s) : n \in Own(b, s) /\ r[n] = b[n]
    BY DEF Own
  <2> QED BY <1>2, <2>1 DEF Ordered
<1> QED BY <1>1, <1>2

(* A name out of a list. *)
LEMMA RemovedName ==
  ASSUME NEW l \in Seq(Name), IsInjective(l), NEW n \in ToSet(l), NEW t, t = RemoveFirst(l, n)
  PROVE  /\ t \in Seq(Name) /\ Len(t) <= Len(l) /\ IsInjective(t)
         /\ ToSet(t) = ToSet(l) \ {n}
         /\ \A k, m \in DOMAIN t : k < m =>
              \E i, j \in DOMAIN l : i < j /\ t[k] = l[i] /\ t[m] = l[j]
<1>0. Len(l) \in Nat /\ DOMAIN l = 1 .. Len(l)
  BY LenProperties
<1>1. PICK p \in 1 .. Len(l) : l[p] = n /\ t = RemoveAt(l, p)
  <2>1. \E i \in 1 .. Len(l) : l[i] = n
    BY <1>0 DEF ToSet
  <2> QED BY <2>1, RemoveFirstEffect
<1>2. /\ t \in Seq(Name) /\ Len(t) = Len(l) - 1
      /\ \A k \in 1 .. Len(l) - 1 : t[k] = IF k < p THEN l[k] ELSE l[k + 1]
  BY <1>1, RemoveAtEffect
<1>3. DOMAIN t = 1 .. Len(l) - 1
  BY <1>2, LenProperties
<1> DEFINE From(k) == IF k < p THEN k ELSE k + 1
<1>4. \A k \in DOMAIN t : From(k) \in DOMAIN l /\ From(k) # p /\ t[k] = l[From(k)]
  BY <1>0, <1>2, <1>3
<1>5. \A k, m \in DOMAIN t : k < m => From(k) < From(m)
  BY <1>0, <1>3
<1>6. \A i \in DOMAIN l : i # p => \E k \in DOMAIN t : From(k) = i
  <2> SUFFICES ASSUME NEW i \in DOMAIN l, i # p PROVE \E k \in DOMAIN t : From(k) = i
    OBVIOUS
  <2>1. CASE i < p
    <3>1. i \in DOMAIN t /\ From(i) = i
      BY <1>0, <1>3, <2>1
    <3> QED BY <3>1
  <2>2. CASE ~(i < p)
    <3>1. i - 1 \in DOMAIN t /\ From(i - 1) = i
      BY <1>0, <1>3, <2>2
    <3> QED BY <3>1
  <2> QED BY <2>1, <2>2
<1>7. \A k, m \in DOMAIN t : From(k) = From(m) => k = m
  BY <1>0, <1>3
<1> HIDE DEF From
<1>8. IsInjective(t)
  BY <1>4, <1>7 DEF IsInjective
<1>9. ToSet(t) = ToSet(l) \ {n}
  <2>1. ASSUME NEW k \in DOMAIN t PROVE t[k] \in ToSet(l) \ {n}
    <3>1. t[k] \in ToSet(l)
      BY <1>4 DEF ToSet
    <3>2. t[k] # n
      BY <1>0, <1>1, <1>4 DEF IsInjective
    <3> QED BY <3>1, <3>2
  <2>2. ASSUME NEW i \in DOMAIN l, l[i] # n PROVE l[i] \in ToSet(t)
    <3>1. PICK k \in DOMAIN t : From(k) = i
      BY <1>1, <1>6, <2>2
    <3> QED BY <1>4, <3>1 DEF ToSet
  <2> QED BY <2>1, <2>2 DEF ToSet
<1>10. Len(t) <= Len(l)
  BY <1>0, <1>2
<1> QED BY <1>2, <1>4, <1>5, <1>8, <1>9, <1>10

(* Steps that leave rows, lists and bindings alone. *)
LEMMA SameLists ==
  ASSUME Inductive, UNCHANGED <<gone, row, bind, claims, restored>>
  PROVE  /\ ListsOK' /\ OrderKept' /\ WriterLists' /\ Alone'
         /\ \A t \in Server : Listed(t)' = Listed(t)
<1>1. ListsOK /\ OrderKept /\ WriterLists /\ Alone
  BY BoundParts DEF Inductive, TypeOK, ListsOK
<1>2. \A t \in Server : Listed(t)' = Listed(t)
  BY DEF Listed
<1>3. ListsOK' /\ WriterLists' /\ Alone'
  BY <1>1, <1>2 DEF ListsOK, WriterLists, Alone
<1>4. OrderKept'
  BY <1>1, OrderKeptParts, OrderKeptPartsNext
<1> QED BY <1>2, <1>3, <1>4

----------------------------------------------------------------------------
(* The table of hints. *)

Table == [Name -> [conv : Range(Home), seq : Nat, writer : Server] \cup {None}]

(* Some of the hints of h are gone from g, and no other has changed. *)
Fewer(g, h) == \A m \in Name : g[m] = h[m] \/ g[m] = None

(* No two hints have the same rowid. *)
RowidsApart(h) == \A m, n \in Hinted(h) : h[m].seq = h[n].seq => m = n

Within(h) ==
  /\ \A s \in Server : Cardinality(Of(h, Home[s])) <= PerConversation
  /\ Cardinality(Hinted(h)) <= Rows

Capped(h) == RowidsApart(h) /\ Within(h)

LEMMA HintedFinite ==
  ASSUME NEW N \in SUBSET Name
  PROVE  /\ IsFiniteSet(N) /\ Cardinality(N) \in Nat
         /\ \A M \in SUBSET N : IsFiniteSet(M) /\ Cardinality(M) \in Nat /\ Cardinality(M) <= Cardinality(N)
<1>1. IsFiniteSet(Name)
  BY ThreadsAssumption DEF ThreadsAssumption
<1>2. IsFiniteSet(N)
  BY <1>1, FS_Subset
<1> QED BY <1>2, FS_Subset, FS_CardinalityType

(* Fewer hints keep within the same caps. *)
LEMMA FewerCapped ==
  ASSUME NEW g, NEW h, Fewer(g, h)
  PROVE  /\ Hinted(g) \subseteq Hinted(h) /\ \A c : Of(g, c) \subseteq Of(h, c)
         /\ \A c : Cardinality(Of(g, c)) <= Cardinality(Of(h, c))
         /\ RowidsApart(h) => RowidsApart(g)
         /\ Capped(h) => Capped(g)
<1>1. Hinted(g) \subseteq Hinted(h) /\ \A c : Of(g, c) \subseteq Of(h, c)
  BY DEF Fewer, Hinted, Of
<1>2. ASSUME NEW c
      PROVE  /\ Cardinality(Of(g, c)) \in Nat /\ Cardinality(Of(h, c)) \in Nat
             /\ Cardinality(Of(g, c)) <= Cardinality(Of(h, c))
  <2>1. Of(h, c) \in SUBSET Name /\ Of(g, c) \in SUBSET Of(h, c) /\ Of(g, c) \in SUBSET Name
    BY <1>1 DEF Of, Hinted
  <2> QED BY <2>1, HintedFinite
<1>3. /\ Cardinality(Hinted(g)) \in Nat /\ Cardinality(Hinted(h)) \in Nat
      /\ Cardinality(Hinted(g)) <= Cardinality(Hinted(h))
  <2>1. Hinted(h) \in SUBSET Name /\ Hinted(g) \in SUBSET Hinted(h) /\ Hinted(g) \in SUBSET Name
    BY <1>1 DEF Hinted
  <2> QED BY <2>1, HintedFinite
<1>4. RowidsApart(h) => RowidsApart(g)
  BY DEF Fewer, Hinted, RowidsApart
<1>5. Within(h) => Within(g)
  <2> SUFFICES ASSUME Within(h) PROVE Within(g)
    OBVIOUS
  <2>1. PerConversation \in Nat /\ Rows \in Nat
    BY ThreadsAssumption DEF ThreadsAssumption
  <2>2. ASSUME NEW s \in Server PROVE Cardinality(Of(g, Home[s])) <= PerConversation
    <3>1. Cardinality(Of(h, Home[s])) <= PerConversation
      BY DEF Within
    <3> QED BY <1>2, <2>1, <3>1
  <2>3. Cardinality(Hinted(g)) <= Rows
    BY <1>3, <2>1 DEF Within
  <2> QED BY <2>2, <2>3 DEF Within
<1> QED BY <1>1, <1>2, <1>4, <1>5 DEF Capped

(* What is kept of N is at most K, the newest of N among it. *)
Kept(g, h, N, K) ==
  /\ g \in Table /\ Fewer(g, h)
  /\ Cardinality(Hinted(g) \cap N) <= K
  /\ \A n \in N : (\A m \in N \ {n} : h[m].seq < h[n].seq) => g[n] = h[n]

LEMMA KeepNewestEffect ==
  ASSUME NEW h \in Table, NEW N \in SUBSET Hinted(h), NEW K \in Nat \ {0}, RowidsApart(h),
         NEW g, g = KeepNewest(h, N, K)
  PROVE  Kept(g, h, N, K)
<1> DEFINE Above(n) == {m \in N : h[m].seq > h[n].seq}
           T == Hinted(g) \cap N
           f == [n \in N |-> h[n].seq]
<1>1. g = [n \in Name |-> IF n \in N /\ Cardinality(Above(n)) >= K THEN None ELSE h[n]]
  BY DEF KeepNewest
<1>2. g \in Table /\ Fewer(g, h)
  BY <1>1 DEF Table, Fewer
<1>3. N \in SUBSET Name /\ \A n \in N : h[n] # None /\ h[n].seq \in Nat
  BY DEF Hinted, Table
<1>4. \A n \in N : Above(n) \in SUBSET N /\ Cardinality(Above(n)) \in Nat
  BY <1>3, HintedFinite
<1>5. \A n \in T : Cardinality(Above(n)) < K
  <2> SUFFICES ASSUME NEW n \in T PROVE Cardinality(Above(n)) < K
    OBVIOUS
  <2>1. ~(Cardinality(Above(n)) >= K)
    BY <1>1, <1>3 DEF Hinted
  <2> QED BY <1>4, <2>1
<1>6. Cardinality(T) <= K
  <2>1. f \in [N -> Nat] /\ \A x, y \in N : f[x] = f[y] => x = y
    BY <1>3 DEF RowidsApart
  <2>2. \A x \in T : \E U \in SUBSET N : Cardinality(U) < K /\ \A y \in N : f[y] > f[x] => y \in U
    <3> SUFFICES ASSUME NEW x \in T
                 PROVE  \E U \in SUBSET N : Cardinality(U) < K /\ \A y \in N : f[y] > f[x] => y \in U
      OBVIOUS
    <3>1. Above(x) \in SUBSET N /\ Cardinality(Above(x)) < K
      BY <1>4, <1>5
    <3>2. \A y \in N : f[y] > f[x] => y \in Above(x)
      OBVIOUS
    <3> HIDE DEF Above, f
    <3> QED BY <3>1, <3>2
  <2>3. T \in SUBSET N /\ IsFiniteSet(N) /\ K \in Nat
    BY <1>3, HintedFinite
  <2> HIDE DEF f, T
  <2> QED BY <2>1, <2>2, <2>3, GreatestOnes
<1>7. ASSUME NEW n \in N, \A m \in N \ {n} : h[m].seq < h[n].seq PROVE g[n] = h[n]
  <2>1. Above(n) = {}
    BY <1>3, <1>7
  <2>2. Cardinality(Above(n)) = 0
    BY <2>1, FS_EmptySet
  <2> QED BY <1>1, <1>3, <2>2
<1> QED BY <1>2, <1>6, <1>7 DEF Kept

(* The hint recorded is the one newest, and is there; others stay or go. *)
LEMMA RecordedEffect ==
  ASSUME hint \in Table, Capped(hint), NEW s \in Server, NEW n \in Name
  PROVE  LET h == Recorded(s, n)
         IN /\ h \in Table /\ Capped(h)
            /\ h[n] # None /\ h[n].conv = Home[s] /\ h[n].writer = s
            /\ \A m \in Name : m # n => h[m] = hint[m] \/ h[m] = None
<1> DEFINE others == Hinted(hint) \ {n}
           seqs == {hint[m].seq : m \in others} \cup {0}
           last == Max(seqs)
           mine == [conv |-> Home[s], seq |-> last + 1, writer |-> s]
           new == [hint EXCEPT ![n] = mine]
           own == KeepNewest(new, Of(new, Home[s]), PerConversation)
           h == KeepNewest(own, Hinted(own), Rows)
<1>0. Home[s] \in Range(Home) /\ PerConversation \in Nat \ {0} /\ Rows \in Nat \ {0}
  BY ThreadsAssumption DEF ThreadsAssumption, Range
<1>1. last \in Nat /\ \A m \in others : hint[m].seq <= last
  <2>1. seqs \in SUBSET Nat /\ seqs # {}
    BY DEF Table, Hinted
  <2>2. IsFiniteSet(seqs)
    <3> DEFINE f == [m \in others |-> hint[m].seq]
    <3>1. IsFiniteSet(others)
      <4>1. others \in SUBSET Name
        BY DEF Hinted
      <4> QED BY <4>1, HintedFinite
    <3> HIDE DEF others
    <3>2. IsFiniteSet({f[m] : m \in others})
      <4>1. DOMAIN f = others /\ f = [m \in others |-> f[m]]
        OBVIOUS
      <4> HIDE DEF f
      <4> QED BY <3>1, <4>1, ImageSize
    <3>3. {f[m] : m \in others} = {hint[m].seq : m \in others}
      OBVIOUS
    <3> QED BY <3>2, <3>3, FS_AddElement
  <2>3. PICK b \in Nat : \A x \in seqs : x <= b
    <3> HIDE DEF seqs
    <3> QED BY <2>1, <2>2, FiniteBounded
  <2>4. last \in seqs /\ \A x \in seqs : x <= last
    <3> HIDE DEF seqs
    <3> QED BY <2>1, <2>3, MaxNat
  <2> HIDE DEF last
  <2> QED BY <2>1, <2>4
<1> HIDE DEF last
<1>2. mine # None /\ mine \in [conv : Range(Home), seq : Nat, writer : Server]
      /\ mine.conv = Home[s] /\ mine.writer = s /\ mine.seq = last + 1
  BY <1>0, <1>1, ThreadsAssumption DEF ThreadsAssumption
<1> HIDE DEF mine
<1>3. /\ new \in Table /\ new[n] = mine /\ \A m \in Name : m # n => new[m] = hint[m]
      /\ Hinted(new) = others \cup {n}
  BY <1>2 DEF Table, Hinted
<1>4. \A m \in others : new[m].seq \in Nat /\ new[m].seq < new[n].seq
  BY <1>1, <1>2, <1>3 DEF Table, Hinted
<1>5. RowidsApart(new)
  <2> SUFFICES ASSUME NEW x \in Hinted(new), NEW y \in Hinted(new), new[x].seq = new[y].seq PROVE x = y
    BY DEF RowidsApart
  <2>1. CASE x \in others /\ y \in others
    BY <1>3, <2>1 DEF RowidsApart, Capped, Hinted
  <2>2. new[n].seq \in Nat
    BY <1>1, <1>2, <1>3
  <2>3. CASE x = n \/ y = n
    <3>1. ASSUME NEW z \in others PROVE new[z].seq # new[n].seq
      <4>1. new[z].seq \in Nat /\ new[z].seq < new[n].seq
        BY <1>4
      <4> QED BY <2>2, <4>1
    <3> QED BY <1>3, <2>3, <3>1
  <2> QED BY <1>3, <2>1, <2>3
<1>6. Of(new, Home[s]) \in SUBSET Hinted(new) /\ n \in Of(new, Home[s])
  BY <1>2, <1>3 DEF Of, Hinted
<1> HIDE DEF new
<1>7. /\ own \in Table /\ Fewer(own, new)
      /\ Cardinality(Hinted(own) \cap Of(new, Home[s])) <= PerConversation
      /\ own[n] = new[n]
  <2>1. \A m \in Of(new, Home[s]) \ {n} : new[m].seq < new[n].seq
    BY <1>3, <1>4 DEF Of
  <2> HIDE DEF own
  <2>2. own = KeepNewest(new, Of(new, Home[s]), PerConversation)
    BY DEF own
  <2>3. Kept(own, new, Of(new, Home[s]), PerConversation)
    BY <1>0, <1>3, <1>5, <1>6, <2>2, KeepNewestEffect
  <2> QED BY <1>6, <2>1, <2>3 DEF Kept
<1> HIDE DEF own
<1>8. RowidsApart(own) /\ Hinted(own) \subseteq Hinted(new) /\ \A c : Of(own, c) \subseteq Of(new, c)
  BY <1>5, <1>7, FewerCapped
<1>9. /\ h \in Table /\ Fewer(h, own) /\ Cardinality(Hinted(h) \cap Hinted(own)) <= Rows
      /\ h[n] = own[n]
  <2>1. n \in Hinted(own) /\ \A m \in Hinted(own) \ {n} : own[m].seq < own[n].seq
    <3>1. n \in Hinted(own)
      BY <1>2, <1>3, <1>7 DEF Hinted
    <3>2. ASSUME NEW m \in Hinted(own) \ {n} PROVE own[m].seq < own[n].seq
      <4>1. m \in others /\ own[m] = new[m]
        BY <1>3, <1>7, <1>8 DEF Fewer, Hinted
      <4> QED BY <1>4, <1>7, <4>1
    <3> QED BY <3>1, <3>2
  <2> HIDE DEF h
  <2>2. h = KeepNewest(own, Hinted(own), Rows)
    BY DEF h
  <2>3. Kept(h, own, Hinted(own), Rows)
    <3>1. Hinted(own) \in SUBSET Hinted(own)
      OBVIOUS
    <3> QED BY <1>0, <1>7, <1>8, <2>2, <3>1, KeepNewestEffect
  <2> QED BY <2>1, <2>3 DEF Kept
<1> HIDE DEF h
<1>10. /\ RowidsApart(h) /\ Hinted(h) \subseteq Hinted(own)
       /\ \A c : Of(h, c) \subseteq Of(own, c)
       /\ \A c : Cardinality(Of(h, c)) <= Cardinality(Of(own, c))
  BY <1>8, <1>9, FewerCapped
<1>11. Cardinality(Hinted(h)) <= Rows
  <2>1. Hinted(h) \cap Hinted(own) = Hinted(h)
    BY <1>10
  <2> QED BY <1>9, <2>1
<1>12. ASSUME NEW t \in Server PROVE Cardinality(Of(h, Home[t])) <= PerConversation
  <2>0. /\ Of(h, Home[t]) \in SUBSET Name /\ Of(own, Home[t]) \in SUBSET Name
        /\ Of(hint, Home[t]) \in SUBSET Name
    BY DEF Of, Hinted
  <2>1. Cardinality(Of(own, Home[t])) <= PerConversation
    <3>1. CASE Home[t] = Home[s]
      <4>1. Hinted(own) \cap Of(new, Home[s]) = Of(own, Home[s])
        BY <1>7 DEF Fewer, Of, Hinted
      <4> QED BY <1>7, <3>1, <4>1
    <3>2. CASE Home[t] # Home[s]
      <4>1. Of(own, Home[t]) \in SUBSET Of(hint, Home[t])
        BY <1>2, <1>3, <1>8, <3>2 DEF Of, Hinted
      <4>2. Cardinality(Of(hint, Home[t])) <= PerConversation
        BY DEF Capped, Within
      <4> QED BY <1>0, <2>0, <4>1, <4>2, HintedFinite
    <3> QED BY <3>1, <3>2
  <2>2. Cardinality(Of(h, Home[t])) \in Nat /\ Cardinality(Of(own, Home[t])) \in Nat
    BY <2>0, HintedFinite
  <2> QED BY <1>0, <1>10, <2>1, <2>2
<1>13. Capped(h)
  BY <1>10, <1>11, <1>12 DEF Capped, Within
<1>14. \A m \in Name : m # n => h[m] = hint[m] \/ h[m] = None
  BY <1>3, <1>7, <1>9 DEF Fewer
<1>15. h[n] # None /\ h[n].conv = Home[s] /\ h[n].writer = s
  BY <1>2, <1>3, <1>7, <1>9
<1>16. h = Recorded(s, n)
  BY DEF h, own, new, mine, last, Recorded
<1> QED BY <1>9, <1>13, <1>14, <1>15, <1>16

----------------------------------------------------------------------------
(* Every step keeps the invariant. *)

(* The part of TypeOK that is about the domains of the variables. *)
Domains ==
  /\ side \in {"codex", "claude"} /\ gone \subseteq Server
  /\ row \in [Server -> SUBSET Name] /\ bind \in [Name -> Binding \cup {None}]
  /\ hint \in [Name -> [conv : Range(Home), seq : Nat, writer : Server] \cup {None}]
  /\ claims \in [Server -> Seq(Name)] /\ restored \in [Server -> SUBSET Name]
  /\ stopped \in [Server -> BOOLEAN]
  /\ attempt \in [Server -> [due : SUBSET Candidate, cursor : Nat \cup {None}] \cup {None}]
  /\ cursor \in [Server -> Nat \cup {None}]
  /\ note \in [Server -> [what : {"record", "forget"}, name : Name] \cup {None}]
  /\ asks \in 0 .. MaxAsks
  /\ gaveUp \in [Name -> SUBSET Range(Home)] /\ excused \subseteq Name

LEMMA InductiveParts ==
  /\ Inductive <=> /\ Domains /\ ListsOK /\ OrderKept /\ WriterLists /\ GivenUp
                   /\ Alone /\ Surveyed /\ Noting /\ Advised
  /\ Inductive' <=> /\ Domains' /\ ListsOK' /\ OrderKept' /\ WriterLists' /\ GivenUp'
                    /\ Alone' /\ Surveyed' /\ Noting' /\ Advised'
<1>1. (TypeOK <=> Domains /\ ListsOK) /\ (TypeOK' <=> Domains' /\ ListsOK')
  BY DEF TypeOK, Domains, ListsOK
<1> QED BY <1>1, BoundParts DEF Inductive

LEMMA AskTyped ==
  ASSUME ThreadsAssumption, asks \in 0 .. MaxAsks, Ask
  PROVE  asks' \in 0 .. MaxAsks
BY DEF Ask, ThreadsAssumption

(* After a claim or a release of n by s, the hint is the only one of s that *)
(* waits, and on other names and other servers nothing has changed.         *)
LEMMA NotedEffect ==
  ASSUME ThreadsAssumption, Inductive, NEW s \in Server \ gone, NEW n \in Name,
         NEW what \in {"record", "forget"}, note[s] = None,
         note' = Noted(s, what, n), gone' = gone, side' = side,
         hint' = hint, excused' = excused,
         \A t \in Server : t # s => Listed(t)' = Listed(t),
         \A m \in Name : m # n => (m \in Listed(s)' <=> m \in Listed(s)),
         what = "record" <=> n \in Listed(s)'
  PROVE  /\ note' \in [Server -> [what : {"record", "forget"}, name : Name] \cup {None}]
         /\ Noting' /\ Advised'
<1>0. /\ note \in [Server -> [what : {"record", "forget"}, name : Name] \cup {None}]
      /\ None \notin [what : {"record", "forget"}, name : Name]
      /\ side \in {"codex", "claude"}
  BY DEF Inductive, TypeOK, ThreadsAssumption
<1>1. Noting /\ Advised
  BY DEF Inductive
<1>2. CASE side = "claude"
  <2> DEFINE new == [what |-> what, name |-> n]
  <2>1. new \in [what : {"record", "forget"}, name : Name] /\ new # None
        /\ new.what = what /\ new.name = n
    BY <1>0
  <2>2. note' = [note EXCEPT ![s] = new]
    BY <1>2 DEF Noted
  <2> HIDE DEF new
  <2>3. note'[s] = new /\ \A t \in Server : t # s => note'[t] = note[t]
    BY <1>0, <2>2
  <2>4. note' \in [Server -> [what : {"record", "forget"}, name : Name] \cup {None}]
    BY <1>0, <2>1, <2>2
  <2>5. Noting'
    <3>1. ASSUME NEW t \in Server, note'[t] # None
          PROVE  /\ t \notin gone /\ side = "claude"
                 /\ note'[t].what = "record" <=> note'[t].name \in Listed(t)'
      <4>1. CASE t = s
        BY <1>2, <2>1, <2>3, <4>1
      <4>2. CASE t # s
        BY <1>1, <2>3, <3>1, <4>2 DEF Noting
      <4> QED BY <4>1, <4>2
    <3> QED BY <3>1 DEF Noting
  <2>6. Advised'
    <3>1. ASSUME NEW t \in Server \ gone, NEW m \in Name \ excused,
                 note'[t] = None \/ note'[t].name # m
          PROVE  m \in Listed(t)' <=> WrittenBy(hint, t, m)
      <4>1. CASE t = s
        <5>1. m # n
          BY <2>1, <2>3, <3>1, <4>1
        <5>2. m \in Listed(s) <=> WrittenBy(hint, s, m)
          BY <1>1, <1>2 DEF Advised
        <5> QED BY <4>1, <5>1, <5>2
      <4>2. CASE t # s
        BY <1>1, <1>2, <2>3, <3>1, <4>2 DEF Advised
      <4> QED BY <4>1, <4>2
    <3> QED BY <3>1 DEF Advised
  <2> QED BY <2>4, <2>5, <2>6
<1>3. CASE side = "codex"
  <2>1. note' = note
    BY <1>3 DEF Noted
  <2>2. \A t \in Server : note[t] = None
    BY <1>1, <1>3 DEF Noting
  <2> QED BY <1>0, <1>3, <2>1, <2>2 DEF Noting, Advised
<1> QED BY <1>0, <1>2, <1>3

LEMMA ClaimKeeps ==
  ASSUME ThreadsAssumption, Inductive, NEW s \in Server, NEW n \in Name, NEW attributed, NEW unsure,
         Claim(s, n, attributed, unsure)
  PROVE  Inductive'
<1>0. PICK list, back : s \in Server \ gone /\ Took(s, {n}, list, back)
  BY ClaimTakes
<1>1. /\ claims' \in [Server -> Seq(Name)] /\ restored' \in [Server -> SUBSET Name]
      /\ row' \in [Server -> SUBSET Name]
      /\ ListsOK' /\ OrderKept' /\ WriterLists' /\ Alone'
      /\ Listed(s)' = Listed(s) \cup {n}
      /\ \A t \in Server : t # s => Listed(t)' = Listed(t)
  BY <1>0, TookKeeps
<1>2. /\ bind' \in [Name -> Binding \cup {None}]
      /\ \A m \in Name \ {n} : /\ bind'[m] = None <=> bind[m] = None
                               /\ bind[m] # None => bind'[m].thread = bind[m].thread
  BY <1>0 DEF Took
<1>3. /\ note[s] = None /\ note' = Noted(s, "record", n) /\ Ask
      /\ gaveUp' = IF bind'[n] # None THEN [gaveUp EXCEPT ![n] = {}] ELSE gaveUp
      /\ UNCHANGED <<side, gone, hint, stopped, attempt, cursor, excused>>
  BY DEF Claim, Free
<1>4. Domains /\ GivenUp /\ Surveyed
  BY InductiveParts
<1>5. /\ note' \in [Server -> [what : {"record", "forget"}, name : Name] \cup {None}]
      /\ Noting' /\ Advised'
  <2>1. \A m \in Name : m # n => (m \in Listed(s)' <=> m \in Listed(s))
    BY <1>1
  <2>2. n \in Listed(s)'
    BY <1>1
  <2> QED BY <1>0, <1>1, <1>3, <2>1, <2>2, NotedEffect
<1>6. Domains'
  <2>1. asks' \in 0 .. MaxAsks
    BY <1>3, <1>4, AskTyped DEF Domains
  <2>2. gaveUp' \in [Name -> SUBSET Range(Home)]
    BY <1>3, <1>4 DEF Domains
  <2> QED BY <1>1, <1>2, <1>3, <1>4, <1>5, <2>1, <2>2 DEF Domains
<1>7. GivenUp'
  <2>1. ASSUME NEW m \in Name, bind'[m] # None PROVE bind'[m].thread \notin gaveUp'[m]
    <3>1. CASE m = n
      <4>1. gaveUp'[n] = {}
        BY <1>3, <1>4, <2>1, <3>1 DEF Domains
      <4> QED BY <3>1, <4>1
    <3>2. CASE m # n
      <4>1. gaveUp'[m] = gaveUp[m]
        BY <1>3, <1>4, <3>2 DEF Domains
      <4> QED BY <1>2, <1>4, <2>1, <3>2, <4>1 DEF GivenUp
    <3> QED BY <3>1, <3>2
  <2> QED BY <2>1 DEF GivenUp
<1>8. Surveyed'
  BY <1>3, <1>4 DEF Surveyed
<1> QED BY <1>1, <1>5, <1>6, <1>7, <1>8, InductiveParts

LEMMA RestoreKeeps ==
  ASSUME ThreadsAssumption, Inductive, NEW s \in Server, NEW unsure, Restore(s, unsure)
  PROVE  Inductive'
<1>a. PICK N : N = Accepted(s, attempt[s].due, unsure)
  OBVIOUS
<1>b. PICK M : M = N \ Listed(s)
  OBVIOUS
<1>0. PICK list : s \in Server \ gone /\ Took(s, N, list, restored[s] \cup M)
  BY <1>a, <1>b, RestoreTakes
<1>1. /\ claims' \in [Server -> Seq(Name)] /\ restored' \in [Server -> SUBSET Name]
      /\ row' \in [Server -> SUBSET Name]
      /\ ListsOK' /\ OrderKept' /\ WriterLists' /\ Alone'
      /\ Listed(s)' = Listed(s) \cup N
      /\ \A t \in Server : t # s => Listed(t)' = Listed(t)
  BY <1>0, TookKeeps
<1>2. /\ bind' \in [Name -> Binding \cup {None}]
      /\ \A m \in Name \ N : /\ bind'[m] = None <=> bind[m] = None
                             /\ bind[m] # None => bind'[m].thread = bind[m].thread
      /\ \A m \in N : bind'[m] # None => bind'[m].thread = Home[s]
  BY <1>0 DEF Took
<1>3. /\ attempt[s] # None /\ side = "codex"
      /\ attempt' = [attempt EXCEPT ![s] = None]
      /\ cursor' = [cursor EXCEPT ![s] = attempt[s].cursor]
      /\ UNCHANGED <<side, gone, hint, stopped, note, asks, gaveUp, excused>>
  BY DEF Restore, Serving
<1>4. Domains /\ GivenUp /\ Surveyed /\ Noting
  BY InductiveParts
<1>5. Domains'
  <2>1. attempt[s].cursor \in Nat \cup {None}
    BY <1>3, <1>4 DEF Domains
  <2> QED BY <1>1, <1>2, <1>3, <1>4, <2>1 DEF Domains
<1>6. GivenUp'
  <2>1. \A m \in N : bind[m] # None /\ bind[m].thread = Home[s]
    <3>1. Acceptable(s, unsure, N)
      BY <1>a, <1>3, AcceptedEffect
    <3>2. \A m \in N : bind[m] \in Binding /\ bind[m].thread = Home[s]
      BY <3>1 DEF Acceptable
    <3>3. None \notin Binding
      BY DEF ThreadsAssumption, Binding
    <3> QED BY <3>2, <3>3
  <2> QED BY <1>2, <1>3, <1>4, <2>1 DEF GivenUp
<1>7. Surveyed'
  BY <1>3, <1>4 DEF Surveyed, Domains
<1>8. \A t \in Server : note'[t] = None
  BY <1>3, <1>4 DEF Noting
<1>9. Noting' /\ Advised'
  BY <1>3, <1>8 DEF Noting, Advised
<1> QED BY <1>1, <1>5, <1>6, <1>7, <1>9, InductiveParts

LEMMA ReleaseKeeps ==
  ASSUME ThreadsAssumption, Inductive, NEW s \in Server, NEW n \in Name, Release(s, n)
  PROVE  Inductive'
<1> DEFINE list == RemoveFirst(claims[s], n)
<1>1. /\ s \in Server \ gone /\ note[s] = None /\ Ask /\ n \in Listed(s)
      /\ row' = [row EXCEPT ![s] = @ \ {n}]
      /\ bind' = Withdraw(s, n)
      /\ claims' = [claims EXCEPT ![s] = list]
      /\ restored' = [restored EXCEPT ![s] = @ \ {n}]
      /\ note' = Noted(s, "forget", n)
      /\ gaveUp' = [gaveUp EXCEPT ![n] = @ \cup {Home[s]}]
      /\ UNCHANGED <<side, gone, hint, stopped, attempt, cursor, excused>>
  BY DEF Release, Free
<1>2. Domains /\ ListsOK /\ WriterLists /\ GivenUp /\ Alone /\ Surveyed
  BY InductiveParts
<1>3. Apart(bind, Name) /\ \A t \in Server \ gone : Ordered(bind, t, claims[t], restored[t])
  BY OrderKeptParts DEF Inductive
<1>4. /\ list \in Seq(Name) /\ Len(list) <= Len(claims[s]) /\ IsInjective(list)
      /\ ToSet(list) = Listed(s) \ {n}
      /\ \A k, m \in DOMAIN list : k < m =>
           \E i, j \in DOMAIN claims[s] : i < j /\ list[k] = claims[s][i] /\ list[m] = claims[s][j]
  <2>1. claims[s] \in Seq(Name) /\ IsInjective(claims[s]) /\ n \in ToSet(claims[s])
    BY <1>1, <1>2 DEF Domains, ListsOK, Listed
  <2>2. list = RemoveFirst(claims[s], n)
    OBVIOUS
  <2> HIDE DEF list
  <2>3. /\ list \in Seq(Name) /\ Len(list) <= Len(claims[s]) /\ IsInjective(list)
        /\ ToSet(list) = ToSet(claims[s]) \ {n}
        /\ \A k, m \in DOMAIN list : k < m =>
             \E i, j \in DOMAIN claims[s] : i < j /\ list[k] = claims[s][i] /\ list[m] = claims[s][j]
    BY <2>1, <2>2, RemovedName, SMTT(30)
  <2> QED BY <2>3 DEF Listed
<1> HIDE DEF list
<1>5. /\ claims'[s] = list /\ restored'[s] = restored[s] \ {n} /\ row'[s] = row[s] \ {n}
      /\ \A t \in Server : t # s =>
           claims'[t] = claims[t] /\ restored'[t] = restored[t] /\ row'[t] = row[t]
  BY <1>1, <1>2 DEF Domains
<1>6. /\ Listed(s)' = Listed(s) \ {n}
      /\ \A t \in Server : t # s => Listed(t)' = Listed(t)
  BY <1>4, <1>5 DEF Listed
<1>7. bind'[n] = None /\ \A m \in Name : m # n => bind'[m] = bind[m]
  <2>1. bind[n] # None => bind[n].writer = s
    BY <1>1, <1>2 DEF WriterLists
  <2> QED BY <1>1, <1>2, <2>1 DEF Withdraw, Domains
<1>8. bind' \in [Name -> Binding \cup {None}]
  BY <1>1, <1>2 DEF Withdraw, Domains
<1>9. ListsOK'
  <2>1. ASSUME NEW t \in Server
        PROVE  /\ Len(claims'[t]) <= MaxClaims /\ IsInjective(claims'[t])
               /\ restored'[t] \subseteq Listed(t)'
               /\ t \notin gone => Listed(t)' = row'[t]
    <3>1. /\ Len(claims[t]) <= MaxClaims /\ IsInjective(claims[t])
          /\ restored[t] \subseteq Listed(t)
          /\ t \notin gone => Listed(t) = row[t]
      BY <1>2 DEF ListsOK
    <3>2. CASE t = s
      <4>1. Len(list) <= MaxClaims
        <5>1. Len(list) \in Nat /\ Len(claims[s]) \in Nat /\ MaxClaims \in Nat
          BY <1>2, <1>4, LenProperties DEF Domains, ThreadsAssumption
        <5> QED BY <1>4, <3>1, <3>2, <5>1
      <4> QED BY <1>4, <1>5, <1>6, <3>1, <3>2, <4>1
    <3>3. CASE t # s
      BY <1>5, <1>6, <3>1, <3>3
    <3> QED BY <3>2, <3>3
  <2> QED BY <1>1, <2>1 DEF ListsOK
<1>10. OrderKept'
  <2>1. \A m \in Name : bind'[m] = bind[m] \/ bind'[m] = None
    BY <1>7
  <2>2. ASSUME NEW t \in Server \ gone PROVE Ordered(bind, t, claims'[t], restored'[t])
    <3>1. CASE t = s
      <4>1. Ordered(bind, s, claims[s], restored[s])
        BY <1>1, <1>3
      <4>2. \A k \in DOMAIN list : list[k] \in Listed(s) \ {n}
        BY <1>4 DEF ToSet
      <4>3. Ordered(bind, s, list, restored[s] \ {n})
        <5> SUFFICES ASSUME NEW k \in DOMAIN list, NEW m \in DOMAIN list, k < m
                     PROVE  /\ {list[k], list[m]} \subseteq Own(bind, s) =>
                                 bind[list[k]].seq < bind[list[m]].seq
                            /\ list[m] \in restored[s] \ {n} => list[k] \in restored[s] \ {n}
          BY DEF Ordered
        <5>1. PICK i \in DOMAIN claims[s], j \in DOMAIN claims[s] :
                i < j /\ list[k] = claims[s][i] /\ list[m] = claims[s][j]
          BY <1>4
        <5>2. list[k] # n
          BY <4>2
        <5> QED BY <4>1, <5>1, <5>2 DEF Ordered
      <4> QED BY <1>5, <3>1, <4>3
    <3>2. CASE t # s
      BY <1>3, <1>5, <3>2
    <3> QED BY <3>1, <3>2
  <2>3. \A t \in Server \ gone : Ordered(bind', t, claims'[t], restored'[t])
    BY <2>1, <2>2, Dropping
  <2>4. Apart(bind', Name)
    BY <1>3, <2>1, Dropping
  <2> QED BY <1>1, <2>3, <2>4, OrderKeptPartsNext
<1>11. WriterLists'
  <2>1. ASSUME NEW m \in Name, bind'[m] # None PROVE bind'[m].thread = Home[bind'[m].writer]
    BY <1>2, <1>7, <2>1 DEF WriterLists
  <2>2. ASSUME NEW t \in Server \ gone, NEW m \in Name, bind'[m] # None
        PROVE  bind'[m].writer = t <=> m \in Listed(t)'
    BY <1>2, <1>6, <1>7, <2>2 DEF WriterLists
  <2> QED BY <1>1, <2>1, <2>2 DEF WriterLists
<1>12. GivenUp'
  <2>1. \A m \in Name : m # n => gaveUp'[m] = gaveUp[m]
    BY <1>1, <1>2 DEF Domains
  <2> QED BY <1>2, <1>7, <2>1 DEF GivenUp
<1>13. Alone'
  <2>1. \A t \in Server : Listed(t)' \subseteq Listed(t)
    BY <1>6
  <2> QED BY <1>1, <1>2, <2>1 DEF Alone
<1>14. Surveyed'
  BY <1>1, <1>2 DEF Surveyed
<1>15. /\ note' \in [Server -> [what : {"record", "forget"}, name : Name] \cup {None}]
       /\ Noting' /\ Advised'
  <2>1. \A m \in Name : m # n => (m \in Listed(s)' <=> m \in Listed(s))
    BY <1>6
  <2>2. ~(n \in Listed(s)') /\ "forget" # "record"
    BY <1>6
  <2> QED BY <1>1, <1>6, <2>1, <2>2, NotedEffect
<1>16. Domains'
  <2>1. asks' \in 0 .. MaxAsks
    BY <1>1, <1>2, AskTyped DEF Domains
  <2>2. gaveUp' \in [Name -> SUBSET Range(Home)]
    <3>1. Home[s] \in Range(Home)
      BY DEF ThreadsAssumption, Range
    <3> QED BY <1>1, <1>2, <3>1 DEF Domains
  <2>3. claims' \in [Server -> Seq(Name)] /\ restored' \in [Server -> SUBSET Name]
        /\ row' \in [Server -> SUBSET Name]
    BY <1>1, <1>2, <1>4 DEF Domains
  <2> QED BY <1>1, <1>2, <1>8, <1>15, <2>1, <2>2, <2>3 DEF Domains
<1> QED BY <1>9, <1>10, <1>11, <1>12, <1>13, <1>14, <1>15, <1>16, InductiveParts

LEMMA DismissKeeps ==
  ASSUME ThreadsAssumption, Inductive, NEW s \in Server, NEW n \in Name, Dismiss(s, n)
  PROVE  Inductive'
<1>1. /\ s \in Server \ gone /\ Ask /\ n \notin Listed(s)
      /\ bind' = IF bind[n] # None /\ bind[n].thread = Home[s] THEN [bind EXCEPT ![n] = None] ELSE bind
      /\ hint' = IF hint[n] # None /\ hint[n].conv = Home[s] THEN [hint EXCEPT ![n] = None] ELSE hint
      /\ gaveUp' = [gaveUp EXCEPT ![n] = @ \cup {Home[s]}]
      /\ excused' = IF hint' # hint THEN excused \cup {n} ELSE excused
      /\ UNCHANGED <<side, gone, row, claims, restored, stopped, attempt, cursor, note>>
  BY DEF Dismiss, Free
<1>2. Domains /\ ListsOK /\ WriterLists /\ GivenUp /\ Alone /\ Surveyed /\ Noting /\ Advised
  BY InductiveParts
<1>3. Apart(bind, Name) /\ \A t \in Server \ gone : Ordered(bind, t, claims[t], restored[t])
  BY OrderKeptParts DEF Inductive
<1>4. \A t \in Server : Listed(t)' = Listed(t)
  BY <1>1 DEF Listed
<1>5. /\ \A m \in Name : bind'[m] = bind[m] \/ bind'[m] = None
      /\ bind'[n] # None => bind'[n].thread # Home[s]
      /\ bind' \in [Name -> Binding \cup {None}]
  BY <1>1, <1>2 DEF Domains
<1>6. ListsOK' /\ Alone' /\ Surveyed' /\ Noting'
  BY <1>1, <1>2, <1>4 DEF ListsOK, Alone, Surveyed, Noting
<1>7. WriterLists'
  BY <1>1, <1>2, <1>4, <1>5 DEF WriterLists
<1>8. OrderKept'
  <2>1. \A t \in Server \ gone : Ordered(bind', t, claims[t], restored[t])
    BY <1>3, <1>5, Dropping
  <2>2. Apart(bind', Name)
    BY <1>3, <1>5, Dropping
  <2> QED BY <1>1, <2>1, <2>2, OrderKeptPartsNext
<1>9. GivenUp'
  <2>1. /\ \A m \in Name : m # n => gaveUp'[m] = gaveUp[m]
        /\ gaveUp'[n] = gaveUp[n] \cup {Home[s]}
    BY <1>1, <1>2 DEF Domains
  <2>2. ASSUME NEW m \in Name, bind'[m] # None PROVE bind'[m].thread \notin gaveUp'[m]
    <3>1. bind'[m] = bind[m] /\ bind[m].thread \notin gaveUp[m]
      BY <1>2, <1>5, <2>2 DEF GivenUp
    <3>2. CASE m = n
      BY <1>5, <2>1, <2>2, <3>1, <3>2
    <3>3. CASE m # n
      BY <2>1, <3>1, <3>3
    <3> QED BY <3>2, <3>3
  <2> QED BY <2>2 DEF GivenUp
<1>10. Advised'
  <2>1. ASSUME NEW m \in Name \ excused' PROVE m \notin excused /\ hint'[m] = hint[m]
    <3>1. CASE hint' = hint
      BY <1>1, <2>1, <3>1
    <3>2. CASE hint' # hint
      <4>1. hint' = [hint EXCEPT ![n] = None] /\ excused' = excused \cup {n}
        BY <1>1, <3>2
      <4> QED BY <1>2, <2>1, <4>1 DEF Domains
    <3> QED BY <3>1, <3>2
  <2>2. excused \subseteq excused'
    BY <1>1
  <2> QED BY <1>1, <1>2, <1>4, <2>1 DEF Advised, WrittenBy
<1>11. Domains'
  <2>1. asks' \in 0 .. MaxAsks
    BY <1>1, <1>2, AskTyped DEF Domains
  <2>2. gaveUp' \in [Name -> SUBSET Range(Home)]
    <3>1. Home[s] \in Range(Home)
      BY DEF ThreadsAssumption, Range
    <3> QED BY <1>1, <1>2, <3>1 DEF Domains
  <2>3. hint' \in [Name -> [conv : Range(Home), seq : Nat, writer : Server] \cup {None}]
    BY <1>1, <1>2 DEF Domains
  <2>4. excused' \subseteq Name
    BY <1>1, <1>2 DEF Domains
  <2> QED BY <1>1, <1>2, <1>5, <2>1, <2>2, <2>3, <2>4 DEF Domains
<1> QED BY <1>6, <1>7, <1>8, <1>9, <1>10, <1>11, InductiveParts

LEMMA DieKeeps ==
  ASSUME ThreadsAssumption, Inductive, NEW s \in Server, Die(s)
  PROVE  Inductive'
<1>1. /\ s \notin gone /\ gone' = gone \cup {s}
      /\ claims' = [claims EXCEPT ![s] = <<>>] /\ restored' = [restored EXCEPT ![s] = {}]
      /\ stopped' = [stopped EXCEPT ![s] = FALSE]
      /\ attempt' = [attempt EXCEPT ![s] = None] /\ cursor' = [cursor EXCEPT ![s] = None]
      /\ note' = [note EXCEPT ![s] = None]
      /\ UNCHANGED <<side, row, bind, hint, asks, gaveUp, excused>>
  BY DEF Die
<1>2. Domains /\ ListsOK /\ WriterLists /\ GivenUp /\ Alone /\ Surveyed /\ Noting /\ Advised
  BY InductiveParts
<1>3. Apart(bind, Name) /\ \A t \in Server \ gone : Ordered(bind, t, claims[t], restored[t])
  BY OrderKeptParts DEF Inductive
<1>4. /\ \A t \in Server : t # s =>
           /\ claims'[t] = claims[t] /\ restored'[t] = restored[t]
           /\ attempt'[t] = attempt[t] /\ note'[t] = note[t] /\ Listed(t)' = Listed(t)
      /\ claims'[s] = <<>> /\ restored'[s] = {} /\ attempt'[s] = None /\ note'[s] = None
  BY <1>1, <1>2 DEF Domains, Listed
<1>5. \A t \in Server \ gone' : t \in Server \ gone /\ t # s
  BY <1>1
<1>6. <<>> \in Seq(Name) /\ Len(<<>>) = 0 /\ IsInjective(<<>>)
  BY EmptySeq DEF IsInjective
<1>7. ListsOK'
  <2>1. ASSUME NEW t \in Server
        PROVE  /\ Len(claims'[t]) <= MaxClaims /\ IsInjective(claims'[t])
               /\ restored'[t] \subseteq Listed(t)'
               /\ t \notin gone' => Listed(t)' = row'[t]
    <3>1. CASE t = s
      <4>1. 0 <= MaxClaims
        BY DEF ThreadsAssumption
      <4> QED BY <1>1, <1>4, <1>6, <3>1, <4>1
    <3>2. CASE t # s
      BY <1>1, <1>2, <1>4, <3>2 DEF ListsOK
    <3> QED BY <3>1, <3>2
  <2> QED BY <2>1 DEF ListsOK
<1>8. OrderKept'
  <2>1. \A t \in Server \ gone' : Ordered(bind', t, claims'[t], restored'[t])
    BY <1>1, <1>3, <1>4, <1>5
  <2> QED BY <1>1, <1>3, <2>1, OrderKeptPartsNext
<1>9. WriterLists' /\ GivenUp' /\ Alone'
  BY <1>1, <1>2, <1>4, <1>5 DEF WriterLists, GivenUp, Alone
<1>10. Surveyed'
  BY <1>1, <1>2, <1>4 DEF Surveyed
<1>11. Noting'
  BY <1>1, <1>2, <1>4 DEF Noting
<1>12. Advised'
  BY <1>1, <1>2, <1>4, <1>5 DEF Advised
<1>13. Domains'
  <2>1. claims' \in [Server -> Seq(Name)]
    BY <1>1, <1>2, <1>6 DEF Domains
  <2> QED BY <1>1, <1>2, <2>1 DEF Domains
<1> QED BY <1>7, <1>8, <1>9, <1>10, <1>11, <1>12, <1>13, InductiveParts

LEMMA SecondThreadKeeps ==
  ASSUME ThreadsAssumption, Inductive, NEW s \in Server, SecondThread(s)
  PROVE  Inductive'
<1>1. /\ stopped' = [stopped EXCEPT ![s] = TRUE]
      /\ UNCHANGED <<side, gone, row, bind, hint, claims, restored, attempt, cursor, note, asks,
                     gaveUp, excused>>
  BY DEF SecondThread
<1>2. Domains /\ GivenUp /\ Surveyed /\ Noting /\ Advised
  BY InductiveParts
<1>3. ListsOK' /\ OrderKept' /\ WriterLists' /\ Alone' /\ \A t \in Server : Listed(t)' = Listed(t)
  BY <1>1, SameLists
<1>4. Domains' /\ GivenUp' /\ Surveyed'
  BY <1>1, <1>2 DEF Domains, GivenUp, Surveyed
<1>5. Noting' /\ Advised'
  BY <1>1, <1>2, <1>3 DEF Noting, Advised
<1> QED BY <1>3, <1>4, <1>5, InductiveParts

LEMMA AbandonKeeps ==
  ASSUME ThreadsAssumption, Inductive, NEW s \in Server, Abandon(s)
  PROVE  Inductive'
<1>1. /\ attempt' = [attempt EXCEPT ![s] = None]
      /\ UNCHANGED <<side, gone, row, bind, hint, claims, restored, stopped, cursor, note, asks,
                     gaveUp, excused>>
  BY DEF Abandon
<1>2. Domains /\ GivenUp /\ Surveyed /\ Noting /\ Advised
  BY InductiveParts
<1>3. ListsOK' /\ OrderKept' /\ WriterLists' /\ Alone' /\ \A t \in Server : Listed(t)' = Listed(t)
  BY <1>1, SameLists
<1>4. Domains' /\ GivenUp' /\ Surveyed'
  BY <1>1, <1>2 DEF Domains, GivenUp, Surveyed
<1>5. Noting' /\ Advised'
  BY <1>1, <1>2, <1>3 DEF Noting, Advised
<1> QED BY <1>3, <1>4, <1>5, InductiveParts

LEMMA SurveyKeeps ==
  ASSUME ThreadsAssumption, Inductive, NEW s \in Server, NEW unsure, Survey(s, unsure)
  PROVE  Inductive'
<1>a. PICK page : page = Paged(s)
  OBVIOUS
<1>b. PICK due : due = {n \in page : Due(s, n, unsure)}
  OBVIOUS
<1> DEFINE found == [due |-> {[name |-> n, was |-> bind[n]] : n \in due}, cursor |-> NextCursor(page)]
<1>1. /\ s \notin gone /\ side = "codex"
      /\ IF due = {}
         THEN cursor' = [cursor EXCEPT ![s] = NextCursor(page)] /\ UNCHANGED attempt
         ELSE attempt' = [attempt EXCEPT ![s] = found] /\ UNCHANGED cursor
      /\ UNCHANGED <<side, gone, row, bind, hint, claims, restored, stopped, note, asks, gaveUp, excused>>
  BY <1>a, <1>b DEF Survey, Serving
<1>2. Domains /\ GivenUp /\ Surveyed /\ Noting /\ Advised
  BY InductiveParts
<1>3. \A n \in page : /\ n \in Name /\ bind[n] \in Binding /\ bind[n].thread = Home[s]
                      /\ bind[n].seq \in Nat
  <2>1. \A n \in page : n \in Name /\ bind[n] # None /\ bind[n].thread = Home[s]
    BY <1>a DEF Paged, Below
  <2>2. \A n \in page : bind[n] \in Binding
    BY <1>2, <2>1 DEF Domains
  <2> QED BY <2>1, <2>2 DEF Binding
<1>4. NextCursor(page) \in Nat \cup {None}
  <2>1. CASE Cardinality(page) < Page
    BY <2>1 DEF NextCursor
  <2>2. CASE ~(Cardinality(page) < Page)
    <3> DEFINE seqs == {bind[n].seq : n \in page}
    <3>1. page # {}
      <4>1. Cardinality({}) = 0 /\ Page \in Nat \ {0}
        BY FS_EmptySet DEF ThreadsAssumption
      <4> QED BY <2>2, <4>1
    <3>2. seqs \in SUBSET Nat /\ seqs # {}
      BY <1>3, <3>1
    <3>3. NextCursor(page) = Min(seqs)
      BY <2>2 DEF NextCursor
    <3> HIDE DEF seqs
    <3> QED BY <3>2, <3>3, MinNat
  <2> QED BY <2>1, <2>2
<1>5. /\ found \in [due : SUBSET Candidate, cursor : Nat \cup {None}]
      /\ \A c \in found.due : c.was.thread = Home[s]
  <2>1. due \subseteq page
    BY <1>b
  <2>2. \A n \in due : [name |-> n, was |-> bind[n]] \in Candidate
    BY <1>3, <2>1 DEF Candidate
  <2>3. found.due = {[name |-> n, was |-> bind[n]] : n \in due} /\ found.cursor = NextCursor(page)
    OBVIOUS
  <2>4. \A c \in found.due : c.was.thread = Home[s]
    BY <1>3, <2>1, <2>3
  <2> QED BY <1>4, <2>2, <2>4
<1> HIDE DEF found
<1>6. ListsOK' /\ OrderKept' /\ WriterLists' /\ Alone' /\ \A t \in Server : Listed(t)' = Listed(t)
  BY <1>1, SameLists
<1>7. attempt' \in [Server -> [due : SUBSET Candidate, cursor : Nat \cup {None}] \cup {None}]
      /\ cursor' \in [Server -> Nat \cup {None}]
  <2>1. /\ attempt \in [Server -> [due : SUBSET Candidate, cursor : Nat \cup {None}] \cup {None}]
        /\ cursor \in [Server -> Nat \cup {None}]
    BY <1>2 DEF Domains
  <2>2. CASE due = {}
    BY <1>1, <1>4, <2>1, <2>2
  <2>3. CASE due # {}
    <3>1. attempt' = [attempt EXCEPT ![s] = found] /\ cursor' = cursor
      BY <1>1, <2>3
    <3>2. found \in [due : SUBSET Candidate, cursor : Nat \cup {None}] \cup {None}
      BY <1>5
    <3> QED BY <2>1, <3>1, <3>2
  <2> QED BY <2>2, <2>3
<1>8. Domains' /\ GivenUp'
  BY <1>1, <1>2, <1>7 DEF Domains, GivenUp
<1>9. Surveyed'
  <2>1. ASSUME NEW t \in Server, attempt'[t] # None
        PROVE  t \notin gone /\ side = "codex" /\ \A c \in attempt'[t].due : c.was.thread = Home[t]
    <3>1. CASE attempt'[t] = attempt[t]
      BY <1>2, <2>1, <3>1 DEF Surveyed
    <3>2. CASE attempt'[t] # attempt[t]
      <4>1. t = s /\ attempt'[t] = found
        BY <1>1, <1>2, <3>2 DEF Domains
      <4> QED BY <1>1, <1>5, <4>1
    <3> QED BY <3>1, <3>2
  <2> QED BY <1>1, <2>1 DEF Surveyed
<1>10. Noting' /\ Advised'
  BY <1>1, <1>2, <1>6 DEF Noting, Advised
<1> QED BY <1>6, <1>8, <1>9, <1>10, InductiveParts

LEMMA WriteHintKeeps ==
  ASSUME ThreadsAssumption, Inductive, Capped(hint), NEW s \in Server, WriteHint(s)
  PROVE  Inductive' /\ Capped(hint')
<1>a. PICK n : n = note[s].name
  OBVIOUS
<1> DEFINE Records == /\ note[s].what = "record"
                      /\ hint' = Recorded(s, n)
                      /\ excused' = (excused \ {n}) \cup (Hinted(hint) \ Hinted(hint'))
           Forgets == /\ note[s].what = "forget"
                      /\ hint' = IF OwnHint(s, n) THEN [hint EXCEPT ![n] = None] ELSE hint
                      /\ excused' = excused
           Fails == excused' = excused \cup {n} /\ hint' = hint
<1>1. /\ note[s] # None /\ note' = [note EXCEPT ![s] = None]
      /\ Records \/ Forgets \/ Fails
      /\ UNCHANGED <<side, gone, row, bind, claims, restored, stopped, attempt, cursor, asks, gaveUp>>
  BY <1>a DEF WriteHint
<1>2. Domains /\ GivenUp /\ Surveyed /\ Noting /\ Advised /\ Alone
  BY InductiveParts
<1>3. ListsOK' /\ OrderKept' /\ WriterLists' /\ Alone' /\ \A t \in Server : Listed(t)' = Listed(t)
  BY <1>1, SameLists
<1>4. /\ s \in Server \ gone /\ side = "claude" /\ n \in Name
      /\ note[s].what = "record" <=> n \in Listed(s)
  <2>1. note[s] \in [what : {"record", "forget"}, name : Name]
    BY <1>1, <1>2 DEF Domains
  <2> QED BY <1>a, <1>1, <1>2, <2>1 DEF Noting
<1>5. note'[s] = None /\ \A t \in Server : t # s => note'[t] = note[t]
  BY <1>1, <1>2 DEF Domains
<1>6. hint \in Table
  BY <1>2 DEF Domains, Table
<1>r. ASSUME Records
      PROVE  /\ hint' \in Table /\ Capped(hint') /\ WrittenBy(hint', s, n)
             /\ \A m \in Name : m # n => hint'[m] = hint[m] \/ hint'[m] = None
  BY <1>4, <1>6, <1>r, RecordedEffect DEF WrittenBy
<1>f. ASSUME Forgets \/ Fails
      PROVE  /\ hint' \in Table /\ Fewer(hint', hint)
             /\ \A m \in Name : m # n => hint'[m] = hint[m]
  <2>1. hint' = [hint EXCEPT ![n] = None] \/ hint' = hint
    BY <1>f
  <2> QED BY <1>4, <1>6, <2>1 DEF Table, Fewer
<1>7. \A m \in Name : m # n /\ m \notin excused' => hint'[m] = hint[m] /\ m \notin excused
  <2>1. CASE Records
    BY <1>r, <2>1 DEF Hinted
  <2>2. CASE Forgets \/ Fails
    BY <1>f, <2>2
  <2> QED BY <1>1, <2>1, <2>2
<1>8. ASSUME NEW t \in Server \ gone, n \notin excused', note'[t] = None \/ note'[t].name # n
      PROVE  n \in Listed(t) <=> WrittenBy(hint', t, n)
  <2>1. CASE Records
    <3>1. n \in Listed(s) /\ WrittenBy(hint', s, n)
      BY <1>4, <1>r, <2>1
    <3>2. t # s => n \notin Listed(t)
      BY <1>2, <1>4, <3>1 DEF Alone
    <3> QED BY <3>1, <3>2 DEF WrittenBy
  <2>2. CASE Forgets
    <3>1. n \notin Listed(s) /\ n \notin excused
      BY <1>4, <1>8, <2>2
    <3>2. hint'[n] = IF OwnHint(s, n) THEN None ELSE hint[n]
      BY <1>2, <1>4, <2>2 DEF Domains
    <3>3. CASE t = s
      BY <3>1, <3>2, <3>3 DEF OwnHint, WrittenBy
    <3>4. CASE t # s
      <4>1. note[t] = None \/ note[t].name # n
        BY <1>5, <1>8, <3>4
      <4>2. n \in Listed(t) <=> WrittenBy(hint, t, n)
        BY <1>2, <1>4, <3>1, <4>1 DEF Advised
      <4> QED BY <3>2, <3>4, <4>2 DEF OwnHint, WrittenBy
    <3> QED BY <3>3, <3>4
  <2>3. CASE Fails
    BY <1>8, <2>3
  <2> QED BY <1>1, <2>1, <2>2, <2>3
<1>9. Advised'
  <2>1. ASSUME NEW t \in Server \ gone, NEW m \in Name \ excused', note'[t] = None \/ note'[t].name # m
        PROVE  m \in Listed(t)' <=> WrittenBy(hint', t, m)
    <3>1. CASE m = n
      BY <1>3, <1>8, <2>1, <3>1
    <3>2. CASE m # n
      <4>1. m \notin excused /\ hint'[m] = hint[m]
        BY <1>7, <2>1, <3>2
      <4>2. note[t] = None \/ note[t].name # m
        BY <1>a, <1>5, <2>1, <3>2
      <4>3. m \in Listed(t) <=> WrittenBy(hint, t, m)
        BY <1>2, <1>4, <2>1, <4>1, <4>2 DEF Advised
      <4> QED BY <1>3, <4>1, <4>3 DEF WrittenBy
    <3> QED BY <3>1, <3>2
  <2> QED BY <1>1, <2>1 DEF Advised
<1>10. Noting'
  BY <1>1, <1>2, <1>3, <1>5 DEF Noting
<1>11. Domains'
  <2>1. hint' \in Table
    BY <1>1, <1>r, <1>f
  <2>2. excused' \subseteq Name
    BY <1>1, <1>2, <1>4 DEF Domains, Hinted
  <2>3. note' \in [Server -> [what : {"record", "forget"}, name : Name] \cup {None}]
    BY <1>1, <1>2 DEF Domains
  <2> QED BY <1>1, <1>2, <2>1, <2>2, <2>3 DEF Domains, Table
<1>12. GivenUp' /\ Surveyed'
  BY <1>1, <1>2 DEF GivenUp, Surveyed
<1>13. Capped(hint')
  <2>1. CASE Forgets \/ Fails
    BY <1>f, <2>1, FewerCapped
  <2> QED BY <1>1, <1>r, <2>1
<1> QED BY <1>3, <1>9, <1>10, <1>11, <1>12, <1>13, InductiveParts

(* Only the writing of a hint adds one. *)
LEMMA CapsKept ==
  ASSUME ThreadsAssumption, Inductive, Capped(hint), [Next]_vars
  PROVE  Capped(hint')
<1>0. hint \in Table
  BY InductiveParts DEF Domains, Table
<1>1. ASSUME NEW s \in Server, WriteHint(s) PROVE Capped(hint')
  BY <1>1, WriteHintKeeps
<1>2. ASSUME NEW s \in Server, NEW n \in Name, Dismiss(s, n) PROVE Capped(hint')
  <2>1. hint' = [hint EXCEPT ![n] = None] \/ hint' = hint
    BY <1>2 DEF Dismiss
  <2>2. Fewer(hint', hint)
    BY <1>0, <2>1 DEF Fewer, Table
  <2> QED BY <2>2, FewerCapped
<1>3. CASE hint' = hint
  BY <1>3
<1>4. \/ \E s \in Server : WriteHint(s) \/ \E n \in Name : Dismiss(s, n)
      \/ hint' = hint
  BY DEF Next, vars, Die, SecondThread, Abandon, Release, Claim, Survey, Restore
<1> QED BY <1>1, <1>2, <1>3, <1>4

LEMMA InitHolds ==
  ASSUME ThreadsAssumption, Init
  PROVE  Inductive /\ Capped(hint)
<1>1. <<>> \in Seq(Name) /\ Len(<<>>) = 0 /\ DOMAIN <<>> = {} /\ 0 <= MaxClaims /\ 0 \in 0 .. MaxAsks
  <2>1. <<>> \in Seq(Name) /\ Len(<<>>) = 0
    BY EmptySeq
  <2>2. DOMAIN <<>> = {}
    BY <2>1, LenProperties
  <2> QED BY <2>1, <2>2 DEF ThreadsAssumption
<1>2. \A s \in Server : /\ claims[s] = <<>> /\ Listed(s) = {} /\ row[s] = {} /\ restored[s] = {}
                        /\ attempt[s] = None /\ note[s] = None
  BY <1>1 DEF Init, Listed, ToSet
<1>3. \A n \in Name : bind[n] = None /\ hint[n] = None
  BY DEF Init
<1>4. Domains
  BY <1>1 DEF Init, Domains
<1>5. ListsOK
  BY <1>1, <1>2 DEF ListsOK, IsInjective
<1>6. OrderKept
  BY <1>1, <1>2, <1>3 DEF OrderKept
<1>7. WriterLists /\ GivenUp
  BY <1>3 DEF WriterLists, GivenUp
<1>8. Alone /\ Surveyed /\ Noting
  BY <1>2 DEF Alone, Surveyed, Noting
<1>9. Advised
  BY <1>2, <1>3 DEF Advised, WrittenBy
<1>10. Capped(hint)
  <2>1. Hinted(hint) = {} /\ \A c : Of(hint, c) = {}
    BY <1>3 DEF Hinted, Of
  <2> QED BY <2>1, FS_EmptySet DEF Capped, RowidsApart, Within, ThreadsAssumption
<1> QED BY <1>4, <1>5, <1>6, <1>7, <1>8, <1>9, <1>10, InductiveParts

LEMMA StepKeeps ==
  ASSUME ThreadsAssumption, Inductive, Capped(hint), [Next]_vars
  PROVE  Inductive'
<1>1. CASE Next
  <2>1. PICK s \in Server :
          \/ Die(s) \/ SecondThread(s) \/ WriteHint(s) \/ Abandon(s)
          \/ \E n \in Name : Release(s, n) \/ Dismiss(s, n)
          \/ \E n \in Name, attributed \in BOOLEAN, unsure \in SUBSET gone : Claim(s, n, attributed, unsure)
          \/ \E unsure \in SUBSET gone : Survey(s, unsure) \/ Restore(s, unsure)
    BY <1>1 DEF Next
  <2>2. CASE Die(s) \/ SecondThread(s) \/ WriteHint(s) \/ Abandon(s)
    BY <2>2, DieKeeps, SecondThreadKeeps, WriteHintKeeps, AbandonKeeps
  <2>3. CASE \E n \in Name : Release(s, n) \/ Dismiss(s, n)
    BY <2>3, ReleaseKeeps, DismissKeeps
  <2>4. CASE \E n \in Name, attributed \in BOOLEAN, unsure \in SUBSET gone : Claim(s, n, attributed, unsure)
    BY <2>4, ClaimKeeps
  <2>5. CASE \E unsure \in SUBSET gone : Survey(s, unsure) \/ Restore(s, unsure)
    BY <2>5, SurveyKeeps, RestoreKeeps
  <2> QED BY <2>1, <2>2, <2>3, <2>4, <2>5
<1>2. CASE UNCHANGED vars
  <2>1. Domains /\ GivenUp /\ Surveyed /\ Noting /\ Advised
    BY InductiveParts
  <2>2. ListsOK' /\ OrderKept' /\ WriterLists' /\ Alone' /\ \A t \in Server : Listed(t)' = Listed(t)
    BY <1>2, SameLists DEF vars
  <2>3. Domains' /\ GivenUp' /\ Surveyed'
    BY <1>2, <2>1 DEF vars, Domains, GivenUp, Surveyed
  <2>4. Noting' /\ Advised'
    BY <1>2, <2>1, <2>2 DEF vars, Noting, Advised
  <2> QED BY <2>2, <2>3, <2>4, InductiveParts
<1> QED BY <1>1, <1>2

----------------------------------------------------------------------------
(* The theorems. *)

LEMMA Invariance == Spec => [](Inductive /\ Capped(hint))
<1>1. Init => Inductive /\ Capped(hint)
  BY ThreadsAssumption, InitHolds
<1>2. Inductive /\ Capped(hint) /\ [Next]_vars => (Inductive /\ Capped(hint))'
  <2> SUFFICES ASSUME Inductive, Capped(hint), [Next]_vars PROVE (Inductive /\ Capped(hint))'
    OBVIOUS
  <2>1. Inductive'
    BY ThreadsAssumption, StepKeeps
  <2>2. Capped(hint')
    BY ThreadsAssumption, CapsKept
  <2>3. Capped(hint)'
    BY <2>2 DEF Capped, RowidsApart, Within, Hinted, Of
  <2> QED BY <2>1, <2>3
<1> QED BY <1>1, <1>2, PTL DEF Spec

(* Every variable keeps to its domain; a server's list holds a name once,  *)
(* never more names than it may, and a live server's rows are the names of *)
(* its list: however claims, releases, deaths, restorations and the        *)
(* writing of hints interleave.                                            *)
THEOREM ListsMatchRows == Spec => []TypeOK
<1>1. Inductive => TypeOK
  BY DEF Inductive
<1> QED BY <1>1, Invariance, PTL

(* A thread's bindings are numbered as the server that wrote them answers   *)
(* to them, and no two alike; what a server was given back comes before     *)
(* what it claimed: for any page, cap and number of servers of a thread     *)
(* (bindings.renumber, adapters._with_restored).                            *)
THEOREM BindingsOrdered == Spec => []OrderKept
<1>1. Inductive => OrderKept
  BY DEF Inductive
<1> QED BY <1>1, Invariance, PTL

(* The advice on a live server's names is its own once its hint is written, *)
(* a name it gave up is not advised on its account, and no more hints are   *)
(* kept than the caps, whatever their values: names excepted whose hint was *)
(* dismissed, failed, or was crowded out by newer ones since it was last    *)
(* written (hints.record, hints.forget).                                    *)
THEOREM AdviceIsOwn == Spec => []AdviceHolds
<1>1. Inductive /\ Capped(hint) => AdviceHolds
  BY DEF Inductive, Advised, WrittenBy, Advises, Capped, Within, AdviceHolds
<1> QED BY <1>1, Invariance, PTL

(* What s is given back by a step. *)
New(s) == restored'[s] \ restored[s]

(* Only a restoration gives names back. *)
LEMMA OthersGiveNone ==
  ASSUME ThreadsAssumption, Inductive, NEW s \in Server, [Next]_vars, New(s) # {}
  PROVE  \E unsure \in SUBSET gone : Restore(s, unsure)
<1>0. restored \in [Server -> SUBSET Name]
  BY DEF Inductive, TypeOK
<1>1. ~UNCHANGED restored
  BY DEF New
<1>2. PICK t \in Server :
        \/ Die(t)
        \/ \E n \in Name : Release(t, n)
        \/ \E n \in Name, attributed \in BOOLEAN, unsure \in SUBSET gone : Claim(t, n, attributed, unsure)
        \/ \E unsure \in SUBSET gone : Restore(t, unsure)
  BY <1>1 DEF Next, vars, SecondThread, WriteHint, Abandon, Dismiss, Survey
<1>3. ~Die(t)
  BY <1>0 DEF New, Die
<1>4. ASSUME NEW n \in Name PROVE ~Release(t, n)
  BY <1>0 DEF New, Release
<1>5. ASSUME NEW n \in Name, NEW attributed, NEW unsure PROVE ~Claim(t, n, attributed, unsure)
  BY <1>0 DEF New, Claim
<1>6. PICK unsure \in SUBSET gone : Restore(t, unsure)
  BY <1>2, <1>3, <1>4, <1>5
<1>7. t = s
  BY <1>0, <1>6 DEF New, Restore, Commit
<1> QED BY <1>6, <1>7

(* What a restoration gives back. *)
LEMMA RestoreGives ==
  ASSUME ThreadsAssumption, Inductive, NEW s \in Server, NEW unsure, Restore(s, unsure)
  PROVE  \E N, list :
           /\ Acceptable(s, unsure, N) /\ claims'[s] = list
           /\ restored'[s] = restored[s] \cup (N \ Listed(s))
           /\ InOrder(Mine(s, N), s, list, restored'[s])
           /\ s \in Server \ gone
<1>a. PICK N : N = Accepted(s, attempt[s].due, unsure)
  OBVIOUS
<1>b. PICK back : back = restored[s] \cup (N \ Listed(s))
  OBVIOUS
<1>0. attempt[s] # None
  BY DEF Restore
<1>1. Acceptable(s, unsure, N)
  BY <1>a, <1>0, AcceptedEffect
<1>2. PICK list : s \in Server \ gone /\ Took(s, N, list, back) /\ InOrder(Mine(s, N), s, list, back)
  BY <1>a, <1>b, RestoreTakes
<1>3. claims'[s] = list /\ restored'[s] = back
  <2>1. claims \in [Server -> Seq(Name)] /\ restored \in [Server -> SUBSET Name]
    BY DEF Inductive, TypeOK
  <2> QED BY <1>2, <2>1 DEF Took
<1> QED BY <1>b, <1>1, <1>2, <1>3

(* A restoration takes only names of the server's own thread, from a        *)
(* process that is gone or from itself, that the thread has not given up    *)
(* and no live server holds, and none once a second thread has called:      *)
(* between the survey and the write anything may have happened              *)
(* (sessions.restore, _restore_one).                                        *)
THEOREM RestorationTakesOwn == Spec => OnlyOwnNamesRestored
<1>1. ASSUME Inductive, [Next]_vars
      PROVE  \A s \in Server : \A n \in restored'[s] \ restored[s] :
               /\ ~stopped[s]
               /\ bind[n].thread = Home[s] /\ Home[s] \notin gaveUp[n]
               /\ bind[n].writer = s \/ bind[n].writer \in gone
               /\ \A t \in Server \ (gone \cup {s}) : n \notin Listed(t)
  <2> SUFFICES ASSUME NEW s \in Server, NEW n \in restored'[s] \ restored[s]
               PROVE  /\ ~stopped[s]
                      /\ bind[n].thread = Home[s] /\ Home[s] \notin gaveUp[n]
                      /\ bind[n].writer = s \/ bind[n].writer \in gone
                      /\ \A t \in Server \ (gone \cup {s}) : n \notin Listed(t)
    OBVIOUS
  <2>1. PICK unsure \in SUBSET gone : Restore(s, unsure)
    <3>1. New(s) # {}
      BY DEF New
    <3> QED BY <1>1, <3>1, ThreadsAssumption, OthersGiveNone
  <2>2. PICK N, list : Acceptable(s, unsure, N) /\ restored'[s] = restored[s] \cup (N \ Listed(s))
    BY <1>1, <2>1, ThreadsAssumption, RestoreGives
  <2>3. /\ n \in Name /\ bind[n] \in Binding /\ bind[n].thread = Home[s]
        /\ bind[n].writer = s \/ bind[n].writer \in gone
        /\ ~Refused(s, n, unsure)
    BY <2>2 DEF Acceptable
  <2>4. ~stopped[s]
    BY <2>1 DEF Restore, Serving
  <2>5. Home[s] \notin gaveUp[n]
    <3>1. bind[n] # None
      BY <2>3, ThreadsAssumption DEF Binding, ThreadsAssumption
    <3> QED BY <1>1, <2>3, <3>1 DEF Inductive, Bound
  <2>6. \A t \in Server \ (gone \cup {s}) : n \notin Listed(t)
    BY <1>1, <2>3, NotRefused
  <2> QED BY <2>3, <2>4, <2>5, <2>6
<1>2. Inductive /\ [Next]_vars =>
        [\A s \in Server : \A n \in restored'[s] \ restored[s] :
           /\ ~stopped[s]
           /\ bind[n].thread = Home[s] /\ Home[s] \notin gaveUp[n]
           /\ bind[n].writer = s \/ bind[n].writer \in gone
           /\ \A t \in Server \ (gone \cup {s}) : n \notin Listed(t)]_vars
  BY <1>1
<1> QED BY <1>2, Invariance, PTL DEF Spec, OnlyOwnNamesRestored

(* Restored names come back in the order of their bindings, among those     *)
(* restored before, in whatever pages and sweeps they come                  *)
(* (adapters._with_restored).                                               *)
THEOREM RestorationKeepsOrder == Spec => RestoredInOrder
<1>1. ASSUME Inductive, [Next]_vars
      PROVE  \A s \in Server : LET new == restored'[s] \ restored[s]
                               known == restored'[s] \cap (Own(bind, s) \cup new)
             IN new # {} =>
                  \A i, j \in DOMAIN claims'[s] :
                    i < j /\ {claims'[s][i], claims'[s][j]} \subseteq known =>
                      bind[claims'[s][i]].seq < bind[claims'[s][j]].seq
  <2> SUFFICES ASSUME NEW s \in Server, New(s) # {},
                      NEW i \in DOMAIN claims'[s], NEW j \in DOMAIN claims'[s], i < j,
                      {claims'[s][i], claims'[s][j]} \subseteq restored'[s] \cap (Own(bind, s) \cup New(s))
               PROVE  bind[claims'[s][i]].seq < bind[claims'[s][j]].seq
    BY DEF New
  <2>1. PICK unsure \in SUBSET gone : Restore(s, unsure)
    BY <1>1, ThreadsAssumption, OthersGiveNone
  <2>2. PICK N, list :
          /\ Acceptable(s, unsure, N) /\ claims'[s] = list
          /\ restored'[s] = restored[s] \cup (N \ Listed(s))
          /\ InOrder(Mine(s, N), s, list, restored'[s])
          /\ s \in Server \ gone
    BY <1>1, <2>1, ThreadsAssumption, RestoreGives
  <2>3. /\ Own(Mine(s, N), s) = Own(bind, s) \cup N
        /\ \A n \in Own(Mine(s, N), s) : Mine(s, N)[n].seq = bind[n].seq
    <3>1. N \in SUBSET Name /\ \A n \in N : bind[n] \in Binding /\ bind[n].thread = Home[s]
      BY <2>2 DEF Acceptable
    <3> QED BY <1>1, <2>2, <3>1, ThreadsAssumption, MineEffect
  <2>4. New(s) \subseteq N
    BY <2>2 DEF New
  <2>5. {list[i], list[j]} \subseteq restored'[s] \cap Own(Mine(s, N), s)
    BY <2>2, <2>3, <2>4
  <2>6. Mine(s, N)[list[i]].seq < Mine(s, N)[list[j]].seq
    BY <2>2, <2>5 DEF InOrder
  <2> QED BY <2>2, <2>3, <2>5, <2>6
<1>2. Inductive /\ [Next]_vars =>
        [\A s \in Server : LET new == restored'[s] \ restored[s]
                           known == restored'[s] \cap (Own(bind, s) \cup new)
         IN new # {} =>
              \A i, j \in DOMAIN claims'[s] :
                i < j /\ {claims'[s][i], claims'[s][j]} \subseteq known =>
                  bind[claims'[s][i]].seq < bind[claims'[s][j]].seq]_vars
  BY <1>1
<1> QED BY <1>2, Invariance, PTL DEF Spec, RestoredInOrder
=============================================================================
