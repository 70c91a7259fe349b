---------------------------- MODULE DataLemmas ----------------------------
(***************************************************************************)
(* Facts about sets of numbers, counting and sequences that the proofs of  *)
(* several modules rest on: none is about the program.                     *)
(***************************************************************************)
EXTENDS Integers, SequencesExt, FiniteSetTheorems, SequenceTheorems, TLAPS

----------------------------------------------------------------------------
(* Numbers, and counting. *)

(* Some relation with `<` in it is well-founded on the naturals. *)
LEMMA LessWellFounded ==
  \E R : /\ IsWellFoundedOn(R, Nat)
         /\ \A x, y \in Nat : x < y => <<x, y>> \in R
<1>1. IsWellFoundedOn(OpToRel(<, Nat), Nat)
  BY NatLessThanWellFounded
<1>2. \A x, y \in Nat : x < y => <<x, y>> \in OpToRel(<, Nat)
  BY DEF OpToRel
<1> QED BY <1>1, <1>2

(* A set of naturals has a least member. *)
LEMMA LeastNat ==
  ASSUME NEW S \in SUBSET Nat, S # {}
  PROVE  \E x \in S : \A y \in S : x <= y
<1>1. PICK R : /\ IsWellFoundedOn(R, Nat)
               /\ \A x, y \in Nat : x < y => <<x, y>> \in R
  BY LessWellFounded
<1>2. IsWellFoundedOn(R, Nat) /\ S \subseteq Nat
  BY <1>1
<1>3. PICK x \in S : \A y \in S : ~(<<y, x>> \in R)
  BY <1>2, WFMin
<1>4. ASSUME NEW y \in S PROVE x <= y
  <2>1. x \in Nat /\ y \in Nat
    OBVIOUS
  <2>2. ~(y < x)
    BY <2>1, <1>1, <1>3
  <2> QED BY <2>1, <2>2
<1> QED BY <1>4

(* The maximum of a bounded set of naturals is the greatest member. *)
LEMMA MaxNat ==
  ASSUME NEW S \in SUBSET Nat, S # {}, NEW b \in Nat, \A x \in S : x <= b
  PROVE  Max(S) \in S /\ \A y \in S : y <= Max(S)
<1> DEFINE U == {u \in Nat : \A x \in S : x <= u}
<1>1. PICK u \in U : \A v \in U : u <= v
  <2>1. U \in SUBSET Nat /\ b \in U
    OBVIOUS
  <2> QED BY <2>1, LeastNat
<1>2. u \in S
  <2> SUFFICES ASSUME u \notin S PROVE FALSE
    OBVIOUS
  <2>1. PICK z \in S : TRUE
    OBVIOUS
  <2>2. z \in Nat /\ z <= u /\ z # u
    BY <1>1
  <2>3. u - 1 \in Nat
    BY <2>2, <1>1
  <2>4. \A x \in S : x <= u - 1
    BY <1>1, <2>3
  <2> QED BY <1>1, <2>3, <2>4
<1>3. \A y \in S : u >= y
  BY <1>1
<1>4. Max(S) \in S /\ \A y \in S : Max(S) >= y
  BY <1>2, <1>3 DEF Max
<1> QED BY <1>4

(* Of the members of S that fewer than k others precede, there are k at most. *)
LEMMA FirstOnes ==
  ASSUME NEW n \in Nat, NEW S \in SUBSET (1 .. n), NEW k \in Nat \ {0},
         NEW T, T = {i \in S : Cardinality({j \in S : j < i}) < k}
  PROVE  IsFiniteSet(T) /\ Cardinality(T) <= k
<1>1. IsFiniteSet(S)
  <2>1. IsFiniteSet(1 .. n)
    BY FS_Interval
  <2> QED BY <2>1, FS_Subset
<1>2. T \in SUBSET S /\ T \in SUBSET Nat /\ (\A x \in T : x <= n) /\ S \in SUBSET Nat
  <2>1. T \in SUBSET S
    OBVIOUS
  <2>2. ASSUME NEW x \in S PROVE x \in Nat /\ x <= n
    OBVIOUS
  <2> QED BY <2>1, <2>2
<1>3. IsFiniteSet(T) /\ Cardinality(T) \in Nat
  BY <1>1, <1>2, FS_Subset, FS_CardinalityType
<1>4. CASE T = {}
  <2>1. Cardinality(T) = 0
    BY <1>4, FS_EmptySet
  <2> QED BY <1>3, <2>1
<1>5. CASE T # {}
  <2>1. PICK m \in T : \A y \in T : y <= m
    BY <1>2, <1>5, MaxNat
  <2> DEFINE L == {j \in S : j < m}
  <2>2. Cardinality(L) < k
    BY <2>1
  <2>3. T \ {m} \in SUBSET L
    <3>1. ASSUME NEW y \in T \ {m} PROVE y \in S /\ y < m
      BY <1>2, <2>1
    <3> QED BY <3>1
  <2>4. IsFiniteSet(L) /\ Cardinality(L) \in Nat
    BY <1>1, FS_Subset, FS_CardinalityType
  <2>5. Cardinality(T \ {m}) <= Cardinality(L)
    BY <2>3, <2>4, FS_Subset
  <2>6. Cardinality(T \ {m}) = Cardinality(T) - 1
    BY <1>3, <2>1, FS_RemoveElement
  <2> QED BY <1>3, <2>2, <2>4, <2>5, <2>6
<1> QED BY <1>4, <1>5

(* The minimum of a set of naturals is its least member. *)
LEMMA MinNat ==
  ASSUME NEW S \in SUBSET Nat, S # {}
  PROVE  Min(S) \in S /\ \A y \in S : Min(S) <= y
<1>1. \E x \in S : \A y \in S : x <= y
  BY LeastNat
<1> QED BY <1>1 DEF Min

(* Induction: what holds of 0, and of n + 1 if of n, holds of every natural. *)
LEMMA NatInduct ==
  ASSUME NEW S, 0 \in S, \A n \in Nat : n \in S => n + 1 \in S
  PROVE  \A n \in Nat : n \in S
<1> SUFFICES ASSUME NEW n \in Nat, n \notin S PROVE FALSE
  OBVIOUS
<1> DEFINE B == {k \in Nat : k \notin S}
<1>1. PICK m \in B : \A k \in B : m <= k
  <2>1. B \in SUBSET Nat /\ n \in B
    OBVIOUS
  <2> HIDE DEF B
  <2> QED BY <2>1, LeastNat
<1>2. m # 0 /\ m \in Nat /\ m \notin S
  OBVIOUS
<1>3. m - 1 \in Nat /\ m - 1 \notin B
  BY <1>1, <1>2
<1>4. m - 1 \in S /\ (m - 1) + 1 = m
  BY <1>2, <1>3
<1> QED BY <1>2, <1>3, <1>4

(* A finite set of naturals has a bound. *)
LEMMA FiniteBounded ==
  ASSUME NEW S \in SUBSET Nat, IsFiniteSet(S)
  PROVE  \E b \in Nat : \A x \in S : x <= b
<1> DEFINE Sized(n) == {T \in SUBSET Nat : IsFiniteSet(T) /\ Cardinality(T) = n}
           B == {n \in Nat : \A T \in Sized(n) : \E b \in Nat : \A x \in T : x <= b}
<1>1. 0 \in B
  <2> SUFFICES ASSUME NEW T \in Sized(0) PROVE \E b \in Nat : \A x \in T : x <= b
    OBVIOUS
  <2>1. T = {}
    BY FS_EmptySet
  <2>2. 0 \in Nat /\ \A x \in T : x <= 0
    BY <2>1
  <2> QED BY <2>2
<1>2. ASSUME NEW n \in Nat, n \in B PROVE n + 1 \in B
  <2>0. n + 1 \in Nat
    OBVIOUS
  <2> SUFFICES ASSUME NEW T \in Sized(n + 1) PROVE \E b \in Nat : \A x \in T : x <= b
    BY <2>0, Zenon
  <2>1. T # {} /\ IsFiniteSet(T) /\ Cardinality(T) = n + 1 /\ T \in SUBSET Nat
    <3>1. T = {} => Cardinality(T) = 0
      BY FS_EmptySet
    <3> QED BY <3>1
  <2>2. PICK e \in T : TRUE
    BY <2>1
  <2>3. T \ {e} \in Sized(n)
    <3>1. IsFiniteSet(T \ {e}) /\ Cardinality(T \ {e}) = Cardinality(T) - 1
      BY <2>1, <2>2, FS_RemoveElement
    <3> QED BY <2>1, <3>1
  <2>4. PICK b \in Nat : \A x \in T \ {e} : x <= b
    BY <1>2, <2>3
  <2>5. e \in Nat
    BY <2>1, <2>2
  <2>6. CASE e <= b
    <3>1. \A x \in T : x <= b
      BY <2>4, <2>6
    <3> QED BY <3>1
  <2>7. CASE b <= e
    <3>1. ASSUME NEW x \in T PROVE x <= e
      <4>1. x \in Nat /\ (x # e => x <= b)
        BY <2>1, <2>4
      <4> QED BY <2>4, <2>5, <2>7, <4>1
    <3> QED BY <2>5, <3>1
  <2> QED BY <2>4, <2>5, <2>6, <2>7
<1> HIDE DEF B
<1>3. \A n \in Nat : n \in B
  BY <1>1, <1>2, NatInduct
<1>4. Cardinality(S) \in Nat /\ S \in Sized(Cardinality(S))
  BY FS_CardinalityType
<1>5. Cardinality(S) \in B
  BY <1>3, <1>4
<1> QED BY <1>4, <1>5 DEF B

(* Of the members of S that fewer than k others exceed, there are k at most. *)
LEMMA GreatestOnes ==
  ASSUME NEW S, IsFiniteSet(S), NEW f \in [S -> Nat],
         \A x, y \in S : f[x] = f[y] => x = y,
         NEW k \in Nat,
         NEW T \in SUBSET S,
         \A x \in T : \E U \in SUBSET S : Cardinality(U) < k /\ \A y \in S : f[y] > f[x] => y \in U
  PROVE  IsFiniteSet(T) /\ Cardinality(T) <= k
<1>1. T \in SUBSET S
  OBVIOUS
<1>2. IsFiniteSet(T) /\ Cardinality(T) \in Nat
  BY FS_Subset, FS_CardinalityType
<1>3. CASE T = {}
  <2>1. Cardinality(T) = 0
    BY <1>3, FS_EmptySet
  <2> QED BY <1>2, <2>1
<1>4. CASE T # {}
  <2> DEFINE V == {f[x] : x \in T}
  <2>1. PICK v \in V : \A w \in V : v <= w
    <3>1. V \in SUBSET Nat /\ V # {}
      BY <1>1, <1>4
    <3> HIDE DEF V
    <3> QED BY <3>1, LeastNat
  <2>2. PICK m \in T : v = f[m]
    BY <2>1
  <2>3. PICK U \in SUBSET S : Cardinality(U) < k /\ \A y \in S : f[y] > f[m] => y \in U
    BY <2>2
  <2>4. T \ {m} \in SUBSET U
    <3>1. ASSUME NEW y \in T \ {m} PROVE y \in S /\ f[y] > f[m]
      <4>1. y \in S /\ m \in S /\ y # m /\ f[y] \in Nat /\ f[m] \in Nat
        BY <1>1, <2>2
      <4>2. f[m] <= f[y] /\ f[m] # f[y]
        BY <2>1, <2>2, <4>1
      <4> QED BY <4>1, <4>2
    <3> QED BY <2>3, <3>1
  <2>5. IsFiniteSet(U) /\ Cardinality(U) \in Nat
    BY FS_Subset, FS_CardinalityType
  <2>6. Cardinality(T \ {m}) <= Cardinality(U)
    BY <2>4, <2>5, FS_Subset
  <2>7. Cardinality(T \ {m}) = Cardinality(T) - 1
    BY <1>2, <2>2, FS_RemoveElement
  <2> QED BY <1>2, <2>3, <2>5, <2>6, <2>7
<1> QED BY <1>3, <1>4

(* The image of a finite set has no more members than it. *)
LEMMA ImageSize ==
  ASSUME NEW S, IsFiniteSet(S), NEW f, DOMAIN f = S, f = [x \in S |-> f[x]]
  PROVE  /\ IsFiniteSet({f[x] : x \in S})
         /\ Cardinality({f[x] : x \in S}) <= Cardinality(S)
<1> DEFINE T == {f[x] : x \in S}
<1>1. f \in Surjection(S, T)
  BY DEF Surjection
<1> QED BY <1>1, FS_Surjection

(* Iterating a function on A: the sequence of its results exists. *)
LEMMA Iteration ==
  ASSUME NEW A, NEW a \in A, NEW F \in [A -> A]
  PROVE  \E f \in [Nat -> A] : f[0] = a /\ \A n \in Nat : f[n + 1] = F[f[n]]
<1> DEFINE Prefix(n, g) == /\ g \in [0 .. n -> A] /\ g[0] = a
                           /\ \A i \in 0 .. n - 1 : g[i + 1] = F[g[i]]
<1>1. ASSUME NEW n \in Nat, NEW m \in Nat, NEW g, NEW h, Prefix(n, g), Prefix(m, h)
      PROVE  \A i \in Nat : i <= n /\ i <= m => g[i] = h[i]
  <2> DEFINE S == {i \in Nat : i <= n /\ i <= m => g[i] = h[i]}
  <2>1. 0 \in S
    BY <1>1
  <2>2. ASSUME NEW i \in Nat, i \in S PROVE i + 1 \in S
    <3> SUFFICES ASSUME i + 1 <= n, i + 1 <= m PROVE g[i + 1] = h[i + 1]
      OBVIOUS
    <3>1. i \in 0 .. n - 1 /\ i \in 0 .. m - 1 /\ g[i] = h[i]
      BY <2>2
    <3> QED BY <1>1, <3>1
  <2> HIDE DEF S
  <2>3. \A i \in Nat : i \in S
    BY <2>1, <2>2, NatInduct
  <2> QED BY <2>3 DEF S
<1>2. \A n \in Nat : \E g : Prefix(n, g)
  <2> DEFINE S == {n \in Nat : \E g : Prefix(n, g)}
  <2>1. 0 \in S
    <3>1. Prefix(0, [i \in 0 .. 0 |-> a])
      OBVIOUS
    <3> QED BY <3>1
  <2>2. ASSUME NEW n \in Nat, n \in S PROVE n + 1 \in S
    <3>1. PICK g : Prefix(n, g)
      BY <2>2
    <3> DEFINE h == [i \in 0 .. n + 1 |-> IF i <= n THEN g[i] ELSE F[g[n]]]
    <3>2. h \in [0 .. n + 1 -> A]
      <4>1. \A i \in 0 .. n : g[i] \in A
        BY <3>1
      <4>2. F[g[n]] \in A
        BY <4>1
      <4>3. ASSUME NEW i \in 0 .. n + 1 PROVE (IF i <= n THEN g[i] ELSE F[g[n]]) \in A
        BY <4>1, <4>2
      <4> QED BY <4>3
    <3>3. h[0] = a
      BY <3>1
    <3>4. ASSUME NEW i \in 0 .. (n + 1) - 1 PROVE h[i + 1] = F[h[i]]
      <4>1. i \in 0 .. n + 1 /\ i + 1 \in 0 .. n + 1 /\ i <= n
        OBVIOUS
      <4>2. h[i] = g[i] /\ h[i + 1] = IF i + 1 <= n THEN g[i + 1] ELSE F[g[n]]
        BY <4>1
      <4>3. CASE i + 1 <= n
        BY <3>1, <4>2, <4>3
      <4>4. CASE ~(i + 1 <= n)
        <5>1. i = n
          BY <4>1, <4>4
        <5> QED BY <4>2, <4>4, <5>1
      <4> QED BY <4>3, <4>4
    <3>5. Prefix(n + 1, h)
      <4> HIDE DEF h
      <4> QED BY <3>2, <3>3, <3>4
    <3> QED BY <3>5
  <2> HIDE DEF S
  <2>3. \A n \in Nat : n \in S
    BY <2>1, <2>2, NatInduct
  <2> QED BY <2>3 DEF S
<1> DEFINE G(n) == CHOOSE g : Prefix(n, g)
           f == [n \in Nat |-> G(n)[n]]
<1>3. \A n \in Nat : Prefix(n, G(n))
  <2> SUFFICES ASSUME NEW n \in Nat PROVE Prefix(n, G(n))
    OBVIOUS
  <2>1. \E g : Prefix(n, g)
    BY <1>2
  <2> HIDE DEF Prefix
  <2> QED BY <2>1
<1> HIDE DEF G
<1>4. f \in [Nat -> A] /\ f[0] = a
  <2>1. ASSUME NEW n \in Nat PROVE G(n)[n] \in A
    <3>1. n \in 0 .. n
      OBVIOUS
    <3> QED BY <1>3, <3>1
  <2> QED BY <1>3, <2>1
<1>5. ASSUME NEW n \in Nat PROVE f[n + 1] = F[f[n]]
  <2>1. Prefix(n, G(n)) /\ Prefix(n + 1, G(n + 1))
    BY <1>3
  <2>2. G(n + 1)[n] = G(n)[n]
    <3> HIDE DEF Prefix
    <3>1. \A i \in Nat : i <= n /\ i <= n + 1 => G(n)[i] = G(n + 1)[i]
      BY <1>1, <2>1
    <3> QED BY <3>1
  <2>3. n \in 0 .. (n + 1) - 1
    OBVIOUS
  <2>4. G(n + 1)[n + 1] = F[G(n + 1)[n]]
    BY <2>1, <2>3
  <2> QED BY <2>2, <2>4
<1> QED BY <1>4, <1>5

----------------------------------------------------------------------------
(* Sequences. *)

(* A function on the first n numbers is a sequence. *)
LEMMA FunctionIsSeq ==
  ASSUME NEW S, NEW n \in Nat, NEW f \in [1 .. n -> S]
  PROVE  f \in Seq(S)
<1>1. f \in UNION {[1 .. k -> S] : k \in Nat}
  OBVIOUS
<1> QED BY <1>1, SeqDef

(* What is left of a sequence that loses its i-th element. *)
LEMMA RemoveAtEffect ==
  ASSUME NEW S, NEW s \in Seq(S), NEW i \in 1 .. Len(s)
  PROVE  LET t == RemoveAt(s, i)
         IN /\ t \in Seq(S) /\ Len(t) = Len(s) - 1
            /\ \A k \in 1 .. Len(s) - 1 : t[k] = IF k < i THEN s[k] ELSE s[k + 1]
<1> DEFINE a == SubSeq(s, 1, i - 1)
           b == SubSeq(s, i + 1, Len(s))
<1>0. Len(s) \in Nat /\ i \in Int /\ i - 1 \in Int /\ i + 1 \in Int /\ Len(s) \in Int /\ 1 \in Int
      /\ \A k \in 1 .. Len(s) : s[k] \in S
  BY LenProperties, ElementOfSeq
<1>1. a \in Seq(S) /\ Len(a) = i - 1 /\ \A k \in 1 .. i - 1 : a[k] = s[k]
  <2>1. \A k \in 1 .. i - 1 : s[k] \in S
    BY <1>0
  <2>2. /\ a \in Seq(S) /\ Len(a) = IF 1 <= i - 1 THEN (i - 1) - 1 + 1 ELSE 0
        /\ \A k \in 1 .. (i - 1) - 1 + 1 : a[k] = s[1 + k - 1]
    BY <1>0, <2>1, SubSeqProperties
  <2> HIDE DEF a
  <2> QED BY <1>0, <2>2
<1>2. b \in Seq(S) /\ Len(b) = Len(s) - i /\ \A k \in 1 .. Len(s) - i : b[k] = s[i + k]
  <2>1. \A k \in i + 1 .. Len(s) : s[k] \in S
    BY <1>0
  <2>2. /\ b \in Seq(S) /\ Len(b) = IF i + 1 <= Len(s) THEN Len(s) - (i + 1) + 1 ELSE 0
        /\ \A k \in 1 .. Len(s) - (i + 1) + 1 : b[k] = s[(i + 1) + k - 1]
    BY <1>0, <2>1, SubSeqProperties
  <2> HIDE DEF b
  <2> QED BY <1>0, <2>2
<1>3. /\ a \o b \in Seq(S) /\ Len(a \o b) = Len(a) + Len(b)
      /\ \A k \in 1 .. Len(a) + Len(b) : (a \o b)[k] = IF k <= Len(a) THEN a[k] ELSE b[k - Len(a)]
  <2> HIDE DEF a, b
  <2> QED BY <1>1, <1>2, ConcatProperties
<1>4. RemoveAt(s, i) = a \o b
  BY DEF RemoveAt
<1>5. ASSUME NEW k \in 1 .. Len(s) - 1 PROVE (a \o b)[k] = IF k < i THEN s[k] ELSE s[k + 1]
  <2> HIDE DEF a, b
  <2>1. CASE k < i
    BY <1>0, <1>1, <1>2, <1>3, <2>1
  <2>2. CASE ~(k < i)
    <3>1. k - (i - 1) \in 1 .. Len(s) - i /\ i + (k - (i - 1)) = k + 1
      BY <1>0, <2>2
    <3>2. (a \o b)[k] = b[k - (i - 1)]
      <4>1. Len(a) = i - 1 /\ k \in 1 .. Len(a) + Len(b) /\ ~(k <= Len(a))
        BY <1>0, <1>1, <1>2, <2>2
      <4> QED BY <1>3, <4>1
    <3>3. b[k - (i - 1)] = s[i + (k - (i - 1))]
      BY <1>2, <3>1
    <3> QED BY <2>2, <3>1, <3>2, <3>3
  <2> QED BY <2>1, <2>2
<1>6. Len(a \o b) = Len(s) - 1
  <2> HIDE DEF a, b
  <2> QED BY <1>0, <1>1, <1>2, <1>3
<1> HIDE DEF a, b
<1> QED BY <1>3, <1>4, <1>5, <1>6

(* t has the elements of s but the i-th, each at a place of its own. *)
Rest(s, i, t) ==
  /\ \A k \in 1 .. Len(t) : \E m \in 1 .. Len(s) : m # i /\ t[k] = s[m]
  /\ \A m \in 1 .. Len(s) : m # i => \E k \in 1 .. Len(t) : t[k] = s[m]
  /\ \A k, l \in 1 .. Len(t) : k # l =>
       \E m, o \in 1 .. Len(s) : m # o /\ t[k] = s[m] /\ t[l] = s[o]

LEMMA RemoveAtRest ==
  ASSUME NEW S, NEW s \in Seq(S), NEW i \in 1 .. Len(s)
  PROVE  RemoveAt(s, i) \in Seq(S) /\ Rest(s, i, RemoveAt(s, i))
<1> DEFINE From(k) == IF k < i THEN k ELSE k + 1
           t == RemoveAt(s, i)
<1>0. /\ t \in Seq(S) /\ Len(t) = Len(s) - 1 /\ Len(s) \in Nat
      /\ \A k \in 1 .. Len(s) - 1 : t[k] = IF k < i THEN s[k] ELSE s[k + 1]
  BY RemoveAtEffect, LenProperties
<1> HIDE DEF t
<1>1. /\ t \in Seq(S) /\ Len(t) = Len(s) - 1 /\ Len(s) \in Nat
      /\ \A k \in 1 .. Len(t) : From(k) \in 1 .. Len(s) /\ From(k) # i /\ t[k] = s[From(k)]
  <2> SUFFICES ASSUME NEW k \in 1 .. Len(t)
               PROVE  From(k) \in 1 .. Len(s) /\ From(k) # i /\ t[k] = s[From(k)]
    BY <1>0
  <2>1. t[k] = IF k < i THEN s[k] ELSE s[k + 1]
    BY <1>0
  <2> QED BY <1>0, <2>1
<1>2. \A k, l \in 1 .. Len(t) : k # l => From(k) # From(l)
  BY <1>1
<1>3. ASSUME NEW m \in 1 .. Len(s), m # i PROVE \E k \in 1 .. Len(t) : t[k] = s[m]
  <2>1. CASE m < i
    BY <1>1, <1>3, <2>1
  <2>2. CASE m > i
    <3>1. m - 1 \in 1 .. Len(t) /\ From(m - 1) = m
      BY <1>1, <2>2
    <3> QED BY <1>1, <3>1
  <2> QED BY <1>1, <1>3, <2>1, <2>2
<1>4. ASSUME NEW k \in 1 .. Len(t) PROVE \E m \in 1 .. Len(s) : m # i /\ t[k] = s[m]
  BY <1>1
<1>5. ASSUME NEW k \in 1 .. Len(t), NEW l \in 1 .. Len(t), k # l
      PROVE  \E m, o \in 1 .. Len(s) : m # o /\ t[k] = s[m] /\ t[l] = s[o]
  <2>1. From(k) # From(l) /\ From(k) \in 1 .. Len(s) /\ From(l) \in 1 .. Len(s)
    BY <1>1, <1>2, <1>5
  <2>2. t[k] = s[From(k)] /\ t[l] = s[From(l)]
    BY <1>1
  <2> HIDE DEF From
  <2> QED BY <2>1, <2>2
<1>6. Rest(s, i, t)
  BY <1>3, <1>4, <1>5 DEF Rest
<1> QED BY <1>1, <1>6 DEF t

(* The tail, likewise. *)
LEMMA TailRest ==
  ASSUME NEW S, NEW s \in Seq(S), s # <<>>
  PROVE  Head(s) = s[1] /\ 1 \in 1 .. Len(s) /\ Tail(s) \in Seq(S) /\ Rest(s, 1, Tail(s))
<1> DEFINE t == Tail(s)
<1>1. /\ t \in Seq(S) /\ Len(t) = Len(s) - 1 /\ Len(s) \in Nat
      /\ \A k \in 1 .. Len(t) : t[k] = s[k + 1]
  BY HeadTailProperties, LenProperties
<1>2. Len(s) # 0
  BY EmptySeq, SeqEqual
<1> HIDE DEF t
<1>3. ASSUME NEW k \in 1 .. Len(t) PROVE k + 1 \in 1 .. Len(s) /\ k + 1 # 1 /\ t[k] = s[k + 1]
  BY <1>1
<1>4. ASSUME NEW m \in 1 .. Len(s), m # 1 PROVE \E k \in 1 .. Len(t) : t[k] = s[m]
  <2>1. m - 1 \in 1 .. Len(t) /\ t[m - 1] = s[(m - 1) + 1] /\ (m - 1) + 1 = m
    BY <1>1, <1>4
  <2> QED BY <2>1
<1>5. ASSUME NEW k \in 1 .. Len(t) PROVE \E m \in 1 .. Len(s) : m # 1 /\ t[k] = s[m]
  BY <1>3
<1>6. ASSUME NEW k \in 1 .. Len(t), NEW l \in 1 .. Len(t), k # l
      PROVE  \E m, o \in 1 .. Len(s) : m # o /\ t[k] = s[m] /\ t[l] = s[o]
  <2>1. k + 1 # l + 1
    BY <1>6
  <2> QED BY <1>3, <2>1
<1>7. Rest(s, 1, t)
  BY <1>4, <1>5, <1>6 DEF Rest
<1> QED BY <1>1, <1>2, <1>7 DEF t

(* Removing the first occurrence of an element. *)
LEMMA RemoveFirstEffect ==
  ASSUME NEW S, NEW s \in Seq(S), NEW e
  PROVE  /\ (\E i \in 1 .. Len(s) : s[i] = e) =>
              \E i \in 1 .. Len(s) : s[i] = e /\ RemoveFirst(s, e) = RemoveAt(s, i)
         /\ ~(\E i \in 1 .. Len(s) : s[i] = e) => RemoveFirst(s, e) = s
<1>1. ASSUME \E i \in 1 .. Len(s) : s[i] = e
      PROVE  \E i \in 1 .. Len(s) : s[i] = e /\ RemoveFirst(s, e) = RemoveAt(s, i)
  <2> DEFINE I == {i \in 1 .. Len(s) : s[i] = e}
  <2>1. I # {} /\ I \in SUBSET Nat
    BY <1>1
  <2>2. Min(I) \in I
    <3> HIDE DEF I
    <3> QED BY <2>1, MinNat
  <2>3. RemoveFirst(s, e) = RemoveAt(s, Min(I))
    BY <1>1, <2>1 DEF RemoveFirst, SelectInSeq
  <2> QED BY <2>2, <2>3
<1>2. ASSUME ~(\E i \in 1 .. Len(s) : s[i] = e) PROVE RemoveFirst(s, e) = s
  BY <1>2 DEF RemoveFirst
<1> QED BY <1>1, <1>2

(* s with e put before its p-th element, or at its end. *)
Inserted(s, p, e, t) ==
  /\ Len(t) = Len(s) + 1
  /\ \A k \in 1 .. Len(s) + 1 : t[k] = IF k < p THEN s[k] ELSE IF k = p THEN e ELSE s[k - 1]

LEMMA InsertAtEffect ==
  ASSUME NEW S, NEW s \in Seq(S), NEW e \in S, NEW p \in 1 .. Len(s)
  PROVE  InsertAt(s, p, e) \in Seq(S) /\ Inserted(s, p, e, InsertAt(s, p, e))
<1> DEFINE a == SubSeq(s, 1, p - 1)
           c == a \o <<e>>
           b == SubSeq(s, p, Len(s))
<1>0. Len(s) \in Nat /\ p \in Int /\ p - 1 \in Int /\ Len(s) \in Int /\ 1 \in Int
      /\ \A k \in 1 .. Len(s) : s[k] \in S
  BY LenProperties, ElementOfSeq
<1>1. a \in Seq(S) /\ Len(a) = p - 1 /\ \A k \in 1 .. p - 1 : a[k] = s[k]
  <2>1. \A k \in 1 .. p - 1 : s[k] \in S
    BY <1>0
  <2>2. /\ a \in Seq(S) /\ Len(a) = IF 1 <= p - 1 THEN (p - 1) - 1 + 1 ELSE 0
        /\ \A k \in 1 .. (p - 1) - 1 + 1 : a[k] = s[1 + k - 1]
    BY <1>0, <2>1, SubSeqProperties
  <2> HIDE DEF a
  <2> QED BY <1>0, <2>2
<1>2. b \in Seq(S) /\ Len(b) = Len(s) - p + 1 /\ \A k \in 1 .. Len(s) - p + 1 : b[k] = s[p + k - 1]
  <2>1. \A k \in p .. Len(s) : s[k] \in S
    BY <1>0
  <2>2. /\ b \in Seq(S) /\ Len(b) = IF p <= Len(s) THEN Len(s) - p + 1 ELSE 0
        /\ \A k \in 1 .. Len(s) - p + 1 : b[k] = s[p + k - 1]
    BY <1>0, <2>1, SubSeqProperties
  <2> HIDE DEF b
  <2> QED BY <1>0, <2>2
<1>3. /\ c \in Seq(S) /\ Len(c) = p /\ c[p] = e
      /\ \A k \in 1 .. p - 1 : c[k] = s[k]
  <2>0. c = Append(a, e)
    <3> HIDE DEF a
    <3> QED BY <1>1, AppendIsConcat
  <2>1. /\ Append(a, e) \in Seq(S) /\ Len(Append(a, e)) = Len(a) + 1
        /\ \A k \in 1 .. Len(a) : Append(a, e)[k] = a[k]
        /\ Append(a, e)[Len(a) + 1] = e
    <3> HIDE DEF a
    <3> QED BY <1>1, AppendProperties
  <2> HIDE DEF a, c
  <2> QED BY <1>0, <1>1, <2>0, <2>1
<1>4. /\ c \o b \in Seq(S) /\ Len(c \o b) = Len(c) + Len(b)
      /\ \A k \in 1 .. Len(c) + Len(b) : (c \o b)[k] = IF k <= Len(c) THEN c[k] ELSE b[k - Len(c)]
  <2> HIDE DEF c, b
  <2> QED BY <1>2, <1>3, ConcatProperties
<1>5. InsertAt(s, p, e) = c \o b
  BY DEF InsertAt
<1>6. ASSUME NEW k \in 1 .. Len(s) + 1
      PROVE  (c \o b)[k] = IF k < p THEN s[k] ELSE IF k = p THEN e ELSE s[k - 1]
  <2> HIDE DEF a, b, c
  <2>1. k \in 1 .. Len(c) + Len(b)
    BY <1>0, <1>2, <1>3
  <2>2. (c \o b)[k] = IF k <= Len(c) THEN c[k] ELSE b[k - Len(c)]
    BY <1>4, <2>1
  <2>3. CASE k < p
    BY <1>0, <1>3, <2>2, <2>3
  <2>4. CASE k = p
    BY <1>0, <1>3, <2>2, <2>4
  <2>5. CASE k > p
    <3>1. k - p \in 1 .. Len(s) - p + 1 /\ p + (k - p) - 1 = k - 1
      BY <1>0, <2>5
    <3>2. (c \o b)[k] = b[k - p]
      BY <1>0, <1>3, <2>2, <2>5
    <3>3. b[k - p] = s[p + (k - p) - 1]
      BY <1>2, <3>1
    <3> QED BY <1>0, <2>5, <3>1, <3>2, <3>3
  <2>6. k < p \/ k = p \/ k > p
    BY <1>0
  <2> QED BY <2>3, <2>4, <2>5, <2>6
<1>7. Len(c \o b) = Len(s) + 1
  <2> HIDE DEF a, b, c
  <2> QED BY <1>0, <1>2, <1>3, <1>4
<1> HIDE DEF a, b, c
<1> QED BY <1>4, <1>5, <1>6, <1>7 DEF Inserted

LEMMA AppendInserts ==
  ASSUME NEW S, NEW s \in Seq(S), NEW e \in S
  PROVE  Append(s, e) \in Seq(S) /\ Inserted(s, Len(s) + 1, e, Append(s, e))
<1>1. /\ Append(s, e) \in Seq(S) /\ Len(Append(s, e)) = Len(s) + 1 /\ Len(s) \in Nat
      /\ \A k \in 1 .. Len(s) : Append(s, e)[k] = s[k]
      /\ Append(s, e)[Len(s) + 1] = e
  BY AppendProperties, LenProperties
<1> QED BY <1>1 DEF Inserted
=============================================================================
