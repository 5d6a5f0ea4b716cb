---------------------------- MODULE TablesProofs ----------------------------
(***************************************************************************)
(* Proofs about Tables, for any processes, names, readings and units, and  *)
(* tables of any length.                                                   *)
(***************************************************************************)
EXTENDS Tables, SequenceTheorems, FiniteSetTheorems, WellFoundedInduction, TLAPS

----------------------------------------------------------------------------
(* Sequencing: what is sorted by a strict order has each place once.        *)

\* The elements of S that come before x.
Below(S, R, x) == {y \in S : <<y, x>> \in R}

StrictOrder(S, R) ==
    /\ \A x \in S : <<x, x>> \notin R
    /\ \A x, y, z \in S : <<x, y>> \in R /\ <<y, z>> \in R => <<x, z>> \in R
    /\ \A x, y \in S : x # y => <<x, y>> \in R \/ <<y, x>> \in R

LEMMA Places ==
    ASSUME NEW S, IsFiniteSet(S), NEW R, StrictOrder(S, R)
    PROVE  /\ Cardinality(S) \in Nat
           /\ \A x \in S : 1 + Cardinality(Below(S, R, x)) \in 1 .. Cardinality(S)
           /\ \A k \in 1 .. Cardinality(S) :
                 \E x \in S : 1 + Cardinality(Below(S, R, x)) = k
           /\ \A x, y \in S : <<x, y>> \in R =>
                 Cardinality(Below(S, R, x)) < Cardinality(Below(S, R, y))
<1> PICK n : n = Cardinality(S)
  OBVIOUS
<1>1. n \in Nat
  BY FS_CardinalityType
<1> DEFINE P(x) == 1 + Cardinality(Below(S, R, x))
<1>2. \A x \in S : Below(S, R, x) \in SUBSET S /\ x \notin Below(S, R, x)
  BY DEF Below, StrictOrder
<1>3. \A x \in S : IsFiniteSet(Below(S, R, x)) /\ Cardinality(Below(S, R, x)) \in Nat
  BY <1>2, FS_Subset, FS_CardinalityType
<1>4. ASSUME NEW x \in S  PROVE P(x) \in 1 .. n
  <2>1. Cardinality(Below(S, R, x)) <= n /\ Cardinality(Below(S, R, x)) # n
    BY <1>2, FS_Subset
  <2> QED  BY <1>1, <1>3, <2>1
<1>5. ASSUME NEW x \in S, NEW y \in S, <<x, y>> \in R
      PROVE  Cardinality(Below(S, R, x)) < Cardinality(Below(S, R, y))
  <2>1. Below(S, R, x) \in SUBSET Below(S, R, y) /\ Below(S, R, x) # Below(S, R, y)
    BY <1>5 DEF Below, StrictOrder
  <2>2. /\ Cardinality(Below(S, R, x)) <= Cardinality(Below(S, R, y))
        /\ Cardinality(Below(S, R, x)) # Cardinality(Below(S, R, y))
    BY <1>3, <2>1, FS_Subset
  <2> QED  BY <1>3, <2>2
<1>6. ASSUME NEW k \in 1 .. n  PROVE \E x \in S : P(x) = k
  <2> DEFINE f == [x \in S |-> P(x)]
  <2>1. f \in [S -> 1 .. n]
    BY <1>4
  <2>2. ASSUME NEW x \in S, NEW y \in S, x # y  PROVE f[x] # f[y]
    <3>1. <<x, y>> \in R \/ <<y, x>> \in R
      BY <2>2 DEF StrictOrder
    <3> QED  BY <1>3, <1>5, <3>1
  <2>3. f \in Injection(S, 1 .. n)
    <3> HIDE DEF f
    <3> QED  BY <2>1, <2>2 DEF Injection, IsInjective
  <2>4. IsFiniteSet(1 .. n) /\ Cardinality(1 .. n) = n
    BY <1>1, FS_Interval
  <2>5. f \in Surjection(S, 1 .. n)
    <3> HIDE DEF f
    <3> QED  BY <2>3, <2>4, FS_Injection
  <2> QED  BY <2>5 DEF Surjection
<1> QED  BY <1>1, <1>4, <1>5, <1>6

\* Ascending lists a set, each number once and in order.
LEMMA AscendingLists ==
    ASSUME NEW S \in SUBSET Nat, IsFiniteSet(S)
    PROVE  /\ Ascending(S) \in Seq(S)
           /\ Len(Ascending(S)) = Cardinality(S)
           /\ \A x \in S : \E k \in DOMAIN Ascending(S) : Ascending(S)[k] = x
           /\ \A i, j \in DOMAIN Ascending(S) : i < j => Ascending(S)[i] < Ascending(S)[j]
<1> DEFINE R == {p \in S \X S : p[1] < p[2]}
           P(x) == 1 + Cardinality({y \in S : y < x})
           n == Cardinality(S)
<1>1. StrictOrder(S, R)
  BY DEF StrictOrder
<1>2. \A x \in S : Below(S, R, x) = {y \in S : y < x}
  BY DEF Below
<1>3. /\ n \in Nat
      /\ \A x \in S : P(x) \in 1 .. n
      /\ \A k \in 1 .. n : \E x \in S : P(x) = k
      /\ \A x, y \in S : x < y => P(x) < P(y)
  <2>1. /\ n \in Nat
        /\ \A x \in S : 1 + Cardinality(Below(S, R, x)) \in 1 .. n
        /\ \A k \in 1 .. n : \E x \in S : 1 + Cardinality(Below(S, R, x)) = k
        /\ \A x, y \in S : <<x, y>> \in R =>
                 Cardinality(Below(S, R, x)) < Cardinality(Below(S, R, y))
    <3> HIDE DEF R
    <3> QED  BY <1>1, Places
  <2>2. ASSUME NEW x \in S  PROVE 1 + Cardinality(Below(S, R, x)) = P(x)
    BY <1>2
  <2>3. ASSUME NEW x \in S, NEW y \in S, x < y  PROVE P(x) < P(y)
    <3>1. <<x, y>> \in R
      BY <2>3
    <3>2. Cardinality(Below(S, R, x)) < Cardinality(Below(S, R, y))
      BY <2>1, <3>1
    <3>3. P(x) \in 1 .. n /\ P(y) \in 1 .. n
      BY <2>1, <2>2
    <3>4. Cardinality({z \in S : z < x}) < Cardinality({z \in S : z < y})
      BY <1>2, <3>2
    <3>5. IsFiniteSet({z \in S : z < x}) /\ IsFiniteSet({z \in S : z < y})
      BY FS_Subset
    <3> QED  BY <3>4, <3>5, FS_CardinalityType
  <2>4. (\A x \in S : P(x) \in 1 .. n) /\ (\A k \in 1 .. n : \E x \in S : P(x) = k)
    BY <2>1, <2>2
  <2> QED  BY <2>1, <2>3, <2>4
<1> DEFINE a == [k \in 1 .. n |-> CHOOSE x \in S : P(x) = k]
<1>4. Ascending(S) = a
  BY DEF Ascending
<1> HIDE DEF P, n
<1>5. \A k \in 1 .. n : a[k] \in S /\ P(a[k]) = k
  BY <1>3
<1>6. \A x \in S : a[P(x)] = x
  <2> SUFFICES ASSUME NEW x \in S  PROVE a[P(x)] = x
    OBVIOUS
  <2>1. P(x) \in 1 .. n
    BY <1>3
  <2>2. PICK y \in S : y = a[P(x)] /\ P(y) = P(x)
    BY <1>5, <2>1
  <2> HIDE DEF a
  <2>3. ~ (x < y) /\ ~ (y < x)
    <3>1. \A v, w \in S : v < w => P(v) < P(w) /\ P(v) \in 1 .. n /\ P(w) \in 1 .. n
      BY <1>3
    <3>2. x < y => P(x) < P(x) /\ P(x) \in 1 .. n
      BY <2>2, <3>1
    <3>3. y < x => P(x) < P(x) /\ P(x) \in 1 .. n
      BY <2>2, <3>1
    <3> HIDE DEF P
    <3>4. ~ (P(x) < P(x) /\ P(x) \in 1 .. n)
      BY <1>3, <2>1
    <3> QED  BY <3>2, <3>3, <3>4
  <2>4. x \in Nat /\ y \in Nat
    OBVIOUS
  <2> QED  BY <2>2, <2>3, <2>4
<1>7. a \in Seq(S) /\ Len(a) = n /\ DOMAIN a = 1 .. n
  <2>1. DOMAIN a = 1 .. n
    OBVIOUS
  <2> QED  BY <1>3, <1>5, <2>1
<1>8. ASSUME NEW i \in 1 .. n, NEW j \in 1 .. n, i < j  PROVE a[i] < a[j]
  <2>1. a[i] \in S /\ a[j] \in S /\ P(a[i]) = i /\ P(a[j]) = j
    BY <1>5
  <2> HIDE DEF a
  <2>2. a[i] \in Nat /\ a[j] \in Nat
    BY <2>1
  <2>3. CASE a[j] < a[i]
    <3>1. P(a[j]) < P(a[i])
      BY <1>3, <2>1, <2>3
    <3> QED  BY <1>3, <1>8, <2>1, <3>1
  <2>4. CASE a[j] = a[i]
    BY <1>8, <1>3, <2>1, <2>4
  <2> QED  BY <2>2, <2>3, <2>4
<1>9. \A x \in S : \E k \in DOMAIN a : a[k] = x
  <2> HIDE DEF a
  <2> QED  BY <1>3, <1>6, <1>7
<1> HIDE DEF a
<1> QED  BY <1>4, <1>7, <1>8, <1>9 DEF n

\* What is in w comes from s, in the order of s.
FromInOrder(w, s) ==
    \A a, b \in DOMAIN w : a < b =>
        \E i, j \in DOMAIN s : i < j /\ w[a] = s[i] /\ w[b] = s[j]

\* Without leaves out what it says, and keeps the order of the rest.
LEMMA WithoutKeeps ==
    ASSUME NEW D, NEW s \in Seq(D), NEW I
    PROVE  /\ Without(s, I) \in Seq(D)
           /\ ToSet(Without(s, I)) = ToSet(s) \ I
           /\ FromInOrder(Without(s, I), s)
<1> DEFINE S == {i \in DOMAIN s : s[i] \notin I}
           kept == Ascending(S)
           w == [k \in DOMAIN kept |-> s[kept[k]]]
<1>1. Without(s, I) = w
  BY DEF Without
<1>2. DOMAIN s = 1 .. Len(s) /\ Len(s) \in Nat /\ \A i \in DOMAIN s : s[i] \in D
  BY LenProperties, ElementOfSeq
<1>3. S \in SUBSET Nat /\ S \subseteq DOMAIN s /\ IsFiniteSet(S)
  <2>1. IsFiniteSet(1 .. Len(s)) /\ S \in SUBSET (1 .. Len(s))
    BY <1>2, FS_Interval
  <2> QED  BY <1>2, <2>1, FS_Subset
<1>4. /\ kept \in Seq(S)
      /\ \A x \in S : \E k \in DOMAIN kept : kept[k] = x
      /\ \A i, j \in DOMAIN kept : i < j => kept[i] < kept[j]
  <2> HIDE DEF S
  <2> QED  BY <1>3, AscendingLists
<1>5. DOMAIN kept = 1 .. Len(kept) /\ Len(kept) \in Nat /\ \A k \in DOMAIN kept : kept[k] \in S
  <2> HIDE DEF S, kept
  <2> QED  BY <1>4, LenProperties, ElementOfSeq
<1>6. \A k \in DOMAIN kept : s[kept[k]] \in D /\ s[kept[k]] \notin I /\ kept[k] \in DOMAIN s
  <2> HIDE DEF kept
  <2> QED  BY <1>2, <1>5
<1> HIDE DEF kept
<1>7. DOMAIN w = DOMAIN kept
  OBVIOUS
<1>8. w \in Seq(D)
  BY <1>5, <1>6
<1>9. ToSet(w) = ToSet(s) \ I
  <2>1. \A x \in ToSet(s) \ I : \E i \in S : s[i] = x
    BY DEF ToSet
  <2>2. \A i \in S : \E k \in DOMAIN w : w[k] = s[i]
    <3> HIDE DEF S
    <3> QED  BY <1>4
  <2>3. \A x \in ToSet(s) \ I : x \in ToSet(w)
    <3> HIDE DEF S, w
    <3> QED  BY <2>1, <2>2 DEF ToSet
  <2>4. \A x \in ToSet(w) : x \in ToSet(s) \ I
    BY <1>6 DEF ToSet
  <2> QED  BY <2>3, <2>4
<1>10. ASSUME NEW a \in DOMAIN w, NEW b \in DOMAIN w, a < b
       PROVE  \E i, j \in DOMAIN s : i < j /\ w[a] = s[i] /\ w[b] = s[j]
  <2>1. kept[a] \in DOMAIN s /\ kept[b] \in DOMAIN s /\ kept[a] < kept[b]
    BY <1>4, <1>6, <1>10
  <2>2. w[a] = s[kept[a]] /\ w[b] = s[kept[b]]
    OBVIOUS
  <2> QED  BY <2>1, <2>2
<1> HIDE DEF w
<1> QED  BY <1>1, <1>8, <1>9, <1>10 DEF FromInOrder

LEMMA WithoutOnce ==
    ASSUME NEW D, NEW s \in Seq(D), NEW I, IsInjective(s)
    PROVE  IsInjective(Without(s, I))
<1> PICK w \in Seq(D) : w = Without(s, I)
  BY WithoutKeeps
<1>1. FromInOrder(w, s)
  BY WithoutKeeps
<1>2. DOMAIN w \subseteq Nat /\ DOMAIN s \subseteq Nat
  BY LenProperties
<1>3. ASSUME NEW a \in DOMAIN w, NEW b \in DOMAIN w, a < b  PROVE w[a] # w[b]
  <2>1. PICK i, j \in DOMAIN s : i < j /\ w[a] = s[i] /\ w[b] = s[j]
    BY <1>1, <1>3 DEF FromInOrder
  <2>2. i # j
    BY <1>2, <2>1
  <2> QED  BY <2>1, <2>2 DEF IsInjective
<1>4. \A a, b \in DOMAIN w : a < b \/ b < a \/ a = b
  BY <1>2
<1> QED  BY <1>3, <1>4 DEF IsInjective

----------------------------------------------------------------------------
(* AppsTable: what GTK's sorted list does.                                  *)

\* Sorting keeps the items and puts them in order.
LEMMA SortedIs ==
    ASSUME NEW D, NEW l \in Seq(D), NEW ranks, \A x \in D : ranks[x] \in Nat
    PROVE  /\ Sorted(l, ranks) \in Seq(D)
           /\ ToSet(Sorted(l, ranks)) = ToSet(l)
           /\ InOrder(Sorted(l, ranks), ranks)
<1> DEFINE S == DOMAIN l
           Before(i, j) == \/ ranks[l[i]] < ranks[l[j]]
                           \/ ranks[l[i]] = ranks[l[j]] /\ i < j
           R == {p \in S \X S : Before(p[1], p[2])}
           Place(j) == 1 + Cardinality({i \in S : Before(i, j)})
           n == Cardinality(S)
           s == [k \in S |-> l[CHOOSE j \in S : Place(j) = k]]
<1>1. S = 1 .. Len(l) /\ Len(l) \in Nat /\ \A i \in S : l[i] \in D /\ ranks[l[i]] \in Nat
  BY LenProperties, ElementOfSeq
<1>2. Sorted(l, ranks) = s
  BY DEF Sorted
<1> HIDE DEF S
<1>3. IsFiniteSet(S) /\ n = Len(l) /\ S = 1 .. n
  <2>1. IsFiniteSet(1 .. Len(l)) /\ Cardinality(1 .. Len(l)) = Len(l)
    BY <1>1, FS_Interval
  <2> QED  BY <1>1, <2>1
<1>4. StrictOrder(S, R)
  <2>1. \A i, j \in S : <<i, j>> \in R <=> Before(i, j)
    OBVIOUS
  <2>2. \A i \in S : ~ Before(i, i)
    BY <1>1
  <2>3. \A i, j, k \in S : Before(i, j) /\ Before(j, k) => Before(i, k)
    BY <1>1
  <2>4. ASSUME NEW i \in S, NEW j \in S, i # j  PROVE Before(i, j) \/ Before(j, i)
    <3>1. ranks[l[i]] \in Nat /\ ranks[l[j]] \in Nat /\ i \in Nat /\ j \in Nat
      BY <1>1
    <3> QED  BY <2>4, <3>1
  <2> HIDE DEF R, Before
  <2> QED  BY <2>1, <2>2, <2>3, <2>4 DEF StrictOrder
<1>5. \A j \in S : Below(S, R, j) = {i \in S : Before(i, j)}
  BY DEF Below
<1>6. /\ \A j \in S : Place(j) \in 1 .. n
      /\ \A k \in 1 .. n : \E j \in S : Place(j) = k
  <2>1. /\ \A j \in S : 1 + Cardinality(Below(S, R, j)) \in 1 .. n
        /\ \A k \in 1 .. n : \E j \in S : 1 + Cardinality(Below(S, R, j)) = k
    <3> HIDE DEF R, Before
    <3> QED  BY <1>3, <1>4, Places
  <2>2. \A j \in S : 1 + Cardinality(Below(S, R, j)) = Place(j)
    BY <1>5
  <2> HIDE DEF R, Place
  <2> QED  BY <2>1, <2>2
<1>7. ASSUME NEW i \in S, NEW j \in S, Before(i, j)  PROVE Place(i) < Place(j)
  <2>1. <<i, j>> \in R
    BY <1>7
  <2>2. Cardinality(Below(S, R, i)) < Cardinality(Below(S, R, j))
    <3> HIDE DEF R
    <3> QED  BY <1>3, <1>4, <2>1, Places
  <2>3. Cardinality({k \in S : Before(k, i)}) < Cardinality({k \in S : Before(k, j)})
    BY <1>5, <2>2
  <2>4. /\ Cardinality({k \in S : Before(k, i)}) \in Nat
        /\ Cardinality({k \in S : Before(k, j)}) \in Nat
    <3>1. {k \in S : Before(k, i)} \in SUBSET S /\ {k \in S : Before(k, j)} \in SUBSET S
      OBVIOUS
    <3> HIDE DEF Before
    <3> QED  BY <1>3, <3>1, FS_Subset, FS_CardinalityType
  <2> HIDE DEF Before
  <2> QED  BY <2>3, <2>4
<1> DEFINE at == [k \in S |-> CHOOSE j \in S : Place(j) = k]
<1>8. \A k \in S : at[k] \in S /\ Place(at[k]) = k
  <2> HIDE DEF Place
  <2> QED  BY <1>3, <1>6
<1>9. \A k \in S : s[k] = l[at[k]]
  <2> HIDE DEF Place
  <2> QED  OBVIOUS
<1> HIDE DEF Place, at
<1>10. DOMAIN s = S /\ s \in Seq(D)
  <2>1. \A k \in S : s[k] \in D
    BY <1>1, <1>8, <1>9
  <2>2. DOMAIN s = 1 .. Len(l)
    BY <1>1
  <2> HIDE DEF s
  <2>3. s = [k \in 1 .. Len(l) |-> s[k]]
    BY <1>2, <2>2, Zenon DEF s
  <2> QED  BY <1>1, <2>1, <2>2, <2>3
<1> HIDE DEF s
<1>11. ToSet(s) = ToSet(l)
  <2>1. ASSUME NEW j \in S  PROVE \E k \in S : s[k] = l[j]
    <3>1. Place(j) \in S
      BY <1>3, <1>6
    <3>2. PICK i \in S : i = at[Place(j)] /\ Place(i) = Place(j) /\ s[Place(j)] = l[i]
      BY <1>8, <1>9, <3>1
    <3>3. ~ Before(i, j) /\ ~ Before(j, i)
      <4>1. Place(i) \in Nat /\ Place(j) \in Nat
        BY <1>3, <1>6
      <4> HIDE DEF Before
      <4> QED  BY <1>7, <3>2, <4>1
    <3>4. i = j
      <4>1. ranks[l[i]] \in Nat /\ ranks[l[j]] \in Nat /\ i \in Nat /\ j \in Nat
        BY <1>1
      <4> QED  BY <3>3, <4>1
    <3> QED  BY <3>1, <3>2, <3>4
  <2>2. \A k \in S : s[k] = l[at[k]] /\ at[k] \in S
    BY <1>8, <1>9
  <2>3. \A x \in ToSet(l) : x \in ToSet(s)
    BY <1>10, <2>1 DEF ToSet, S
  <2>4. ASSUME NEW x \in ToSet(s)  PROVE x \in ToSet(l)
    <3>1. PICK k \in S : x = s[k]
      BY <1>10 DEF ToSet
    <3> QED  BY <2>2, <3>1 DEF ToSet, S
  <2> QED  BY <2>3, <2>4
<1>12. ASSUME NEW i \in S, NEW j \in S, i < j  PROVE ranks[s[i]] <= ranks[s[j]]
  <2>1. /\ at[i] \in S /\ Place(at[i]) = i /\ s[i] = l[at[i]]
        /\ at[j] \in S /\ Place(at[j]) = j /\ s[j] = l[at[j]]
    BY <1>8, <1>9
  <2>2. ranks[l[at[i]]] \in Nat /\ ranks[l[at[j]]] \in Nat
    BY <1>1, <2>1
  <2>3. ~ Before(at[j], at[i])
    <3> HIDE DEF Before
    <3> QED  BY <1>1, <1>7, <1>12, <2>1
  <2>4. ~ (ranks[l[at[j]]] < ranks[l[at[i]]])
    BY <2>3
  <2>5. ranks[l[at[i]]] <= ranks[l[at[j]]]
    BY <2>2, <2>4
  <2> QED  BY <2>1, <2>5
<1> QED  BY <1>2, <1>10, <1>11, <1>12 DEF InOrder

----------------------------------------------------------------------------
(* AppsTable: records.                                                      *)

TableRecord ==
    [rows : Seq(RowType), registry : [Identities -> Nat], free : Seq(Nat),
     ranks : Seq(Nat), list : Seq(Nat), complained : BOOLEAN]

LEMMA RowIs ==
    ASSUME NEW r \in RowType
    PROVE  /\ r.proc \in Procs \union {NoProc} /\ r.key \in Procs \union {NoProc}
           /\ r.live \in BOOLEAN /\ r.shown \in BOOLEAN
BY DEF RowType

\* What the callbacks make of a row.
LEMMA RowMade ==
    /\ Hidden \in RowType
    /\ \A p \in Procs, b \in BOOLEAN :
          [proc |-> p, key |-> p, live |-> TRUE, shown |-> b] \in RowType
<1> PICK P : P = Procs \union {NoProc}
  OBVIOUS
<1>1. RowType = [proc : P, key : P, live : BOOLEAN, shown : BOOLEAN]
  BY DEF RowType
<1>2. NoProc \in P /\ Procs \subseteq P
  OBVIOUS
<1>3. Hidden \in RowType
  BY <1>1, <1>2 DEF Hidden
<1>4. ASSUME NEW p \in P, NEW b \in BOOLEAN
      PROVE  [proc |-> p, key |-> p, live |-> TRUE, shown |-> b] \in RowType
  BY <1>1
<1> QED  BY <1>2, <1>3, <1>4

LEMMA RowStamped ==
    ASSUME NEW r \in RowType, NEW p \in Procs \union {NoProc},
           NEW k \in Procs \union {NoProc}, NEW q, q = [r EXCEPT !.proc = p, !.key = k]
    PROVE  /\ q \in RowType
           /\ q.proc = p /\ q.key = k /\ q.live = r.live /\ q.shown = r.shown
BY DEF RowType

LEMMA RowRetired ==
    ASSUME NEW r \in RowType, NEW b \in BOOLEAN, NEW q, q = [r EXCEPT !.live = b]
    PROVE  /\ q \in RowType
           /\ q.proc = r.proc /\ q.key = r.key /\ q.live = b /\ q.shown = r.shown
BY DEF RowType

LEMMA RowRevealed ==
    ASSUME NEW r \in RowType, NEW q, q = [r EXCEPT !.shown = TRUE]
    PROVE  /\ q \in RowType
           /\ q.proc = r.proc /\ q.key = r.key /\ q.live = r.live /\ q.shown
BY DEF RowType

LEMMA RowRefreshed ==
    ASSUME NEW r \in RowType, NEW k \in Procs \union {NoProc}, NEW q,
           q = [r EXCEPT !.key = k]
    PROVE  /\ q \in RowType
           /\ q.proc = r.proc /\ q.key = k /\ q.live = r.live /\ q.shown = r.shown
BY DEF RowType

\* What is compared of a process is a number.
LEMMA ValueType ==
    ASSUME NEW p \in Procs \union {NoProc}, NEW c
    PROVE  Value(c, p) \in Nat
<1>1. Names \subseteq Nat
  BY TableAssumption
<1>2. p.name \in Nat /\ p.cpu \in Nat
  <2>1. CASE p \in Procs
    BY <1>1, <2>1 DEF Procs
  <2>2. CASE p = NoProc
    BY <2>2 DEF NoProc
  <2> QED  BY <2>1, <2>2
<1> QED  BY <1>2 DEF Value

\* A table is its rows, one to a place from 1 on.
LEMMA TableIs ==
    ASSUME NEW t \in TableRecord
    PROVE  /\ t.rows \in Seq(RowType) /\ Len(t.rows) \in Nat
           /\ Indices(t) = DOMAIN t.rows /\ Indices(t) = 1 .. Len(t.rows)
           /\ Indices(t) \subseteq Nat \ {NoRow} /\ IsFiniteSet(Indices(t))
           /\ \A i \in Indices(t) : t.rows[i] \in RowType
           /\ LiveRows(t) \subseteq Indices(t)
<1>1. t.rows \in Seq(RowType)
  BY DEF TableRecord
<1> PICK rows \in Seq(RowType) : rows = t.rows
  BY <1>1
<1>2. Len(rows) \in Nat /\ DOMAIN rows = 1 .. Len(rows) /\ \A i \in 1 .. Len(rows) : rows[i] \in RowType
  BY LenProperties, ElementOfSeq
<1>3. IsFiniteSet(1 .. Len(rows))
  BY <1>2, FS_Interval
<1> QED  BY <1>2, <1>3 DEF Indices, LiveRows, NoRow

LEMMA RowsAreSeq ==
    ASSUME NEW t \in TableRecord, NEW f, DOMAIN f = Indices(t), f = [i \in DOMAIN f |-> f[i]],
           \A i \in Indices(t) : f[i] \in RowType
    PROVE  f \in Seq(RowType) /\ Len(f) = Len(t.rows)
<1>1. Len(t.rows) \in Nat /\ Indices(t) = 1 .. Len(t.rows)
  BY TableIs
<1>2. f \in [1 .. Len(t.rows) -> RowType]
  BY <1>1
<1> QED  BY <1>1, <1>2

----------------------------------------------------------------------------
(* AppsTable: rows and processes.                                           *)

\* A snapshot finds each process or group by what it is.
GoodSnap(snap, byName) ==
    /\ DOMAIN snap \subseteq Identities
    /\ \A id \in DOMAIN snap : snap[id] \in Procs /\ Identity(snap[id], byName) = id

\* The rows in use are those of the snapshot, and the others are free once.
Filled(t, snap) ==
    /\ \A id \in Identities : t.registry[id] # NoRow <=> id \in DOMAIN snap
    /\ \A id \in DOMAIN snap : /\ t.registry[id] \in LiveRows(t)
                               /\ t.rows[t.registry[id]].proc = snap[id]
    /\ \A i \in LiveRows(t) : \E id \in DOMAIN snap : t.registry[id] = i
    /\ IsInjective(t.free)
    /\ ToSet(t.free) = Indices(t) \ LiveRows(t)

\* No two processes share a row.
LEMMA OneRowEach ==
    ASSUME NEW t, NEW snap, NEW byName, GoodSnap(snap, byName), Filled(t, snap),
           NEW a \in DOMAIN snap, NEW b \in DOMAIN snap, t.registry[a] = t.registry[b]
    PROVE  a = b
BY DEF GoodSnap, Filled

LEMMA StampedIs ==
    ASSUME NEW t \in TableRecord, NEW old, NEW snap, NEW byName, NEW held \in BOOLEAN,
           GoodSnap(old, byName), GoodSnap(snap, byName), Filled(t, old),
           NEW u, u = Stamped(t, snap, held)
    PROVE  /\ u \in TableRecord /\ Indices(u) = Indices(t)
           /\ u.registry = t.registry /\ u.free = t.free /\ u.ranks = t.ranks
           /\ u.list = t.list /\ u.complained = t.complained
           /\ \A i \in Indices(t) : /\ u.rows[i].live = t.rows[i].live
                                    /\ u.rows[i].shown = t.rows[i].shown
                                    /\ held => u.rows[i].key = t.rows[i].key
           /\ \A id \in DOMAIN snap \cap DOMAIN old :
                  LET row == u.rows[t.registry[id]]
                  IN  row.proc = snap[id] /\ (~held => row.key = snap[id])
           /\ \A i \in Indices(t) :
                  i \notin {t.registry[id] : id \in DOMAIN snap \cap DOMAIN old} =>
                      u.rows[i] = t.rows[i]
<1> DEFINE K == DOMAIN snap \cap DOMAIN old
           Ids(i) == {id \in Known(t, snap) : t.registry[id] = i}
           Key(i, p) == IF held THEN t.rows[i].key ELSE p
           Row(i) == IF Ids(i) = {} THEN t.rows[i]
                     ELSE LET p == snap[CHOOSE id \in Ids(i) : TRUE]
                          IN  [t.rows[i] EXCEPT !.proc = p,
                                                !.key = IF held THEN @ ELSE p]
           rows == [i \in Indices(t) |-> Row(i)]
<1>1. Known(t, snap) = K
  BY DEF Known, GoodSnap, Filled
<1>2. \A id \in K : t.registry[id] \in Indices(t) /\ Ids(t.registry[id]) = {id}
  <2>1. ASSUME NEW id \in K  PROVE t.registry[id] \in Indices(t) /\ Ids(t.registry[id]) = {id}
    <3>1. \A a \in Known(t, snap) : t.registry[a] = t.registry[id] => a = id
      BY <1>1, OneRowEach
    <3>2. id \in Ids(t.registry[id])
      BY <1>1
    <3> QED  BY <3>1, <3>2 DEF Filled, LiveRows
  <2> QED  BY <2>1
<1>3. ASSUME NEW id \in K, NEW i \in Indices(t), i = t.registry[id], NEW q, q = Row(i)
      PROVE  /\ q \in RowType /\ q.proc = snap[id] /\ q.key = Key(i, snap[id])
             /\ q.live = t.rows[i].live /\ q.shown = t.rows[i].shown
  <2>1. Ids(i) = {id}
    BY <1>2, <1>3
  <2> PICK row \in RowType : row = t.rows[i]
    BY TableIs
  <2> PICK p \in Procs \union {NoProc} : p = snap[id]
    BY DEF GoodSnap
  <2> PICK key : key = Key(i, snap[id])
    OBVIOUS
  <2>2. key \in Procs \union {NoProc}
    BY RowIs
  <2>3. q = [row EXCEPT !.proc = p, !.key = IF held THEN @ ELSE p]
    BY <1>3, <2>1
  <2>4. q = [row EXCEPT !.proc = p, !.key = key]
    BY <2>3 DEF RowType
  <2>5. /\ q \in RowType
        /\ q.proc = p /\ q.key = key /\ q.live = row.live /\ q.shown = row.shown
    <3> HIDE DEF Row, Key
    <3> QED  BY <2>2, <2>4 DEF RowType
  <2> QED  BY <2>5
<1>4. ASSUME NEW i \in Indices(t), i \notin {t.registry[id] : id \in K}
      PROVE  Row(i) = t.rows[i]
  BY <1>1, <1>4
<1>5. ASSUME NEW i \in Indices(t)
      PROVE  /\ Row(i) \in RowType
             /\ Row(i).live = t.rows[i].live /\ Row(i).shown = t.rows[i].shown
             /\ held => Row(i).key = t.rows[i].key
  <2>1. CASE i \in {t.registry[id] : id \in K}
    <3> PICK id \in K : i = t.registry[id]
      BY <2>1
    <3>1. held => Key(i, snap[id]) = t.rows[i].key
      OBVIOUS
    <3> HIDE DEF Row, Key
    <3> QED  BY <1>3, <3>1
  <2>2. CASE i \notin {t.registry[id] : id \in K}
    <3>1. Row(i) = t.rows[i]
      BY <1>4, <2>2
    <3> QED  BY <3>1, TableIs
  <2> QED  BY <2>1, <2>2
<1>6. Stamped(t, snap, held) = [t EXCEPT !.rows = rows]
  BY DEF Stamped
<1> HIDE DEF Row
<1>7. rows \in Seq(RowType) /\ \A i \in Indices(t) : rows[i] = Row(i)
  <2>1. DOMAIN rows = Indices(t) /\ rows = [i \in DOMAIN rows |-> rows[i]]
    OBVIOUS
  <2>2. \A i \in Indices(t) : rows[i] = Row(i)
    OBVIOUS
  <2> HIDE DEF rows
  <2> QED  BY <1>5, <2>1, <2>2, RowsAreSeq
<1>8. DOMAIN rows = Indices(t)
  OBVIOUS
<1> HIDE DEF rows
<1>9. /\ u \in TableRecord /\ u.rows = rows
      /\ u.registry = t.registry /\ u.free = t.free /\ u.ranks = t.ranks
      /\ u.list = t.list /\ u.complained = t.complained
  BY <1>6, <1>7 DEF TableRecord
<1>10. \A i \in Indices(t) : /\ u.rows[i].live = t.rows[i].live
                             /\ u.rows[i].shown = t.rows[i].shown
                             /\ held => u.rows[i].key = t.rows[i].key
  BY <1>5, <1>7, <1>9
<1>11. \A id \in K : LET row == u.rows[t.registry[id]]
                     IN  row.proc = snap[id] /\ (~held => row.key = snap[id])
  <2> SUFFICES ASSUME NEW id \in K
               PROVE  LET row == u.rows[t.registry[id]]
                      IN  row.proc = snap[id] /\ (~held => row.key = snap[id])
    OBVIOUS
  <2> PICK i \in Indices(t) : i = t.registry[id]
    BY <1>2
  <2>1. u.rows[i] = Row(i)
    BY <1>7, <1>9
  <2>2. ~held => Key(i, snap[id]) = snap[id]
    OBVIOUS
  <2>3. Row(i).proc = snap[id] /\ Row(i).key = Key(i, snap[id])
    BY <1>3
  <2> HIDE DEF Key
  <2> QED  BY <2>1, <2>2, <2>3
<1>12. \A i \in Indices(t) : i \notin {t.registry[id] : id \in K} => u.rows[i] = t.rows[i]
  BY <1>4, <1>7, <1>9
<1>13. Indices(u) = Indices(t)
  BY <1>8, <1>9 DEF Indices
<1> QED  BY <1>9, <1>10, <1>11, <1>12, <1>13

\* One sequence after another.
LEMMA ConcatHolds ==
    ASSUME NEW D, NEW a \in Seq(D), NEW b \in Seq(D)
    PROVE  /\ a \o b \in Seq(D)
           /\ ToSet(a \o b) = ToSet(a) \union ToSet(b)
           /\ IsInjective(a) /\ IsInjective(b) /\ ToSet(a) \cap ToSet(b) = {} =>
                 IsInjective(a \o b)
<1> PICK m \in Nat, n \in Nat, c \in Seq(D) : m = Len(a) /\ n = Len(b) /\ c = a \o b
  BY LenProperties, ConcatProperties
<1>1. DOMAIN a = 1 .. m /\ DOMAIN b = 1 .. n /\ DOMAIN c = 1 .. m + n
  BY LenProperties, ConcatProperties
<1>2. /\ \A i \in 1 .. m : c[i] = a[i]
      /\ \A i \in m + 1 .. m + n : i - m \in 1 .. n /\ c[i] = b[i - m]
  BY <1>1
<1>3. /\ \A i \in 1 .. m : i \in 1 .. m + n
      /\ \A i \in 1 .. n : i + m \in m + 1 .. m + n /\ i + m \in 1 .. m + n /\ (i + m) - m = i
      /\ \A i \in 1 .. m + n : i \in 1 .. m \/ i \in m + 1 .. m + n
  OBVIOUS
<1>4. ToSet(c) = ToSet(a) \union ToSet(b)
  <2>1. ASSUME NEW i \in 1 .. m  PROVE a[i] \in ToSet(c)
    BY <1>1, <1>2, <1>3 DEF ToSet
  <2>2. ASSUME NEW i \in 1 .. n  PROVE b[i] \in ToSet(c)
    <3>1. i + m \in DOMAIN c /\ c[i + m] = b[i]
      BY <1>1, <1>2, <1>3
    <3> QED  BY <3>1 DEF ToSet
  <2>3. ASSUME NEW i \in 1 .. m + n  PROVE c[i] \in ToSet(a) \union ToSet(b)
    BY <1>1, <1>2, <1>3 DEF ToSet
  <2>4. \A x \in ToSet(a) \union ToSet(b) : x \in ToSet(c)
    BY <1>1, <2>1, <2>2 DEF ToSet
  <2>5. \A x \in ToSet(c) : x \in ToSet(a) \union ToSet(b)
    <3> SUFFICES ASSUME NEW x \in ToSet(c)  PROVE x \in ToSet(a) \union ToSet(b)
      OBVIOUS
    <3>1. PICK i \in 1 .. m + n : x = c[i]
      BY <1>1 DEF ToSet
    <3> QED  BY <2>3, <3>1
  <2> QED  BY <2>4, <2>5
<1>5. ASSUME IsInjective(a), IsInjective(b), ToSet(a) \cap ToSet(b) = {}
      PROVE  IsInjective(c)
  <2> SUFFICES ASSUME NEW i \in 1 .. m + n, NEW j \in 1 .. m + n, c[i] = c[j]  PROVE i = j
    BY <1>1 DEF IsInjective
  <2>1. \A k \in 1 .. m : a[k] \in ToSet(a)
    BY <1>1 DEF ToSet
  <2>2. \A k \in 1 .. n : b[k] \in ToSet(b)
    BY <1>1 DEF ToSet
  <2>3. CASE i \in 1 .. m /\ j \in 1 .. m
    BY <1>1, <1>2, <1>5, <2>3 DEF IsInjective
  <2>4. CASE i \in m + 1 .. m + n /\ j \in m + 1 .. m + n
    <3> PICK x \in DOMAIN b, y \in DOMAIN b : x = i - m /\ y = j - m
      BY <1>1, <1>2, <2>4
    <3>1. b[x] = b[y]
      BY <1>2, <2>4
    <3>2. x = y
      BY <1>5, <3>1 DEF IsInjective
    <3> QED  BY <3>2
  <2>5. CASE i \in 1 .. m /\ j \in m + 1 .. m + n
    BY <1>2, <1>5, <2>1, <2>2, <2>5
  <2>6. CASE j \in 1 .. m /\ i \in m + 1 .. m + n
    BY <1>2, <1>5, <2>1, <2>2, <2>6
  <2> QED  BY <1>3, <2>3, <2>4, <2>5, <2>6
<1> QED  BY <1>4, <1>5

LEMMA AscendingOnce ==
    ASSUME NEW S \in SUBSET Nat, IsFiniteSet(S)
    PROVE  Ascending(S) \in Seq(Nat) /\ ToSet(Ascending(S)) = S /\ IsInjective(Ascending(S))
<1> PICK a \in Seq(S) : a = Ascending(S)
  BY AscendingLists
<1>1. /\ \A x \in S : \E k \in DOMAIN a : a[k] = x
      /\ \A i, j \in DOMAIN a : i < j => a[i] < a[j]
  BY AscendingLists
<1>2. DOMAIN a = 1 .. Len(a) /\ Len(a) \in Nat /\ \A k \in DOMAIN a : a[k] \in S
  BY LenProperties, ElementOfSeq
<1>3. a \in Seq(Nat) /\ \A k \in DOMAIN a : k \in Nat /\ a[k] \in Nat
  <2>1. S \subseteq Nat
    OBVIOUS
  <2>2. \A k \in DOMAIN a : a[k] \in Nat
    BY <1>2, <2>1
  <2>3. a \in [1 .. Len(a) -> Nat]
    BY <1>2, <2>2
  <2> QED  BY <1>2, <2>2, <2>3
<1>4. ToSet(a) = S
  BY <1>1, <1>2 DEF ToSet
<1>5. ASSUME NEW i \in DOMAIN a, NEW j \in DOMAIN a, a[i] = a[j]  PROVE i = j
  <2>1. i \in Nat /\ j \in Nat /\ a[i] \in Nat
    BY <1>3
  <2>2. ~ (i < j) /\ ~ (j < i)
    BY <1>1, <1>5, <2>1
  <2> QED  BY <2>1, <2>2
<1> QED  BY <1>3, <1>4, <1>5 DEF IsInjective

\* The rows of what the snapshot does not have are freed, and found no more.
LEMMA RetiredIs ==
    ASSUME NEW t \in TableRecord, NEW old, NEW snap, NEW byName \in BOOLEAN,
           GoodSnap(old, byName), GoodSnap(snap, byName), Filled(t, old),
           NEW kept, kept = [id \in DOMAIN snap \cap DOMAIN old |-> old[id]],
           NEW u, u = Retired(t, snap, byName)
    PROVE  /\ u \in TableRecord /\ Indices(u) = Indices(t)
           /\ u.ranks = t.ranks /\ u.list = t.list /\ u.complained = t.complained
           /\ \A i \in Indices(t) : /\ u.rows[i].proc = t.rows[i].proc
                                    /\ u.rows[i].key = t.rows[i].key
                                    /\ u.rows[i].shown = t.rows[i].shown
           /\ LiveRows(u) = {t.registry[id] : id \in DOMAIN snap \cap DOMAIN old}
           /\ LiveRows(u) \subseteq LiveRows(t)
           /\ Filled(u, kept)
<1> DEFINE K == DOMAIN snap \cap DOMAIN old
           Used == {t.registry[id] : id \in K}
           Away == Gone(t, snap)
           ids == {Identity(t.rows[i].proc, byName) : i \in Away}
           rows == [i \in Indices(t) |-> [t.rows[i] EXCEPT !.live = @ /\ i \notin Away]]
           registry == [id \in Identities |-> IF id \in ids THEN NoRow ELSE t.registry[id]]
<1>1. Known(t, snap) = K
  BY DEF Known, GoodSnap, Filled
<1>2. Away = LiveRows(t) \ Used
  BY <1>1 DEF Gone
<1>3. Used \subseteq LiveRows(t)
  BY DEF Filled
<1>4. \A id \in Identities : id \in ids <=> id \in DOMAIN old \ DOMAIN snap
  <2>1. ASSUME NEW id \in DOMAIN old \ DOMAIN snap  PROVE id \in ids
    <3>1. t.registry[id] \notin Used
      BY OneRowEach
    <3>2. t.registry[id] \in Away /\ t.rows[t.registry[id]].proc = old[id]
      BY <1>2, <3>1 DEF Filled
    <3>3. Identity(old[id], byName) = id
      BY DEF GoodSnap
    <3> QED  BY <3>2, <3>3
  <2>2. ASSUME NEW i \in Away
        PROVE  \E id \in DOMAIN old \ DOMAIN snap : id = Identity(t.rows[i].proc, byName)
    <3>1. PICK id \in DOMAIN old : t.registry[id] = i
      BY <1>2 DEF Filled
    <3>2. id \notin DOMAIN snap
      BY <1>2, <3>1
    <3> QED  BY <3>1, <3>2 DEF Filled, GoodSnap
  <2> QED  BY <2>1, <2>2
<1>5. u = [t EXCEPT !.rows = rows, !.registry = registry, !.free = t.free \o Ascending(Away)]
  BY DEF Retired, TableRecord
<1>6. /\ rows \in Seq(RowType) /\ DOMAIN rows = Indices(t)
      /\ \A i \in Indices(t) : /\ rows[i].proc = t.rows[i].proc /\ rows[i].key = t.rows[i].key
                               /\ rows[i].shown = t.rows[i].shown
                               /\ rows[i].live <=> t.rows[i].live /\ i \notin Away
  <2>1. ASSUME NEW i \in Indices(t)
        PROVE  /\ rows[i] \in RowType
               /\ rows[i].proc = t.rows[i].proc /\ rows[i].key = t.rows[i].key
               /\ rows[i].shown = t.rows[i].shown
               /\ rows[i].live <=> t.rows[i].live /\ i \notin Away
    <3> PICK r \in RowType, b \in BOOLEAN : r = t.rows[i] /\ b = (r.live /\ i \notin Away)
      BY TableIs, RowIs
    <3>1. rows[i] = [r EXCEPT !.live = b]
      BY DEF RowType
    <3> PICK q : q = rows[i]
      OBVIOUS
    <3> HIDE DEF rows, Away
    <3>2. /\ q \in RowType
          /\ q.proc = r.proc /\ q.key = r.key /\ q.live = b /\ q.shown = r.shown
      BY <3>1 DEF RowType
    <3> QED  BY <3>2
  <2>2. DOMAIN rows = Indices(t) /\ rows = [i \in DOMAIN rows |-> rows[i]]
    OBVIOUS
  <2> HIDE DEF rows
  <2> QED  BY <2>1, <2>2, RowsAreSeq
<1>7. registry \in [Identities -> Nat]
  BY DEF TableRecord, NoRow
<1>8. /\ t.free \o Ascending(Away) \in Seq(Nat) /\ IsInjective(t.free \o Ascending(Away))
      /\ ToSet(t.free \o Ascending(Away)) = ToSet(t.free) \union Away
  <2>1. Away \in SUBSET Nat /\ IsFiniteSet(Away)
    <3>1. Away \in SUBSET Indices(t)
      BY <1>2, TableIs
    <3> HIDE DEF Away
    <3> QED  BY <3>1, TableIs, FS_Subset
  <2>2. /\ Ascending(Away) \in Seq(Nat) /\ ToSet(Ascending(Away)) = Away
        /\ IsInjective(Ascending(Away))
    <3> HIDE DEF Away
    <3> QED  BY <2>1, AscendingOnce
  <2>3. t.free \in Seq(Nat) /\ IsInjective(t.free) /\ ToSet(t.free) \cap Away = {}
    BY <1>2 DEF TableRecord, Filled
  <2> HIDE DEF Away
  <2> QED  BY <2>2, <2>3, ConcatHolds
<1> HIDE DEF rows, registry, Away
<1>9. /\ u \in TableRecord /\ u.rows = rows /\ u.registry = registry
      /\ u.free = t.free \o Ascending(Away)
      /\ u.ranks = t.ranks /\ u.list = t.list /\ u.complained = t.complained
  BY <1>5, <1>6, <1>7, <1>8 DEF TableRecord
<1>10. Indices(u) = Indices(t)
  BY <1>6, <1>9 DEF Indices
<1>11. LiveRows(u) = Used
  BY <1>2, <1>3, <1>6, <1>9, <1>10 DEF LiveRows
<1>12. \A id \in Identities : u.registry[id] = IF id \in ids THEN NoRow ELSE t.registry[id]
  BY <1>9 DEF registry
<1>13. Filled(u, kept)
  <2>1. DOMAIN kept = K /\ \A id \in K : kept[id] = old[id] /\ id \in Identities
    BY DEF GoodSnap
  <2>2. \A id \in Identities : u.registry[id] # NoRow <=> id \in K
    <3> HIDE DEF ids
    <3> QED  BY <1>4, <1>12 DEF Filled
  <2>3. \A id \in K : u.registry[id] = t.registry[id]
    <3> HIDE DEF ids
    <3> QED  BY <1>4, <1>12, <2>1
  <2>4. \A id \in K : u.registry[id] \in LiveRows(u) /\ u.rows[u.registry[id]].proc = kept[id]
    <3> SUFFICES ASSUME NEW id \in K
                 PROVE  /\ u.registry[id] \in LiveRows(u)
                        /\ u.rows[u.registry[id]].proc = kept[id]
      OBVIOUS
    <3>1. u.registry[id] \in Used /\ t.rows[u.registry[id]].proc = old[id]
      BY <2>3 DEF Filled
    <3>2. u.registry[id] \in Indices(t)
      BY <1>3, <3>1, TableIs
    <3> HIDE DEF Used
    <3> QED  BY <1>6, <1>9, <1>11, <2>1, <3>1, <3>2
  <2>5. \A i \in LiveRows(u) : \E id \in K : u.registry[id] = i
    BY <1>11, <2>3
  <2>6. ToSet(u.free) = Indices(u) \ LiveRows(u)
    <3>1. ToSet(t.free) = Indices(t) \ LiveRows(t) /\ LiveRows(t) \subseteq Indices(t)
      BY TableIs DEF Filled
    <3> HIDE DEF Used
    <3> QED  BY <1>2, <1>3, <1>8, <1>9, <1>10, <1>11, <3>1
  <2> HIDE DEF K
  <2> QED  BY <1>8, <1>9, <2>1, <2>2, <2>4, <2>5, <2>6 DEF Filled
<1>14. LiveRows(u) = {t.registry[id] : id \in DOMAIN snap \cap DOMAIN old}
  BY <1>11
<1> HIDE DEF Used
<1> QED  BY <1>3, <1>6, <1>9, <1>10, <1>11, <1>13, <1>14

\* The new processes, each once.
Lists(new, S) == new \in Seq(S) /\ IsInjective(new) /\ ToSet(new) = S

\* A row for each new process: a free one, or one after the last.
Takes(row, N, usable, L) ==
    /\ L \in Nat /\ N \in Nat
    /\ usable \in Seq(1 .. L) /\ IsInjective(usable)
    /\ DOMAIN row = 1 .. N
    /\ \A n \in 1 .. N : row[n] = IF n <= Len(usable) THEN usable[Len(usable) + 1 - n]
                                  ELSE L + n - Len(usable)

LEMMA RowsTaken ==
    ASSUME NEW L, NEW usable, NEW N, NEW row, Takes(row, N, usable, L)
    PROVE  /\ IsInjective(row)
           /\ \A n \in 1 .. N : row[n] \in ToSet(usable) \/ (row[n] \in Nat /\ row[n] > L)
           /\ \E size \in Nat : /\ size >= L
                                /\ (1 .. L) \union ToSet(row) = 1 .. size
                                /\ Cardinality((1 .. L) \union ToSet(row)) = size
<1> /\ L \in Nat /\ N \in Nat /\ usable \in Seq(1 .. L) /\ IsInjective(usable)
    /\ DOMAIN row = 1 .. N
    /\ \A n \in 1 .. N : row[n] = IF n <= Len(usable) THEN usable[Len(usable) + 1 - n]
                                  ELSE L + n - Len(usable)
  BY DEF Takes
<1> PICK U \in Nat : U = Len(usable)
  BY LenProperties
<1>1. DOMAIN usable = 1 .. U /\ \A n \in 1 .. U : usable[n] \in 1 .. L
  BY LenProperties, ElementOfSeq
<1>2. \A n \in 1 .. N : /\ n <= U => U + 1 - n \in 1 .. U /\ row[n] = usable[U + 1 - n]
                        /\ ~ (n <= U) => row[n] = L + n - U /\ row[n] \in Nat /\ row[n] > L
  OBVIOUS
<1>3. DOMAIN row = 1 .. N
  OBVIOUS
<1> HIDE DEF ToSet
<1>4. \A n \in 1 .. N : n <= U => row[n] \in ToSet(usable) /\ row[n] \in 1 .. L
  BY <1>1, <1>2 DEF ToSet
<1>5. ASSUME NEW m \in 1 .. N, NEW n \in 1 .. N, row[m] = row[n]  PROVE m = n
  <2>1. CASE m <= U /\ n <= U
    <3>1. usable[U + 1 - m] = usable[U + 1 - n] /\ U + 1 - m \in DOMAIN usable
          /\ U + 1 - n \in DOMAIN usable
      BY <1>1, <1>2, <1>5, <2>1
    <3>2. U + 1 - m = U + 1 - n
      BY <3>1 DEF IsInjective
    <3> QED  BY <3>2
  <2>2. CASE ~ (m <= U) /\ ~ (n <= U)
    <3>1. L + m - U = L + n - U
      BY <1>2, <1>5, <2>2
    <3> QED  BY <3>1
  <2>3. CASE m <= U /\ ~ (n <= U)
    <3>1. row[m] \in 1 .. L /\ row[n] > L
      BY <1>2, <1>4, <2>3
    <3> QED  BY <1>5, <3>1
  <2>4. CASE ~ (m <= U) /\ n <= U
    <3>1. row[n] \in 1 .. L /\ row[m] > L
      BY <1>2, <1>4, <2>4
    <3> QED  BY <1>5, <3>1
  <2> QED  BY <2>1, <2>2, <2>3, <2>4
<1>6. IsInjective(row)
  BY <1>3, <1>5 DEF IsInjective
<1> DEFINE size == IF N <= U THEN L ELSE L + N - U
<1>10. size \in Nat /\ (N <= U => size = L) /\ (~ (N <= U) => size = L + N - U)
  OBVIOUS
<1> HIDE DEF size
<1>7. size \in Nat /\ size >= L
  BY <1>10
<1>8. (1 .. L) \union ToSet(row) = 1 .. size
  <2>1. ASSUME NEW n \in 1 .. N  PROVE row[n] \in 1 .. size
    <3>1. CASE n <= U
      BY <1>4, <1>7, <3>1
    <3>2. CASE ~ (n <= U)
      BY <1>2, <1>10, <3>2
    <3> QED  BY <3>1, <3>2
  <2>2. \A x \in ToSet(row) : x \in 1 .. size
    <3> SUFFICES ASSUME NEW x \in ToSet(row)  PROVE x \in 1 .. size
      OBVIOUS
    <3>1. PICK n \in 1 .. N : x = row[n]
      BY <1>3 DEF ToSet
    <3> QED  BY <2>1, <3>1
  <2>3. ASSUME NEW i \in 1 .. size, i \notin 1 .. L  PROVE i \in ToSet(row)
    <3>1. i + U - L \in 1 .. N /\ ~ (i + U - L <= U) /\ L + (i + U - L) - U = i
      BY <1>10, <2>3
    <3>2. row[i + U - L] = i
      BY <1>2, <3>1
    <3> QED  BY <1>3, <3>1, <3>2 DEF ToSet
  <2>4. \A i \in 1 .. L : i \in 1 .. size
    BY <1>7
  <2> QED  BY <2>2, <2>3, <2>4
<1>9. Cardinality((1 .. L) \union ToSet(row)) = size
  <2>1. Cardinality(1 .. size) = IF 1 > size THEN 0 ELSE size - 1 + 1
    BY <1>7, FS_Interval
  <2>2. (IF 1 > size THEN 0 ELSE size - 1 + 1) = size
    BY <1>7
  <2> QED  BY <1>8, <2>1, <2>2
<1> QED  BY <1>2, <1>4, <1>6, <1>7, <1>8, <1>9

PartOf(kept, snap) ==
    DOMAIN kept \subseteq DOMAIN snap /\ \A id \in DOMAIN kept : kept[id] = snap[id]

Gives(u, t, kept, snap, byName, new, held) ==
    /\ t \in TableRecord /\ held \in BOOLEAN
    /\ GoodSnap(snap, byName) /\ Filled(t, kept) /\ PartOf(kept, snap)
    /\ Lists(new, DOMAIN snap \ DOMAIN kept)
    /\ u = Given(t, snap, new, held)

\* Each new process is in a row of its own that was free, and found there.
LEMMA GivenIs ==
    ASSUME NEW t, NEW kept, NEW snap, NEW byName, NEW held, NEW new, NEW u,
           Gives(u, t, kept, snap, byName, new, held)
    PROVE  /\ u \in TableRecord
           /\ u.ranks = t.ranks /\ u.list = t.list /\ u.complained = t.complained
           /\ Indices(t) \subseteq Indices(u)
           /\ \A i \in Indices(u) : u.rows[i].shown <=> i \in Indices(t) /\ t.rows[i].shown
           /\ \A i \in Indices(t) : i \in LiveRows(t) \/ (held /\ t.rows[i].shown)
                                        => u.rows[i] = t.rows[i]
           /\ LiveRows(t) \subseteq LiveRows(u)
           /\ \A i \in LiveRows(u) \ LiveRows(t) : u.rows[i].key = u.rows[i].proc
           /\ Filled(u, snap)
<1> DEFINE usable == Usable(t, held)
           row == [n \in DOMAIN new |->
                      IF n <= Len(usable) THEN usable[Len(usable) + 1 - n]
                      ELSE Len(t.rows) + n - Len(usable)]
           taken == ToSet(row)
           Fresh(i) == LET p == snap[new[CHOOSE n \in DOMAIN new : row[n] = i]]
                       IN  [proc |-> p, key |-> p, live |-> TRUE,
                            shown |-> i \in Indices(t) /\ t.rows[i].shown]
           size == Cardinality(Indices(t) \union taken)
           rows == [i \in 1 .. size |-> IF i \in taken THEN Fresh(i) ELSE t.rows[i]]
           registry == [id \in Identities |->
                           IF id \in ToSet(new)
                           THEN row[CHOOSE n \in DOMAIN new : new[n] = id]
                           ELSE t.registry[id]]
           left == Without(t.free, taken)
           S == DOMAIN snap \ DOMAIN kept
<1> /\ t \in TableRecord /\ held \in BOOLEAN
    /\ GoodSnap(snap, byName) /\ Filled(t, kept) /\ PartOf(kept, snap)
    /\ Lists(new, DOMAIN snap \ DOMAIN kept)
    /\ u = Given(t, snap, new, held)
  BY DEF Gives
<1>0. DOMAIN kept \subseteq DOMAIN snap /\ \A id \in DOMAIN kept : kept[id] = snap[id]
  BY DEF PartOf
<1>1. CASE new = <<>>
  <2>1. S = {}
    BY <1>1 DEF Lists, ToSet
  <2>2. u = t
    BY <1>1 DEF Given
  <2>3. \A i \in Indices(t) : t.rows[i].shown \in BOOLEAN
    BY TableIs, RowIs
  <2> QED  BY <1>0, <2>1, <2>2, <2>3 DEF Filled
<1>2. CASE new # <<>>
  <2>1. u = [t EXCEPT !.rows = rows, !.registry = registry, !.free = left]
    BY <1>2 DEF Given, TableRecord
  <2>2. t.free \in Seq(Nat) /\ t.free \in Seq(Indices(t)) /\ IsInjective(t.free)
    <3>1. t.free \in Seq(Nat) /\ IsInjective(t.free) /\ ToSet(t.free) \subseteq Indices(t)
      BY DEF TableRecord, Filled
    <3> PICK free \in Seq(Nat) : free = t.free
      BY <3>1
    <3>2. \A k \in 1 .. Len(free) : free[k] \in Indices(t)
      BY <3>1, LenProperties DEF ToSet
    <3>3. free \in [1 .. Len(free) -> Indices(t)]
      BY <3>2, LenProperties
    <3> QED  BY <3>1, <3>3, LenProperties
  <2>3. /\ usable \in Seq(Indices(t)) /\ IsInjective(usable)
        /\ ToSet(usable) \subseteq Indices(t) \ LiveRows(t)
        /\ \A i \in ToSet(usable) : ~ (held /\ t.rows[i].shown)
    <3> DEFINE I == {i \in Indices(t) : held /\ t.rows[i].shown}
    <3>1. usable = Without(t.free, I)
      BY DEF Usable
    <3>2. ToSet(t.free) = Indices(t) \ LiveRows(t)
      BY DEF Filled
    <3>3. Without(t.free, I) \in Seq(Indices(t)) /\ ToSet(Without(t.free, I)) = ToSet(t.free) \ I
      <4> HIDE DEF I
      <4> QED  BY <2>2, WithoutKeeps
    <3>4. IsInjective(Without(t.free, I))
      <4> HIDE DEF I
      <4> QED  BY <2>2, WithoutOnce
    <3>5. \A i \in ToSet(t.free) \ I : ~ (held /\ t.rows[i].shown)
      BY <3>2
    <3> HIDE DEF I, usable
    <3> QED  BY <3>1, <3>2, <3>3, <3>4, <3>5
  <2>4. PICK N \in Nat : DOMAIN new = 1 .. N /\ \A n \in 1 .. N : new[n] \in S
    BY LenProperties, ElementOfSeq DEF Lists
  <2>5. Len(t.rows) \in Nat /\ Indices(t) = 1 .. Len(t.rows)
    BY TableIs
  <2>6. /\ IsInjective(row) /\ DOMAIN row = 1 .. N
        /\ \A n \in 1 .. N : row[n] \in ToSet(usable) \/ (row[n] \in Nat /\ row[n] > Len(t.rows))
        /\ size \in Nat /\ size >= Len(t.rows) /\ Indices(t) \union taken = 1 .. size
    <3> PICK L \in Nat : L = Len(t.rows)
      BY <2>5
    <3> PICK U \in Seq(1 .. L) : U = usable
      BY <2>3, <2>5
    <3> PICK R : R = row
      OBVIOUS
    <3>1. /\ DOMAIN R = 1 .. N
          /\ \A n \in 1 .. N : R[n] = IF n <= Len(U) THEN U[Len(U) + 1 - n] ELSE L + n - Len(U)
      BY <2>4
    <3>2. IsInjective(U)
      BY <2>3
    <3>3. /\ IsInjective(R)
          /\ \A n \in 1 .. N : R[n] \in ToSet(U) \/ (R[n] \in Nat /\ R[n] > L)
          /\ \E z \in Nat : /\ z >= L /\ (1 .. L) \union ToSet(R) = 1 .. z
                            /\ Cardinality((1 .. L) \union ToSet(R)) = z
      <4>1. Takes(R, N, U, L)
        BY <3>1, <3>2 DEF Takes
      <4> HIDE DEF Takes, usable, row, taken, size
      <4>2. IsInjective(R)
        BY <4>1, RowsTaken
      <4>3. \A n \in 1 .. N : R[n] \in ToSet(U) \/ (R[n] \in Nat /\ R[n] > L)
        BY <4>1, RowsTaken
      <4>4. \E z \in Nat : /\ z >= L /\ (1 .. L) \union ToSet(R) = 1 .. z
                           /\ Cardinality((1 .. L) \union ToSet(R)) = z
        BY <4>1, RowsTaken
      <4> QED  BY <4>2, <4>3, <4>4
    <3>4. DOMAIN R = 1 .. N
      BY <3>1
    <3>5. size = Cardinality((1 .. L) \union ToSet(R)) /\ Indices(t) \union taken = (1 .. L) \union ToSet(R)
      BY <2>5
    <3> HIDE DEF usable, row, taken, size
    <3> QED  BY <3>3, <3>4, <3>5
  <2> HIDE DEF usable, row
  <2>7. /\ \A i \in taken : \E n \in 1 .. N : row[n] = i
        /\ \A n \in 1 .. N : row[n] \in taken
    BY <2>6 DEF ToSet
  <2>8. \A i \in taken : i \notin LiveRows(t) /\ ~ (i \in Indices(t) /\ held /\ t.rows[i].shown)
    <3> SUFFICES ASSUME NEW i \in taken
                 PROVE  i \notin LiveRows(t) /\ ~ (i \in Indices(t) /\ held /\ t.rows[i].shown)
      OBVIOUS
    <3>1. i \in ToSet(usable) \/ (i \in Nat /\ i > Len(t.rows))
      BY <2>6, <2>7
    <3>2. i > Len(t.rows) /\ i \in Nat => i \notin Indices(t)
      BY <2>5
    <3> QED  BY <2>3, <3>1, <3>2, TableIs
  <2>9. ASSUME NEW n \in 1 .. N
        PROVE  /\ row[n] \in taken /\ row[n] \in 1 .. size
               /\ (CHOOSE m \in DOMAIN new : row[m] = row[n]) = n
               /\ new[n] \in ToSet(new)
               /\ (CHOOSE m \in DOMAIN new : new[m] = new[n]) = n
               /\ new[n] \in DOMAIN snap /\ new[n] \notin DOMAIN kept
               /\ new[n] \in Identities /\ snap[new[n]] \in Procs
    <3>1. row[n] \in taken
      BY <2>7
    <3>2. \A m \in 1 .. N : row[m] = row[n] => m = n
      BY <2>6 DEF IsInjective
    <3>3. \A m \in 1 .. N : new[m] = new[n] => m = n
      BY <2>4 DEF IsInjective, Lists
    <3>4. row[n] \in 1 .. size
      <4> HIDE DEF taken, size
      <4> QED  BY <2>6, <3>1
    <3>5. new[n] \in ToSet(new)
      BY <2>4 DEF ToSet
    <3>6. new[n] \in S
      BY <2>4
    <3> HIDE DEF taken, size
    <3> QED  BY <2>4, <3>1, <3>2, <3>3, <3>4, <3>5, <3>6 DEF GoodSnap
  <2>10. ASSUME NEW n \in 1 .. N, NEW i, i = row[n], NEW q, q = rows[i]
         PROVE  /\ q \in RowType /\ q.proc = snap[new[n]] /\ q.key = snap[new[n]] /\ q.live
                /\ q.shown <=> i \in Indices(t) /\ t.rows[i].shown
    <3>1. rows[i] = Fresh(i)
      <4> HIDE DEF Fresh, taken, size
      <4> QED  BY <2>9, <2>10
    <3>2. (CHOOSE m \in DOMAIN new : row[m] = i) = n
      BY <2>9, <2>10
    <3> PICK p \in Procs : p = snap[new[n]]
      BY <2>9
    <3> PICK b \in BOOLEAN : b <=> i \in Indices(t) /\ t.rows[i].shown
      OBVIOUS
    <3>3. t.rows[i].shown \in BOOLEAN \/ i \notin Indices(t)
      BY TableIs, RowIs
    <3>4. q = [proc |-> p, key |-> p, live |-> TRUE,
               shown |-> i \in Indices(t) /\ t.rows[i].shown]
      BY <2>10, <3>1, <3>2
    <3>5. (i \in Indices(t) /\ t.rows[i].shown) = b
      BY <3>3
    <3> HIDE DEF rows
    <3>6. q = [proc |-> p, key |-> p, live |-> TRUE, shown |-> b]
      BY <3>4, <3>5
    <3>7. q \in RowType
      BY <3>6, RowMade
    <3> QED  BY <3>6, <3>7
  <2>11. ASSUME NEW i \in 1 .. size, i \notin taken  PROVE i \in Indices(t) /\ rows[i] = t.rows[i]
    <3> HIDE DEF taken, size, Fresh
    <3> QED  BY <2>6, <2>11
  <2>12. rows \in Seq(RowType) /\ DOMAIN rows = 1 .. size
    <3>1. ASSUME NEW i \in 1 .. size  PROVE rows[i] \in RowType
      <4>1. CASE i \in taken
        <5>1. PICK n \in 1 .. N : i = row[n]
          BY <2>7, <4>1
        <5> HIDE DEF rows
        <5> QED  BY <2>10, <5>1
      <4>2. CASE i \notin taken
        <5>1. i \in Indices(t) /\ rows[i] = t.rows[i]
          BY <2>11, <4>2
        <5> HIDE DEF rows
        <5> QED  BY <5>1, TableIs
      <4> QED  BY <4>1, <4>2
    <3>2. DOMAIN rows = 1 .. size /\ rows = [i \in 1 .. size |-> rows[i]]
      OBVIOUS
    <3>3. rows \in [1 .. size -> RowType]
      <4> HIDE DEF rows, size
      <4> QED  BY <3>1, <3>2
    <3> HIDE DEF rows, size
    <3> QED  BY <2>6, <3>2, <3>3
  <2>13. /\ \A id \in Identities : id \notin ToSet(new) => registry[id] = t.registry[id]
         /\ \A n \in 1 .. N : registry[new[n]] = row[n]
    <3> HIDE DEF row
    <3> QED  BY <2>9
  <2>14. registry \in [Identities -> Nat]
    <3>1. ASSUME NEW id \in Identities  PROVE registry[id] \in Nat
      <4>1. CASE id \in ToSet(new)
        <5>1. PICK n \in 1 .. N : id = new[n]
          BY <2>4, <4>1 DEF ToSet
        <5>2. row[n] \in 1 .. size
          BY <2>9
        <5> HIDE DEF registry, size
        <5> QED  BY <2>13, <5>1, <5>2
      <4>2. CASE id \notin ToSet(new)
        <5>1. registry[id] = t.registry[id]
          BY <2>13, <4>2
        <5> HIDE DEF registry
        <5> QED  BY <5>1 DEF TableRecord
      <4> QED  BY <4>1, <4>2
    <3>2. registry = [id \in Identities |-> registry[id]]
      OBVIOUS
    <3> HIDE DEF registry
    <3> QED  BY <3>1, <3>2
  <2>15. /\ left \in Seq(Nat) /\ IsInjective(left)
         /\ ToSet(left) = (Indices(t) \ LiveRows(t)) \ taken
    <3> HIDE DEF taken
    <3> QED  BY <2>2, WithoutKeeps, WithoutOnce DEF Filled
  <2> HIDE DEF rows, registry, left, taken, size
  <2>16. /\ u \in TableRecord /\ u.rows = rows /\ u.registry = registry /\ u.free = left
         /\ u.ranks = t.ranks /\ u.list = t.list /\ u.complained = t.complained
    BY <2>1, <2>12, <2>14, <2>15 DEF TableRecord
  <2>17. Indices(u) = 1 .. size /\ Indices(t) \subseteq Indices(u)
    BY <2>6, <2>12, <2>16 DEF Indices
  <2>18. ASSUME NEW i \in taken
         PROVE  \E n \in 1 .. N : /\ i = row[n] /\ i \in Indices(u) /\ u.rows[i].live
                                  /\ u.rows[i].proc = snap[new[n]]
                                  /\ u.rows[i].key = u.rows[i].proc
                                  /\ u.rows[i].shown <=> i \in Indices(t) /\ t.rows[i].shown
    BY <2>7, <2>9, <2>10, <2>16, <2>17
  <2>19. \A i \in Indices(u) \ taken : i \in Indices(t) /\ u.rows[i] = t.rows[i]
    BY <2>11, <2>16, <2>17
  <2>20. /\ LiveRows(u) = LiveRows(t) \union taken
         /\ \A i \in Indices(t) : i \notin taken => i \in Indices(u) /\ u.rows[i] = t.rows[i]
    <3>1. \A i \in Indices(t) : i \notin taken => i \in Indices(u) /\ u.rows[i] = t.rows[i]
      BY <2>17, <2>19
    <3>2. \A i \in taken : i \in LiveRows(u)
      BY <2>18 DEF LiveRows
    <3>3. \A i \in LiveRows(t) : i \in LiveRows(u)
      BY <2>8, <3>1 DEF LiveRows
    <3>4. \A i \in LiveRows(u) : i \in LiveRows(t) \/ i \in taken
      BY <2>19 DEF LiveRows
    <3> QED  BY <3>1, <3>2, <3>3, <3>4
  <2>21. \A i \in Indices(u) : u.rows[i].shown <=> i \in Indices(t) /\ t.rows[i].shown
    <3>1. \A i \in Indices(u) \ taken : u.rows[i].shown <=> i \in Indices(t) /\ t.rows[i].shown
      <4> SUFFICES ASSUME NEW i \in Indices(u) \ taken
                   PROVE  u.rows[i].shown <=> i \in Indices(t) /\ t.rows[i].shown
        OBVIOUS
      <4>1. i \in Indices(t) /\ u.rows[i] = t.rows[i]
        BY <2>19
      <4>2. t.rows[i].shown \in BOOLEAN
        BY <4>1, TableIs, RowIs
      <4> QED  BY <4>1, <4>2
    <3> QED  BY <2>18, <3>1
  <2>22. ASSUME NEW id \in DOMAIN kept
         PROVE  /\ id \in Identities /\ id \in DOMAIN snap /\ u.registry[id] = t.registry[id]
                /\ u.registry[id] \in LiveRows(t) /\ u.registry[id] \notin taken
                /\ u.rows[u.registry[id]].proc = snap[id]
    <3>1. id \in Identities /\ id \in DOMAIN snap
      BY <1>0 DEF GoodSnap
    <3>2. id \notin ToSet(new)
      BY DEF Lists
    <3>3. u.registry[id] = t.registry[id]
      BY <2>13, <2>16, <3>1, <3>2
    <3>4. t.registry[id] \in LiveRows(t) /\ t.rows[t.registry[id]].proc = snap[id]
      BY <1>0 DEF Filled
    <3> QED  BY <2>8, <2>20, <3>1, <3>3, <3>4, TableIs
  <2>23. ASSUME NEW id \in S
         PROVE  \E n \in 1 .. N : /\ id = new[n] /\ u.registry[id] = row[n]
                                  /\ u.registry[id] \in taken
                                  /\ u.rows[u.registry[id]].proc = snap[id]
    <3>1. PICK n \in 1 .. N : id = new[n]
      BY <2>4 DEF Lists, ToSet
    <3>2. u.registry[id] = row[n]
      BY <2>13, <2>16, <3>1
    <3>3. row[n] \in taken
      BY <2>7
    <3>4. u.rows[row[n]].proc = snap[new[n]]
      BY <2>10, <2>16
    <3> QED  BY <3>1, <3>2, <3>3, <3>4
  <2>24. \A id \in Identities : u.registry[id] # NoRow <=> id \in DOMAIN snap
    <3> SUFFICES ASSUME NEW id \in Identities
                 PROVE  u.registry[id] # NoRow <=> id \in DOMAIN snap
      OBVIOUS
    <3>1. NoRow \notin Indices(u)
      BY <2>16, TableIs
    <3>2. CASE id \in S
      <4>1. u.registry[id] \in taken
        BY <2>23, <3>2
      <4> QED  BY <2>18, <3>1, <3>2, <4>1
    <3>3. CASE id \in DOMAIN kept
      <4>1. id \in DOMAIN snap /\ u.registry[id] \in LiveRows(t)
        BY <2>22, <3>3
      <4> QED  BY <2>17, <3>1, <4>1, TableIs
    <3>4. CASE id \notin DOMAIN snap
      <4>1. id \notin ToSet(new)
        BY <3>4 DEF Lists
      <4>2. u.registry[id] = t.registry[id]
        BY <2>13, <2>16, <4>1
      <4> QED  BY <1>0, <3>4, <4>2 DEF Filled
    <3> QED  BY <3>2, <3>3, <3>4
  <2>25. \A id \in DOMAIN snap : /\ u.registry[id] \in LiveRows(u)
                                 /\ u.rows[u.registry[id]].proc = snap[id]
    BY <2>20, <2>22, <2>23
  <2>26. \A i \in LiveRows(u) : \E id \in DOMAIN snap : u.registry[id] = i
    <3> SUFFICES ASSUME NEW i \in LiveRows(u)  PROVE \E id \in DOMAIN snap : u.registry[id] = i
      OBVIOUS
    <3>1. CASE i \in taken
      <4>1. PICK n \in 1 .. N : i = row[n]
        BY <2>7, <3>1
      <4> QED  BY <2>9, <2>13, <2>16, <4>1
    <3>2. CASE i \in LiveRows(t)
      <4>1. PICK id \in DOMAIN kept : t.registry[id] = i
        BY <3>2 DEF Filled
      <4> QED  BY <2>22, <4>1
    <3> QED  BY <2>20, <3>1, <3>2
  <2>27. ToSet(u.free) = Indices(u) \ LiveRows(u)
    <3>1. \A i \in Indices(u) : i \in Indices(t) \/ i \in taken
      BY <2>19
    <3> QED  BY <2>15, <2>16, <2>17, <2>20, <3>1
  <2>28. Filled(u, snap)
    BY <2>15, <2>16, <2>24, <2>25, <2>26, <2>27 DEF Filled
  <2>29. \A i \in Indices(t) : i \in LiveRows(t) \/ (held /\ t.rows[i].shown) => u.rows[i] = t.rows[i]
    BY <2>8, <2>20
  <2>30. \A i \in LiveRows(u) \ LiveRows(t) : u.rows[i].key = u.rows[i].proc
    <3>1. \A i \in taken : u.rows[i].key = u.rows[i].proc
      BY <2>18
    <3> QED  BY <2>20, <3>1
  <2> QED  BY <1>2, <2>16, <2>17, <2>20, <2>21, <2>28, <2>29, <2>30, SMTT(30)
<1> QED  BY <1>1, <1>2

----------------------------------------------------------------------------
(* AppsTable: ranks and GTK's list.                                         *)

LEMMA SeqOfItsOwn ==
    ASSUME NEW D, NEW s \in Seq(D), NEW S, ToSet(s) \subseteq S
    PROVE  s \in Seq(S)
<1>1. \A k \in 1 .. Len(s) : s[k] \in S
  BY LenProperties DEF ToSet
<1>2. s \in [1 .. Len(s) -> S]
  BY <1>1, LenProperties
<1> QED  BY <1>2, LenProperties

\* The ranks are in the order of what the rows read.
AgreeOn(t, c, I) ==
    \A i, j \in I : t.ranks[i] <= t.ranks[j]
                      <=> Value(c, t.rows[i].key) <= Value(c, t.rows[j].key)

LEMMA RankedIs ==
    ASSUME NEW t \in TableRecord, NEW c, NEW u, u = WithRanks(t, c)
    PROVE  /\ u \in TableRecord /\ u.rows = t.rows /\ u.registry = t.registry
           /\ u.free = t.free /\ u.list = t.list /\ u.complained = t.complained
           /\ Len(u.ranks) = Len(u.rows)
           /\ AgreeOn(u, c, Indices(u))
<1> DEFINE val(i) == Value(c, t.rows[i].key)
           V == {val(i) : i \in DOMAIN t.rows}
           S(v) == {x \in V : x < v}
           ranks == [i \in DOMAIN t.rows |-> Cardinality(S(val(i)))]
<1>1. /\ DOMAIN t.rows = 1 .. Len(t.rows) /\ Len(t.rows) \in Nat
      /\ Indices(t) = DOMAIN t.rows /\ IsFiniteSet(Indices(t))
  BY TableIs
<1>2. \A i \in DOMAIN t.rows : val(i) \in Nat
  BY <1>1, TableIs, RowIs, ValueType
<1>3. IsFiniteSet(V)
  <2> DEFINE f == [i \in DOMAIN t.rows |-> val(i)]
  <2>1. f \in Surjection(DOMAIN t.rows, V)
    BY DEF Surjection
  <2> HIDE DEF f, V
  <2> QED  BY <1>1, <2>1, FS_Surjection
<1>4. \A i \in DOMAIN t.rows :
         /\ val(i) \in V /\ val(i) \in Nat
         /\ S(val(i)) \in SUBSET V /\ IsFiniteSet(S(val(i))) /\ Cardinality(S(val(i))) \in Nat
  <2> SUFFICES ASSUME NEW i \in DOMAIN t.rows
               PROVE  /\ val(i) \in V /\ val(i) \in Nat
                      /\ S(val(i)) \in SUBSET V /\ IsFiniteSet(S(val(i)))
                      /\ Cardinality(S(val(i))) \in Nat
    OBVIOUS
  <2>1. val(i) \in V /\ val(i) \in Nat
    BY <1>2
  <2>2. S(val(i)) \in SUBSET V
    OBVIOUS
  <2> HIDE DEF S, V, val
  <2> QED  BY <1>3, <2>1, <2>2, FS_Subset, FS_CardinalityType
<1>5. ranks \in Seq(Nat) /\ Len(ranks) = Len(t.rows)
  <2>1. ranks \in [1 .. Len(t.rows) -> Nat]
    <3> HIDE DEF S, val
    <3> QED  BY <1>1, <1>4
  <2> HIDE DEF ranks
  <2> QED  BY <1>1, <2>1
<1>6. ASSUME NEW i \in DOMAIN t.rows, NEW j \in DOMAIN t.rows
      PROVE  /\ val(i) <= val(j) => ranks[i] <= ranks[j]
             /\ val(j) < val(i) => ranks[j] < ranks[i]
  <2>1. ASSUME NEW a \in DOMAIN t.rows, NEW b \in DOMAIN t.rows, val(a) <= val(b)
        PROVE  Cardinality(S(val(a))) <= Cardinality(S(val(b)))
    <3>1. S(val(a)) \in SUBSET S(val(b))
      <4>1. \A x \in V : x \in Nat
        BY <1>2
      <4>2. val(a) \in Nat /\ val(b) \in Nat
        BY <1>2
      <4> HIDE DEF V, val
      <4> QED  BY <2>1, <4>1, <4>2
    <3> HIDE DEF S, V, val
    <3> QED  BY <1>4, <3>1, FS_Subset
  <2>2. ASSUME val(j) < val(i)
        PROVE  Cardinality(S(val(j))) < Cardinality(S(val(i)))
    <3>1. val(j) \in S(val(i)) /\ val(j) \notin S(val(j))
      <4>1. val(j) \in V /\ val(j) \in Nat
        BY <1>4
      <4> HIDE DEF V, val
      <4> QED  BY <2>2, <4>1
    <3>2. Cardinality(S(val(j))) <= Cardinality(S(val(i)))
      <4>1. val(i) \in Nat /\ val(j) \in Nat
        BY <1>2
      <4>2. val(j) <= val(i)
        <5> HIDE DEF val
        <5> QED  BY <2>2, <4>1
      <4> QED  BY <2>1, <4>2
    <3>3. S(val(j)) \in SUBSET S(val(i))
      <4>1. \A x \in V : x \in Nat
        BY <1>2
      <4>2. val(i) \in Nat /\ val(j) \in Nat
        BY <1>2
      <4> HIDE DEF V, val
      <4> QED  BY <2>2, <4>1, <4>2
    <3>4. Cardinality(S(val(j))) # Cardinality(S(val(i)))
      <4> HIDE DEF S, V, val
      <4> QED  BY <1>4, <3>1, <3>3, FS_Subset
    <3> HIDE DEF S, V, val
    <3> QED  BY <1>4, <3>2, <3>4
  <2>3. ranks[i] = Cardinality(S(val(i))) /\ ranks[j] = Cardinality(S(val(j)))
    OBVIOUS
  <2> HIDE DEF ranks, S, val
  <2> QED  BY <2>1, <2>2, <2>3
<1>7. \A i, j \in DOMAIN t.rows : ranks[i] <= ranks[j] <=> val(i) <= val(j)
  <2> SUFFICES ASSUME NEW i \in DOMAIN t.rows, NEW j \in DOMAIN t.rows
               PROVE  ranks[i] <= ranks[j] <=> val(i) <= val(j)
    OBVIOUS
  <2>1. val(i) \in Nat /\ val(j) \in Nat
    BY <1>2
  <2>2. ranks[i] \in Nat /\ ranks[j] \in Nat
    BY <1>4
  <2> HIDE DEF ranks, val
  <2> QED  BY <1>6, <2>1, <2>2
<1>8. u = [t EXCEPT !.ranks = ranks]
  BY DEF WithRanks, Ranked
<1> HIDE DEF ranks
<1>9. /\ u \in TableRecord /\ u.rows = t.rows /\ u.registry = t.registry
      /\ u.free = t.free /\ u.list = t.list /\ u.complained = t.complained /\ u.ranks = ranks
  BY <1>5, <1>8 DEF TableRecord
<1> QED  BY <1>1, <1>5, <1>7, <1>9 DEF AgreeOn, Indices

\* The list, with ranks for what is in it.
Listable(t) ==
    t \in TableRecord /\ Len(t.ranks) = Len(t.rows) /\ Visible(t) \subseteq Indices(t)

\* All but the list is the same.
SameRows(u, t) ==
    /\ u.rows = t.rows /\ u.registry = t.registry /\ u.free = t.free
    /\ u.ranks = t.ranks /\ u.complained = t.complained

LEMMA ListableIs ==
    ASSUME NEW t, Listable(t)
    PROVE  /\ t.list \in Seq(Indices(t)) /\ \A i \in Indices(t) : t.ranks[i] \in Nat
           /\ t.list \in Seq(Nat)
           /\ \A k \in DOMAIN t.list : t.list[k] \in Visible(t)
<1>1. t.list \in Seq(Nat) /\ ToSet(t.list) \subseteq Indices(t)
  BY DEF Listable, TableRecord, Visible
<1>2. t.ranks \in Seq(Nat) /\ Len(t.ranks) = Len(t.rows) /\ Indices(t) = 1 .. Len(t.rows)
  BY TableIs DEF Listable, TableRecord
<1>3. \A i \in Indices(t) : t.ranks[i] \in Nat
  <2> PICK ranks \in Seq(Nat) : ranks = t.ranks
    BY <1>2
  <2>1. \A i \in 1 .. Len(ranks) : ranks[i] \in Nat
    BY LenProperties, ElementOfSeq
  <2> QED  BY <1>2, <2>1
<1>4. \A k \in DOMAIN t.list : t.list[k] \in Visible(t)
  BY DEF Visible, ToSet
<1> QED  BY <1>1, <1>3, <1>4, SeqOfItsOwn

LEMMA ResortedIs ==
    ASSUME NEW t, Listable(t), NEW u, u = Resorted(t)
    PROVE  /\ Listable(u) /\ SameRows(u, t) /\ Indices(u) = Indices(t)
           /\ Visible(u) = Visible(t) /\ InOrder(u.list, u.ranks)
<1> PICK s : s = Sorted(t.list, t.ranks)
  OBVIOUS
<1> PICK ranks : ranks = t.ranks
  OBVIOUS
<1> PICK l \in Seq(Indices(t)) : l = t.list
  BY ListableIs
<1>1. \A x \in Indices(t) : ranks[x] \in Nat
  BY ListableIs
<1>2. s \in Seq(Indices(t)) /\ ToSet(s) = ToSet(l) /\ InOrder(s, ranks)
  BY <1>1, SortedIs
<1>3. s \in Seq(Nat)
  BY <1>2, TableIs, SeqOfItsOwn DEF Listable, Visible
<1>4. t \in TableRecord /\ u = [t EXCEPT !.list = s]
  BY DEF Resorted, Listable
<1>5. u \in TableRecord /\ SameRows(u, t) /\ u.list = s
  BY <1>3, <1>4 DEF TableRecord, SameRows
<1> QED  BY <1>2, <1>5 DEF Listable, SameRows, Indices, Visible

LEMMA InsertedIs ==
    ASSUME NEW t, Listable(t), InOrder(t.list, t.ranks),
           NEW I, I \subseteq Indices(t), NEW u, u = Inserted(t, I)
    PROVE  /\ Listable(u) /\ SameRows(u, t) /\ Indices(u) = Indices(t)
           /\ Visible(u) = Visible(t) \union I /\ InOrder(u.list, u.ranks)
<1>1. CASE I \ Visible(t) = {}
  BY <1>1 DEF Inserted, SameRows
<1>2. CASE I \ Visible(t) # {}
  <2> DEFINE J == I \ Visible(t)
  <2> PICK a : a = Ascending(J)
    OBVIOUS
  <2> PICK ranks : ranks = t.ranks
    OBVIOUS
  <2> PICK l \in Seq(Indices(t)) : l = t.list
    BY ListableIs
  <2>1. t \in TableRecord /\ Indices(t) \subseteq Nat
    BY TableIs DEF Listable
  <2>2. J \in SUBSET Nat /\ IsFiniteSet(J) /\ J \subseteq Indices(t)
    <3>1. J \in SUBSET Indices(t) /\ IsFiniteSet(Indices(t))
      BY <2>1, TableIs
    <3> HIDE DEF J
    <3> QED  BY <2>1, <3>1, FS_Subset
  <2>3. a \in Seq(Nat) /\ ToSet(a) = J
    <3> HIDE DEF J
    <3> QED  BY <2>2, AscendingOnce
  <2>4. a \in Seq(Indices(t))
    <3> HIDE DEF J
    <3> QED  BY <2>2, <2>3, SeqOfItsOwn
  <2> PICK m : m = l \o a
    OBVIOUS
  <2>5. m \in Seq(Indices(t)) /\ ToSet(m) = ToSet(l) \union J
    <3> HIDE DEF J
    <3> QED  BY <2>3, <2>4, ConcatHolds
  <2> PICK s : s = Sorted(m, ranks)
    OBVIOUS
  <2>6. s \in Seq(Indices(t)) /\ ToSet(s) = ToSet(m) /\ InOrder(s, ranks)
    <3>1. \A x \in Indices(t) : ranks[x] \in Nat
      BY ListableIs
    <3>2. m \in Seq(Indices(t))
      BY <2>5
    <3> HIDE DEF J
    <3>3. /\ Sorted(m, ranks) \in Seq(Indices(t)) /\ ToSet(Sorted(m, ranks)) = ToSet(m)
          /\ InOrder(Sorted(m, ranks), ranks)
      BY ONLY <3>1, <3>2, SortedIs
    <3> QED  BY <3>3
  <2>7. s \in Seq(Nat) /\ t.complained \in BOOLEAN
    <3>1. ToSet(s) \subseteq Nat
      BY <2>1, <2>2, <2>5, <2>6, ListableIs DEF Listable, Visible
    <3> QED  BY <2>1, <2>6, <3>1, SeqOfItsOwn DEF TableRecord
  <2>8. u = [t EXCEPT !.list = s, !.complained = t.complained]
    <3>1. u = [t EXCEPT !.list = s, !.complained = t.complained \/ ~InOrder(t.list, t.ranks)]
      BY <1>2, <2>1 DEF Inserted, TableRecord
    <3>2. (t.complained \/ ~InOrder(t.list, t.ranks)) = t.complained
      BY <2>7
    <3> QED  BY <3>1, <3>2
  <2>9. u \in TableRecord /\ SameRows(u, t) /\ u.list = s
    <3> HIDE DEF J
    <3> QED  BY <2>1, <2>7, <2>8 DEF TableRecord, SameRows
  <2>10. ToSet(s) = Visible(t) \union I /\ Visible(t) \union I \subseteq Indices(t)
    BY <2>5, <2>6 DEF Visible, Listable
  <2> QED  BY <2>6, <2>9, <2>10 DEF Listable, SameRows, Indices, Visible
<1> QED  BY <1>1, <1>2

LEMMA RemovedIs ==
    ASSUME NEW t, Listable(t), InOrder(t.list, t.ranks), NEW I, NEW u, u = Removed(t, I)
    PROVE  /\ Listable(u) /\ SameRows(u, t) /\ Indices(u) = Indices(t)
           /\ Visible(u) = Visible(t) \ I /\ InOrder(u.list, u.ranks)
<1> PICK ranks : ranks = t.ranks
  OBVIOUS
<1> PICK l \in Seq(Nat) : l = t.list
  BY ListableIs
<1> PICK s : s = Without(l, I)
  OBVIOUS
<1>1. s \in Seq(Nat) /\ ToSet(s) = ToSet(l) \ I
  BY WithoutKeeps
<1>2. FromInOrder(s, l)
  BY WithoutKeeps
<1>3. InOrder(s, ranks)
  BY <1>2 DEF InOrder, FromInOrder
<1>4. t \in TableRecord /\ u = [t EXCEPT !.list = s]
  BY DEF Removed, Listable
<1>5. u \in TableRecord /\ SameRows(u, t) /\ u.list = s
  BY <1>1, <1>4 DEF TableRecord, SameRows
<1> QED  BY <1>1, <1>3, <1>5 DEF Listable, SameRows, Indices, Visible

\* What GTK shows when the filter has changed.
LEMMA FilteredIs ==
    ASSUME NEW t, Listable(t), InOrder(t.list, t.ranks), NEW s,
           NEW change \in {"MoreStrict", "LessStrict", "Different", "none"},
           NEW u, u = Filtered(t, change, s)
    PROVE  /\ Listable(u) /\ SameRows(u, t) /\ Indices(u) = Indices(t)
           /\ InOrder(u.list, u.ranks)
           /\ change = "MoreStrict" => Visible(u) = Visible(t) \cap Matching(t, s)
           /\ change = "LessStrict" => Visible(u) = Visible(t) \union Matching(t, s)
           /\ change = "Different" => Visible(u) = Matching(t, s)
           /\ change = "none" => Visible(u) = Visible(t)
<1> PICK M : M = Matching(t, s)
  OBVIOUS
<1>1. M \subseteq Indices(t) /\ Visible(t) \subseteq Indices(t)
  BY DEF Matching, Listable
<1> PICK r : r = Removed(t, Indices(t) \ M)
  OBVIOUS
<1>2. /\ Listable(r) /\ SameRows(r, t) /\ Indices(r) = Indices(t)
      /\ Visible(r) = Visible(t) \cap M /\ InOrder(r.list, r.ranks)
  <2>1. Visible(r) = Visible(t) \ (Indices(t) \ M)
    BY RemovedIs
  <2>2. /\ Listable(r) /\ SameRows(r, t) /\ Indices(r) = Indices(t)
        /\ InOrder(r.list, r.ranks)
    BY RemovedIs
  <2> QED  BY <1>1, <2>1, <2>2
<1>3. CASE change = "MoreStrict"
  <2>1. u = r
    BY <1>3 DEF Filtered
  <2> QED  BY <1>2, <1>3, <2>1
<1>4. CASE change = "LessStrict"
  <2>1. u = Inserted(t, M)
    BY <1>4 DEF Filtered
  <2> QED  BY <1>1, <1>4, <2>1, InsertedIs
<1>5. CASE change = "Different"
  <2>1. u = Inserted(r, M)
    BY <1>5 DEF Filtered
  <2>2. /\ Listable(u) /\ SameRows(u, r) /\ Indices(u) = Indices(r)
        /\ Visible(u) = Visible(r) \union M /\ InOrder(u.list, u.ranks)
    <3>1. Listable(r) /\ InOrder(r.list, r.ranks) /\ M \subseteq Indices(r)
      BY <1>1, <1>2
    <3> QED  BY ONLY <2>1, <3>1, InsertedIs
  <2> QED  BY <1>1, <1>2, <1>5, <2>2 DEF SameRows
<1>6. CASE change = "none"
  <2>1. u = t
    BY <1>6 DEF Filtered
  <2> QED  BY <1>6, <2>1 DEF SameRows
<1> QED  BY <1>3, <1>4, <1>5, <1>6

----------------------------------------------------------------------------
(* AppsTable: an update from beginning to end.                              *)

\* The readings are new, whose the rows are is not.
LEMMA StampedFilled ==
    ASSUME NEW t \in TableRecord, NEW old, NEW snap, NEW byName, NEW held \in BOOLEAN,
           GoodSnap(old, byName), GoodSnap(snap, byName), Filled(t, old),
           NEW mid, mid = [id \in DOMAIN old |-> IF id \in DOMAIN snap THEN snap[id]
                                                 ELSE old[id]],
           NEW u, u = Stamped(t, snap, held)
    PROVE  GoodSnap(mid, byName) /\ Filled(u, mid) /\ LiveRows(u) = LiveRows(t)
<1>1. GoodSnap(mid, byName)
  BY DEF GoodSnap
<1>2. /\ u \in TableRecord /\ Indices(u) = Indices(t)
      /\ u.registry = t.registry /\ u.free = t.free
      /\ \A i \in Indices(t) : u.rows[i].live = t.rows[i].live
      /\ \A i \in Indices(t) :
             i \notin {t.registry[id] : id \in DOMAIN snap \cap DOMAIN old} =>
                 u.rows[i] = t.rows[i]
  BY StampedIs
<1>3. \A id \in DOMAIN snap \cap DOMAIN old : u.rows[t.registry[id]].proc = snap[id]
  BY StampedIs
<1>4. LiveRows(u) = LiveRows(t)
  BY <1>2 DEF LiveRows
<1>5. ASSUME NEW id \in DOMAIN old  PROVE u.rows[u.registry[id]].proc = mid[id]
  <2>1. CASE id \in DOMAIN snap
    BY <1>2, <1>3, <2>1
  <2>2. CASE id \notin DOMAIN snap
    <3>1. \A a \in DOMAIN snap \cap DOMAIN old : t.registry[a] # t.registry[id]
      BY <2>2, OneRowEach
    <3>2. t.registry[id] \in Indices(t) /\ t.rows[t.registry[id]].proc = old[id]
      BY TableIs DEF Filled
    <3>3. u.rows[t.registry[id]] = t.rows[t.registry[id]]
      BY <1>2, <3>1, <3>2
    <3> QED  BY <1>2, <2>2, <3>2, <3>3
  <2> QED  BY <2>1, <2>2
<1>6. DOMAIN mid = DOMAIN old
  OBVIOUS
<1>7. Filled(u, mid)
  BY <1>2, <1>4, <1>5, <1>6 DEF Filled
<1> QED  BY <1>1, <1>4, <1>7

\* GTK's list stays in order as the sorter is told, or is not.
Sorting(t, c) ==
    /\ Listable(t) /\ ~t.complained
    /\ InOrder(t.list, t.ranks) /\ AgreeOn(t, c, LiveRows(t))

LEMMA ToldIs ==
    ASSUME NEW old, NEW c, Sorting(old, c), Visible(old) \subseteq LiveRows(old),
           NEW t \in TableRecord, t.ranks = old.ranks, t.list = old.list,
           t.complained = old.complained, Indices(old) \subseteq Indices(t),
           NEW held \in BOOLEAN, NEW new, NEW s, NEW first \in Nat,
           held => \A i \in LiveRows(old) : t.rows[i].key = old.rows[i].key,
           new = <<>> => Indices(t) = Indices(old) /\ LiveRows(t) \subseteq LiveRows(old),
           NEW u, u = Told(t, first, held, new, c, s)
    PROVE  /\ Sorting(u, c)
           /\ u.rows = t.rows /\ u.registry = t.registry /\ u.free = t.free
           /\ Visible(u) = Visible(old)
                             \union ({i \in Indices(t) : i > first} \cap Matching(t, s))
<1> DEFINE ranked == IF ~held \/ new # <<>> THEN WithRanks(t, c) ELSE t
           sorted == IF held THEN ranked ELSE Resorted(ranked)
           added == {i \in Indices(t) : i > first} \cap Matching(t, s)
<1>0. u = Inserted(sorted, added)
  BY DEF Told
<1>1. old \in TableRecord /\ Visible(t) = Visible(old) /\ Visible(old) \subseteq Indices(t)
  BY DEF Sorting, Listable, Visible
<1>2. ~held \/ new # <<>> =>
          /\ Listable(ranked) /\ ranked.rows = t.rows /\ ranked.registry = t.registry
          /\ ranked.free = t.free /\ ranked.list = t.list
          /\ ranked.complained = t.complained /\ AgreeOn(ranked, c, Indices(t))
  <2> SUFFICES ASSUME ~held \/ new # <<>>
               PROVE  /\ Listable(ranked) /\ ranked.rows = t.rows
                      /\ ranked.registry = t.registry
                      /\ ranked.free = t.free /\ ranked.list = t.list
                      /\ ranked.complained = t.complained /\ AgreeOn(ranked, c, Indices(t))
    OBVIOUS
  <2> PICK r : r = WithRanks(t, c)
    OBVIOUS
  <2>1. /\ r \in TableRecord /\ r.rows = t.rows /\ r.registry = t.registry
        /\ r.free = t.free /\ r.list = t.list /\ r.complained = t.complained
        /\ Len(r.ranks) = Len(r.rows) /\ AgreeOn(r, c, Indices(r))
    BY RankedIs
  <2>2. Indices(r) = Indices(t) /\ Visible(r) = Visible(t)
    BY <2>1 DEF Indices, Visible
  <2>3. ranked = r
    OBVIOUS
  <2> HIDE DEF ranked
  <2> QED  BY <1>1, <2>1, <2>2, <2>3 DEF Listable
<1>3. /\ Listable(sorted) /\ sorted.rows = t.rows /\ sorted.registry = t.registry
      /\ sorted.free = t.free /\ sorted.complained = t.complained
      /\ Visible(sorted) = Visible(t)
      /\ InOrder(sorted.list, sorted.ranks) /\ AgreeOn(sorted, c, LiveRows(t))
  <2>1. CASE ~held
    <3>1. /\ Listable(ranked) /\ ranked.rows = t.rows /\ ranked.registry = t.registry
          /\ ranked.free = t.free /\ ranked.list = t.list
          /\ ranked.complained = t.complained /\ AgreeOn(ranked, c, Indices(t))
      BY <1>2, <2>1
    <3>2. sorted = Resorted(ranked)
      BY <2>1
    <3> HIDE DEF ranked, sorted
    <3>3. /\ Listable(sorted) /\ SameRows(sorted, ranked)
          /\ Visible(sorted) = Visible(ranked) /\ InOrder(sorted.list, sorted.ranks)
      BY <3>1, <3>2, ResortedIs
    <3>4. AgreeOn(sorted, c, LiveRows(t))
      BY <3>1, <3>3, TableIs DEF AgreeOn, SameRows
    <3> QED  BY <3>1, <3>3, <3>4 DEF SameRows, Visible
  <2>2. CASE held /\ new # <<>>
    <3>1. /\ Listable(ranked) /\ ranked.rows = t.rows /\ ranked.registry = t.registry
          /\ ranked.free = t.free /\ ranked.list = t.list
          /\ ranked.complained = t.complained /\ AgreeOn(ranked, c, Indices(t))
      BY <1>2, <2>2
    <3>2. sorted = ranked
      BY <2>2
    <3> HIDE DEF ranked, sorted
    <3>3. AgreeOn(ranked, c, LiveRows(t))
      BY <3>1, TableIs DEF AgreeOn
    <3>4. InOrder(ranked.list, ranked.ranks)
      <4> SUFFICES ASSUME NEW i \in DOMAIN old.list, NEW j \in DOMAIN old.list, i < j
                   PROVE  ranked.ranks[old.list[i]] <= ranked.ranks[old.list[j]]
        BY <3>1 DEF InOrder
      <4> PICK a, b : a = old.list[i] /\ b = old.list[j]
        OBVIOUS
      <4>1. a \in LiveRows(old) /\ b \in LiveRows(old)
        BY DEF Visible, ToSet
      <4>2. old.ranks[a] <= old.ranks[b]
        BY DEF Sorting, InOrder
      <4>3. Value(c, old.rows[a].key) <= Value(c, old.rows[b].key)
        BY <4>1, <4>2 DEF Sorting, AgreeOn
      <4>4. t.rows[a].key = old.rows[a].key /\ t.rows[b].key = old.rows[b].key
        BY <2>2, <4>1
      <4>5. a \in Indices(t) /\ b \in Indices(t)
        BY <1>1, <4>1, TableIs
      <4> QED  BY <3>1, <4>3, <4>4, <4>5 DEF AgreeOn
    <3> QED  BY <3>1, <3>2, <3>3, <3>4 DEF Visible
  <2>3. CASE held /\ new = <<>>
    <3>1. ranked = t /\ sorted = t
      BY <2>3
    <3>2. Len(t.rows) = Len(old.rows)
      <4>1. Indices(t) = 1 .. Len(t.rows) /\ Indices(old) = 1 .. Len(old.rows)
            /\ Len(t.rows) \in Nat /\ Len(old.rows) \in Nat
        BY <1>1, TableIs
      <4>2. Indices(t) = Indices(old)
        BY <2>3
      <4> QED  BY <4>1, <4>2
    <3>3. Listable(t) /\ InOrder(t.list, t.ranks)
      BY <1>1, <3>2 DEF Listable, Sorting
    <3>4. AgreeOn(t, c, LiveRows(t))
      BY <2>3 DEF AgreeOn, Sorting
    <3> HIDE DEF ranked, sorted
    <3> QED  BY <3>1, <3>3, <3>4
  <2> HIDE DEF ranked, sorted
  <2> QED  BY <2>1, <2>2, <2>3
<1> HIDE DEF ranked, sorted
<1>4. Indices(sorted) = Indices(t) /\ LiveRows(sorted) = LiveRows(t)
  BY <1>3 DEF Indices, LiveRows
<1>5. /\ Listable(u) /\ SameRows(u, sorted) /\ Indices(u) = Indices(sorted)
      /\ Visible(u) = Visible(sorted) \union added /\ InOrder(u.list, u.ranks)
  <2>1. added \subseteq Indices(sorted) /\ u = Inserted(sorted, added)
    BY <1>0, <1>4
  <2> HIDE DEF added
  <2> QED  BY <1>3, <2>1, InsertedIs
<1>6. LiveRows(u) = LiveRows(t) /\ AgreeOn(u, c, LiveRows(t))
  BY <1>3, <1>4, <1>5 DEF SameRows, AgreeOn, LiveRows
<1> HIDE DEF added
<1>7. Sorting(u, c)
  BY <1>3, <1>5, <1>6 DEF Sorting, SameRows
<1> QED  BY <1>1, <1>3, <1>5, <1>7 DEF SameRows, added

\* The table is the snapshot's, and GTK shows it in order.
TableInv(t, snap, byName, c, s) ==
    /\ Sorting(t, c)
    /\ GoodSnap(snap, byName) /\ Filled(t, snap)
    /\ \A i \in Indices(t) : t.rows[i].shown <=> t.rows[i].live
    /\ Visible(t) \subseteq LiveRows(t)
    /\ s = NoSearch => LiveRows(t) \subseteq Visible(t)

\* Without a search it is every row in use that is looked for.
LEMMA MatchingIs ==
    ASSUME NEW t \in TableRecord, NEW s
    PROVE  /\ Matching(t, s) \subseteq LiveRows(t)
           /\ s = NoSearch => Matching(t, s) = LiveRows(t)
BY TableIs DEF Matching, Matches, LiveRows

\* What GTK shows is what it was shown or is new, and without a search all of it.
ShownIs(t, s) ==
    /\ \A i \in Visible(t) : t.rows[i].shown \/ i \in LiveRows(t)
    /\ s = NoSearch => \A i \in LiveRows(t) : t.rows[i].shown => i \in Visible(t)

\* The filter's change is told, and what is shown is then what is live.
LEMMA AnnouncedIs ==
    ASSUME NEW t, NEW c, NEW s, NEW snap, NEW byName, Sorting(t, c),
           GoodSnap(snap, byName), Filled(t, snap), ShownIs(t, s),
           NEW u, u = Announced(t, s)
    PROVE  /\ TableInv(u, snap, byName, c, s)
           /\ LiveRows(u) = LiveRows(t)
           /\ \A i \in LiveRows(t) : /\ u.rows[i].proc = t.rows[i].proc
                                     /\ u.rows[i].key = t.rows[i].key
<1> DEFINE Row(i) == IF t.rows[i].live THEN [t.rows[i] EXCEPT !.shown = TRUE] ELSE Hidden
           rows == [i \in Indices(t) |-> Row(i)]
<1>1. t \in TableRecord /\ Listable(t)
  BY DEF Sorting, Listable
<1> PICK v : v = [t EXCEPT !.rows = rows]
  OBVIOUS
<1>2. ASSUME NEW i \in Indices(t)
      PROVE  /\ Row(i) \in RowType
             /\ Row(i).live <=> t.rows[i].live
             /\ Row(i).shown <=> t.rows[i].live
             /\ t.rows[i].live => /\ Row(i).proc = t.rows[i].proc
                                  /\ Row(i).key = t.rows[i].key
  <2> PICK r \in RowType : r = t.rows[i]
    BY <1>1, TableIs
  <2> PICK q : q = Row(i)
    OBVIOUS
  <2>1. CASE r.live
    <3>1. q = [r EXCEPT !.shown = TRUE]
      BY <2>1
    <3> HIDE DEF Row
    <3>2. /\ q \in RowType
          /\ q.proc = r.proc /\ q.key = r.key /\ q.live = r.live /\ q.shown
      BY <3>1, RowRevealed
    <3> QED  BY <2>1, <3>2
  <2>2. CASE ~r.live
    <3>1. q = Hidden
      BY <2>2
    <3> HIDE DEF Row
    <3>2. ~Hidden.live /\ ~Hidden.shown
      BY DEF Hidden
    <3> QED  BY <2>2, <3>1, <3>2, RowMade
  <2> QED  BY <2>1, <2>2
<1> HIDE DEF Row
<1>3. rows \in Seq(RowType) /\ Len(rows) = Len(t.rows) /\ DOMAIN rows = Indices(t)
  <2>1. DOMAIN rows = Indices(t) /\ rows = [i \in DOMAIN rows |-> rows[i]]
    OBVIOUS
  <2>2. \A i \in Indices(t) : rows[i] \in RowType
    BY <1>2
  <2> HIDE DEF rows
  <2> QED  BY <1>1, <2>1, <2>2, RowsAreSeq
<1>4. \A i \in Indices(t) : rows[i] = Row(i)
  OBVIOUS
<1> HIDE DEF rows
<1>5. /\ v \in TableRecord /\ v.rows = rows /\ v.registry = t.registry /\ v.free = t.free
      /\ v.ranks = t.ranks /\ v.list = t.list /\ v.complained = t.complained
  BY <1>1, <1>3 DEF TableRecord
<1>6. Indices(v) = Indices(t) /\ Visible(v) = Visible(t)
  BY <1>3, <1>5 DEF Indices, Visible
<1>7. LiveRows(v) = LiveRows(t)
  BY <1>2, <1>4, <1>5, <1>6 DEF LiveRows
<1>8. Listable(v) /\ InOrder(v.list, v.ranks)
  BY <1>1, <1>3, <1>5, <1>6 DEF Listable, Sorting
<1>9. Matching(v, s) \subseteq LiveRows(t) /\ (s = NoSearch => Matching(v, s) = LiveRows(t))
  BY <1>5, <1>7, MatchingIs
<1> DEFINE hidden == {i \in Indices(t) : ~t.rows[i].live /\ t.rows[i].shown}
           revealed == {i \in Indices(t) : t.rows[i].live /\ ~t.rows[i].shown}
<1>10. u = Filtered(v, Change(t), s)
  BY DEF Announced, Row, rows
<1>11. /\ Change(t) \in {"MoreStrict", "LessStrict", "Different", "none"}
       /\ Change(t) = "MoreStrict" => revealed = {}
       /\ Change(t) = "LessStrict" => hidden = {}
       /\ Change(t) = "none" => hidden = {} /\ revealed = {}
  BY DEF Change
<1>12. hidden = {} => Visible(t) \subseteq LiveRows(t)
  BY <1>1 DEF Listable, LiveRows, ShownIs
<1>13. revealed = {} /\ s = NoSearch => LiveRows(t) \subseteq Visible(t)
  BY DEF LiveRows, ShownIs
<1> HIDE DEF hidden, revealed
<1> PICK change \in {"MoreStrict", "LessStrict", "Different", "none"} : change = Change(t)
  BY <1>11
<1>14. /\ Listable(u) /\ SameRows(u, v) /\ Indices(u) = Indices(t)
       /\ InOrder(u.list, u.ranks)
       /\ change = "MoreStrict" => Visible(u) = Visible(v) \cap Matching(v, s)
       /\ change = "LessStrict" => Visible(u) = Visible(v) \union Matching(v, s)
       /\ change = "Different" => Visible(u) = Matching(v, s)
       /\ change = "none" => Visible(u) = Visible(v)
  <2>1. u = Filtered(v, change, s)
    BY <1>10
  <2>2. /\ Listable(u) /\ SameRows(u, v) /\ Indices(u) = Indices(v)
        /\ InOrder(u.list, u.ranks)
        /\ change = "MoreStrict" => Visible(u) = Visible(v) \cap Matching(v, s)
        /\ change = "LessStrict" => Visible(u) = Visible(v) \union Matching(v, s)
        /\ change = "Different" => Visible(u) = Matching(v, s)
        /\ change = "none" => Visible(u) = Visible(v)
    <3>1. change \in {"MoreStrict", "LessStrict", "Different", "none"}
      OBVIOUS
    <3> QED  BY ONLY <1>8, <2>1, <3>1, FilteredIs
  <2> QED  BY <1>6, <2>2
<1>15. Visible(u) \subseteq LiveRows(t)
  BY <1>6, <1>9, <1>11, <1>12, <1>14
<1>16. s = NoSearch => LiveRows(t) \subseteq Visible(u)
  BY <1>6, <1>9, <1>11, <1>13, <1>14
<1>17. LiveRows(u) = LiveRows(t)
  BY <1>6, <1>7, <1>14 DEF LiveRows, SameRows
<1>18. \A i \in LiveRows(t) : /\ u.rows[i].proc = t.rows[i].proc
                              /\ u.rows[i].key = t.rows[i].key
  BY <1>1, <1>2, <1>4, <1>5, <1>14, TableIs DEF LiveRows, SameRows
<1>19. \A i \in Indices(u) : u.rows[i].shown <=> u.rows[i].live
  BY <1>2, <1>4, <1>5, <1>14 DEF SameRows
<1>20. Filled(u, snap)
  <2>1. u.registry = t.registry /\ u.free = t.free /\ Indices(u) = Indices(t)
    BY <1>5, <1>14 DEF SameRows
  <2> QED  BY <1>17, <1>18, <2>1 DEF Filled
<1>21. Sorting(u, c)
  <2>1. u.ranks = t.ranks /\ u.complained = t.complained
    BY <1>5, <1>14 DEF SameRows
  <2>2. AgreeOn(u, c, LiveRows(u))
    BY <1>17, <1>18, <2>1 DEF Sorting, AgreeOn
  <2> QED  BY <1>14, <2>1, <2>2 DEF Sorting
<1> QED  BY <1>15, <1>16, <1>17, <1>18, <1>19, <1>20, <1>21 DEF TableInv

\* The order is not held back: the rows are sorted by what they read.
KeysAreRead(t) == \A i \in LiveRows(t) : t.rows[i].key = t.rows[i].proc

LEMMA AppliedIs ==
    ASSUME NEW t, NEW old, NEW snap, NEW byName \in BOOLEAN, NEW held \in BOOLEAN, NEW new,
           TableInv(t, old, byName, column, search), GoodSnap(snap, byName),
           Lists(new, DOMAIN snap \ Known(t, snap)),
           NEW u, u = Applied(t, snap, new, byName, held)
    PROVE  /\ TableInv(u, snap, byName, column, search)
           /\ ~held => KeysAreRead(u)
<1> PICK stamped, retired, given, told :
        /\ stamped = Stamped(t, snap, held)
        /\ retired = Retired(stamped, snap, byName)
        /\ given = Given(retired, snap, new, held)
        /\ told = Told(given, Len(t.rows), held, new, column, search)
  OBVIOUS
<1>1. u = Announced(told, search)
  BY DEF Applied
<1>2. /\ t \in TableRecord /\ Len(t.rows) \in Nat
      /\ GoodSnap(old, byName) /\ Filled(t, old)
      /\ Sorting(t, column) /\ Visible(t) \subseteq LiveRows(t)
      /\ \A i \in LiveRows(t) : i \in Indices(t) /\ t.rows[i].shown
  <2>1. t \in TableRecord
    BY DEF TableInv, Sorting, Listable
  <2>2. Len(t.rows) \in Nat /\ \A i \in LiveRows(t) : i \in Indices(t)
    BY <2>1, TableIs
  <2>3. \A i \in LiveRows(t) : t.rows[i].shown
    BY <2>2 DEF TableInv, LiveRows
  <2> QED  BY <2>1, <2>2, <2>3 DEF TableInv
<1> PICK mid : mid = [id \in DOMAIN old |-> IF id \in DOMAIN snap THEN snap[id] ELSE old[id]]
  OBVIOUS
<1>3. GoodSnap(mid, byName) /\ Filled(stamped, mid) /\ LiveRows(stamped) = LiveRows(t)
  BY <1>2, StampedFilled
<1>4. /\ stamped \in TableRecord /\ Indices(stamped) = Indices(t)
      /\ stamped.registry = t.registry /\ stamped.ranks = t.ranks
      /\ stamped.list = t.list /\ stamped.complained = t.complained
      /\ \A i \in Indices(t) : /\ stamped.rows[i].shown = t.rows[i].shown
                               /\ held => stamped.rows[i].key = t.rows[i].key
  BY <1>2, StampedIs
<1>5. ~held => \A id \in DOMAIN snap \cap DOMAIN old :
                  LET row == stamped.rows[t.registry[id]]
                  IN  row.proc = snap[id] /\ row.key = snap[id]
  BY <1>2, StampedIs
<1>6. DOMAIN mid = DOMAIN old
  OBVIOUS
<1> PICK kept : kept = [id \in DOMAIN snap \cap DOMAIN mid |-> mid[id]]
  OBVIOUS
<1>7. /\ DOMAIN kept = DOMAIN snap \cap DOMAIN old
      /\ \A id \in DOMAIN kept : kept[id] = snap[id]
  OBVIOUS
<1>8. /\ retired \in TableRecord /\ Indices(retired) = Indices(stamped)
      /\ retired.ranks = stamped.ranks /\ retired.list = stamped.list
      /\ retired.complained = stamped.complained
      /\ \A i \in Indices(stamped) : /\ retired.rows[i].proc = stamped.rows[i].proc
                                     /\ retired.rows[i].key = stamped.rows[i].key
                                     /\ retired.rows[i].shown = stamped.rows[i].shown
      /\ LiveRows(retired) = {stamped.registry[id] : id \in DOMAIN snap \cap DOMAIN mid}
      /\ LiveRows(retired) \subseteq LiveRows(stamped)
      /\ Filled(retired, kept)
  <2>1. /\ stamped \in TableRecord /\ byName \in BOOLEAN
        /\ GoodSnap(mid, byName) /\ GoodSnap(snap, byName) /\ Filled(stamped, mid)
        /\ kept = [id \in DOMAIN snap \cap DOMAIN mid |-> mid[id]]
        /\ retired = Retired(stamped, snap, byName)
    BY <1>3, <1>4
  <2> QED  BY ONLY <2>1, RetiredIs
<1>9. Lists(new, DOMAIN snap \ DOMAIN kept)
  <2>1. Known(t, snap) = DOMAIN snap \cap DOMAIN old
    BY <1>2 DEF Known, GoodSnap, Filled
  <2>2. DOMAIN snap \ Known(t, snap) = DOMAIN snap \ DOMAIN kept
    BY <1>7, <2>1
  <2> QED  BY <2>2
<1>10. /\ given \in TableRecord
       /\ given.ranks = retired.ranks /\ given.list = retired.list
       /\ given.complained = retired.complained
       /\ Indices(retired) \subseteq Indices(given)
       /\ new = <<>> => given = retired
       /\ \A i \in Indices(given) :
             given.rows[i].shown <=> i \in Indices(retired) /\ retired.rows[i].shown
       /\ \A i \in Indices(retired) :
             i \in LiveRows(retired) \/ (held /\ retired.rows[i].shown) =>
                 given.rows[i] = retired.rows[i]
       /\ LiveRows(retired) \subseteq LiveRows(given)
       /\ \A i \in LiveRows(given) \ LiveRows(retired) :
             given.rows[i].key = given.rows[i].proc
       /\ Filled(given, snap)
  <2>1. Gives(given, retired, kept, snap, byName, new, held)
    BY <1>7, <1>8, <1>9 DEF PartOf, Gives
  <2>2. /\ given \in TableRecord
        /\ given.ranks = retired.ranks /\ given.list = retired.list
        /\ given.complained = retired.complained
        /\ Indices(retired) \subseteq Indices(given)
        /\ LiveRows(retired) \subseteq LiveRows(given)
        /\ Filled(given, snap)
    BY ONLY <2>1, GivenIs
  <2>3. new = <<>> => given = retired
    BY DEF Given
  <2>4. \A i \in Indices(given) :
            given.rows[i].shown <=> i \in Indices(retired) /\ retired.rows[i].shown
    BY ONLY <2>1, GivenIs
  <2>5. \A i \in Indices(retired) :
            i \in LiveRows(retired) \/ (held /\ retired.rows[i].shown) =>
                given.rows[i] = retired.rows[i]
    BY ONLY <2>1, GivenIs
  <2>6. \A i \in LiveRows(given) \ LiveRows(retired) :
            given.rows[i].key = given.rows[i].proc
    BY ONLY <2>1, GivenIs
  <2> QED  BY <2>2, <2>3, <2>4, <2>5, <2>6
<1>11. held => \A i \in LiveRows(t) : given.rows[i].key = t.rows[i].key
  <2> SUFFICES ASSUME held, NEW i \in LiveRows(t)  PROVE given.rows[i].key = t.rows[i].key
    OBVIOUS
  <2>1. i \in Indices(t) /\ t.rows[i].shown
    BY <1>2
  <2>2. stamped.rows[i].shown /\ stamped.rows[i].key = t.rows[i].key
    BY <1>4, <2>1
  <2>3. i \in Indices(stamped)
    BY <1>4, <2>1
  <2>4. retired.rows[i].shown /\ retired.rows[i].key = t.rows[i].key /\ i \in Indices(retired)
    BY <1>8, <2>2, <2>3
  <2>5. given.rows[i] = retired.rows[i]
    BY <1>10, <2>4
  <2> QED  BY <2>4, <2>5
<1>12. new = <<>> => Indices(given) = Indices(t) /\ LiveRows(given) \subseteq LiveRows(t)
  BY <1>3, <1>4, <1>8, <1>10
<1>13. given.ranks = t.ranks /\ given.list = t.list /\ given.complained = t.complained
       /\ Indices(t) \subseteq Indices(given)
  BY <1>4, <1>8, <1>10
<1> DEFINE added == {i \in Indices(given) : i > Len(t.rows)} \cap Matching(given, search)
<1>14. /\ Sorting(told, column)
       /\ told.rows = given.rows /\ told.registry = given.registry
       /\ told.free = given.free
       /\ Visible(told) = Visible(t) \union added
  BY <1>2, <1>10, <1>11, <1>12, <1>13, ToldIs
<1>15. Indices(told) = Indices(given) /\ LiveRows(told) = LiveRows(given)
  BY <1>14 DEF Indices, LiveRows
<1>16. Filled(told, snap)
  BY <1>10, <1>14, <1>15 DEF Filled
<1>17. \A i \in Visible(told) : told.rows[i].shown \/ i \in LiveRows(told)
  <2>1. ASSUME NEW i \in Visible(t)  PROVE told.rows[i].shown
    <3>1. i \in Indices(t) /\ t.rows[i].shown
      BY <1>2
    <3>2. stamped.rows[i].shown /\ i \in Indices(stamped)
      BY <1>4, <3>1
    <3>3. retired.rows[i].shown /\ i \in Indices(retired)
      BY <1>8, <3>2
    <3>4. given.rows[i].shown
      BY <1>10, <3>3
    <3> QED  BY <1>14, <3>4
  <2>2. \A i \in added : i \in LiveRows(told)
    BY <1>10, <1>15, MatchingIs
  <2> HIDE DEF added
  <2> QED  BY <1>14, <2>1, <2>2
<1>18. search = NoSearch => \A i \in LiveRows(told) : told.rows[i].shown => i \in Visible(told)
  <2> SUFFICES ASSUME search = NoSearch, NEW i \in LiveRows(told), told.rows[i].shown
               PROVE  i \in Visible(told)
    OBVIOUS
  <2>1. given.rows[i].shown /\ i \in Indices(given)
    BY <1>10, <1>14, <1>15, TableIs
  <2>2. i \in Indices(retired) /\ retired.rows[i].shown
    BY <1>10, <2>1
  <2>3. i \in Indices(t) /\ stamped.rows[i].shown
    BY <1>4, <1>8, <2>2
  <2>4. t.rows[i].shown
    BY <1>4, <2>3
  <2>5. i \in LiveRows(t)
    BY <2>3, <2>4 DEF TableInv, LiveRows
  <2> QED  BY <1>14, <2>5 DEF TableInv
<1> HIDE DEF added
<1>19. /\ TableInv(u, snap, byName, column, search)
       /\ LiveRows(u) = LiveRows(told)
       /\ \A i \in LiveRows(told) : /\ u.rows[i].proc = told.rows[i].proc
                                    /\ u.rows[i].key = told.rows[i].key
  <2>1. Sorting(told, column) /\ GoodSnap(snap, byName) /\ ShownIs(told, search)
    BY <1>14, <1>17, <1>18 DEF ShownIs
  <2> QED  BY ONLY <1>1, <1>16, <2>1, AnnouncedIs
<1>20. ASSUME ~held, NEW i \in LiveRows(u)  PROVE u.rows[i].key = u.rows[i].proc
  <2>1. i \in LiveRows(given) /\ u.rows[i].proc = given.rows[i].proc
        /\ u.rows[i].key = given.rows[i].key
    BY <1>14, <1>15, <1>19
  <2>2. CASE i \in LiveRows(retired)
    <3>1. PICK id \in DOMAIN snap \cap DOMAIN old : i = t.registry[id]
      BY <1>4, <1>6, <1>8, <2>2
    <3>2. stamped.rows[i].proc = snap[id] /\ stamped.rows[i].key = snap[id]
      BY <1>5, <1>20, <3>1
    <3>3. i \in Indices(stamped) /\ i \in Indices(retired)
      BY <1>8, <2>2, TableIs
    <3>4. given.rows[i].proc = snap[id] /\ given.rows[i].key = snap[id]
      BY <1>8, <1>10, <2>2, <3>2, <3>3
    <3> QED  BY <2>1, <3>4
  <2>3. CASE i \notin LiveRows(retired)
    BY <1>10, <2>1, <2>3
  <2> QED  BY <2>2, <2>3
<1> QED  BY <1>19, <1>20 DEF KeysAreRead

----------------------------------------------------------------------------
(* AppsTable: what a scan finds, and in which order.                        *)

LEMMA SumIs ==
    ASSUME NEW P, IsFiniteSet(P), NEW scan, \A p \in P : scan[p][2] \in Nat
    PROVE  Cardinality(UNION {{p} \X (1 .. scan[p][2]) : p \in P}) \in Nat
<1> DEFINE Pairs(p) == {p} \X (1 .. scan[p][2])
           U == {Pairs(p) : p \in P}
<1>1. \A T \in U : IsFiniteSet(T)
  <2> SUFFICES ASSUME NEW p \in P  PROVE IsFiniteSet(Pairs(p))
    OBVIOUS
  <2>1. IsFiniteSet({p}) /\ IsFiniteSet(1 .. scan[p][2])
    <3> PICK n \in Nat : n = scan[p][2]
      OBVIOUS
    <3>1. IsFiniteSet(1 .. n)
      BY FS_Interval
    <3> QED  BY <3>1, FS_Singleton
  <2> QED  BY <2>1, FS_Product
<1>2. IsFiniteSet(U)
  <2> DEFINE f == [p \in P |-> Pairs(p)]
  <2>1. f \in Surjection(P, U)
    <3> HIDE DEF Pairs
    <3> QED  BY DEF Surjection
  <2> HIDE DEF f, U
  <2> QED  BY <2>1, FS_Surjection
<1>3. IsFiniteSet(UNION U)
  <2> HIDE DEF U
  <2> QED  BY <1>1, <1>2, FS_UNION
<1> HIDE DEF U
<1>4. Cardinality(UNION U) \in Nat
  BY <1>3, FS_CardinalityType
<1> QED  BY <1>4 DEF U

LEMMA SnapshotIs ==
    ASSUME NEW S \in SUBSET Pids, NEW scan \in [S -> Programs], NEW byName \in BOOLEAN,
           NEW snap, snap = Snapshot(scan, byName)
    PROVE  GoodSnap(snap, byName) /\ IsFiniteSet(DOMAIN snap)
<1>1. IsFiniteSet(S)
  BY TableAssumption, FS_Subset
<1>2. \A p \in S : scan[p][1] \in Names /\ scan[p][2] \in Nat
  BY TableAssumption
<1>3. CASE byName
  <2> DEFINE Sum(P) == Cardinality(UNION {{p} \X (1 .. scan[p][2]) : p \in P})
             Of(id) == Sum({p \in DOMAIN scan : scan[p][1] = id[2]})
             N == {scan[p][1] : p \in DOMAIN scan}
  <2>1. snap = [id \in {"name"} \X N |-> [pid |-> NoPid, name |-> id[2], cpu |-> Of(id)]]
    BY <1>3 DEF Snapshot
  <2>2. ASSUME NEW id  PROVE Of(id) \in Nat
    <3> DEFINE P == {p \in DOMAIN scan : scan[p][1] = id[2]}
    <3>1. P \in SUBSET S
      OBVIOUS
    <3> HIDE DEF P
    <3>2. IsFiniteSet(P)
      BY <1>1, <3>1, FS_Subset
    <3>3. \A p \in P : scan[p][2] \in Nat
      BY <1>2, <3>1
    <3>4. Sum(P) \in Nat
      BY <3>2, <3>3, SumIs
    <3> QED  BY <3>4 DEF P
  <2>3. N \subseteq Names /\ IsFiniteSet(N)
    <3>1. N \in SUBSET Names
      BY <1>2
    <3> HIDE DEF N
    <3> QED  BY <3>1, TableAssumption, FS_Subset
  <2> HIDE DEF Of, N
  <2>4. DOMAIN snap = {"name"} \X N
    BY <2>1
  <2>5. ASSUME NEW id \in DOMAIN snap
        PROVE  id \in Identities /\ snap[id] \in Procs /\ Identity(snap[id], byName) = id
    <3>1. PICK n \in N : id = <<"name", n>>
      BY <2>4
    <3>2. snap[id] = [pid |-> NoPid, name |-> n, cpu |-> Of(id)]
      BY <2>1, <3>1
    <3>3. snap[id] \in Procs /\ snap[id].name = n
      BY <2>2, <2>3, <3>2 DEF Procs
    <3>4. id \in Identities
      BY <2>3, <3>1 DEF Identities
    <3> QED  BY <1>3, <3>1, <3>3, <3>4 DEF Identity
  <2>6. IsFiniteSet({"name"} \X N)
    BY <2>3, FS_Singleton, FS_Product
  <2> QED  BY <2>4, <2>5, <2>6 DEF GoodSnap
<1>4. CASE ~byName
  <2>1. snap = [id \in {"pid"} \X S |->
                   [pid |-> id[2], name |-> scan[id[2]][1], cpu |-> scan[id[2]][2]]]
    BY <1>4 DEF Snapshot
  <2>2. DOMAIN snap = {"pid"} \X S
    BY <2>1
  <2>3. ASSUME NEW id \in DOMAIN snap
        PROVE  id \in Identities /\ snap[id] \in Procs /\ Identity(snap[id], byName) = id
    <3>1. PICK p \in S : id = <<"pid", p>>
      BY <2>2
    <3>2. snap[id] = [pid |-> p, name |-> scan[p][1], cpu |-> scan[p][2]]
      BY <2>1, <3>1
    <3>3. snap[id] \in Procs /\ snap[id].pid = p
      BY <1>2, <3>2 DEF Procs
    <3>4. id \in Identities
      BY <3>1 DEF Identities
    <3> QED  BY <1>4, <3>1, <3>3, <3>4 DEF Identity
  <2>4. IsFiniteSet({"pid"} \X S)
    BY <1>1, FS_Singleton, FS_Product
  <2> QED  BY <2>2, <2>3, <2>4 DEF GoodSnap
<1> QED  BY <1>3, <1>4

LEMMA OrdersIs ==
    ASSUME NEW snap, NEW byName, NEW S, IsFiniteSet(S), NEW new \in Orders(snap, S, byName)
    PROVE  Lists(new, S)
<1> DEFINE n == Cardinality(S)
<1>1. /\ new \in [1 .. n -> S]
      /\ \A i, j \in 1 .. n : i # j => new[i] # new[j]
  BY DEF Orders, SetToSeqs
<1>2. n \in Nat
  BY FS_CardinalityType
<1>3. IsFiniteSet(1 .. n) /\ Cardinality(1 .. n) = n
  BY <1>2, FS_Interval
<1>4. new \in Injection(1 .. n, S)
  <2> HIDE DEF n
  <2> QED  BY <1>1 DEF Injection, IsInjective
<1>5. new \in Surjection(1 .. n, S)
  <2>1. Cardinality(1 .. n) = Cardinality(S)
    BY <1>3
  <2> HIDE DEF n
  <2> QED  BY <1>4, <2>1, FS_Injection
<1> HIDE DEF n
<1>6. ToSet(new) = S
  BY <1>1, <1>5 DEF Surjection, ToSet
<1>7. new \in Seq(S) /\ IsInjective(new)
  BY <1>1, <1>2 DEF IsInjective
<1> QED  BY <1>6, <1>7 DEF Lists

----------------------------------------------------------------------------
(* AppsTable: the callbacks.                                                *)

LEMMA UpdateIs ==
    ASSUME NEW t, NEW old, NEW byName \in BOOLEAN,
           TableInv(t, old, byName, column, search), Holding \in BOOLEAN,
           Update(t, byName)
    PROVE  \E snap : /\ TableInv(table', snap, byName, column, search)
                     /\ lastSnap' = {snap[id] : id \in DOMAIN snap}
                     /\ ~Holding => KeysAreRead(table')
<1>1. PICK snap \in IF byName THEN NameSnapshots ELSE PidSnapshots :
         \E new \in Orders(snap, DOMAIN snap \ Known(t, snap), byName) :
            /\ table' = Applied(t, snap, new, byName, Holding)
            /\ lastSnap' = {snap[id] : id \in DOMAIN snap}
  BY DEF Update
<1>2. PICK new \in Orders(snap, DOMAIN snap \ Known(t, snap), byName) :
            /\ table' = Applied(t, snap, new, byName, Holding)
            /\ lastSnap' = {snap[id] : id \in DOMAIN snap}
  BY <1>1
<1>3. PICK scan \in Scans : snap = Snapshot(scan, byName)
  BY DEF NameSnapshots, PidSnapshots
<1>4. PICK S \in SUBSET Pids : scan \in [S -> Programs]
  BY DEF Scans
<1>5. GoodSnap(snap, byName) /\ IsFiniteSet(DOMAIN snap)
  BY <1>3, <1>4, SnapshotIs
<1>6. Lists(new, DOMAIN snap \ Known(t, snap))
  <2>1. IsFiniteSet(DOMAIN snap \ Known(t, snap))
    BY <1>5, FS_Subset
  <2> QED  BY <2>1, OrdersIs
<1> PICK held \in BOOLEAN : held = Holding
  OBVIOUS
<1> PICK u : u = table'
  OBVIOUS
<1>7. u = Applied(t, snap, new, byName, held)
  BY <1>2
<1>8. /\ TableInv(u, snap, byName, column, search)
      /\ ~held => KeysAreRead(u)
  <2>1. /\ byName \in BOOLEAN /\ held \in BOOLEAN
        /\ TableInv(t, old, byName, column, search) /\ GoodSnap(snap, byName)
    BY <1>5
  <2> QED  BY ONLY <1>6, <1>7, <2>1, AppliedIs
<1> QED  BY <1>2, <1>8

\* With the rows cleared nothing is listed, however they are grouped next.
LEMMA ClearedIs ==
    ASSUME NEW t, NEW old, NEW byName, NEW c, NEW s, TableInv(t, old, byName, c, s),
           NEW again, NEW u, u = Cleared(t)
    PROVE  \E none : TableInv(u, none, again, c, s)
<1> DEFINE rows == [i \in Indices(t) |-> Hidden]
           registry == [id \in Identities |-> NoRow]
           free == [i \in Indices(t) |-> i]
           v == [t EXCEPT !.rows = rows, !.registry = registry, !.free = free]
           change == IF LiveRows(t) # {} THEN "MoreStrict" ELSE "none"
           none == [id \in {} |-> NoProc]
<1>1. t \in TableRecord /\ Listable(t)
  BY DEF TableInv, Sorting, Listable
<1>2. u = Filtered(v, change, NoSearch)
  BY DEF Cleared
<1>3. Indices(t) = 1 .. Len(t.rows) /\ Len(t.rows) \in Nat
  BY <1>1, TableIs
<1>4. rows \in Seq(RowType) /\ DOMAIN rows = Indices(t) /\ Len(rows) = Len(t.rows)
  <2>1. rows \in [1 .. Len(t.rows) -> RowType]
    BY <1>3, RowMade
  <2>2. DOMAIN rows = Indices(t)
    OBVIOUS
  <2> HIDE DEF rows
  <2> QED  BY <1>3, <2>1, <2>2
<1>5. free \in Seq(Nat) /\ IsInjective(free) /\ ToSet(free) = Indices(t)
  <2> PICK n \in Nat : n = Len(t.rows) /\ Indices(t) = 1 .. n
    BY <1>3
  <2>1. free \in [1 .. n -> Nat]
    OBVIOUS
  <2>2. DOMAIN free = 1 .. n /\ \A i \in 1 .. n : free[i] = i
    OBVIOUS
  <2> HIDE DEF free
  <2>3. free \in Seq(Nat)
    BY <2>1
  <2>4. IsInjective(free) /\ ToSet(free) = 1 .. n
    BY <2>2 DEF IsInjective, ToSet
  <2> QED  BY <2>3, <2>4
<1>6. registry \in [Identities -> Nat]
  BY DEF NoRow
<1>7. \A i \in Indices(t) : ~rows[i].live /\ ~rows[i].shown
  BY DEF Hidden
<1>8. \A id \in Identities : registry[id] = NoRow
  OBVIOUS
<1> HIDE DEF rows, registry, free
<1>9. /\ v \in TableRecord /\ v.rows = rows /\ v.registry = registry /\ v.free = free
      /\ v.ranks = t.ranks /\ v.list = t.list /\ v.complained = t.complained
  BY <1>1, <1>4, <1>5, <1>6 DEF TableRecord
<1> HIDE DEF v
<1>10. Indices(v) = Indices(t) /\ Visible(v) = Visible(t) /\ LiveRows(v) = {}
  BY <1>4, <1>7, <1>9 DEF Indices, Visible, LiveRows
<1>11. Listable(v) /\ InOrder(v.list, v.ranks)
  BY <1>1, <1>4, <1>9, <1>10 DEF Listable, TableInv, Sorting
<1>12. change \in {"MoreStrict", "LessStrict", "Different", "none"}
  OBVIOUS
<1>13. change = "MoreStrict" \/ (change = "none" /\ LiveRows(t) = {})
  OBVIOUS
<1> HIDE DEF change
<1>14. /\ Listable(u) /\ SameRows(u, v) /\ Indices(u) = Indices(v)
       /\ InOrder(u.list, u.ranks)
       /\ change = "MoreStrict" => Visible(u) = Visible(v) \cap Matching(v, NoSearch)
       /\ change = "LessStrict" => Visible(u) = Visible(v) \union Matching(v, NoSearch)
       /\ change = "Different" => Visible(u) = Matching(v, NoSearch)
       /\ change = "none" => Visible(u) = Visible(v)
  BY ONLY <1>2, <1>11, <1>12, FilteredIs
<1>15. Matching(v, NoSearch) = {}
  BY <1>9, <1>10, MatchingIs
<1>16. LiveRows(u) = {} /\ Visible(u) = {}
  <2>1. LiveRows(u) = {}
    BY <1>10, <1>14 DEF LiveRows, SameRows
  <2>2. LiveRows(t) = {} => Visible(v) = {}
    BY <1>10 DEF TableInv
  <2> QED  BY <1>13, <1>14, <1>15, <2>1, <2>2
<1>17. Sorting(u, c)
  BY <1>9, <1>14, <1>16 DEF Sorting, TableInv, SameRows, AgreeOn
<1>18. GoodSnap(none, again) /\ DOMAIN none = {}
  BY DEF GoodSnap
<1> HIDE DEF none
<1>19. Filled(u, none)
  <2>1. u.registry = registry /\ u.free = free /\ Indices(u) = Indices(t)
    BY <1>9, <1>10, <1>14 DEF SameRows
  <2> QED  BY <1>5, <1>8, <1>16, <1>18, <2>1 DEF Filled
<1>20. \A i \in Indices(u) : u.rows[i].shown <=> u.rows[i].live
  BY <1>7, <1>9, <1>10, <1>14 DEF SameRows
<1>21. TableInv(u, none, again, c, s)
  BY <1>16, <1>17, <1>18, <1>19, <1>20 DEF TableInv
<1> QED  BY <1>21

LEMMA SearchIs ==
    ASSUME NEW t, NEW snap, NEW byName, NEW c, NEW s, TableInv(t, snap, byName, c, s),
           NEW new, NEW u, u = Filtered(t, "Different", new)
    PROVE  TableInv(u, snap, byName, c, new)
<1>1. t \in TableRecord /\ Listable(t) /\ InOrder(t.list, t.ranks)
  BY DEF TableInv, Sorting, Listable
<1>2. /\ Listable(u) /\ SameRows(u, t) /\ Indices(u) = Indices(t)
      /\ InOrder(u.list, u.ranks) /\ Visible(u) = Matching(t, new)
  <2> PICK change \in {"MoreStrict", "LessStrict", "Different", "none"} : change = "Different"
    OBVIOUS
  <2>1. u = Filtered(t, change, new)
    OBVIOUS
  <2>2. /\ Listable(u) /\ SameRows(u, t) /\ Indices(u) = Indices(t)
        /\ InOrder(u.list, u.ranks)
        /\ change = "MoreStrict" => Visible(u) = Visible(t) \cap Matching(t, new)
        /\ change = "LessStrict" => Visible(u) = Visible(t) \union Matching(t, new)
        /\ change = "Different" => Visible(u) = Matching(t, new)
        /\ change = "none" => Visible(u) = Visible(t)
    <3>1. change \in {"MoreStrict", "LessStrict", "Different", "none"}
      OBVIOUS
    <3> QED  BY ONLY <1>1, <2>1, <3>1, FilteredIs
  <2> QED  BY <2>2
<1>3. LiveRows(u) = LiveRows(t) /\ u.rows = t.rows
  BY <1>2 DEF LiveRows, SameRows
<1>4. Sorting(u, c)
  BY <1>2, <1>3 DEF Sorting, TableInv, SameRows, AgreeOn
<1>5. Filled(u, snap)
  BY <1>2, <1>3 DEF Filled, TableInv, SameRows
<1>6. \A i \in Indices(u) : u.rows[i].shown <=> u.rows[i].live
  BY <1>2, <1>3 DEF TableInv
<1> QED  BY <1>1, <1>2, <1>3, <1>4, <1>5, <1>6, MatchingIs DEF TableInv

LEMMA SortedBy ==
    ASSUME NEW t, NEW snap, NEW byName, NEW old, NEW s, TableInv(t, snap, byName, old, s),
           NEW c, NEW u, u = Resorted(WithRanks(t, c))
    PROVE  TableInv(u, snap, byName, c, s) /\ u.rows = t.rows
<1>1. t \in TableRecord /\ Listable(t)
  BY DEF TableInv, Sorting, Listable
<1> PICK r : r = WithRanks(t, c)
  OBVIOUS
<1>2. /\ r \in TableRecord /\ r.rows = t.rows /\ r.registry = t.registry
      /\ r.free = t.free /\ r.list = t.list /\ r.complained = t.complained
      /\ Len(r.ranks) = Len(r.rows) /\ AgreeOn(r, c, Indices(r))
  BY <1>1, RankedIs
<1>3. Listable(r) /\ Indices(r) = Indices(t) /\ Visible(r) = Visible(t)
  BY <1>1, <1>2 DEF Listable, Indices, Visible
<1>4. /\ Listable(u) /\ SameRows(u, r) /\ Indices(u) = Indices(r)
      /\ Visible(u) = Visible(r) /\ InOrder(u.list, u.ranks)
  BY <1>3, ResortedIs
<1>5. u.rows = t.rows /\ Indices(u) = Indices(t) /\ LiveRows(u) = LiveRows(t)
  BY <1>2, <1>4 DEF SameRows, Indices, LiveRows
<1>6. Sorting(u, c)
  <2>1. LiveRows(u) \subseteq Indices(r)
    BY <1>1, <1>3, <1>5, TableIs
  <2> QED  BY <1>2, <1>4, <1>5, <2>1 DEF Sorting, TableInv, SameRows, AgreeOn
<1>7. Filled(u, snap)
  BY <1>2, <1>4, <1>5 DEF Filled, TableInv, SameRows
<1>8. \A i \in Indices(u) : u.rows[i].shown <=> u.rows[i].live
  BY <1>5 DEF TableInv
<1> QED  BY <1>3, <1>4, <1>5, <1>6, <1>7, <1>8 DEF TableInv

LEMMA CaughtUpIs ==
    ASSUME NEW t, NEW snap, NEW byName, NEW c, NEW s, TableInv(t, snap, byName, c, s),
           NEW u, u = CaughtUp(t, c)
    PROVE  TableInv(u, snap, byName, c, s) /\ KeysAreRead(u)
<1> DEFINE Row(i) == [t.rows[i] EXCEPT !.key = IF t.rows[i].live THEN t.rows[i].proc ELSE @]
           rows == [i \in Indices(t) |-> Row(i)]
<1>1. t \in TableRecord /\ Listable(t)
  BY DEF TableInv, Sorting, Listable
<1>2. ASSUME NEW i \in Indices(t)
      PROVE  /\ Row(i) \in RowType /\ Row(i).proc = t.rows[i].proc
             /\ Row(i).live = t.rows[i].live /\ Row(i).shown = t.rows[i].shown
             /\ t.rows[i].live => Row(i).key = t.rows[i].proc
  <2> PICK r \in RowType : r = t.rows[i]
    BY <1>1, TableIs
  <2> PICK k : k = IF r.live THEN r.proc ELSE r.key
    OBVIOUS
  <2>1. k \in Procs \union {NoProc}
    BY RowIs
  <2> PICK q : q = Row(i)
    OBVIOUS
  <2>2. q = [r EXCEPT !.key = k]
    BY DEF RowType
  <2> HIDE DEF Row
  <2>3. /\ q \in RowType
        /\ q.proc = r.proc /\ q.key = k /\ q.live = r.live /\ q.shown = r.shown
    BY <2>1, <2>2, RowRefreshed
  <2> QED  BY <2>3
<1> PICK v : v = Refreshed(t)
  OBVIOUS
<1>3. v = [t EXCEPT !.rows = rows]
  BY DEF Refreshed
<1> HIDE DEF Row
<1>4. rows \in Seq(RowType) /\ Len(rows) = Len(t.rows) /\ DOMAIN rows = Indices(t)
  <2>1. DOMAIN rows = Indices(t) /\ rows = [i \in DOMAIN rows |-> rows[i]]
    OBVIOUS
  <2>2. \A i \in Indices(t) : rows[i] \in RowType
    BY <1>2
  <2> HIDE DEF rows
  <2> QED  BY <1>1, <2>1, <2>2, RowsAreSeq
<1>5. \A i \in Indices(t) : rows[i] = Row(i)
  OBVIOUS
<1> HIDE DEF rows
<1>6. /\ v \in TableRecord /\ v.rows = rows /\ v.registry = t.registry /\ v.free = t.free
      /\ v.ranks = t.ranks /\ v.list = t.list /\ v.complained = t.complained
  BY <1>1, <1>3, <1>4 DEF TableRecord
<1>7. Indices(v) = Indices(t) /\ Visible(v) = Visible(t) /\ LiveRows(v) = LiveRows(t)
  BY <1>2, <1>4, <1>5, <1>6 DEF Indices, Visible, LiveRows
<1>8. \A i \in LiveRows(v) : v.rows[i].key = v.rows[i].proc /\ v.rows[i].proc = t.rows[i].proc
  BY <1>2, <1>5, <1>6, <1>7 DEF LiveRows
<1> PICK r : r = WithRanks(v, c)
  OBVIOUS
<1>9. /\ r \in TableRecord /\ r.rows = v.rows /\ r.registry = v.registry
      /\ r.free = v.free /\ r.list = v.list /\ r.complained = v.complained
      /\ Len(r.ranks) = Len(r.rows) /\ AgreeOn(r, c, Indices(r))
  BY <1>6, RankedIs
<1>10. Listable(r) /\ Indices(r) = Indices(t) /\ Visible(r) = Visible(t)
  BY <1>1, <1>6, <1>7, <1>9 DEF Listable, Indices, Visible
<1>11. u = Resorted(r)
  BY DEF CaughtUp
<1>12. /\ Listable(u) /\ SameRows(u, r) /\ Indices(u) = Indices(r)
       /\ Visible(u) = Visible(r) /\ InOrder(u.list, u.ranks)
  BY <1>10, <1>11, ResortedIs
<1>13. u.rows = v.rows /\ Indices(u) = Indices(t) /\ LiveRows(u) = LiveRows(t)
  BY <1>7, <1>9, <1>10, <1>12 DEF SameRows, Indices, LiveRows
<1>14. Sorting(u, c)
  <2>1. LiveRows(u) \subseteq Indices(r)
    BY <1>1, <1>10, <1>13, TableIs
  <2>2. AgreeOn(u, c, LiveRows(u))
    BY <1>9, <1>12, <1>13, <2>1 DEF SameRows, AgreeOn
  <2>3. ~u.complained
    BY <1>6, <1>9, <1>12 DEF SameRows, Sorting, TableInv
  <2> QED  BY <1>12, <2>2, <2>3 DEF Sorting
<1>15. Filled(u, snap)
  <2>1. u.registry = t.registry /\ u.free = t.free
    BY <1>6, <1>9, <1>12 DEF SameRows
  <2>2. \A i \in LiveRows(t) : u.rows[i].proc = t.rows[i].proc
    BY <1>7, <1>8, <1>13
  <2> QED  BY <1>13, <2>1, <2>2 DEF Filled, TableInv
<1>16. \A i \in Indices(u) : u.rows[i].shown <=> u.rows[i].live
  BY <1>2, <1>5, <1>6, <1>13 DEF TableInv
<1>17. TableInv(u, snap, byName, c, s)
  BY <1>10, <1>12, <1>13, <1>14, <1>15, <1>16 DEF TableInv
<1>18. KeysAreRead(u)
  BY <1>7, <1>8, <1>13 DEF KeysAreRead
<1> QED  BY <1>17, <1>18

----------------------------------------------------------------------------
(* AppsTable: the invariant.                                                *)

AppsInv ==
    /\ \E snap : /\ TableInv(table, snap, grouped, column, search)
                 /\ lastSnap = {snap[id] : id \in DOMAIN snap}
    /\ grouped \in BOOLEAN
    /\ search \in Searched \union {NoSearch}
    /\ column \in Columns
    /\ clicked \in BOOLEAN
    /\ pointing \in BOOLEAN
    /\ menuOpen \in BOOLEAN

LEMMA AppsInvInit == Init => AppsInv
<1> SUFFICES ASSUME Init  PROVE AppsInv
  OBVIOUS
<1> PICK t : t = NewTable
  OBVIOUS
<1> DEFINE none == [id \in {} |-> NoProc]
           registry == [id \in Identities |-> NoRow]
<1>1. table = t /\ t = [rows |-> <<>>, registry |-> registry, free |-> <<>>,
                        ranks |-> <<>>, list |-> <<>>, complained |-> FALSE]
  BY DEF Init, NewTable
<1>2. registry \in [Identities -> Nat] /\ \A id \in Identities : registry[id] = NoRow
  BY DEF NoRow
<1> HIDE DEF registry
<1>3. /\ t \in TableRecord /\ t.rows = <<>> /\ t.registry = registry /\ t.free = <<>>
      /\ t.ranks = <<>> /\ t.list = <<>> /\ ~t.complained
  BY <1>1, <1>2 DEF TableRecord
<1>4. Indices(t) = {} /\ LiveRows(t) = {} /\ Visible(t) = {} /\ ToSet(t.free) = {}
  BY <1>3 DEF Indices, LiveRows, Visible, ToSet
<1>5. GoodSnap(none, grouped) /\ DOMAIN none = {}
  BY DEF GoodSnap
<1> HIDE DEF none
<1>6. Filled(t, none)
  BY <1>2, <1>3, <1>4, <1>5 DEF Filled, IsInjective
<1>7. Sorting(t, column)
  BY <1>3, <1>4 DEF Sorting, Listable, InOrder, AgreeOn
<1>8. TableInv(t, none, grouped, column, search)
  BY <1>4, <1>5, <1>6, <1>7 DEF TableInv
<1>9. lastSnap = {none[id] : id \in DOMAIN none}
  BY <1>5 DEF Init
<1> QED  BY <1>1, <1>8, <1>9 DEF AppsInv, Init, Columns

\* What a callback does to the table, and that it leaves the keys of the rows at
\* what they read where the order is not held.
LEMMA AppsSteps ==
    ASSUME AppsInv, Next
    PROVE  /\ AppsInv'
           /\ /\ ~Holding'
              /\ (menuOpen /\ ~menuOpen') \/ table' # table
              /\ UNCHANGED <<search, column, clicked>>
              => KeysAreRead(table')
<1> PICK snap : /\ TableInv(table, snap, grouped, column, search)
                /\ lastSnap = {snap[id] : id \in DOMAIN snap}
  BY DEF AppsInv
<1> USE DEF AppsInv
<1>1. CASE Tick
  <2>1. Update(table, grouped) /\ UNCHANGED <<settings, hold>>
    BY <1>1 DEF Tick
  <2>2. /\ grouped \in BOOLEAN
        /\ TableInv(table, snap, grouped, column, search) /\ Holding \in BOOLEAN
    BY DEF Holding
  <2>3. \E new : /\ TableInv(table', new, grouped, column, search)
                 /\ lastSnap' = {new[id] : id \in DOMAIN new}
                 /\ ~Holding => KeysAreRead(table')
    BY ONLY <2>1, <2>2, UpdateIs
  <2>4. Holding' = Holding
    BY <2>1 DEF hold, Holding
  <2> QED  BY <2>1, <2>3, <2>4 DEF settings, hold
<1>2. CASE \E byName \in BOOLEAN : Rebuild(byName)
  <2> PICK byName \in BOOLEAN : Rebuild(byName)
    BY <1>2
  <2>1. /\ Update(Cleared(table), byName) /\ grouped' = byName
        /\ UNCHANGED <<search, column, clicked, hold>>
    BY DEF Rebuild
  <2> PICK t : t = Cleared(table)
    OBVIOUS
  <2>2. PICK none : TableInv(t, none, byName, column, search)
    BY ClearedIs
  <2>3. Update(t, byName) /\ byName \in BOOLEAN /\ Holding \in BOOLEAN
    BY <2>1 DEF Holding
  <2>4. \E new : /\ TableInv(table', new, byName, column, search)
                 /\ lastSnap' = {new[id] : id \in DOMAIN new}
                 /\ ~Holding => KeysAreRead(table')
    BY ONLY <2>2, <2>3, UpdateIs
  <2>5. Holding' = Holding
    BY <2>1 DEF hold, Holding
  <2> QED  BY <2>1, <2>4, <2>5 DEF hold
<1>3. CASE \E s \in Searched \union {NoSearch} : Search(s)
  <2> PICK s \in Searched \union {NoSearch} : Search(s)
    BY <1>3
  <2>1. /\ s # search /\ search' = s
        /\ table' = Filtered(table, "Different", s)
        /\ UNCHANGED <<lastSnap, grouped, column, clicked, hold>>
    BY DEF Search
  <2>2. TableInv(table', snap, grouped, column, s)
    BY <2>1, SearchIs
  <2> QED  BY <2>1, <2>2 DEF hold
<1>4. CASE \E c \in Columns : ClickHeader(c)
  <2> PICK c \in Columns : ClickHeader(c)
    BY <1>4
  <2>1. /\ c # column /\ column' = c /\ clicked' = TRUE
        /\ table' = Resorted(WithRanks(table, c))
        /\ UNCHANGED <<lastSnap, grouped, search, hold>>
    BY DEF ClickHeader
  <2>2. TableInv(table', snap, grouped, c, search)
    BY <2>1, SortedBy
  <2> QED  BY <2>1, <2>2 DEF hold
<1> DEFINE Kept == TableInv(table', snap, grouped, column, search)
<1>5. CASE AfterClick
  <2>1. /\ clicked /\ clicked' = FALSE /\ table' = CaughtUp(table, column)
        /\ UNCHANGED <<lastSnap, grouped, search, column, hold>>
    BY <1>5 DEF AfterClick
  <2>2. Kept
    BY <2>1, CaughtUpIs
  <2> QED  BY <2>1, <2>2 DEF hold
<1>6. CASE Move \/ Rest \/ OpenMenu
  <2>1. /\ UNCHANGED <<table, lastSnap, settings>>
        /\ pointing' \in BOOLEAN /\ menuOpen' \in BOOLEAN
        /\ menuOpen /\ ~menuOpen' => FALSE
    BY <1>6 DEF Move, Rest, OpenMenu
  <2> QED  BY <2>1 DEF settings
<1>7. CASE Leave \/ CloseMenu \/ Unmap
  <2>1. /\ UNCHANGED <<lastSnap, settings>> /\ ReleaseHold
        /\ pointing' \in BOOLEAN /\ menuOpen' \in BOOLEAN
    BY <1>7 DEF Leave, CloseMenu, Unmap
  <2>2. CASE Holding'
    <3>1. table' = table
      BY <2>1, <2>2 DEF ReleaseHold
    <3> QED  BY <2>1, <2>2, <3>1 DEF settings
  <2>3. CASE ~Holding'
    <3>1. table' = CaughtUp(table, column)
      BY <2>1, <2>3 DEF ReleaseHold
    <3>2. Kept /\ KeysAreRead(table')
      BY <3>1, CaughtUpIs
    <3> QED  BY <2>1, <3>2 DEF settings
  <2> QED  BY <2>2, <2>3
<1> QED  BY <1>1, <1>2, <1>3, <1>4, <1>5, <1>6, <1>7 DEF Next

THEOREM AppsInvariant == Spec => []AppsInv
<1>1. AppsInv /\ [Next]_vars => AppsInv'
  <2>1. CASE Next
    BY <2>1, AppsSteps
  <2>2. CASE UNCHANGED vars
    BY <2>2 DEF vars, settings, hold, AppsInv
  <2> QED  BY <2>1, <2>2
<1> QED  BY <1>1, AppsInvInit, PTL DEF Spec

----------------------------------------------------------------------------
(* AppsTable: what the invariant means.                                     *)

\* In order by the ranks is in order by the keys.
LEMMA ListInOrder ==
    ASSUME NEW t, NEW c, Sorting(t, c), Visible(t) \subseteq LiveRows(t),
           NEW i \in DOMAIN t.list, NEW j \in DOMAIN t.list, i < j
    PROVE  /\ t.list[i] \in LiveRows(t) /\ t.list[j] \in LiveRows(t)
           /\ Value(c, t.rows[t.list[i]].key) <= Value(c, t.rows[t.list[j]].key)
<1>1. t.list[i] \in LiveRows(t) /\ t.list[j] \in LiveRows(t)
  BY DEF Visible, ToSet
<1>2. t.ranks[t.list[i]] <= t.ranks[t.list[j]]
  BY DEF Sorting, InOrder
<1> QED  BY <1>1, <1>2 DEF Sorting, AgreeOn

LEMMA SnapshotOfRows ==
    ASSUME AppsInv
    PROVE  RowsAreTheSnapshot
<1> PICK snap : /\ TableInv(table, snap, grouped, column, search)
                /\ lastSnap = {snap[id] : id \in DOMAIN snap}
  BY DEF AppsInv
<1> PICK live : live = LiveRows(table)
  OBVIOUS
<1>1. table \in TableRecord /\ GoodSnap(snap, grouped) /\ Filled(table, snap)
  BY DEF TableInv, Sorting, Listable
<1>2. IsFiniteSet(live) /\ live \subseteq Indices(table)
  BY <1>1, TableIs, FS_Subset
<1>3. ASSUME NEW i \in live
      PROVE  \E id \in DOMAIN snap : /\ table.registry[id] = i /\ id \in Identities
                                     /\ table.rows[i].proc = snap[id] /\ snap[id] \in Procs
                                     /\ Identity(table.rows[i].proc, grouped) = id
  BY <1>1 DEF GoodSnap, Filled
<1>4. ASSUME NEW id \in DOMAIN snap
      PROVE  /\ table.registry[id] \in live /\ id \in Identities
             /\ table.rows[table.registry[id]].proc = snap[id]
  BY <1>1 DEF GoodSnap, Filled
<1>5. {table.rows[i].proc : i \in live} = lastSnap
  <2>1. ASSUME NEW i \in live  PROVE table.rows[i].proc \in lastSnap
    BY <1>3
  <2>2. ASSUME NEW id \in DOMAIN snap  PROVE snap[id] \in {table.rows[i].proc : i \in live}
    BY <1>4
  <2> QED  BY <2>1, <2>2
<1>6. Cardinality(live) = Cardinality(lastSnap)
  <2> DEFINE f == [i \in live |-> table.rows[i].proc]
  <2>1. f \in [live -> lastSnap] /\ \A p \in lastSnap : \E i \in live : f[i] = p
    BY <1>5
  <2>2. ASSUME NEW i \in live, NEW j \in live, f[i] = f[j]  PROVE i = j
    <3>1. table.rows[i].proc = table.rows[j].proc
      BY <2>2
    <3> QED  BY <1>3, <3>1
  <2> HIDE DEF f
  <2>3. f \in Bijection(live, lastSnap)
    BY <2>1, <2>2 DEF Bijection, Injection, Surjection, IsInjective
  <2>4. ExistsBijection(live, lastSnap)
    BY <2>3 DEF ExistsBijection
  <2> QED  BY <1>2, <2>4, FS_Bijection
<1>7. \A i \in live : table.registry[Identity(table.rows[i].proc, grouped)] = i
  BY <1>3
<1> DEFINE registered == {id \in Identities : table.registry[id] # NoRow}
<1>8. registered = DOMAIN snap
  BY <1>1 DEF GoodSnap, Filled
<1>9. Cardinality(registered) = Cardinality(live)
  <2> DEFINE f == [i \in live |-> Identity(table.rows[i].proc, grouped)]
  <2>1. f \in [live -> DOMAIN snap] /\ \A id \in DOMAIN snap : \E i \in live : f[i] = id
    <3>1. \A i \in live : f[i] \in DOMAIN snap
      BY <1>3
    <3>2. ASSUME NEW id \in DOMAIN snap  PROVE \E i \in live : f[i] = id
      <4>1. Identity(snap[id], grouped) = id
        BY <1>1 DEF GoodSnap
      <4> QED  BY <1>4, <4>1
    <3> QED  BY <3>1, <3>2
  <2>2. ASSUME NEW i \in live, NEW j \in live, f[i] = f[j]  PROVE i = j
    <3>1. Identity(table.rows[i].proc, grouped) = Identity(table.rows[j].proc, grouped)
      BY <2>2
    <3> QED  BY <1>7, <3>1
  <2> HIDE DEF f
  <2>3. f \in Bijection(live, DOMAIN snap)
    BY <2>1, <2>2 DEF Bijection, Injection, Surjection, IsInjective
  <2>4. ExistsBijection(live, DOMAIN snap)
    BY <2>3 DEF ExistsBijection
  <2>5. Cardinality(DOMAIN snap) = Cardinality(live)
    BY <1>2, <2>4, FS_Bijection
  <2> QED  BY <1>8, <2>5
<1> QED  BY <1>1, <1>5, <1>6, <1>7, <1>9 DEF RowsAreTheSnapshot, Filled, TableInv

LEMMA TypesOfRows ==
    ASSUME AppsInv
    PROVE  TypeOK
<1> PICK snap : /\ TableInv(table, snap, grouped, column, search)
                /\ lastSnap = {snap[id] : id \in DOMAIN snap}
  BY DEF AppsInv
<1> PICK t : t = table
  OBVIOUS
<1>1. Listable(t) /\ t \in TableRecord /\ GoodSnap(snap, grouped) /\ Filled(t, snap)
  BY DEF TableInv, Sorting, Listable
<1>2. t.rows \in Seq(RowType) /\ Len(t.rows) \in Nat /\ LiveRows(t) \subseteq Indices(t)
  BY <1>1, TableIs
<1>3. t.registry \in [Identities -> {NoRow} \union Indices(t)]
  <2>1. ASSUME NEW id \in Identities  PROVE t.registry[id] \in {NoRow} \union Indices(t)
    BY <1>1, <1>2 DEF Filled
  <2>2. t.registry \in [Identities -> Nat]
    BY <1>1 DEF TableRecord
  <2> QED  BY <2>1, <2>2
<1>4. t.free \in Seq(Indices(t))
  <2>1. t.free \in Seq(Nat) /\ ToSet(t.free) \subseteq Indices(t)
    BY <1>1 DEF TableRecord, Filled
  <2> QED  BY <2>1, SeqOfItsOwn
<1>5. t.ranks \in Seq(Nat) /\ Len(t.ranks) <= Len(t.rows) /\ t.complained \in BOOLEAN
  BY <1>1, <1>2 DEF TableRecord, Listable
<1>6. t.list \in Seq(Indices(t))
  BY <1>1, ListableIs
<1>7. lastSnap \subseteq Procs
  BY <1>1 DEF GoodSnap
<1> QED  BY <1>2, <1>3, <1>4, <1>5, <1>6, <1>7 DEF TypeOK, AppsInv

LEMMA OrderOfRows ==
    ASSUME AppsInv
    PROVE  GtkOrderHolds
<1> PICK snap : TableInv(table, snap, grouped, column, search)
  BY DEF AppsInv
<1>1. Sorting(table, column) /\ Visible(table) \subseteq LiveRows(table)
  BY DEF TableInv
<1>2. ~table.complained
  BY <1>1 DEF Sorting
<1>3. ASSUME NEW i \in DOMAIN table.list, NEW j \in DOMAIN table.list, i < j
      PROVE  Value(column, table.rows[table.list[i]].key)
                <= Value(column, table.rows[table.list[j]].key)
  BY <1>1, <1>3, ListInOrder
<1> QED  BY <1>2, <1>3 DEF GtkOrderHolds

\* The process table's variables hold what they are declared to hold.
THEOREM AppsTypeCorrect == Spec => []TypeOK
BY AppsInvariant, TypesOfRows, PTL

\* The rows in use are the processes of the last snapshot, each in a row of its
\* own that the registry finds by what is in it, the others are free once, and
\* what GTK shows is rows in use, all of them without a search (apps.go:786).
THEOREM RowsMatchSnapshot == Spec => []RowsAreTheSnapshot
BY AppsInvariant, SnapshotOfRows, PTL

\* GTK's list is in order by the keys of its rows, and GTK never had to add a
\* row to a list that was not (apps.go:820).
THEOREM OrderHolds == Spec => []GtkOrderHolds
BY AppsInvariant, OrderOfRows, PTL

\* Where nothing holds the order, a tick, the pointer leaving or the menu closing
\* leaves the rows in order by what they read now (apps.go:820).
THEOREM OrderCatchesUp == Spec => CatchesUp
<1>1. ASSUME AppsInv, AppsInv', [Next]_vars
      PROVE  [/\ ~Holding'
              /\ (menuOpen /\ ~menuOpen') \/ table' # table
              /\ UNCHANGED <<search, column, clicked>>
              => \A i, j \in DOMAIN table'.list : i < j =>
                   Value(column, table'.rows[table'.list[i]].proc)
                       <= Value(column, table'.rows[table'.list[j]].proc)]_vars
  <2> SUFFICES ASSUME Next, ~Holding', (menuOpen /\ ~menuOpen') \/ table' # table,
                      UNCHANGED <<search, column, clicked>>,
                      NEW i \in DOMAIN table'.list, NEW j \in DOMAIN table'.list, i < j
               PROVE  Value(column, table'.rows[table'.list[i]].proc)
                         <= Value(column, table'.rows[table'.list[j]].proc)
    BY <1>1
  <2>1. KeysAreRead(table')
    BY <1>1, AppsSteps
  <2> PICK t : t = table'
    OBVIOUS
  <2>2. Sorting(t, column) /\ Visible(t) \subseteq LiveRows(t)
    BY <1>1 DEF AppsInv, TableInv
  <2>3. /\ t.list[i] \in LiveRows(t) /\ t.list[j] \in LiveRows(t)
        /\ Value(column, t.rows[t.list[i]].key) <= Value(column, t.rows[t.list[j]].key)
    BY <2>2, ListInOrder
  <2> QED  BY <2>1, <2>3 DEF KeysAreRead
<1> QED  BY <1>1, AppsInvariant, PTL DEF Spec, CatchesUp

----------------------------------------------------------------------------
(* ServicesView: the merge.                                                 *)

\* The least of some numbers.
LEMMA Least ==
    ASSUME NEW S \in SUBSET Nat, S # {}
    PROVE  \E m \in S : \A i \in S : m <= i
<1> DEFINE R == OpToRel(<, Nat)
<1>1. \E x \in S : \A y \in S : ~ (<<y, x>> \in R)
  <2> HIDE DEF R
  <2> QED  BY NatLessThanWellFounded, WFMin DEF R
<1>2. PICK x \in S : \A y \in S : ~ (<<y, x>> \in R)
  BY <1>1
<1>3. \A y \in S : ~ (y < x)
  BY <1>2 DEF OpToRel
<1>4. ASSUME NEW y \in S  PROVE x <= y
  <2>1. ~ (y < x) /\ x \in Nat /\ y \in Nat
    BY <1>3
  <2> QED  BY <2>1
<1> QED  BY <1>4

\* Each unit once, and in alphabetical order.
ByName(rows) == \A i, j \in DOMAIN rows : i < j => rows[i].name < rows[j].name

MergeRecord == [rows : Seq(Services!Row), at : Nat, made : SUBSET Units]

\* The operators that ServicesView takes from other modules are those.
LEMMA SameOperators ==
    ASSUME NEW S
    PROVE  /\ Services!IsFiniteSet(S) <=> IsFiniteSet(S)
           /\ Services!Ascending(S) = Ascending(S)
<1>1. Services!IsFiniteSet(S) <=> IsFiniteSet(S)
  BY Zenon DEF Services!IsFiniteSet, IsFiniteSet
<1>2. Services!Ascending(S) = Ascending(S)
  BY Zenon DEF Services!Ascending, Ascending, Services!Cardinality, Cardinality
<1> QED  BY <1>1, <1>2

LEMMA UnitNumbers ==
    /\ Units \subseteq Nat \ {0} /\ IsFiniteSet(Units)
    /\ \A r \in Services!Row : r.name \in Units /\ r.name \in Nat
<1>1. Services!UnitsFit
  BY UnitsAssumption
<1>2. Units \subseteq Nat \ {0} /\ Services!IsFiniteSet(Units)
  BY <1>1 DEF Services!UnitsFit
<1>3. \A r \in Services!Row : r.name \in Units
  BY DEF Services!Row
<1> QED  BY <1>2, <1>3, SameOperators

\* What is left of a sequence from a place in it on.
LEMMA FromPlace ==
    ASSUME NEW L \in Nat, NEW e \in Nat, e <= L + 1, e > 0
    PROVE  /\ L - e + 1 \in Nat
           /\ (IF e <= L THEN L - e + 1 ELSE 0) = L - e + 1
OBVIOUS

\* A place in the rows is a row.
LEMMA RowsAre ==
    ASSUME NEW rows \in Seq(Services!Row)
    PROVE  /\ Len(rows) \in Nat /\ DOMAIN rows = 1 .. Len(rows)
           /\ \A i \in 1 .. Len(rows) : rows[i] \in Services!Row /\ rows[i].name \in Nat
BY LenProperties, ElementOfSeq, UnitNumbers

\* `left` is the rows without those from n + 1 up to e, whose names are before
\* the name given.
Cut(rows, left, n, name, e) ==
    /\ e <= Len(rows) => rows[e].name >= name
    /\ \A i \in n + 1 .. e - 1 : rows[i].name < name
    /\ Len(left) = n + Len(rows) - e + 1
    /\ \A i \in 1 .. n : left[i] = rows[i]
    /\ \A i \in n + 1 .. Len(left) : left[i] = rows[i + e - n - 1]

CutUpTo(rows, left, n, name) ==
    \E e \in n + 1 .. Len(rows) + 1 : Cut(rows, left, n, name, e)

\* The merge has come to n.
HasCome(m, n) == m \in MergeRecord /\ m.at = n + 1 /\ n <= Len(m.rows)

\* The rows before a name are gone, and only they.
LEMMA RemoveBeforeIs ==
    ASSUME NEW n \in Nat, NEW m, HasCome(m, n), NEW name \in Nat,
           NEW r, r = Services!RemoveBefore(m, name)
    PROVE  /\ HasCome(r, n) /\ r.made = m.made
           /\ CutUpTo(m.rows, r.rows, n, name)
<1>0. m \in MergeRecord /\ m.at = n + 1 /\ n <= Len(m.rows)
  BY DEF HasCome
<1> PICK rows \in Seq(Services!Row) : rows = m.rows
  BY <1>0 DEF MergeRecord
<1> PICK L \in Nat : L = Len(rows) /\ n <= L
  BY <1>0, RowsAre
<1>1. DOMAIN rows = 1 .. L /\ \A i \in 1 .. L : rows[i] \in Services!Row /\ rows[i].name \in Nat
  BY RowsAre
<1> DEFINE Ends(k) == /\ k \in DOMAIN rows => rows[k].name >= name
                      /\ \A i \in n + 1 .. k - 1 : rows[i].name < name
           K == {k \in n + 1 .. L + 1 : k \in DOMAIN rows => rows[k].name >= name}
           end == CHOOSE k \in n + 1 .. L + 1 : Ends(k)
<1>2. \E k \in n + 1 .. L + 1 : Ends(k)
  <2>1. L + 1 \in K
    BY <1>1
  <2>2. K \in SUBSET Nat
    OBVIOUS
  <2>3. PICK k \in K : \A i \in K : k <= i
    <3> HIDE DEF K
    <3> QED  BY <2>1, <2>2, Least
  <2>4. ASSUME NEW i \in n + 1 .. k - 1  PROVE rows[i].name < name
    <3>1. i \in n + 1 .. L + 1 /\ i \in 1 .. L /\ ~ (k <= i)
      BY <2>3, <2>4
    <3>2. i \notin K
      <4> HIDE DEF K
      <4> QED  BY <2>3, <3>1
    <3>3. ~ (rows[i].name >= name) /\ rows[i].name \in Nat
      BY <1>1, <3>1, <3>2
    <3> QED  BY <3>3
  <2> QED  BY <2>3, <2>4
<1>3. end \in n + 1 .. L + 1 /\ Ends(end)
  <2> HIDE DEF Ends
  <2> QED  BY <1>2
<1>4. r = [m EXCEPT !.rows = SubSeq(rows, 1, m.at - 1) \o SubSeq(rows, end, L)]
  BY <1>0 DEF Services!RemoveBefore
<1> PICK e \in n + 1 .. L + 1 : e = end
  BY <1>3
<1>5. Ends(e)
  BY <1>3
<1>6. e \in Nat /\ e <= L + 1 /\ e > 0 /\ L \in Nat
  OBVIOUS
<1> HIDE DEF end, Ends, K
<1> PICK a, b : a = SubSeq(rows, 1, n) /\ b = SubSeq(rows, e, L)
  OBVIOUS
<1>7. /\ a \in Seq(Services!Row) /\ Len(a) = n
      /\ \A i \in 1 .. n : a[i] = rows[i]
  <2>1. \A i \in 1 .. n : rows[i] \in Services!Row /\ 1 + i - 1 = i /\ i \in 1 .. n - 1 + 1
    BY <1>1
  <2>2. /\ a \in Seq(Services!Row) /\ Len(a) = IF 1 <= n THEN n - 1 + 1 ELSE 0
        /\ \A i \in 1 .. n - 1 + 1 : a[i] = rows[1 + i - 1]
    BY <2>1, SubSeqProperties
  <2> QED  BY <2>1, <2>2
<1>8. /\ b \in Seq(Services!Row) /\ Len(b) = L - e + 1
      /\ \A i \in 1 .. L - e + 1 : b[i] = rows[e + i - 1]
  <2>1. \A i \in e .. L : rows[i] \in Services!Row
    BY <1>1
  <2>2. /\ b \in Seq(Services!Row) /\ Len(b) = IF e <= L THEN L - e + 1 ELSE 0
        /\ \A i \in 1 .. L - e + 1 : b[i] = rows[e + i - 1]
    BY <2>1, SubSeqProperties
  <2>3. Len(b) = L - e + 1
    <3>1. (IF e <= L THEN L - e + 1 ELSE 0) = L - e + 1
      BY ONLY <1>6, FromPlace
    <3> QED  BY <2>2, <3>1
  <2> QED  BY <2>2, <2>3
<1> PICK k \in Nat : k = L - e + 1
  BY ONLY <1>6, FromPlace
<1> PICK c : c = a \o b
  OBVIOUS
<1>9. /\ c \in Seq(Services!Row) /\ Len(c) = n + L - e + 1
      /\ \A i \in 1 .. n : c[i] = rows[i]
      /\ \A i \in n + 1 .. n + L - e + 1 : c[i] = rows[i + e - n - 1]
  <2>1. Len(a) = n /\ Len(b) = k
    BY <1>7, <1>8
  <2>2. /\ c \in Seq(Services!Row) /\ Len(c) = Len(a) + Len(b)
        /\ \A i \in 1 .. Len(a) + Len(b) : c[i] = IF i <= Len(a) THEN a[i] ELSE b[i - Len(a)]
    <3>1. a \in Seq(Services!Row) /\ b \in Seq(Services!Row)
      BY <1>7, <1>8
    <3>2. /\ a \o b \in Seq(Services!Row) /\ Len(a \o b) = Len(a) + Len(b)
          /\ \A i \in 1 .. Len(a) + Len(b) :
                (a \o b)[i] = IF i <= Len(a) THEN a[i] ELSE b[i - Len(a)]
      BY ONLY <3>1, ConcatProperties, Zenon
    <3> QED  BY <3>2
  <2>3. /\ Len(c) = n + k
        /\ \A i \in 1 .. n + k : c[i] = IF i <= n THEN a[i] ELSE b[i - n]
    BY ONLY <2>1, <2>2
  <2>4. n + k = n + L - e + 1
    OBVIOUS
  <2>5. ASSUME NEW i \in 1 .. n  PROVE c[i] = rows[i]
    <3>1. i \in 1 .. n + k /\ i <= n
      OBVIOUS
    <3> QED  BY <1>7, <2>3, <3>1
  <2>6. ASSUME NEW i \in n + 1 .. n + L - e + 1  PROVE c[i] = rows[i + e - n - 1]
    <3>1. /\ i \in 1 .. n + k /\ ~ (i <= n) /\ i - n \in 1 .. L - e + 1
          /\ e + (i - n) - 1 = i + e - n - 1
      OBVIOUS
    <3>2. c[i] = b[i - n] /\ b[i - n] = rows[e + (i - n) - 1]
      BY <1>8, <2>3, <3>1
    <3> QED  BY <3>1, <3>2
  <2>7. Len(c) = n + L - e + 1
    BY <2>3, <2>4
  <2> QED  BY <2>2, <2>5, <2>6, <2>7
<1>10. r = [m EXCEPT !.rows = c]
  <2>1. m.at - 1 = n
    BY <1>0
  <2> QED  BY <1>4, <2>1
<1>11. r \in MergeRecord /\ r.at = n + 1 /\ r.made = m.made /\ r.rows = c
  BY <1>0, <1>9, <1>10 DEF MergeRecord
<1>12. /\ e <= Len(m.rows) => m.rows[e].name >= name
       /\ \A i \in n + 1 .. e - 1 : m.rows[i].name < name
  <2>1. e <= L => e \in 1 .. L
    OBVIOUS
  <2> QED  BY <1>1, <1>5, <2>1 DEF Ends
<1>13. Cut(m.rows, r.rows, n, name, e)
  BY <1>9, <1>11, <1>12 DEF Cut
<1>14. n <= Len(r.rows)
  <2>1. r.rows = c /\ Len(c) = n + L - e + 1
    BY <1>9, <1>11
  <2> QED  BY ONLY <1>6, <2>1, n \in Nat
<1> QED  BY <1>11, <1>13, <1>14 DEF HasCome, CutUpTo

\* c is s with x at i.
HasPut(c, s, i, x) ==
    /\ Len(c) = Len(s) + 1 /\ c[i] = x
    /\ \A k \in 1 .. i - 1 : c[k] = s[k]
    /\ \A k \in i + 1 .. Len(s) + 1 : c[k] = s[k - 1]

LEMMA InsertAtIs ==
    ASSUME NEW S, NEW s \in Seq(S), NEW i \in 1 .. Len(s) + 1, NEW x \in S,
           NEW c, c = Services!InsertAt(s, i, x)
    PROVE  c \in Seq(S) /\ HasPut(c, s, i, x)
<1> PICK L \in Nat : L = Len(s)
  BY LenProperties
<1>1. DOMAIN s = 1 .. L /\ \A k \in 1 .. L : s[k] \in S
  BY LenProperties, ElementOfSeq
<1>2. i \in Nat /\ 1 <= i /\ i <= L + 1
  OBVIOUS
<1> PICK h \in Nat : h = i - 1
  BY <1>2
<1> PICK t \in Nat : t = L - i + 1
  BY ONLY <1>2, L \in Nat
<1> DEFINE front == SubSeq(s, 1, h)
           back == SubSeq(s, i, L)
<1>3. front \in Seq(S) /\ Len(front) = h /\ \A k \in 1 .. h : front[k] = s[k]
  <2>1. \A k \in 1 .. h : s[k] \in S /\ 1 + k - 1 = k /\ k \in 1 .. h - 1 + 1
    BY <1>1, <1>2
  <2>2. /\ front \in Seq(S) /\ Len(front) = IF 1 <= h THEN h - 1 + 1 ELSE 0
        /\ \A k \in 1 .. h - 1 + 1 : front[k] = s[1 + k - 1]
    BY <2>1, SubSeqProperties
  <2> QED  BY <2>1, <2>2
<1>4. back \in Seq(S) /\ Len(back) = t /\ \A k \in 1 .. t : back[k] = s[i + k - 1]
  <2>1. \A k \in i .. L : s[k] \in S
    BY <1>1, <1>2
  <2>2. /\ back \in Seq(S) /\ Len(back) = IF i <= L THEN L - i + 1 ELSE 0
        /\ \A k \in 1 .. L - i + 1 : back[k] = s[i + k - 1]
    BY <1>2, <2>1, SubSeqProperties
  <2>3. (IF i <= L THEN L - i + 1 ELSE 0) = L - i + 1
    BY ONLY <1>2, L \in Nat
  <2> QED  BY <2>2, <2>3
<1>5. c = (front \o <<x>>) \o back
  BY DEF Services!InsertAt
<1> HIDE DEF front, back
<1> PICK mid : mid = front \o <<x>>
  OBVIOUS
<1>6. /\ mid \in Seq(S) /\ Len(mid) = i /\ mid[i] = x
      /\ \A k \in 1 .. h : mid[k] = s[k]
  <2>1. mid \in Seq(S) /\ Len(mid) = h + 1
    BY <1>3
  <2>2. \A k \in 1 .. h + 1 : mid[k] = IF k <= h THEN front[k] ELSE x
    BY <1>3
  <2> QED  BY <1>2, <1>3, <2>1, <2>2
<1>7. /\ c \in Seq(S) /\ Len(c) = i + t
      /\ \A k \in 1 .. i + t : c[k] = IF k <= i THEN mid[k] ELSE back[k - i]
  <2>1. mid \in Seq(S) /\ back \in Seq(S) /\ Len(mid) = i /\ Len(back) = t /\ c = mid \o back
    BY <1>4, <1>5, <1>6
  <2>2. /\ mid \o back \in Seq(S) /\ Len(mid \o back) = Len(mid) + Len(back)
        /\ \A k \in 1 .. Len(mid) + Len(back) :
              (mid \o back)[k] = IF k <= Len(mid) THEN mid[k] ELSE back[k - Len(mid)]
    BY ONLY <2>1, ConcatProperties, Zenon
  <2> QED  BY ONLY <2>1, <2>2
<1>8. i + t = L + 1 /\ h < i
  BY ONLY <1>2, L \in Nat, t = L - i + 1, h = i - 1
<1>9. c[i] = x
  <2>1. i \in 1 .. i + t /\ i <= i
    BY <1>2
  <2>2. c[i] = mid[i]
    BY <1>7, <2>1
  <2> QED  BY <1>6, <2>2
<1>10. ASSUME NEW k \in 1 .. i - 1  PROVE c[k] = s[k]
  <2>1. k \in 1 .. i + t /\ k <= i /\ k \in 1 .. h
    BY <1>2
  <2> QED  BY <1>6, <1>7, <2>1
<1>11. ASSUME NEW k \in i + 1 .. L + 1  PROVE c[k] = s[k - 1]
  <2>1. k \in 1 .. i + t /\ ~ (k <= i) /\ k - i \in 1 .. t /\ i + (k - i) - 1 = k - 1
    BY <1>2
  <2> QED  BY <1>4, <1>7, <2>1
<1>12. Len(c) = L + 1
  BY <1>7, <1>8
<1> QED  BY <1>7, <1>9, <1>10, <1>11, <1>12 DEF HasPut

\* The name of the n-th of a list, and of nothing before the first.
NameAt(list, n) == IF n = 0 THEN 0 ELSE list[n].name

\* A row of each unit of S named from the least on is still ahead.
StillAhead(merged, n, S, least) ==
    \A u \in S : u >= least =>
       \E i \in n + 1 .. Len(merged) : merged[i].name = u

\* The merge of the list into rows with those names, when it has come to n.
MergeAt(m, n, names, list) ==
    /\ HasCome(m, n)
    /\ ByName(m.rows)
    /\ \A i \in 1 .. n : m.rows[i] = list[i]
    /\ StillAhead(m.rows, n, names, NameAt(list, n) + 1)
    /\ m.made \cap names = {}

LEMMA Named ==
    ASSUME NEW rows \in Seq(Services!Row), ByName(rows),
           NEW i \in 1 .. Len(rows), NEW j \in 1 .. Len(rows), i < j
    PROVE  rows[i].name \in Nat /\ rows[j].name \in Nat /\ rows[i].name < rows[j].name
<1>1. i \in DOMAIN rows /\ j \in DOMAIN rows
  BY RowsAre
<1>2. rows[i].name < rows[j].name
  BY <1>1 DEF ByName
<1> QED  BY <1>2, RowsAre

\* The rows without those before the next of the list.
LEMMA ClearedBefore ==
    ASSUME NEW names \in SUBSET Units, NEW list \in Seq(Services!Row), ByName(list),
           NEW n \in Nat, n < Len(list), NEW m, MergeAt(m, n, names, list),
           NEW s, s = list[n + 1], NEW r, r = Services!RemoveBefore(m, s.name)
    PROVE  /\ HasCome(r, n) /\ r.made = m.made
           /\ ByName(r.rows)
           /\ \A i \in 1 .. n : r.rows[i] = list[i]
           /\ \A i \in n + 1 .. Len(r.rows) : r.rows[i].name >= s.name
           /\ StillAhead(r.rows, n, names, s.name)
<1> PICK rows \in Seq(Services!Row) : rows = m.rows
  BY DEF MergeAt, MergeRecord, HasCome
<1> PICK L \in Nat : L = Len(rows)
  BY RowsAre
<1>1. DOMAIN rows = 1 .. L /\ \A i \in 1 .. L : rows[i] \in Services!Row /\ rows[i].name \in Nat
  BY RowsAre
<1>2. s \in Services!Row /\ s.name \in Nat /\ s.name >= NameAt(list, n) + 1
  <2>1. n + 1 \in 1 .. Len(list) /\ (n # 0 => n \in 1 .. Len(list))
    BY RowsAre
  <2>2. s \in Services!Row /\ s.name \in Units /\ s.name \in Nat /\ s.name # 0
    BY <2>1, RowsAre, UnitNumbers
  <2>3. CASE n = 0
    BY <2>2, <2>3 DEF NameAt
  <2>4. CASE n # 0
    <3>1. list[n].name < list[n + 1].name /\ list[n].name \in Nat
      BY <2>1, <2>4, RowsAre DEF ByName
    <3> QED  BY <2>2, <2>4, <3>1 DEF NameAt
  <2> QED  BY <2>3, <2>4
<1> PICK name \in Nat : name = s.name
  BY <1>2
<1>3. /\ m \in MergeRecord /\ m.at = n + 1 /\ n <= L
      /\ ByName(rows)
      /\ \A i \in 1 .. n : rows[i] = list[i]
      /\ StillAhead(rows, n, names, NameAt(list, n) + 1)
  BY DEF MergeAt, HasCome
<1>4. HasCome(r, n) /\ r.made = m.made /\ CutUpTo(m.rows, r.rows, n, name)
  <2>1. HasCome(m, n) /\ r = Services!RemoveBefore(m, name)
    BY DEF MergeAt
  <2> QED  BY ONLY <2>1, n \in Nat, name \in Nat, RemoveBeforeIs
<1> PICK left \in Seq(Services!Row) : left = r.rows
  BY <1>4 DEF MergeRecord, HasCome
<1> PICK e \in n + 1 .. L + 1 : Cut(rows, left, n, name, e)
  BY <1>4 DEF CutUpTo
<1> PICK M \in Nat : M = Len(left)
  BY RowsAre
<1>5. /\ e \in Nat /\ n < e /\ e <= L + 1 /\ M = n + L - e + 1
      /\ e <= L => rows[e].name >= name
      /\ \A i \in n + 1 .. e - 1 : rows[i].name < name
      /\ \A i \in 1 .. n : left[i] = rows[i]
      /\ \A i \in n + 1 .. M : left[i] = rows[i + e - n - 1]
  BY DEF Cut
<1>6. DOMAIN left = 1 .. M /\ \A i \in 1 .. M : left[i].name \in Nat
  BY RowsAre
<1>7. n <= M
  BY ONLY <1>5, n \in Nat, L \in Nat, M \in Nat
<1>8. ASSUME NEW i \in n + 1 .. M
      PROVE  i + e - n - 1 \in e .. L /\ i + e - n - 1 \in 1 .. L
  BY ONLY <1>5, n \in Nat, L \in Nat, M \in Nat, i \in n + 1 .. M
<1>9. ASSUME NEW i \in n + 1 .. M  PROVE left[i].name >= name
  <2> PICK k : k = i + e - n - 1
    OBVIOUS
  <2>1. k \in e .. L /\ k \in 1 .. L /\ e \in 1 .. L /\ e <= L
    <3>1. k \in e .. L /\ k \in 1 .. L
      BY <1>8
    <3>2. e \in Nat /\ n < e
      BY <1>5
    <3> QED  BY ONLY <3>1, <3>2, n \in Nat, L \in Nat
  <2>2. left[i] = rows[k] /\ rows[k].name \in Nat /\ rows[e].name \in Nat
    BY <1>1, <1>5, <2>1
  <2>3. rows[e].name >= name
    BY <1>5, <2>1
  <2>4. CASE k = e
    BY <2>2, <2>3, <2>4
  <2>5. CASE e < k
    <3>1. rows[e].name < rows[k].name
      BY <1>3, <2>1, <2>5, Named
    <3>2. rows[k].name >= name
      BY ONLY <2>2, <2>3, <3>1, name \in Nat
    <3> QED  BY <2>2, <3>2
  <2> QED  BY <2>1, <2>4, <2>5
<1>10. ASSUME NEW i \in 1 .. M, NEW j \in 1 .. M, i < j
       PROVE  left[i].name < left[j].name
  <2>1. CASE j <= n
    <3>1. i \in 1 .. n /\ j \in 1 .. n /\ i \in 1 .. L /\ j \in 1 .. L
      BY ONLY <1>3, <1>10, <2>1, i \in 1 .. M, j \in 1 .. M, n \in Nat, L \in Nat, M \in Nat
    <3>2. rows[i].name < rows[j].name
      BY <1>3, <1>10, <3>1, Named
    <3>3. left[i] = rows[i] /\ left[j] = rows[j]
      BY <1>5, <3>1
    <3> QED  BY <3>2, <3>3
  <2>2. CASE ~ (j <= n)
    <3> PICK k : k = j + e - n - 1
      OBVIOUS
    <3>1. j \in n + 1 .. M /\ k \in e .. L /\ k \in 1 .. L /\ left[j] = rows[k]
      BY <1>5, <1>8, <2>2
    <3>2. CASE i <= n
      <4>1. i \in 1 .. n /\ i \in 1 .. L /\ i < k
        BY ONLY <1>3, <1>5, <3>1, <3>2, i \in 1 .. M, n \in Nat, L \in Nat
      <4>2. rows[i].name < rows[k].name
        BY <1>3, <3>1, <4>1, Named
      <4>3. left[i] = rows[i]
        BY <1>5, <4>1
      <4> QED  BY <3>1, <4>2, <4>3
    <3>3. CASE ~ (i <= n)
      <4> PICK h : h = i + e - n - 1
        OBVIOUS
      <4>1. i \in n + 1 .. M
        BY <3>3
      <4>2. h \in 1 .. L /\ h \in e .. L /\ left[i] = rows[h]
        BY <1>5, <1>8, <4>1
      <4>3. h < k
        <5>1. i \in Nat /\ j \in Nat /\ e \in Nat /\ i < j
          BY ONLY <1>5, <1>10, i \in 1 .. M, j \in 1 .. M, M \in Nat
        <5> QED  BY ONLY <5>1, h = i + e - n - 1, k = j + e - n - 1, n \in Nat
      <4>4. rows[h].name < rows[k].name
        BY <1>3, <3>1, <4>2, <4>3, Named
      <4> QED  BY <3>1, <4>2, <4>4
    <3> QED  BY <3>2, <3>3
  <2> QED  BY <2>1, <2>2
<1>13. ByName(left)
  BY ONLY <1>6, <1>10 DEF ByName
<1>11. \A i \in 1 .. n : left[i] = list[i]
  BY <1>3, <1>5
<1>12. StillAhead(left, n, names, name)
  <2> SUFFICES ASSUME NEW u \in names, u >= name
               PROVE  \E i \in n + 1 .. M : left[i].name = u
    BY DEF StillAhead
  <2>1. u \in Nat /\ NameAt(list, n) \in Nat
    <3>1. n # 0 => n \in 1 .. Len(list)
      BY RowsAre
    <3>2. n # 0 => list[n].name \in Nat
      BY <3>1, RowsAre
    <3> QED  BY <3>2, UnitNumbers DEF NameAt
  <2>2. u >= NameAt(list, n) + 1
    BY <1>2, <2>1
  <2>3. PICK k \in n + 1 .. L : rows[k].name = u
    BY <1>3, <2>2 DEF StillAhead
  <2>4. k \in e .. L
    <3>1. ASSUME k \in n + 1 .. e - 1  PROVE FALSE
      <4>1. u < name
        BY <1>5, <2>3, <3>1
      <4> QED  BY ONLY <2>1, <4>1, u >= name, name \in Nat
    <3> QED  BY <1>5, <3>1
  <2> PICK i : i = k - e + n + 1
    OBVIOUS
  <2>5. i \in n + 1 .. M /\ i + e - n - 1 = k
    BY ONLY <1>5, <2>4, i = k - e + n + 1, n \in Nat, L \in Nat, M \in Nat
  <2> QED  BY <1>5, <2>3, <2>5
<1> QED  BY <1>4, <1>9, <1>11, <1>12, <1>13

\* A step of the merge: the next of the list is in its place.
LEMMA MergeOneIs ==
    ASSUME NEW names \in SUBSET Units, NEW list \in Seq(Services!Row), ByName(list),
           NEW n \in Nat, n < Len(list), NEW m, MergeAt(m, n, names, list),
           NEW q, q = Services!MergeOne(m, list[n + 1])
    PROVE  MergeAt(q, n + 1, names, list)
<1> PICK s : s = list[n + 1]
  OBVIOUS
<1> PICK r : r = Services!RemoveBefore(m, s.name)
  OBVIOUS
<1>1. /\ HasCome(r, n) /\ r.made = m.made
      /\ ByName(r.rows)
      /\ \A i \in 1 .. n : r.rows[i] = list[i]
      /\ \A i \in n + 1 .. Len(r.rows) : r.rows[i].name >= s.name
      /\ StillAhead(r.rows, n, names, s.name)
  BY ClearedBefore
<1>2. r \in MergeRecord /\ r.at = n + 1 /\ n <= Len(r.rows)
  BY <1>1 DEF HasCome
<1> PICK rows \in Seq(Services!Row) : rows = r.rows
  BY <1>2 DEF MergeRecord
<1> PICK L \in Nat : L = Len(rows)
  BY RowsAre
<1>3. DOMAIN rows = 1 .. L /\ \A i \in 1 .. L : rows[i] \in Services!Row /\ rows[i].name \in Nat
  BY RowsAre
<1>4. n + 1 \in 1 .. Len(list) /\ \A i \in 1 .. n : i \in 1 .. Len(list)
  BY RowsAre
<1>5. s \in Services!Row /\ s.name \in Units /\ s.name \in Nat
  BY <1>4, RowsAre, UnitNumbers
<1> PICK name \in Nat : name = s.name
  BY <1>5
<1>6. /\ n <= L
      /\ \A i \in 1 .. n : rows[i] = list[i]
      /\ \A i \in n + 1 .. L : rows[i].name >= name
      /\ StillAhead(rows, n, names, name)
      /\ ByName(rows)
  BY <1>1, <1>2
<1>7. ASSUME NEW i \in 1 .. n  PROVE rows[i].name < name
  <2>1. list[i].name < list[n + 1].name
    BY <1>4, <1>7, Named
  <2> QED  BY <1>6, <2>1
<1>8. r.made \in SUBSET Units /\ r.made \cap names = {}
  BY <1>1, <1>2 DEF MergeRecord, MergeAt
<1>9. NameAt(list, n + 1) = name
  BY DEF NameAt
<1> DEFINE same == n + 1 \in DOMAIN rows /\ rows[n + 1].name = name
<1>10. q = [rows |-> IF same THEN [rows EXCEPT ![n + 1] = s]
                    ELSE Services!InsertAt(rows, n + 1, s),
            at |-> n + 2,
            made |-> IF same THEN r.made ELSE r.made \union {name}]
  <2>1. r.at = n + 1 /\ r.at + 1 = n + 2
    BY <1>2
  <2> QED  BY <2>1 DEF Services!MergeOne
<1>11. CASE same
  <2>1. n + 1 \in 1 .. L /\ rows[n + 1].name = name
    BY <1>3, <1>11
  <2> PICK c : c = [rows EXCEPT ![n + 1] = s]
    OBVIOUS
  <2>2. q = [rows |-> c, at |-> n + 2, made |-> r.made]
    BY <1>10, <1>11
  <2>3. c \in Seq(Services!Row) /\ Len(c) = L
    BY <1>5, <2>1, ExceptSeq
  <2>4. \A i \in 1 .. L : c[i] = IF i = n + 1 THEN s ELSE rows[i]
    BY <1>3
  <2>5. \A i \in 1 .. L : c[i].name = rows[i].name
    BY <2>1, <2>4
  <2>6. DOMAIN c = 1 .. L
    BY <1>3
  <2>7. ByName(c)
    BY ONLY <1>3, <1>6, <2>5, <2>6 DEF ByName
  <2>8. ASSUME NEW i \in 1 .. n + 1  PROVE c[i] = list[i]
    <3>1. i \in 1 .. L /\ (i # n + 1 => i \in 1 .. n)
      BY <2>1
    <3> QED  BY <1>6, <2>4, <3>1
  <2>9. StillAhead(c, n + 1, names, name + 1)
    <3> SUFFICES ASSUME NEW u \in names, u >= name + 1
                 PROVE  \E i \in n + 2 .. L : c[i].name = u
      BY <2>3 DEF StillAhead
    <3>1. u \in Nat /\ u >= name /\ u # name
      BY UnitNumbers
    <3>2. PICK i \in n + 1 .. L : rows[i].name = u
      BY <1>6, <3>1 DEF StillAhead
    <3>3. i # n + 1
      BY <2>1, <3>1, <3>2
    <3>4. i \in n + 2 .. L /\ i \in 1 .. L
      BY <3>3
    <3> QED  BY <2>5, <3>2, <3>4
  <2>10. HasCome(q, n + 1)
    <3>1. q \in MergeRecord
      BY <1>8, <2>2, <2>3 DEF MergeRecord
    <3>2. q.at = n + 1 + 1 /\ n + 1 <= Len(q.rows)
      BY <2>1, <2>2, <2>3
    <3> QED  BY <3>1, <3>2 DEF HasCome
  <2>11. q.rows = c /\ q.made = r.made
    BY <2>2
  <2> QED  BY <1>8, <1>9, <2>7, <2>8, <2>9, <2>10, <2>11 DEF MergeAt
<1>12. CASE ~same
  <2> PICK c : c = Services!InsertAt(rows, n + 1, s)
    OBVIOUS
  <2>1. q = [rows |-> c, at |-> n + 2, made |-> r.made \union {name}]
    BY <1>10, <1>12
  <2>2. /\ c \in Seq(Services!Row) /\ Len(c) = L + 1 /\ c[n + 1] = s
        /\ \A i \in 1 .. n + 1 - 1 : c[i] = rows[i]
        /\ \A i \in n + 1 + 1 .. L + 1 : c[i] = rows[i - 1]
    <3> PICK p \in 1 .. Len(rows) + 1 : p = n + 1
      BY <1>6
    <3>1. c \in Seq(Services!Row) /\ HasPut(c, rows, p, s)
      <4>1. s \in Services!Row /\ c = Services!InsertAt(rows, p, s)
        BY <1>5
      <4> QED  BY ONLY <4>1, rows \in Seq(Services!Row), p \in 1 .. Len(rows) + 1, InsertAtIs
    <3>2. /\ Len(c) = L + 1 /\ c[p] = s
          /\ \A i \in 1 .. p - 1 : c[i] = rows[i]
          /\ \A i \in p + 1 .. L + 1 : c[i] = rows[i - 1]
      BY ONLY <3>1, L = Len(rows) DEF HasPut
    <3> QED  BY ONLY <3>1, <3>2, p = n + 1
  <2>3. ASSUME NEW i \in n + 1 .. L  PROVE rows[i].name > name
    <3>1. i \in 1 .. L /\ rows[i].name \in Nat /\ rows[i].name >= name
      BY <1>3, <1>6
    <3>2. CASE i = n + 1
      <4>1. n + 1 \in DOMAIN rows
        BY <1>3, <3>1, <3>2
      <4>2. rows[n + 1].name # name
        BY <1>12, <4>1
      <4> QED  BY <3>1, <3>2, <4>2
    <3>3. CASE n + 1 < i
      <4>1. n + 1 \in 1 .. L /\ n + 1 \in n + 1 .. L
        BY <3>1, <3>3
      <4>2. rows[n + 1].name \in Nat /\ rows[n + 1].name < rows[i].name
        BY <1>6, <3>1, <3>3, <4>1, Named
      <4>3. rows[n + 1].name >= name
        BY <1>6, <4>1
      <4> QED  BY ONLY <3>1, <4>2, <4>3, name \in Nat
    <3> QED  BY <3>2, <3>3
  <2>4. ASSUME NEW i \in 1 .. L + 1, NEW j \in 1 .. L + 1, i < j
        PROVE  c[i].name < c[j].name
    <3>1. CASE j <= n
      <4>1. i \in 1 .. L /\ j \in 1 .. L /\ i \in 1 .. n /\ j \in 1 .. n
        BY ONLY <1>6, <2>4, <3>1, i \in 1 .. L + 1, j \in 1 .. L + 1, n \in Nat, L \in Nat
      <4>2. c[i] = rows[i] /\ c[j] = rows[j]
        BY <2>2, <4>1
      <4>3. rows[i].name < rows[j].name
        BY <1>6, <2>4, <4>1, Named
      <4> QED  BY <4>2, <4>3
    <3>2. CASE j = n + 1
      <4>1. i \in 1 .. n /\ c[i] = rows[i] /\ c[j] = s
        BY <2>2, <2>4, <3>2
      <4> QED  BY <1>7, <4>1
    <3>3. CASE n + 1 < j
      <4>1. j - 1 \in n + 1 .. L /\ j - 1 \in 1 .. L /\ c[j] = rows[j - 1]
        BY <2>2, <3>3
      <4>2. rows[j - 1].name > name /\ rows[j - 1].name \in Nat
        BY <1>3, <2>3, <4>1
      <4>3. CASE i <= n
        <5>1. i \in 1 .. n /\ i \in 1 .. L /\ c[i] = rows[i] /\ rows[i].name \in Nat
          BY <1>3, <1>6, <2>2, <4>3
        <5>2. rows[i].name < name
          BY <1>7, <5>1
        <5>3. rows[i].name < rows[j - 1].name
          BY ONLY <4>2, <5>1, <5>2, name \in Nat
        <5> QED  BY ONLY <4>1, <5>1, <5>3
      <4>4. CASE i = n + 1
        <5>1. c[i] = s
          BY <2>2, <4>4
        <5> QED  BY <4>1, <4>2, <5>1
      <4>5. CASE n + 1 < i
        <5>1. i - 1 \in 1 .. L /\ i - 1 < j - 1 /\ c[i] = rows[i - 1]
          BY <2>2, <2>4, <4>5
        <5>2. rows[i - 1].name < rows[j - 1].name
          BY <1>6, <4>1, <5>1, Named
        <5> QED  BY ONLY <4>1, <5>1, <5>2
      <4> QED  BY <4>3, <4>4, <4>5
    <3> QED  BY <3>1, <3>2, <3>3
  <2>5. DOMAIN c = 1 .. L + 1
    BY <2>2, RowsAre
  <2>6. ByName(c)
    BY ONLY <2>4, <2>5 DEF ByName
  <2>7. ASSUME NEW i \in 1 .. n + 1  PROVE c[i] = list[i]
    <3>1. i = n + 1 \/ i \in 1 .. n
      OBVIOUS
    <3> QED  BY <1>6, <2>2, <3>1
  <2>8. StillAhead(c, n + 1, names, name + 1)
    <3> SUFFICES ASSUME NEW u \in names, u >= name + 1
                 PROVE  \E i \in n + 2 .. L + 1 : c[i].name = u
      BY <2>2 DEF StillAhead
    <3>1. u \in Nat /\ u >= name
      BY UnitNumbers
    <3>2. PICK i \in n + 1 .. L : rows[i].name = u
      BY <1>6, <3>1 DEF StillAhead
    <3>3. i + 1 \in n + 2 .. L + 1 /\ i + 1 - 1 = i
      OBVIOUS
    <3>4. c[i + 1] = rows[i]
      BY <2>2, <3>3
    <3> QED  BY <3>2, <3>3, <3>4
  <2>9. name \notin names
    <3> SUFFICES ASSUME name \in names  PROVE FALSE
      OBVIOUS
    <3>1. PICK i \in n + 1 .. L : rows[i].name = name
      BY <1>6 DEF StillAhead
    <3> QED  BY <2>3, <3>1
  <2>10. HasCome(q, n + 1)
    <3>1. q \in MergeRecord
      BY <1>5, <1>8, <2>1, <2>2 DEF MergeRecord
    <3>2. q.at = n + 1 + 1 /\ n + 1 <= Len(q.rows)
      BY <1>6, <2>1, <2>2
    <3> QED  BY <3>1, <3>2 DEF HasCome
  <2>11. q.rows = c /\ q.made \cap names = {}
    BY <1>8, <2>1, <2>9
  <2> QED  BY <1>9, <2>6, <2>7, <2>8, <2>10, <2>11 DEF MergeAt
<1> QED  BY <1>11, <1>12

\* The merge, one of the list after the other.
MergedSoFar(rows, list, f) ==
    [n \in 0 .. Len(list) |->
        IF n = 0 THEN [rows |-> rows, at |-> 1, made |-> {}]
        ELSE Services!MergeOne(f[n - 1], list[n])]

LEMMA MergedIs ==
    ASSUME NEW rows, NEW list, NEW f, f = MergedSoFar(rows, list, f)
    PROVE  \E g : /\ g = MergedSoFar(rows, list, g)
                  /\ Services!Merged(rows, list) = g[Len(list)]
BY Zenon DEF Services!Merged, MergedSoFar

\* The merge comes to the end of the list.
LEMMA MergedAtEnd ==
    ASSUME NEW rows \in Seq(Services!Row), ByName(rows),
           NEW list \in Seq(Services!Row), ByName(list),
           NEW names, names = Services!ListedNames(rows),
           NEW q, q = Services!Merged(rows, list)
    PROVE  MergeAt(q, Len(list), names, list)
<1> PICK L \in Nat : L = Len(list)
  BY RowsAre
<1>1. \A i \in 1 .. L : list[i] \in Services!Row
  BY RowsAre
<1>2. names \in SUBSET Units
  BY RowsAre, UnitNumbers DEF Services!ListedNames
<1> DEFINE start == [rows |-> rows, at |-> 1, made |-> {}]
           Step1(k, m) == Services!MergeOne(m, list[k])
           At(k, m) == MergeAt(m, k, names, list)
           Goes(n, f) == /\ f \in [0 .. n -> MergeRecord] /\ f[0] = start
                         /\ \A k \in 0 .. n : At(k, f[k])
                         /\ \A k \in 1 .. n : f[k] = Step1(k, f[k - 1])
           Never == {n \in 0 .. L : ~ \E f : Goes(n, f)}
<1>3. At(0, start) /\ start \in MergeRecord
  <2>1. start \in MergeRecord /\ start.rows = rows /\ start.at = 0 + 1 /\ start.made = {}
    BY DEF MergeRecord
  <2>2. HasCome(start, 0)
    BY <2>1, RowsAre DEF HasCome
  <2>3. StillAhead(rows, 0, names, 0 + 1)
    BY RowsAre DEF StillAhead, Services!ListedNames
  <2>4. NameAt(list, 0) = 0
    BY DEF NameAt
  <2> HIDE DEF start
  <2> QED  BY <2>1, <2>2, <2>3, <2>4 DEF MergeAt
<1>4. ASSUME NEW k \in 1 .. L, NEW m, At(k - 1, m)
      PROVE  At(k, Step1(k, m)) /\ Step1(k, m) \in MergeRecord
  <2> PICK n \in Nat : n = k - 1
    OBVIOUS
  <2>1. n < Len(list) /\ k = n + 1
    OBVIOUS
  <2> PICK q1 : q1 = Services!MergeOne(m, list[n + 1])
    OBVIOUS
  <2>2. MergeAt(m, n, names, list)
    BY <1>4
  <2>3. MergeAt(q1, n + 1, names, list)
    BY <1>2, <2>1, <2>2, MergeOneIs
  <2> QED  BY <2>1, <2>3 DEF MergeAt, HasCome
<1> HIDE DEF start, Step1, At
<1>5. Never = {}
  <2> SUFFICES ASSUME Never # {}  PROVE FALSE
    OBVIOUS
  <2>1. Never \in SUBSET Nat
    OBVIOUS
  <2>2. PICK n \in Never : \A i \in Never : n <= i
    <3> HIDE DEF Never
    <3> QED  BY <2>1, Least
  <2>3. CASE n = 0
    <3>1. Goes(0, [k \in 0 .. 0 |-> start])
      BY <1>3
    <3> QED  BY <2>2, <2>3, <3>1
  <2>4. CASE n # 0
    <3>1. n - 1 \in 0 .. L /\ ~ (n <= n - 1) /\ n \in 1 .. L
      BY <2>2, <2>4
    <3>2. n - 1 \notin Never
      <4> HIDE DEF Never
      <4> QED  BY <2>2, <3>1
    <3>3. PICK f : Goes(n - 1, f)
      BY <3>1, <3>2
    <3> PICK x : x = Step1(n, f[n - 1])
      OBVIOUS
    <3>4. At(n - 1, f[n - 1])
      BY <3>1, <3>3
    <3>5. At(n, x) /\ x \in MergeRecord
      BY <1>4, <3>1, <3>4
    <3> DEFINE g == [k \in 0 .. n |-> IF k = n THEN x ELSE f[k]]
    <3>6. \A k \in 0 .. n : k # n => k \in 0 .. n - 1
      BY <3>1
    <3>7. g \in [0 .. n -> MergeRecord]
      BY <3>3, <3>5, <3>6
    <3>8. g[0] = start
      BY <3>1, <3>3
    <3>9. ASSUME NEW k \in 0 .. n  PROVE At(k, g[k])
      <4>1. CASE k = n
        BY <3>5, <4>1
      <4>2. CASE k # n
        BY <3>3, <3>6, <4>2
      <4> QED  BY <4>1, <4>2
    <3>10. ASSUME NEW k \in 1 .. n  PROVE g[k] = Step1(k, g[k - 1])
      <4>1. k \in 0 .. n /\ k - 1 \in 0 .. n /\ k - 1 # n /\ (k # n => k \in 1 .. n - 1)
        BY <3>1
      <4>2. g[k - 1] = f[k - 1]
        BY <4>1
      <4>3. CASE k = n
        BY <4>1, <4>2, <4>3
      <4>4. CASE k # n
        BY <3>3, <4>1, <4>2, <4>4
      <4> QED  BY <4>3, <4>4
    <3>11. Goes(n, g)
      <4> HIDE DEF g
      <4> QED  BY <3>7, <3>8, <3>9, <3>10
    <3> HIDE DEF g, Goes
    <3> QED  BY <2>2, <3>11
  <2> QED  BY <2>3, <2>4
<1>6. PICK f : Goes(L, f)
  <2>1. L \in 0 .. L
    OBVIOUS
  <2> HIDE DEF Goes
  <2> QED  BY <1>5, <2>1
<1>7. f = MergedSoFar(rows, list, f)
  <2> DEFINE so == MergedSoFar(rows, list, f)
  <2>1. so = [n \in 0 .. L |-> IF n = 0 THEN start ELSE Step1(n, f[n - 1])]
    BY Zenon DEF MergedSoFar, start, Step1
  <2>2. DOMAIN so = 0 .. L /\ \A n \in 0 .. L : so[n] = IF n = 0 THEN start ELSE Step1(n, f[n - 1])
    BY <2>1
  <2> HIDE DEF so
  <2>3. \A n \in 0 .. L : n # 0 => n \in 1 .. L
    OBVIOUS
  <2>4. \A n \in 0 .. L : f[n] = so[n]
    BY <1>6, <2>2, <2>3
  <2>5. f = [n \in 0 .. L |-> f[n]]
    BY <1>6
  <2>6. so = [n \in 0 .. L |-> so[n]]
    BY <2>1, <2>2
  <2>7. f = so
    BY <2>4, <2>5, <2>6
  <2> QED  BY <2>7 DEF so
<1>8. PICK g : g = MergedSoFar(rows, list, g) /\ Services!Merged(rows, list) = g[Len(list)]
  BY <1>7, MergedIs
<1>9. \A n \in 0 .. L : g[n] = IF n = 0 THEN start ELSE Step1(n, g[n - 1])
  <2> DEFINE so == MergedSoFar(rows, list, g)
  <2>1. so = [n \in 0 .. L |-> IF n = 0 THEN start ELSE Step1(n, g[n - 1])]
    BY Zenon DEF MergedSoFar, start, Step1
  <2>2. \A n \in 0 .. L : so[n] = IF n = 0 THEN start ELSE Step1(n, g[n - 1])
    BY <2>1
  <2> HIDE DEF so
  <2>3. g = so
    BY <1>8 DEF so
  <2> QED  BY <2>2, <2>3
<1> DEFINE Odd == {n \in 0 .. L : ~ At(n, g[n])}
<1>10. Odd = {}
  <2> SUFFICES ASSUME Odd # {}  PROVE FALSE
    OBVIOUS
  <2>1. Odd \in SUBSET Nat
    OBVIOUS
  <2>2. PICK n \in Odd : \A i \in Odd : n <= i
    <3> HIDE DEF Odd
    <3> QED  BY <2>1, Least
  <2>3. CASE n = 0
    BY <1>3, <1>9, <2>2, <2>3
  <2>4. CASE n # 0
    <3>1. n - 1 \in 0 .. L /\ ~ (n <= n - 1) /\ n \in 1 .. L /\ n \in 0 .. L
      BY <2>2, <2>4
    <3>2. n - 1 \notin Odd
      <4> HIDE DEF Odd
      <4> QED  BY <2>2, <3>1
    <3>3. At(n - 1, g[n - 1])
      BY <3>1, <3>2
    <3>4. At(n, Step1(n, g[n - 1]))
      BY <1>4, <3>1, <3>3
    <3>5. g[n] = Step1(n, g[n - 1])
      BY <1>9, <2>4, <3>1
    <3> QED  BY <2>2, <3>4, <3>5
  <2> QED  BY <2>3, <2>4
<1>11. At(L, g[L])
  <2>1. L \in 0 .. L
    OBVIOUS
  <2> QED  BY <1>10, <2>1
<1> QED  BY <1>8, <1>11 DEF At

\* The merge makes the list of the rows, and new rows only of units that had none.
LEMMA MergeIs ==
    ASSUME NEW rows \in Seq(Services!Row), ByName(rows),
           NEW list \in Seq(Services!Row), ByName(list),
           NEW q, q = Services!Merge(rows, list)
    PROVE  q.rows = list /\ q.made \cap Services!ListedNames(rows) = {}
<1> PICK names : names = Services!ListedNames(rows)
  OBVIOUS
<1> PICK m : m = Services!Merged(rows, list)
  OBVIOUS
<1> PICK L \in Nat : L = Len(list)
  BY RowsAre
<1>1. MergeAt(m, L, names, list)
  BY MergedAtEnd
<1>2. /\ m \in MergeRecord /\ m.at = L + 1 /\ L <= Len(m.rows)
      /\ \A i \in 1 .. L : m.rows[i] = list[i]
      /\ m.made \cap names = {}
  BY <1>1 DEF MergeAt, HasCome
<1> PICK all \in Seq(Services!Row) : all = m.rows
  BY <1>2 DEF MergeRecord
<1> PICK cut : cut = SubSeq(all, 1, L)
  OBVIOUS
<1>3. q = [rows |-> cut, made |-> m.made]
  <2>1. m.at - 1 = L
    BY <1>2
  <2> QED  BY <2>1 DEF Services!Merge
<1>4. cut = list
  <2>1. /\ Len(all) \in Nat /\ L <= Len(all) /\ \A i \in 1 .. L : all[i] = list[i]
        /\ \A i \in 1 .. L : all[i] \in Services!Row
    BY <1>2, RowsAre
  <2>2. /\ cut \in Seq(Services!Row) /\ Len(cut) = IF 1 <= L THEN L - 1 + 1 ELSE 0
        /\ \A i \in 1 .. L - 1 + 1 : cut[i] = all[1 + i - 1]
    BY <2>1, SubSeqProperties
  <2>3. Len(cut) = L
    BY <2>2
  <2>4. \A i \in 1 .. L : cut[i] = list[i]
    BY <2>1, <2>2
  <2> QED  BY ONLY <2>2, <2>3, <2>4, list \in Seq(Services!Row), L = Len(list), SeqEqual
<1> QED  BY <1>2, <1>3, <1>4

States == {"unloaded", "fine", "failed"}

\* What systemd lists is the units loaded, by name.
LEMMA ListedIs ==
    ASSUME state \in [Units -> States], NEW only, NEW l, l = Services!Listed(only)
    PROVE  l \in Seq(Services!Row) /\ ByName(l)
<1> PICK units : units = {u \in Units : state[u] # "unloaded" /\ (only => u \in ServiceUnits)}
  OBVIOUS
<1> PICK a : a = Ascending(units)
  OBVIOUS
<1>1. units \in SUBSET Nat /\ IsFiniteSet(units)
  BY UnitNumbers, FS_Subset
<1>2. /\ a \in Seq(units)
      /\ \A i, j \in DOMAIN a : i < j => a[i] < a[j]
  BY <1>1, AscendingLists
<1> PICK L \in Nat : L = Len(a)
  BY <1>2, LenProperties
<1>3. DOMAIN a = 1 .. L /\ \A i \in 1 .. L : a[i] \in units
  BY <1>2, LenProperties, ElementOfSeq
<1>4. l = [i \in DOMAIN a |-> [name |-> a[i], status |-> state[a[i]]]]
  <2>1. Services!Ascending(units) = a
    BY SameOperators
  <2> QED  BY <2>1 DEF Services!Listed
<1>5. \A i \in 1 .. L : l[i] = [name |-> a[i], status |-> state[a[i]]]
  BY <1>3, <1>4
<1>6. ASSUME NEW i \in 1 .. L  PROVE l[i] \in Services!Row /\ l[i].name = a[i]
  <2>1. a[i] \in Units /\ state[a[i]] # "unloaded" /\ state[a[i]] \in States
    BY <1>3
  <2>2. state[a[i]] \in {"fine", "failed"}
    BY <2>1 DEF States
  <2> PICK u \in Units, s \in {"fine", "failed"} : u = a[i] /\ s = state[a[i]]
    BY <2>1, <2>2
  <2>3. l[i] = [name |-> u, status |-> s]
    BY <1>5
  <2> QED  BY ONLY <2>3, u \in Units, s \in {"fine", "failed"}, u = a[i] DEF Services!Row
<1>7. DOMAIN l = 1 .. L
  BY <1>3, <1>4
<1>8. l \in Seq(Services!Row)
  <2>1. l = [i \in 1 .. L |-> l[i]]
    BY <1>4, <1>7
  <2> QED  BY <1>6, <2>1
<1>9. ByName(l)
  BY ONLY <1>2, <1>3, <1>6, <1>7 DEF ByName
<1> QED  BY <1>8, <1>9

----------------------------------------------------------------------------
(* ServicesView: what holds in every state.                                 *)

\* A list that a goroutine has is by name.
ListsByName(b) ==
    /\ b = [j \in Jobs |-> b[j]]
    /\ \A j \in Jobs : b[j].at = "listed" =>
          b[j].list \in Seq(Services!Row) /\ ByName(b[j].list)

ServicesInv ==
    /\ state \in [Units -> States]
    /\ order \in Seq(Services!Row) /\ ByName(order)
    /\ shown \subseteq Services!ListedNames(order)
    /\ selected \in shown \union {Services!NoUnit}
    /\ ListsByName(job)
    /\ RowsAreTheList

LEMMA ListsExcept ==
    ASSUME NEW b, ListsByName(b), NEW j \in Jobs, NEW x,
           x.at = "listed" => x.list \in Seq(Services!Row) /\ ByName(x.list),
           NEW c, c = [b EXCEPT ![j] = x]
    PROVE  ListsByName(c)
<1>1. b = [i \in Jobs |-> b[i]]
  BY DEF ListsByName
<1>2. \A i \in Jobs : c[i] = IF i = j THEN x ELSE b[i]
  BY <1>1
<1>3. c = [i \in Jobs |-> c[i]]
  BY <1>1
<1> QED  BY <1>2, <1>3 DEF ListsByName

LEMMA RefreshKeeps ==
    ASSUME NEW b, ListsByName(b), Services!Refresh(b)
    PROVE  ListsByName(job')
<1>1. CASE ~client
  BY <1>1 DEF Services!Refresh
<1>2. CASE client
  <2> PICK x : x = [at |-> "list"]
    OBVIOUS
  <2>1. PICK j \in Jobs : job' = [b EXCEPT ![j] = x]
    BY <1>2 DEF Services!Refresh
  <2>2. x.at # "listed"
    OBVIOUS
  <2> QED  BY <2>1, <2>2, ListsExcept
<1> QED  BY <1>1, <1>2

LEMMA ServicesInvInit ==
    ASSUME Services!Init
    PROVE  ServicesInv
<1>1. state \in [Units -> States]
  BY DEF Services!Init, States
<1>2. order = <<>> /\ shown = {} /\ selected = Services!NoUnit
  BY DEF Services!Init
<1>3. order \in Seq(Services!Row) /\ ByName(order)
  BY <1>2, EmptySeq DEF ByName
<1>4. ListsByName(job)
  <2> PICK x : x = Services!NoJob
    OBVIOUS
  <2>1. job = [j \in Jobs |-> x]
    BY DEF Services!Init
  <2>2. x.at # "listed"
    BY DEF Services!NoJob
  <2> QED  BY <2>1, <2>2 DEF ListsByName
<1>5. RowsAreTheList
  BY DEF Services!Init, RowsAreTheList, Services!RowsAreTheList
<1> QED  BY <1>1, <1>2, <1>3, <1>4, <1>5 DEF ServicesInv

\* What the rows are and who has what lists is all the invariant is about.
LEMMA ServicesInvFrame ==
    ASSUME ServicesInv, state' \in [Units -> States],
           order' = order, applied' = applied,
           shown' \subseteq Services!ListedNames(order),
           selected' \in shown' \union {Services!NoUnit},
           ListsByName(job')
    PROVE  ServicesInv'
<1>1. order' \in Seq(Services!Row) /\ ByName(order')
  BY DEF ServicesInv
<1>2. shown' \subseteq Services!ListedNames(order')
  OBVIOUS
<1>3. RowsAreTheList'
  BY DEF ServicesInv, RowsAreTheList, Services!RowsAreTheList, Services!NeverApplied
<1>4. Services!NoUnit' = Services!NoUnit
  BY DEF Services!NoUnit
<1> QED  BY <1>1, <1>2, <1>3, <1>4 DEF ServicesInv, ListsByName

\* A row that is matched is a row.
LEMMA RefilterKeeps ==
    ASSUME NEW which, NEW problems, Services!Refilter(which, problems)
    PROVE  /\ order' = order /\ shown' \subseteq Services!ListedNames(order)
           /\ selected' \in shown' \union {Services!NoUnit}
<1>1. /\ order' = order
      /\ shown' = Services!Matching(order, which, problems)
      /\ Services!Selects(shown', Services!ListedNames(order))
  BY DEF Services!Refilter
<1>2. Services!Matching(order, which, problems) \subseteq Services!ListedNames(order)
  BY DEF Services!Matching
<1> PICK s : s = shown'
  OBVIOUS
<1>3. selected' \in s \union {Services!NoUnit}
  BY <1>1 DEF Services!Selects
<1> QED  BY <1>1, <1>2, <1>3

\* A list that is applied is the rows then, and a unit that was and is listed
\* is in the row it was in.
LEMMA AppliedList ==
    ASSUME ServicesInv, NEW j \in Jobs, Services!OnList(j)
    PROVE  /\ ServicesInv'
           /\ selected \in Services!ListedNames(order') => selected' = selected
<1>1. ListsByName(job')
  <2> PICK x : x = Services!NoJob
    OBVIOUS
  <2>1. x.at # "listed"
    BY DEF Services!NoJob
  <2>2. job' = [job EXCEPT ![j] = x] /\ ListsByName(job)
    BY DEF Services!OnList, ServicesInv
  <2> QED  BY <2>1, <2>2, ListsExcept
<1>2. state' = state /\ state' \in [Units -> States]
  BY DEF Services!OnList, ServicesInv
<1>3. CASE job[j].at = "list failed"
  <2>1. order' = order /\ shown' = shown /\ selected' = selected /\ applied' = applied
    BY <1>3 DEF Services!OnList, Services!view
  <2>2. shown' \subseteq Services!ListedNames(order) /\ selected' \in shown' \union {Services!NoUnit}
    BY <2>1 DEF ServicesInv
  <2>3. ServicesInv'
    BY <1>1, <1>2, <2>1, <2>2, ServicesInvFrame
  <2> QED  BY <2>1, <2>3
<1>4. CASE job[j].at # "list failed"
  <2>1. job[j].at = "listed"
    BY <1>4 DEF Services!OnList
  <2> PICK list : list = job[j].list
    OBVIOUS
  <2>2. list \in Seq(Services!Row) /\ ByName(list)
    BY <2>1 DEF ServicesInv, ListsByName
  <2> PICK m : m = Services!Merge(order, list)
    OBVIOUS
  <2> PICK names, before : /\ names = Services!ListedNames(list)
                           /\ before = Services!ListedNames(order)
    OBVIOUS
  <2>3. m.rows = list /\ m.made \cap before = {}
    BY <2>2, MergeIs DEF ServicesInv
  <2> PICK kept : kept = names \ m.made
    OBVIOUS
  <2>4. /\ order' = list
        /\ shown' = (shown \cap kept) \union (Services!Matching(list, found, problemsOnly) \cap m.made)
        /\ Services!Selects(shown', kept)
        /\ applied' = list
    BY <1>4, <2>3 DEF Services!OnList
  <2> PICK shows : shows = shown'
    OBVIOUS
  <2>5. shows \subseteq names
    BY <2>4 DEF Services!Matching
  <2>6. selected' \in shows \union {Services!NoUnit}
    BY <2>4 DEF Services!Selects
  <2>7. ASSUME selected \in names  PROVE selected' = selected
    <3>1. selected # Services!NoUnit
      BY <2>2, <2>7, RowsAre, UnitNumbers DEF Services!NoUnit, Services!ListedNames
    <3>2. selected \in shown /\ selected \in before
      BY <3>1 DEF ServicesInv
    <3>3. selected \in kept
      BY <2>3, <2>7, <3>2
    <3>4. selected \in shows \cap kept
      BY <2>4, <3>2, <3>3
    <3> QED  BY <2>4, <3>4 DEF Services!Selects
  <2>8. RowsAreTheList'
    BY <2>4 DEF RowsAreTheList, Services!RowsAreTheList
  <2>9. Services!ListedNames(order') = names
    BY <2>4
  <2>10. ServicesInv'
    <3>1. order' \in Seq(Services!Row) /\ ByName(order')
      BY <2>2, <2>4
    <3>2. Services!NoUnit' = Services!NoUnit
      BY DEF Services!NoUnit
    <3> QED  BY <1>1, <1>2, <2>5, <2>6, <2>8, <2>9, <3>1, <3>2 DEF ServicesInv, ListsByName
  <2> QED  BY <2>7, <2>9, <2>10
<1> QED  BY <1>3, <1>4

LEMMA ServicesSteps ==
    ASSUME ServicesInv, Services!Next
    PROVE  ServicesInv'
<1>1. /\ state \in [Units -> States] /\ ListsByName(job)
      /\ shown \subseteq Services!ListedNames(order)
      /\ selected \in shown \union {Services!NoUnit}
  BY DEF ServicesInv
<1>2. ASSUME UNCHANGED <<state, order, shown, selected, applied>>, ListsByName(job')
      PROVE  ServicesInv'
  BY <1>1, <1>2, ServicesInvFrame
<1>3. ASSUME UNCHANGED <<state, applied, job>>,
             NEW which, NEW problems, Services!Refilter(which, problems)
      PROVE  ServicesInv'
  <2>1. /\ order' = order /\ shown' \subseteq Services!ListedNames(order)
        /\ selected' \in shown' \union {Services!NoUnit}
    BY <1>3, RefilterKeeps
  <2>2. ListsByName(job')
    BY <1>1, <1>3
  <2> QED  BY <1>1, <1>3, <2>1, <2>2, ServicesInvFrame
<1>4. CASE Services!Update \/ Services!ClickRefresh \/ Services!ToggleTypes
  <2>1. Services!Refresh(job) /\ UNCHANGED <<state, order, shown, selected, applied>>
    BY <1>4 DEF Services!Update, Services!ClickRefresh, Services!ToggleTypes, Services!view
  <2>2. ListsByName(job')
    BY <1>1, <2>1, RefreshKeeps
  <2> QED  BY <1>2, <2>1, <2>2
<1>5. CASE Services!ToggleProblems
  <2>1. Services!Refilter(found, ~problemsOnly) /\ UNCHANGED <<state, applied, job>>
    BY <1>5 DEF Services!ToggleProblems
  <2> QED  BY <1>3, <2>1
<1>6. ASSUME NEW which \in Searches, Services!SearchFor(which)
      PROVE  ServicesInv'
  <2>1. Services!Refilter(which, problemsOnly) /\ UNCHANGED <<state, applied, job>>
    BY <1>6 DEF Services!SearchFor
  <2> QED  BY <1>3, <2>1
<1>7. ASSUME NEW u \in Units, Services!SelectRow(u)
      PROVE  ServicesInv'
  <2>1. /\ selected' \in shown' \union {Services!NoUnit}
        /\ shown' \subseteq Services!ListedNames(order)
        /\ UNCHANGED <<state, order, applied, job>>
    BY <1>1, <1>7 DEF Services!SelectRow
  <2>2. ListsByName(job')
    BY <1>1, <2>1
  <2> QED  BY <1>1, <2>1, <2>2, ServicesInvFrame
<1>8. CASE Services!DoAction
  <2>1. UNCHANGED <<state, order, shown, selected, applied>>
    BY <1>8 DEF Services!DoAction, Services!view
  <2>2. CASE selected = Services!NoUnit
    <3>1. job' = job
      BY <1>8, <2>2 DEF Services!DoAction
    <3>2. ListsByName(job')
      BY <1>1, <3>1
    <3> QED  BY <1>2, <2>1, <3>2
  <2>3. CASE selected # Services!NoUnit
    <3> PICK x : x = [at |-> "act", name |-> selected]
      OBVIOUS
    <3>1. PICK j \in Jobs : job' = [job EXCEPT ![j] = x]
      BY <1>8, <2>3 DEF Services!DoAction, Services!Free
    <3>2. x.at # "listed"
      OBVIOUS
    <3>3. ListsByName(job')
      BY <1>1, <3>1, <3>2, ListsExcept
    <3> QED  BY <1>2, <2>1, <3>3
  <2> QED  BY <2>2, <2>3
<1>9. ASSUME NEW j \in Jobs, Services!AnswerList(j)
      PROVE  ServicesInv'
  <2>1. UNCHANGED <<state, order, shown, selected, applied>>
    BY <1>9 DEF Services!AnswerList, Services!view
  <2> PICK list : list = Services!Listed(servicesOnly)
    OBVIOUS
  <2>2. list \in Seq(Services!Row) /\ ByName(list)
    BY <1>1, ListedIs
  <2>3. PICK x : /\ x = [at |-> "list failed"] \/ x = [at |-> "listed", list |-> list]
                 /\ job' = [job EXCEPT ![j] = x]
    BY <1>9 DEF Services!AnswerList
  <2>4. x.at = "listed" => x.list \in Seq(Services!Row) /\ ByName(x.list)
    <3>1. CASE x = [at |-> "list failed"]
      BY <3>1
    <3>2. CASE x = [at |-> "listed", list |-> list]
      <4>1. x.list = list
        BY <3>2
      <4> QED  BY <2>2, <4>1
    <3> QED  BY <2>3, <3>1, <3>2
  <2>5. ListsByName(job')
    BY <1>1, <2>3, <2>4, ListsExcept
  <2> QED  BY <1>2, <2>1, <2>5
<1>10. ASSUME NEW j \in Jobs, Services!AnswerAct(j)
       PROVE  ServicesInv'
  <2>1. UNCHANGED <<state, order, shown, selected, applied>>
    BY <1>10 DEF Services!AnswerAct, Services!view
  <2>2. PICK outcome \in {"acted", "act failed"} : job' = [job EXCEPT ![j] = [at |-> outcome]]
    BY <1>10 DEF Services!AnswerAct
  <2> PICK x : x = [at |-> outcome]
    OBVIOUS
  <2>3. x.at # "listed"
    OBVIOUS
  <2>4. ListsByName(job')
    BY <1>1, <2>2, <2>3, ListsExcept
  <2> QED  BY <1>2, <2>1, <2>4
<1>11. ASSUME NEW j \in Jobs, Services!OnAct(j)
       PROVE  ServicesInv'
  <2>1. UNCHANGED <<state, order, shown, selected, applied>>
    BY <1>11 DEF Services!OnAct, Services!view
  <2> PICK x : x = Services!NoJob
    OBVIOUS
  <2> PICK b : b = [job EXCEPT ![j] = x]
    OBVIOUS
  <2>2. x.at # "listed"
    BY DEF Services!NoJob
  <2>3. ListsByName(b)
    BY <1>1, <2>2, ListsExcept
  <2>4. job' = b \/ Services!Refresh(b)
    BY <1>11 DEF Services!OnAct
  <2>5. ListsByName(job')
    BY <2>3, <2>4, RefreshKeeps
  <2> QED  BY <1>2, <2>1, <2>5
<1>12. ASSUME NEW u \in Changing, Services!UnitChanges(u)
       PROVE  ServicesInv'
  <2>1. UNCHANGED <<order, shown, selected, applied, job>>
    BY <1>12 DEF Services!UnitChanges, Services!view
  <2>2. state' \in [Units -> States]
    BY <1>1, <1>12 DEF Services!UnitChanges, States
  <2>3. ListsByName(job')
    BY <1>1, <2>1
  <2> QED  BY <1>1, <2>1, <2>2, <2>3, ServicesInvFrame
<1>13. ASSUME NEW j \in Jobs, Services!OnList(j)
       PROVE  ServicesInv'
  BY <1>13, AppliedList
<1> QED  BY <1>4, <1>5, <1>6, <1>7, <1>8, <1>9, <1>10, <1>11, <1>12, <1>13
         DEF Services!Next, Services!User, Services!Goroutine, Services!IdleCallback

LEMMA ServicesStays ==
    ASSUME ServicesInv, UNCHANGED servicesVars
    PROVE  ServicesInv'
BY DEF ServicesInv, servicesVars, ListsByName, Services!NoUnit, RowsAreTheList,
       Services!RowsAreTheList

\* The rows of the services page stay by name, what is shown and selected is a
\* row, and every list on its way to the main thread is by name.
THEOREM ServicesInvariant == TablesSpec => []ServicesInv
<1>1. TablesInit => ServicesInv
  BY ServicesInvInit DEF TablesInit
<1>2. ServicesInv /\ [AppsMove \/ ServicesMove]_<<vars, servicesVars>> => ServicesInv'
  <2>1. ASSUME ServicesInv, AppsMove \/ UNCHANGED <<vars, servicesVars>>
        PROVE  ServicesInv'
    BY <2>1, ServicesStays DEF AppsMove
  <2>2. ASSUME ServicesInv, ServicesMove
        PROVE  ServicesInv'
    BY <2>2, ServicesSteps DEF ServicesMove
  <2> QED  BY <2>1, <2>2
<1> QED  BY <1>1, <1>2, PTL DEF TablesSpec

\* The rows are one list that systemd gave, as a whole and in its order,
\* whatever rows it was merged into (services.go:262).
THEOREM RowsAreOneList == TablesSpec => []RowsAreTheList
<1>1. ServicesInv => RowsAreTheList
  BY DEF ServicesInv
<1> QED  BY <1>1, ServicesInvariant, PTL

\* While its unit is listed and shown a row that is selected stays so when a list
\* comes (services.go:16).
THEOREM SelectionStaysOnUnit == TablesSpec => SelectionFollowsUnit
<1>1. ASSUME ServicesInv
      PROVE  [(\E j \in Jobs : Services!OnList(j)) /\ selected \in Services!ListedNames(order')
                => selected' = selected]_(Services!vars)
  <2>1. CASE UNCHANGED Services!vars
    BY <2>1
  <2>2. CASE (\E j \in Jobs : Services!OnList(j)) /\ selected \in Services!ListedNames(order')
                => selected' = selected
    BY <2>2
  <2> QED  BY <1>1, <2>1, <2>2, AppliedList
<1> QED  BY <1>1, ServicesInvariant, PTL DEF SelectionFollowsUnit, Services!SelectionFollowsUnit

\* Seen alone the process table is one of the window's tables: what is proved of
\* it holds beside the services page.
THEOREM AppsAmongTables == TablesSpec => Spec
<1>1. TablesInit => Init
  BY DEF TablesInit
<1>2. [AppsMove \/ ServicesMove]_<<vars, servicesVars>> => [Next]_vars
  BY DEF AppsMove, ServicesMove
<1> QED  BY <1>1, <1>2, PTL DEF TablesSpec, Spec

\* And so is the services page.
THEOREM ServicesAmongTables == TablesSpec => Services!Spec
<1>1. TablesInit => Services!Init
  BY DEF TablesInit
<1>2. ASSUME [AppsMove \/ ServicesMove]_<<vars, servicesVars>>
      PROVE  [Services!Next]_(Services!vars)
  BY <1>2 DEF AppsMove, ServicesMove, servicesVars, Services!vars, Services!view, Services!controls
<1> QED  BY <1>1, <1>2, PTL DEF TablesSpec, Services!Spec
=============================================================================
