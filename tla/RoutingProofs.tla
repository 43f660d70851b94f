----------------------------- MODULE RoutingProofs -----------------------------
(***************************************************************************)
(* Proofs about the search for routes, for every topology, every avoid-set *)
(* and every caps: what it lists are routes the avoid-set allows, when no  *)
(* cap cuts it short it lists them all, and a pair it calls disjoint is.   *)
(***************************************************************************)
EXTENDS Probe, Routing, NetworkStateProofs, SequenceTheorems

-------------------------------------------------------------------------------
(* Sequences.                                                              *)

\* A function on 1 .. n is a sequence, and <<>> \o leaves it as it is.
LEMMA SeqOfFcn ==
  ASSUME NEW n \in Nat, NEW f, f = [i \in 1 .. n |-> f[i]]
  PROVE  /\ f \in Seq({f[i] : i \in 1 .. n}) /\ Len(f) = n /\ DOMAIN f = 1 .. n
         /\ <<>> \o f = f
<1> DEFINE S == {f[i] : i \in 1 .. n}
<1>1. f \in [1 .. n -> S]
  OBVIOUS
<1>2. f \in Seq(S)
  BY <1>1, SeqDef
<1>3. <<>> \o f = f
  BY <1>2, ConcatEmptySeq
<1>4. Len(f) = n
  BY <1>1, <1>2, LenProperties
<1> QED BY <1>1, <1>2, <1>3, <1>4

\* Keys are sequences of numbers; two of them come apart where both are defined.
IsKey(a)     == a \in Seq(Nat)
Parted(a, b) == \E i \in DOMAIN a \cap DOMAIN b : a[i] # b[i]

LEMMA LexIrreflexive ==
  ASSUME NEW a, IsKey(a)
  PROVE  ~ LexBefore(a, a)
<1>1. \A i \in DOMAIN a : a[i] \in Nat
  BY LenProperties DEF IsKey
<1> QED BY <1>1 DEF LexBefore

LEMMA LexTransitive ==
  ASSUME NEW a, NEW b, NEW c, IsKey(a), IsKey(b), IsKey(c), LexBefore(a, b), LexBefore(b, c)
  PROVE  LexBefore(a, c)
<1>1. /\ DOMAIN a = 1 .. Len(a) /\ DOMAIN b = 1 .. Len(b) /\ DOMAIN c = 1 .. Len(c)
      /\ Len(a) \in Nat /\ Len(b) \in Nat /\ Len(c) \in Nat
      /\ \A i \in DOMAIN a : a[i] \in Nat
      /\ \A i \in DOMAIN b : b[i] \in Nat
      /\ \A i \in DOMAIN c : c[i] \in Nat
  BY LenProperties DEF IsKey
<1>2. PICK i \in DOMAIN a \cap DOMAIN b : a[i] < b[i] /\ \A j \in 1 .. i - 1 : a[j] = b[j]
  BY DEF LexBefore
<1>3. PICK k \in DOMAIN b \cap DOMAIN c : b[k] < c[k] /\ \A j \in 1 .. k - 1 : b[j] = c[j]
  BY DEF LexBefore
<1>4. i \in 1 .. Len(a) /\ i \in 1 .. Len(b) /\ k \in 1 .. Len(b) /\ k \in 1 .. Len(c)
  BY <1>1
<1>5. CASE i < k
  <2>1. i \in 1 .. k - 1 /\ i \in DOMAIN a \cap DOMAIN c
    BY <1>1, <1>4, <1>5
  <2>2. a[i] < c[i]
    BY <1>2, <1>3, <2>1
  <2>3. \A j \in 1 .. i - 1 : a[j] = c[j]
    BY <1>2, <1>3, <1>4, <1>5
  <2> QED BY <2>1, <2>2, <2>3 DEF LexBefore
<1>6. CASE k < i
  <2>1. k \in 1 .. i - 1 /\ k \in DOMAIN a \cap DOMAIN c
    BY <1>1, <1>4, <1>6
  <2>2. a[k] < c[k]
    BY <1>2, <1>3, <2>1
  <2>3. \A j \in 1 .. k - 1 : a[j] = c[j]
    BY <1>2, <1>3, <1>4, <1>6
  <2> QED BY <2>1, <2>2, <2>3 DEF LexBefore
<1>7. CASE i = k
  <2>1. a[i] \in Nat /\ b[i] \in Nat /\ c[i] \in Nat
    BY <1>1, <1>2, <1>3, <1>7
  <2>2. a[i] < c[i]
    BY <1>2, <1>3, <1>7, <2>1
  <2>3. \A j \in 1 .. i - 1 : a[j] = c[j]
    BY <1>2, <1>3, <1>7
  <2>4. i \in DOMAIN a \cap DOMAIN c
    BY <1>2, <1>3, <1>7
  <2> QED BY <2>2, <2>3, <2>4 DEF LexBefore
<1> QED BY <1>4, <1>5, <1>6, <1>7

\* Of two keys that come apart one is before the other: look at the first
\* place where they do.
LEMMA LexTotal ==
  ASSUME NEW a, NEW b, IsKey(a), IsKey(b), Parted(a, b)
  PROVE  LexBefore(a, b) \/ LexBefore(b, a)
<1> DEFINE T == {i \in DOMAIN a \cap DOMAIN b : a[i] # b[i]}
<1>1. /\ DOMAIN a = 1 .. Len(a) /\ DOMAIN b = 1 .. Len(b) /\ Len(a) \in Nat /\ Len(b) \in Nat
      /\ \A i \in DOMAIN a : a[i] \in Nat
      /\ \A i \in DOMAIN b : b[i] \in Nat
  BY LenProperties DEF IsKey
<1>2. T \in SUBSET Nat /\ T # {}
  BY <1>1 DEF Parted
<1>3. PICK i \in T : \A k \in T : i <= k
  <2> HIDE DEF T
  <2> QED BY <1>2, LeastIn
<1>4. i \in 1 .. Len(a) /\ i \in 1 .. Len(b) /\ a[i] # b[i] /\ a[i] \in Nat /\ b[i] \in Nat
  BY <1>1, <1>3
<1>5. \A j \in 1 .. i - 1 : a[j] = b[j]
  <2> SUFFICES ASSUME NEW j \in 1 .. i - 1 PROVE a[j] = b[j]
    OBVIOUS
  <2>1. j \in DOMAIN a \cap DOMAIN b /\ ~ (i <= j)
    BY <1>1, <1>4
  <2>2. j \notin T
    BY <1>3, <2>1
  <2> QED BY <2>1, <2>2
<1>6. i \in DOMAIN a \cap DOMAIN b /\ \A j \in 1 .. i - 1 : b[j] = a[j]
  BY <1>1, <1>4, <1>5
<1>7. a[i] < b[i] \/ b[i] < a[i]
  BY <1>4
<1> QED BY <1>5, <1>6, <1>7 DEF LexBefore

-------------------------------------------------------------------------------
(* Sorting.  A set is given as pairs of a key and a value.                 *)

IsPair(p) == p = <<p[1], p[2]>>

Keyed(K) ==
  /\ IsFiniteSet(K)
  /\ \A p \in K : IsPair(p) /\ IsKey(p[1])
  /\ \A p, q \in K : p # q => Parted(p[1], q[1])

Before(K, p) == {q \in K : LexBefore(q[1], p[1])}
PlaceOf(K, p)  == 1 + Cardinality(Before(K, p))

\* The places of the pairs are the numbers from 1 to how many there are.
LEMMA PlacesFill ==
  ASSUME NEW K, Keyed(K)
  PROVE  /\ Cardinality(K) \in Nat
         /\ \A p \in K : PlaceOf(K, p) \in 1 .. Cardinality(K)
         /\ \A p, q \in K : PlaceOf(K, p) = PlaceOf(K, q) => p = q
         /\ \A i \in 1 .. Cardinality(K) : \E p \in K : PlaceOf(K, p) = i
<1> DEFINE n == Cardinality(K)
           at == [p \in K |-> PlaceOf(K, p)]
<1>1. n \in Nat /\ IsFiniteSet(1 .. n) /\ Cardinality(1 .. n) = n
  <2>1. n \in Nat
    BY FS_CardinalityType DEF Keyed
  <2>2. IsFiniteSet(1 .. n) /\ Cardinality(1 .. n) = IF 1 > n THEN 0 ELSE n - 1 + 1
    BY <2>1, FS_Interval
  <2> QED BY <2>1, <2>2
<1>2. ASSUME NEW p \in K
      PROVE  /\ IsFiniteSet(Before(K, p)) /\ Cardinality(Before(K, p)) \in Nat
             /\ Cardinality(Before(K, p)) < n
  <2>1. p \notin Before(K, p)
    BY LexIrreflexive DEF Before, Keyed
  <2>2. Before(K, p) \in SUBSET K
    BY DEF Before
  <2>3. /\ IsFiniteSet(Before(K, p)) /\ Cardinality(Before(K, p)) <= n
        /\ n = Cardinality(Before(K, p)) => K = Before(K, p)
    BY <2>2, FS_Subset DEF Keyed
  <2>4. Cardinality(Before(K, p)) \in Nat
    BY <2>3, FS_CardinalityType
  <2> QED BY <1>1, <2>1, <2>3, <2>4
<1>3. ASSUME NEW p \in K, NEW q \in K, LexBefore(p[1], q[1])
      PROVE  Cardinality(Before(K, p)) < Cardinality(Before(K, q))
  <2>1. IsKey(p[1]) /\ IsKey(q[1])
    BY DEF Keyed
  <2>2. ASSUME NEW r \in Before(K, p)
        PROVE  r \in Before(K, q)
    <3>1. r \in K /\ LexBefore(r[1], p[1]) /\ IsKey(r[1])
      BY <2>2 DEF Before, Keyed
    <3>2. LexBefore(r[1], q[1])
      BY <1>3, <2>1, <3>1, LexTransitive
    <3> QED BY <3>1, <3>2 DEF Before
  <2>3. p \in Before(K, q) /\ p \notin Before(K, p)
    BY <1>3, <2>1, LexIrreflexive DEF Before
  <2>4. /\ Cardinality(Before(K, p)) <= Cardinality(Before(K, q))
        /\ Cardinality(Before(K, q)) = Cardinality(Before(K, p)) => Before(K, q) = Before(K, p)
    BY <1>2, <2>2, FS_Subset
  <2> QED BY <1>2, <2>3, <2>4
<1>4. ASSUME NEW p \in K, NEW q \in K, p # q
      PROVE  PlaceOf(K, p) # PlaceOf(K, q)
  <2>1. LexBefore(p[1], q[1]) \/ LexBefore(q[1], p[1])
    BY <1>4, LexTotal DEF Keyed
  <2> QED BY <1>2, <1>3, <2>1 DEF PlaceOf
<1>5. \A p \in K : PlaceOf(K, p) \in 1 .. n
  BY <1>1, <1>2 DEF PlaceOf
<1>6. at \in Injection(K, 1 .. n)
  BY <1>4, <1>5 DEF Injection, IsInjective
<1>7. at \in Surjection(K, 1 .. n)
  <2> HIDE DEF at, n
  <2> QED BY <1>1, <1>6, FS_Injection DEF n
<1>8. \A i \in 1 .. n : \E p \in K : at[p] = i
  BY <1>7 DEF Surjection
<1> QED BY <1>1, <1>4, <1>5, <1>8

\* Sorted by key, a set is the sequence of its values, each at its place.
LEMMA SortedIs ==
  ASSUME NEW K, Keyed(K), NEW s, s = InOrder(Ranked(K))
  PROVE  /\ s = [i \in 1 .. Cardinality(K) |-> s[i]]
         /\ Cardinality(K) \in Nat
         /\ \A i \in 1 .. Cardinality(K) : \E p \in K : s[i] = p[2]
         /\ \A p \in K : \E i \in 1 .. Cardinality(K) : s[i] = p[2]
<1> DEFINE n == Cardinality(K)
           R == Ranked(K)
           Tagged(p) == <<PlaceOf(K, p), p[2]>>
           tag == [p \in K |-> Tagged(p)]
           At(i) == CHOOSE r \in R : r[1] = i
           f == [i \in 1 .. n |-> At(i)[2]]
<1>1. n \in Nat /\ \A p \in K : PlaceOf(K, p) \in 1 .. n
  BY PlacesFill
<1>2. R = {Tagged(p) : p \in K}
  BY DEF Ranked, PlaceOf, Before
<1>3. ASSUME NEW p \in K, NEW q \in K, Tagged(p) = Tagged(q)
      PROVE  p = q
  <2>1. PlaceOf(K, p) = PlaceOf(K, q)
    BY <1>3
  <2> QED BY <2>1, PlacesFill
<1>4. tag \in Surjection(K, R) /\ tag \in Injection(K, R)
  BY <1>2, <1>3 DEF Surjection, Injection, IsInjective
<1>5. Cardinality(R) = n
  <2> HIDE DEF tag, R
  <2> QED BY <1>4, FS_Surjection DEF Keyed
<1>6. ASSUME NEW p \in K
      PROVE  At(PlaceOf(K, p)) = Tagged(p)
  <2>1. Tagged(p) \in R /\ Tagged(p)[1] = PlaceOf(K, p) /\ Tagged(p)[2] = p[2]
    BY <1>2
  <2>2. \A r \in R : r[1] = PlaceOf(K, p) => r = Tagged(p)
    BY <1>2, PlacesFill
  <2> HIDE DEF R, Tagged
  <2> QED BY <2>1, <2>2
<1>7. s = <<>> \o f
  <2>1. s = <<>> \o [i \in 1 .. Cardinality(R) |-> At(i)[2]]
    BY DEF InOrder
  <2> HIDE DEF R, At
  <2> QED BY <1>5, <2>1
<1>8. s = f
  <2>1. f = [i \in 1 .. n |-> f[i]]
    OBVIOUS
  <2> HIDE DEF f
  <2> QED BY <1>1, <1>7, <2>1, SeqOfFcn
<1>9. \A p \in K : PlaceOf(K, p) \in 1 .. n /\ s[PlaceOf(K, p)] = p[2]
  <2> SUFFICES ASSUME NEW p \in K PROVE s[PlaceOf(K, p)] = p[2]
    BY <1>1
  <2>1. Tagged(p)[2] = p[2] /\ s[PlaceOf(K, p)] = At(PlaceOf(K, p))[2]
    BY <1>1, <1>8
  <2> HIDE DEF At, Tagged
  <2> QED BY <1>6, <2>1
<1>10. \A i \in 1 .. n : \E p \in K : s[i] = p[2]
  BY <1>9, PlacesFill
<1>11. s = [i \in 1 .. n |-> s[i]]
  BY <1>8
<1> QED BY <1>1, <1>9, <1>10, <1>11

\* s lists the members of S.
Lists(s, S) ==
  /\ s \in Seq(S) /\ Len(s) \in Nat /\ DOMAIN s = 1 .. Len(s)
  /\ \A x \in S : \E i \in 1 .. Len(s) : s[i] = x

LEMMA SortedLists ==
  ASSUME NEW K, Keyed(K), NEW s, s = InOrder(Ranked(K)), NEW S, S = {p[2] : p \in K}
  PROVE  Lists(s, S)
<1> DEFINE n == Cardinality(K)
<1>1. /\ s = [i \in 1 .. n |-> s[i]] /\ n \in Nat
      /\ \A i \in 1 .. n : \E p \in K : s[i] = p[2]
      /\ \A p \in K : \E i \in 1 .. n : s[i] = p[2]
  BY SortedIs
<1> HIDE DEF n
<1>2. Len(s) = n /\ DOMAIN s = 1 .. n
  BY <1>1, SeqOfFcn
<1>3. \A i \in 1 .. n : s[i] \in S
  BY <1>1
<1>4. s \in [1 .. n -> S]
  BY <1>1, <1>3
<1>5. s \in Seq(S)
  BY <1>1, <1>4, SeqDef
<1>6. \A x \in S : \E i \in 1 .. n : s[i] = x
  <2> SUFFICES ASSUME NEW x \in S PROVE \E i \in 1 .. n : s[i] = x
    OBVIOUS
  <2>1. PICK p \in K : x = p[2]
    OBVIOUS
  <2> QED BY <1>1, <2>1
<1> QED BY <1>1, <1>2, <1>5, <1>6 DEF Lists

\* A finite set with a key for each member.
LEMMA KeyedImage ==
  ASSUME NEW S, IsFiniteSet(S), NEW key, key = [x \in S |-> key[x]],
         \A x \in S : IsKey(key[x]),
         \A x, y \in S : x # y => Parted(key[x], key[y])
  PROVE  /\ Keyed({<<key[x], x>> : x \in S})
         /\ S = {p[2] : p \in {<<key[x], x>> : x \in S}}
<1> DEFINE K == {<<key[x], x>> : x \in S}
           g == [x \in S |-> <<key[x], x>>]
<1>1. g \in Surjection(S, K)
  BY DEF Surjection
<1>2. IsFiniteSet(K)
  <2> HIDE DEF g, K
  <2> QED BY <1>1, FS_Surjection
<1>3. \A p \in K : IsPair(p) /\ IsKey(p[1])
  BY DEF IsPair
<1>4. ASSUME NEW p \in K, NEW q \in K, p # q
      PROVE  Parted(p[1], q[1])
  <2>1. PICK x \in S : p = <<key[x], x>>
    OBVIOUS
  <2>2. PICK y \in S : q = <<key[y], y>>
    OBVIOUS
  <2>3. x # y
    BY <1>4, <2>1, <2>2
  <2>4. p[1] = key[x] /\ q[1] = key[y]
    BY <2>1, <2>2
  <2> QED BY <2>3, <2>4
<1>5. S = {p[2] : p \in K}
  <2>1. \A p \in K : p[2] \in S
    OBVIOUS
  <2>2. \A x \in S : <<key[x], x>> \in K /\ <<key[x], x>>[2] = x
    OBVIOUS
  <2> HIDE DEF K
  <2> QED BY <2>1, <2>2
<1> QED BY <1>2, <1>3, <1>4, <1>5 DEF Keyed

\* A set sorted by a key each of its members has for itself is listed.
LEMMA SortListed ==
  ASSUME NEW S, IsFiniteSet(S), NEW key, key = [x \in S |-> key[x]],
         \A x \in S : IsKey(key[x]),
         \A x, y \in S : x # y => Parted(key[x], key[y]),
         NEW s, s = InOrder(Ranked({<<key[x], x>> : x \in S}))
  PROVE  Lists(s, S)
<1> DEFINE K == {<<key[x], x>> : x \in S}
<1>1. Keyed(K) /\ S = {p[2] : p \in K}
  BY KeyedImage
<1> HIDE DEF K
<1> QED BY <1>1, SortedLists DEF K

-------------------------------------------------------------------------------
(* Parallel sections.                                                      *)

Allowed(u, v, forbidden) == {o \in OMS \ forbidden : Src[o] = u /\ Dst[o] = v}

LEMMA TwoPart ==
  ASSUME NEW a, NEW b, NEW i, i \in DOMAIN a, i \in DOMAIN b, a[i] # b[i]
  PROVE  Parted(a, b)
BY DEF Parted

LEMMA ParallelsListed ==
  ASSUME NEW u, NEW v, NEW byLength, NEW forbidden
  PROVE  Lists(OmsBetween(u, v, byLength, forbidden), Allowed(u, v, forbidden))
<1> DEFINE S == Allowed(u, v, forbidden)
           Key(o) == <<IF byLength THEN LengthKm[o] ELSE 0, Rank[o]>>
           key == [o \in S |-> Key(o)]
<1>1. IsFiniteSet(S)
  BY RoutesAssumption, FS_Subset DEF Allowed
<1>2. ASSUME NEW o \in S
      PROVE  Key(o) \in Seq(Nat) /\ DOMAIN Key(o) = 1 .. 2 /\ Key(o)[2] = Rank[o]
  <2>1. o \in OMS /\ LengthKm[o] \in Nat /\ Rank[o] \in Nat
    BY RoutesAssumption, TopologyAssumption DEF Allowed, Failable
  <2> DEFINE w == IF byLength THEN LengthKm[o] ELSE 0
  <2>2. w \in Nat
    BY <2>1
  <2> HIDE DEF w
  <2>3. <<w, Rank[o]>> \in Seq(Nat) /\ DOMAIN <<w, Rank[o]>> = 1 .. 2
    BY <2>1, <2>2
  <2> QED BY <2>3 DEF w
<1>3. ASSUME NEW x \in S, NEW y \in S, x # y
      PROVE  Parted(Key(x), Key(y))
  <2>1. Rank[x] # Rank[y]
    BY <1>3, TopologyAssumption DEF Allowed, Failable
  <2>2. /\ 2 \in DOMAIN Key(x) /\ 2 \in DOMAIN Key(y)
        /\ Key(x)[2] = Rank[x] /\ Key(y)[2] = Rank[y]
    BY <1>2
  <2> HIDE DEF Key
  <2> QED BY <2>1, <2>2, TwoPart
<1>4. OmsBetween(u, v, byLength, forbidden) = InOrder(Ranked({<<Key(o), o>> : o \in S}))
  BY DEF OmsBetween, SortedBy, Allowed
<1>5. /\ key = [o \in S |-> key[o]]
      /\ \A o \in S : key[o] = Key(o)
  OBVIOUS
<1> HIDE DEF S, Key, key
<1>6. {<<Key(o), o>> : o \in S} = {<<key[o], o>> : o \in S}
  BY <1>5
<1>7. \A o \in S : IsKey(key[o])
  BY <1>2, <1>5 DEF IsKey
<1>8. \A x, y \in S : x # y => Parted(key[x], key[y])
  BY <1>3, <1>5
<1>9. Lists(OmsBetween(u, v, byLength, forbidden), S)
  BY <1>1, <1>4, <1>5, <1>6, <1>7, <1>8, SortListed
<1> QED BY <1>9 DEF S

-------------------------------------------------------------------------------
(* The routes over one node path: one section per hop.                     *)

\* There are finitely many functions between finite sets: a function is told
\* by its graph.
LEMMA FcnSetFinite ==
  ASSUME NEW D, IsFiniteSet(D), NEW R, IsFiniteSet(R)
  PROVE  IsFiniteSet([D -> R])
<1> DEFINE G(f) == {<<x, f[x]>> : x \in D}
           g == [f \in [D -> R] |-> G(f)]
<1>1. IsFiniteSet(SUBSET (D \X R))
  BY FS_Product, FS_SUBSET
<1>2. \A f \in [D -> R] : G(f) \in SUBSET (D \X R)
  OBVIOUS
<1>3. ASSUME NEW f \in [D -> R], NEW h \in [D -> R], G(f) = G(h)
      PROVE  f = h
  <2>1. ASSUME NEW x \in D PROVE f[x] = h[x]
    <3>1. <<x, f[x]>> \in G(f)
      OBVIOUS
    <3>2. PICK y \in D : <<x, f[x]>> = <<y, h[y]>>
      BY <1>3, <3>1
    <3> QED BY <3>2
  <2> QED BY <2>1
<1>4. g \in Injection([D -> R], SUBSET (D \X R))
  <2>1. g \in [[D -> R] -> SUBSET (D \X R)]
    BY <1>2
  <2>2. \A f \in [D -> R] : g[f] = G(f)
    OBVIOUS
  <2> HIDE DEF g, G
  <2> QED BY <1>3, <2>1, <2>2 DEF Injection, IsInjective
<1> HIDE DEF g
<1> QED BY <1>1, <1>4, FS_Injection

\* Indexed sets are finite.
LEMMA IndexedFinite ==
  ASSUME NEW n \in Nat, NEW f, \A i \in 1 .. n : IsFiniteSet(f[i])
  PROVE  /\ IsFiniteSet(1 .. n)
         /\ IsFiniteSet({f[i] : i \in 1 .. n}) /\ IsFiniteSet(UNION {f[i] : i \in 1 .. n})
<1> DEFINE T == {f[i] : i \in 1 .. n}
           g == [i \in 1 .. n |-> f[i]]
<1>1. IsFiniteSet(1 .. n)
  <2>1. 1 \in Int /\ n \in Int
    OBVIOUS
  <2> QED BY <2>1, FS_Interval, Zenon
<1>2. g \in Surjection(1 .. n, T)
  BY DEF Surjection
<1>3. IsFiniteSet(T)
  <2> HIDE DEF g, T
  <2> QED BY <1>1, <1>2, FS_Surjection
<1>4. \A t \in T : IsFiniteSet(t)
  OBVIOUS
<1>5. IsFiniteSet(UNION T)
  <2> HIDE DEF T
  <2> QED BY <1>3, <1>4, FS_UNION
<1> QED BY <1>1, <1>3, <1>5

\* A number in front of a sequence of numbers.
LEMMA Headed ==
  ASSUME NEW x \in Nat, NEW s \in Seq(Nat)
  PROVE  /\ <<x>> \o s \in Seq(Nat) /\ DOMAIN (<<x>> \o s) = 1 .. Len(s) + 1 /\ Len(s) \in Nat
         /\ \A i \in 1 .. Len(s) : (<<x>> \o s)[i + 1] = s[i]
<1>1. /\ <<x>> \in Seq(Nat) /\ Len(<<x>>) = 1 /\ Len(s) \in Nat
  BY LenProperties
<1>2. /\ <<x>> \o s \in Seq(Nat) /\ Len(<<x>> \o s) = 1 + Len(s)
      /\ \A i \in 1 .. 1 + Len(s) : (<<x>> \o s)[i] = IF i <= 1 THEN <<x>>[i] ELSE s[i - 1]
  <2> DEFINE h == <<x>>
  <2>1. h \in Seq(Nat) /\ Len(h) = 1
    BY <1>1
  <2> HIDE DEF h
  <2>2. /\ h \o s \in Seq(Nat) /\ Len(h \o s) = Len(h) + Len(s)
        /\ \A i \in 1 .. Len(h) + Len(s) :
             (h \o s)[i] = IF i <= Len(h) THEN h[i] ELSE s[i - Len(h)]
    BY <2>1, ConcatProperties, Zenon
  <2> QED BY <2>1, <2>2, Zenon DEF h
<1> DEFINE t == <<x>> \o s
<1> HIDE DEF t
<1>3. /\ t \in Seq(Nat) /\ Len(t) = 1 + Len(s)
      /\ \A i \in 1 .. 1 + Len(s) : t[i] = IF i <= 1 THEN <<x>>[i] ELSE s[i - 1]
  BY <1>2 DEF t
<1>4. DOMAIN t = 1 .. Len(s) + 1
  BY <1>1, <1>3, LenProperties
<1>5. ASSUME NEW i \in 1 .. Len(s) PROVE t[i + 1] = s[i]
  <2>1. i + 1 \in 1 .. 1 + Len(s) /\ ~ (i + 1 <= 1) /\ i + 1 - 1 = i
    BY <1>1
  <2> QED BY <1>3, <2>1
<1> QED BY <1>1, <1>3, <1>4, <1>5 DEF t

\* One allowed section per hop of the node path p.
Along(p, forbidden) ==
  {r \in [1 .. Len(p) - 1 -> OMS] :
     \A h \in 1 .. Len(p) - 1 : r[h] \in Allowed(p[h], p[h + 1], forbidden)}

LEMMA OptionsAre ==
  ASSUME NEW p, NEW n \in Nat, n = Len(p) - 1, NEW byLength, NEW forbidden,
         NEW options, options = HopOptions(p, byLength, forbidden)
  PROVE  /\ options = [h \in 1 .. n |-> options[h]]
         /\ \A h \in 1 .. n : Lists(options[h], Allowed(p[h], p[h + 1], forbidden))
<1> DEFINE f == [h \in 1 .. n |-> OmsBetween(p[h], p[h + 1], byLength, forbidden)]
<1>1. options = <<>> \o f
  BY DEF HopOptions
<1>2. f = [h \in 1 .. n |-> f[h]] /\ \A h \in 1 .. n : f[h] = OmsBetween(p[h], p[h + 1], byLength, forbidden)
  OBVIOUS
<1> HIDE DEF f
<1>3. options = f
  BY <1>1, <1>2, SeqOfFcn
<1>4. \A h \in 1 .. n : Lists(f[h], Allowed(p[h], p[h + 1], forbidden))
  BY <1>2, ParallelsListed
<1> QED BY <1>2, <1>3, <1>4

\* The choices of a parallel per hop, each with its turn.
Turned(options, first) ==
  {<<<<IF first /\ IsDiagonal(c) THEN 0 ELSE 1>> \o c, c>> : c \in Picks(options)}

LEMMA PicksListed ==
  ASSUME NEW n \in Nat, NEW options, options = [h \in 1 .. n |-> options[h]],
         \A h \in 1 .. n : DOMAIN options[h] = 1 .. Len(options[h]) /\ Len(options[h]) \in Nat,
         NEW first,
         NEW order, order = InOrder(Ranked(Turned(options, first)))
  PROVE  Lists(order, Picks(options))
<1> DEFINE S == Picks(options)
           lead(c) == IF first /\ IsDiagonal(c) THEN 0 ELSE 1
           Key(c) == <<lead(c)>> \o c
           key == [c \in S |-> Key(c)]
           choices(h) == DOMAIN options[h]
           R == UNION {choices(h) : h \in 1 .. n}
<1>1. \A h \in 1 .. n : IsFiniteSet(choices(h)) /\ choices(h) \subseteq Nat
  <2> SUFFICES ASSUME NEW h \in 1 .. n
               PROVE  IsFiniteSet(choices(h)) /\ choices(h) \subseteq Nat
    OBVIOUS
  <2>1. choices(h) = 1 .. Len(options[h]) /\ 1 \in Int /\ Len(options[h]) \in Int
    OBVIOUS
  <2>2. IsFiniteSet(1 .. Len(options[h]))
    BY <2>1, FS_Interval, Zenon
  <2> QED BY <2>1, <2>2
<1>2. IsFiniteSet(1 .. n) /\ IsFiniteSet(R) /\ R \subseteq Nat
  <2> DEFINE f == [h \in 1 .. n |-> choices(h)]
  <2>1. \A h \in 1 .. n : f[h] = choices(h)
    OBVIOUS
  <2>2. R = UNION {f[h] : h \in 1 .. n}
    BY <2>1
  <2> HIDE DEF f
  <2>3. \A h \in 1 .. n : IsFiniteSet(f[h])
    BY <1>1, <2>1
  <2>4. IsFiniteSet(1 .. n) /\ IsFiniteSet(UNION {f[h] : h \in 1 .. n})
    BY <2>3, IndexedFinite
  <2>5. R \subseteq Nat
    BY <1>1
  <2> HIDE DEF R
  <2> QED BY <2>2, <2>4, <2>5
<1>3. S = {c \in [1 .. n -> R] : \A h \in 1 .. n : c[h] \in choices(h)}
  BY DEF Picks
<1>4. IsFiniteSet(S)
  <2>1. IsFiniteSet([1 .. n -> R])
    <3> HIDE DEF R
    <3> QED BY <1>2, FcnSetFinite
  <2>2. S \in SUBSET [1 .. n -> R]
    BY <1>3
  <2> HIDE DEF S, R
  <2> QED BY <2>1, <2>2, FS_Subset
<1> HIDE DEF S, R
<1>5. ASSUME NEW c \in S
      PROVE  /\ Key(c) \in Seq(Nat) /\ DOMAIN Key(c) = 1 .. n + 1
             /\ \A i \in 1 .. n : Key(c)[i + 1] = c[i]
             /\ c = [i \in 1 .. n |-> c[i]]
  <2>1. c \in [1 .. n -> Nat]
    BY <1>2, <1>3
  <2>2. c \in Seq(Nat) /\ Len(c) = n
    BY <2>1, SeqDef
  <2>3. lead(c) \in Nat
    OBVIOUS
  <2> HIDE DEF lead
  <2> QED BY <2>1, <2>2, <2>3, Headed
<1>6. ASSUME NEW c \in S, NEW d \in S, c # d
      PROVE  Parted(Key(c), Key(d))
  <2> HIDE DEF Key
  <2>1. PICK i \in 1 .. n : c[i] # d[i]
    BY <1>5, <1>6
  <2>2. /\ i + 1 \in DOMAIN Key(c) /\ i + 1 \in DOMAIN Key(d)
        /\ Key(c)[i + 1] = c[i] /\ Key(d)[i + 1] = d[i]
    <3>1. i + 1 \in 1 .. n + 1
      OBVIOUS
    <3> QED BY <1>5, <3>1
  <2> QED BY <2>1, <2>2, TwoPart
<1>7. order = InOrder(Ranked({<<Key(c), c>> : c \in S}))
  BY DEF S, Turned
<1>8. key = [c \in S |-> key[c]] /\ \A c \in S : key[c] = Key(c)
  OBVIOUS
<1> HIDE DEF Key, key
<1>9. {<<Key(c), c>> : c \in S} = {<<key[c], c>> : c \in S}
  BY <1>8
<1>10. \A c \in S : IsKey(key[c])
  BY <1>5, <1>8 DEF IsKey
<1>11. \A c, d \in S : c # d => Parted(key[c], key[d])
  BY <1>6, <1>8
<1>12. Lists(order, S)
  BY <1>4, <1>7, <1>8, <1>9, <1>10, <1>11, SortListed
<1> QED BY <1>12 DEF S

\* The routes over a node path are listed.
LEMMA CombosListed ==
  ASSUME NEW p, NEW n \in Nat, n = Len(p) - 1, NEW byLength, NEW forbidden, NEW first
  PROVE  Lists(HopCombos(HopOptions(p, byLength, forbidden), first), Along(p, forbidden))
<1> DEFINE options == HopOptions(p, byLength, forbidden)
           picked(c) == [h \in 1 .. n |-> options[h][c[h]]]
           order == InOrder(Ranked(Turned(options, first)))
           A == Along(p, forbidden)
           can(h) == Allowed(p[h], p[h + 1], forbidden)
<1>1. /\ options = [h \in 1 .. n |-> options[h]]
      /\ \A h \in 1 .. n : Lists(options[h], can(h))
  <2> HIDE DEF options
  <2>1. options = HopOptions(p, byLength, forbidden)
    BY DEF options
  <2> QED BY <2>1, OptionsAre
<1>2. HopCombos(options, first) = <<>> \o [i \in DOMAIN order |-> <<>> \o [h \in DOMAIN options |-> options[h][order[i][h]]]]
  BY DEF HopCombos, Mapped, SortedBy, Turned
<1> HIDE DEF options
<1>3. \A h \in 1 .. n : DOMAIN options[h] = 1 .. Len(options[h]) /\ Len(options[h]) \in Nat
  BY <1>1 DEF Lists
<1>4. Lists(order, Picks(options))
  <2>1. order = InOrder(Ranked(Turned(options, first)))
    OBVIOUS
  <2>2. options = [h \in 1 .. n |-> options[h]]
    BY <1>1
  <2> HIDE DEF order
  <2> QED BY <1>3, <2>1, <2>2, PicksListed, Zenon
<1> HIDE DEF order
<1>5. ASSUME NEW c \in Picks(options)
      PROVE  picked(c) \in A /\ <<>> \o picked(c) = picked(c)
  <2>1. ASSUME NEW h \in 1 .. n
        PROVE  options[h][c[h]] \in can(h) /\ options[h][c[h]] \in OMS
    <3>1. c[h] \in DOMAIN options[h]
      BY <1>1 DEF Picks
    <3>2. options[h][c[h]] \in can(h)
      BY <1>1, <3>1, ElementOfSeq DEF Lists
    <3> QED BY <3>2 DEF Allowed
  <2>2. picked(c) \in [1 .. n -> OMS] /\ \A h \in 1 .. n : picked(c)[h] \in can(h)
    BY <2>1
  <2>3. picked(c) \in A
    BY <2>2 DEF Along
  <2>4. <<>> \o picked(c) = picked(c)
    <3>1. picked(c) = [h \in 1 .. n |-> picked(c)[h]]
      OBVIOUS
    <3> HIDE DEF picked
    <3> QED BY <3>1, SeqOfFcn
  <2> QED BY <2>3, <2>4
<1>6. DOMAIN options = 1 .. n
  BY <1>1
<1> DEFINE f == [i \in 1 .. Len(order) |-> picked(order[i])]
<1>7. \A i \in 1 .. Len(order) : order[i] \in Picks(options)
  BY <1>4, ElementOfSeq DEF Lists
<1>8. HopCombos(options, first) = <<>> \o f
  <2>1. \A i \in 1 .. Len(order) : <<>> \o [h \in 1 .. n |-> options[h][order[i][h]]] = picked(order[i])
    BY <1>5, <1>7
  <2>2. [i \in DOMAIN order |-> <<>> \o [h \in DOMAIN options |-> options[h][order[i][h]]]] = f
    BY <1>4, <1>6, <2>1 DEF Lists
  <2> HIDE DEF f
  <2> QED BY <1>2, <2>2
<1>9. /\ f = [i \in 1 .. Len(order) |-> f[i]] /\ Len(order) \in Nat
      /\ \A i \in 1 .. Len(order) : f[i] = picked(order[i])
  BY <1>4 DEF Lists
<1> HIDE DEF f, A
<1>10. f \in [1 .. Len(order) -> A]
  <2> HIDE DEF picked
  <2>1. \A i \in 1 .. Len(order) : f[i] \in A
    BY <1>5, <1>7, <1>9
  <2> QED BY <1>9, <2>1
<1>11. <<>> \o f = f /\ Len(f) = Len(order) /\ DOMAIN f = 1 .. Len(order) /\ f \in Seq(A)
  BY <1>9, <1>10, SeqOfFcn, SeqDef
<1>12. ASSUME NEW r \in A
       PROVE  \E i \in 1 .. Len(order) : f[i] = r
  <2>1. r = [h \in 1 .. n |-> r[h]] /\ \A h \in 1 .. n : r[h] \in can(h)
    BY DEF A, Along
  <2> DEFINE c == [h \in 1 .. n |-> CHOOSE j \in DOMAIN options[h] : options[h][j] = r[h]]
  <2>2. \A h \in 1 .. n : \E j \in DOMAIN options[h] : options[h][j] = r[h]
    <3> HIDE DEF can
    <3> QED BY <1>1, <2>1 DEF Lists
  <2>3. /\ c = [h \in 1 .. n |-> c[h]]
        /\ \A h \in 1 .. n : c[h] \in DOMAIN options[h] /\ options[h][c[h]] = r[h]
    BY <2>2
  <2> HIDE DEF c
  <2>4. c \in Picks(options)
    BY <1>6, <2>3 DEF Picks
  <2>5. picked(c) = r
    BY <2>1, <2>3
  <2>6. PICK i \in 1 .. Len(order) : order[i] = c
    BY <1>4, <2>4 DEF Lists
  <2> QED BY <1>9, <2>5, <2>6
<1>13. HopCombos(options, first) = f
  BY <1>8, <1>11
<1>14. Lists(f, A)
  BY <1>9, <1>11, <1>12 DEF Lists
<1> QED BY <1>13, <1>14 DEF options, A

-------------------------------------------------------------------------------
(* The emission of routes, node path by node path.                         *)

LEMMA MinOfTwo ==
  ASSUME NEW a \in Nat, NEW b \in Nat
  PROVE  Min({a, b}) = IF a <= b THEN a ELSE b
<1> DEFINE m == IF a <= b THEN a ELSE b
<1>1. m \in {a, b} /\ \A y \in {a, b} : m <= y
  OBVIOUS
<1>2. \A x \in {a, b} : (\A y \in {a, b} : x <= y) => x = m
  OBVIOUS
<1> HIDE DEF m
<1>3. Min({a, b}) = m
  BY <1>1, <1>2 DEF Min
<1> QED BY <1>3 DEF m

\* What Take leaves, and when it leaves everything.
LEMMA TakeIs ==
  ASSUME NEW S, NEW s \in Seq(S), NEW k \in Nat
  PROVE  /\ Take(s, k) \in Seq(S) /\ Len(Take(s, k)) <= k
         /\ (Len(Take(s, k)) < k \/ Len(s) <= k) => Take(s, k) = s
<1> DEFINE m == Min({k, Len(s)})
<1>1. Len(s) \in Nat /\ DOMAIN s = 1 .. Len(s)
  BY LenProperties
<1>2. (k <= Len(s) => m = k) /\ (~ (k <= Len(s)) => m = Len(s))
  <2> DEFINE l == Len(s)
  <2>1. l \in Nat
    BY <1>1
  <2> HIDE DEF l
  <2>2. Min({k, l}) = IF k <= l THEN k ELSE l
    BY <2>1, MinOfTwo
  <2> QED BY <2>2 DEF l
<1>3. Take(s, k) = SubSeq(s, 1, m)
  BY DEF Take
<1> HIDE DEF m
<1>4. m \in Nat /\ m <= Len(s) /\ m <= k /\ 1 \in Int /\ m \in Int
  BY <1>1, <1>2
<1>5. \A i \in 1 .. m : s[i] \in S
  <2> SUFFICES ASSUME NEW i \in 1 .. m PROVE s[i] \in S
    OBVIOUS
  <2>1. i \in 1 .. Len(s)
    BY <1>1, <1>4
  <2> QED BY <2>1, ElementOfSeq
<1>6. SubSeq(s, 1, m) \in Seq(S) /\ Len(SubSeq(s, 1, m)) = IF 1 <= m THEN m - 1 + 1 ELSE 0
  BY <1>4, <1>5, SubSeqProperties
<1>7. Len(SubSeq(s, 1, m)) = m
  BY <1>4, <1>6
<1>8. SubSeq(s, 1, Len(s)) = s
  BY SubSeqFull
<1>9. ASSUME m < k \/ Len(s) <= k
      PROVE  m = Len(s)
  <2> DEFINE l == Len(s)
  <2>1. l \in Nat /\ (k <= l => m = k) /\ (~ (k <= l) => m = l) /\ (m < k \/ l <= k)
    BY <1>1, <1>2, <1>9
  <2> HIDE DEF l
  <2>2. m = l
    BY <2>1
  <2> QED BY <2>2 DEF l
<1> QED BY <1>3, <1>4, <1>6, <1>7, <1>8, <1>9

\* The positions on offer, in the order of their turns.
LEMMA OfferedListed ==
  ASSUME NEW n \in Nat, NEW combos, combos = [i \in 1 .. n |-> combos[i]],
         \A i \in 1 .. n : DOMAIN combos[i] = 1 .. Len(combos[i]) /\ Len(combos[i]) \in Nat,
         NEW share
  PROVE  Lists(SortedBy(Offered(combos, share), LAMBDA x : Turn(x, share)), Offered(combos, share))
<1> DEFINE S == Offered(combos, share)
           row(i) == {<<i, j>> : j \in DOMAIN combos[i]}
           key == [x \in S |-> Turn(x, share)]
<1>1. S = UNION {row(i) : i \in 1 .. n}
  BY DEF Offered
<1>2. ASSUME NEW i \in 1 .. n
      PROVE  IsFiniteSet(row(i))
  <2> DEFINE l == Len(combos[i])
             f == [j \in 1 .. l |-> {<<i, j>>}]
  <2>1. \A j \in 1 .. l : IsFiniteSet(f[j])
    BY FS_Singleton
  <2>2. row(i) = UNION {f[j] : j \in 1 .. l}
    OBVIOUS
  <2>3. l \in Nat
    OBVIOUS
  <2> HIDE DEF f, row, l
  <2>4. IsFiniteSet(UNION {f[j] : j \in 1 .. l})
    BY <2>1, <2>3, IndexedFinite
  <2> QED BY <2>2, <2>4, Zenon
<1>3. IsFiniteSet(S)
  <2> DEFINE f == [i \in 1 .. n |-> row(i)]
  <2>1. \A i \in 1 .. n : f[i] = row(i)
    OBVIOUS
  <2>2. S = UNION {f[i] : i \in 1 .. n}
    BY <1>1, <2>1
  <2> HIDE DEF f, S, row
  <2>3. \A i \in 1 .. n : IsFiniteSet(f[i])
    BY <1>2, <2>1
  <2> QED BY <2>2, <2>3, IndexedFinite
<1>4. ASSUME NEW x \in S
      PROVE  x[1] \in Nat /\ x[2] \in Nat /\ x = <<x[1], x[2]>>
  <2>1. PICK i \in 1 .. n : \E j \in 1 .. Len(combos[i]) : x = <<i, j>>
    BY <1>1
  <2> QED BY <2>1
<1> HIDE DEF S
<1>5. ASSUME NEW x \in S
      PROVE  Turn(x, share) \in Seq(Nat) /\ DOMAIN Turn(x, share) = 1 .. 3
  <2>1. <<0, x[1], x[2]>> \in Seq(Nat) /\ <<1, x[2], x[1]>> \in Seq(Nat)
    BY <1>4
  <2> QED BY <2>1 DEF Turn
<1>6. ASSUME NEW x \in S, NEW y \in S, x # y
      PROVE  Parted(Turn(x, share), Turn(y, share))
  <2> DEFINE a == Turn(x, share)
             b == Turn(y, share)
  <2>1. /\ \A i \in 1 .. 3 : i \in DOMAIN a /\ i \in DOMAIN b
        /\ 1 \in 1 .. 3 /\ 2 \in 1 .. 3 /\ 3 \in 1 .. 3
    BY <1>5
  <2>2. x[1] # y[1] \/ x[2] # y[2]
    BY <1>4, <1>6
  <2>3. \/ a = <<0, x[1], x[2]>> /\ b = <<0, y[1], y[2]>>
        \/ a = <<0, x[1], x[2]>> /\ b = <<1, y[2], y[1]>>
        \/ a = <<1, x[2], x[1]>> /\ b = <<0, y[1], y[2]>>
        \/ a = <<1, x[2], x[1]>> /\ b = <<1, y[2], y[1]>>
    BY DEF Turn
  <2> HIDE DEF a, b
  <2>4. a[1] # b[1] \/ a[2] # b[2] \/ a[3] # b[3]
    BY <2>2, <2>3
  <2>5. Parted(a, b)
    BY <2>1, <2>4, TwoPart
  <2> QED BY <2>5 DEF a, b
<1>7. SortedBy(S, LAMBDA x : Turn(x, share)) = InOrder(Ranked({<<Turn(x, share), x>> : x \in S}))
  BY DEF SortedBy
<1>8. key = [x \in S |-> key[x]] /\ \A x \in S : key[x] = Turn(x, share)
  OBVIOUS
<1> HIDE DEF key
<1>9. {<<Turn(x, share), x>> : x \in S} = {<<key[x], x>> : x \in S}
  BY <1>8
<1>10. \A x \in S : IsKey(key[x])
  BY <1>5, <1>8 DEF IsKey
<1>11. \A x, y \in S : x # y => Parted(key[x], key[y])
  BY <1>6, <1>8
<1>12. Lists(SortedBy(S, LAMBDA x : Turn(x, share)), S)
  BY <1>3, <1>7, <1>8, <1>9, <1>10, <1>11, SortListed
<1> QED BY <1>12 DEF S

\* n lists of members of S.
Rows(combos, n, S) == combos = [i \in 1 .. n |-> combos[i]] /\ \A i \in 1 .. n : combos[i] \in Seq(S)

\* The routes emitted come from the lists; when there are fewer than asked for,
\* they are all there.
LEMMA EmittedIs ==
  ASSUME NEW n \in Nat, NEW combos, NEW S, Rows(combos, n, S), NEW share, NEW k \in Nat, NEW e, e = Emitted(combos, share, k)
  PROVE  /\ e \in Seq(S)
         /\ Len(e) < k => \A i \in 1 .. n : \A j \in 1 .. Len(combos[i]) :
                            \E q \in 1 .. Len(e) : e[q] = combos[i][j]
<1> DEFINE O == Offered(combos, share)
           order == SortedBy(O, LAMBDA x : Turn(x, share))
           t == Take(order, k)
           at(x) == combos[x[1]][x[2]]
           f == [q \in 1 .. Len(t) |-> at(t[q])]
<1>0. combos = [i \in 1 .. n |-> combos[i]] /\ \A i \in 1 .. n : combos[i] \in Seq(S)
  BY DEF Rows
<1>1. \A i \in 1 .. n : DOMAIN combos[i] = 1 .. Len(combos[i]) /\ Len(combos[i]) \in Nat
  BY <1>0, LenProperties
<1>2. e = <<>> \o [q \in DOMAIN t |-> at(t[q])]
  BY DEF Emitted, Mapped
<1>3. Lists(order, O)
  BY <1>0, <1>1, OfferedListed
<1>4. \A x \in O : at(x) \in S
  <2> SUFFICES ASSUME NEW x \in O PROVE at(x) \in S
    OBVIOUS
  <2>1. PICK i \in 1 .. n : \E j \in DOMAIN combos[i] : x = <<i, j>>
    BY <1>0 DEF Offered
  <2>2. PICK j \in DOMAIN combos[i] : x = <<i, j>>
    BY <2>1
  <2>3. j \in 1 .. Len(combos[i]) /\ combos[i] \in Seq(S)
    BY <1>0, <1>1
  <2>4. combos[i][j] \in S
    BY <2>3, ElementOfSeq
  <2> QED BY <2>2, <2>4
<1>5. \A i \in 1 .. n : \A j \in 1 .. Len(combos[i]) : <<i, j>> \in O /\ at(<<i, j>>) = combos[i][j]
  BY <1>0, <1>1 DEF Offered
<1> HIDE DEF order, O, at
<1>6. t \in Seq(O) /\ ((Len(t) < k \/ Len(order) <= k) => t = order)
  BY <1>3, TakeIs DEF Lists
<1> HIDE DEF t
<1>7. Len(t) \in Nat /\ DOMAIN t = 1 .. Len(t) /\ \A q \in 1 .. Len(t) : t[q] \in O
  BY <1>6, LenProperties, ElementOfSeq
<1>8. /\ f = [q \in 1 .. Len(t) |-> f[q]]
      /\ \A q \in 1 .. Len(t) : f[q] = at(t[q]) /\ f[q] \in S
  BY <1>4, <1>7
<1>9. e = <<>> \o f
  BY <1>2, <1>7
<1> HIDE DEF f
<1>10. e = f /\ Len(e) = Len(t)
  <2> DEFINE l == Len(t)
  <2>1. l \in Nat /\ f = [q \in 1 .. l |-> f[q]]
    BY <1>7, <1>8
  <2> HIDE DEF l
  <2>2. <<>> \o f = f /\ Len(f) = l
    BY <2>1, SeqOfFcn
  <2> QED BY <1>9, <2>2 DEF l
<1>11. e \in Seq(S)
  <2>1. f \in [1 .. Len(t) -> S]
    BY <1>8
  <2> QED BY <1>7, <1>10, <2>1, SeqDef
<1>12. ASSUME Len(e) < k, NEW i \in 1 .. n, NEW j \in 1 .. Len(combos[i])
       PROVE  \E q \in 1 .. Len(e) : e[q] = combos[i][j]
  <2>1. t = order
    BY <1>6, <1>10, <1>12
  <2>2. PICK q \in 1 .. Len(t) : t[q] = <<i, j>>
    BY <1>3, <1>5, <2>1 DEF Lists
  <2> QED BY <1>5, <1>8, <1>10, <2>2
<1> QED BY <1>11, <1>12

-------------------------------------------------------------------------------
(* Walks.                                                                  *)

LoneEdges(E, from, to) == {<<e>> : e \in {e \in E : from[e] # to[e]}}

LongerBy(W, E, from, to) ==
  {Append(p[1], p[2]) : p \in {p \in W \X E : Continues(p[1], p[2], from, to)}}

\* g[n] holds the walks of n edges, up to n = m.
WalksUpto(g, hops, m, E, from, to) ==
  /\ g = [n \in 1 .. hops |-> g[n]]
  /\ \A n \in 1 .. hops :
       n <= m => g[n] = IF n = 1 THEN LoneEdges(E, from, to)
                        ELSE LongerBy(g[n - 1], E, from, to)

LEMMA WalksExist ==
  ASSUME NEW hops \in Int, NEW E, NEW from, NEW to, NEW m \in Nat
  PROVE  \E g : WalksUpto(g, hops, m, E, from, to)
<1> DEFINE Some(n) == \E g : WalksUpto(g, hops, n, E, from, to)
           T == {n \in Nat : ~ Some(n)}
<1>1. Some(0)
  <2> DEFINE g == [n \in 1 .. hops |-> {}]
  <2>1. g = [n \in 1 .. hops |-> g[n]] /\ \A n \in 1 .. hops : ~ (n <= 0)
    OBVIOUS
  <2> HIDE DEF g
  <2>2. WalksUpto(g, hops, 0, E, from, to)
    BY <2>1 DEF WalksUpto
  <2> QED BY <2>2
<1>2. ASSUME NEW n \in Nat, Some(n)
      PROVE  Some(n + 1)
  <2>1. PICK g : WalksUpto(g, hops, n, E, from, to)
    BY <1>2
  <2> DEFINE next == IF n + 1 = 1 THEN LoneEdges(E, from, to) ELSE LongerBy(g[n], E, from, to)
             h == [i \in 1 .. hops |-> IF i = n + 1 THEN next ELSE g[i]]
  <2>2. /\ h = [i \in 1 .. hops |-> h[i]]
        /\ \A i \in 1 .. hops : h[i] = IF i = n + 1 THEN next ELSE g[i]
    OBVIOUS
  <2> HIDE DEF h
  <2>3. ASSUME NEW i \in 1 .. hops, i <= n + 1
        PROVE  h[i] = IF i = 1 THEN LoneEdges(E, from, to) ELSE LongerBy(h[i - 1], E, from, to)
    <3>1. CASE i = n + 1
      <4>1. h[i] = next /\ i - 1 = n
        BY <2>2, <3>1
      <4>2. CASE i = 1
        BY <3>1, <4>1, <4>2
      <4>3. CASE i # 1
        <5>1. n \in 1 .. hops /\ n # n + 1
          BY <3>1, <4>3
        <5>2. h[n] = g[n]
          BY <2>2, <5>1
        <5> QED BY <3>1, <4>1, <4>3, <5>2
      <4> QED BY <4>2, <4>3
    <3>2. CASE i # n + 1
      <4>1. i <= n
        BY <2>3, <3>2
      <4>2. h[i] = g[i]
        BY <2>2, <3>2
      <4>3. g[i] = IF i = 1 THEN LoneEdges(E, from, to) ELSE LongerBy(g[i - 1], E, from, to)
        BY <2>1, <4>1 DEF WalksUpto
      <4>4. i # 1 => h[i - 1] = g[i - 1]
        <5>1. i # 1 => i - 1 \in 1 .. hops /\ i - 1 # n + 1
          BY <4>1
        <5> QED BY <2>2, <5>1
      <4> QED BY <4>2, <4>3, <4>4
    <3> QED BY <3>1, <3>2
  <2>4. WalksUpto(h, hops, n + 1, E, from, to)
    BY <2>2, <2>3 DEF WalksUpto
  <2> QED BY <2>4
<1> HIDE DEF Some
<1>3. T = {}
  <2> SUFFICES ASSUME T # {} PROVE FALSE
    OBVIOUS
  <2>1. T \in SUBSET Nat
    OBVIOUS
  <2>2. PICK k \in T : \A j \in T : k <= j
    <3> HIDE DEF T
    <3> QED BY <2>1, LeastIn
  <2>3. k \in Nat /\ k # 0 /\ k - 1 \in Nat
    BY <1>1, <2>2
  <2>4. Some(k - 1)
    BY <2>2, <2>3
  <2>5. Some(k - 1 + 1) /\ k - 1 + 1 = k
    BY <1>2, <2>3, <2>4
  <2> QED BY <2>2, <2>5
<1>4. Some(m)
  BY <1>3
<1> QED BY <1>4 DEF Some

\* What a walk of n edges over E is made of, for any kind of edge and for sections.
Joined(w, n, E, from, to) == w \in [1 .. n -> E] /\ \A i \in 1 .. n - 1 : to[w[i]] = from[w[i + 1]]
IsWalk(w, n, E) == w \in [1 .. n -> E] /\ \A i \in 1 .. n - 1 : Dst[w[i]] = Src[w[i + 1]]

LEMMA LongerWalk ==
  ASSUME NEW E, NEW from, NEW to, NEW n \in Nat \ {0}, NEW v, Joined(v, n, E, from, to), NEW e \in E,
         Continues(v, e, from, to)
  PROVE  Joined(Append(v, e), n + 1, E, from, to)
<1> DEFINE w == Append(v, e)
<1>1. v \in Seq(E) /\ Len(v) = n
  BY SeqDef DEF Joined
<1>2. /\ w \in Seq(E) /\ Len(w) = n + 1
      /\ \A i \in 1 .. n : w[i] = v[i]
      /\ w[n + 1] = e
  BY <1>1, AppendProperties
<1> HIDE DEF w
<1>3. w \in [1 .. n + 1 -> E]
  BY <1>2, LenProperties
<1>4. ASSUME NEW i \in 1 .. n + 1 - 1
      PROVE  to[w[i]] = from[w[i + 1]]
  <2>1. i \in 1 .. n /\ w[i] = v[i]
    BY <1>2
  <2>2. CASE i = n
    <3>1. from[e] = to[v[n]]
      BY <1>1 DEF Continues
    <3> QED BY <1>2, <2>1, <2>2, <3>1
  <2>3. CASE i # n
    <3>1. i \in 1 .. n - 1 /\ i + 1 \in 1 .. n
      BY <2>1, <2>3
    <3> QED BY <1>2, <2>1, <3>1 DEF Joined
  <2> QED BY <2>2, <2>3
<1> QED BY <1>3, <1>4 DEF Joined, w

\* Simple walks are chained, and bounded by the sites.
LEMMA SimpleWalksAre ==
  ASSUME NEW E, NEW from, NEW to
  PROVE  \A w \in SimpleWalks(E, from, to) : \E n \in 1 .. Cardinality(Nodes) - 1 : Joined(w, n, E, from, to)
<1> DEFINE hops == Cardinality(Nodes) - 1
           F(g) == [n \in 1 .. hops |-> IF n = 1 THEN LoneEdges(E, from, to)
                                        ELSE LongerBy(g[n - 1], E, from, to)]
           walks == CHOOSE g : g = F(g)
<1>1. SimpleWalks(E, from, to) = UNION {walks[n] : n \in 1 .. hops}
  BY DEF SimpleWalks, LoneEdges, LongerBy
<1>2. Cardinality(Nodes) \in Nat
  BY RoutesAssumption, FS_CardinalityType
<1>3. hops \in Int /\ Cardinality(Nodes) \in Nat /\ \A n \in 1 .. hops : n <= Cardinality(Nodes)
  BY <1>2
<1> HIDE DEF hops
<1>4. PICK g : WalksUpto(g, hops, Cardinality(Nodes), E, from, to)
  BY <1>3, WalksExist
<1>5. g = F(g)
  BY <1>3, <1>4 DEF WalksUpto
<1>6. walks = F(walks)
  BY <1>5
<1> HIDE DEF walks
<1>7. \A n \in 1 .. hops : walks[n] = IF n = 1 THEN LoneEdges(E, from, to)
                                      ELSE LongerBy(walks[n - 1], E, from, to)
  BY <1>6
<1> DEFINE Good(n) == \A w \in walks[n] : Joined(w, n, E, from, to)
           T == {n \in 1 .. hops : ~ Good(n)}
<1>8. ASSUME NEW n \in 1 .. hops, n = 1
      PROVE  Good(n)
  <2> SUFFICES ASSUME NEW w \in walks[n] PROVE Joined(w, 1, E, from, to)
    BY <1>8
  <2>3. w \in LoneEdges(E, from, to)
    BY <1>7, <1>8
  <2>1. PICK e \in E : w = <<e>>
    BY <2>3 DEF LoneEdges
  <2>2. w \in [1 .. 1 -> E] /\ \A i \in 1 .. 1 - 1 : FALSE
    BY <2>1
  <2> QED BY <2>2 DEF Joined
<1>9. ASSUME NEW n \in 1 .. hops, n # 1, Good(n - 1)
      PROVE  Good(n)
  <2> SUFFICES ASSUME NEW w \in walks[n] PROVE Joined(w, n, E, from, to)
    OBVIOUS
  <2>1. w \in LongerBy(walks[n - 1], E, from, to)
    BY <1>7, <1>9
  <2>2. PICK v \in walks[n - 1], e \in E : w = Append(v, e) /\ Continues(v, e, from, to)
    BY <2>1 DEF LongerBy
  <2>3. Joined(v, n - 1, E, from, to) /\ n - 1 \in Nat \ {0} /\ n - 1 + 1 = n
    BY <1>9, <2>2
  <2>4. Joined(w, n - 1 + 1, E, from, to)
    BY <2>2, <2>3, LongerWalk
  <2> QED BY <2>3, <2>4
<1> HIDE DEF Good
<1>10. T = {}
  <2> SUFFICES ASSUME T # {} PROVE FALSE
    OBVIOUS
  <2>1. T \in SUBSET Nat
    OBVIOUS
  <2>2. PICK k \in T : \A j \in T : k <= j
    <3> HIDE DEF T
    <3> QED BY <2>1, LeastIn
  <2>3. k \in 1 .. hops /\ k # 1 /\ ~ Good(k)
    BY <1>8, <2>2
  <2>4. k - 1 \in 1 .. hops /\ k - 1 \notin T
    <3>1. k \in Int /\ k - 1 \in 1 .. hops /\ ~ (k <= k - 1)
      BY <1>3, <2>3
    <3> HIDE DEF T
    <3> QED BY <2>2, <3>1
  <2>5. Good(k - 1)
    BY <2>4
  <2> QED BY <1>9, <2>3, <2>5
<1>11. \A n \in 1 .. hops : Good(n)
  BY <1>10
<1> QED BY <1>1, <1>11 DEF Good, hops

\* The routes over the allowed sections are.
LEMMA WalksAre ==
  ASSUME NEW E
  PROVE  \A w \in OmsRoutes(E) : \E n \in 1 .. Cardinality(Nodes) - 1 : IsWalk(w, n, E)
<1>1. \A w \in SimpleWalks(E, Src, Dst) :
        \E n \in 1 .. Cardinality(Nodes) - 1 : Joined(w, n, E, Src, Dst)
  BY SimpleWalksAre
<1> QED BY <1>1 DEF OmsRoutes, Joined, IsWalk

\* There are finitely many of them over finitely many edges.
LEMMA WalksFinite ==
  ASSUME NEW E, IsFiniteSet(E), NEW from, NEW to
  PROVE  IsFiniteSet(SimpleWalks(E, from, to))
<1> DEFINE N == Cardinality(Nodes)
           f == [n \in 1 .. N |-> [1 .. n -> E]]
           U == UNION {f[n] : n \in 1 .. N}
           R == SimpleWalks(E, from, to)
<1>1. N \in Nat
  BY RoutesAssumption, FS_CardinalityType
<1>2. \A n \in 1 .. N : f[n] = [1 .. n -> E]
  OBVIOUS
<1> HIDE DEF f
<1>3. ASSUME NEW n \in 1 .. N
      PROVE  IsFiniteSet(f[n])
  <2>1. 1 \in Int /\ n \in Int
    BY <1>1
  <2>2. IsFiniteSet(1 .. n)
    BY <2>1, FS_Interval, Zenon
  <2>3. IsFiniteSet([1 .. n -> E])
    BY <2>2, FcnSetFinite, Zenon
  <2> QED BY <1>2, <2>3
<1>4. IsFiniteSet(U)
  <2> HIDE DEF N
  <2> QED BY <1>1, <1>3, IndexedFinite
<1>5. R \in SUBSET U
  <2> SUFFICES ASSUME NEW r \in R PROVE r \in U
    OBVIOUS
  <2>1. PICK n \in 1 .. N - 1 : Joined(r, n, E, from, to)
    BY SimpleWalksAre
  <2>2. n \in 1 .. N
    BY <1>1
  <2>3. r \in f[n]
    BY <1>2, <2>1, <2>2 DEF Joined
  <2> QED BY <2>2, <2>3
<1> HIDE DEF R, U
<1>6. IsFiniteSet(R)
  BY <1>4, <1>5, FS_Subset
<1> QED BY <1>6 DEF R

-------------------------------------------------------------------------------
(* Node paths.                                                             *)

LEMMA NodeSequenceIs ==
  ASSUME NEW n \in Nat \ {0}, NEW E, E \subseteq OMS, NEW r, IsWalk(r, n, E)
  PROVE  /\ Len(r) = n /\ DOMAIN r = 1 .. n
         /\ NodeSequence(r) \in Seq(Nodes) /\ Len(NodeSequence(r)) = n + 1
         /\ \A i \in 1 .. n : NodeSequence(r)[i] = Src[r[i]] /\ NodeSequence(r)[i + 1] = Dst[r[i]]
<1> DEFINE f == [i \in DOMAIN r |-> Dst[r[i]]]
           h == <<Src[r[1]]>>
<1>1. r \in Seq(E) /\ Len(r) = n /\ DOMAIN r = 1 .. n /\ \A i \in 1 .. n : r[i] \in OMS
  BY SeqDef DEF IsWalk
<1>2. f \in [1 .. n -> Nodes] /\ \A i \in 1 .. n : f[i] = Dst[r[i]]
  BY <1>1, TopologyAssumption
<1>3. f \in Seq(Nodes) /\ Len(f) = n
  BY <1>2, SeqDef
<1>4. 1 \in 1 .. n /\ h \in Seq(Nodes) /\ Len(h) = 1 /\ h[1] = Src[r[1]]
  BY <1>1, TopologyAssumption
<1>5. NodeSequence(r) = h \o f
  BY DEF NodeSequence
<1> HIDE DEF h, f
<1>6. /\ h \o f \in Seq(Nodes) /\ Len(h \o f) = Len(h) + Len(f)
      /\ \A i \in 1 .. Len(h) + Len(f) : (h \o f)[i] = IF i <= Len(h) THEN h[i] ELSE f[i - Len(h)]
  BY <1>3, <1>4, ConcatProperties, Zenon
<1> DEFINE p == NodeSequence(r)
<1>7. /\ p \in Seq(Nodes) /\ Len(p) = 1 + n
      /\ \A i \in 1 .. 1 + n : p[i] = IF i <= 1 THEN h[i] ELSE f[i - 1]
  BY <1>3, <1>4, <1>5, <1>6, Zenon
<1> HIDE DEF p
<1>8. ASSUME NEW i \in 1 .. n
      PROVE  p[i] = Src[r[i]] /\ p[i + 1] = Dst[r[i]]
  <2>1. i + 1 \in 1 .. 1 + n /\ ~ (i + 1 <= 1) /\ i + 1 - 1 = i /\ i \in 1 .. 1 + n
    OBVIOUS
  <2>2. p[i + 1] = Dst[r[i]]
    BY <1>2, <1>7, <2>1
  <2>3. CASE i = 1
    BY <1>4, <1>7, <2>1, <2>2, <2>3
  <2>4. CASE i # 1
    <3>1. i - 1 \in 1 .. n - 1 /\ i - 1 \in 1 .. n /\ i - 1 + 1 = i /\ ~ (i <= 1)
      BY <2>4
    <3>2. p[i] = Dst[r[i - 1]]
      BY <1>2, <1>7, <2>1, <3>1
    <3>3. Dst[r[i - 1]] = Src[r[i - 1 + 1]]
      BY <3>1 DEF IsWalk
    <3> QED BY <2>2, <3>1, <3>2, <3>3
  <2> QED BY <2>3, <2>4
<1> QED BY <1>1, <1>7, <1>8 DEF p

\* The node paths of the routes between u and v.
NodeSet(u, v, forbidden) == {NodeSequence(r) : r \in RoutesBetween(u, v, OMS \ forbidden)}

Joins(r, n, u, v, E) == IsWalk(r, n, E) /\ Src[r[1]] = u /\ Dst[r[n]] = v

LEMMA RoutesBetweenAre ==
  ASSUME NEW u, NEW v, NEW forbidden
  PROVE  /\ IsFiniteSet(RoutesBetween(u, v, OMS \ forbidden))
         /\ \A r \in RoutesBetween(u, v, OMS \ forbidden) :
              \E n \in Nat \ {0} : Joins(r, n, u, v, OMS \ forbidden)
<1> DEFINE E == OMS \ forbidden
           N == Cardinality(Nodes)
           R == RoutesBetween(u, v, E)
<1>1. N \in Nat
  BY RoutesAssumption, FS_CardinalityType
<1>2. IsFiniteSet(E)
  BY RoutesAssumption, FS_Subset
<1> HIDE DEF E
<1>3. ASSUME NEW r \in R
      PROVE  \E n \in Nat \ {0} : IsWalk(r, n, E) /\ Src[r[1]] = u /\ Dst[r[n]] = v
  <2>1. r \in OmsRoutes(E) /\ Src[r[1]] = u /\ Dst[r[Len(r)]] = v
    BY DEF RoutesBetween
  <2>2. PICK n \in 1 .. N - 1 : IsWalk(r, n, E)
    BY <2>1, WalksAre
  <2>3. n \in Nat \ {0}
    BY <1>1
  <2>4. Len(r) = n
    BY <2>2, <2>3, SeqDef DEF IsWalk
  <2> QED BY <2>1, <2>2, <2>3, <2>4
<1>4. R \in SUBSET OmsRoutes(E)
  BY DEF RoutesBetween
<1> HIDE DEF R
<1>5. IsFiniteSet(R)
  <2>1. IsFiniteSet(OmsRoutes(E))
    BY <1>2, WalksFinite DEF OmsRoutes
  <2> QED BY <1>4, <2>1, FS_Subset
<1> QED BY <1>3, <1>5 DEF R, E, Joins


IsNodePath(p, u, v, forbidden) ==
  \E n \in Nat \ {0} :
    /\ p \in Seq(Nodes) /\ Len(p) = n + 1 /\ p[1] = u /\ p[n + 1] = v
    /\ \A i \in 1 .. n : Allowed(p[i], p[i + 1], forbidden) # {}

LEMMA NodeSetIs ==
  ASSUME NEW u, NEW v, NEW forbidden
  PROVE  /\ IsFiniteSet(NodeSet(u, v, forbidden))
         /\ \A p \in NodeSet(u, v, forbidden) : IsNodePath(p, u, v, forbidden)
         /\ \A r \in RoutesBetween(u, v, OMS \ forbidden) :
              NodeSequence(r) \in NodeSet(u, v, forbidden) /\ r \in Along(NodeSequence(r), forbidden)
<1> DEFINE E == OMS \ forbidden
           R == RoutesBetween(u, v, E)
           P == NodeSet(u, v, forbidden)
           g == [r \in R |-> NodeSequence(r)]
<1>1. IsFiniteSet(R) /\ \A r \in R : \E n \in Nat \ {0} : Joins(r, n, u, v, E)
  BY RoutesBetweenAre
<1>2. P = {NodeSequence(r) : r \in R}
  BY DEF NodeSet
<1>3. g \in Surjection(R, P)
  BY <1>2 DEF Surjection
<1>4. IsFiniteSet(P)
  <2> HIDE DEF g, R, P
  <2> QED BY <1>1, <1>3, FS_Surjection
<1>5. ASSUME NEW r \in R
      PROVE  IsNodePath(NodeSequence(r), u, v, forbidden) /\ r \in Along(NodeSequence(r), forbidden)
  <2> DEFINE p == NodeSequence(r)
  <2>1. PICK n \in Nat \ {0} : IsWalk(r, n, E) /\ Src[r[1]] = u /\ Dst[r[n]] = v
    BY <1>1 DEF Joins
  <2>2. /\ Len(r) = n /\ DOMAIN r = 1 .. n
        /\ p \in Seq(Nodes) /\ Len(p) = n + 1
        /\ \A i \in 1 .. n : p[i] = Src[r[i]] /\ p[i + 1] = Dst[r[i]]
    BY <2>1, NodeSequenceIs
  <2> HIDE DEF p
  <2>3. \A i \in 1 .. n : r[i] \in E
    BY <2>1 DEF IsWalk
  <2>4. \A i \in 1 .. n : r[i] \in Allowed(p[i], p[i + 1], forbidden)
    BY <2>2, <2>3 DEF Allowed
  <2>5. 1 \in 1 .. n /\ n \in 1 .. n
    BY <2>1
  <2>6. p[1] = u /\ p[n + 1] = v
    BY <2>1, <2>2, <2>5
  <2>7. IsNodePath(p, u, v, forbidden)
    BY <2>2, <2>4, <2>6 DEF IsNodePath
  <2>8. r \in [1 .. n -> OMS] /\ Len(p) - 1 = n
    BY <2>1, <2>2 DEF IsWalk
  <2>9. r \in Along(p, forbidden)
    BY <2>4, <2>8 DEF Along
  <2> QED BY <2>7, <2>9 DEF p
<1>6. \A p \in P : IsNodePath(p, u, v, forbidden)
  BY <1>2, <1>5
<1> QED BY <1>2, <1>4, <1>5, <1>6

\* The weight of a node path is a number.
LEMMA WeightIs ==
  ASSUME NEW p, NEW u, NEW v, NEW forbidden, IsNodePath(p, u, v, forbidden), NEW byLength
  PROVE  NodePathWeight(p, byLength, forbidden) \in Nat
<1>1. PICK n \in Nat \ {0} :
        /\ p \in Seq(Nodes) /\ Len(p) = n + 1
        /\ \A i \in 1 .. n : Allowed(p[i], p[i + 1], forbidden) # {}
  BY DEF IsNodePath
<1> DEFINE f == [i \in 1 .. n |-> LengthKm[OmsBetween(p[i], p[i + 1], TRUE, forbidden)[1]]]
<1>2. Len(p) - 1 = n
  BY <1>1
<1>3. NodePathWeight(p, byLength, forbidden) = IF byLength THEN Total(f, 1 .. n) ELSE n
  BY <1>2 DEF NodePathWeight
<1>4. ASSUME NEW i \in 1 .. n
      PROVE  f[i] \in Nat
  <2> DEFINE s == OmsBetween(p[i], p[i + 1], TRUE, forbidden)
             A == Allowed(p[i], p[i + 1], forbidden)
  <2>1. Lists(s, A) /\ A # {}
    BY <1>1, ParallelsListed
  <2> HIDE DEF s, A
  <2>2. PICK j \in 1 .. Len(s) : s[j] \in A
    BY <2>1, ElementOfSeq DEF Lists
  <2>3. 1 \in 1 .. Len(s)
    BY <2>1, <2>2 DEF Lists
  <2>4. s[1] \in A
    BY <2>1, <2>3, ElementOfSeq DEF Lists
  <2>5. s[1] \in OMS
    BY <2>4 DEF A, Allowed
  <2>6. f[i] = LengthKm[s[1]]
    BY DEF s
  <2> QED BY <2>5, <2>6, RoutesAssumption
<1>5. IsFiniteSet(1 .. n)
  <2>1. 1 \in Int /\ n \in Int
    BY <1>1
  <2> QED BY <2>1, FS_Interval, Zenon
<1> HIDE DEF f
<1>6. Total(f, 1 .. n) \in Nat
  BY <1>4, <1>5, TotalTakes DEF Counts
<1> QED BY <1>3, <1>6

\* The node paths, lightest first, are listed.
LEMMA NodePathsListed ==
  ASSUME NEW u, NEW v, NEW byLength, NEW forbidden
  PROVE  Lists(NodePaths(u, v, byLength, forbidden), NodeSet(u, v, forbidden))
<1> DEFINE S == NodeSet(u, v, forbidden)
           weight(p) == NodePathWeight(p, byLength, forbidden)
           ranks(p) == [i \in DOMAIN p |-> NodeRank[p[i]]]
           Key(p) == <<weight(p), Len(p)>> \o ranks(p)
           key == [p \in S |-> Key(p)]
<1>1. IsFiniteSet(S) /\ \A p \in S : IsNodePath(p, u, v, forbidden)
  BY NodeSetIs
<1>2. NodePaths(u, v, byLength, forbidden) = InOrder(Ranked({<<Key(p), p>> : p \in S}))
  BY DEF NodePaths, SortedBy, NodeSet
<1> HIDE DEF S, weight
<1>3. ASSUME NEW p \in S
      PROVE  /\ p \in Seq(Nodes) /\ Len(p) \in Nat /\ DOMAIN p = 1 .. Len(p)
             /\ Key(p) \in Seq(Nat) /\ DOMAIN Key(p) = 1 .. Len(p) + 2
             /\ Key(p)[2] = Len(p)
             /\ \A i \in 1 .. Len(p) : Key(p)[i + 2] = NodeRank[p[i]]
  <2> DEFINE h == <<weight(p), Len(p)>>
             t == ranks(p)
  <2>1. p \in Seq(Nodes) /\ weight(p) \in Nat
    BY <1>1, WeightIs DEF IsNodePath, weight
  <2>2. Len(p) \in Nat /\ DOMAIN p = 1 .. Len(p) /\ \A i \in 1 .. Len(p) : p[i] \in Nodes
    BY <2>1, LenProperties
  <2> DEFINE l == Len(p)
  <2>3. h \in Seq(Nat) /\ Len(h) = 2 /\ h[2] = l /\ l \in Nat
    BY <2>1, <2>2
  <2>4. t \in [1 .. l -> Nat] /\ \A i \in 1 .. l : t[i] = NodeRank[p[i]]
    BY <2>2, RoutesAssumption
  <2> HIDE DEF h, t, l
  <2>5. t \in Seq(Nat) /\ Len(t) = l
    BY <2>3, <2>4, SeqDef
  <2>6. /\ h \o t \in Seq(Nat) /\ Len(h \o t) = Len(h) + Len(t)
        /\ \A i \in 1 .. Len(h) + Len(t) : (h \o t)[i] = IF i <= Len(h) THEN h[i] ELSE t[i - Len(h)]
    BY <2>3, <2>5, ConcatProperties, Zenon
  <2> DEFINE k == h \o t
  <2>7. /\ k \in Seq(Nat) /\ Len(k) = 2 + l
        /\ \A i \in 1 .. 2 + l : k[i] = IF i <= 2 THEN h[i] ELSE t[i - 2]
    BY <2>3, <2>5, <2>6, Zenon
  <2> HIDE DEF k
  <2>8. DOMAIN k = 1 .. l + 2
    BY <2>3, <2>7, LenProperties
  <2>9. k[2] = l
    BY <2>3, <2>7
  <2>10. ASSUME NEW i \in 1 .. l PROVE k[i + 2] = NodeRank[p[i]]
    <3>1. i + 2 \in 1 .. 2 + l /\ ~ (i + 2 <= 2) /\ i + 2 - 2 = i
      BY <2>3
    <3> QED BY <2>4, <2>7, <3>1
  <2>11. Key(p) = k
    BY DEF k, h, t
  <2> HIDE DEF Key
  <2> QED BY <2>1, <2>2, <2>7, <2>8, <2>9, <2>10, <2>11 DEF l
<1>4. ASSUME NEW p \in S, NEW q \in S, p # q
      PROVE  Parted(Key(p), Key(q))
  <2> HIDE DEF Key
  <2>1. CASE Len(p) # Len(q)
    <3>1. 2 \in DOMAIN Key(p) /\ 2 \in DOMAIN Key(q) /\ Key(p)[2] # Key(q)[2]
      BY <1>3, <2>1
    <3> QED BY <3>1, TwoPart
  <2>2. CASE Len(p) = Len(q)
    <3>1. PICK i \in 1 .. Len(p) : p[i] # q[i]
      BY <1>3, <1>4, <2>2, SeqEqual
    <3>2. p[i] \in Nodes /\ q[i] \in Nodes
      BY <1>3, <2>2, <3>1, ElementOfSeq
    <3>3. NodeRank[p[i]] # NodeRank[q[i]]
      BY <3>1, <3>2, RoutesAssumption
    <3>4. /\ Key(p)[i + 2] = NodeRank[p[i]] /\ Key(q)[i + 2] = NodeRank[q[i]]
          /\ i + 2 \in 1 .. Len(p) + 2
      <4> DEFINE l == Len(p)
      <4>1. l \in Nat /\ i \in 1 .. l /\ l = Len(q)
        BY <1>3, <2>2
      <4>2. Key(p)[i + 2] = NodeRank[p[i]]
        BY <1>3
      <4>3. Key(q)[i + 2] = NodeRank[q[i]]
        BY <1>3, <4>1
      <4> HIDE DEF l
      <4>4. i + 2 \in 1 .. l + 2
        BY <4>1
      <4> QED BY <4>2, <4>3, <4>4 DEF l
    <3>5. i + 2 \in DOMAIN Key(p) /\ i + 2 \in DOMAIN Key(q)
      BY <1>3, <2>2, <3>4
    <3> QED BY <3>3, <3>4, <3>5, TwoPart
  <2> QED BY <2>1, <2>2
<1>5. key = [p \in S |-> key[p]] /\ \A p \in S : key[p] = Key(p)
  OBVIOUS
<1> HIDE DEF Key, key
<1>6. {<<Key(p), p>> : p \in S} = {<<key[p], p>> : p \in S}
  BY <1>5
<1>7. \A p \in S : IsKey(key[p])
  BY <1>3, <1>5 DEF IsKey
<1>8. \A p, q \in S : p # q => Parted(key[p], key[q])
  BY <1>4, <1>5
<1>9. Lists(NodePaths(u, v, byLength, forbidden), S)
  BY <1>1, <1>2, <1>5, <1>6, <1>7, <1>8, SortListed
<1> QED BY <1>9 DEF S

-------------------------------------------------------------------------------
(* Routes.                                                                 *)

\* A chain of sections outside the avoid-set from u to v.
IsRoute(r, u, v, forbidden) == \E n \in Nat \ {0} : Joins(r, n, u, v, OMS \ forbidden)

RouteSet(u, v, forbidden) == {r \in Seq(OMS) : IsRoute(r, u, v, forbidden)}

LEMMA AlongRoutes ==
  ASSUME NEW p, NEW u, NEW v, NEW forbidden, IsNodePath(p, u, v, forbidden)
  PROVE  Len(p) - 1 \in Nat /\ Along(p, forbidden) \subseteq RouteSet(u, v, forbidden)
<1>1. PICK n \in Nat \ {0} : p \in Seq(Nodes) /\ Len(p) = n + 1 /\ p[1] = u /\ p[n + 1] = v
  BY DEF IsNodePath
<1>2. Len(p) - 1 = n /\ Len(p) - 1 \in Nat /\ 1 \in 1 .. n /\ n \in 1 .. n
  BY <1>1
<1>3. ASSUME NEW r \in Along(p, forbidden)
      PROVE  r \in RouteSet(u, v, forbidden)
  <2>1. r \in [1 .. n -> OMS] /\ \A h \in 1 .. n : r[h] \in Allowed(p[h], p[h + 1], forbidden)
    BY <1>2 DEF Along
  <2>2. \A h \in 1 .. n : r[h] \in OMS \ forbidden /\ Src[r[h]] = p[h] /\ Dst[r[h]] = p[h + 1]
    BY <2>1 DEF Allowed
  <2>3. r \in [1 .. n -> OMS \ forbidden]
    BY <2>1, <2>2
  <2>4. ASSUME NEW i \in 1 .. n - 1
        PROVE  Dst[r[i]] = Src[r[i + 1]]
    <3>1. i \in 1 .. n /\ i + 1 \in 1 .. n
      BY <1>1
    <3> QED BY <2>2, <3>1
  <2>5. IsWalk(r, n, OMS \ forbidden)
    BY <2>3, <2>4 DEF IsWalk
  <2>6. Src[r[1]] = u /\ Dst[r[n]] = v
    BY <1>1, <1>2, <2>2
  <2>7. r \in Seq(OMS)
    BY <1>1, <2>1, SeqDef
  <2> QED BY <1>1, <2>5, <2>6, <2>7 DEF Joins, IsRoute, RouteSet
<1> QED BY <1>2, <1>3

\* Routes from u to v that avoid what is forbidden, all of them if complete.
RoutesListed(routes, u, v, forbidden, complete) ==
  /\ routes \in Seq(RouteSet(u, v, forbidden))
  /\ complete => \A r \in RoutesBetween(u, v, OMS \ forbidden) :
                   \E q \in 1 .. Len(routes) : routes[q] = r

\* The routes over a list of node paths are routes that avoid what is to be
\* avoided; when no cap cut the list short, every one of them is there.
LEMMA RoutesOverIs ==
  ASSUME NEW u, NEW v, NEW forbidden, NEW byLength, NEW k \in Nat, NEW cap \in Nat,
         NEW paths, Lists(paths, NodeSet(u, v, forbidden)),
         NEW routes, routes = RoutesOver(paths, k, byLength, forbidden, cap)
  PROVE  RoutesListed(routes, u, v, forbidden, Len(routes) < k /\ (cap = NoCap \/ Len(paths) <= cap))
<1> DEFINE P == NodeSet(u, v, forbidden)
           S == RouteSet(u, v, forbidden)
           R == RoutesBetween(u, v, OMS \ forbidden)
           combos(p) == HopCombos(HopOptions(p, byLength, forbidden), cap # NoCap)
           ps == IF cap = NoCap THEN paths ELSE Take(paths, cap)
           share == IF cap = NoCap THEN k ELSE Max({1, k \div cap})
           f == [i \in 1 .. Len(ps) |-> combos(ps[i])]
<1>1. ps \in Seq(P) /\ (cap = NoCap \/ Len(paths) <= cap => ps = paths)
  BY TakeIs DEF Lists
<1>2. routes = Emitted(<<>> \o [i \in DOMAIN ps |-> combos(ps[i])], share, k)
  BY DEF RoutesOver, Mapped
<1>3. ASSUME NEW p \in P
      PROVE  Lists(combos(p), Along(p, forbidden)) /\ Along(p, forbidden) \subseteq S
  <2>1. IsNodePath(p, u, v, forbidden)
    BY NodeSetIs
  <2>2. Len(p) - 1 \in Nat /\ Along(p, forbidden) \subseteq S
    BY <2>1, AlongRoutes
  <2> QED BY <2>2, CombosListed
<1> HIDE DEF combos, ps, share
<1>4. Len(ps) \in Nat /\ DOMAIN ps = 1 .. Len(ps) /\ \A i \in 1 .. Len(ps) : ps[i] \in P
  BY <1>1, LenProperties, ElementOfSeq
<1> DEFINE n == Len(ps)
<1>5. f = [i \in 1 .. n |-> f[i]] /\ \A i \in 1 .. n : f[i] = combos(ps[i])
  OBVIOUS
<1>6. routes = Emitted(<<>> \o f, share, k)
  BY <1>2, <1>4
<1>7. n \in Nat
  BY <1>4
<1> HIDE DEF f, n, S, P, R
<1>8. routes = Emitted(f, share, k)
  BY <1>5, <1>6, <1>7, SeqOfFcn
<1>9. ASSUME NEW i \in 1 .. n
      PROVE  Lists(f[i], Along(ps[i], forbidden)) /\ f[i] \in Seq(S)
  <2>1. ps[i] \in P
    BY <1>4 DEF n
  <2>2. Lists(f[i], Along(ps[i], forbidden)) /\ Along(ps[i], forbidden) \subseteq S
    BY <1>3, <1>5, <2>1
  <2> QED BY <2>2, SeqMonotonic DEF Lists
<1>10. /\ routes \in Seq(S)
       /\ Len(routes) < k => \A i \in 1 .. n : \A j \in 1 .. Len(f[i]) :
                               \E q \in 1 .. Len(routes) : routes[q] = f[i][j]
  <2>1. Rows(f, n, S)
    BY <1>5, <1>9 DEF Rows
  <2> QED BY <1>7, <1>8, <2>1, EmittedIs
<1>11. ASSUME Len(routes) < k, cap = NoCap \/ Len(paths) <= cap, NEW r \in R
       PROVE  \E q \in 1 .. Len(routes) : routes[q] = r
  <2>1. NodeSequence(r) \in P /\ r \in Along(NodeSequence(r), forbidden)
    BY NodeSetIs DEF P, R
  <2>2. PICK i \in 1 .. n : ps[i] = NodeSequence(r)
    BY <1>1, <1>11, <2>1 DEF Lists, P, n
  <2>3. PICK j \in 1 .. Len(f[i]) : f[i][j] = r
    BY <1>9, <2>1, <2>2 DEF Lists
  <2> QED BY <1>10, <1>11, <2>3
<1>12. Len(routes) < k /\ (cap = NoCap \/ Len(paths) <= cap) =>
         \A r \in R : \E q \in 1 .. Len(routes) : routes[q] = r
  BY <1>11
<1> HIDE DEF S, R
<1> QED BY <1>10, <1>12 DEF S, R, RoutesListed

-------------------------------------------------------------------------------
(* Disjoint pairs.                                                         *)

\* What a path is compared on is finite.
LEMMA KeysFinite ==
  ASSUME NEW r \in Seq(OMS), NEW basis, NEW level, NEW ends
  PROVE  IsFiniteSet(PathBasisKeys(r, basis, level, ends))
<1> DEFINE kinds == {"phys", "node"} \cup {"srlg", "rg"}
           A == OMS \cup Assets
           G == DOMAIN Srlgs \cup DOMAIN RiskGroups
           U == (A \cup Nodes) \cup G
           K == PathBasisKeys(r, basis, level, ends)
<1>1. IsFiniteSet(kinds)
  <2>1. ASSUME NEW x, NEW y PROVE IsFiniteSet({x, y})
    <3>1. IsFiniteSet({x}) /\ IsFiniteSet({y}) /\ {x, y} = {x} \cup {y}
      BY FS_Singleton
    <3> QED BY <3>1, FS_Union
  <2> QED BY <2>1, FS_Union
<1>2. IsFiniteSet(U)
  <2>1. IsFiniteSet(A) /\ IsFiniteSet(G)
    BY RoutesAssumption, GroupAssumption, FS_Union
  <2> HIDE DEF A, G
  <2>2. IsFiniteSet(A \cup Nodes)
    BY <2>1, RoutesAssumption, FS_Union
  <2> QED BY <2>1, <2>2, FS_Union
<1>3. IsFiniteSet(kinds \X U)
  BY <1>1, <1>2, FS_Product
<1>4. Range(r) \subseteq OMS
  BY LenProperties DEF Range
<1>5. Footprint(r) \subseteq A
  BY <1>4, TopologyAssumption DEF Footprint, OmsAssets, TerminalRoadm
<1>6. NodesOf(r) \subseteq Nodes
  BY <1>4, TopologyAssumption DEF NodesOf
<1>7. K \subseteq kinds \X U
  <2>1. Phys(PhysicalOf(r, ends)) \subseteq kinds \X U
    BY <1>5 DEF Phys, PhysicalOf
  <2>2. NodeKey(NodesOf(r) \ ends) \subseteq kinds \X U
    BY <1>6 DEF NodeKey
  <2>3. PhysicalKeys(r, level, ends) \subseteq kinds \X U
    BY <2>1, <2>2 DEF PhysicalKeys
  <2>4. SrlgKey(Touching(Srlgs, PhysicalOf(r, ends))) \subseteq kinds \X U
    BY DEF SrlgKey, Touching
  <2>5. RgKey(Touching(RiskGroups, PhysicalOf(r, ends))) \subseteq kinds \X U
    BY DEF RgKey, Touching
  <2> HIDE DEF kinds, U
  <2> QED BY <2>3, <2>4, <2>5 DEF PathBasisKeys
<1> HIDE DEF kinds, U, K
<1>8. IsFiniteSet(K)
  BY <1>3, <1>7, FS_Subset
<1> QED BY <1>8 DEF K

\* A scored pair.
IsScore(t) == t = <<t[1], t[2], t[3]>> /\ t[1] \in Nat /\ t[2] \in Nat /\ t[3] \in Nat

\* Of finitely many scored pairs one comes first, and none shares fewer keys.
LEMMA FirstPairIs ==
  ASSUME NEW scored, IsFiniteSet(scored), scored # {}, \A t \in scored : IsScore(t)
  PROVE  /\ FirstPair(scored) \in scored
         /\ \A t \in scored : FirstPair(scored)[1] <= t[1]
<1> DEFINE K == {<<t, t>> : t \in scored}
           key == [t \in scored |-> t]
           First1(t) == \A q \in scored \ {t} : LexBefore(t, q)
<1>1. ASSUME NEW t \in scored
      PROVE  IsKey(t) /\ DOMAIN t = 1 .. 3 /\ IsScore(t)
  <2>1. IsScore(t)
    OBVIOUS
  <2>2. <<t[1], t[2], t[3]>> \in Seq(Nat) /\ DOMAIN <<t[1], t[2], t[3]>> = 1 .. 3
    BY <2>1 DEF IsScore
  <2> QED BY <2>1, <2>2 DEF IsScore, IsKey
<1>2. ASSUME NEW t \in scored, NEW q \in scored, t # q
      PROVE  Parted(t, q)
  <2>1. t[1] # q[1] \/ t[2] # q[2] \/ t[3] # q[3]
    BY <1>1, <1>2 DEF IsScore
  <2>2. \A i \in 1 .. 3 : i \in DOMAIN t /\ i \in DOMAIN q
    BY <1>1
  <2>3. 1 \in 1 .. 3 /\ 2 \in 1 .. 3 /\ 3 \in 1 .. 3
    OBVIOUS
  <2> QED BY <2>1, <2>2, <2>3, TwoPart
<1>3. key = [t \in scored |-> key[t]] /\ \A t \in scored : key[t] = t
  OBVIOUS
<1> HIDE DEF key
<1>4. Keyed(K)
  <2>1. K = {<<key[t], t>> : t \in scored}
    BY <1>3
  <2>2. \A t \in scored : IsKey(key[t])
    BY <1>1, <1>3
  <2>3. \A t, q \in scored : t # q => Parted(key[t], key[q])
    BY <1>2, <1>3
  <2>4. Keyed({<<key[t], t>> : t \in scored})
    BY <1>3, <2>2, <2>3, KeyedImage
  <2> QED BY <2>1, <2>4
<1>5. \A t \in scored : <<t, t>> \in K /\ <<t, t>>[1] = t
  OBVIOUS
<1>6. \A p \in K : p[1] \in scored /\ p = <<p[1], p[1]>>
  OBVIOUS
<1> HIDE DEF K
<1>7. PICK p \in K : PlaceOf(K, p) = 1
  <2>1. Cardinality(K) \in Nat /\ \A i \in 1 .. Cardinality(K) : \E p \in K : PlaceOf(K, p) = i
    BY <1>4, PlacesFill
  <2>2. Cardinality(K) # 0
    BY <1>4, <1>5, FS_EmptySet DEF Keyed
  <2>3. 1 \in 1 .. Cardinality(K)
    BY <2>1, <2>2
  <2> QED BY <2>1, <2>3
<1>8. Before(K, p) = {}
  <2>1. IsFiniteSet(Before(K, p))
    BY <1>4, FS_Subset DEF Before, Keyed
  <2>2. Cardinality(Before(K, p)) = 0
    BY <1>7, <2>1, FS_CardinalityType DEF PlaceOf
  <2> QED BY <2>1, <2>2, FS_EmptySet
<1>9. First1(p[1])
  <2> SUFFICES ASSUME NEW q \in scored \ {p[1]} PROVE LexBefore(p[1], q)
    OBVIOUS
  <2>1. ~ LexBefore(q, p[1])
    BY <1>5, <1>8 DEF Before
  <2> QED BY <1>1, <1>2, <1>6, <2>1, LexTotal
<1>10. FirstPair(scored) \in scored /\ First1(FirstPair(scored))
  BY <1>6, <1>9 DEF FirstPair
<1> DEFINE f == FirstPair(scored)
<1> HIDE DEF f
<1>11. ASSUME NEW t \in scored
       PROVE  f[1] <= t[1]
  <2>1. f \in scored /\ First1(f)
    BY <1>10 DEF f
  <2>2. CASE t = f
    BY <1>1, <2>2 DEF IsScore
  <2>3. CASE t # f
    <3>1. LexBefore(f, t)
      BY <2>1, <2>3
    <3>2. PICK i \in DOMAIN f \cap DOMAIN t : f[i] < t[i] /\ \A j \in 1 .. i - 1 : f[j] = t[j]
      BY <3>1 DEF LexBefore
    <3>3. i \in 1 .. 3 /\ f[1] \in Nat /\ t[1] \in Nat
      BY <1>1, <2>1 DEF IsScore
    <3>4. CASE i = 1
      BY <3>2, <3>3, <3>4
    <3>5. CASE i # 1
      <4>1. 1 \in 1 .. i - 1
        BY <3>3, <3>5
      <4> QED BY <3>2, <3>3, <4>1
    <3> QED BY <3>4, <3>5
  <2> QED BY <2>2, <2>3
<1> QED BY <1>10, <1>11 DEF f

\* The pairs of places with the number of keys each pair shares.
Scoring(scored, keys, n) ==
  /\ IsFiniteSet(scored) /\ \A t \in scored : IsScore(t)
  /\ \A t \in scored : /\ t[2] \in 1 .. n /\ t[3] \in 1 .. n
                       /\ t[1] = 0 <=> keys[t[2]] \cap keys[t[3]] = {}
  /\ \A i, j \in 1 .. n : i < j => \E t \in scored : t[2] = i /\ t[3] = j

LEMMA ScoresAre ==
  ASSUME NEW n \in Nat, NEW f, f = [i \in 1 .. n |-> f[i]], \A i \in 1 .. n : IsFiniteSet(f[i]),
         NEW scored, scored = ScoredPairs(<<>> \o f)
  PROVE  Scoring(scored, f, n)
<1> DEFINE I == {p \in (1 .. n) \X (1 .. n) : p[1] < p[2]}
           score(p) == <<Cardinality(f[p[1]] \cap f[p[2]]), p[1], p[2]>>
           g == [p \in I |-> score(p)]
<1>1. scored = ScoredPairs(f) /\ DOMAIN f = 1 .. n
  BY SeqOfFcn
<1>2. scored = {score(p) : p \in I}
  BY <1>1 DEF ScoredPairs
<1>3. IsFiniteSet(scored)
  <2>1. IsFiniteSet(1 .. n)
    <3>1. 1 \in Int /\ n \in Int
      OBVIOUS
    <3> QED BY <3>1, FS_Interval, Zenon
  <2>2. IsFiniteSet((1 .. n) \X (1 .. n))
    BY <2>1, FS_Product
  <2>3. I \in SUBSET ((1 .. n) \X (1 .. n))
    OBVIOUS
  <2>4. g \in Surjection(I, scored)
    BY <1>2 DEF Surjection
  <2> HIDE DEF I, g
  <2>5. IsFiniteSet(I)
    BY <2>2, <2>3, FS_Subset
  <2> QED BY <2>4, <2>5, FS_Surjection
<1>4. ASSUME NEW t \in scored
      PROVE  /\ IsScore(t) /\ t[2] \in 1 .. n /\ t[3] \in 1 .. n
             /\ t[1] = 0 <=> f[t[2]] \cap f[t[3]] = {}
  <2>1. PICK p \in I : t = score(p)
    BY <1>2
  <2>2. p[1] \in 1 .. n /\ p[2] \in 1 .. n
    OBVIOUS
  <2> DEFINE C == f[p[1]] \cap f[p[2]]
             c == Cardinality(C)
  <2>3. t = <<c, p[1], p[2]>>
    BY <2>1
  <2>4. IsFiniteSet(C)
    BY <2>2, FS_Intersection
  <2> HIDE DEF C
  <2>5. c \in Nat /\ (c = 0 <=> C = {})
    BY <2>4, FS_CardinalityType, FS_EmptySet
  <2> HIDE DEF c, I
  <2>6. t[1] = c /\ t[2] = p[1] /\ t[3] = p[2]
    BY <2>3
  <2>7. p[1] \in Nat /\ p[2] \in Nat
    BY <2>2
  <2>8. IsScore(t)
    BY <2>3, <2>5, <2>6, <2>7 DEF IsScore
  <2>9. t[1] = 0 <=> f[t[2]] \cap f[t[3]] = {}
    BY <2>5, <2>6 DEF C
  <2> QED BY <2>2, <2>6, <2>8, <2>9
<1>5. ASSUME NEW i \in 1 .. n, NEW j \in 1 .. n, i < j
      PROVE  \E t \in scored : t[2] = i /\ t[3] = j
  <2>1. <<i, j>> \in I /\ <<i, j>>[1] = i /\ <<i, j>>[2] = j
    BY <1>5
  <2>2. score(<<i, j>>) \in scored
    BY <1>2, <2>1
  <2>3. score(<<i, j>>)[2] = i /\ score(<<i, j>>)[3] = j
    BY <2>1
  <2> HIDE DEF score
  <2> QED BY <2>2, <2>3
<1> QED BY <1>3, <1>4, <1>5 DEF Scoring

PairScores(cands, basis, level) ==
  ScoredPairs(Mapped(cands, LAMBDA r : PathBasisKeys(r, basis, level, PathEnds(r))))

\* The same of candidate routes.
RouteScoring(scored, cands, basis, level) ==
  /\ IsFiniteSet(scored) /\ \A t \in scored : IsScore(t)
  /\ \A t \in scored : /\ t[2] \in 1 .. Len(cands) /\ t[3] \in 1 .. Len(cands)
                       /\ t[1] = 0 <=> SharedKeys(cands[t[2]], cands[t[3]], basis, level) = {}
  /\ \A i, j \in 1 .. Len(cands) : i < j => \E t \in scored : t[2] = i /\ t[3] = j

LEMMA RouteScoresAre ==
  ASSUME NEW cands \in Seq(Seq(OMS)), NEW basis, NEW level, NEW scored,
         scored = PairScores(cands, basis, level)
  PROVE  RouteScoring(scored, cands, basis, level)
<1> DEFINE n == Len(cands)
           keysOf(r) == PathBasisKeys(r, basis, level, PathEnds(r))
           f == [i \in 1 .. n |-> keysOf(cands[i])]
<1>1. n \in Nat /\ DOMAIN cands = 1 .. n /\ \A i \in 1 .. n : cands[i] \in Seq(OMS)
  BY LenProperties, ElementOfSeq
<1>2. Mapped(cands, LAMBDA r : keysOf(r)) = <<>> \o f
  BY <1>1 DEF Mapped
<1>3. f = [i \in 1 .. n |-> f[i]] /\ \A i \in 1 .. n : f[i] = keysOf(cands[i])
  OBVIOUS
<1>4. \A i \in 1 .. n : IsFiniteSet(keysOf(cands[i]))
  BY <1>1, KeysFinite
<1>5. scored = ScoredPairs(<<>> \o f)
  BY <1>2 DEF PairScores
<1> HIDE DEF f, n
<1>6. Scoring(scored, f, n)
  <2> HIDE DEF keysOf
  <2>1. \A i \in 1 .. n : IsFiniteSet(f[i])
    BY <1>3, <1>4
  <2> QED BY <1>1, <1>3, <1>5, <2>1, ScoresAre
<1>7. \A i, j \in 1 .. n : f[i] \cap f[j] = SharedKeys(cands[i], cands[j], basis, level)
  BY <1>3 DEF SharedKeys
<1> HIDE DEF keysOf
<1>8. ASSUME NEW t \in scored
      PROVE  /\ t[2] \in 1 .. n /\ t[3] \in 1 .. n
             /\ t[1] = 0 <=> SharedKeys(cands[t[2]], cands[t[3]], basis, level) = {}
  <2>1. t[2] \in 1 .. n /\ t[3] \in 1 .. n /\ (t[1] = 0 <=> f[t[2]] \cap f[t[3]] = {})
    BY <1>6 DEF Scoring
  <2> QED BY <1>7, <2>1, Zenon
<1> QED BY <1>6, <1>8, Zenon DEF Scoring, RouteScoring, n

\* The answer of the scan over the pairs.
PickedPair(ans, cands, scored, bestEffort) ==
  /\ ans.status # "no_solution" =>
       \E t \in scored : /\ ans.a = cands[t[2]] /\ ans.b = cands[t[3]]
                         /\ t[1] = 0 \/ (bestEffort /\ ans.status = "partial")
  /\ ans.status = "no_solution" => \A t \in scored : t[1] # 0

LEMMA PickPairIs ==
  ASSUME NEW cands, NEW scored, IsFiniteSet(scored), \A t \in scored : IsScore(t),
         NEW bestEffort, NEW exhaustive, NEW ans,
         ans = PickPair(cands, scored, bestEffort, exhaustive)
  PROVE  PickedPair(ans, cands, scored, bestEffort) /\ ans.exhaustive = exhaustive
<1> DEFINE p == FirstPair(scored)
           Found(status) ==
             ans = [status |-> status, a |-> cands[p[2]], b |-> cands[p[3]], exhaustive |-> exhaustive]
<1>1. \/ (\E t \in scored : t[1] = 0) /\ Found("solution")
      \/ (\A t \in scored : t[1] # 0) /\ bestEffort /\ scored # {} /\ Found("partial")
      \/ (\A t \in scored : t[1] # 0) /\ ans = NoPair(exhaustive)
  BY Zenon DEF PickPair
<1>2. scored # {} => p \in scored /\ \A t \in scored : p[1] <= t[1] /\ p[1] \in Nat /\ t[1] \in Nat
  BY FirstPairIs DEF IsScore
<1> HIDE DEF p
<1>3. ASSUME NEW status, Found(status)
      PROVE  ans.status = status /\ ans.a = cands[p[2]] /\ ans.b = cands[p[3]] /\ ans.exhaustive = exhaustive
  <2>1. ans = [status |-> status, a |-> cands[p[2]], b |-> cands[p[3]], exhaustive |-> exhaustive]
    BY <1>3
  <2> QED BY <2>1
<1> USE DEF PickedPair
<1>4. CASE (\E t \in scored : t[1] = 0) /\ Found("solution")
  <2>1. PICK t \in scored : t[1] = 0
    BY <1>4
  <2>2. p \in scored /\ p[1] = 0
    BY <1>2, <2>1
  <2> QED BY <1>3, <1>4, <2>2
<1>5. CASE (\A t \in scored : t[1] # 0) /\ bestEffort /\ scored # {} /\ Found("partial")
  BY <1>2, <1>3, <1>5
<1>6. CASE (\A t \in scored : t[1] # 0) /\ ans = NoPair(exhaustive)
  BY <1>6 DEF NoPair
<1> QED BY <1>1, <1>4, <1>5, <1>6

\* compute_paths returns routes that avoid what is to be avoided.
LEMMA ComputedPathsAre ==
  ASSUME NEW u, NEW v, NEW k \in Nat, NEW byLength, NEW avoid, NEW failed
  PROVE  ComputePaths(u, v, k, byLength, avoid, failed)
           \in Seq(RouteSet(u, v, ForbiddenOms(avoid, failed)))
<1> DEFINE forbidden == ForbiddenOms(avoid, failed)
           paths == NodePaths(u, v, byLength, forbidden)
<1>1. ComputePaths(u, v, k, byLength, avoid, failed) = RoutesOver(paths, k, byLength, forbidden, NoCap)
  BY DEF ComputePaths, EnumerateOmsPaths
<1> HIDE DEF forbidden
<1>2. Lists(paths, NodeSet(u, v, forbidden)) /\ NoCap \in Nat
  BY NodePathsListed DEF NoCap
<1> HIDE DEF paths
<1>3. RoutesOver(paths, k, byLength, forbidden, NoCap) \in Seq(RouteSet(u, v, forbidden))
  <2> DEFINE routes == RoutesOver(paths, k, byLength, forbidden, NoCap)
  <2>1. routes = RoutesOver(paths, k, byLength, forbidden, NoCap)
    OBVIOUS
  <2>2. Lists(paths, NodeSet(u, v, forbidden))
    BY <1>2
  <2>3. NoCap \in Nat
    BY DEF NoCap
  <2> HIDE DEF routes
  <2>4. RoutesListed(routes, u, v, forbidden, Len(routes) < k /\ (NoCap = NoCap \/ Len(paths) <= NoCap))
    BY <2>1, <2>2, <2>3, RoutesOverIs, Zenon
  <2> QED BY <2>1, <2>4, Zenon DEF RoutesListed
<1> QED BY <1>1, <1>3 DEF forbidden

\* Whether the paths of a pair are apart.
Apart(a, b, basis, level) == SharedKeys(a, b, basis, level) = {}

\* What a scan over given candidates answers.
PairSound(ans, u, v, forbidden, basis, level, bestEffort) ==
  ans.status # "no_solution" =>
    /\ ans.a \in RouteSet(u, v, forbidden) /\ ans.b \in RouteSet(u, v, forbidden)
    /\ Apart(ans.a, ans.b, basis, level) \/ bestEffort

PairComplete(ans, u, v, forbidden, basis, level) ==
  ans.status = "no_solution" /\ ans.exhaustive =>
    \A a, b \in RoutesBetween(u, v, OMS \ forbidden) : a # b => ~ Apart(a, b, basis, level)

LEMMA ScanIs ==
  ASSUME NEW u, NEW v, NEW forbidden, NEW basis, NEW level, NEW bestEffort, NEW paths, NEW cands,
         RoutesListed(cands, u, v, forbidden,
                      Len(cands) < EmissionCap /\ (CandidateCap = NoCap \/ Len(paths) <= CandidateCap)),
         NEW scored, scored = PairScores(cands, basis, level),
         NEW exhaustive, exhaustive = Exhausted(paths, cands),
         NEW ans, ans = PickPair(cands, scored, bestEffort, exhaustive)
  PROVE  /\ PairSound(ans, u, v, forbidden, basis, level, bestEffort)
         /\ PairComplete(ans, u, v, forbidden, basis, level)
<1> DEFINE S == RouteSet(u, v, forbidden)
           R == RoutesBetween(u, v, OMS \ forbidden)
<1>1. S \subseteq Seq(OMS)
  BY DEF RouteSet
<1> HIDE DEF S, R
<1>2. /\ cands \in Seq(S)
      /\ Len(cands) < EmissionCap /\ Len(paths) <= CandidateCap =>
           \A r \in R : \E q \in 1 .. Len(cands) : cands[q] = r
  BY DEF RoutesListed, S, R
<1>3. cands \in Seq(Seq(OMS))
  BY <1>1, <1>2, SeqMonotonic
<1>4. RouteScoring(scored, cands, basis, level)
  BY <1>3, RouteScoresAre
<1>5. IsFiniteSet(scored) /\ \A t \in scored : IsScore(t)
  BY <1>4, Zenon DEF RouteScoring
<1>6. PickedPair(ans, cands, scored, bestEffort) /\ ans.exhaustive = exhaustive
  BY <1>5, PickPairIs
<1> USE DEF RouteScoring, PickedPair
<1>7. ASSUME ans.status # "no_solution"
      PROVE  ans.a \in S /\ ans.b \in S /\ (Apart(ans.a, ans.b, basis, level) \/ bestEffort)
  <2>1. PICK t \in scored : /\ ans.a = cands[t[2]] /\ ans.b = cands[t[3]]
                            /\ t[1] = 0 \/ (bestEffort /\ ans.status = "partial")
    BY <1>6, <1>7, Zenon
  <2>2. t[2] \in 1 .. Len(cands) /\ t[3] \in 1 .. Len(cands)
    BY <1>4
  <2>3. ans.a \in S /\ ans.b \in S
    BY <1>2, <2>1, <2>2, ElementOfSeq
  <2>4. t[1] = 0 => Apart(ans.a, ans.b, basis, level)
    BY <1>4, <2>1 DEF Apart
  <2> QED BY <2>1, <2>3, <2>4, Zenon
<1>8. ASSUME ans.status = "no_solution", ans.exhaustive, NEW a \in R, NEW b \in R, a # b
      PROVE  ~ Apart(a, b, basis, level)
  <2>1. Len(cands) < EmissionCap /\ Len(paths) <= CandidateCap
    BY <1>6, <1>8, Zenon DEF Exhausted
  <2>2. PICK i \in 1 .. Len(cands) : cands[i] = a
    BY <1>2, <2>1
  <2>3. PICK j \in 1 .. Len(cands) : cands[j] = b
    BY <1>2, <2>1
  <2>4. Len(cands) \in Nat
    BY <1>3, LenProperties
  <2>5. i < j \/ j < i
    BY <1>8, <2>2, <2>3, <2>4
  <2>6. CASE i < j
    <3>1. PICK t \in scored : t[2] = i /\ t[3] = j
      BY <1>4, <2>6
    <3>2. t[1] # 0
      BY <1>6, <1>8
    <3> QED BY <1>4, <2>2, <2>3, <3>1, <3>2 DEF Apart
  <2>7. CASE j < i
    <3>1. PICK t \in scored : t[2] = j /\ t[3] = i
      BY <1>4, <2>7
    <3>2. t[1] # 0
      BY <1>6, <1>8
    <3>3. SharedKeys(b, a, basis, level) = SharedKeys(a, b, basis, level)
      BY DEF SharedKeys
    <3> QED BY <1>4, <2>2, <2>3, <3>1, <3>2, <3>3 DEF Apart
  <2> QED BY <2>5, <2>6, <2>7
<1> QED BY <1>7, <1>8, Zenon DEF S, R, PairSound, PairComplete

\* What compute_disjoint_paths answers: two routes that avoid what is to be
\* avoided and, but for a best effort, share nothing; and no pair, with the
\* search exhausted, only when no two routes are apart.
LEMMA DisjointPathsAre ==
  ASSUME NEW u, NEW v, NEW basis, NEW level, NEW bestEffort, NEW byLength, NEW forbidden, NEW ans,
         ans = ComputeDisjointPaths(u, v, basis, level, bestEffort, byLength, forbidden)
  PROVE  /\ PairSound(ans, u, v, forbidden, basis, level, bestEffort)
         /\ PairComplete(ans, u, v, forbidden, basis, level)
<1> DEFINE paths == NodePaths(u, v, byLength, forbidden)
           cands == RoutesOver(paths, EmissionCap, byLength, forbidden, CandidateCap)
           scored == PairScores(cands, basis, level)
<1>1. ans = PickPair(cands, scored, bestEffort, Exhausted(paths, cands))
  BY DEF ComputeDisjointPaths, DisjointPairOver, DisjointPairOf, PairScores
<1>2. Lists(paths, NodeSet(u, v, forbidden)) /\ EmissionCap \in Nat /\ CandidateCap \in Nat
  BY NodePathsListed, RoutesAssumption
<1> HIDE DEF paths
<1>3. cands = RoutesOver(paths, EmissionCap, byLength, forbidden, CandidateCap)
  OBVIOUS
<1>4. scored = PairScores(cands, basis, level)
  OBVIOUS
<1> HIDE DEF cands, scored
<1>5. RoutesListed(cands, u, v, forbidden,
                   Len(cands) < EmissionCap /\ (CandidateCap = NoCap \/ Len(paths) <= CandidateCap))
  <2>1. Lists(paths, NodeSet(u, v, forbidden))
    BY <1>2
  <2>2. EmissionCap \in Nat
    BY <1>2
  <2>3. CandidateCap \in Nat
    BY <1>2
  <2> QED BY <1>3, <2>1, <2>2, <2>3, RoutesOverIs, Zenon
<1> DEFINE exhaustive == Exhausted(paths, cands)
<1>6. exhaustive = Exhausted(paths, cands) /\ ans = PickPair(cands, scored, bestEffort, exhaustive)
  BY <1>1, Zenon
<1> HIDE DEF exhaustive
<1> QED BY <1>4, <1>5, <1>6, ScanIs, Zenon

-------------------------------------------------------------------------------
(* Folds.                                                                  *)

\* h[i] is what i turns leave: it starts at a, and turn i is g of what the one
\* before left.
Folds(h, n, a, g) ==
  OnTurns(h, n) /\ h[0] = a /\ \A i \in 1 .. n : h[i] = g[<<h[i - 1], i>>]

LEMMA FoldExists ==
  ASSUME NEW n \in Nat, NEW a, NEW g
  PROVE  \E h : Folds(h, n, a, g)
<1> DEFINE Some(k) == \E h : Folds(h, k, a, g)
           T == {k \in 0 .. n : Some(k)}
<1>1. Some(0)
  <2> DEFINE h == [i \in 0 .. 0 |-> a]
  <2>1. h = [i \in 0 .. 0 |-> h[i]] /\ h[0] = a /\ \A i \in 1 .. 0 : FALSE
    OBVIOUS
  <2> HIDE DEF h
  <2> QED BY <2>1 DEF Folds, OnTurns
<1>2. ASSUME NEW k \in 1 .. n, Some(k - 1)
      PROVE  Some(k)
  <2>1. PICK h : Folds(h, k - 1, a, g)
    BY <1>2
  <2>2. k \in Nat \ {0}
    OBVIOUS
  <2>3. PICK h2 : Prolongs(h2, h, k, g[<<h[k - 1], k>>])
    BY <2>2, Longer
  <2>4. OnTurns(h2, k) /\ h2[k] = g[<<h[k - 1], k>>] /\ \A i \in 0 .. k - 1 : h2[i] = h[i]
    BY <2>3 DEF Prolongs
  <2>5. h[0] = a /\ \A i \in 1 .. k - 1 : h[i] = g[<<h[i - 1], i>>]
    BY <2>1 DEF Folds
  <2>6. 0 \in 0 .. k - 1 /\ k - 1 \in 0 .. k - 1
    BY <2>2
  <2>7. h2[0] = a
    BY <2>4, <2>5, <2>6
  <2>8. ASSUME NEW i \in 1 .. k
        PROVE  h2[i] = g[<<h2[i - 1], i>>]
    <3>1. i - 1 \in 0 .. k - 1
      OBVIOUS
    <3>2. h2[i - 1] = h[i - 1]
      BY <2>4, <3>1
    <3>3. CASE i = k
      BY <2>4, <3>2, <3>3
    <3>4. CASE i # k
      <4>1. i \in 1 .. k - 1 /\ i \in 0 .. k - 1
        BY <3>4
      <4> QED BY <2>4, <2>5, <3>2, <4>1
    <3> QED BY <3>3, <3>4
  <2> QED BY <2>4, <2>7, <2>8 DEF Folds
<1> HIDE DEF Some
<1>3. 0 \in T /\ \A k \in 1 .. n : k - 1 \in T => k \in T
  BY <1>1, <1>2
<1>4. \A k \in 0 .. n : k \in T
  <2> HIDE DEF T
  <2> QED BY <1>3, UpTo
<1>5. Some(n)
  BY <1>4
<1> QED BY <1>5 DEF Some

LEMMA FoldTyped ==
  ASSUME NEW n \in Nat, NEW A, NEW a \in A, NEW g \in [A \X (1 .. n) -> A]
  PROVE  \E h : Folds(h, n, a, g) /\ \A i \in 0 .. n : h[i] \in A
<1>1. PICK h : Folds(h, n, a, g)
  BY FoldExists
<1> DEFINE T == {i \in 0 .. n : h[i] \in A}
<1>2. 0 \in T
  BY <1>1 DEF Folds
<1>3. ASSUME NEW i \in 1 .. n, i - 1 \in T
      PROVE  i \in T
  <2>1. h[i] = g[<<h[i - 1], i>>]
    BY <1>1 DEF Folds
  <2>2. <<h[i - 1], i>> \in A \X (1 .. n)
    BY <1>3
  <2> QED BY <2>1, <2>2
<1>4. \A i \in 0 .. n : i \in T
  <2> HIDE DEF T
  <2> QED BY <1>2, <1>3, UpTo
<1> QED BY <1>1, <1>4

\* t[k] is s[at[k]], and at rises.
Rises(at, t, s) ==
  /\ \A k \in 1 .. Len(t) : at[k] \in 1 .. Len(s) /\ t[k] = s[at[k]]
  /\ \A j, k \in 1 .. Len(t) : j < k => at[j] < at[k]

\* What Filtered keeps are the members of s that are in S, in their places' order.
LEMMA FilteredIs ==
  ASSUME NEW A, NEW s \in Seq(A), NEW S
  PROVE  /\ Filtered(s, S) \in Seq(A)
         /\ \A x : x \in Range(Filtered(s, S)) <=> x \in Range(s) /\ x \in S
         /\ \E at : Rises(at, Filtered(s, S), s)
<1> DEFINE n == Len(s)
           F(h) == [i \in 0 .. n |-> IF i = 0 THEN <<>>
                      ELSE IF s[i] \in S THEN Append(h[i - 1], s[i]) ELSE h[i - 1]]
           after == CHOOSE h : h = F(h)
           g == [p \in Seq(A) \X (1 .. n) |->
                   IF s[p[2]] \in S THEN Append(p[1], s[p[2]]) ELSE p[1]]
<1>1. Filtered(s, S) = after[n]
  BY DEF Filtered, Folded
<1>2. n \in Nat /\ \A i \in 1 .. n : s[i] \in A
  OBVIOUS
<1>3. /\ g \in [Seq(A) \X (1 .. n) -> Seq(A)]
      /\ \A p \in Seq(A), i \in 1 .. n : g[<<p, i>>] = IF s[i] \in S THEN Append(p, s[i]) ELSE p
  <2>1. \A p \in Seq(A) \X (1 .. n) :
          (IF s[p[2]] \in S THEN Append(p[1], s[p[2]]) ELSE p[1]) \in Seq(A)
    BY <1>2, AppendProperties
  <2> HIDE DEF n
  <2> QED BY <2>1
<1> HIDE DEF n, g
<1>4. <<>> \in Seq(A)
  OBVIOUS
<1>5. PICK h : Folds(h, n, <<>>, g) /\ \A i \in 0 .. n : h[i] \in Seq(A)
  BY <1>2, <1>3, <1>4, FoldTyped, Zenon
<1>6. h = F(h)
  <2>1. \A i \in 1 .. n : i - 1 \in 0 .. n
    BY <1>2
  <2>2. \A i \in 1 .. n : h[i] = IF s[i] \in S THEN Append(h[i - 1], s[i]) ELSE h[i - 1]
    BY <1>3, <1>5, <2>1 DEF Folds
  <2>3. \A i \in 0 .. n : i # 0 => i \in 1 .. n
    BY <1>2
  <2>4. h = [i \in 0 .. n |-> h[i]] /\ h[0] = <<>>
    BY <1>5 DEF Folds, OnTurns
  <2> QED BY <2>2, <2>3, <2>4
<1>7. after = F(after)
  BY <1>6
<1> HIDE DEF after
<1>8. /\ after[0] = <<>>
      /\ \A i \in 1 .. n : after[i] = IF s[i] \in S THEN Append(after[i - 1], s[i]) ELSE after[i - 1]
  <2>1. \A i \in 0 .. n : after[i] = IF i = 0 THEN <<>>
             ELSE IF s[i] \in S THEN Append(after[i - 1], s[i]) ELSE after[i - 1]
    BY <1>7
  <2>2. 0 \in 0 .. n /\ \A i \in 1 .. n : i \in 0 .. n /\ i # 0
    BY <1>2
  <2> QED BY <2>1, <2>2
<1> DEFINE Seen(i) == {s[j] : j \in 1 .. i}
           Good(i) == /\ after[i] \in Seq(A)
                      /\ \A x : x \in Range(after[i]) <=> x \in Seen(i) /\ x \in S
                      /\ \E at : /\ \A k \in 1 .. Len(after[i]) : at[k] \in 1 .. i /\ after[i][k] = s[at[k]]
                                 /\ \A j, k \in 1 .. Len(after[i]) : j < k => at[j] < at[k]
           T == {i \in 0 .. n : Good(i)}
<1>9. Good(0)
  <2>1. /\ after[0] \in Seq(A) /\ Range(after[0]) = {} /\ Seen(0) = {}
        /\ \A k \in 1 .. Len(after[0]) : FALSE
    BY <1>8 DEF Range
  <2> HIDE DEF Seen
  <2> QED BY <2>1
<1>10. ASSUME NEW i \in 1 .. n, Good(i - 1)
       PROVE  Good(i)
  <2> DEFINE t == after[i - 1]
             u == after[i]
  <2>1. Seen(i) = Seen(i - 1) \cup {s[i]}
    <3>1. 1 .. i = 1 .. i - 1 \cup {i}
      BY <1>2
    <3> QED BY <3>1
  <2>2. /\ t \in Seq(A) /\ s[i] \in A
        /\ \A x : x \in Range(t) <=> x \in Seen(i - 1) /\ x \in S
    BY <1>2, <1>10
  <2>3. PICK at : /\ \A k \in 1 .. Len(t) : at[k] \in 1 .. i - 1 /\ t[k] = s[at[k]]
                  /\ \A j, k \in 1 .. Len(t) : j < k => at[j] < at[k]
    BY <1>10
  <2> HIDE DEF Seen
  <2>4. CASE s[i] \notin S
    <3>1. u = t
      BY <1>8, <2>4
    <3>2. \A x : x \in Range(u) <=> x \in Seen(i) /\ x \in S
      BY <2>1, <2>2, <2>4, <3>1
    <3>3. \A k \in 1 .. i - 1 : k \in 1 .. i
      BY <1>2
    <3>4. \A k \in 1 .. Len(u) : at[k] \in 1 .. i /\ u[k] = s[at[k]]
      BY <2>3, <3>1, <3>3
    <3> QED BY <2>2, <2>3, <3>1, <3>2, <3>4
  <2>5. CASE s[i] \in S
    <3>1. u = Append(t, s[i])
      BY <1>8, <2>5
    <3> HIDE DEF t, u
    <3>2. /\ u \in Seq(A) /\ Len(u) = Len(t) + 1 /\ Len(t) \in Nat
          /\ \A k \in 1 .. Len(t) : u[k] = t[k]
          /\ u[Len(t) + 1] = s[i]
      BY <2>2, <3>1, AppendProperties, LenProperties
    <3>3. \A k : k \in 1 .. Len(u) <=> k \in 1 .. Len(t) \/ k = Len(t) + 1
      BY <3>2
    <3>4. Range(u) = Range(t) \cup {s[i]}
      <4>1. Range(u) = {u[k] : k \in 1 .. Len(u)} /\ Range(t) = {t[k] : k \in 1 .. Len(t)}
        BY <2>2, <3>2, RangeEquality
      <4> QED BY <3>2, <3>3, <4>1
    <3>5. \A x : x \in Range(u) <=> x \in Seen(i) /\ x \in S
      BY <2>1, <2>2, <2>5, <3>4
    <3> DEFINE to == [k \in 1 .. Len(u) |-> IF k = Len(t) + 1 THEN i ELSE at[k]]
    <3>6. \A k \in 1 .. Len(u) : to[k] = IF k = Len(t) + 1 THEN i ELSE at[k]
      OBVIOUS
    <3> HIDE DEF to
    <3>7. ASSUME NEW k \in 1 .. Len(u)
          PROVE  to[k] \in 1 .. i /\ u[k] = s[to[k]]
      BY <1>2, <2>3, <3>2, <3>3, <3>6
    <3>8. ASSUME NEW j \in 1 .. Len(u), NEW k \in 1 .. Len(u), j < k
          PROVE  to[j] < to[k]
      <4>1. j \in 1 .. Len(t) /\ j # Len(t) + 1
        BY <3>2, <3>8
      <4>2. to[j] = at[j] /\ at[j] \in 1 .. i - 1
        BY <2>3, <3>6, <4>1
      <4>3. CASE k = Len(t) + 1
        BY <1>2, <3>6, <4>2, <4>3
      <4>4. CASE k # Len(t) + 1
        BY <2>3, <3>3, <3>6, <3>8, <4>1, <4>2, <4>4
      <4> QED BY <4>3, <4>4
    <3>9. \E to2 : /\ \A k \in 1 .. Len(u) : to2[k] \in 1 .. i /\ u[k] = s[to2[k]]
                   /\ \A j, k \in 1 .. Len(u) : j < k => to2[j] < to2[k]
      BY <3>7, <3>8
    <3> QED BY <3>2, <3>5, <3>9 DEF u
  <2> QED BY <2>4, <2>5
<1> HIDE DEF Good
<1>11. \A i \in 0 .. n : i \in T
  <2>1. 0 \in T /\ \A i \in 1 .. n : i - 1 \in T => i \in T
    BY <1>2, <1>9, <1>10
  <2> HIDE DEF T
  <2> QED BY <1>2, <2>1, UpTo
<1>12. Good(n)
  BY <1>2, <1>11
<1>13. Seen(n) = Range(s)
  BY RangeEquality DEF n
<1> QED BY <1>1, <1>12, <1>13 DEF Good, Rises, n

\* s laid end to end, turn by turn.
Flattens(h, s, A) ==
  /\ h[0] = <<>> /\ \A i \in 0 .. Len(s) : h[i] \in Seq(A)
  /\ \A i \in 1 .. Len(s) : h[i] = h[i - 1] \o s[i]

LEMMA FlattenIs ==
  ASSUME NEW A, NEW s \in Seq(Seq(A))
  PROVE  \E h : Flattens(h, s, A) /\ FlattenSeq(s) = h[Len(s)]
<1> DEFINE n == Len(s)
           B == Seq(A)
           g == [p \in B \X (1 .. n) |-> p[1] \o s[p[2]]]
           F(f) == [i \in 1 .. n |-> IF i = 1 THEN s[i] ELSE f[i - 1] \o s[i]]
           flatten == CHOOSE f : f = F(f)
<1>1. FlattenSeq(s) = IF n = 0 THEN s ELSE flatten[n]
  BY DEF FlattenSeq
<1>2. n \in Nat /\ \A i \in 1 .. n : s[i] \in B
  BY LenProperties, ElementOfSeq
<1>3. n = 0 => s = <<>>
  BY EmptySeq
<1> HIDE DEF n
<1>4. <<>> \in B
  OBVIOUS
<1>5. g \in [B \X (1 .. n) -> B] /\ \A b \in B, i \in 1 .. n : g[<<b, i>>] = b \o s[i]
  <2>1. \A b \in B, i \in 1 .. n : b \o s[i] \in B
    BY <1>2, ConcatProperties
  <2> HIDE DEF B
  <2> QED BY <2>1
<1> HIDE DEF g
<1>6. PICK h : Folds(h, n, <<>>, g) /\ \A i \in 0 .. n : h[i] \in B
  <2> HIDE DEF B
  <2> QED BY <1>2, <1>4, <1>5, FoldTyped, Zenon
<1>7. Flattens(h, s, A)
  <2>1. \A i \in 1 .. n : i - 1 \in 0 .. n
    BY <1>2
  <2>2. \A i \in 1 .. n : h[i] = h[i - 1] \o s[i]
    BY <1>5, <1>6, <2>1 DEF Folds
  <2> QED BY <1>6, <2>2 DEF Folds, Flattens, n
<1>8. CASE n = 0
  BY <1>1, <1>3, <1>7, <1>8 DEF Flattens, n
<1>9. CASE n # 0
  <2> DEFINE e == [i \in 1 .. n |-> h[i]]
  <2>1. ASSUME NEW i \in 1 .. n
        PROVE  e[i] = IF i = 1 THEN s[i] ELSE e[i - 1] \o s[i]
    <3>1. h[i] = h[i - 1] \o s[i] /\ h[0] = <<>> /\ s[i] \in B
      BY <1>2, <1>7 DEF Flattens, n
    <3>2. CASE i = 1
      <4>1. <<>> \o s[i] = s[i]
        BY <3>1, ConcatEmptySeq
      <4>2. i - 1 = 0
        BY <3>2
      <4>3. h[i] = s[i]
        BY <3>1, <4>1, <4>2, Zenon
      <4> QED BY <3>2, <4>3
    <3>3. CASE i # 1
      <4>1. i - 1 \in 1 .. n
        BY <1>2, <3>3
      <4> QED BY <3>1, <3>3, <4>1
    <3> QED BY <3>2, <3>3
  <2>2. e = F(e)
    BY <2>1
  <2>3. flatten = F(flatten)
    BY <2>2
  <2> HIDE DEF flatten, e
  <2>4. \A i \in 1 .. n : flatten[i] = IF i = 1 THEN s[i] ELSE flatten[i - 1] \o s[i]
    BY <2>3
  <2> DEFINE T == {i \in 0 .. n : i # 0 => flatten[i] = h[i]}
  <2>5. 0 \in T
    BY <1>2
  <2>6. ASSUME NEW i \in 1 .. n, i - 1 \in T
        PROVE  i \in T
    <3>1. h[i] = h[i - 1] \o s[i] /\ h[0] = <<>> /\ s[i] \in B
      BY <1>2, <1>7 DEF Flattens, n
    <3>2. CASE i = 1
      <4>1. <<>> \o s[i] = s[i]
        BY <3>1, ConcatEmptySeq
      <4>2. i - 1 = 0 /\ flatten[i] = s[i]
        BY <2>4, <3>2
      <4>3. h[i] = s[i]
        BY <3>1, <4>1, <4>2, Zenon
      <4> QED BY <1>2, <4>2, <4>3
    <3>3. CASE i # 1
      <4>1. i - 1 # 0 /\ i \in 0 .. n
        BY <1>2, <3>3
      <4>2. flatten[i] = flatten[i - 1] \o s[i]
        BY <2>4, <3>3
      <4>3. flatten[i - 1] = h[i - 1]
        BY <2>6, <4>1
      <4>4. flatten[i] = h[i]
        BY <3>1, <4>2, <4>3, Zenon
      <4> QED BY <4>1, <4>4
    <3> QED BY <3>2, <3>3
  <2>7. \A i \in 0 .. n : i \in T
    <3> HIDE DEF T
    <3> QED BY <1>2, <2>5, <2>6, UpTo
  <2>8. flatten[n] = h[n]
    BY <1>2, <1>9, <2>7
  <2> QED BY <1>1, <1>7, <1>9, <2>8 DEF n
<1> QED BY <1>8, <1>9

\* Laid end to end is laid one after another.
LEMMA FlattenAppend ==
  ASSUME NEW A, NEW s \in Seq(Seq(A)), NEW x \in Seq(A)
  PROVE  FlattenSeq(Append(s, x)) = FlattenSeq(s) \o x
<1> DEFINE t == Append(s, x)
           n == Len(s)
<1>1. /\ t \in Seq(Seq(A)) /\ n \in Nat /\ Len(t) = n + 1
      /\ t[n + 1] = x /\ \A i \in 1 .. n : t[i] = s[i]
  BY AppendProperties, LenProperties
<1> HIDE DEF t
<1>2. PICK h : Flattens(h, s, A) /\ FlattenSeq(s) = h[n]
  BY FlattenIs
<1>3. PICK k : Flattens(k, t, A) /\ FlattenSeq(t) = k[n + 1]
  BY <1>1, FlattenIs
<1>4. h[0] = <<>> /\ \A i \in 1 .. n : h[i] = h[i - 1] \o s[i]
  BY <1>2 DEF Flattens
<1>5. k[0] = <<>> /\ \A i \in 1 .. n + 1 : k[i] = k[i - 1] \o t[i]
  BY <1>1, <1>3 DEF Flattens
<1> HIDE DEF n
<1> DEFINE T == {i \in 0 .. n : k[i] = h[i]}
<1>6. 0 \in T
  <2>1. 0 \in 0 .. n
    BY <1>1
  <2> QED BY <1>4, <1>5, <2>1
<1>7. ASSUME NEW i \in 1 .. n, i - 1 \in T
      PROVE  i \in T
  <2>1. i \in 1 .. n + 1 /\ i \in 0 .. n
    BY <1>1
  <2>2. h[i] = h[i - 1] \o s[i] /\ k[i] = k[i - 1] \o t[i] /\ t[i] = s[i] /\ k[i - 1] = h[i - 1]
    BY <1>1, <1>4, <1>5, <1>7, <2>1
  <2>3. k[i] = h[i]
    BY <2>2, Zenon
  <2> QED BY <2>1, <2>3
<1>8. \A i \in 0 .. n : i \in T
  <2> HIDE DEF T
  <2> QED BY <1>1, <1>6, <1>7, UpTo
<1>9. k[n] = h[n]
  BY <1>1, <1>8
<1>10. k[n + 1] = k[n] \o x
  <2> DEFINE j == n + 1
  <2>1. j \in 1 .. n + 1 /\ j - 1 = n /\ t[j] = x
    BY <1>1
  <2> HIDE DEF j
  <2>2. k[j] = k[j - 1] \o t[j]
    BY <1>5, <2>1
  <2>3. k[j] = k[n] \o x
    BY <2>1, <2>2, Zenon
  <2> QED BY <2>3 DEF j
<1> QED BY <1>2, <1>3, <1>9, <1>10, Zenon DEF t

\* It is a sequence, and holds what the parts hold.
LEMMA FlattenRange ==
  ASSUME NEW A, NEW s \in Seq(Seq(A))
  PROVE  /\ FlattenSeq(s) \in Seq(A)
         /\ \A i \in 1 .. Len(s) : Range(s[i]) \subseteq Range(FlattenSeq(s))
<1> DEFINE n == Len(s)
<1>1. n \in Nat /\ \A i \in 1 .. n : s[i] \in Seq(A)
  BY LenProperties, ElementOfSeq
<1>2. PICK h : Flattens(h, s, A) /\ FlattenSeq(s) = h[n]
  BY FlattenIs
<1> HIDE DEF n
<1> DEFINE T == {i \in 0 .. n : \A j \in 1 .. i : Range(s[j]) \subseteq Range(h[i])}
<1>3. 0 \in T
  BY <1>1
<1>4. ASSUME NEW i \in 1 .. n, i - 1 \in T
      PROVE  i \in T
  <2>1. i - 1 \in 0 .. n /\ i \in 0 .. n
    BY <1>1
  <2>2. h[i] = h[i - 1] \o s[i] /\ h[i - 1] \in Seq(A) /\ s[i] \in Seq(A)
    BY <1>1, <1>2, <2>1 DEF Flattens, n
  <2>3. Range(h[i]) = Range(h[i - 1]) \cup Range(s[i])
    BY <2>2, RangeConcatenation
  <2>4. ASSUME NEW j \in 1 .. i
        PROVE  Range(s[j]) \subseteq Range(h[i])
    <3>1. j = i \/ j \in 1 .. i - 1
      BY <1>1
    <3>2. j \in 1 .. i - 1 => Range(s[j]) \subseteq Range(h[i - 1])
      BY <1>4
    <3> QED BY <2>3, <3>1, <3>2
  <2> QED BY <2>1, <2>4
<1>5. \A i \in 0 .. n : i \in T
  <2> HIDE DEF T
  <2> QED BY <1>1, <1>3, <1>4, UpTo
<1>6. n \in 0 .. n
  BY <1>1
<1> QED BY <1>2, <1>5, <1>6 DEF Flattens, n

\* How often a sequence is in P adds up over its parts.
CountIn(s, P) == Cardinality({i \in DOMAIN s : s[i] \in P})

LEMMA CountsAdd ==
  ASSUME NEW A, NEW a \in Seq(A), NEW b \in Seq(A), NEW P
  PROVE  /\ CountIn(a \o b, P) = CountIn(a, P) + CountIn(b, P)
         /\ CountIn(a, P) \in Nat /\ CountIn(b, P) \in Nat
<1> DEFINE c == a \o b
           n == Len(a)
           S1 == {i \in DOMAIN a : a[i] \in P}
           S2 == {i \in DOMAIN b : b[i] \in P}
           S3 == {i + n : i \in S2}
           f == [i \in S2 |-> i + n]
<1>1. /\ n \in Nat /\ Len(b) \in Nat /\ DOMAIN a = 1 .. n /\ DOMAIN b = 1 .. Len(b)
      /\ DOMAIN c = 1 .. n + Len(b)
      /\ \A i \in 1 .. n + Len(b) : c[i] = IF i <= n THEN a[i] ELSE b[i - n]
  BY ConcatProperties, LenProperties
<1>2. \A k \in Nat : IsFiniteSet(1 .. k)
  BY FS_Interval
<1> HIDE DEF c, n
<1>3. IsFiniteSet(S1) /\ IsFiniteSet(S2)
  <2>1. S1 \in SUBSET (1 .. n) /\ S2 \in SUBSET (1 .. Len(b))
    BY <1>1
  <2> HIDE DEF S1, S2
  <2> QED BY <1>1, <1>2, <2>1, FS_Subset
<1>4. {i \in DOMAIN c : c[i] \in P} = S1 \cup S3
  <2>1. ASSUME NEW i \in DOMAIN c, c[i] \in P
        PROVE  i \in S1 \cup S3
    <3>1. CASE i <= n
      BY <1>1, <2>1, <3>1
    <3>2. CASE ~ (i <= n)
      <4>1. i - n \in 1 .. Len(b) /\ c[i] = b[i - n] /\ i - n + n = i
        BY <1>1, <3>2
      <4> QED BY <1>1, <2>1, <4>1
    <3> QED BY <3>1, <3>2
  <2>2. ASSUME NEW i \in S1
        PROVE  i \in DOMAIN c /\ c[i] \in P
    BY <1>1
  <2>3. ASSUME NEW i \in S3
        PROVE  i \in DOMAIN c /\ c[i] \in P
    <3>1. PICK j \in S2 : i = j + n
      OBVIOUS
    <3>2. j \in 1 .. Len(b) /\ i \in 1 .. n + Len(b) /\ ~ (i <= n) /\ i - n = j
      BY <1>1, <3>1
    <3> QED BY <1>1, <3>2
  <2> QED BY <2>1, <2>2, <2>3
<1>5. f \in Bijection(S2, S3)
  BY <1>1 DEF Bijection, Injection, Surjection, IsInjective
<1>6. S1 \cap S3 = {}
  BY <1>1
<1> DEFINE S == {i \in DOMAIN c : c[i] \in P}
<1> HIDE DEF S1, S2, S3, f, S
<1>7. IsFiniteSet(S3) /\ Cardinality(S3) = Cardinality(S2)
  BY <1>3, <1>5, FS_Bijection DEF ExistsBijection
<1>8. Cardinality(S1 \cup S3) = Cardinality(S1) + Cardinality(S3) - Cardinality(S1 \cap S3)
  BY <1>3, <1>7, FS_Union
<1>9. Cardinality(S1) \in Nat /\ Cardinality(S2) \in Nat /\ Cardinality(S1 \cap S3) = 0
  BY <1>3, <1>6, FS_CardinalityType, FS_EmptySet
<1>10. S = S1 \cup S3
  BY <1>4 DEF S
<1>11. Cardinality(S) = Cardinality(S1) + Cardinality(S2)
  BY <1>7, <1>8, <1>9, <1>10
<1> QED BY <1>9, <1>11 DEF S, S1, S2, c, CountIn

-------------------------------------------------------------------------------
(* Probes.                                                                 *)

\* Min of a non-empty set of naturals is in it.
LEMMA MinIn ==
  ASSUME NEW S, S \subseteq Nat, S # {}
  PROVE  Min(S) \in S
<1>1. PICK n \in S : \A k \in S : ~ (<<k, n>> \in OpToRel(<, Nat))
  BY WFMin, NatLessThanWellFounded
<1>2. ASSUME NEW k \in S PROVE n <= k
  <2>1. k \in Nat /\ n \in Nat
    OBVIOUS
  <2>2. k < n => <<k, n>> \in OpToRel(<, Nat)
    BY <2>1 DEF OpToRel
  <2>3. ~ (k < n)
    BY <2>2, <1>1
  <2> QED BY <2>1, <2>3
<1> QED BY <1>2 DEF Min

\* First fit returns a slot of the grid that is dark on the whole path.
LEMMA FirstFitFree ==
  ASSUME NEW state, NEW seq, FirstFitSlot(state, seq) # NoSlot
  PROVE  /\ FirstFitSlot(state, seq) \in Slots
         /\ \A o \in OMS \cap Range(seq) : FirstFitSlot(state, seq) \notin state[o]
<1> DEFINE free == FreeSlotsAlong(state, seq)
<1>1. free # {} /\ FirstFitSlot(state, seq) = Min(free)
  BY DEF FirstFitSlot, LowestSlot
<1>2. free \subseteq Nat
  BY SpectrumAssumption DEF FreeSlotsAlong, Slots
<1>3. Min(free) \in free
  BY <1>1, <1>2, MinIn
<1> QED BY <1>1, <1>3 DEF FreeSlotsAlong, OccupiedAlong

\* GSNRs are whole numbers here, and there is a fastest mode.
Decibels ==
  /\ \A seq, slot, comb : Gsnr(seq, slot, comb) \in Int /\ ComposedGsnr(seq, slot) \in Int
  /\ \E top \in Nat : \A m \in Modes : Bitrate[m] <= top

\* The fastest feasible mode is feasible.
LEMMA BestModeIn ==
  ASSUME Decibels, NEW gsnr, BestFeasibleMode(gsnr) # NoMode
  PROVE  BestFeasibleMode(gsnr) \in FeasibleModes(gsnr)
<1> DEFINE feasible == FeasibleModes(gsnr)
<1>1. feasible # {} /\ feasible \subseteq Modes
  BY DEF BestFeasibleMode, FeasibleModes
<1>2. PICK top \in Nat : \A m \in Modes : Bitrate[m] <= top
  BY DEF Decibels
<1>3. \A m \in feasible : Bitrate[m] \in Nat /\ top - Bitrate[m] \in Nat
  BY <1>1, <1>2, RoutingAssumption
<1> DEFINE T == {top - Bitrate[m] : m \in feasible}
<1>4. T \subseteq Nat /\ T # {}
  BY <1>1, <1>3
<1>5. PICK t \in T : \A k \in T : ~ (<<k, t>> \in OpToRel(<, Nat))
  BY <1>4, WFMin, NatLessThanWellFounded
<1>6. PICK m \in feasible : t = top - Bitrate[m]
  BY <1>5
<1>7. ASSUME NEW n \in feasible PROVE Bitrate[n] <= Bitrate[m]
  <2> DEFINE k == top - Bitrate[n]
  <2>1. k \in T /\ k \in Nat /\ t \in Nat
    BY <1>3, <1>4, <1>5
  <2>2. k < t => <<k, t>> \in OpToRel(<, Nat)
    BY <2>1 DEF OpToRel
  <2>3. ~ (k < t)
    BY <2>1, <2>2, <1>5
  <2> QED BY <2>1, <2>3, <1>2, <1>3, <1>6
<1> QED BY <1>1, <1>6, <1>7 DEF BestFeasibleMode
===============================================================================
