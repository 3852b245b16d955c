---------------------------- MODULE Search_proofs ----------------------------
(***************************************************************************)
(* What holds of routes and of the search for them, for any nodes,         *)
(* overlay, stores of the past, reports and limit.  First what the         *)
(* algorithms of Reachability and EventStore compute for every input; each *)
(* of their loops is followed by the number of steps.                      *)
(***************************************************************************)
EXTENDS Search, FiniteSetTheorems, TLAPS

-----------------------------------------------------------------------------
(* Numbers and orders.                                                     *)

(* Induction over the naturals in the form the provers take: a set of them *)
(* that is not empty has a least element.                                  *)
LEMMA Least ==
  ASSUME NEW T \in SUBSET Nat, T # {}
  PROVE  \E x \in T : \A y \in T : x <= y
<1> DEFINE U == {0..n : n \in T}
<1>1. U \subseteq FiniteSubsetsOf(Nat)
  <2> SUFFICES ASSUME NEW n \in T PROVE 0..n \in FiniteSubsetsOf(Nat)
    OBVIOUS
  <2>1. IsFiniteSet(0..n)
    BY FS_Interval
  <2> QED
    BY <2>1 DEF FiniteSubsetsOf
<1>2. U # {}
  OBVIOUS
<1>3. PICK u \in U : \A v \in U : ~(<<v, u>> \in StrictSubsetOrdering(Nat))
  <2> HIDE DEF U
  <2> QED
    BY <1>1, <1>2, WFMin, FS_StrictSubsetOrderingWellFounded
<1>4. PICK n \in T : u = 0..n
  OBVIOUS
<1>5. ASSUME NEW m \in T, m < n PROVE FALSE
  <2>1. n \in 0..n /\ n \notin 0..m /\ 0..m \subseteq 0..n
    BY <1>5
  <2>2. <<0..m, 0..n>> \in StrictSubsetOrdering(Nat)
    BY <2>1 DEF StrictSubsetOrdering
  <2> QED
    BY <1>3, <1>4, <2>2
<1> QED
  BY <1>5

(* A set of the numbers up to n that is closed under the next step.        *)
LEMMA Upwards ==
  ASSUME NEW n \in Nat, NEW Good \in SUBSET (0..n), 0 \in Good,
         \A i \in 1..n : i - 1 \in Good => i \in Good
  PROVE  Good = 0..n
<1> DEFINE Bad == (0..n) \ Good
<1>1. SUFFICES ASSUME Bad # {} PROVE FALSE
  OBVIOUS
<1>2. Bad \in SUBSET Nat
  OBVIOUS
<1>3. PICK i \in Bad : \A j \in Bad : i <= j
  <2> HIDE DEF Bad
  <2> QED
    BY <1>1, <1>2, Least
<1>4. i \in 1..n /\ i - 1 \in 0..n /\ i - 1 < i
  BY <1>3
<1>5. i - 1 \notin Bad
  BY <1>2, <1>3, <1>4
<1> QED
  BY <1>3, <1>4, <1>5

(* A loop over 1..n that takes the value b through the steps F: there is a *)
(* function that satisfies its recursive definition.                       *)
Runs(g, n, b, F) ==
    \A j \in 0..n : g[j] = IF j = 0 THEN b ELSE F[<<g[j - 1], j>>]

LEMMA Loop ==
  ASSUME NEW V, NEW n \in Nat, NEW b \in V, NEW F \in [V \X (1..n) -> V]
  PROVE  \E g \in [0..n -> V] : Runs(g, n, b, F)
<1> DEFINE Good == {i \in 0..n : \E g \in [0..i -> V] : Runs(g, i, b, F)}
<1>1. 0 \in Good
  <2>1. [j \in 0..0 |-> b] \in [0..0 -> V] /\ Runs([j \in 0..0 |-> b], 0, b, F)
    BY DEF Runs
  <2> QED
    BY <2>1
<1>2. ASSUME NEW i \in 1..n, i - 1 \in Good PROVE i \in Good
  <2>1. PICK g \in [0..(i - 1) -> V] : Runs(g, i - 1, b, F)
    BY <1>2
  <2>2. g[i - 1] \in V /\ F[<<g[i - 1], i>>] \in V
    OBVIOUS
  <2> DEFINE h == [j \in 0..i |-> IF j = i THEN F[<<g[i - 1], i>>] ELSE g[j]]
  <2>3. h \in [0..i -> V]
    BY <2>2
  <2>4. ASSUME NEW j \in 0..i
        PROVE  h[j] = IF j = 0 THEN b ELSE F[<<h[j - 1], j>>]
    <3>1. CASE j = i
      <4>1. j # 0 /\ j - 1 \in 0..i /\ j - 1 # i
        BY <3>1
      <4> QED
        BY <3>1, <4>1
    <3>2. CASE j # i
      <4>1. j \in 0..(i - 1) /\ h[j] = g[j]
        BY <3>2
      <4>2. j # 0 => j - 1 \in 0..i /\ j - 1 # i
        BY <3>2
      <4>3. j # 0 => h[j - 1] = g[j - 1]
        BY <4>2
      <4> HIDE DEF h
      <4> QED
        BY <2>1, <4>1, <4>3 DEF Runs
    <3> QED
      BY <3>1, <3>2
  <2> HIDE DEF h
  <2>5. Runs(h, i, b, F)
    BY <2>4 DEF Runs
  <2> QED
    BY <2>3, <2>5
<1>3. Good = 0..n
  <2> HIDE DEF Good
  <2>1. Good \in SUBSET (0..n)
    BY DEF Good
  <2> QED
    BY <1>1, <1>2, <2>1, Upwards
<1>4. n \in Good
  <2> HIDE DEF Good
  <2> QED
    BY <1>3
<1> QED
  BY <1>4

(* In a finite set K with a strict total order R, every rank is taken.     *)
LEMMA Ranked ==
  ASSUME NEW K, IsFiniteSet(K), NEW R,
         \A i \in K : <<i, i>> \notin R,
         \A i, j \in K : i # j => <<i, j>> \in R \/ <<j, i>> \in R,
         \A i, j, k \in K : <<i, j>> \in R /\ <<j, k>> \in R => <<i, k>> \in R
  PROVE  /\ Cardinality(K) \in Nat
         /\ \A k \in 1..Cardinality(K) :
               \E i \in K : Cardinality({j \in K : <<j, i>> \in R}) = k - 1
         /\ \A i \in K : Cardinality({j \in K : <<j, i>> \in R}) + 1 \in 1..Cardinality(K)
         /\ \A i, l \in K : Cardinality({j \in K : <<j, i>> \in R}) =
                            Cardinality({j \in K : <<j, l>> \in R}) => i = l
         /\ \A i, l \in K : <<i, l>> \in R =>
               Cardinality({j \in K : <<j, i>> \in R}) <
               Cardinality({j \in K : <<j, l>> \in R})
<1> DEFINE Below(i) == {j \in K : <<j, i>> \in R}
           rank(i) == Cardinality(Below(i))
           m == Cardinality(K)
           f == [i \in K |-> rank(i) + 1]
<1>1. m \in Nat
  BY FS_CardinalityType
<1>2. ASSUME NEW i \in K PROVE IsFiniteSet(Below(i)) /\ rank(i) \in Nat /\ rank(i) < m
  <2>1. Below(i) \in SUBSET (K \ {i})
    OBVIOUS
  <2>2. IsFiniteSet(K \ {i}) /\ Cardinality(K \ {i}) = m - 1
    BY FS_RemoveElement
  <2> HIDE DEF Below, m
  <2>3. IsFiniteSet(Below(i)) /\ Cardinality(Below(i)) <= m - 1
    BY <2>1, <2>2, FS_Subset
  <2>4. Cardinality(Below(i)) \in Nat
    BY <2>3, FS_CardinalityType
  <2> QED
    BY <1>1, <2>3, <2>4
<1>3. ASSUME NEW i \in K, NEW j \in K, <<i, j>> \in R PROVE rank(i) < rank(j)
  <2>1. Below(i) \in SUBSET (Below(j) \ {i}) /\ i \in Below(j)
    BY <1>3
  <2>2. /\ IsFiniteSet(Below(j)) /\ rank(j) \in Nat
        /\ IsFiniteSet(Below(i)) /\ rank(i) \in Nat
    BY <1>2
  <2> HIDE DEF Below
  <2>3. IsFiniteSet(Below(j) \ {i}) /\ Cardinality(Below(j) \ {i}) = rank(j) - 1
    BY <2>1, <2>2, FS_RemoveElement
  <2>4. Cardinality(Below(i)) <= rank(j) - 1
    BY <2>1, <2>3, FS_Subset
  <2> QED
    BY <2>2, <2>4
<1> HIDE DEF Below, rank, m
<1>4. f \in [K -> 1..m]
  BY <1>1, <1>2
<1>5. ASSUME NEW i \in K, NEW j \in K, rank(i) = rank(j) PROVE i = j
  <2>1. rank(i) \in Nat /\ rank(j) \in Nat
    BY <1>2
  <2>2. ~(rank(i) < rank(j)) /\ ~(rank(j) < rank(i))
    BY <1>5, <2>1
  <2> QED
    BY <1>3, <2>2
<1>6. \A i, j \in K : f[i] = f[j] => i = j
  <2> SUFFICES ASSUME NEW i \in K, NEW j \in K, f[i] = f[j] PROVE i = j
    OBVIOUS
  <2>1. rank(i) = rank(j)
    <3>1. rank(i) + 1 = rank(j) + 1 /\ rank(i) \in Nat /\ rank(j) \in Nat
      BY <1>2
    <3> QED
      BY <3>1
  <2> QED
    BY <1>5, <2>1
<1>7. \A i \in K : f[i] = rank(i) + 1
  OBVIOUS
<1> HIDE DEF f
<1>8. f \in Injection(K, 1..m)
  BY <1>4, <1>6 DEF Injection, IsInjective
<1>9. IsFiniteSet(1..m) /\ Cardinality(1..m) = m
  BY <1>1, FS_Interval
<1>10. f \in Surjection(K, 1..m)
  BY <1>8, <1>9, FS_Injection DEF m
<1>11. ASSUME NEW k \in 1..m PROVE \E i \in K : rank(i) = k - 1
  <2>1. PICK i \in K : f[i] = k
    BY <1>10 DEF Surjection
  <2>2. rank(i) + 1 = k /\ rank(i) \in Nat
    BY <1>2, <1>7, <2>1
  <2> QED
    BY <2>2
<1>12. \A i \in K : rank(i) + 1 \in 1..m
  BY <1>1, <1>2
<1> QED
  BY <1>1, <1>3, <1>5, <1>11, <1>12 DEF m, rank, Below

-----------------------------------------------------------------------------
(* Filters.                                                                *)

(* d has the entries of c at the positions in K, each of them once.        *)
Picks(d, c, K) ==
    \E e \in [DOMAIN d -> K] :
        /\ \A k \in DOMAIN d : d[k] = c[e[k]]
        /\ \A k, l \in DOMAIN d : e[k] = e[l] => k = l
        /\ \A i \in K : \E k \in DOMAIN d : e[k] = i

LEMMA KeptFacts ==
  ASSUME NEW S, NEW c \in Seq(S), NEW K \in SUBSET DOMAIN c
  PROVE  /\ Kept(c, K) \in Seq(S)
         /\ Len(Kept(c, K)) = Cardinality(K) /\ Cardinality(K) \in Nat
         /\ IsFiniteSet(K)
         /\ Picks(Kept(c, K), c, K)
<1> DEFINE n == Cardinality(K)
           R == {p \in K \X K : p[1] < p[2]}
           rank(i) == Cardinality({j \in K : j < i})
           e == [k \in 1..n |-> CHOOSE i \in K : rank(i) = k - 1]
           d == Kept(c, K)
<1>1. Len(c) \in Nat /\ DOMAIN c = 1..Len(c)
  OBVIOUS
<1>2. IsFiniteSet(K)
  <2>1. IsFiniteSet(1..Len(c))
    BY <1>1, FS_Interval
  <2> QED
    BY <1>1, <2>1, FS_Subset
<1>3. \A i, j \in K : <<i, j>> \in R <=> i < j
  OBVIOUS
<1>4. \A i \in K : i \in Nat
  BY <1>1
<1>5. /\ n \in Nat
      /\ \A k \in 1..n : \E i \in K : rank(i) = k - 1
      /\ \A i \in K : rank(i) + 1 \in 1..n
      /\ \A i, l \in K : rank(i) = rank(l) => i = l
  <2>1. \A i \in K : <<i, i>> \notin R
    BY <1>3, <1>4
  <2>2. \A i, j \in K : i # j => <<i, j>> \in R \/ <<j, i>> \in R
    BY <1>3, <1>4
  <2>3. \A i, j, k \in K : <<i, j>> \in R /\ <<j, k>> \in R => <<i, k>> \in R
    BY <1>3, <1>4
  <2>4. \A i \in K : {j \in K : <<j, i>> \in R} = {j \in K : j < i}
    BY <1>3
  <2> HIDE DEF R
  <2>5. /\ Cardinality(K) \in Nat
        /\ \A k \in 1..Cardinality(K) :
              \E i \in K : Cardinality({j \in K : <<j, i>> \in R}) = k - 1
        /\ \A i \in K : Cardinality({j \in K : <<j, i>> \in R}) + 1 \in 1..Cardinality(K)
        /\ \A i, l \in K : Cardinality({j \in K : <<j, i>> \in R}) =
                            Cardinality({j \in K : <<j, l>> \in R}) => i = l
        /\ \A i, l \in K : <<i, l>> \in R =>
              Cardinality({j \in K : <<j, i>> \in R}) <
              Cardinality({j \in K : <<j, l>> \in R})
    BY <1>2, <2>1, <2>2, <2>3, Ranked, Zenon
  <2>6. \A k \in 1..n : \E i \in K : rank(i) = k - 1
    BY <2>4, <2>5
  <2>7. \A i \in K : rank(i) + 1 \in 1..n
    BY <2>4, <2>5
  <2>8. \A i, l \in K : rank(i) = rank(l) => i = l
    BY <2>4, <2>5
  <2> QED
    BY <2>5, <2>6, <2>7, <2>8
<1>6. d = [k \in 1..n |-> c[CHOOSE i \in K : rank(i) = k - 1]]
  BY DEF Kept
<1> HIDE DEF n, rank, d, R
<1>7. \A k \in 1..n : e[k] \in K /\ rank(e[k]) = k - 1
  BY <1>5
<1>8. e \in [1..n -> K]
  BY <1>7
<1>9. \A k \in 1..n : d[k] = c[e[k]]
  BY <1>6
<1> HIDE DEF e
<1>10. \A k \in 1..n : d[k] = c[e[k]] /\ d[k] \in S
  BY <1>7, <1>9
<1>11. d \in Seq(S) /\ Len(d) = n /\ DOMAIN d = 1..n
  <2>1. d \in [1..n -> S]
    BY <1>6, <1>10
  <2> QED
    BY <1>5, <2>1
<1>12. \A k, l \in 1..n : e[k] = e[l] => k = l
  BY <1>5, <1>7
<1>13. ASSUME NEW i \in K PROVE \E k \in 1..n : e[k] = i
  <2>1. rank(i) + 1 \in 1..n
    BY <1>5
  <2>2. PICK k \in 1..n : k = rank(i) + 1
    BY <2>1
  <2>3. rank(e[k]) = k - 1
    BY <1>7
  <2>4. rank(i) = k - 1
    <3>1. IsFiniteSet({j \in K : j < i})
      BY <1>2, FS_Subset
    <3>2. rank(i) \in Nat
      BY <3>1, FS_CardinalityType DEF rank
    <3> QED
      BY <2>2, <3>2
  <2> QED
    BY <1>5, <1>7, <2>3, <2>4
<1>14. /\ d \in Seq(S) /\ Len(d) = n /\ n \in Nat
       /\ e \in [DOMAIN d -> K]
       /\ \A k \in DOMAIN d : d[k] = c[e[k]]
       /\ \A k, l \in DOMAIN d : e[k] = e[l] => k = l
       /\ \A i \in K : \E k \in DOMAIN d : e[k] = i
  BY <1>5, <1>8, <1>10, <1>11, <1>12, <1>13
<1> HIDE DEF d
<1>15. Picks(d, c, K)
  BY <1>14 DEF Picks
<1> QED
  BY <1>2, <1>14, <1>15 DEF d, n

(* The entries that are kept.                                              *)
LEMMA KeptRange ==
  ASSUME NEW S, NEW c \in Seq(S), NEW K \in SUBSET DOMAIN c
  PROVE  /\ Kept(c, K) \in Seq(S)
         /\ Len(Kept(c, K)) = Cardinality(K) /\ Cardinality(K) \in Nat
         /\ IsFiniteSet(K)
         /\ Range(Kept(c, K)) = {c[i] : i \in K}
<1> DEFINE d == Kept(c, K)
<1>1. /\ d \in Seq(S)
      /\ Len(d) = Cardinality(K) /\ Cardinality(K) \in Nat
      /\ IsFiniteSet(K) /\ Picks(d, c, K)
  BY KeptFacts
<1> HIDE DEF d
<1>2. PICK e \in [DOMAIN d -> K] :
          /\ \A k \in DOMAIN d : d[k] = c[e[k]]
          /\ \A k, l \in DOMAIN d : e[k] = e[l] => k = l
          /\ \A i \in K : \E k \in DOMAIN d : e[k] = i
  BY <1>1 DEF Picks
<1>3. Range(d) = {c[i] : i \in K}
  <2>1. ASSUME NEW k \in DOMAIN d PROVE d[k] \in {c[i] : i \in K}
    BY <1>2
  <2>2. ASSUME NEW i \in K PROVE c[i] \in Range(d)
    BY <1>2 DEF Range
  <2> QED
    BY <2>1, <2>2 DEF Range
<1> QED
  BY <1>1, <1>3 DEF d
-----------------------------------------------------------------------------
(* resolveRouteAnnouncement.                                               *)

RouteType(r) == r \in Routes /\ r # None /\ r.sequence \in Nat /\ r.observedAt \in Int

(* A route is no None, and its version is two integers.                    *)
LEMMA RouteTypes == \A r \in Routes : RouteType(r)
BY SearchAssumption DEF Routes, RouteType

(* The routes of x in S, and what it means for l to be the newest of S.    *)
RoutesFor(x, S) == {r \in S : r.identity = x}
NewestOf(l, S) ==
    /\ l = None <=> S = {}
    /\ l # None => l \in S /\ \A r \in S : ~Newer(r, l)

(* resolveRouteAnnouncement returns the newest of the routes of x, or none.*)
LEMMA LatestNewest ==
  ASSUME NEW x, NEW rs \in Seq(Routes)
  PROVE  NewestOf(Latest(x, rs), RoutesFor(x, Range(rs)))
<1> DEFINE n == Len(rs)
           V == Routes \cup {None}
           step(l, r) ==
               IF r.identity = x /\ (l = None \/ Newer(r, l)) THEN r ELSE l
           latest == CHOOSE f : f = [i \in 0..n |->
                         IF i = 0 THEN None ELSE step(f[i - 1], rs[i])]
           Upto(i) == {rs[j] : j \in 1..i}
           Good == {i \in 0..n : NewestOf(latest[i], RoutesFor(x, Upto(i)))}
           F == [p \in V \X (1..n) |-> step(p[1], rs[p[2]])]
<1>1. n \in Nat /\ DOMAIN rs = 1..n /\ \A i \in 1..n : rs[i] \in Routes
  OBVIOUS
<1>2. Latest(x, rs) = latest[n]
  BY DEF Latest
<1>3. \A l \in V, i \in 1..n : step(l, rs[i]) \in V
  BY <1>1
<1>4. latest = [i \in 0..n |-> IF i = 0 THEN None ELSE step(latest[i - 1], rs[i])]
  <2> HIDE DEF step, V, n
  <2>1. F \in [V \X (1..n) -> V]
    BY <1>3
  <2>2. None \in V
    BY DEF V
  <2>3. \A l \in V, i \in 1..n : F[<<l, i>>] = step(l, rs[i])
    OBVIOUS
  <2> HIDE DEF F
  <2>4. PICK g \in [0..n -> V] : Runs(g, n, None, F)
    BY <1>1, <2>1, <2>2, Loop
  <2>5. ASSUME NEW j \in 0..n
        PROVE  g[j] = IF j = 0 THEN None ELSE step(g[j - 1], rs[j])
    <3>1. CASE j = 0
      BY <2>4, <3>1 DEF Runs
    <3>2. CASE j # 0
      <4>1. j \in 1..n /\ j - 1 \in 0..n
        BY <1>1, <3>2
      <4> QED
        BY <2>3, <2>4, <3>2, <4>1 DEF Runs
    <3> QED
      BY <3>1, <3>2
  <2>6. g = [j \in 0..n |-> IF j = 0 THEN None ELSE step(g[j - 1], rs[j])]
    BY <2>5
  <2> QED
    BY <2>6
<1> HIDE DEF latest
<1>5. 0 \in Good
  <2>1. latest[0] = None
    BY <1>1, <1>4
  <2>2. Upto(0) = {}
    OBVIOUS
  <2> QED
    BY <1>1, <2>1, <2>2 DEF RoutesFor, NewestOf
<1>6. ASSUME NEW i \in 1..n, i - 1 \in Good PROVE i \in Good
  <2> DEFINE r == rs[i]
             l == latest[i - 1]
             S == RoutesFor(x, Upto(i - 1))
  <2>1. RouteType(r) /\ i \in 0..n /\ i # 0
    BY <1>1, RouteTypes
  <2>2. latest[i] = step(l, r)
    BY <1>4, <2>1
  <2>3. NewestOf(l, S)
    BY <1>6
  <2>4. \A q \in S : RouteType(q)
    BY <1>1, RouteTypes DEF RoutesFor
  <2>5. RoutesFor(x, Upto(i)) = IF r.identity = x THEN S \cup {r} ELSE S
    <3>1. Upto(i) = Upto(i - 1) \cup {r}
      OBVIOUS
    <3> QED
      BY <3>1 DEF RoutesFor
  <2> HIDE DEF r, l, S
  <2> SUFFICES NewestOf(latest[i], RoutesFor(x, Upto(i)))
    BY <2>1
  <2> HIDE DEF Upto, Good
  <2>6. CASE r.identity # x
    BY <2>2, <2>3, <2>5, <2>6
  <2>7. CASE r.identity = x /\ l = None
    <3>1. S = {} /\ ~Newer(r, r)
      BY <2>1, <2>3, <2>7 DEF NewestOf, Newer, RouteType
    <3> QED
      BY <2>1, <2>2, <2>5, <2>7, <3>1 DEF NewestOf, RouteType
  <2>8. CASE r.identity = x /\ l # None
    <3>1. l \in S /\ RouteType(l) /\ \A q \in S : ~Newer(q, l)
      BY <2>3, <2>4, <2>8 DEF NewestOf
    <3>2. CASE Newer(r, l)
      <4>1. \A q \in S : ~Newer(q, r)
        BY <2>1, <2>4, <3>1, <3>2 DEF Newer, RouteType
      <4>2. ~Newer(r, r)
        BY <2>1 DEF Newer, RouteType
      <4> QED
        BY <2>1, <2>2, <2>5, <2>8, <3>2, <4>1, <4>2 DEF NewestOf, RouteType
    <3>3. CASE ~Newer(r, l)
      BY <2>1, <2>2, <2>5, <2>8, <3>1, <3>3 DEF NewestOf, RouteType
    <3> QED
      BY <3>2, <3>3
  <2> QED
    BY <2>1, <2>6, <2>7, <2>8
<1>7. Good = 0..n
  <2> HIDE DEF Good
  <2>1. Good \in SUBSET (0..n)
    BY DEF Good
  <2> QED
    BY <1>1, <1>5, <1>6, <2>1, Upwards
<1>8. NewestOf(latest[n], RoutesFor(x, Upto(n)))
  <2>1. n \in Good
    <3> HIDE DEF Good
    <3> QED
      BY <1>1, <1>7
  <2> QED
    BY <2>1
<1>9. Upto(n) = Range(rs)
  BY <1>1 DEF Range
<1> QED
  BY <1>2, <1>8, <1>9

-----------------------------------------------------------------------------
(* Events, in a log and in a store.                                        *)

Events == {Announcement(x) : x \in Ident} \cup {Route(r) : r \in Routes}

(* An event is known by its key, and a route event by its route.           *)
LEMMA EventFacts ==
  /\ \A e \in Events : e.kind = "route" => e.route \in Routes /\ e = Route(e.route)
  /\ \A r \in Routes : Route(r) \in Events /\ Route(r).kind = "route" /\ Route(r).route = r
  /\ \A x \in Ident : Announcement(x) \in Events /\ Announcement(x).kind = "announcement"
  /\ \A e, f \in Events : EventKey(e) = EventKey(f) => e = f
<1>1. \A e \in Events : e.kind = "route" => e.route \in Routes /\ e = Route(e.route)
  BY DEF Events, Announcement, Route
<1>2. \A r \in Routes : Route(r) \in Events /\ Route(r).kind = "route" /\ Route(r).route = r
  BY DEF Events, Route
<1>3. \A x \in Ident : Announcement(x) \in Events /\ Announcement(x).kind = "announcement"
  BY DEF Events, Announcement
<1>4. ASSUME NEW e \in Events, NEW f \in Events, EventKey(e) = EventKey(f)
      PROVE  e = f
  <2>1. e.id = f.id
    BY <1>4 DEF EventKey
  <2>2. /\ \/ \E x \in Ident : e = Announcement(x)
           \/ \E r \in Routes : e = Route(r)
        /\ \/ \E x \in Ident : f = Announcement(x)
           \/ \E r \in Routes : f = Route(r)
    BY DEF Events
  <2>3. /\ \A x : Announcement(x).id = <<"announcement", x>>
        /\ \A r : Route(r).id = <<"route", r>>
    BY DEF Announcement, Route
  <2> QED
    BY <2>1, <2>2, <2>3
<1> QED
  BY <1>1, <1>2, <1>3, <1>4

Distinct(s) == \A i, j \in DOMAIN s : s[i] = s[j] => i = j

(* The routes of x that are among the events of s.                         *)
Logged(x, s) == {r \in Routes : Route(r) \in Range(s) /\ r.identity = x}

(* More events, more routes.                                               *)
LEMMA LoggedGrows ==
  ASSUME NEW x, NEW s, NEW t, Range(s) \subseteq Range(t)
  PROVE  Logged(x, s) \subseteq Logged(x, t)
BY DEF Logged

(* matchRoutes and resolveRouteAnnouncement look through all of them.      *)
LEMMA RoutesInFacts ==
  ASSUME NEW x, NEW s \in Seq(Events)
  PROVE  /\ RoutesIn(s, x) \in Seq(Routes)
         /\ Range(RoutesIn(s, x)) = Logged(x, s)
         /\ Distinct(s) => /\ IsFiniteSet(Logged(x, s))
                           /\ Len(RoutesIn(s, x)) = Cardinality(Logged(x, s))
<1> DEFINE K == {i \in DOMAIN s : s[i].kind = "route" /\ s[i].route.identity = x}
           found == Kept(s, K)
           rs == [i \in DOMAIN found |-> found[i].route]
<1>1. RoutesIn(s, x) = rs
  BY DEF RoutesIn
<1>2. \A i \in DOMAIN s : s[i] \in Events
  OBVIOUS
<1>3. K \in SUBSET DOMAIN s
  OBVIOUS
<1>4. \A i \in K : s[i].route \in Logged(x, s)
  BY <1>2, EventFacts DEF Logged, Range
<1>5. \A r \in Logged(x, s) : \E i \in K : s[i].route = r
  <2> SUFFICES ASSUME NEW r \in Logged(x, s) PROVE \E i \in K : s[i].route = r
    OBVIOUS
  <2>1. PICK i \in DOMAIN s : s[i] = Route(r)
    BY DEF Logged, Range
  <2>2. r \in Routes /\ r.identity = x
    BY DEF Logged
  <2>3. s[i].kind = "route" /\ s[i].route = r
    BY <2>1, <2>2, EventFacts
  <2> QED
    BY <2>2, <2>3
<1>6. Distinct(s) => \A i, j \in K : s[i].route = s[j].route => i = j
  BY <1>2, EventFacts DEF Distinct
<1> HIDE DEF K
<1>7. /\ found \in Seq(Events) /\ Len(found) = Cardinality(K) /\ Cardinality(K) \in Nat
      /\ IsFiniteSet(K) /\ Range(found) = {s[i] : i \in K}
  BY <1>3, KeptRange
<1> HIDE DEF found
<1>8. DOMAIN found = 1..Len(found) /\ Len(found) \in Nat
  BY <1>7
<1>9. \A k \in DOMAIN found : \E i \in K : found[k] = s[i]
  BY <1>7 DEF Range
<1>10. \A i \in K : \E k \in DOMAIN found : found[k] = s[i]
  BY <1>7 DEF Range
<1>11. rs \in Seq(Routes) /\ Len(rs) = Len(found) /\ DOMAIN rs = DOMAIN found
  <2>1. \A k \in DOMAIN found : found[k].route \in Routes
    BY <1>4, <1>9 DEF Logged
  <2>2. rs \in [1..Len(found) -> Routes]
    BY <1>8, <2>1
  <2> QED
    BY <1>8, <2>2
<1>12. Range(rs) = Logged(x, s)
  <2>1. ASSUME NEW k \in DOMAIN rs PROVE rs[k] \in Logged(x, s)
    <3>1. k \in DOMAIN found /\ rs[k] = found[k].route
      BY <1>11
    <3>2. PICK i \in K : found[k] = s[i]
      BY <1>9, <3>1
    <3> HIDE DEF rs
    <3> QED
      BY <1>4, <3>1, <3>2
  <2>2. ASSUME NEW r \in Logged(x, s) PROVE \E k \in DOMAIN rs : rs[k] = r
    <3>1. PICK i \in K : s[i].route = r
      BY <1>5
    <3>2. PICK k \in DOMAIN found : found[k] = s[i]
      BY <1>10
    <3>3. rs[k] = found[k].route /\ k \in DOMAIN rs
      BY <1>11
    <3> HIDE DEF rs
    <3> QED
      BY <3>1, <3>2, <3>3
  <2> HIDE DEF rs
  <2> QED
    BY <2>1, <2>2 DEF Range
<1>13. ASSUME Distinct(s)
       PROVE  /\ IsFiniteSet(Logged(x, s))
              /\ Len(rs) = Cardinality(Logged(x, s))
  <2> DEFINE f == [i \in K |-> s[i].route]
             T == Logged(x, s)
  <2>1. f \in [K -> T] /\ \A i \in K : f[i] = s[i].route
    BY <1>4
  <2> HIDE DEF f, T
  <2>2. \A i, j \in K : f[i] = f[j] => i = j
    BY <1>6, <1>13, <2>1
  <2>3. f \in Injection(K, T)
    BY <2>1, <2>2 DEF Injection, IsInjective
  <2>4. f \in Surjection(K, T)
    BY <1>5, <2>1 DEF Surjection, T
  <2>5. IsFiniteSet(T) /\ (Cardinality(T) = Cardinality(K) <=> f \in Injection(K, T))
    BY <1>7, <2>4, FS_Surjection
  <2> QED
    BY <1>7, <1>11, <2>3, <2>5 DEF T
<1> HIDE DEF rs
<1> QED
  BY <1>1, <1>11, <1>12, <1>13

(* What resolves from a sequence of events is the newest route among them. *)
LEMMA Resolves ==
  ASSUME NEW x, NEW s \in Seq(Events)
  PROVE  NewestOf(Latest(x, RoutesIn(s, x)), Logged(x, s))
<1>1. RoutesIn(s, x) \in Seq(Routes) /\ Range(RoutesIn(s, x)) = Logged(x, s)
  BY RoutesInFacts
<1>2. RoutesFor(x, Logged(x, s)) = Logged(x, s)
  BY DEF RoutesFor, Logged
<1>3. NewestOf(Latest(x, RoutesIn(s, x)), RoutesFor(x, Range(RoutesIn(s, x))))
  BY <1>1, LatestNewest
<1> QED
  BY <1>1, <1>2, <1>3

-----------------------------------------------------------------------------
(* rememberEvent, upsert and hydrateEventStore keep every event.           *)

(* What is in a sequence that grows at its end.                            *)
LEMMA AppendRange ==
  ASSUME NEW S, NEW s \in Seq(S), NEW e \in S
  PROVE  Append(s, e) \in Seq(S) /\ Range(Append(s, e)) = Range(s) \cup {e}
<1> DEFINE t == Append(s, e)
<1>1. /\ Len(s) \in Nat /\ DOMAIN s = 1..Len(s)
      /\ t \in Seq(S) /\ DOMAIN t = 1..(Len(s) + 1)
      /\ \A i \in 1..Len(s) : t[i] = s[i]
      /\ t[Len(s) + 1] = e
  OBVIOUS
<1> HIDE DEF t
<1>2. DOMAIN t = DOMAIN s \cup {Len(s) + 1}
  BY <1>1
<1>3. Range(t) = Range(s) \cup {e}
  BY <1>1, <1>2 DEF Range
<1> QED
  BY <1>1, <1>3 DEF t

(* What is in two sequences, one after the other.                          *)
LEMMA ConcatRange ==
  \A S : \A s, t \in Seq(S) : Range(s \o t) = Range(s) \cup Range(t)
<1> SUFFICES ASSUME NEW S, NEW s \in Seq(S), NEW t \in Seq(S)
             PROVE  Range(s \o t) = Range(s) \cup Range(t)
  OBVIOUS
<1> DEFINE u == s \o t
           m == Len(s)
           n == Len(t)
<1>1. /\ m \in Nat /\ n \in Nat /\ DOMAIN s = 1..m /\ DOMAIN t = 1..n
      /\ u \in Seq(S) /\ DOMAIN u = 1..(m + n)
      /\ \A i \in 1..(m + n) : u[i] = IF i <= m THEN s[i] ELSE t[i - m]
  OBVIOUS
<1> HIDE DEF u, m, n
<1>2. ASSUME NEW i \in DOMAIN u PROVE u[i] \in Range(s) \cup Range(t)
  <2>1. CASE i <= m
    BY <1>1, <1>2, <2>1 DEF Range
  <2>2. CASE ~(i <= m)
    <3>1. i - m \in 1..n /\ u[i] = t[i - m]
      BY <1>1, <1>2, <2>2
    <3> QED
      BY <1>1, <3>1 DEF Range
  <2> QED
    BY <2>1, <2>2
<1>3. ASSUME NEW i \in DOMAIN s PROVE s[i] \in Range(u)
  <2>1. i \in 1..(m + n) /\ i <= m
    BY <1>1, <1>3
  <2> QED
    BY <1>1, <2>1 DEF Range
<1>4. ASSUME NEW i \in DOMAIN t PROVE t[i] \in Range(u)
  <2>1. i + m \in 1..(m + n) /\ ~(i + m <= m) /\ (i + m) - m = i
    BY <1>1, <1>4
  <2>2. u[i + m] = t[i]
    BY <1>1, <2>1
  <2> QED
    BY <1>1, <2>1, <2>2 DEF Range
<1>5. Range(u) = Range(s) \cup Range(t)
  BY <1>2, <1>3, <1>4 DEF Range
<1> QED
  BY <1>5 DEF u

(* rememberEvent adds an event that is new, and no event twice.            *)
LEMMA Remembered ==
  ASSUME NEW s \in Seq(Events), NEW e \in Events
  PROVE  /\ Remember(s, e) \in Seq(Events)
         /\ Range(Remember(s, e)) = Range(s) \cup {e}
         /\ Distinct(s) => Distinct(Remember(s, e))
<1>1. \A i \in DOMAIN s : s[i] \in Events
  OBVIOUS
<1>2. CASE HasKey(s, e)
  <2>1. PICK i \in DOMAIN s : EventKey(s[i]) = EventKey(e)
    BY <1>2 DEF HasKey
  <2>2. s[i] = e
    BY <1>1, <2>1, EventFacts
  <2> QED
    BY <1>2, <2>2 DEF Remember, Range
<1>3. CASE ~HasKey(s, e)
  <2>1. Remember(s, e) = Append(s, e)
    BY <1>3 DEF Remember
  <2>2. \A i \in DOMAIN s : s[i] # e
    BY <1>3 DEF HasKey
  <2>3. Distinct(s) => Distinct(Append(s, e))
    BY <2>2 DEF Distinct
  <2> QED
    BY <2>1, <2>3, AppendRange
<1> QED
  BY <1>2, <1>3

(* An upsert into the store loses no other event.                          *)
LEMMA Upserted ==
  ASSUME NEW s \in Seq(Events), NEW e \in Events
  PROVE  /\ Upsert(s, e) \in Seq(Events)
         /\ Range(Upsert(s, e)) = Range(s) \cup {e}
<1> DEFINE others == {i \in DOMAIN s : EventKey(s[i]) # EventKey(e)}
           K == {i \in others : s[i].createdAt <= e.createdAt}
           L == {i \in others : s[i].createdAt > e.createdAt}
           a == Kept(s, K)
           b == Kept(s, L)
<1>1. Upsert(s, e) = (a \o <<e>>) \o b
  BY DEF Upsert
<1>2. \A i \in DOMAIN s : s[i] \in Events
  OBVIOUS
<1>3. K \in SUBSET DOMAIN s /\ L \in SUBSET DOMAIN s
  OBVIOUS
<1>4. \A i \in DOMAIN s : i \in K \/ i \in L \/ s[i] = e
  <2> SUFFICES ASSUME NEW i \in DOMAIN s, s[i] # e PROVE i \in K \/ i \in L
    OBVIOUS
  <2>1. i \in others
    BY <1>2, EventFacts
  <2>2. s[i].createdAt \in Int /\ e.createdAt \in Int
    <3>1. \A f \in Events : f.createdAt \in Int
      BY RouteTypes DEF Events, Announcement, Route, RouteType
    <3> QED
      BY <1>2, <3>1
  <2> QED
    BY <2>1, <2>2
<1> HIDE DEF K, L
<1>5. /\ a \in Seq(Events) /\ Range(a) = {s[i] : i \in K}
      /\ b \in Seq(Events) /\ Range(b) = {s[i] : i \in L}
  BY <1>3, KeptRange
<1> HIDE DEF a, b
<1>6. a \in Seq(Events) /\ b \in Seq(Events)
  BY <1>5
<1>7. PICK d : d = <<e>>
  OBVIOUS
<1>8. d \in Seq(Events) /\ Range(d) = {e}
  BY <1>7 DEF Range
<1>9. PICK c : c = a \o d
  OBVIOUS
<1>10. c \in Seq(Events) /\ Range(c) = Range(a) \cup Range(d)
  BY <1>6, <1>8, <1>9, ConcatRange
<1>11. PICK u : u = c \o b
  OBVIOUS
<1>12. u \in Seq(Events) /\ Range(u) = Range(c) \cup Range(b)
  BY <1>6, <1>10, <1>11, ConcatRange
<1>13. Range(c) \cup Range(b) = Range(s) \cup {e}
  <2>1. Range(c) \cup Range(b) = {s[i] : i \in K} \cup {e} \cup {s[i] : i \in L}
    BY <1>5, <1>8, <1>10
  <2>2. Range(s) = {s[i] : i \in DOMAIN s}
    BY DEF Range
  <2> QED
    BY <1>3, <1>4, <2>1, <2>2
<1> QED
  BY <1>1, <1>7, <1>9, <1>11, <1>12, <1>13

(* A log that is filled from the store has its events, each once.          *)
LEMMA Hydrated ==
  ASSUME NEW s \in Seq(Events)
  PROVE  /\ Hydrate(s) \in Seq(Events)
         /\ Range(Hydrate(s)) = Range(s)
         /\ Distinct(Hydrate(s))
<1> DEFINE n == Len(s)
           V == Seq(Events)
           filled == CHOOSE f : f = [i \in 0..n |->
                         IF i = 0 THEN <<>> ELSE Remember(f[i - 1], s[i])]
           Upto(i) == {s[j] : j \in 1..i}
           Fills(l, i) == l \in Seq(Events) /\ Range(l) = Upto(i) /\ Distinct(l)
           Good == {i \in 0..n : Fills(filled[i], i)}
           F == [p \in V \X (1..n) |-> Remember(p[1], s[p[2]])]
<1>1. n \in Nat /\ DOMAIN s = 1..n /\ \A i \in 1..n : s[i] \in Events
  OBVIOUS
<1>2. Hydrate(s) = filled[n]
  BY DEF Hydrate
<1>3. \A l \in V, i \in 1..n : Remember(l, s[i]) \in V
  BY <1>1, Remembered
<1>4. filled = [i \in 0..n |-> IF i = 0 THEN <<>> ELSE Remember(filled[i - 1], s[i])]
  <2>1. <<>> \in V
    OBVIOUS
  <2> HIDE DEF V, n
  <2>2. F \in [V \X (1..n) -> V]
    BY <1>3
  <2>3. \A l \in V, i \in 1..n : F[<<l, i>>] = Remember(l, s[i])
    OBVIOUS
  <2> HIDE DEF F
  <2>4. PICK g \in [0..n -> V] : Runs(g, n, <<>>, F)
    BY <1>1, <2>1, <2>2, Loop
  <2>5. ASSUME NEW j \in 0..n
        PROVE  g[j] = IF j = 0 THEN <<>> ELSE Remember(g[j - 1], s[j])
    <3>1. CASE j = 0
      BY <2>4, <3>1 DEF Runs
    <3>2. CASE j # 0
      <4>1. j \in 1..n /\ j - 1 \in 0..n
        BY <1>1, <3>2
      <4> QED
        BY <2>3, <2>4, <3>2, <4>1 DEF Runs
    <3> QED
      BY <3>1, <3>2
  <2>6. g = [j \in 0..n |-> IF j = 0 THEN <<>> ELSE Remember(g[j - 1], s[j])]
    BY <2>5
  <2> QED
    BY <2>6
<1> HIDE DEF filled
<1>5. 0 \in Good
  <2>1. filled[0] = <<>>
    BY <1>1, <1>4
  <2>2. <<>> \in Seq(Events) /\ Range(<<>>) = {} /\ Distinct(<<>>)
    BY DEF Range, Distinct
  <2>3. Upto(0) = {}
    OBVIOUS
  <2>4. Fills(filled[0], 0)
    <3> HIDE DEF Upto
    <3> QED
      BY <2>1, <2>2, <2>3
  <2> HIDE DEF Fills
  <2> QED
    BY <1>1, <2>4
<1>6. ASSUME NEW i \in 1..n, i - 1 \in Good PROVE i \in Good
  <2> DEFINE l == filled[i - 1]
  <2>1. filled[i] = Remember(l, s[i]) /\ s[i] \in Events /\ i \in 0..n
    BY <1>1, <1>4
  <2>2. Fills(l, i - 1)
    BY <1>6
  <2>3. Upto(i) = Upto(i - 1) \cup {s[i]}
    OBVIOUS
  <2> HIDE DEF l, Upto
  <2>4. Fills(filled[i], i)
    BY <2>1, <2>2, <2>3, Remembered
  <2> QED
    BY <2>1, <2>4
<1>7. Good = 0..n
  <2> HIDE DEF Good
  <2>1. Good \in SUBSET (0..n)
    BY DEF Good
  <2> QED
    BY <1>1, <1>5, <1>6, <2>1, Upwards
<1>8. Fills(filled[n], n)
  <2>1. n \in Good
    <3> HIDE DEF Good
    <3> QED
      BY <1>1, <1>7
  <2> QED
    BY <2>1
<1>9. Upto(n) = Range(s)
  BY <1>1 DEF Range
<1> QED
  BY <1>2, <1>8, <1>9

(* What the aggregate of a set of reports is.                              *)
BestOf(agg, T) ==
    /\ \A i \in DOMAIN agg :
          agg[i] \in T /\ \A t \in T : Key(t) = Key(agg[i]) => Score(t) <= Score(agg[i])
    /\ \A t \in T : \E i \in DOMAIN agg : Key(agg[i]) = Key(t)
    /\ \A i, j \in DOMAIN agg : Key(agg[i]) = Key(agg[j]) => i = j

(* Scores compare.                                                         *)
LEMMA Scores == \A r \in Reports : Score(r) \in Int
BY DEF Reports, Score

(* One report more is aggregated.                                          *)
LEMMA Putted ==
  ASSUME NEW T \in SUBSET Reports, NEW agg \in Seq(Reports), NEW r \in Reports,
         BestOf(agg, T)
  PROVE  Put(agg, r) \in Seq(Reports) /\ BestOf(Put(agg, r), T \cup {r})
<1> DEFINE n == Len(agg)
           next == Put(agg, r)
<1>1. n \in Nat /\ DOMAIN agg = 1..n /\ \A i \in 1..n : agg[i] \in Reports
  OBVIOUS
<1>2. \A t \in T \cup {r} : Score(t) \in Int
  BY Scores
<1>3. CASE \E i \in DOMAIN agg : Key(agg[i]) = Key(r)
  <2> DEFINE entry(i) == IF Key(agg[i]) = Key(r) /\ Score(r) > Score(agg[i])
                         THEN r ELSE agg[i]
  <2>1. next = [i \in 1..n |-> entry(i)]
    BY <1>1, <1>3 DEF Put
  <2>2. \A i \in 1..n : entry(i) \in Reports
    BY <1>1
  <2> HIDE DEF entry, n, next
  <2>3. next \in [1..n -> Reports] /\ \A i \in 1..n : next[i] = entry(i)
    BY <2>1, <2>2
  <2>4. next \in Seq(Reports) /\ DOMAIN next = 1..n
    BY <1>1, <2>3
  <2>5. \A i \in 1..n : Key(next[i]) = Key(agg[i])
    BY <2>3 DEF entry
  <2>6. ASSUME NEW i \in 1..n
        PROVE  /\ next[i] \in T \cup {r}
               /\ \A t \in T \cup {r} : Key(t) = Key(next[i]) => Score(t) <= Score(next[i])
    <3>1. /\ agg[i] \in T /\ Score(agg[i]) \in Int /\ Score(r) \in Int
          /\ \A t \in T : Key(t) = Key(agg[i]) => Score(t) <= Score(agg[i])
      BY <1>1, <1>2 DEF BestOf
    <3>2. CASE Key(agg[i]) = Key(r) /\ Score(r) > Score(agg[i])
      <4>1. next[i] = r
        BY <2>3, <3>2 DEF entry
      <4> QED
        BY <1>2, <3>1, <3>2, <4>1
    <3>3. CASE ~(Key(agg[i]) = Key(r) /\ Score(r) > Score(agg[i]))
      <4>1. next[i] = agg[i]
        BY <2>3, <3>3 DEF entry
      <4> QED
        BY <1>2, <3>1, <3>3, <4>1
    <3> QED
      BY <3>2, <3>3
  <2>7. \A t \in T \cup {r} : \E i \in 1..n : Key(next[i]) = Key(t)
    BY <1>1, <1>3, <2>5 DEF BestOf
  <2>8. \A i, j \in 1..n : Key(next[i]) = Key(next[j]) => i = j
    BY <1>1, <2>5 DEF BestOf
  <2>9. BestOf(next, T \cup {r})
    BY <2>4, <2>6, <2>7, <2>8 DEF BestOf
  <2> QED
    BY <2>4, <2>9 DEF next
<1>4. CASE ~(\E i \in DOMAIN agg : Key(agg[i]) = Key(r))
  <2>1. next = Append(agg, r)
    BY <1>4 DEF Put
  <2>2. /\ next \in Seq(Reports) /\ DOMAIN next = 1..(n + 1)
        /\ \A i \in 1..n : next[i] = agg[i]
        /\ next[n + 1] = r
    BY <1>1, <2>1
  <2> HIDE DEF next, n
  <2>3. DOMAIN next = (1..n) \cup {n + 1} /\ n + 1 \notin 1..n
    BY <1>1, <2>2
  <2>4. \A t \in T : Key(t) # Key(r)
    BY <1>4 DEF BestOf
  <2>5. ASSUME NEW i \in DOMAIN next
        PROVE  /\ next[i] \in T \cup {r}
               /\ \A t \in T \cup {r} : Key(t) = Key(next[i]) => Score(t) <= Score(next[i])
    <3>1. CASE i \in 1..n
      <4>1. next[i] = agg[i] /\ agg[i] \in T /\ Key(agg[i]) # Key(r)
        BY <1>1, <2>2, <2>4, <3>1 DEF BestOf
      <4>2. \A t \in T : Key(t) = Key(agg[i]) => Score(t) <= Score(agg[i])
        BY <1>1, <3>1 DEF BestOf
      <4> QED
        BY <4>1, <4>2
    <3>2. CASE i = n + 1
      <4>1. next[i] = r /\ Score(r) <= Score(r)
        BY <1>2, <2>2, <3>2
      <4> QED
        BY <2>4, <4>1
    <3> QED
      BY <2>3, <3>1, <3>2
  <2>6. \A t \in T \cup {r} : \E i \in DOMAIN next : Key(next[i]) = Key(t)
    BY <1>1, <2>2, <2>3 DEF BestOf
  <2>7. ASSUME NEW i \in DOMAIN next, NEW j \in DOMAIN next, Key(next[i]) = Key(next[j])
        PROVE  i = j
    <3>1. CASE i \in 1..n /\ j \in 1..n
      BY <1>1, <2>2, <2>7, <3>1 DEF BestOf
    <3>2. CASE i \in 1..n /\ j = n + 1
      BY <1>1, <1>4, <2>2, <2>7, <3>2
    <3>3. CASE i = n + 1 /\ j \in 1..n
      BY <1>1, <1>4, <2>2, <2>7, <3>3
    <3> QED
      BY <2>3, <3>1, <3>2, <3>3
  <2>8. BestOf(next, T \cup {r})
    BY <2>5, <2>6, <2>7 DEF BestOf
  <2> QED
    BY <2>2, <2>8 DEF next
<1> QED
  BY <1>3, <1>4

(* The aggregate has one report per endpoint, and that scores best.        *)
LEMMA Aggregated ==
  ASSUME NEW s \in Seq(Reports)
  PROVE  Aggregate(s) \in Seq(Reports) /\ BestOf(Aggregate(s), Range(s))
<1> DEFINE n == Len(s)
           V == Seq(Reports)
           agg == CHOOSE f : f = [i \in 0..n |->
                      IF i = 0 THEN <<>> ELSE Put(f[i - 1], s[i])]
           Upto(i) == {s[j] : j \in 1..i}
           Fits(a, i) == a \in Seq(Reports) /\ BestOf(a, Upto(i))
           Good == {i \in 0..n : Fits(agg[i], i)}
           F == [p \in V \X (1..n) |-> Put(p[1], s[p[2]])]
<1>1. n \in Nat /\ DOMAIN s = 1..n /\ \A i \in 1..n : s[i] \in Reports
  OBVIOUS
<1>2. Aggregate(s) = agg[n]
  BY DEF Aggregate
<1>3. ASSUME NEW a \in V, NEW i \in 1..n PROVE Put(a, s[i]) \in V
  <2> DEFINE r == s[i]
  <2>1. r \in Reports /\ Len(a) \in Nat /\ DOMAIN a = 1..Len(a)
    BY <1>1
  <2> HIDE DEF r, n
  <2>2. CASE \E j \in DOMAIN a : Key(a[j]) = Key(r)
    <3>1. Put(a, r) = [j \in 1..Len(a) |->
              IF Key(a[j]) = Key(r) /\ Score(r) > Score(a[j]) THEN r ELSE a[j]]
      BY <2>1, <2>2 DEF Put
    <3>2. Put(a, r) \in [1..Len(a) -> Reports]
      BY <2>1, <3>1
    <3> QED
      BY <2>1, <3>2 DEF r
  <2>3. CASE ~(\E j \in DOMAIN a : Key(a[j]) = Key(r))
    BY <2>1, <2>3 DEF Put, r
  <2> QED
    BY <2>2, <2>3
<1>4. agg = [i \in 0..n |-> IF i = 0 THEN <<>> ELSE Put(agg[i - 1], s[i])]
  <2>1. <<>> \in V
    OBVIOUS
  <2> HIDE DEF V, n
  <2>2. F \in [V \X (1..n) -> V]
    BY <1>3
  <2>3. \A l \in V, i \in 1..n : F[<<l, i>>] = Put(l, s[i])
    OBVIOUS
  <2> HIDE DEF F
  <2>4. PICK g \in [0..n -> V] : Runs(g, n, <<>>, F)
    BY <1>1, <2>1, <2>2, Loop
  <2>5. ASSUME NEW j \in 0..n
        PROVE  g[j] = IF j = 0 THEN <<>> ELSE Put(g[j - 1], s[j])
    <3>1. CASE j = 0
      BY <2>4, <3>1 DEF Runs
    <3>2. CASE j # 0
      <4>1. j \in 1..n /\ j - 1 \in 0..n
        BY <1>1, <3>2
      <4> QED
        BY <2>3, <2>4, <3>2, <4>1 DEF Runs
    <3> QED
      BY <3>1, <3>2
  <2>6. g = [j \in 0..n |-> IF j = 0 THEN <<>> ELSE Put(g[j - 1], s[j])]
    BY <2>5
  <2> QED
    BY <2>6
<1> HIDE DEF agg
<1>5. 0 \in Good
  <2>1. agg[0] = <<>>
    BY <1>1, <1>4
  <2>2. <<>> \in Seq(Reports) /\ BestOf(<<>>, {})
    BY DEF BestOf
  <2>3. Upto(0) = {}
    OBVIOUS
  <2>4. Fits(agg[0], 0)
    <3> HIDE DEF Upto
    <3> QED
      BY <2>1, <2>2, <2>3
  <2> HIDE DEF Fits
  <2> QED
    BY <1>1, <2>4
<1>6. ASSUME NEW i \in 1..n, i - 1 \in Good PROVE i \in Good
  <2> DEFINE a == agg[i - 1]
  <2>1. agg[i] = Put(a, s[i]) /\ s[i] \in Reports /\ i \in 0..n
    BY <1>1, <1>4
  <2>2. Fits(a, i - 1) /\ Upto(i - 1) \in SUBSET Reports
    BY <1>1, <1>6
  <2>3. Upto(i) = Upto(i - 1) \cup {s[i]}
    OBVIOUS
  <2> HIDE DEF a, Upto
  <2>4. Fits(agg[i], i)
    BY <2>1, <2>2, <2>3, Putted
  <2> QED
    BY <2>1, <2>4
<1>7. Good = 0..n
  <2> HIDE DEF Good
  <2>1. Good \in SUBSET (0..n)
    BY DEF Good
  <2> QED
    BY <1>1, <1>5, <1>6, <2>1, Upwards
<1>8. Fits(agg[n], n)
  <2>1. n \in Good
    <3> HIDE DEF Good
    <3> QED
      BY <1>1, <1>7
  <2> QED
    BY <2>1
<1>9. Upto(n) = Range(s)
  BY <1>1 DEF Range
<1> QED
  BY <1>2, <1>8, <1>9
(* The entries of s, in another order, by falling score.                   *)
Falling(d, s) ==
    \E e \in [DOMAIN s -> DOMAIN s] :
        /\ \A k \in DOMAIN s : d[k] = s[e[k]]
        /\ \A i \in DOMAIN s : \E k \in DOMAIN s : e[k] = i
        /\ \A k, l \in DOMAIN s : k < l => Score(s[e[k]]) >= Score(s[e[l]])

(* The sort loses and repeats nothing.                                     *)
LEMMA SortedFacts ==
  ASSUME NEW s \in Seq(Reports)
  PROVE  /\ Sorted(s) \in Seq(Reports) /\ DOMAIN Sorted(s) = DOMAIN s
         /\ Falling(Sorted(s), s)
<1> DEFINE n == Len(s)
           K == 1..n
           R == {p \in K \X K : Before(s, p[1], p[2])}
           rank(i) == Cardinality({j \in K : Before(s, j, i)})
           e == [k \in K |-> CHOOSE i \in K : rank(i) = k - 1]
           d == Sorted(s)
<1>1. n \in Nat /\ DOMAIN s = K /\ \A i \in K : s[i] \in Reports /\ Score(s[i]) \in Int
  BY Scores
<1>2. IsFiniteSet(K) /\ Cardinality(K) = n
  BY <1>1, FS_Interval
<1>3. \A i, j \in K : <<i, j>> \in R <=> Before(s, i, j)
  OBVIOUS
<1>4. \A i \in K : i \in Nat
  BY <1>1
<1>5. /\ \A k \in K : \E i \in K : rank(i) = k - 1
      /\ \A i \in K : rank(i) + 1 \in K /\ rank(i) \in Int
      /\ \A i, j \in K : rank(i) = rank(j) => i = j
      /\ \A i, j \in K : Before(s, i, j) => rank(i) < rank(j)
  <2> HIDE DEF n
  <2>1. \A i \in K : <<i, i>> \notin R
    BY <1>1, <1>3, <1>4 DEF Before
  <2>2. \A i, j \in K : i # j => <<i, j>> \in R \/ <<j, i>> \in R
    BY <1>1, <1>3, <1>4 DEF Before
  <2>3. \A i, j, k \in K : <<i, j>> \in R /\ <<j, k>> \in R => <<i, k>> \in R
    BY <1>1, <1>3, <1>4 DEF Before
  <2>4. \A i \in K : {j \in K : <<j, i>> \in R} = {j \in K : Before(s, j, i)}
    BY <1>3
  <2> HIDE DEF R, K
  <2>5. /\ Cardinality(K) \in Nat
        /\ \A k \in 1..Cardinality(K) :
              \E i \in K : Cardinality({j \in K : <<j, i>> \in R}) = k - 1
        /\ \A i \in K : Cardinality({j \in K : <<j, i>> \in R}) + 1 \in 1..Cardinality(K)
        /\ \A i, l \in K : Cardinality({j \in K : <<j, i>> \in R}) =
                            Cardinality({j \in K : <<j, l>> \in R}) => i = l
        /\ \A i, l \in K : <<i, l>> \in R =>
              Cardinality({j \in K : <<j, i>> \in R}) <
              Cardinality({j \in K : <<j, l>> \in R})
    BY <1>2, <2>1, <2>2, <2>3, Ranked, Zenon
  <2>6. 1..Cardinality(K) = K
    BY <1>2 DEF K
  <2>7. \A k \in K : \E i \in K : rank(i) = k - 1
    BY <2>4, <2>5, <2>6
  <2>8. \A i \in K : rank(i) + 1 \in K
    BY <2>4, <2>5, <2>6
  <2>9. \A i, l \in K : rank(i) = rank(l) => i = l
    BY <2>4, <2>5
  <2>10. \A i, l \in K : Before(s, i, l) => rank(i) < rank(l)
    BY <1>3, <2>4, <2>5
  <2>11. ASSUME NEW i \in K PROVE rank(i) \in Int
    <3>1. {j \in K : Before(s, j, i)} \in SUBSET K
      OBVIOUS
    <3>2. IsFiniteSet({j \in K : Before(s, j, i)})
      BY <1>2, <3>1, FS_Subset
    <3>3. rank(i) \in Nat
      BY <3>2, FS_CardinalityType
    <3> QED
      BY <3>3
  <2> QED
    BY <2>7, <2>8, <2>9, <2>10, <2>11
<1>6. d = [k \in K |-> s[CHOOSE i \in K : rank(i) = k - 1]]
  BY <1>1 DEF Sorted
<1> HIDE DEF rank, d, R
<1>7. \A k \in K : e[k] \in K /\ rank(e[k]) = k - 1
  BY <1>5
<1>8. \A k \in K : d[k] = s[e[k]]
  BY <1>6
<1>9. e \in [K -> K]
  BY <1>7
<1> HIDE DEF e
<1>10. d \in Seq(Reports) /\ DOMAIN d = K
  <2>1. d \in [K -> Reports]
    BY <1>1, <1>6, <1>7, <1>8
  <2> QED
    BY <1>1, <2>1
<1>11. ASSUME NEW i \in K PROVE \E k \in K : e[k] = i
  <2>1. PICK k \in K : k = rank(i) + 1
    BY <1>5
  <2>2. rank(i) \in Int
    BY <1>5
  <2>3. rank(e[k]) = rank(i)
    BY <1>7, <2>1, <2>2
  <2> QED
    BY <1>5, <1>7, <2>3
<1>12. ASSUME NEW k \in K, NEW l \in K, k < l PROVE Score(s[e[k]]) >= Score(s[e[l]])
  <2>1. PICK i \in K, j \in K : i = e[k] /\ j = e[l]
    BY <1>7
  <2>2. rank(i) < rank(j)
    BY <1>4, <1>7, <1>12, <2>1
  <2>3. ~Before(s, j, i)
    <3>1. rank(i) \in Int /\ rank(j) \in Int
      BY <1>5
    <3>2. Before(s, j, i) => rank(j) < rank(i)
      BY <1>5
    <3> QED
      BY <2>2, <3>1, <3>2
  <2> QED
    BY <1>1, <2>1, <2>3 DEF Before
<1> HIDE DEF K
<1>13. Falling(d, s)
  BY <1>1, <1>8, <1>9, <1>11, <1>12 DEF Falling
<1> QED
  BY <1>1, <1>10, <1>13 DEF d
(* Endpoints, as they go into a route: the two that score best, and the    *)
(* relay, which is the only one that cannot be dialled.                    *)
EndpointOf(r) ==
    [transport |-> r.transport, ip |-> r.ip, port |-> r.port,
     confidence |-> Clamp(Score(r))]
Top(s) == IF Len(s) > 2 THEN 2 ELSE Len(s)

(* The endpoint that is made from a report.                                *)
LEMMA EndpointFacts ==
  ASSUME NEW r \in Reports
  PROVE  /\ EndpointOf(r) \in RouteEndpoints
         /\ EndpointOf(r).transport # "relay"
         /\ Key(EndpointOf(r)) = Key(r)
         /\ EndpointOf(r).confidence = Clamp(Score(r))
<1>1. Score(r) \in Int
  BY Scores
<1>2. Clamp(Score(r)) \in Int
  BY <1>1 DEF Clamp
<1>3. r.transport \in Transports /\ r.transport # "relay" /\ r.ip \in STRING /\ r.port \in Nat
  BY DEF Reports, Transports
<1> QED
  BY <1>2, <1>3 DEF EndpointOf, RouteEndpoints, Key

(* The endpoints of a route.                                               *)
LEMMA EndpointsFacts ==
  ASSUME NEW s \in Seq(Reports), NEW ranked, ranked = Sorted(Aggregate(s))
  PROVE  /\ Endpoints(s) \in Seq(RouteEndpoints)
         /\ Dialable([endpoints |-> Endpoints(s)]) =
              {EndpointOf(ranked[i]) : i \in 1..Top(ranked)}
         /\ Top(ranked) \in 0..2 /\ Top(ranked) <= Len(ranked)
         /\ ranked \in Seq(Reports)
<1> DEFINE m == Top(ranked)
           best == SubSeq(ranked, 1, m)
           named == [i \in DOMAIN best |-> EndpointOf(best[i])]
           all == Endpoints(s)
<1>1. ranked \in Seq(Reports)
  BY Aggregated, SortedFacts
<1>2. /\ Len(ranked) \in Nat /\ DOMAIN ranked = 1..Len(ranked)
      /\ \A i \in 1..Len(ranked) : ranked[i] \in Reports
      /\ m \in 0..2 /\ m <= Len(ranked)
  <2>1. /\ Len(ranked) \in Nat /\ DOMAIN ranked = 1..Len(ranked)
        /\ \A i \in 1..Len(ranked) : ranked[i] \in Reports
    BY <1>1
  <2> QED
    BY <2>1 DEF Top
<1>3. all = Append(named, Relay)
  BY DEF Endpoints, EndpointOf, Top
<1> HIDE DEF m, all
<1>4. DOMAIN best = 1..m /\ \A i \in 1..m : best[i] = ranked[i] /\ best[i] \in Reports
  BY <1>1, <1>2
<1> HIDE DEF best
<1>5. DOMAIN named = 1..m /\ \A i \in 1..m : named[i] = EndpointOf(ranked[i])
  BY <1>4
<1>6. \A i \in 1..m : named[i] \in RouteEndpoints /\ named[i].transport # "relay"
  BY <1>4, <1>5, EndpointFacts
<1>7. named \in Seq(RouteEndpoints) /\ Range(named) = {EndpointOf(ranked[i]) : i \in 1..m}
  <2>1. named \in [1..m -> RouteEndpoints]
    BY <1>4, <1>5, <1>6
  <2>2. named \in Seq(RouteEndpoints)
    BY <1>2, <2>1
  <2> HIDE DEF named
  <2> QED
    BY <1>5, <2>2 DEF Range
<1>8. Relay \in RouteEndpoints /\ Relay.transport = "relay"
  BY DEF Relay, RouteEndpoints
<1> HIDE DEF named
<1>9. all \in Seq(RouteEndpoints) /\ Range(all) = Range(named) \cup {Relay}
  BY <1>3, <1>7, <1>8, AppendRange
<1>10. Dialable([endpoints |-> all]) = {t \in Range(all) : t.transport # "relay"}
  BY DEF Dialable, Targets
<1>11. \A t \in Range(named) : t.transport # "relay"
  BY <1>5, <1>6 DEF Range
<1>12. Dialable([endpoints |-> all]) = Range(named)
  BY <1>8, <1>9, <1>10, <1>11
<1> QED
  BY <1>1, <1>2, <1>7, <1>9, <1>12 DEF all, m

(* buildRouteAnnouncement yields a route.                                  *)
LEMMA RouteBuilt ==
  ASSUME NEW x \in Ident, NEW s \in Seq(Reports), NEW sequence \in Nat, NEW now \in Int
  PROVE  BuildRoute(x, s, sequence, now) \in Routes
<1>1. About(x, s) \in Seq(Reports)
  BY KeptRange DEF About
<1>2. Endpoints(About(x, s)) \in Seq(RouteEndpoints)
  BY <1>1, EndpointsFacts
<1>3. EstimateNatType(s) \in {"stable-public", "port-changing", "symmetric-nat",
                               "cgnat", "unknown"}
  BY DEF EstimateNatType
<1> HIDE DEF RouteEndpoints
<1> QED
  BY <1>2, <1>3 DEF BuildRoute, Routes
(* What RouteNamesBest says of the reports s about x.                      *)
NamesBest(x, s) ==
    LET own == {r \in Range(s) : r.subject = x}
        scores(k) == {Score(s[i]) : i \in {j \in DOMAIN s : Key(s[j]) = k /\ s[j].subject = x}}
        best(r) == CHOOSE v \in scores(Key(r)) : \A t \in scores(Key(r)) : t <= v
        named == Dialable([endpoints |-> Endpoints(About(x, s))])
        in(r) == \E e \in named : Key(e) = Key(r)
    IN /\ Cardinality(named) <= 2
       /\ \A r \in own : \A t \in own : in(r) /\ ~in(t) => best(r) >= best(t)
       /\ \A r \in own : in(r) => \E e \in named :
              Key(e) = Key(r) /\ e.confidence = Clamp(best(r))

(* The endpoints of x are the best that the reports of x say.              *)
LEMMA NamedBest ==
  ASSUME NEW x, NEW s \in Seq(Reports)
  PROVE  NamesBest(x, s)
<1> DEFINE own == {r \in Range(s) : r.subject = x}
           scores(k) == {Score(s[i]) : i \in
                            {j \in DOMAIN s : Key(s[j]) = k /\ s[j].subject = x}}
           best(r) == CHOOSE v \in scores(Key(r)) : \A t \in scores(Key(r)) : t <= v
           about == About(x, s)
           agg == Aggregate(about)
           ranked == Sorted(agg)
           m == Top(ranked)
           named == Dialable([endpoints |-> Endpoints(about)])
           in(r) == \E e \in named : Key(e) = Key(r)
<1>1. about \in Seq(Reports) /\ Range(about) = own
  <2> DEFINE K == {i \in DOMAIN s : s[i].subject = x}
  <2>1. about = Kept(s, K)
    BY DEF About
  <2>2. {s[i] : i \in K} = own
    BY DEF Range
  <2>3. K \in SUBSET DOMAIN s
    OBVIOUS
  <2> HIDE DEF K, about, own
  <2>4. Kept(s, K) \in Seq(Reports) /\ Range(Kept(s, K)) = {s[i] : i \in K}
    BY <2>3, KeptRange
  <2> QED
    BY <2>1, <2>2, <2>4
<1>2. own \subseteq Reports
  <2>1. \A i \in DOMAIN s : s[i] \in Reports
    OBVIOUS
  <2> QED
    BY <2>1 DEF Range
<1>3. \A k : scores(k) = {Score(r) : r \in {t \in own : Key(t) = k}}
  BY DEF Range
<1> HIDE DEF own, scores, about
<1>4. agg \in Seq(Reports) /\ BestOf(agg, own)
  BY <1>1, Aggregated
<1> HIDE DEF agg
<1>5. ranked \in Seq(Reports) /\ DOMAIN ranked = DOMAIN agg /\ Falling(ranked, agg)
  BY <1>4, SortedFacts
<1>6. /\ named = {EndpointOf(ranked[i]) : i \in 1..m}
      /\ m \in 0..2 /\ m <= Len(ranked)
  BY <1>1, EndpointsFacts DEF agg
<1> HIDE DEF ranked, named, m
<1>7. PICK e \in [DOMAIN agg -> DOMAIN agg] :
          /\ \A k \in DOMAIN agg : ranked[k] = agg[e[k]]
          /\ \A i \in DOMAIN agg : \E k \in DOMAIN agg : e[k] = i
          /\ \A k, l \in DOMAIN agg : k < l => Score(agg[e[k]]) >= Score(agg[e[l]])
  BY <1>5 DEF Falling
<1>8. DOMAIN agg = 1..Len(ranked) /\ Len(ranked) \in Nat /\ m \in Nat
      /\ \A k \in DOMAIN agg : ranked[k] \in Reports
  <2>1. Len(ranked) \in Nat /\ DOMAIN ranked = 1..Len(ranked)
        /\ \A k \in DOMAIN ranked : ranked[k] \in Reports
    BY <1>5
  <2> QED
    BY <1>5, <1>6, <2>1
(* Of the reports of a key one is ranked, and it has the best score.       *)
<1>9. ASSUME NEW r \in own
      PROVE  \E k \in DOMAIN agg : Key(ranked[k]) = Key(r) /\ best(r) = Score(ranked[k])
  <2>1. PICK i \in DOMAIN agg : Key(agg[i]) = Key(r)
    BY <1>4 DEF BestOf
  <2>2. PICK k \in DOMAIN agg : e[k] = i
    BY <1>7
  <2>3. ranked[k] = agg[i]
    BY <1>7, <2>2
  <2>4. /\ agg[i] \in own
        /\ \A t \in own : Key(t) = Key(agg[i]) => Score(t) <= Score(agg[i])
    BY <1>4 DEF BestOf
  <2>5. Score(agg[i]) \in scores(Key(r)) /\ \A t \in scores(Key(r)) : t <= Score(agg[i])
    BY <1>3, <2>1, <2>4
  <2>6. best(r) \in scores(Key(r)) /\ \A t \in scores(Key(r)) : t <= best(r)
    BY <2>5
  <2>7. \A v \in scores(Key(r)) : v \in Int
    BY <1>2, <1>3, Scores
  <2> HIDE DEF best
  <2>8. best(r) <= Score(agg[i]) /\ Score(agg[i]) <= best(r)
    BY <2>5, <2>6
  <2>9. best(r) \in Int /\ Score(agg[i]) \in Int
    BY <2>5, <2>6, <2>7
  <2>10. best(r) = Score(agg[i])
    BY <2>8, <2>9
  <2> QED
    BY <2>1, <2>3, <2>10
<1> HIDE DEF best
<1>10. \A k \in DOMAIN agg :
          /\ EndpointOf(ranked[k]).confidence = Clamp(Score(ranked[k]))
          /\ Key(EndpointOf(ranked[k])) = Key(ranked[k])
  BY <1>8, EndpointFacts
<1>11. \A k \in 1..m : k \in DOMAIN agg
  BY <1>6, <1>8
<1>12. \A k, l \in DOMAIN agg : Key(ranked[k]) = Key(ranked[l]) => ranked[k] = ranked[l]
  <2> SUFFICES ASSUME NEW k \in DOMAIN agg, NEW l \in DOMAIN agg,
                      Key(ranked[k]) = Key(ranked[l])
               PROVE  ranked[k] = ranked[l]
    OBVIOUS
  <2>1. e[k] \in DOMAIN agg /\ e[l] \in DOMAIN agg
    OBVIOUS
  <2>2. ranked[k] = agg[e[k]] /\ ranked[l] = agg[e[l]]
    BY <1>7
  <2>3. e[k] = e[l]
    BY <1>4, <2>1, <2>2 DEF BestOf
  <2> QED
    BY <2>2, <2>3
<1>13. Cardinality(named) <= 2
  <2> DEFINE f == [i \in 1..m |-> EndpointOf(ranked[i])]
  <2>1. f \in Surjection(1..m, named)
    BY <1>6 DEF Surjection
  <2>2. IsFiniteSet(1..m) /\ Cardinality(1..m) = m
    <3>1. m \in Nat
      BY <1>8
    <3> QED
      BY <3>1, FS_Interval
  <2> HIDE DEF f
  <2>3. IsFiniteSet(named) /\ Cardinality(named) <= m
    BY <2>1, <2>2, FS_Surjection
  <2>4. Cardinality(named) \in Nat
    BY <2>3, FS_CardinalityType
  <2> QED
    BY <1>6, <2>3, <2>4
<1>14. ASSUME NEW r \in own, NEW t \in own, in(r), ~in(t) PROVE best(r) >= best(t)
  <2>1. PICK k \in 1..m : Key(EndpointOf(ranked[k])) = Key(r)
    BY <1>6, <1>14
  <2>2. k \in DOMAIN agg /\ Key(ranked[k]) = Key(r)
    BY <1>10, <1>11, <2>1
  <2>3. PICK i \in DOMAIN agg : Key(ranked[i]) = Key(r) /\ best(r) = Score(ranked[i])
    BY <1>9
  <2>4. PICK l \in DOMAIN agg : Key(ranked[l]) = Key(t) /\ best(t) = Score(ranked[l])
    BY <1>9
  <2>5. ranked[i] = ranked[k]
    BY <1>12, <2>2, <2>3
  <2>6. ~(l \in 1..m)
    BY <1>6, <1>10, <1>14, <2>4
  <2>7. k < l
    BY <1>6, <1>8, <2>1, <2>4, <2>6
  <2>8. Score(ranked[k]) >= Score(ranked[l])
    BY <1>7, <2>2, <2>4, <2>7
  <2> QED
    BY <2>3, <2>4, <2>5, <2>8
<1>15. ASSUME NEW r \in own, in(r)
       PROVE  \E d \in named : Key(d) = Key(r) /\ d.confidence = Clamp(best(r))
  <2>1. PICK k \in 1..m : Key(EndpointOf(ranked[k])) = Key(r)
    BY <1>6, <1>15
  <2>2. k \in DOMAIN agg /\ Key(ranked[k]) = Key(r)
    BY <1>10, <1>11, <2>1
  <2>3. PICK i \in DOMAIN agg : Key(ranked[i]) = Key(r) /\ best(r) = Score(ranked[i])
    BY <1>9
  <2>4. ranked[i] = ranked[k]
    BY <1>12, <2>2, <2>3
  <2>5. EndpointOf(ranked[k]).confidence = Clamp(best(r))
    BY <1>10, <2>2, <2>3, <2>4
  <2>6. EndpointOf(ranked[k]) \in named
    BY <1>6
  <2> QED
    BY <2>1, <2>5, <2>6
<1> QED
  BY <1>13, <1>14, <1>15 DEF NamesBest, own, scores, best, named, about
-----------------------------------------------------------------------------
(* The state.                                                              *)

Requests == [kind : {"request"}, request : 1..MaxSearches, identity : Ident]
Messages == Requests \cup Responses \cup {Route(r) : r \in Routes}
Results ==
    [identity : Ident \cup {None}, from : Node \cup {None}, route : Routes \cup {None}]
Logs == [Node -> Seq(Events)]
Channels == [Node -> [Node -> Seq(Messages)]]

TypeOK ==
    /\ log \in Logs /\ store \in Logs
    /\ reports \in [Publisher -> Seq(Reports)]
    /\ waiting \in [Seeker -> Searches \cup {None}]
    /\ answers \in [Seeker -> [1..MaxSearches -> Responses \cup {None}]]
    /\ result \in [Seeker -> Results]
    /\ held \in [Seeker -> [Node -> Routes \cup {None}]]
    /\ observed \in Nat /\ routes \in Nat /\ lost \in Nat /\ restarts \in Nat
    /\ searches \in 0..MaxSearches
    /\ links \in SUBSET Overlay
    /\ chan \in Channels

(* The messages that are under way.                                        *)
Within(ch) == {m \in Messages : \E a, b \in Node : m \in Range(ch[a][b])}

(* A message is what its kind says.                                        *)
LEMMA MessageKinds ==
  ASSUME NEW m \in Messages
  PROVE  /\ m.kind = "request" <=> m \in Requests
         /\ m.kind = "response" <=> m \in Responses
         /\ m.kind = "route" <=> m \in {Route(r) : r \in Routes}
         /\ m.kind \in {"request", "response", "route"}
         /\ m.kind = "route" => m \in Events /\ m.route \in Routes /\ m = Route(m.route)
<1>1. CASE m \in Requests
  <2>1. m.kind = "request" /\ m \notin Responses
    BY <1>1 DEF Requests, Responses
  <2> QED
    BY <1>1, <2>1 DEF Route
<1>2. CASE m \in Responses
  <2>1. m.kind = "response" /\ m \notin Requests
    BY <1>2 DEF Requests, Responses
  <2> QED
    BY <1>2, <2>1 DEF Route
<1>3. CASE m \in {Route(r) : r \in Routes}
  <2>1. m.kind = "route" /\ m \notin Requests /\ m \notin Responses
    BY <1>3 DEF Requests, Responses, Route
  <2>2. m \in Events /\ m.route \in Routes /\ m = Route(m.route)
    BY <1>3, EventFacts DEF Events
  <2> QED
    BY <1>3, <2>1, <2>2
<1> QED
  BY <1>1, <1>2, <1>3 DEF Messages

(* broadcast adds nothing but what is sent.                                *)
LEMMA SentFacts ==
  ASSUME NEW ch \in Channels, NEW n \in Node, NEW P, NEW m \in Messages
  PROVE  /\ SentTo(ch, n, P, m) \in Channels
         /\ Within(SentTo(ch, n, P, m)) \subseteq Within(ch) \cup {m}
<1> DEFINE next == SentTo(ch, n, P, m)
<1>1. \A a, b \in Node : ch[a][b] \in Seq(Messages)
  BY DEF Channels
<1>2. /\ next = [ch EXCEPT ![n] = [p \in Node |->
              IF p \in P THEN Append(ch[n][p], m) ELSE ch[n][p]]]
  BY DEF SentTo
<1>3. \A p \in Node : Append(ch[n][p], m) \in Seq(Messages)
  BY <1>1
<1>4. next \in Channels
  BY <1>1, <1>2, <1>3 DEF Channels
<1> HIDE DEF next
<1>5. ASSUME NEW a \in Node, NEW b \in Node
      PROVE  Range(next[a][b]) \subseteq Range(ch[a][b]) \cup {m}
  <2>1. next[a][b] = IF a = n /\ b \in P THEN Append(ch[a][b], m) ELSE ch[a][b]
    BY <1>2 DEF Channels
  <2>2. Range(Append(ch[a][b], m)) = Range(ch[a][b]) \cup {m}
    BY <1>1, AppendRange
  <2> QED
    BY <2>1, <2>2
<1>6. Within(next) \subseteq Within(ch) \cup {m}
  BY <1>5 DEF Within
<1> QED
  BY <1>4, <1>6 DEF next

(* A handler takes the first message of a connection.                      *)
LEMMA TakenFacts ==
  ASSUME chan \in Channels, NEW n \in Node, NEW p \in Node, chan[p][n] # <<>>
  PROVE  /\ Head(chan[p][n]) \in Messages /\ Head(chan[p][n]) \in Within(chan)
         /\ Taken(n, p) \in Channels
         /\ Within(Taken(n, p)) \subseteq Within(chan)
<1> DEFINE c == chan[p][n]
           next == Taken(n, p)
<1>1. \A a, b \in Node : chan[a][b] \in Seq(Messages)
  BY DEF Channels
<1>2. c \in Seq(Messages) /\ c # <<>>
  BY <1>1
<1>3. next = [chan EXCEPT ![p][n] = Tail(c)]
  BY DEF Taken
<1> HIDE DEF c
<1>4. /\ Head(c) \in Messages /\ Tail(c) \in Seq(Messages)
      /\ Head(c) \in Range(c) /\ Range(Tail(c)) \subseteq Range(c)
  <2>1. /\ Len(c) \in Nat \ {0} /\ DOMAIN c = 1..Len(c) /\ Head(c) = c[1]
        /\ Tail(c) \in Seq(Messages) /\ Len(Tail(c)) = Len(c) - 1
        /\ DOMAIN Tail(c) = 1..(Len(c) - 1)
        /\ \A i \in 1..(Len(c) - 1) : Tail(c)[i] = c[i + 1]
    BY <1>2
  <2>2. 1 \in DOMAIN c /\ c[1] \in Messages
    BY <1>2, <2>1
  <2>3. ASSUME NEW i \in DOMAIN Tail(c) PROVE Tail(c)[i] \in Range(c)
    <3>1. i + 1 \in DOMAIN c /\ Tail(c)[i] = c[i + 1]
      BY <2>1
    <3> QED
      BY <3>1 DEF Range
  <2> QED
    BY <2>1, <2>2, <2>3 DEF Range
<1>5. next \in Channels
  BY <1>1, <1>3, <1>4 DEF Channels
<1>6. ASSUME NEW a \in Node, NEW b \in Node
      PROVE  next[a][b] = IF a = p /\ b = n THEN Tail(c) ELSE chan[a][b]
  BY <1>3 DEF Channels
<1> HIDE DEF next
<1>7. \A a, b \in Node : Range(next[a][b]) \subseteq Range(chan[a][b])
  BY <1>4, <1>6 DEF c
<1>8. Within(next) \subseteq Within(chan)
  BY <1>7 DEF Within
<1>9. Head(c) \in Within(chan)
  BY <1>4 DEF Within, c
<1> QED
  BY <1>4, <1>5, <1>8, <1>9 DEF next, c

(* What is left of the channels when connections close.                    *)
LEMMA ClearedFacts ==
  ASSUME NEW ch \in Channels, NEW Z, NEW next,
         next = [a \in Node |-> [b \in Node |->
                    IF <<a, b>> \in Z THEN <<>> ELSE ch[a][b]]]
  PROVE  next \in Channels /\ Within(next) \subseteq Within(ch)
<1>1. \A a, b \in Node : ch[a][b] \in Seq(Messages)
  BY DEF Channels
<1>2. <<>> \in Seq(Messages) /\ Range(<<>>) = {}
  BY DEF Range
<1>3. next \in Channels
  BY <1>1, <1>2 DEF Channels
<1>4. \A a, b \in Node : next[a][b] = IF <<a, b>> \in Z THEN <<>> ELSE ch[a][b]
  OBVIOUS
<1>5. \A a, b \in Node : Range(next[a][b]) \subseteq Range(ch[a][b])
  BY <1>2, <1>4
<1> QED
  BY <1>3, <1>5 DEF Within
(* What a node resolves and answers.                                       *)
LEMMA AnswerTypes ==
  ASSUME TypeOK, NEW n \in Node, NEW x \in Ident
  PROVE  /\ Resolved(n, x) \in Routes \cup {None}
         /\ NewestOf(Resolved(n, x), Logged(x, store[n]))
         /\ RoutesOf(n, x) \in Seq(Routes)
         /\ \A request \in 1..MaxSearches :
               /\ Response(n, request, x) \in Responses
               /\ Request(n, request, x) \in Requests
<1>1. log[n] \in Seq(Events) /\ store[n] \in Seq(Events)
  BY DEF TypeOK, Logs
<1>2. NewestOf(Resolved(n, x), Logged(x, store[n]))
  BY <1>1, Resolves DEF Resolved
<1>3. Resolved(n, x) \in Routes \cup {None}
  BY <1>2 DEF NewestOf, Logged
<1>4. RoutesOf(n, x) \in Seq(Routes)
  BY <1>1, RoutesInFacts DEF RoutesOf
<1>5. MatchRoutes(n, x) \in Seq(Routes)
  <2> DEFINE found == RoutesOf(n, x)
             m == IF Len(found) > Limit THEN Limit ELSE Len(found)
  <2>1. found \in Seq(Routes) /\ Len(found) \in Nat /\ Limit \in Nat
    BY <1>4, SearchAssumption
  <2> HIDE DEF found
  <2>2. m \in 0..Len(found)
    BY <2>1
  <2> HIDE DEF m
  <2>3. SubSeq(found, 1, m) \in Seq(Routes)
    BY <2>1, <2>2
  <2> QED
    BY <2>3 DEF MatchRoutes, found, m
<1>6. \A request \in 1..MaxSearches : Response(n, request, x) \in Responses
  BY <1>5 DEF Response, Responses
<1>7. \A request \in 1..MaxSearches : Request(n, request, x) \in Requests
  BY DEF Request, Requests
<1> QED
  BY <1>2, <1>3, <1>4, <1>6, <1>7

(* recordEvent adds an event to the log and to the store.                  *)
Recorded(n, e) ==
    /\ log' \in Logs /\ store' \in Logs
    /\ Range(log'[n]) = Range(log[n]) \cup {e}
    /\ Range(store'[n]) = Range(store[n]) \cup {e}
    /\ Distinct(log[n]) => Distinct(log'[n])
    /\ \A q \in Node : q # n => log'[q] = log[q] /\ store'[q] = store[q]

LEMMA RecordFacts ==
  ASSUME log \in Logs, store \in Logs, NEW n \in Node, NEW e \in Events, Record(n, e)
  PROVE  Recorded(n, e)
<1>1. log[n] \in Seq(Events) /\ store[n] \in Seq(Events)
  BY DEF Logs
<1>2. PICK l : l = Remember(log[n], e)
  OBVIOUS
<1>3. PICK s : s = Upsert(store[n], e)
  OBVIOUS
<1>4. /\ l \in Seq(Events) /\ Range(l) = Range(log[n]) \cup {e}
      /\ Distinct(log[n]) => Distinct(l)
  BY <1>1, <1>2, Remembered
<1>5. s \in Seq(Events) /\ Range(s) = Range(store[n]) \cup {e}
  BY <1>1, <1>3, Upserted
<1>6. log' = [log EXCEPT ![n] = l] /\ store' = [store EXCEPT ![n] = s]
  BY <1>2, <1>3 DEF Record
<1>7. /\ log' \in Logs /\ store' \in Logs
      /\ log'[n] = l /\ store'[n] = s
      /\ \A q \in Node : q # n => log'[q] = log[q] /\ store'[q] = store[q]
  BY <1>4, <1>5, <1>6 DEF Logs
<1> QED
  BY <1>4, <1>5, <1>7 DEF Recorded

(* A restart fills the log with what the store has.                        *)
Refilled(n) ==
    /\ log' \in Logs /\ store' = store
    /\ Range(log'[n]) = Range(store[n]) /\ Distinct(log'[n])
    /\ \A q \in Node : q # n => log'[q] = log[q]

LEMMA RestartFacts ==
  ASSUME log \in Logs, store \in Logs, NEW n \in Node, Restart(n)
  PROVE  Refilled(n)
<1>1. store[n] \in Seq(Events)
  BY DEF Logs
<1>2. PICK l : l = Hydrate(store[n])
  OBVIOUS
<1>3. l \in Seq(Events) /\ Range(l) = Range(store[n]) /\ Distinct(l)
  BY <1>1, <1>2, Hydrated
<1>4. log' = [log EXCEPT ![n] = l] /\ store' = store
  BY <1>2 DEF Restart
<1> QED
  BY <1>3, <1>4 DEF Logs, Refilled

(* publishRouteAnnouncement builds a route that is newer than the last.    *)
Published(x, r) ==
    /\ r \in Routes /\ r.identity = x /\ r.observedAt = routes'
    /\ Record(Owner[x], Route(r))
    /\ chan' = SentTo(chan, Owner[x], Peers(Owner[x]), Route(r))

LEMMA PublishFacts ==
  ASSUME TypeOK, NEW x \in Publisher, Publish(x)
  PROVE  \E r : Published(x, r)
<1> DEFINE last == Resolved(Owner[x], x)
           sequence == IF last = None THEN 1 ELSE last.sequence + 1
           r == BuildRoute(x, reports[x], sequence, routes')
<1>1. x \in Ident /\ Owner[x] \in Node
  BY SearchAssumption
<1>2. last \in Routes \cup {None}
  BY <1>1, AnswerTypes
<1>3. sequence \in Nat
  <2>1. last # None => last.sequence \in Nat
    BY <1>2, RouteTypes DEF RouteType
  <2> HIDE DEF last
  <2> QED
    BY <2>1
<1>4. reports[x] \in Seq(Reports) /\ routes' \in Int
  BY DEF TypeOK, Publish
<1>5. /\ Record(Owner[x], Route(r))
      /\ chan' = SentTo(chan, Owner[x], Peers(Owner[x]), Route(r))
  BY DEF Publish
<1> HIDE DEF last, sequence
<1>6. r \in Routes
  BY <1>1, <1>3, <1>4, RouteBuilt
<1>7. r.identity = x /\ r.observedAt = routes'
  BY DEF BuildRoute
<1> HIDE DEF r
<1> QED
  BY <1>5, <1>6, <1>7 DEF Published
(* A connection that closes drops what is under way on it.                 *)
LEMMA ClosingFlow ==
  ASSUME chan \in Channels,
         (\E n \in Node : Restart(n)) \/ (\E l \in Overlay : Lose(l))
  PROVE  chan' \in Channels /\ Within(chan') \subseteq Within(chan)
<1>1. ASSUME NEW n \in Node, Restart(n) PROVE chan' \in Channels /\ Within(chan') \subseteq Within(chan)
  <2> DEFINE Z == {z \in Node \X Node : n \in {z[1], z[2]}}
  <2>1. chan' = [a \in Node |-> [b \in Node |-> IF n \in {a, b} THEN <<>> ELSE chan[a][b]]]
    BY <1>1 DEF Restart
  <2>2. \A a, b \in Node : n \in {a, b} <=> <<a, b>> \in Z
    OBVIOUS
  <2> HIDE DEF Z
  <2>3. chan' = [a \in Node |-> [b \in Node |->
                    IF <<a, b>> \in Z THEN <<>> ELSE chan[a][b]]]
    BY <2>1, <2>2
  <2> QED
    BY <2>3, ClearedFacts
<1>2. ASSUME NEW l \in Overlay, Lose(l) PROVE chan' \in Channels /\ Within(chan') \subseteq Within(chan)
  <2> DEFINE Z == {z \in Node \X Node : l = {z[1], z[2]}}
  <2>1. chan' = [a \in Node |-> [b \in Node |-> IF l = {a, b} THEN <<>> ELSE chan[a][b]]]
    BY <1>2 DEF Lose
  <2>2. \A a, b \in Node : l = {a, b} <=> <<a, b>> \in Z
    OBVIOUS
  <2> HIDE DEF Z
  <2>3. chan' = [a \in Node |-> [b \in Node |->
                    IF <<a, b>> \in Z THEN <<>> ELSE chan[a][b]]]
    BY <2>1, <2>2
  <2> QED
    BY <2>3, ClearedFacts
<1> QED
  BY <1>1, <1>2

(* Types hold at the start, when nothing is under way.                     *)
LEMMA InitTyped ==
  ASSUME Init
  PROVE  /\ TypeOK
         /\ \A n \in Node : log[n] \in Past[n] /\ store[n] = log[n]
         /\ Within(chan) = {}
<1>1. ASSUME NEW n \in Node PROVE log[n] \in Seq(Events) /\ log[n] \in Past[n]
  <2>1. log[n] \in Past[n]
    BY DEF Init
  <2>2. log[n] \in Seq(Range(log[n])) /\ \A e \in Range(log[n]) : IsEvent(e)
    BY <2>1, PastAssumption
  <2>3. Range(log[n]) \subseteq Events
    BY <2>2 DEF IsEvent, Events
  <2> QED
    BY <2>1, <2>2, <2>3
<1>2. log \in Logs
  BY <1>1 DEF Init, Logs
<1>3. /\ reports \in [Publisher -> Seq(Reports)]
      /\ waiting \in [Seeker -> Searches \cup {None}]
      /\ answers \in [Seeker -> [1..MaxSearches -> Responses \cup {None}]]
      /\ result \in [Seeker -> Results]
      /\ held \in [Seeker -> [Node -> Routes \cup {None}]]
  <2>1. Nothing \in Results
    BY DEF Nothing, Results
  <2> QED
    BY <2>1 DEF Init
<1>4. /\ observed \in Nat /\ routes \in Nat /\ lost \in Nat /\ restarts \in Nat
      /\ searches \in 0..MaxSearches /\ links \in SUBSET Overlay
  BY SearchAssumption DEF Init
<1>5. chan \in Channels /\ \A a, b \in Node : chan[a][b] = <<>>
  BY DEF Init, Channels
<1>6. Within(chan) = {}
  <2>1. Range(<<>>) = {}
    BY DEF Range
  <2> QED
    BY <1>5, <2>1 DEF Within
<1>7. store = log
  BY DEF Init
<1> QED
  BY <1>1, <1>2, <1>3, <1>4, <1>5, <1>6, <1>7 DEF TypeOK

(* Every step keeps the types.                                             *)
LEMMA NextTyped ==
  ASSUME TypeOK, [Next]_vars
  PROVE  TypeOK'
<1>1. /\ log \in Logs /\ store \in Logs /\ chan \in Channels
      /\ reports \in [Publisher -> Seq(Reports)]
      /\ waiting \in [Seeker -> Searches \cup {None}]
      /\ answers \in [Seeker -> [1..MaxSearches -> Responses \cup {None}]]
      /\ result \in [Seeker -> Results]
      /\ held \in [Seeker -> [Node -> Routes \cup {None}]]
      /\ observed \in Nat /\ routes \in Nat /\ lost \in Nat /\ restarts \in Nat
      /\ searches \in Nat /\ searches \in 0..MaxSearches /\ MaxSearches \in Nat
      /\ links \in SUBSET Overlay
  BY SearchAssumption DEF TypeOK
<1>2. Seeker \subseteq Node
  BY SearchAssumption
<1>3. ASSUME NEW n \in Seeker, NEW x \in Ident, Search(n, x) PROVE TypeOK'
  <2>1. searches' = searches + 1 /\ searches' \in 1..MaxSearches /\ n \in Node
    BY <1>1, <1>2, <1>3 DEF Search
  <2>2. /\ Response(n, searches', x) \in Responses
        /\ Request(n, searches', x) \in Requests
    BY <2>1, AnswerTypes
  <2>3. chan' \in Channels
    BY <1>1, <1>3, <2>1, <2>2, SentFacts DEF Search, Messages
  <2>4. Snapshot(x) \in [Node -> Routes \cup {None}]
    BY AnswerTypes DEF Snapshot
  <2>5. held' \in [Seeker -> [Node -> Routes \cup {None}]]
    BY <1>1, <1>3, <2>4 DEF Search
  <2>6. /\ waiting' \in [Seeker -> Searches \cup {None}]
        /\ answers' \in [Seeker -> [1..MaxSearches -> Responses \cup {None}]]
        /\ result' \in [Seeker -> Results]
    <3>1. CASE Announces(n, x)
      <4>1. /\ answers' = [answers EXCEPT ![n][searches'] = Response(n, searches', x)]
            /\ result' = [result EXCEPT ![n] = [identity |-> x, from |-> n, route |-> None]]
            /\ waiting' = waiting
        BY <1>3, <3>1 DEF Search, Returns
      <4>2. [identity |-> x, from |-> n, route |-> None] \in Results
        BY <2>1 DEF Results
      <4> QED
        BY <1>1, <2>1, <2>2, <4>1, <4>2
    <3>2. CASE ~Announces(n, x)
      <4>1. /\ waiting' = [waiting EXCEPT ![n] = [request |-> searches', identity |-> x]]
            /\ answers' = answers /\ result' = result
        BY <1>3, <3>2 DEF Search
      <4>2. [request |-> searches', identity |-> x] \in Searches
        BY <2>1 DEF Searches
      <4> QED
        BY <1>1, <4>1, <4>2
    <3> QED
      BY <3>1, <3>2
  <2>7. UNCHANGED <<observed, log, store, reports, routes, links, lost, restarts>>
    BY <1>3 DEF Search, logVars, netVars
  <2> QED
    BY <1>1, <2>1, <2>3, <2>5, <2>6, <2>7 DEF TypeOK
<1>4. ASSUME NEW n \in Seeker, Found(n) PROVE TypeOK'
  <2> DEFINE w == waiting[n]
             a == answers[n][w.request]
  <2>1. w # None /\ a # None /\ w \in Searches
    BY <1>1, <1>4 DEF Found
  <2>2. result' = [result EXCEPT ![n] =
            [identity |-> w.identity, from |-> a.from, route |-> Latest(w.identity, a.routes)]]
    BY <1>4 DEF Found, Returns
  <2>3. a \in Responses
    BY <1>1, <2>1 DEF Searches
  <2> HIDE DEF w, a
  <2>4. Latest(w.identity, a.routes) \in Routes \cup {None}
    <3>1. a.routes \in Seq(Routes)
      BY <2>3 DEF Responses
    <3>2. NewestOf(Latest(w.identity, a.routes), RoutesFor(w.identity, Range(a.routes)))
      BY <3>1, LatestNewest
    <3>3. Range(a.routes) \subseteq Routes
      BY <3>1 DEF Range
    <3> QED
      BY <3>2, <3>3 DEF NewestOf, RoutesFor
  <2>5. [identity |-> w.identity, from |-> a.from, route |-> Latest(w.identity, a.routes)]
          \in Results
    BY <2>1, <2>3, <2>4 DEF Results, Searches, Responses
  <2>6. result' \in [Seeker -> Results]
    BY <1>1, <2>2, <2>5
  <2>7. waiting' \in [Seeker -> Searches \cup {None}]
    BY <1>1, <1>4 DEF Found
  <2>8. UNCHANGED <<observed, log, store, reports, answers, held, searches, routes,
                    chan, links, lost, restarts>>
    BY <1>4 DEF Found, logVars, netVars
  <2> QED
    BY <1>1, <2>6, <2>7, <2>8 DEF TypeOK
<1>5. ASSUME NEW n \in Seeker, TimeOut(n) PROVE TypeOK'
  <2>1. waiting[n] \in Searches
    BY <1>1, <1>5 DEF TimeOut
  <2>2. [identity |-> waiting[n].identity, from |-> None, route |-> None] \in Results
    BY <2>1 DEF Results, Searches
  <2>3. result' \in [Seeker -> Results] /\ waiting' \in [Seeker -> Searches \cup {None}]
    BY <1>1, <1>5, <2>2 DEF TimeOut, Returns
  <2>4. UNCHANGED <<observed, log, store, reports, answers, held, searches, routes,
                    chan, links, lost, restarts>>
    BY <1>5 DEF TimeOut, logVars, netVars
  <2> QED
    BY <1>1, <2>3, <2>4 DEF TypeOK
<1>6. ASSUME NEW n \in Node, NEW p \in Node, OnRequest(n, p) PROVE TypeOK'
  <2> DEFINE m == Head(chan[p][n])
             onward == SentTo(Taken(n, p), n, Peers(n) \ {p}, m)
             answer == Response(n, m.request, m.identity)
  <2>1. /\ m \in Messages /\ Taken(n, p) \in Channels /\ m.kind = "request"
    BY <1>1, <1>6, TakenFacts DEF OnRequest, Gets
  <2>2. m \in Requests
    BY <2>1, MessageKinds
  <2>3. m.request \in 1..MaxSearches /\ m.identity \in Ident
    BY <2>2 DEF Requests
  <2>4. answer \in Responses
    BY <2>3, AnswerTypes
  <2>5. onward \in Channels
    BY <2>1, SentFacts
  <2>6. chan' = IF Answerable(n, m.identity)
                THEN SentTo(onward, n, {p} \cap Peers(n), answer) ELSE onward
    BY <1>6 DEF OnRequest
  <2> HIDE DEF m, onward, answer
  <2>7. chan' \in Channels
    BY <2>4, <2>5, <2>6, SentFacts DEF Messages
  <2>8. UNCHANGED <<observed, log, store, reports, waiting, answers, result, held,
                    searches, routes, links, lost, restarts>>
    BY <1>6 DEF OnRequest, logVars, netVars
  <2> QED
    BY <1>1, <2>7, <2>8 DEF TypeOK
<1>7. ASSUME NEW n \in Node, NEW p \in Node, OnResponse(n, p) PROVE TypeOK'
  <2> DEFINE m == Head(chan[p][n])
  <2>1. /\ m \in Messages /\ Taken(n, p) \in Channels /\ m.kind = "response"
    BY <1>1, <1>7, TakenFacts DEF OnResponse, Gets
  <2>2. m \in Responses /\ m.request \in 1..MaxSearches
    BY <2>1, MessageKinds DEF Responses
  <2>3. /\ answers' = IF n \in Seeker THEN [answers EXCEPT ![n][m.request] = m] ELSE answers
        /\ chan' = Taken(n, p)
    BY <1>7 DEF OnResponse
  <2> HIDE DEF m
  <2>4. answers' \in [Seeker -> [1..MaxSearches -> Responses \cup {None}]]
    BY <1>1, <2>2, <2>3
  <2>5. UNCHANGED <<observed, log, store, reports, waiting, result, held, searches,
                    routes, links, lost, restarts>>
    BY <1>7 DEF OnResponse, logVars, netVars
  <2> QED
    BY <1>1, <2>1, <2>3, <2>4, <2>5 DEF TypeOK
<1>8. ASSUME NEW n \in Node, NEW p \in Node, OnRoute(n, p) PROVE TypeOK'
  <2> DEFINE m == Head(chan[p][n])
  <2>1. /\ m \in Messages /\ Taken(n, p) \in Channels /\ m.kind = "route"
    BY <1>1, <1>8, TakenFacts DEF OnRoute, Gets
  <2>2. m \in Events
    BY <2>1, MessageKinds
  <2>3. Record(n, m) /\ chan' = SentTo(Taken(n, p), n, Peers(n) \ {p}, m)
    BY <1>8 DEF OnRoute
  <2> HIDE DEF m
  <2>4. log' \in Logs /\ store' \in Logs
    BY <1>1, <2>2, <2>3, RecordFacts DEF Recorded
  <2>5. chan' \in Channels
    BY <2>1, <2>3, SentFacts
  <2>6. UNCHANGED <<observed, reports, waiting, answers, result, held, searches,
                    routes, links, lost, restarts>>
    BY <1>8 DEF OnRoute, netVars
  <2> QED
    BY <1>1, <2>4, <2>5, <2>6 DEF TypeOK
<1>9. ASSUME NEW n \in Node, Restart(n) PROVE TypeOK'
  <2>1. log' \in Logs /\ store' = store
    BY <1>1, <1>9, RestartFacts DEF Refilled
  <2>2. chan' \in Channels
    BY <1>1, <1>9, ClosingFlow
  <2>3. /\ waiting' \in [Seeker -> Searches \cup {None}]
        /\ answers' \in [Seeker -> [1..MaxSearches -> Responses \cup {None}]]
        /\ result' \in [Seeker -> Results]
    <3>1. Nothing \in Results
      BY DEF Nothing, Results
    <3>2. CASE n \in Seeker
      <4>1. /\ waiting' = [waiting EXCEPT ![n] = None]
            /\ answers' = [answers EXCEPT ![n] = [i \in DOMAIN answers[n] |-> None]]
            /\ result' = [result EXCEPT ![n] = Nothing]
        BY <1>9, <3>2 DEF Restart
      <4>2. DOMAIN answers[n] = 1..MaxSearches
        BY <1>1, <3>2
      <4> QED
        BY <1>1, <3>1, <4>1, <4>2
    <3>3. CASE n \notin Seeker
      BY <1>1, <1>9, <3>3 DEF Restart
    <3> QED
      BY <3>2, <3>3
  <2>4. restarts' \in Nat
    BY <1>1, <1>9 DEF Restart
  <2>5. UNCHANGED <<observed, reports, held, searches, routes, links, lost>>
    BY <1>9 DEF Restart
  <2> QED
    BY <1>1, <2>1, <2>2, <2>3, <2>4, <2>5 DEF TypeOK
<1>10. ASSUME NEW x \in Publisher, Publish(x) PROVE TypeOK'
  <2>1. PICK r : Published(x, r)
    BY <1>10, PublishFacts
  <2>2. Route(r) \in Events /\ Route(r) \in Messages /\ Owner[x] \in Node
    BY <2>1, EventFacts, SearchAssumption DEF Published, Messages
  <2>3. log' \in Logs /\ store' \in Logs
    BY <1>1, <2>1, <2>2, RecordFacts DEF Published, Recorded
  <2>4. chan' \in Channels
    BY <1>1, <2>1, <2>2, SentFacts DEF Published
  <2>5. routes' \in Nat
    BY <1>1, <1>10 DEF Publish
  <2>6. UNCHANGED <<observed, reports, waiting, answers, result, held, searches,
                    links, lost, restarts>>
    BY <1>10 DEF Publish, netVars
  <2> QED
    BY <1>1, <2>3, <2>4, <2>5, <2>6 DEF TypeOK
<1>11. ASSUME NEW x \in Publisher, NEW r \in Report, OnObserved(x, r) PROVE TypeOK'
  <2>1. r \in Reports
    BY SearchAssumption
  <2>2. reports' = [reports EXCEPT ![x] = Append(reports[x], r)] /\ observed' = observed + 1
    BY <1>11 DEF OnObserved
  <2>3. Append(reports[x], r) \in Seq(Reports)
    BY <1>1, <2>1
  <2>4. reports' \in [Publisher -> Seq(Reports)] /\ observed' \in Nat
    BY <1>1, <2>2, <2>3
  <2>5. UNCHANGED <<log, store, waiting, answers, result, held, searches, routes,
                    chan, links, lost, restarts>>
    BY <1>11 DEF OnObserved, logVars, netVars
  <2> QED
    BY <1>1, <2>4, <2>5 DEF TypeOK
<1>12. ASSUME NEW l \in Overlay, Lose(l) PROVE TypeOK'
  <2>1. chan' \in Channels
    BY <1>1, <1>12, ClosingFlow
  <2>2. links' \in SUBSET Overlay /\ lost' \in Nat
    BY <1>1, <1>12 DEF Lose
  <2>3. UNCHANGED <<observed, log, store, reports, waiting, answers, result, held,
                    searches, routes, restarts>>
    BY <1>12 DEF Lose, logVars
  <2> QED
    BY <1>1, <2>1, <2>2, <2>3 DEF TypeOK
<1>13. CASE UNCHANGED vars
  BY <1>13 DEF TypeOK, vars, logVars, netVars
<1> QED
  BY <1>3, <1>4, <1>5, <1>6, <1>7, <1>8, <1>9, <1>10, <1>11, <1>12, <1>13
     DEF Next, Receive
-----------------------------------------------------------------------------
(* What a step puts into the channels.                                     *)

(* handleRequestAnnouncement: the request and an answer to it.              *)
Answered(n, m) ==
    /\ m \in Requests /\ m \in Within(chan)
    /\ Within(chan') \subseteq Within(chan) \cup {Response(n, m.request, m.identity)}

LEMMA RequestFlow ==
  ASSUME TypeOK, NEW n \in Node, NEW p \in Node, OnRequest(n, p)
  PROVE  \E m : Answered(n, m)
<1> DEFINE m == Head(chan[p][n])
           onward == SentTo(Taken(n, p), n, Peers(n) \ {p}, m)
           answer == Response(n, m.request, m.identity)
<1>1. /\ m \in Messages /\ m \in Within(chan) /\ m.kind = "request"
      /\ Taken(n, p) \in Channels /\ Within(Taken(n, p)) \subseteq Within(chan)
  BY TakenFacts DEF TypeOK, OnRequest, Gets
<1>2. m \in Requests
  BY <1>1, MessageKinds
<1>3. answer \in Messages
  BY <1>2, AnswerTypes DEF Requests, Messages
<1>4. chan' = IF Answerable(n, m.identity)
              THEN SentTo(onward, n, {p} \cap Peers(n), answer) ELSE onward
  BY DEF OnRequest
<1>5. onward \in Channels /\ Within(onward) \subseteq Within(chan)
  <2>1. onward \in Channels /\ Within(onward) \subseteq Within(Taken(n, p)) \cup {m}
    BY <1>1, SentFacts
  <2> QED
    BY <1>1, <2>1
<1> HIDE DEF m, onward, answer
<1>6. Within(chan') \subseteq Within(chan) \cup {answer}
  <2>1. Within(SentTo(onward, n, {p} \cap Peers(n), answer)) \subseteq
           Within(onward) \cup {answer}
    BY <1>3, <1>5, SentFacts
  <2> QED
    BY <1>4, <1>5, <2>1
<1> QED
  BY <1>1, <1>2, <1>6 DEF Answered, answer

(* handleRequestResponse: the response is recorded.                        *)
Noted(n, m) ==
    /\ m \in Responses /\ m \in Within(chan) /\ Within(chan') \subseteq Within(chan)
    /\ answers' = IF n \in Seeker THEN [answers EXCEPT ![n][m.request] = m] ELSE answers

LEMMA ResponseFlow ==
  ASSUME TypeOK, NEW n \in Node, NEW p \in Node, OnResponse(n, p)
  PROVE  \E m : Noted(n, m)
<1> DEFINE m == Head(chan[p][n])
<1>1. /\ m \in Messages /\ m \in Within(chan) /\ m.kind = "response"
      /\ Within(Taken(n, p)) \subseteq Within(chan)
  BY TakenFacts DEF TypeOK, OnResponse, Gets
<1>2. m \in Responses
  BY <1>1, MessageKinds
<1>3. /\ answers' = IF n \in Seeker THEN [answers EXCEPT ![n][m.request] = m] ELSE answers
      /\ chan' = Taken(n, p)
  BY DEF OnResponse
<1> HIDE DEF m
<1> QED
  BY <1>1, <1>2, <1>3 DEF Noted

(* handleRouteAnnouncement: the route is recorded and passed on.           *)
Passed(n, m) ==
    /\ m \in Events /\ m.kind = "route" /\ m.route \in Routes /\ m = Route(m.route)
    /\ m \in Within(chan) /\ Within(chan') \subseteq Within(chan)
    /\ Recorded(n, m)

LEMMA RouteFlow ==
  ASSUME TypeOK, NEW n \in Node, NEW p \in Node, OnRoute(n, p)
  PROVE  \E m : Passed(n, m)
<1> DEFINE m == Head(chan[p][n])
<1>1. /\ m \in Messages /\ m \in Within(chan) /\ m.kind = "route"
      /\ Taken(n, p) \in Channels /\ Within(Taken(n, p)) \subseteq Within(chan)
  BY TakenFacts DEF TypeOK, OnRoute, Gets
<1>2. m \in Events /\ m.route \in Routes /\ m = Route(m.route)
  BY <1>1, MessageKinds
<1>3. Record(n, m) /\ chan' = SentTo(Taken(n, p), n, Peers(n) \ {p}, m)
  BY DEF OnRoute
<1> HIDE DEF m
<1>4. Recorded(n, m)
  BY <1>2, <1>3, RecordFacts DEF TypeOK
<1>5. Within(chan') \subseteq Within(Taken(n, p)) \cup {m}
  BY <1>1, <1>3, SentFacts
<1> QED
  BY <1>1, <1>2, <1>4, <1>5 DEF Passed

(* publishRouteAnnouncement: the route is recorded and sent.               *)
Issued(x, r) ==
    /\ r \in Routes /\ r.identity = x /\ r.observedAt = routes'
    /\ Recorded(Owner[x], Route(r)) /\ Owner[x] \in Node
    /\ Within(chan') \subseteq Within(chan) \cup {Route(r)}

LEMMA PublishFlow ==
  ASSUME TypeOK, NEW x \in Publisher, Publish(x)
  PROVE  \E r : Issued(x, r)
<1>1. PICK r : Published(x, r)
  BY PublishFacts
<1>2. Route(r) \in Events /\ Route(r) \in Messages /\ Owner[x] \in Node
  BY <1>1, EventFacts, SearchAssumption DEF Published, Messages
<1>3. Recorded(Owner[x], Route(r))
  BY <1>1, <1>2, RecordFacts DEF Published, TypeOK
<1>4. Within(chan') \subseteq Within(chan) \cup {Route(r)}
  BY <1>1, <1>2, SentFacts DEF Published, TypeOK
<1> QED
  BY <1>1, <1>2, <1>3, <1>4 DEF Issued, Published

(* searchRequest: a request with a new number.                             *)
LEMMA SearchFlow ==
  ASSUME TypeOK, NEW n \in Seeker, NEW x \in Ident, Search(n, x)
  PROVE  /\ searches' = searches + 1 /\ searches' \in 1..MaxSearches
         /\ Request(n, searches', x) \in Requests
         /\ Within(chan') \subseteq Within(chan) \cup {Request(n, searches', x)}
<1>1. n \in Node /\ searches \in 0..MaxSearches /\ MaxSearches \in Nat
  BY SearchAssumption DEF TypeOK
<1>2. searches' = searches + 1 /\ searches' \in 1..MaxSearches
  BY <1>1 DEF Search
<1>3. Request(n, searches', x) \in Requests
  BY <1>1, <1>2, AnswerTypes
<1>4. Within(chan') \subseteq Within(chan) \cup {Request(n, searches', x)}
  BY <1>1, <1>3, SentFacts DEF Search, TypeOK, Messages
<1> QED
  BY <1>2, <1>3, <1>4
-----------------------------------------------------------------------------
(* A log has what the store has, each event once.                          *)
Stored == \A n \in Node : Range(log[n]) = Range(store[n]) /\ Distinct(log[n])

(* Every route under way is in some log.  Of the routes in the logs none   *)
(* is from later than the last that was published, and none has the        *)
(* identity, sequence and time of another.                                 *)
Made == {r \in Routes : \E q \in Node : Route(r) \in Range(log[q])}
Known == \A m \in Within(chan) : m.kind = "route" => m.route \in Made
Versions ==
    /\ \A r \in Made : r.observedAt <= routes
    /\ \A r, t \in Made : SameVersion(r, t) => r = t

(* What a step does to the logs.                                           *)
Grow == \A q \in Node : Range(log[q]) \subseteq Range(log'[q])

(* What logs and stores of the past are.                                   *)
LEMMA RecordsInit ==
  ASSUME Init
  PROVE  Stored /\ Known /\ Versions
<1>1. /\ TypeOK /\ Within(chan) = {}
      /\ \A n \in Node : log[n] \in Past[n] /\ store[n] = log[n]
  BY InitTyped
<1>2. ASSUME NEW n \in Node PROVE Distinct(log[n])
  <2>1. \A i, j \in DOMAIN log[n] :
           EventKey(log[n][i]) = EventKey(log[n][j]) => i = j
    BY <1>1, PastAssumption DEF EventKey
  <2> QED
    BY <2>1 DEF Distinct
<1>3. Made \subseteq PastRoutes
  <2> SUFFICES ASSUME NEW r \in Routes, NEW q \in Node, Route(r) \in Range(log[q])
               PROVE  r \in PastRoutes
    BY DEF Made
  <2>1. Route(r).kind = "route" /\ Route(r).route = r
    BY EventFacts
  <2>2. Route(r) \in UNION {Range(h) : h \in UNION {Past[n] : n \in Node}}
    BY <1>1
  <2> QED
    BY <2>1, <2>2 DEF PastRoutes
<1>4. routes = 0
  BY DEF Init
<1>5. Versions
  BY <1>3, <1>4, PastAssumption DEF Versions
<1> QED
  BY <1>1, <1>2, <1>5 DEF Stored, Known

(* No step loses an event, or makes a version of a route twice.            *)
LEMMA RecordsNext ==
  ASSUME TypeOK, Stored, Known, Versions, [Next]_vars
  PROVE  Stored' /\ Known' /\ Versions' /\ Grow
<1>1. TypeOK'
  BY NextTyped
<1>2. routes \in Int /\ \A r \in Made : RouteType(r)
  BY RouteTypes DEF TypeOK, Made
(* Steps that leave the records alone.                                     *)
<1>3. ASSUME log' = log, store' = store, routes' = routes,
             \A m \in Within(chan') : m.kind = "route" => m \in Within(chan)
      PROVE  Stored' /\ Known' /\ Versions' /\ Grow
  <2>1. Made' = Made
    BY <1>3 DEF Made
  <2> QED
    BY <1>3, <2>1 DEF Stored, Known, Versions, Grow
<1>4. ASSUME NEW n \in Seeker, NEW x \in Ident, Search(n, x)
      PROVE  Stored' /\ Known' /\ Versions' /\ Grow
  <2>1. /\ Request(n, searches', x) \in Requests
        /\ Within(chan') \subseteq Within(chan) \cup {Request(n, searches', x)}
    BY <1>4, SearchFlow
  <2>2. Request(n, searches', x).kind # "route"
    BY DEF Request
  <2>3. \A m \in Within(chan') : m.kind = "route" => m \in Within(chan)
    BY <2>1, <2>2
  <2> QED
    BY <1>3, <1>4, <2>3 DEF Search, logVars
<1>5. ASSUME NEW n \in Seeker, Found(n) \/ TimeOut(n)
      PROVE  Stored' /\ Known' /\ Versions' /\ Grow
  BY <1>3, <1>5 DEF Found, TimeOut, logVars
<1>6. ASSUME NEW n \in Node, NEW p \in Node, OnRequest(n, p)
      PROVE  Stored' /\ Known' /\ Versions' /\ Grow
  <2>1. PICK m : Answered(n, m)
    BY <1>6, RequestFlow
  <2>2. Response(n, m.request, m.identity).kind # "route"
    BY DEF Response
  <2>3. \A d \in Within(chan') : d.kind = "route" => d \in Within(chan)
    BY <2>1, <2>2 DEF Answered
  <2> QED
    BY <1>3, <1>6, <2>3 DEF OnRequest, logVars
<1>7. ASSUME NEW n \in Node, NEW p \in Node, OnResponse(n, p)
      PROVE  Stored' /\ Known' /\ Versions' /\ Grow
  <2>1. PICK m : Noted(n, m)
    BY <1>7, ResponseFlow
  <2>2. \A d \in Within(chan') : d.kind = "route" => d \in Within(chan)
    BY <2>1 DEF Noted
  <2> QED
    BY <1>3, <1>7, <2>2 DEF OnResponse, logVars
<1>8. ASSUME NEW n \in Node, NEW e \in Events, Recorded(n, e)
      PROVE  Stored' /\ Grow
  BY <1>8 DEF Recorded, Stored, Grow
<1>9. ASSUME NEW n \in Node, NEW p \in Node, OnRoute(n, p)
      PROVE  Stored' /\ Known' /\ Versions' /\ Grow
  <2>1. PICK m : Passed(n, m)
    BY <1>9, RouteFlow
  <2>2. routes' = routes
    BY <1>9 DEF OnRoute
  <2>3. m.route \in Made
    BY <2>1 DEF Passed, Known
  <2>4. Made' = Made
    <3>1. ASSUME NEW r \in Made PROVE r \in Made'
      <4>1. Grow
        BY <1>8, <2>1 DEF Passed
      <4> QED
        BY <4>1 DEF Grow, Made
    <3>2. ASSUME NEW r \in Made' PROVE r \in Made
      <4>1. r \in Routes /\ \E q \in Node : Route(r) \in Range(log'[q])
        BY DEF Made
      <4>2. PICK q \in Node : Route(r) \in Range(log'[q])
        BY <4>1
      <4>3. Route(r) \in Range(log[q]) \/ Route(r) = m
        BY <2>1, <4>2 DEF Passed, Recorded
      <4>4. Route(r) = m => r = m.route
        BY <4>1, EventFacts
      <4> QED
        BY <2>3, <4>1, <4>3, <4>4 DEF Made
    <3> QED
      BY <3>1, <3>2
  <2>5. Known' /\ Versions'
    BY <2>1, <2>2, <2>4 DEF Passed, Known, Versions
  <2> QED
    BY <1>8, <2>1, <2>5 DEF Passed
<1>10. ASSUME NEW n \in Node, Restart(n)
       PROVE  Stored' /\ Known' /\ Versions' /\ Grow
  <2>1. Refilled(n)
    BY <1>10, RestartFacts DEF TypeOK
  <2>2. Stored' /\ Grow /\ \A q \in Node : Range(log'[q]) = Range(log[q])
    BY <2>1 DEF Refilled, Stored, Grow
  <2>3. Made' = Made
    BY <2>2 DEF Made
  <2>4. Within(chan') \subseteq Within(chan) /\ routes' = routes
    BY <1>10, ClosingFlow DEF TypeOK, Restart
  <2> QED
    BY <2>2, <2>3, <2>4 DEF Known, Versions
<1>11. ASSUME NEW x \in Publisher, Publish(x)
       PROVE  Stored' /\ Known' /\ Versions' /\ Grow
  <2>1. PICK r : Issued(x, r)
    BY <1>11, PublishFlow
  <2>2. /\ r \in Routes /\ RouteType(r) /\ r.observedAt = routes' /\ Route(r) \in Events
        /\ Route(r).kind = "route" /\ Route(r).route = r
    BY <2>1, RouteTypes, EventFacts DEF Issued
  <2>3. Stored' /\ Grow
    BY <1>8, <2>1, <2>2 DEF Issued
  <2>4. routes' = routes + 1
    BY <1>11 DEF Publish
  <2>5. Made' = Made \cup {r}
    <3>1. Made \subseteq Made'
      BY <2>3 DEF Grow, Made
    <3>2. r \in Made'
      BY <2>1, <2>2 DEF Issued, Recorded, Made
    <3>3. ASSUME NEW t \in Made' PROVE t \in Made \cup {r}
      <4>1. t \in Routes /\ \E q \in Node : Route(t) \in Range(log'[q])
        BY DEF Made
      <4>2. PICK q \in Node : Route(t) \in Range(log'[q])
        BY <4>1
      <4>3. Route(t) \in Range(log[q]) \/ Route(t) = Route(r)
        BY <2>1, <4>2 DEF Issued, Recorded
      <4>4. Route(t) = Route(r) => t = r
        BY <2>2, <4>1, EventFacts
      <4> QED
        BY <4>1, <4>3, <4>4 DEF Made
    <3> QED
      BY <3>1, <3>2, <3>3
  <2>6. Known'
    BY <2>1, <2>2, <2>5 DEF Issued, Known
  <2>7. \A t \in Made : t.observedAt < r.observedAt
    BY <1>2, <2>2, <2>4 DEF Versions, RouteType
  <2>8. \A t \in Made : ~SameVersion(r, t) /\ ~SameVersion(t, r)
    BY <1>2, <2>2, <2>7 DEF SameVersion, Newer, RouteType
  <2>9. Versions'
    <3>1. \A t \in Made' : t.observedAt <= routes'
      BY <1>2, <2>2, <2>4, <2>5 DEF Versions, RouteType
    <3>2. \A t, u \in Made' : SameVersion(t, u) => t = u
      BY <2>5, <2>8 DEF Versions
    <3> QED
      BY <3>1, <3>2 DEF Versions
  <2> QED
    BY <2>3, <2>6, <2>9
<1>12. ASSUME NEW x \in Publisher, NEW r \in Report, OnObserved(x, r)
       PROVE  Stored' /\ Known' /\ Versions' /\ Grow
  BY <1>3, <1>12 DEF OnObserved, logVars
<1>13. ASSUME NEW l \in Overlay, Lose(l)
       PROVE  Stored' /\ Known' /\ Versions' /\ Grow
  <2>1. Within(chan') \subseteq Within(chan)
    BY <1>13, ClosingFlow DEF TypeOK
  <2> QED
    BY <1>3, <1>13, <2>1 DEF Lose, logVars
<1>14. CASE UNCHANGED vars
  BY <1>3, <1>14 DEF vars, logVars, netVars
<1> QED
  BY <1>4, <1>5, <1>6, <1>7, <1>9, <1>10, <1>11, <1>12, <1>13, <1>14
     DEF Next, Receive
(* What a node resolves is followed by nothing older.                      *)
LEMMA NeverAges ==
  ASSUME TypeOK, Stored, Known, Versions, [Next]_vars, NEW n \in Node, NEW x \in Ident
  PROVE  /\ Resolved(n, x) # None =>
              Resolved(n, x)' # None /\ ~Newer(Resolved(n, x), Resolved(n, x)')
         /\ Resolved(n, x)' = Latest(x, RoutesOf(n, x))'
<1>1. TypeOK' /\ Stored' /\ Known' /\ Versions' /\ Grow
  BY NextTyped, RecordsNext
<1>2. PICK s \in Seq(Events), t \in Seq(Events), u \in Seq(Events) :
          s = store[n] /\ t = store'[n] /\ u = log'[n]
  BY <1>1 DEF TypeOK, Logs
<1>3. PICK was : was = Latest(x, RoutesIn(s, x))
  OBVIOUS
<1>4. PICK now : now = Latest(x, RoutesIn(t, x))
  OBVIOUS
<1>5. PICK said : said = Latest(x, RoutesIn(u, x))
  OBVIOUS
<1>6. /\ Resolved(n, x) = was /\ Resolved(n, x)' = now
      /\ Latest(x, RoutesOf(n, x))' = said
  BY <1>2, <1>3, <1>4, <1>5 DEF Resolved, RoutesOf
<1>7. /\ NewestOf(was, Logged(x, s)) /\ NewestOf(now, Logged(x, t))
      /\ NewestOf(said, Logged(x, u))
  BY <1>3, <1>4, <1>5, Resolves
<1>8. Range(s) \subseteq Range(t) /\ Range(u) = Range(t)
  BY <1>1, <1>2 DEF Stored, Grow
<1>9. Logged(x, s) \subseteq Logged(x, t) /\ Logged(x, u) = Logged(x, t)
  BY <1>8, LoggedGrows DEF Logged
<1>10. was # None => now # None /\ ~Newer(was, now)
  BY <1>7, <1>9 DEF NewestOf
<1>11. now = said
  <2>1. Logged(x, t) \subseteq Made' /\ \A r \in Logged(x, t) : r.identity = x
    BY <1>2, <1>8 DEF Logged, Made
  <2>2. CASE Logged(x, t) = {}
    BY <1>7, <1>9, <2>2 DEF NewestOf
  <2>3. CASE Logged(x, t) # {}
    <3>1. /\ now \in Logged(x, t) /\ said \in Logged(x, t)
          /\ ~Newer(now, said) /\ ~Newer(said, now)
      BY <1>7, <1>9, <2>3 DEF NewestOf
    <3>2. SameVersion(now, said) /\ now \in Made' /\ said \in Made'
      BY <2>1, <3>1 DEF SameVersion
    <3> QED
      BY <1>1, <3>2 DEF Versions
  <2> QED
    BY <2>2, <2>3
<1> QED
  BY <1>6, <1>10, <1>11
-----------------------------------------------------------------------------
(* Searches, requests and responses.                                       *)

(* Their numbers are those of searches that were begun, and a response is  *)
(* recorded under its own.                                                 *)
Numbered ==
    /\ \A m \in Within(chan) :
          m.kind \in {"request", "response"} => m.request <= searches
    /\ \A n \in Seeker, i \in 1..MaxSearches :
          answers[n][i] # None => answers[n][i].request = i /\ i <= searches
    /\ \A n \in Seeker : waiting[n] # None => waiting[n].request <= searches

(* The response m gives n routes of x only; if its sender held one when n  *)
(* began to search it gives some, and that one if it has no more than the  *)
(* limit even now.                                                         *)
Serves(n, m, x) ==
    /\ \A r \in Range(m.routes) : r.identity = x
    /\ held[n][m.from] # None =>
         /\ Range(m.routes) # {}
         /\ Len(RoutesOf(m.from, x)) <= Limit => held[n][m.from] \in Range(m.routes)

(* While n waits, what each node held is still in its log, the requests    *)
(* with its number ask for its identity, and every response with it serves.*)
Fits(n, m) ==
    m.kind \in {"request", "response"} /\ m.request = waiting[n].request =>
        /\ m.kind = "request" => m.identity = waiting[n].identity
        /\ m.kind = "response" => Serves(n, m, waiting[n].identity)
Awaits(n) ==
    /\ \A q \in Node :
          held[n][q] # None => held[n][q] \in Logged(waiting[n].identity, log[q])
    /\ \A m \in Within(chan) : Fits(n, m)
    /\ answers[n][waiting[n].request] # None =>
          Serves(n, answers[n][waiting[n].request], waiting[n].identity)
Awaited == \A n \in Seeker : waiting[n] # None => Awaits(n)

(* A node never answers from fewer routes.                                 *)
LEMMA Longer ==
  ASSUME TypeOK, Stored, TypeOK', Stored', Grow, NEW q \in Node, NEW x
  PROVE  /\ Len(RoutesOf(q, x)) \in Nat /\ Len(RoutesOf(q, x))' \in Nat
         /\ Len(RoutesOf(q, x)) <= Len(RoutesOf(q, x))'
<1>1. PICK s \in Seq(Events), t \in Seq(Events) : s = log[q] /\ t = log'[q]
  BY DEF TypeOK, Logs
<1>2. Distinct(s) /\ Distinct(t) /\ Range(s) \subseteq Range(t)
  BY <1>1 DEF Stored, Grow
<1>3. /\ IsFiniteSet(Logged(x, s)) /\ Len(RoutesIn(s, x)) = Cardinality(Logged(x, s))
      /\ IsFiniteSet(Logged(x, t)) /\ Len(RoutesIn(t, x)) = Cardinality(Logged(x, t))
  BY <1>2, RoutesInFacts
<1>4. Logged(x, s) \subseteq Logged(x, t)
  BY <1>2, LoggedGrows
<1>5. Cardinality(Logged(x, s)) <= Cardinality(Logged(x, t))
  BY <1>3, <1>4, FS_Subset
<1>6. Cardinality(Logged(x, s)) \in Nat /\ Cardinality(Logged(x, t)) \in Nat
  BY <1>3, FS_CardinalityType
<1>7. Len(RoutesOf(q, x)) = Len(RoutesIn(s, x)) /\ Len(RoutesOf(q, x))' = Len(RoutesIn(t, x))
  BY <1>1 DEF RoutesOf
<1> QED
  BY <1>3, <1>5, <1>6, <1>7

(* A response that serves goes on to.                                      *)
LEMMA StillServes ==
  ASSUME TypeOK, Stored, TypeOK', Stored', Grow,
         NEW n \in Seeker, NEW x, NEW m \in Responses,
         held'[n] = held[n], Serves(n, m, x)
  PROVE  Serves(n, m, x)'
<1>1. m.from \in Node
  BY DEF Responses
<1>2. /\ Len(RoutesOf(m.from, x)) \in Nat /\ Len(RoutesOf(m.from, x))' \in Nat
      /\ Len(RoutesOf(m.from, x)) <= Len(RoutesOf(m.from, x))'
  BY <1>1, Longer
<1>3. Limit \in Nat
  BY SearchAssumption
<1>4. Len(RoutesOf(m.from, x))' <= Limit => Len(RoutesOf(m.from, x)) <= Limit
  BY <1>2, <1>3
<1> QED
  BY <1>4 DEF Serves

(* What a node answers serves.                                             *)
LEMMA ResponseServes ==
  ASSUME TypeOK, NEW n \in Seeker, NEW q \in Node, NEW x \in Ident, NEW request,
         held[n][q] # None => held[n][q] \in Logged(x, log[q])
  PROVE  Serves(n, Response(q, request, x), x)
<1> DEFINE found == RoutesOf(q, x)
           m == IF Len(found) > Limit THEN Limit ELSE Len(found)
           given == SubSeq(found, 1, m)
<1>1. found \in Seq(Routes) /\ Range(found) = Logged(x, log[q])
  BY RoutesInFacts DEF RoutesOf, TypeOK, Logs
<1>2. Limit \in Nat /\ Limit >= 1
  BY SearchAssumption
<1>3. Response(q, request, x).routes = given /\ Response(q, request, x).from = q
  BY DEF Response, MatchRoutes
<1> HIDE DEF found
<1>4. Len(found) \in Nat /\ DOMAIN found = 1..Len(found)
  BY <1>1
<1>5. /\ m \in 0..Len(found) /\ (Len(found) >= 1 => m >= 1)
      /\ (Len(found) <= Limit => m = Len(found)) /\ m \in Nat
  <2>1. PICK k \in Nat : k = Len(found)
    BY <1>4
  <2>2. PICK l \in Nat : l = Limit /\ l >= 1
    BY <1>2
  <2>3. PICK j : j = IF k > l THEN l ELSE k
    OBVIOUS
  <2>4. j \in 0..k /\ (k >= 1 => j >= 1) /\ (k <= l => j = k) /\ j \in Nat
    BY <2>2, <2>3
  <2>5. m = j
    BY <2>1, <2>2, <2>3
  <2> HIDE DEF m
  <2> QED
    BY <2>1, <2>2, <2>4, <2>5
<1> HIDE DEF m
<1>6. DOMAIN given = 1..m /\ \A i \in 1..m : given[i] = found[i] /\ i \in 1..Len(found)
  <2>1. m \in Nat /\ m <= Len(found)
    BY <1>4, <1>5
  <2> QED
    BY <1>1, <1>4, <2>1
<1> HIDE DEF given
<1>7. Range(given) \subseteq Range(found)
  BY <1>4, <1>6 DEF Range
<1>8. \A r \in Range(given) : r.identity = x
  BY <1>1, <1>7 DEF Logged
<1>9. ASSUME held[n][q] # None
      PROVE  Range(given) # {} /\ (Len(found) <= Limit => held[n][q] \in Range(given))
  <2>1. held[n][q] \in Range(found)
    BY <1>1, <1>9
  <2>2. PICK i \in 1..Len(found) : found[i] = held[n][q]
    BY <1>4, <2>1 DEF Range
  <2>3. 1 \in 1..m
    <3>1. Len(found) \in Nat /\ Len(found) >= 1
      BY <1>4, <2>2
    <3> QED
      BY <1>5, <3>1
  <2>4. Range(given) # {}
    BY <1>6, <2>3 DEF Range
  <2>5. Len(found) <= Limit => i \in 1..m
    BY <1>5
  <2> QED
    BY <1>6, <2>2, <2>4, <2>5 DEF Range
<1> QED
  BY <1>3, <1>8, <1>9 DEF Serves, found
(* A node that still waits, with what is new in a channel or an answer.    *)
LEMMA StillAwaits ==
  ASSUME TypeOK, Stored, TypeOK', Stored', Grow,
         NEW n \in Seeker, waiting[n] # None, Awaits(n),
         waiting'[n] = waiting[n], held'[n] = held[n],
         \A m \in Within(chan') : m \in Within(chan) \/ Fits(n, m),
         NEW a, a = answers'[n][waiting[n].request],
         a = None \/ (a \in Responses /\ Serves(n, a, waiting[n].identity))
  PROVE  Awaits(n)'
<1>1. PICK v \in Searches : v = waiting[n] /\ v = waiting'[n]
  BY DEF TypeOK
<1>2. PICK x \in Ident : x = v.identity
  BY DEF Searches
<1>3. ASSUME NEW m \in Messages, Fits(n, m) PROVE Fits(n, m)'
  <2>1. m.kind = "response" => m \in Responses
    BY MessageKinds
  <2>2. m.kind = "response" /\ m.request = v.request => Serves(n, m, x)'
    BY <1>1, <1>2, <1>3, <2>1, StillServes DEF Fits
  <2> QED
    BY <1>1, <1>2, <1>3, <2>2 DEF Fits
<1>4. \A m \in Within(chan') : Fits(n, m)'
  <2>1. \A m \in Within(chan') : m \in Messages /\ Fits(n, m)
    BY DEF Awaits, Within
  <2> QED
    BY <1>3, <2>1
<1>5. a = None \/ Serves(n, a, x)'
  <2>1. a # None => a \in Responses /\ Serves(n, a, x)
    BY <1>1, <1>2
  <2> QED
    BY <2>1, StillServes
<1>6. ASSUME NEW q \in Node, held[n][q] # None
      PROVE  held[n][q] \in Logged(x, log'[q])
  <2>1. held[n][q] \in Logged(x, log[q])
    BY <1>1, <1>2, <1>6 DEF Awaits
  <2>2. Logged(x, log[q]) \subseteq Logged(x, log'[q])
    BY LoggedGrows DEF Grow
  <2> QED
    BY <2>1, <2>2
<1>7. (answers[n][waiting[n].request] # None =>
         Serves(n, answers[n][waiting[n].request], waiting[n].identity))'
  BY <1>1, <1>2, <1>5 DEF Serves
<1>8. (\A q \in Node : held[n][q] # None =>
         held[n][q] \in Logged(waiting[n].identity, log[q]))'
  BY <1>1, <1>2, <1>6
<1>9. (\A m \in Within(chan) : Fits(n, m))'
  BY <1>4
<1> QED
  BY <1>7, <1>8, <1>9 DEF Awaits

(* At the start nobody waits.                                              *)
LEMMA AnswersInit ==
  ASSUME Init
  PROVE  Numbered /\ Awaited /\ FreshAnswer
<1>1. TypeOK /\ Within(chan) = {}
  BY InitTyped
<1>2. \A n \in Seeker : /\ waiting[n] = None /\ \A i \in 1..MaxSearches : answers[n][i] = None
                        /\ result[n].from = None
  BY DEF Init, Nothing
<1> QED
  BY <1>1, <1>2 DEF Numbered, Awaited, FreshAnswer

(* Every step keeps the numbers, and what waiting nodes are promised.      *)
LEMMA AnswersNext ==
  ASSUME TypeOK, Stored, Known, Versions, Numbered, Awaited, [Next]_vars
  PROVE  Numbered' /\ Awaited'
<1>1. TypeOK' /\ Stored' /\ Grow
  BY NextTyped, RecordsNext
<1>2. /\ searches \in Nat /\ searches <= MaxSearches /\ MaxSearches \in Nat
      /\ waiting \in [Seeker -> Searches \cup {None}]
      /\ answers \in [Seeker -> [1..MaxSearches -> Responses \cup {None}]]
      /\ held \in [Seeker -> [Node -> Routes \cup {None}]]
  BY SearchAssumption DEF TypeOK
<1>3. \A n \in Seeker : waiting[n] # None =>
         /\ waiting[n].request \in 1..MaxSearches /\ waiting[n].request <= searches
         /\ waiting[n].identity \in Ident
  BY <1>2 DEF Searches, Numbered
<1>4. \A m \in Messages : m.kind \in {"request", "response"} => m.request \in 1..MaxSearches
  BY MessageKinds DEF Requests, Responses
(* Of one node, when its search and what it has got stay as they are.      *)
<1>5. ASSUME NEW n \in Seeker, waiting'[n] # None,
             waiting'[n] = waiting[n], held'[n] = held[n], answers'[n] = answers[n],
             \A m \in Within(chan') : m \in Within(chan) \/ Fits(n, m)
      PROVE  Awaits(n)'
  <2>1. Awaits(n) /\ waiting[n] # None
    BY <1>5 DEF Awaited
  <2>2. PICK a : a = answers'[n][waiting[n].request]
    OBVIOUS
  <2>3. a \in Responses \cup {None}
    BY <1>2, <1>3, <1>5, <2>1, <2>2
  <2>4. a = None \/ (a \in Responses /\ Serves(n, a, waiting[n].identity))
    BY <1>5, <2>1, <2>3, <2>2 DEF Awaits
  <2> QED
    BY <1>1, <1>5, <2>1, <2>4, <2>2, StillAwaits
(* Steps that add nothing but what is no request or response.              *)
<1>6. ASSUME waiting' = waiting, held' = held, answers' = answers, searches' = searches,
             \A m \in Within(chan') :
                m \in Within(chan) \/ m.kind \notin {"request", "response"}
      PROVE  Numbered' /\ Awaited'
  <2>1. Numbered'
    BY <1>6 DEF Numbered
  <2>2. \A n \in Seeker : \A m \in Within(chan') : m \in Within(chan) \/ Fits(n, m)
    BY <1>6 DEF Fits
  <2> QED
    BY <1>5, <1>6, <2>1, <2>2 DEF Awaited
<1>7. ASSUME NEW n \in Seeker, NEW x \in Ident, Search(n, x)
      PROVE  Numbered' /\ Awaited'
  <2> DEFINE d == Request(n, searches', x)
  <2>1. /\ searches' = searches + 1 /\ searches' \in 1..MaxSearches
        /\ d \in Requests /\ Within(chan') \subseteq Within(chan) \cup {d}
    BY <1>7, SearchFlow
  <2>2. d.kind = "request" /\ d.request = searches' /\ d.identity = x
    BY DEF Request
  <2> HIDE DEF d
  <2>3. /\ held' = [held EXCEPT ![n] = Snapshot(x)]
        /\ \/ /\ Announces(n, x)
              /\ answers' = [answers EXCEPT ![n][searches'] = Response(n, searches', x)]
              /\ waiting' = waiting /\ waiting[n] = None
           \/ /\ waiting' = [waiting EXCEPT ![n] = [request |-> searches', identity |-> x]]
              /\ answers' = answers
    BY <1>7 DEF Search
  <2>4. Response(n, searches', x).request = searches'
    BY DEF Response
  <2>5. Numbered'
    <3>1. ASSUME NEW m \in Within(chan'), m.kind \in {"request", "response"}
          PROVE  m.request <= searches'
      <4>1. CASE m = d
        BY <1>2, <2>1, <2>2, <4>1
      <4>2. CASE m \in Within(chan)
        <5>1. m.request <= searches /\ m.request \in 1..MaxSearches
          BY <1>4, <3>1, <4>2 DEF Numbered, Within
        <5> QED
          BY <1>2, <2>1, <5>1
      <4> QED
        BY <2>1, <4>1, <4>2
    <3>2. ASSUME NEW q \in Seeker, NEW i \in 1..MaxSearches, answers'[q][i] # None
          PROVE  answers'[q][i].request = i /\ i <= searches'
      <4>1. CASE answers'[q][i] = answers[q][i]
        <5>1. answers[q][i].request = i /\ i <= searches
          BY <3>2, <4>1 DEF Numbered
        <5> QED
          BY <1>2, <2>1, <4>1, <5>1
      <4>2. CASE answers'[q][i] # answers[q][i]
        <5>1. answers'[q][i] = Response(n, searches', x) /\ i = searches'
          BY <1>2, <2>1, <2>3, <4>2
        <5> QED
          BY <1>2, <2>1, <2>4, <5>1
      <4> QED
        BY <4>1, <4>2
    <3>3. ASSUME NEW q \in Seeker, waiting'[q] # None
          PROVE  waiting'[q].request <= searches'
      <4>1. CASE waiting'[q] = waiting[q]
        BY <1>2, <1>3, <2>1, <3>3, <4>1
      <4>2. CASE waiting'[q] # waiting[q]
        <5>1. waiting'[q] = [request |-> searches', identity |-> x]
          BY <1>2, <2>3, <4>2
        <5> QED
          BY <1>2, <2>1, <5>1
      <4> QED
        BY <4>1, <4>2
    <3> QED
      BY <3>1, <3>2, <3>3 DEF Numbered
  <2>6. ASSUME NEW q \in Seeker, waiting'[q] # None PROVE Awaits(q)'
    <3>1. CASE q = n
      <4>1. /\ waiting' = [waiting EXCEPT ![n] = [request |-> searches', identity |-> x]]
            /\ answers' = answers
        BY <2>3, <2>6, <3>1
      <4>2. waiting'[n].request = searches' /\ waiting'[n].identity = x
        BY <1>2, <4>1
      <4>3. answers'[n][searches'] = None
        <5>1. ~(searches' <= searches)
          BY <1>2, <2>1
        <5> QED
          BY <2>1, <4>1, <5>1 DEF Numbered
      <4>4. \A m \in Within(chan') : Fits(n, m)'
        <5>1. ASSUME NEW m \in Within(chan), m.kind \in {"request", "response"}
              PROVE  m.request # searches'
          <6>1. m.request <= searches /\ m.request \in 1..MaxSearches
            BY <1>4, <5>1 DEF Numbered, Within
          <6> QED
            BY <1>2, <2>1, <6>1
        <5> QED
          BY <2>1, <2>2, <4>2, <5>1 DEF Fits
      <4>5. ASSUME NEW y \in Node, held'[n][y] # None
            PROVE  held'[n][y] \in Logged(x, log'[y])
        <5>1. held'[n][y] = Resolved(y, x)
          BY <1>2, <2>3 DEF Snapshot
        <5>2. NewestOf(Resolved(y, x), Logged(x, store[y]))
          BY AnswerTypes
        <5>3. log' = log /\ Range(log[y]) = Range(store[y])
          BY <1>7 DEF Search, logVars, Stored
        <5> QED
          BY <4>5, <5>1, <5>2, <5>3 DEF NewestOf, Logged
      <4> QED
        BY <3>1, <4>2, <4>3, <4>4, <4>5 DEF Awaits
    <3>2. CASE q # n
      <4>1. waiting'[q] = waiting[q] /\ held'[q] = held[q] /\ answers'[q] = answers[q]
        BY <1>2, <2>3, <3>2
      <4>2. waiting[q].request # searches'
        BY <1>2, <1>3, <2>1, <2>6, <4>1
      <4>3. Fits(q, d)
        BY <2>2, <4>2 DEF Fits
      <4> QED
        BY <1>5, <2>1, <2>6, <4>1, <4>3
    <3> QED
      BY <3>1, <3>2
  <2> QED
    BY <2>5, <2>6 DEF Awaited
<1>8. ASSUME NEW n \in Seeker, Found(n) \/ TimeOut(n)
      PROVE  Numbered' /\ Awaited'
  <2>1. /\ waiting' = [waiting EXCEPT ![n] = None]
        /\ UNCHANGED <<answers, held, searches, chan>>
    BY <1>8 DEF Found, TimeOut
  <2>2. \A q \in Seeker : waiting'[q] = None \/ waiting'[q] = waiting[q]
    BY <1>2, <2>1
  <2>3. Numbered'
    BY <2>1, <2>2 DEF Numbered
  <2>4. \A q \in Seeker : waiting'[q] # None => Awaits(q)'
    BY <1>5, <2>1, <2>2
  <2> QED
    BY <2>3, <2>4 DEF Awaited
<1>9. ASSUME NEW p \in Node, NEW y \in Node, OnRequest(p, y)
      PROVE  Numbered' /\ Awaited'
  <2>1. PICK m : Answered(p, m)
    BY <1>9, RequestFlow
  <2> DEFINE d == Response(p, m.request, m.identity)
  <2>2. /\ m \in Requests /\ m \in Messages /\ m \in Within(chan) /\ m.kind = "request"
        /\ m.request \in 1..MaxSearches /\ m.identity \in Ident
    BY <2>1 DEF Answered, Requests, Messages
  <2>3. d.kind = "response" /\ d.request = m.request
    BY DEF Response
  <2>4. Within(chan') \subseteq Within(chan) \cup {d}
    BY <2>1 DEF Answered
  <2>5. UNCHANGED <<waiting, answers, held, searches>>
    BY <1>9 DEF OnRequest
  <2>6. ASSUME NEW n \in Seeker, waiting'[n] # None PROVE Fits(n, d)
    <3> SUFFICES ASSUME m.request = waiting[n].request
                 PROVE  Serves(n, d, waiting[n].identity)
      BY <2>3 DEF Fits
    <3>1. m.identity = waiting[n].identity
      BY <2>2, <2>5, <2>6 DEF Awaited, Awaits, Fits
    <3>2. held[n][p] # None => held[n][p] \in Logged(m.identity, log[p])
      BY <2>5, <2>6, <3>1 DEF Awaited, Awaits
    <3>3. Serves(n, d, m.identity)
      BY <2>2, <3>2, ResponseServes
    <3> HIDE DEF d
    <3> QED
      BY <3>1, <3>3
  <2> HIDE DEF d
  <2>7. Numbered'
    <3>1. m.request <= searches
      BY <2>2 DEF Numbered
    <3> QED
      BY <2>3, <2>4, <2>5, <3>1 DEF Numbered
  <2>8. \A n \in Seeker : waiting'[n] # None => Awaits(n)'
    BY <1>5, <2>4, <2>5, <2>6
  <2> QED
    BY <2>7, <2>8 DEF Awaited
<1>10. ASSUME NEW p \in Node, NEW y \in Node, OnResponse(p, y)
       PROVE  Numbered' /\ Awaited'
  <2>1. PICK m : Noted(p, m)
    BY <1>10, ResponseFlow
  <2>2. /\ m \in Responses /\ m \in Within(chan) /\ m.kind = "response"
        /\ m.request \in 1..MaxSearches
    BY <2>1 DEF Noted, Responses
  <2>3. Within(chan') \subseteq Within(chan)
    BY <2>1 DEF Noted
  <2>4. UNCHANGED <<waiting, held, searches>>
    BY <1>10 DEF OnResponse
  <2>5. \A n \in Seeker, i \in 1..MaxSearches :
           answers'[n][i] = answers[n][i] \/ (answers'[n][i] = m /\ i = m.request)
    BY <1>2, <2>1, <2>2 DEF Noted
  <2>6. Numbered'
    <3>1. m.request <= searches
      BY <2>2 DEF Numbered
    <3> QED
      BY <2>3, <2>4, <2>5, <3>1 DEF Numbered
  <2>7. ASSUME NEW n \in Seeker, waiting'[n] # None PROVE Awaits(n)'
    <3>1. Awaits(n) /\ waiting[n] # None
      BY <2>4, <2>7 DEF Awaited
    <3>2. PICK a : a = answers'[n][waiting[n].request]
      OBVIOUS
    <3>3. a = None \/ (a \in Responses /\ Serves(n, a, waiting[n].identity))
      <4>1. CASE a = answers[n][waiting[n].request]
        <5>1. a \in Responses \cup {None}
          BY <1>2, <1>3, <3>1, <4>1
        <5> QED
          BY <3>1, <4>1, <5>1 DEF Awaits
      <4>2. CASE a = m /\ m.request = waiting[n].request
        BY <2>2, <3>1, <4>2 DEF Awaits, Fits
      <4> QED
        BY <1>3, <2>5, <3>1, <3>2, <4>1, <4>2
    <3>4. \A d \in Within(chan') : d \in Within(chan) \/ Fits(n, d)
      BY <2>3
    <3>5. waiting'[n] = waiting[n] /\ held'[n] = held[n]
      BY <2>4
    <3> QED
      BY <1>1, <3>1, <3>2, <3>3, <3>4, <3>5, StillAwaits
  <2> QED
    BY <2>6, <2>7 DEF Awaited
<1>11. ASSUME NEW n \in Node, NEW p \in Node, OnRoute(n, p)
       PROVE  Numbered' /\ Awaited'
  <2>1. PICK m : Passed(n, m)
    BY <1>11, RouteFlow
  <2> QED
    BY <1>6, <1>11, <2>1 DEF OnRoute, Passed
<1>12. ASSUME NEW p \in Node, Restart(p)
       PROVE  Numbered' /\ Awaited'
  <2>1. Within(chan') \subseteq Within(chan)
    BY <1>12, ClosingFlow DEF TypeOK
  <2>2. UNCHANGED <<held, searches>>
    BY <1>12 DEF Restart
  <2>3. \A n \in Seeker :
           \/ waiting'[n] = waiting[n] /\ answers'[n] = answers[n]
           \/ waiting'[n] = None /\ \A i \in 1..MaxSearches : answers'[n][i] = None
    <3>1. CASE p \in Seeker
      <4>1. /\ waiting' = [waiting EXCEPT ![p] = None]
            /\ answers' = [answers EXCEPT ![p] = [i \in DOMAIN answers[p] |-> None]]
        BY <1>12, <3>1 DEF Restart
      <4>2. DOMAIN answers[p] = 1..MaxSearches
        BY <1>2, <3>1
      <4> QED
        BY <1>2, <4>1, <4>2
    <3>2. CASE p \notin Seeker
      BY <1>12, <3>2 DEF Restart
    <3> QED
      BY <3>1, <3>2
  <2>4. Numbered'
    BY <2>1, <2>2, <2>3 DEF Numbered
  <2>5. \A n \in Seeker : waiting'[n] # None => Awaits(n)'
    BY <1>5, <2>1, <2>2, <2>3
  <2> QED
    BY <2>4, <2>5 DEF Awaited
<1>13. ASSUME NEW x \in Publisher, Publish(x)
       PROVE  Numbered' /\ Awaited'
  <2>1. PICK r : Issued(x, r)
    BY <1>13, PublishFlow
  <2>2. Route(r).kind = "route"
    BY DEF Route
  <2>3. \A m \in Within(chan') :
           m \in Within(chan) \/ m.kind \notin {"request", "response"}
    BY <2>1, <2>2 DEF Issued
  <2> QED
    BY <1>6, <1>13, <2>3 DEF Publish
<1>14. ASSUME NEW x \in Publisher, NEW r \in Report, OnObserved(x, r)
       PROVE  Numbered' /\ Awaited'
  BY <1>6, <1>14 DEF OnObserved
<1>15. ASSUME NEW l \in Overlay, Lose(l)
       PROVE  Numbered' /\ Awaited'
  <2>1. Within(chan') \subseteq Within(chan)
    BY <1>15, ClosingFlow DEF TypeOK
  <2> QED
    BY <1>6, <1>15, <2>1 DEF Lose
<1>16. CASE UNCHANGED vars
  BY <1>6, <1>16 DEF vars, logVars, netVars
<1> QED
  BY <1>7, <1>8, <1>9, <1>10, <1>11, <1>12, <1>13, <1>14, <1>15, <1>16
     DEF Next, Receive
(* What FreshAnswer says of one node.                                      *)
Fresh(n) ==
    result[n].from # None /\ waiting[n] = None /\ held[n][result[n].from] # None =>
        /\ result[n].route # None
        /\ result[n].route.identity = result[n].identity
        /\ Len(RoutesOf(result[n].from, result[n].identity)) <= Limit =>
              ~Newer(held[n][result[n].from], result[n].route)

AllFresh == \A n \in Seeker : Fresh(n)

(* The same, of all.                                                       *)
LEMMA FreshForAll == FreshAnswer <=> AllFresh
BY DEF FreshAnswer, AllFresh, Fresh

(* A result stays fresh, and a new one is.                                 *)
LEMMA FreshNext ==
  ASSUME TypeOK, Stored, Known, Versions, Awaited, FreshAnswer, [Next]_vars
  PROVE  FreshAnswer'
<1>1. TypeOK' /\ Stored' /\ Grow
  BY NextTyped, RecordsNext
<1>2. /\ waiting \in [Seeker -> Searches \cup {None}]
      /\ answers \in [Seeker -> [1..MaxSearches -> Responses \cup {None}]]
      /\ result \in [Seeker -> Results]
      /\ held \in [Seeker -> [Node -> Routes \cup {None}]]
  BY DEF TypeOK
<1>3. \A n \in Seeker : Fresh(n)
  BY FreshForAll DEF AllFresh
<1>4. Seeker \subseteq Node
  BY SearchAssumption
(* Of one node, when its result stays as it is.                            *)
<1>5. ASSUME NEW n \in Seeker, result'[n] = result[n], held'[n] = held[n],
             waiting'[n] = None => waiting[n] = None
      PROVE  Fresh(n)'
  <2>1. PICK r \in Results : r = result[n] /\ r = result'[n]
    BY <1>2, <1>5
  <2>2. CASE r.from = None
    BY <2>1, <2>2 DEF Fresh
  <2>3. CASE r.from # None
    <3>1. r.from \in Node
      BY <2>3 DEF Results
    <3>2. /\ Len(RoutesOf(r.from, r.identity)) \in Nat
          /\ Len(RoutesOf(r.from, r.identity))' \in Nat
          /\ Len(RoutesOf(r.from, r.identity)) <= Len(RoutesOf(r.from, r.identity))'
      BY <1>1, <3>1, Longer
    <3>3. Limit \in Nat
      BY SearchAssumption
    <3>4. Len(RoutesOf(r.from, r.identity))' <= Limit =>
             Len(RoutesOf(r.from, r.identity)) <= Limit
      BY <3>2, <3>3
    <3>5. (Len(RoutesOf(result[n].from, result[n].identity)) <= Limit)' =>
             Len(RoutesOf(result[n].from, result[n].identity)) <= Limit
      BY <2>1, <3>4 DEF RoutesOf
    <3> QED
      BY <1>3, <1>5, <3>5 DEF Fresh
  <2> QED
    BY <2>2, <2>3
<1>6. ASSUME NEW n \in Seeker, NEW x \in Ident, Search(n, x) PROVE AllFresh'
  <2>1. held' = [held EXCEPT ![n] = Snapshot(x)] /\ n \in Node
    BY <1>4, <1>6 DEF Search
  <2>2. CASE Announces(n, x)
    <3>1. /\ result' = [result EXCEPT ![n] = [identity |-> x, from |-> n, route |-> None]]
          /\ waiting' = waiting
      BY <1>6, <2>2 DEF Search, Returns
    <3>2. result'[n].from = n /\ held'[n][n] = None
      BY <1>2, <1>6, <2>1, <3>1 DEF Search, Snapshot
    <3>3. Fresh(n)'
      BY <3>2 DEF Fresh
    <3>4. ASSUME NEW q \in Seeker, q # n PROVE Fresh(q)'
      <4>1. result'[q] = result[q] /\ held'[q] = held[q] /\ waiting'[q] = waiting[q]
        BY <1>2, <2>1, <3>1, <3>4
      <4> QED
        BY <1>5, <4>1
    <3> QED
      BY <3>3, <3>4 DEF AllFresh
  <2>3. CASE ~Announces(n, x)
    <3>1. /\ waiting' = [waiting EXCEPT ![n] = [request |-> searches', identity |-> x]]
          /\ result' = result
      BY <1>6, <2>3 DEF Search
    <3>2. waiting'[n] # None
      <4>1. searches' \in 1..MaxSearches
        BY <1>6, SearchFlow
      <4>2. [request |-> searches', identity |-> x] \in Searches
        BY <4>1 DEF Searches
      <4> QED
        BY <1>2, <3>1, <4>2, SearchAssumption
    <3>3. Fresh(n)'
      BY <3>2 DEF Fresh
    <3>4. ASSUME NEW q \in Seeker, q # n PROVE Fresh(q)'
      <4>1. result'[q] = result[q] /\ held'[q] = held[q] /\ waiting'[q] = waiting[q]
        BY <1>2, <2>1, <3>1, <3>4
      <4> QED
        BY <1>5, <4>1
    <3> QED
      BY <3>3, <3>4 DEF AllFresh
  <2> QED
    BY <2>2, <2>3
<1>7. ASSUME NEW n \in Seeker, Found(n) PROVE AllFresh'
  <2>1. PICK w : w = waiting[n]
    OBVIOUS
  <2>2. PICK a : a = answers[n][w.request]
    OBVIOUS
  <2>3. w \in Searches /\ a # None /\ a \in Responses
    BY <1>2, <1>7, <2>1, <2>2 DEF Found, Searches
  <2>4. PICK route : route = Latest(w.identity, a.routes)
    OBVIOUS
  <2>5. result' = [result EXCEPT
            ![n] = [identity |-> w.identity, from |-> a.from, route |-> route]]
    BY <1>7, <2>1, <2>2, <2>4 DEF Found, Returns
  <2>6. held' = held /\ log' = log /\ waiting' = [waiting EXCEPT ![n] = None]
    BY <1>7 DEF Found, logVars
  <2>7. Serves(n, a, w.identity)
    BY <1>7, <2>1, <2>2, <2>3 DEF Found, Awaited, Awaits
  <2>8. a.routes \in Seq(Routes) /\ a.from \in Node
    BY <2>3 DEF Responses
  <2>9. NewestOf(route, RoutesFor(w.identity, Range(a.routes)))
    BY <2>4, <2>8, LatestNewest
  <2>10. RoutesFor(w.identity, Range(a.routes)) = Range(a.routes)
    BY <2>7 DEF Serves, RoutesFor
  <2>11. ASSUME held[n][a.from] # None
         PROVE  /\ route # None /\ route.identity = w.identity
                /\ Len(RoutesOf(a.from, w.identity)) <= Limit =>
                      ~Newer(held[n][a.from], route)
    <3>1. Range(a.routes) # {}
      BY <2>7, <2>11 DEF Serves
    <3>2. /\ route # None /\ route \in Range(a.routes)
          /\ \A r \in Range(a.routes) : ~Newer(r, route)
      BY <2>9, <2>10, <3>1 DEF NewestOf
    <3>3. route.identity = w.identity
      BY <2>7, <3>2 DEF Serves
    <3>4. Len(RoutesOf(a.from, w.identity)) <= Limit => held[n][a.from] \in Range(a.routes)
      BY <2>7, <2>11 DEF Serves
    <3> QED
      BY <3>2, <3>3, <3>4
  <2>12. /\ result'[n].identity = w.identity /\ result'[n].from = a.from
         /\ result'[n].route = route
    BY <1>2, <2>5
  <2>13. Fresh(n)'
    BY <2>6, <2>11, <2>12 DEF Fresh, RoutesOf
  <2>14. ASSUME NEW q \in Seeker, q # n PROVE Fresh(q)'
    <3>1. result'[q] = result[q] /\ held'[q] = held[q] /\ waiting'[q] = waiting[q]
      BY <1>2, <2>5, <2>6, <2>14
    <3> QED
      BY <1>5, <3>1
  <2> QED
    BY <2>13, <2>14 DEF AllFresh
<1>8. ASSUME NEW n \in Seeker, NEW r \in Results, r.from = None,
             result' = [result EXCEPT ![n] = r], held' = held,
             waiting' = [waiting EXCEPT ![n] = None]
      PROVE  AllFresh'
  <2>1. result'[n].from = None
    BY <1>2, <1>8
  <2>2. Fresh(n)'
    BY <2>1 DEF Fresh
  <2>3. ASSUME NEW q \in Seeker, q # n PROVE Fresh(q)'
    <3>1. result'[q] = result[q] /\ held'[q] = held[q] /\ waiting'[q] = waiting[q]
      BY <1>2, <1>8, <2>3
    <3> QED
      BY <1>5, <3>1
  <2> QED
    BY <2>2, <2>3 DEF AllFresh
<1>9. ASSUME NEW n \in Seeker, TimeOut(n) PROVE AllFresh'
  <2> DEFINE r == [identity |-> waiting[n].identity, from |-> None, route |-> None]
  <2>1. waiting[n] \in Searches
    BY <1>2, <1>9 DEF TimeOut
  <2>2. r \in Results /\ r.from = None
    BY <2>1 DEF Results, Searches
  <2>3. /\ result' = [result EXCEPT ![n] = r] /\ held' = held
        /\ waiting' = [waiting EXCEPT ![n] = None]
    BY <1>9 DEF TimeOut, Returns
  <2> HIDE DEF r
  <2> QED
    BY <1>8, <2>2, <2>3
<1>10. ASSUME NEW n \in Node, Restart(n) PROVE AllFresh'
  <2>1. CASE n \in Seeker
    <3>1. Nothing \in Results /\ Nothing.from = None
      BY DEF Nothing, Results
    <3>2. /\ result' = [result EXCEPT ![n] = Nothing] /\ held' = held
          /\ waiting' = [waiting EXCEPT ![n] = None]
      BY <1>10, <2>1 DEF Restart
    <3> QED
      BY <1>8, <2>1, <3>1, <3>2
  <2>2. CASE n \notin Seeker
    BY <1>5, <1>10, <2>2 DEF Restart, AllFresh
  <2> QED
    BY <2>1, <2>2
<1>11. ASSUME UNCHANGED <<result, held, waiting>> PROVE AllFresh'
  BY <1>5, <1>11 DEF AllFresh
<1>12. ASSUME UNCHANGED vars PROVE AllFresh'
  BY <1>11, <1>12 DEF vars
<1>13. ASSUME NEW n \in Node, NEW p \in Node, Receive(n, p)
       PROVE  AllFresh'
  BY <1>11, <1>13 DEF Receive, OnRequest, OnResponse, OnRoute
<1>14. ASSUME NEW x \in Publisher, Publish(x) \/ (\E r \in Report : OnObserved(x, r))
       PROVE  AllFresh'
  BY <1>11, <1>14 DEF Publish, OnObserved
<1>15. ASSUME NEW l \in Overlay, Lose(l) PROVE AllFresh'
  BY <1>11, <1>15 DEF Lose
<1>16. AllFresh'
  BY <1>6, <1>7, <1>9, <1>10, <1>12, <1>13, <1>14, <1>15 DEF Next
<1> QED
  BY <1>16, FreshForAll, PTL

-----------------------------------------------------------------------------
(* The theorems.                                                           *)

(* The inductive invariant.                                                *)
IInv == TypeOK /\ Stored /\ Known /\ Versions /\ Numbered /\ Awaited /\ FreshAnswer

LEMMA Invariance == Spec => []IInv
<1>1. Init => IInv
  BY InitTyped, RecordsInit, AnswersInit DEF IInv
<1>2. IInv /\ [Next]_vars => IInv'
  BY NextTyped, RecordsNext, AnswersNext, FreshNext DEF IInv
<1> QED
  BY <1>1, <1>2, PTL DEF Spec

(* Every variable keeps its type: logs and stores hold announcements and   *)
(* routes only, channels hold requests, responses and routes, and every    *)
(* route that buildRouteAnnouncement makes is one.                         *)
THEOREM TypeCorrect == Spec => []TypeOK
BY Invariance, PTL DEF IInv

(* FreshAnswer: what searchIdentity returns from a node's response is a    *)
(* route of the identity asked for, not older than what that node held     *)
(* when the search began, unless it has more routes than the limit         *)
(* (searchRequest, handleRequestResponse, matchRoutes).                    *)
THEOREM AnswersFresh == Spec => []FreshAnswer
BY Invariance, PTL DEF IInv

(* RoutesNeverAge: no step makes a node resolve an older route or none for *)
(* an identity that it resolved, and its log and its store resolve to the  *)
(* same route (recordEvent, upsert, hydrateEventStore,                     *)
(* resolveRouteAnnouncement).                                              *)
THEOREM RoutesKept == Spec => RoutesNeverAge
<1>1. IInv /\ [Next]_vars =>
        [\A n \in Node, x \in Ident :
          <<log[n], store[n]>>' # <<log[n], store[n]>> =>
            LET was == Resolved(n, x)
                now == Resolved(n, x)'
            IN /\ was # None => now # None /\ ~Newer(was, now)
               /\ now = Latest(x, RoutesOf(n, x))']_vars
  BY NeverAges DEF IInv
<1> QED
  BY <1>1, Invariance, PTL DEF Spec, RoutesNeverAge

(* RouteNamesBest: whatever was reported, in whatever order, the endpoints *)
(* of a route but the relay are two at most, no other scored better, and   *)
(* each has its best score (buildRouteAnnouncement).                       *)
THEOREM RoutesNameBest == Spec => []RouteNamesBest
<1>1. TypeOK => RouteNamesBest
  <2> SUFFICES ASSUME TypeOK, NEW x \in Publisher PROVE NamesBest(x, reports[x])
    BY DEF RouteNamesBest, NamesBest, BestReported
  <2>1. reports[x] \in Seq(Reports)
    BY DEF TypeOK
  <2> QED
    BY <2>1, NamedBest
<1> QED
  BY <1>1, TypeCorrect, PTL
==============================================================================
