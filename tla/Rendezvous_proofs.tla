-------------------------- MODULE Rendezvous_proofs --------------------------
(***************************************************************************)
(* What holds of discovery for any bootstrap and regular nodes, overlay,   *)
(* capacities and expiry times, however often connections come, go and are *)
(* replaced.                                                               *)
(***************************************************************************)
EXTENDS Rendezvous, Integers, FiniteSetTheorems, TLAPS

Message == {Handshake} \cup [kind : {"record"}, record : Records]

Channels == [Node -> [Node -> Seq(Message)]]

TypeOK ==
    /\ cache \in [Boot -> Seq(Records)]
    /\ known \in [Client -> SUBSET Records]
    /\ dialled \in [Client -> SUBSET Node]
    /\ clock \in 0..MaxClock
    /\ swept \in [Boot -> 0..MaxClock]
    /\ chan \in Channels
    /\ links \subseteq Overlay
    /\ late \subseteq Node \X Node /\ hidden \subseteq Node \X Node
    /\ changes \in 0..MaxChanges

Entries(s) == {s[i] : i \in DOMAIN s}

(* The cache: its size, its owners, and its age, whose bound needs that no *)
(* sweep lies in the future.                                               *)
OwnersDiffer(c) == \A i, j \in DOMAIN c : c[i].owner = c[j].owner => i = j
Outlives(r, t) == Ttl[r.owner] # 0 => r.at + Ttl[r.owner] > t
Sound ==
    \A b \in Boot :
        /\ Len(cache[b]) <= Capacity[b] /\ OwnersDiffer(cache[b])
        /\ swept[b] <= clock
        /\ \A r \in Entries(cache[b]) : Outlives(r, swept[b])

(* What a regular node has sent, it has recorded, or owns.                 *)
Vouched(a, m) == m.kind = "record" => m.record \in known[a] \/ m.record.owner = a
ChanKnown ==
    \A a \in Client, x \in Node : \A m \in Entries(chan[a][x]) : Vouched(a, m)

IInv == TypeOK /\ Sound /\ ChanKnown /\ Introduced

-----------------------------------------------------------------------------
(* Numbers.  Induction over the naturals in the form the provers take: a   *)
(* set of them that is not empty has a least element.                      *)

LEMMA Least ==
  ASSUME NEW T \in SUBSET Nat, T # {}
  PROVE  \E x \in T : \A y \in T : x <= y
<1> DEFINE U == {0..n : n \in T}
<1>1. U \subseteq FiniteSubsetsOf(Nat)
  <2> SUFFICES ASSUME NEW n \in T PROVE 0..n \in FiniteSubsetsOf(Nat)
    OBVIOUS
  <2>1. IsFiniteSet(0..n)
    BY FS_Interval
  <2> QED
    BY <2>1 DEF FiniteSubsetsOf
<1>2. U # {}
  OBVIOUS
<1>3. PICK u \in U : \A v \in U : ~(<<v, u>> \in StrictSubsetOrdering(Nat))
  <2> HIDE DEF U
  <2> QED
    BY <1>1, <1>2, WFMin, FS_StrictSubsetOrderingWellFounded
<1>4. PICK n \in T : u = 0..n
  OBVIOUS
<1>5. ASSUME NEW m \in T, m < n PROVE FALSE
  <2>1. n \in 0..n /\ n \notin 0..m /\ 0..m \subseteq 0..n
    BY <1>5
  <2>2. <<0..m, 0..n>> \in StrictSubsetOrdering(Nat)
    BY <2>1 DEF StrictSubsetOrdering
  <2> QED
    BY <1>3, <1>4, <2>2
<1> QED
  BY <1>5

-----------------------------------------------------------------------------
(* Sequences.                                                              *)

(* The positions kept, in order: each is the choice for its rank.          *)
LEMMA Ranked ==
  ASSUME NEW n \in Nat, NEW K \in SUBSET (1..n)
  PROVE  /\ Cardinality(K) \in Nat /\ Cardinality(K) <= n
         /\ K # 1..n => Cardinality(K) < n
         /\ \A k \in 1..Cardinality(K) :
               \E i \in K : Cardinality({j \in K : j < i}) = k - 1
<1> DEFINE Below(i) == {j \in K : j < i}
           rank(i) == Cardinality(Below(i))
           m == Cardinality(K)
           f == [i \in K |-> rank(i) + 1]
<1>1. IsFiniteSet(1..n) /\ Cardinality(1..n) = n
  BY FS_Interval
<1>2. IsFiniteSet(K) /\ m \in Nat /\ m <= n /\ (m = n => K = 1..n)
  BY <1>1, FS_Subset, FS_CardinalityType
<1>3. ASSUME NEW i \in K PROVE IsFiniteSet(Below(i)) /\ rank(i) \in Nat /\ rank(i) < m
  <2>1. Below(i) \in SUBSET (K \ {i})
    OBVIOUS
  <2>2. IsFiniteSet(K \ {i}) /\ Cardinality(K \ {i}) = m - 1
    BY <1>2, FS_RemoveElement
  <2> HIDE DEF Below, m
  <2>3. IsFiniteSet(Below(i)) /\ Cardinality(Below(i)) <= m - 1
    BY <2>1, <2>2, FS_Subset
  <2>4. Cardinality(Below(i)) \in Nat
    BY <2>3, FS_CardinalityType
  <2> QED
    BY <1>2, <2>3, <2>4
<1>4. ASSUME NEW i \in K, NEW j \in K, i < j PROVE rank(i) < rank(j)
  <2>0. \A k \in K : k \in Nat
    OBVIOUS
  <2>1. Below(i) \in SUBSET (Below(j) \ {i}) /\ i \in Below(j)
    <3>1. \A k \in Below(i) : k \in Below(j) /\ k # i
      BY <1>4, <2>0
    <3> QED
      BY <1>4, <3>1
  <2>2. /\ IsFiniteSet(Below(j)) /\ rank(j) \in Nat
        /\ IsFiniteSet(Below(i)) /\ rank(i) \in Nat
    BY <1>3
  <2> HIDE DEF Below
  <2>3. IsFiniteSet(Below(j) \ {i}) /\ Cardinality(Below(j) \ {i}) = rank(j) - 1
    BY <2>1, <2>2, FS_RemoveElement
  <2>4. Cardinality(Below(i)) <= rank(j) - 1
    BY <2>1, <2>3, FS_Subset
  <2> QED
    BY <2>2, <2>4
<1> HIDE DEF Below, rank, m
<1>5. f \in [K -> 1..m]
  BY <1>2, <1>3
<1>6. ASSUME NEW i \in K, NEW j \in K, f[i] = f[j] PROVE i = j
  <2>1. rank(i) = rank(j) /\ rank(i) \in Nat
    BY <1>3, <1>6
  <2>2. i \in Nat /\ j \in Nat
    OBVIOUS
  <2> QED
    BY <1>4, <2>1, <2>2
<1> HIDE DEF f
<1>7. f \in Injection(K, 1..m)
  BY <1>5, <1>6 DEF Injection, IsInjective
<1>8. IsFiniteSet(1..m) /\ Cardinality(1..m) = m
  BY <1>2, FS_Interval
<1>9. f \in Surjection(K, 1..m)
  BY <1>7, <1>8, FS_Injection DEF m
<1>10. ASSUME NEW k \in 1..m PROVE \E i \in K : rank(i) = k - 1
  <2>1. PICK i \in K : f[i] = k
    BY <1>9 DEF Surjection
  <2>2. rank(i) + 1 = k /\ rank(i) \in Nat
    BY <1>3, <2>1 DEF f
  <2> QED
    BY <2>2
<1> QED
  BY <1>2, <1>10 DEF m, rank, Below

(* Keeping entries of a sequence gives entries of it, each position once,  *)
(* and fewer when some are not kept.                                       *)
LEMMA KeptFacts ==
  ASSUME NEW S, NEW c \in Seq(S), NEW K \in SUBSET DOMAIN c
  PROVE  /\ Kept(c, K) \in Seq(S)
         /\ Len(Kept(c, K)) <= Len(c)
         /\ K # DOMAIN c => Len(Kept(c, K)) < Len(c)
         /\ \E e \in [DOMAIN Kept(c, K) -> K] :
               /\ \A k \in DOMAIN Kept(c, K) : Kept(c, K)[k] = c[e[k]]
               /\ \A k, l \in DOMAIN Kept(c, K) : e[k] = e[l] => k = l
<1> DEFINE n == Cardinality(K)
           rank(i) == Cardinality({j \in K : j < i})
           e == [k \in 1..n |-> CHOOSE i \in K : rank(i) = k - 1]
           d == Kept(c, K)
<1>1. Len(c) \in Nat /\ DOMAIN c = 1..Len(c)
  OBVIOUS
<1>2. /\ n \in Nat /\ n <= Len(c) /\ (K # DOMAIN c => n < Len(c))
      /\ \A k \in 1..n : \E i \in K : rank(i) = k - 1
  <2>1. Len(c) \in Nat /\ K \in SUBSET (1..Len(c))
    BY <1>1
  <2>2. /\ Cardinality(K) \in Nat /\ Cardinality(K) <= Len(c)
        /\ K # 1..Len(c) => Cardinality(K) < Len(c)
        /\ \A k \in 1..Cardinality(K) :
              \E i \in K : Cardinality({j \in K : j < i}) = k - 1
    BY <2>1, Ranked, Zenon
  <2> QED
    BY <1>1, <2>2
<1>3. d = [k \in 1..n |-> c[CHOOSE i \in K : rank(i) = k - 1]]
  BY DEF Kept
<1> HIDE DEF n, rank, d
<1>4. \A k \in 1..n : e[k] \in K /\ rank(e[k]) = k - 1
  BY <1>2
<1>5. \A k \in 1..n : d[k] = c[e[k]]
  BY <1>3
<1> HIDE DEF e
<1>6. \A k \in 1..n : c[e[k]] \in S
  BY <1>4
<1>7. d \in [1..n -> S]
  <2>1. d = [k \in 1..n |-> d[k]]
    BY <1>3
  <2> QED
    BY <1>5, <1>6, <2>1
<1>8. d \in Seq(S) /\ Len(d) = n /\ DOMAIN d = 1..n
  BY <1>2, <1>7
<1>9. e \in [1..n -> K]
  BY <1>4 DEF e
<1>10. \A k, l \in 1..n : e[k] = e[l] => k = l
  BY <1>2, <1>4
<1> QED
  BY <1>2, <1>5, <1>8, <1>9, <1>10 DEF d

-----------------------------------------------------------------------------
(* The cache, operation by operation.                                      *)

(* What is left of a cache: entries it had, no owner twice.                *)
LeftOf(d, c) ==
    /\ d \in Seq(Records) /\ Len(d) <= Len(c)
    /\ Entries(d) \subseteq Entries(c)
    /\ OwnersDiffer(c) => OwnersDiffer(d)

LEMMA KeptLeft ==
  ASSUME NEW c \in Seq(Records), NEW K \in SUBSET DOMAIN c
  PROVE  /\ LeftOf(Kept(c, K), c)
         /\ K # DOMAIN c => Len(Kept(c, K)) < Len(c)
         /\ \A q \in Entries(Kept(c, K)) : \E i \in K : q = c[i]
<1> DEFINE d == Kept(c, K)
<1>1. /\ d \in Seq(Records) /\ Len(d) <= Len(c)
      /\ K # DOMAIN c => Len(d) < Len(c)
  BY KeptFacts
<1>2. PICK e \in [DOMAIN d -> K] :
          /\ \A k \in DOMAIN d : d[k] = c[e[k]]
          /\ \A k, l \in DOMAIN d : e[k] = e[l] => k = l
  BY KeptFacts
<1> HIDE DEF d
<1>3. \A k \in DOMAIN d : e[k] \in K /\ e[k] \in DOMAIN c
  BY <1>2
<1>4. Entries(d) \subseteq Entries(c) /\ \A q \in Entries(d) : \E i \in K : q = c[i]
  BY <1>2, <1>3 DEF Entries
<1>5. OwnersDiffer(c) => OwnersDiffer(d)
  BY <1>2, <1>3 DEF OwnersDiffer
<1> QED
  BY <1>1, <1>4, <1>5 DEF d, LeftOf

(* A cache that is not empty has an entry to evict.                        *)
LEMMA OldestExists ==
  ASSUME NEW c \in Seq(Records), c # <<>>
  PROVE  Oldest(c) \in DOMAIN c
<1> USE RendezvousAssumption
<1> DEFINE T == {c[i].at : i \in DOMAIN c}
<1>1. /\ Len(c) \in Nat /\ Len(c) # 0 /\ DOMAIN c = 1..Len(c)
      /\ \A i \in DOMAIN c : c[i] \in Records
  OBVIOUS
<1>2. \A i \in DOMAIN c : c[i].at \in Nat
  BY <1>1 DEF Records
<1>3. T \in SUBSET Nat /\ T # {}
  <2>1. 1 \in DOMAIN c
    BY <1>1
  <2> QED
    BY <1>2, <2>1
<1>4. PICK t \in T : \A y \in T : t <= y
  <2> HIDE DEF T
  <2> QED
    BY <1>3, Least
<1> DEFINE I == {i \in DOMAIN c : c[i].at = t}
<1>5. I \in SUBSET Nat /\ I # {}
  BY <1>1
<1>6. PICK i \in I : \A j \in I : i <= j
  <2> HIDE DEF I
  <2> QED
    BY <1>5, Least
<1>7. i \in DOMAIN c /\ c[i].at = t /\ i \in Nat
  BY <1>1
<1>8. \A j \in DOMAIN c : c[i].at <= c[j].at
  BY <1>4, <1>7
<1>9. ASSUME NEW j \in 1..(i - 1) PROVE c[j].at > c[i].at
  <2>1. j \in DOMAIN c /\ j < i /\ j \in Nat
    BY <1>1, <1>7
  <2>2. j \notin I
    BY <1>6, <1>7, <2>1
  <2>3. c[j].at # c[i].at
    BY <1>7, <2>1, <2>2
  <2> QED
    BY <1>2, <1>7, <1>8, <2>1, <2>3
<1> HIDE DEF T, I
<1> QED
  BY <1>7, <1>8, <1>9 DEF Oldest

(* upsert keeps the cache in its bounds: the record goes where that of its *)
(* owner was, or room is made for it.                                      *)
LEMMA UpsertedCache ==
  ASSUME NEW b \in Boot, NEW r \in Records, cache[b] \in Seq(Records),
         Len(cache[b]) <= Capacity[b], OwnersDiffer(cache[b])
  PROVE  /\ Upserted(b, r) \in Seq(Records)
         /\ Len(Upserted(b, r)) <= Capacity[b]
         /\ OwnersDiffer(Upserted(b, r))
         /\ Entries(Upserted(b, r)) \subseteq Entries(cache[b]) \cup {r}
<1> DEFINE c == cache[b]
           d == Upserted(b, r)
           room == IF Full(b, c) THEN Without(c, c[Oldest(c)].owner) ELSE c
<1>1. /\ c \in Seq(Records) /\ Len(c) \in Nat /\ DOMAIN c = 1..Len(c)
      /\ Capacity[b] \in Nat /\ Capacity[b] # 0 /\ Len(c) <= Capacity[b]
      /\ OwnersDiffer(c)
  BY RendezvousAssumption
<1>2. CASE Owned(c, r.owner) # {}
  <2>1. d = [i \in DOMAIN c |-> IF c[i].owner = r.owner THEN r ELSE c[i]]
    BY <1>2 DEF Upserted
  <2> HIDE DEF d
  <2> HIDE DEF c
  <2>2. d \in [1..Len(c) -> Records]
    BY <1>1, <2>1
  <2>3. d \in Seq(Records) /\ Len(d) = Len(c) /\ DOMAIN d = DOMAIN c
    BY <1>1, <2>2
  <2>4. \A i \in DOMAIN d : d[i].owner = c[i].owner
    BY <2>1, <2>3
  <2>5. OwnersDiffer(d)
    BY <1>1, <2>3, <2>4 DEF OwnersDiffer
  <2>6. Entries(d) \subseteq Entries(c) \cup {r}
    BY <2>1, <2>3 DEF Entries
  <2> QED
    BY <1>1, <2>3, <2>5, <2>6 DEF d, c
<1>3. CASE Owned(c, r.owner) = {}
  <2>1. d = Append(room, r)
    BY <1>3 DEF Upserted
  <2>2. LeftOf(room, c) /\ Len(room) < Capacity[b]
    <3>1. CASE Full(b, c)
      <4>1. c # <<>>
        BY <1>1, <3>1 DEF Full
      <4>2. Oldest(c) \in DOMAIN c
        BY <1>1, <4>1, OldestExists
      <4> DEFINE K == {i \in DOMAIN c : c[i].owner # c[Oldest(c)].owner}
      <4>3. K \in SUBSET DOMAIN c /\ K # DOMAIN c
        BY <4>2
      <4>4. room = Kept(c, K)
        BY <3>1 DEF Without
      <4> HIDE DEF K, c
      <4>5. LeftOf(Kept(c, K), c) /\ Len(Kept(c, K)) < Len(c)
        BY <1>1, <4>3, KeptLeft
      <4>6. Len(Kept(c, K)) \in Nat
        BY <4>5 DEF LeftOf
      <4> HIDE DEF room
      <4> QED
        BY <1>1, <4>4, <4>5, <4>6
    <3>2. CASE ~Full(b, c)
      <4>1. room = c /\ Len(c) < Capacity[b]
        BY <1>1, <3>2 DEF Full
      <4> QED
        BY <1>1, <4>1 DEF LeftOf
    <3> QED
      BY <3>1, <3>2
  <2> HIDE DEF room, d
  <2>3. /\ room \in Seq(Records) /\ Len(room) \in Nat /\ DOMAIN room = 1..Len(room)
        /\ OwnersDiffer(room) /\ Entries(room) \subseteq Entries(c)
    BY <2>2 DEF LeftOf
  <2>4. /\ d \in Seq(Records) /\ Len(d) = Len(room) + 1
        /\ DOMAIN d = 1..(Len(room) + 1)
        /\ d[Len(room) + 1] = r /\ \A i \in 1..Len(room) : d[i] = room[i]
    BY <2>1, <2>3
  <2>5. Entries(d) \subseteq Entries(c) \cup {r}
    <3>1. ASSUME NEW i \in DOMAIN d PROVE d[i] \in Entries(room) \cup {r}
      <4>1. i = Len(room) + 1 \/ i \in 1..Len(room)
        BY <2>3, <2>4
      <4> QED
        BY <2>3, <2>4, <4>1 DEF Entries
    <3>2. Entries(d) \subseteq Entries(room) \cup {r}
      BY <3>1 DEF Entries
    <3> QED
      BY <2>3, <3>2
  <2>6. \A i \in 1..Len(room) : room[i].owner # r.owner
    <3>1. ASSUME NEW i \in 1..Len(room) PROVE room[i].owner # r.owner
      <4>1. room[i] \in Entries(c)
        BY <2>3 DEF Entries
      <4>2. PICK j \in DOMAIN c : room[i] = c[j]
        BY <4>1 DEF Entries
      <4> QED
        BY <1>3, <4>2 DEF Owned
    <3> QED
      BY <3>1
  <2>7. OwnersDiffer(d)
    <3> SUFFICES ASSUME NEW i \in DOMAIN d, NEW j \in DOMAIN d,
                        d[i].owner = d[j].owner
                 PROVE  i = j
      BY DEF OwnersDiffer
    <3>1. /\ i = Len(room) + 1 \/ i \in 1..Len(room)
          /\ j = Len(room) + 1 \/ j \in 1..Len(room)
      BY <2>3, <2>4
    <3> QED
      BY <2>3, <2>4, <2>6, <3>1 DEF OwnersDiffer
  <2>8. Len(d) <= Capacity[b]
    BY <1>1, <2>2, <2>3, <2>4
  <2> QED
    BY <2>4, <2>5, <2>7, <2>8 DEF d
<1> QED
  BY <1>2, <1>3

-----------------------------------------------------------------------------
(* The channels, operation by operation.                                   *)

(* What handling a message from p at n may do to them: the message leaves, *)
(* and those of M go to the nodes of P, behind what is there.              *)
Handled(ch, n, p, P, M) ==
    /\ ch \in Channels
    /\ \A a, x \in Node :
          /\ Entries(ch[a][x]) \subseteq
                Entries(chan[a][x]) \cup IF a = n /\ x \in P THEN M ELSE {}
          /\ a = n /\ x \in P => M \subseteq Entries(ch[a][x])
          /\ Entries(chan[a][x]) \subseteq Entries(ch[a][x]) \cup {Head(chan[p][n])}
          /\ <<a, x>> # <<p, n>> =>
                /\ Entries(chan[a][x]) \subseteq Entries(ch[a][x])
                /\ chan[a][x] # <<>> =>
                      ch[a][x] # <<>> /\ Head(ch[a][x]) = Head(chan[a][x])

LEMMA TailEntries ==
  ASSUME NEW S, NEW s \in Seq(S), s # <<>>
  PROVE  /\ Tail(s) \in Seq(S) /\ Head(s) \in S
         /\ Entries(Tail(s)) \subseteq Entries(s)
         /\ Entries(s) \subseteq Entries(Tail(s)) \cup {Head(s)}
         /\ Head(s) \in Entries(s)
<1>1. /\ Len(s) \in Nat /\ Len(s) # 0 /\ DOMAIN s = 1..Len(s)
      /\ \A i \in 1..Len(s) : s[i] \in S
  OBVIOUS
<1>2. /\ Tail(s) \in Seq(S) /\ DOMAIN Tail(s) = 1..(Len(s) - 1)
      /\ \A i \in 1..(Len(s) - 1) : Tail(s)[i] = s[i + 1]
      /\ Head(s) = s[1] /\ Head(s) \in S
  OBVIOUS
<1>3. ASSUME NEW i \in 1..(Len(s) - 1) PROVE Tail(s)[i] \in Entries(s)
  <2>1. i + 1 \in 1..Len(s)
    BY <1>1
  <2> QED
    BY <1>1, <1>2, <2>1 DEF Entries
<1>4. ASSUME NEW i \in 1..Len(s) PROVE s[i] \in Entries(Tail(s)) \cup {Head(s)}
  <2>1. CASE i = 1
    BY <1>2, <2>1
  <2>2. CASE i # 1
    <3>1. i - 1 \in 1..(Len(s) - 1) /\ (i - 1) + 1 = i
      BY <1>1, <2>2
    <3>2. Tail(s)[i - 1] = s[i]
      BY <1>2, <3>1
    <3> QED
      BY <1>2, <3>1, <3>2 DEF Entries
  <2> QED
    BY <2>1, <2>2
<1>5. 1 \in 1..Len(s)
  BY <1>1
<1> QED
  BY <1>1, <1>2, <1>3, <1>4, <1>5 DEF Entries

LEMMA AppendEntries ==
  ASSUME NEW S, NEW s \in Seq(S), NEW m \in S
  PROVE  /\ Append(s, m) \in Seq(S) /\ Append(s, m) # <<>>
         /\ Entries(Append(s, m)) = Entries(s) \cup {m}
         /\ s # <<>> => Head(Append(s, m)) = Head(s)
<1>1. Len(s) \in Nat /\ DOMAIN s = 1..Len(s)
  OBVIOUS
<1>2. /\ Append(s, m) \in Seq(S) /\ Append(s, m) # <<>>
      /\ DOMAIN Append(s, m) = 1..(Len(s) + 1)
      /\ \A i \in 1..Len(s) : Append(s, m)[i] = s[i]
      /\ Append(s, m)[Len(s) + 1] = m
  BY <1>1
<1>3. s # <<>> => Head(Append(s, m)) = Head(s)
  OBVIOUS
<1>4. ASSUME NEW i \in 1..(Len(s) + 1) PROVE Append(s, m)[i] \in Entries(s) \cup {m}
  <2>1. i \in 1..Len(s) \/ i = Len(s) + 1
    BY <1>1
  <2> QED
    BY <1>1, <1>2, <2>1 DEF Entries
<1>5. Entries(Append(s, m)) \subseteq Entries(s) \cup {m}
  BY <1>2, <1>4 DEF Entries
<1>6. ASSUME NEW i \in 1..Len(s) PROVE s[i] \in Entries(Append(s, m))
  <2>1. i \in 1..(Len(s) + 1)
    BY <1>1
  <2> QED
    BY <1>2, <2>1 DEF Entries
<1>7. m \in Entries(Append(s, m))
  <2>1. Len(s) + 1 \in 1..(Len(s) + 1)
    BY <1>1
  <2> QED
    BY <1>2, <2>1 DEF Entries
<1>8. Entries(s) \subseteq Entries(Append(s, m))
  BY <1>1, <1>6 DEF Entries
<1> QED
  BY <1>2, <1>3, <1>5, <1>7, <1>8

LEMMA ConcatEntries ==
  ASSUME NEW S, NEW s \in Seq(S), NEW t \in Seq(S)
  PROVE  /\ s \o t \in Seq(S)
         /\ Entries(s \o t) = Entries(s) \cup Entries(t)
         /\ s # <<>> => s \o t # <<>> /\ Head(s \o t) = Head(s)
<1>1. /\ Len(s) \in Nat /\ DOMAIN s = 1..Len(s)
      /\ Len(t) \in Nat /\ DOMAIN t = 1..Len(t)
  OBVIOUS
<1>2. /\ s \o t \in Seq(S) /\ DOMAIN (s \o t) = 1..(Len(s) + Len(t))
      /\ \A i \in 1..Len(s) : (s \o t)[i] = s[i]
      /\ \A i \in 1..Len(t) : (s \o t)[Len(s) + i] = t[i]
  BY <1>1
<1>3. s # <<>> => s \o t # <<>> /\ Head(s \o t) = Head(s)
  OBVIOUS
<1>4. ASSUME NEW i \in 1..(Len(s) + Len(t))
      PROVE  (s \o t)[i] \in Entries(s) \cup Entries(t)
  <2>1. CASE i \in 1..Len(s)
    BY <1>1, <1>2, <2>1 DEF Entries
  <2>2. CASE i \notin 1..Len(s)
    <3>1. i - Len(s) \in 1..Len(t) /\ Len(s) + (i - Len(s)) = i
      BY <1>1, <2>2
    <3>2. (s \o t)[i] = t[i - Len(s)]
      BY <1>2, <3>1
    <3> QED
      BY <1>1, <3>1, <3>2 DEF Entries
  <2> QED
    BY <2>1, <2>2
<1>5. ASSUME NEW i \in 1..Len(s) PROVE s[i] \in Entries(s \o t)
  <2>1. i \in 1..(Len(s) + Len(t))
    BY <1>1
  <2> QED
    BY <1>2, <2>1 DEF Entries
<1>6. ASSUME NEW i \in 1..Len(t) PROVE t[i] \in Entries(s \o t)
  <2>1. Len(s) + i \in 1..(Len(s) + Len(t))
    BY <1>1
  <2> QED
    BY <1>2, <2>1 DEF Entries
<1>7. Entries(s \o t) \subseteq Entries(s) \cup Entries(t)
  BY <1>2, <1>4 DEF Entries
<1>8. Entries(s) \subseteq Entries(s \o t) /\ Entries(t) \subseteq Entries(s \o t)
  BY <1>1, <1>5, <1>6 DEF Entries
<1> QED
  BY <1>2, <1>3, <1>7, <1>8

LEMMA TakenFacts ==
  ASSUME chan \in Channels, NEW n \in Node, NEW p \in Node, chan[p][n] # <<>>
  PROVE  /\ Taken(n, p) \in Channels
         /\ Taken(n, p)[p][n] = Tail(chan[p][n])
         /\ \A a, x \in Node : <<a, x>> # <<p, n>> => Taken(n, p)[a][x] = chan[a][x]
<1>1. chan[p][n] \in Seq(Message)
  BY DEF Channels
<1>2. Tail(chan[p][n]) \in Seq(Message)
  BY <1>1
<1> QED
  BY <1>2 DEF Channels, Taken

(* The message leaves and nothing is sent.                                 *)
LEMMA HandledSilently ==
  ASSUME chan \in Channels, NEW n \in Node, NEW p \in Node, chan[p][n] # <<>>
  PROVE  Handled(Taken(n, p), n, p, {}, {})
<1> DEFINE T == Taken(n, p)
<1>1. /\ T \in Channels /\ T[p][n] = Tail(chan[p][n])
      /\ \A a, x \in Node : <<a, x>> # <<p, n>> => T[a][x] = chan[a][x]
  BY TakenFacts
<1>2. chan[p][n] \in Seq(Message)
  BY DEF Channels
<1>3. /\ Entries(T[p][n]) \subseteq Entries(chan[p][n])
      /\ Entries(chan[p][n]) \subseteq Entries(T[p][n]) \cup {Head(chan[p][n])}
  BY <1>1, <1>2, TailEntries
<1> HIDE DEF T
<1>4. ASSUME NEW a \in Node, NEW x \in Node
      PROVE  /\ Entries(T[a][x]) \subseteq Entries(chan[a][x])
             /\ Entries(chan[a][x]) \subseteq Entries(T[a][x]) \cup {Head(chan[p][n])}
  <2>1. CASE <<a, x>> = <<p, n>>
    BY <1>3, <2>1
  <2>2. CASE <<a, x>> # <<p, n>>
    BY <1>1, <2>2
  <2> QED
    BY <2>1, <2>2
<1>5. Handled(T, n, p, {}, {})
  BY <1>1, <1>4 DEF Handled
<1> QED
  BY <1>5 DEF T

(* The message leaves, and m goes to the nodes of P.                       *)
LEMMA HandledSent ==
  ASSUME chan \in Channels, NEW n \in Node, NEW p \in Node, chan[p][n] # <<>>,
         NEW P, NEW m \in Message
  PROVE  Handled(SentTo(Taken(n, p), n, P, m), n, p, P, {m})
<1> DEFINE T == Taken(n, p)
           D == SentTo(T, n, P, m)
<1>1. T \in Channels /\ Handled(T, n, p, {}, {})
  BY TakenFacts, HandledSilently
<1> HIDE DEF T
<1>2. \A a, x \in Node :
          D[a][x] = IF a = n /\ x \in P THEN Append(T[a][x], m) ELSE T[a][x]
  BY <1>1 DEF Channels, SentTo
<1>3. \A a, x \in Node : T[a][x] \in Seq(Message)
  BY <1>1 DEF Channels
<1>4. \A x \in Node : IF x \in P THEN Append(T[n][x], m) \in Seq(Message)
                                ELSE T[n][x] \in Seq(Message)
  BY <1>3, AppendEntries
<1>5. D \in Channels
  <2> DEFINE row == [x \in Node |-> IF x \in P THEN Append(T[n][x], m) ELSE T[n][x]]
  <2>1. row \in [Node -> Seq(Message)]
    BY <1>4
  <2>2. D = [T EXCEPT ![n] = row]
    BY DEF SentTo
  <2> HIDE DEF row, D
  <2> QED
    BY <1>1, <2>1, <2>2 DEF Channels
<1> HIDE DEF D
<1>6. ASSUME NEW a \in Node, NEW x \in Node
      PROVE  /\ Entries(D[a][x]) = Entries(T[a][x]) \cup IF a = n /\ x \in P THEN {m} ELSE {}
             /\ T[a][x] # <<>> => D[a][x] # <<>> /\ Head(D[a][x]) = Head(T[a][x])
  <2>1. CASE a = n /\ x \in P
    <3>1. D[a][x] = Append(T[a][x], m)
      BY <1>2, <2>1
    <3> QED
      BY <1>3, <2>1, <3>1, AppendEntries
  <2>2. CASE ~(a = n /\ x \in P)
    <3>1. D[a][x] = T[a][x]
      BY <1>2, <2>2
    <3> QED
      BY <2>2, <3>1
  <2> QED
    BY <2>1, <2>2
<1>7. Handled(D, n, p, P, {m})
  <2> SUFFICES ASSUME NEW a \in Node, NEW x \in Node
      PROVE  /\ Entries(D[a][x]) \subseteq
                    Entries(chan[a][x]) \cup IF a = n /\ x \in P THEN {m} ELSE {}
             /\ a = n /\ x \in P => {m} \subseteq Entries(D[a][x])
             /\ Entries(chan[a][x]) \subseteq Entries(D[a][x]) \cup {Head(chan[p][n])}
             /\ <<a, x>> # <<p, n>> =>
                   /\ Entries(chan[a][x]) \subseteq Entries(D[a][x])
                   /\ chan[a][x] # <<>> =>
                         D[a][x] # <<>> /\ Head(D[a][x]) = Head(chan[a][x])
    BY <1>5 DEF Handled
  <2>1. /\ Entries(T[a][x]) \subseteq Entries(chan[a][x])
        /\ Entries(chan[a][x]) \subseteq Entries(T[a][x]) \cup {Head(chan[p][n])}
        /\ <<a, x>> # <<p, n>> =>
              /\ Entries(chan[a][x]) \subseteq Entries(T[a][x])
              /\ chan[a][x] # <<>> =>
                    T[a][x] # <<>> /\ Head(T[a][x]) = Head(chan[a][x])
    BY <1>1 DEF Handled
  <2> QED
    BY <1>6, <2>1
<1> QED
  BY <1>7 DEF D, T

(* The message leaves, and the messages of t go where it came from.        *)
LEMMA HandledAnswered ==
  ASSUME chan \in Channels, NEW n \in Node, NEW p \in Node, chan[p][n] # <<>>,
         NEW t \in Seq(Message)
  PROVE  Handled([Taken(n, p) EXCEPT ![n][p] = @ \o t], n, p, {p}, Entries(t))
<1> DEFINE T == Taken(n, p)
           D == [T EXCEPT ![n][p] = @ \o t]
<1>1. T \in Channels /\ Handled(T, n, p, {}, {})
  BY TakenFacts, HandledSilently
<1> HIDE DEF T
<1>2. \A a, x \in Node :
          D[a][x] = IF a = n /\ x = p THEN T[a][x] \o t ELSE T[a][x]
  BY <1>1 DEF Channels
<1>3. \A a, x \in Node : T[a][x] \in Seq(Message)
  BY <1>1 DEF Channels
<1>4. T[n][p] \o t \in Seq(Message)
  BY <1>3, ConcatEntries
<1>5. D \in Channels
  BY <1>1, <1>4 DEF Channels
<1> HIDE DEF D
<1>6. ASSUME NEW a \in Node, NEW x \in Node
      PROVE  /\ Entries(D[a][x]) =
                    Entries(T[a][x]) \cup IF a = n /\ x \in {p} THEN Entries(t) ELSE {}
             /\ T[a][x] # <<>> => D[a][x] # <<>> /\ Head(D[a][x]) = Head(T[a][x])
  <2>1. CASE a = n /\ x = p
    <3>1. D[a][x] = T[a][x] \o t
      BY <1>2, <2>1
    <3> QED
      BY <1>3, <2>1, <3>1, ConcatEntries
  <2>2. CASE ~(a = n /\ x = p)
    <3>1. D[a][x] = T[a][x]
      BY <1>2, <2>2
    <3> QED
      BY <2>2, <3>1
  <2> QED
    BY <2>1, <2>2
<1>7. Handled(D, n, p, {p}, Entries(t))
  <2> SUFFICES ASSUME NEW a \in Node, NEW x \in Node
      PROVE  /\ Entries(D[a][x]) \subseteq
                    Entries(chan[a][x]) \cup IF a = n /\ x \in {p} THEN Entries(t) ELSE {}
             /\ a = n /\ x \in {p} => Entries(t) \subseteq Entries(D[a][x])
             /\ Entries(chan[a][x]) \subseteq Entries(D[a][x]) \cup {Head(chan[p][n])}
             /\ <<a, x>> # <<p, n>> =>
                   /\ Entries(chan[a][x]) \subseteq Entries(D[a][x])
                   /\ chan[a][x] # <<>> =>
                         D[a][x] # <<>> /\ Head(D[a][x]) = Head(chan[a][x])
    BY <1>5 DEF Handled
  <2>1. /\ Entries(T[a][x]) \subseteq Entries(chan[a][x])
        /\ Entries(chan[a][x]) \subseteq Entries(T[a][x]) \cup {Head(chan[p][n])}
        /\ <<a, x>> # <<p, n>> =>
              /\ Entries(chan[a][x]) \subseteq Entries(T[a][x])
              /\ chan[a][x] # <<>> =>
                    T[a][x] # <<>> /\ Head(T[a][x]) = Head(chan[a][x])
    BY <1>1 DEF Handled
  <2>2. /\ Entries(D[a][x]) =
              Entries(T[a][x]) \cup IF a = n /\ x \in {p} THEN Entries(t) ELSE {}
        /\ T[a][x] # <<>> => D[a][x] # <<>> /\ Head(D[a][x]) = Head(T[a][x])
    BY <1>6
  <2>3. CASE a = n /\ x \in {p}
    BY <2>1, <2>2, <2>3
  <2>4. CASE ~(a = n /\ x \in {p})
    BY <2>1, <2>2, <2>4
  <2> QED
    BY <2>3, <2>4
<1> QED
  BY <1>7 DEF D, T

(* A connection that comes, goes or is replaced: its channels are set.     *)
LEMMA BothFacts ==
  ASSUME chan \in Channels, NEW a \in Node, NEW b \in Node,
         NEW s \in {<<>>, <<Handshake>>}
  PROVE  /\ Both(a, b, chan, s) \in Channels
         /\ \A c, x \in Node : Both(a, b, chan, s)[c][x] =
                IF <<c, x>> = <<a, b>> \/ <<c, x>> = <<b, a>> THEN s ELSE chan[c][x]
         /\ Entries(s) \subseteq {Handshake}
<1>1. Handshake \in Message
  BY DEF Message
<1>2. s \in Seq(Message)
  <2>1. <<>> \in Seq(Message)
    OBVIOUS
  <2>2. <<Handshake>> \in Seq(Message)
    BY <1>1
  <2> QED
    BY <2>1, <2>2
<1>3. Both(a, b, chan, s) \in Channels
  BY <1>2 DEF Channels, Both
<1>4. \A c, x \in Node : Both(a, b, chan, s)[c][x] =
          IF <<c, x>> = <<a, b>> \/ <<c, x>> = <<b, a>> THEN s ELSE chan[c][x]
  BY DEF Channels, Both
<1>5. Entries(s) \subseteq {Handshake}
  BY DEF Entries
<1> QED
  BY <1>3, <1>4, <1>5

-----------------------------------------------------------------------------
(* Receiving: what was received, and what becomes of the channels.         *)

LEMMA Received ==
  ASSUME TypeOK, NEW n \in Node, NEW p \in Node, chan[p][n] # <<>>,
         NEW m, m = Head(chan[p][n])
  PROVE  /\ m \in Entries(chan[p][n]) /\ m \in Message
         /\ m.kind = "record" => m.record \in Records /\ m = Advert(m.record)
<1>1. chan[p][n] \in Seq(Message)
  BY DEF TypeOK, Channels
<1>2. m \in Entries(chan[p][n]) /\ m \in Message
  BY <1>1, TailEntries
<1>3. ASSUME m.kind = "record"
      PROVE  m.record \in Records /\ m = Advert(m.record)
  <2>1. m # Handshake
    BY <1>3 DEF Handshake
  <2>2. m \in [kind : {"record"}, record : Records]
    BY <1>2, <2>1 DEF Message
  <2> QED
    BY <2>2 DEF Advert
<1> QED
  BY <1>2, <1>3

LEMMA WelcomeFacts ==
  ASSUME TypeOK, NEW b \in Boot
  PROVE  /\ Welcome(b) \in Seq(Message)
         /\ Entries(Welcome(b)) = {Advert(r) : r \in Entries(cache[b])}
<1> DEFINE c == cache[b]
<1>1. c \in Seq(Records) /\ DOMAIN c = 1..Len(c) /\ Len(c) \in Nat
  BY DEF TypeOK
<1> HIDE DEF c
<1>2. \A i \in DOMAIN c : Advert(c[i]) \in Message
  BY <1>1 DEF Message, Advert
<1>3. Welcome(b) = [i \in DOMAIN c |-> Advert(c[i])]
  BY DEF Welcome, c
<1> DEFINE w == Welcome(b)
<1>4. w \in [1..Len(c) -> Message]
  BY <1>1, <1>2, <1>3
<1>5. DOMAIN w = DOMAIN c /\ \A i \in DOMAIN c : w[i] = Advert(c[i])
  BY <1>3
<1> HIDE DEF w
<1>6. w \in Seq(Message)
  BY <1>1, <1>4
<1>7. Entries(w) = {Advert(r) : r \in Entries(c)}
  BY <1>5 DEF Entries
<1> QED
  BY <1>6, <1>7 DEF w, c

LEMMA OwnRecordType ==
  ASSUME TypeOK, NEW n \in Node
  PROVE  Advert(OwnRecord(n)) \in Message
BY DEF TypeOK, Message, Advert, Records, OwnRecord

(* What a bootstrap node tells a new peer.                                 *)
Greetings(b) == {Advert(r) : r \in Entries(cache[b])} \cup {Advert(OwnRecord(b))}

LEMMA Meeting ==
  ASSUME TypeOK, NEW n \in Node, NEW p \in Node, BootMeets(n, p)
  PROVE  /\ chan[p][n] # <<>> /\ Head(chan[p][n]).kind = "handshake"
         /\ Handled(chan', n, p, {p}, Greetings(n))
<1> DEFINE t == Append(Welcome(n), Advert(OwnRecord(n)))
<1>1. n \in Boot /\ chan[p][n] # <<>> /\ Head(chan[p][n]).kind = "handshake"
  BY DEF BootMeets, Gets
<1>2. chan' = [Taken(n, p) EXCEPT ![n][p] = @ \o t]
  BY DEF BootMeets
<1>3. /\ Welcome(n) \in Seq(Message)
      /\ Entries(Welcome(n)) = {Advert(r) : r \in Entries(cache[n])}
  BY <1>1, WelcomeFacts
<1>4. t \in Seq(Message) /\ Entries(t) = Greetings(n)
  BY <1>3, OwnRecordType, AppendEntries DEF Greetings
<1>5. chan \in Channels
  BY DEF TypeOK
<1> HIDE DEF t
<1>6. Handled(chan', n, p, {p}, Entries(t))
  BY <1>1, <1>2, <1>4, <1>5, HandledAnswered
<1> QED
  BY <1>1, <1>4, <1>6

LEMMA Greeting ==
  ASSUME TypeOK, NEW n \in Node, NEW p \in Node, ClientMeets(n, p)
  PROVE  /\ n \in Client /\ chan[p][n] # <<>>
         /\ Head(chan[p][n]).kind = "handshake"
         /\ Handled(chan', n, p, {p}, {Advert(OwnRecord(n))})
<1>1. n \in Client /\ chan[p][n] # <<>> /\ Head(chan[p][n]).kind = "handshake"
  BY DEF ClientMeets, Gets
<1>2. Advert(OwnRecord(n)) \in Message
  BY OwnRecordType
<1>3. chan \in Channels
  BY DEF TypeOK
<1> QED
  BY <1>1, <1>2, <1>3, HandledSent DEF ClientMeets

LEMMA Ignoring ==
  ASSUME TypeOK, NEW n \in Node, NEW p \in Node,
         BootIgnores(n, p) \/ ClientIgnores(n, p)
  PROVE  /\ chan[p][n] # <<>> /\ Head(chan[p][n]).kind = "record"
         /\ Handled(chan', n, p, {}, {})
<1>1. /\ chan[p][n] # <<>> /\ Head(chan[p][n]).kind = "record"
      /\ chan' = Taken(n, p)
  BY DEF BootIgnores, ClientIgnores, Gets
<1>2. chan \in Channels
  BY DEF TypeOK
<1> QED
  BY <1>1, <1>2, HandledSilently

LEMMA Accepting ==
  ASSUME TypeOK, NEW n \in Node, NEW p \in Node,
         BootAccepts(n, p) \/ ClientAccepts(n, p),
         NEW r, r = Head(chan[p][n]).record
  PROVE  /\ chan[p][n] # <<>> /\ Head(chan[p][n]) = Advert(r) /\ r \in Records
         /\ Handled(chan', n, p, Reached(n, p), {Advert(r)})
         /\ known' \in [Client -> SUBSET Records]
         /\ \A a \in Client : known[a] \subseteq known'[a]
         /\ n \in Client => r \in known'[n]
<1>1. /\ chan[p][n] # <<>> /\ Head(chan[p][n]).kind = "record"
      /\ chan' = SentTo(Taken(n, p), n, Reached(n, p), Advert(r))
      /\ \/ n \in Boot /\ known' = known
         \/ n \in Client /\ known' = [known EXCEPT ![n] = @ \cup {r}]
  BY DEF BootAccepts, ClientAccepts, Gets
<1>2. Head(chan[p][n]) = Advert(r) /\ r \in Records /\ Advert(r) \in Message
  BY <1>1, Received
<1>3. chan \in Channels /\ known \in [Client -> SUBSET Records]
  BY DEF TypeOK
<1>4. Handled(chan', n, p, Reached(n, p), {Advert(r)})
  BY <1>1, <1>2, <1>3, HandledSent
<1>5. /\ known' \in [Client -> SUBSET Records]
      /\ \A a \in Client : known[a] \subseteq known'[a]
      /\ n \in Client => r \in known'[n]
  <2>1. CASE n \in Boot /\ known' = known
    BY <1>3, <2>1, RendezvousAssumption
  <2>2. CASE n \in Client /\ known' = [known EXCEPT ![n] = @ \cup {r}]
    BY <1>2, <1>3, <2>2
  <2> QED
    BY <1>1, <2>1, <2>2
<1> QED
  BY <1>1, <1>2, <1>4, <1>5

-----------------------------------------------------------------------------
(* Types, the cache's bounds and what is vouched for, step by step.        *)
Basic == TypeOK /\ Sound /\ ChanKnown

LEMMA HandledVouched ==
  ASSUME ChanKnown, NEW n \in Node, NEW p \in Node, NEW P, NEW M,
         Handled(chan', n, p, P, M),
         \A a \in Client : known[a] \subseteq known'[a],
         n \in Client => \A m \in M : Vouched(n, m)'
  PROVE  ChanKnown'
<1> SUFFICES ASSUME NEW a \in Client, NEW x \in Node, NEW m \in Entries(chan'[a][x])
             PROVE  Vouched(a, m)'
  BY DEF ChanKnown
<1>1. Entries(chan'[a][x]) \subseteq
          Entries(chan[a][x]) \cup IF a = n /\ x \in P THEN M ELSE {}
  BY DEF Handled, Node
<1>2. CASE m \in Entries(chan[a][x])
  BY <1>2 DEF ChanKnown, Vouched
<1>3. CASE a = n /\ m \in M
  BY <1>3
<1> QED
  BY <1>1, <1>2, <1>3

LEMMA ReceiveBasic ==
  ASSUME Basic, NEW n \in Node, NEW p \in Node, Receive(n, p)
  PROVE  Basic'
<1> USE RendezvousAssumption
<1>0. TypeOK /\ Sound /\ ChanKnown
  BY DEF Basic
<1>1. CASE BootMeets(n, p)
  <2>1. Handled(chan', n, p, {p}, Greetings(n))
    BY <1>0, <1>1, Meeting
  <2>2. n \notin Client /\ UNCHANGED <<cache, known, dialled, clock, swept, netVars>>
    BY <1>1 DEF BootMeets
  <2>3. ChanKnown'
    BY <1>0, <2>1, <2>2, HandledVouched
  <2>4. TypeOK'
    BY <1>0, <2>1, <2>2 DEF TypeOK, netVars, Handled
  <2> QED
    BY <1>0, <2>2, <2>3, <2>4 DEF Basic, Sound
<1>2. CASE BootIgnores(n, p) \/ ClientIgnores(n, p)
  <2>1. Handled(chan', n, p, {}, {})
    BY <1>0, <1>2, Ignoring
  <2>2. UNCHANGED <<cache, known, dialled, clock, swept, netVars>>
    BY <1>2 DEF BootIgnores, ClientIgnores
  <2>3. ChanKnown'
    BY <1>0, <2>1, <2>2, HandledVouched
  <2>4. TypeOK'
    BY <1>0, <2>1, <2>2 DEF TypeOK, netVars, Handled
  <2> QED
    BY <1>0, <2>2, <2>3, <2>4 DEF Basic, Sound
<1>3. CASE ClientMeets(n, p)
  <2>1. Handled(chan', n, p, {p}, {Advert(OwnRecord(n))})
    BY <1>0, <1>3, Greeting
  <2>2. UNCHANGED <<cache, known, dialled, clock, swept, netVars>>
    BY <1>3 DEF ClientMeets
  <2>3. ASSUME NEW m \in {Advert(OwnRecord(n))} PROVE Vouched(n, m)'
    BY DEF Vouched, Advert, OwnRecord
  <2>4. ChanKnown'
    BY <1>0, <2>1, <2>2, <2>3, HandledVouched
  <2>5. TypeOK'
    BY <1>0, <2>1, <2>2 DEF TypeOK, netVars, Handled
  <2> QED
    BY <1>0, <2>2, <2>4, <2>5 DEF Basic, Sound
<1>4. CASE BootAccepts(n, p) \/ ClientAccepts(n, p)
  <2>1. PICK r : r = Head(chan[p][n]).record
    OBVIOUS
  <2>2. /\ r \in Records
        /\ Handled(chan', n, p, Reached(n, p), {Advert(r)})
        /\ known' \in [Client -> SUBSET Records]
        /\ \A a \in Client : known[a] \subseteq known'[a]
        /\ n \in Client => r \in known'[n]
    BY <1>0, <1>4, <2>1, Accepting
  <2>3. UNCHANGED <<clock, swept, netVars>>
    BY <1>4 DEF BootAccepts, ClientAccepts
  <2>4. n \in Client => \A m \in {Advert(r)} : Vouched(n, m)'
    BY <2>2 DEF Vouched, Advert
  <2>5. ChanKnown'
    BY <1>0, <2>2, <2>4, HandledVouched
  <2>6. /\ cache' \in [Boot -> Seq(Records)] /\ dialled' \in [Client -> SUBSET Node]
        /\ Sound'
    <3>1. CASE BootAccepts(n, p)
      <4>1. /\ n \in Boot /\ cache' = [cache EXCEPT ![n] = Upserted(n, r)]
            /\ ~Expired(r) /\ dialled' = dialled
        BY <2>1, <3>1 DEF BootAccepts
      <4>2. /\ cache \in [Boot -> Seq(Records)]
            /\ Len(cache[n]) <= Capacity[n] /\ OwnersDiffer(cache[n])
        BY <1>0, <4>1 DEF TypeOK, Sound
      <4>3. /\ Upserted(n, r) \in Seq(Records)
            /\ Len(Upserted(n, r)) <= Capacity[n]
            /\ OwnersDiffer(Upserted(n, r))
            /\ Entries(Upserted(n, r)) \subseteq Entries(cache[n]) \cup {r}
        BY <2>2, <4>1, <4>2, UpsertedCache
      <4>4. /\ cache' \in [Boot -> Seq(Records)] /\ cache'[n] = Upserted(n, r)
            /\ \A b \in Boot : b # n => cache'[b] = cache[b]
        BY <4>1, <4>2, <4>3
      <4>5. Outlives(r, swept[n])
        <5>1. r.at \in Nat /\ Ttl[r.owner] \in Nat
          BY <2>2 DEF Records
        <5>2. swept[n] <= clock /\ swept[n] \in Nat /\ clock \in Nat
          BY <1>0, <4>1 DEF Sound, TypeOK
        <5> QED
          BY <4>1, <5>1, <5>2 DEF Expired, Outlives
      <4>6. ASSUME NEW b \in Boot
            PROVE  /\ Len(cache'[b]) <= Capacity[b] /\ OwnersDiffer(cache'[b])
                   /\ \A q \in Entries(cache'[b]) : Outlives(q, swept[b])
        <5>1. /\ Len(cache[b]) <= Capacity[b] /\ OwnersDiffer(cache[b])
              /\ \A q \in Entries(cache[b]) : Outlives(q, swept[b])
          BY <1>0 DEF Sound
        <5>2. CASE b = n
          <6>1. /\ Len(cache'[b]) <= Capacity[b] /\ OwnersDiffer(cache'[b])
                /\ Entries(cache'[b]) \subseteq Entries(cache[b]) \cup {r}
            BY <4>3, <4>4, <5>2
          <6> QED
            BY <4>5, <5>1, <5>2, <6>1
        <5>3. CASE b # n
          BY <4>4, <5>1, <5>3
        <5> QED
          BY <5>2, <5>3
      <4>7. Sound'
        <5>1. \A b \in Boot : swept'[b] = swept[b] /\ swept[b] <= clock /\ clock' = clock
          BY <1>0, <2>3 DEF Sound
        <5>2. ASSUME NEW b \in Boot
              PROVE  /\ Len(cache'[b]) <= Capacity[b] /\ OwnersDiffer(cache'[b])
                     /\ swept'[b] <= clock'
                     /\ \A q \in Entries(cache'[b]) : Outlives(q, swept'[b])
          <6>1. swept'[b] = swept[b] /\ swept[b] <= clock /\ clock' = clock
            BY <5>1
          <6>2. /\ Len(cache'[b]) <= Capacity[b] /\ OwnersDiffer(cache'[b])
                /\ \A q \in Entries(cache'[b]) : Outlives(q, swept[b])
            BY <4>6
          <6> QED
            BY <6>1, <6>2
        <5> QED
          BY <5>2 DEF Sound, OwnersDiffer, Entries, Outlives
      <4> QED
        BY <1>0, <4>1, <4>4, <4>7 DEF TypeOK
    <3>2. CASE ClientAccepts(n, p)
      <4>1. /\ n \in Client /\ cache' = cache
            /\ dialled' = IF ShouldConnect(n, r.owner)
                          THEN [dialled EXCEPT ![n] = @ \cup {r.owner}] ELSE dialled
        BY <2>1, <3>2 DEF ClientAccepts
      <4>2. r.owner \in Node
        BY <2>2 DEF Records
      <4>3. dialled' \in [Client -> SUBSET Node]
        BY <1>0, <4>1, <4>2 DEF TypeOK
      <4>4. Sound'
        BY <1>0, <2>3, <4>1 DEF Sound
      <4> QED
        BY <1>0, <4>1, <4>3, <4>4 DEF TypeOK
    <3> QED
      BY <1>4, <3>1, <3>2
  <2>7. TypeOK'
    BY <1>0, <2>2, <2>3, <2>6 DEF TypeOK, netVars, Handled
  <2> QED
    BY <2>5, <2>6, <2>7 DEF Basic
<1> QED
  BY <1>1, <1>2, <1>3, <1>4 DEF Receive

LEMMA LeftSound ==
  ASSUME TypeOK, Sound, cache' \in [Boot -> Seq(Records)],
         \A b \in Boot : LeftOf(cache'[b], cache[b]),
         UNCHANGED <<clock, swept>>
  PROVE  Sound'
<1>1. ASSUME NEW b \in Boot
      PROVE  /\ Len(cache'[b]) <= Capacity[b] /\ OwnersDiffer(cache'[b])
             /\ Entries(cache'[b]) \subseteq Entries(cache[b])
  <2>1. /\ cache'[b] \in Seq(Records) /\ Len(cache'[b]) <= Len(cache[b])
        /\ Entries(cache'[b]) \subseteq Entries(cache[b])
        /\ OwnersDiffer(cache[b]) => OwnersDiffer(cache'[b])
    BY DEF LeftOf
  <2>2. Len(cache[b]) <= Capacity[b] /\ OwnersDiffer(cache[b])
    BY DEF Sound
  <2>3. Len(cache[b]) \in Nat /\ Len(cache'[b]) \in Nat /\ Capacity[b] \in Nat
    BY <2>1, RendezvousAssumption DEF TypeOK
  <2> QED
    BY <2>1, <2>2, <2>3
<1> QED
  BY <1>1 DEF Sound

LEMMA PartedLeft ==
  ASSUME NEW c \in [Boot -> Seq(Records)], NEW n \in Node, NEW p \in Node
  PROVE  /\ Parted(c, n, p) \in [Boot -> Seq(Records)]
         /\ \A b \in Boot : LeftOf(Parted(c, n, p)[b], c[b])
<1>1. ASSUME NEW d \in Seq(Records) PROVE LeftOf(d, d)
  <2>1. Len(d) \in Nat
    OBVIOUS
  <2> QED
    BY <2>1 DEF LeftOf
<1>2. CASE n \in Boot
  <2> DEFINE w == Without(c[n], p)
  <2>1. LeftOf(w, c[n])
    <3>1. {i \in DOMAIN c[n] : c[n][i].owner # p} \in SUBSET DOMAIN c[n]
      OBVIOUS
    <3> QED
      BY <1>2, <3>1, KeptLeft DEF Without
  <2>2. Parted(c, n, p) = [c EXCEPT ![n] = w]
    BY <1>2 DEF Parted
  <2> HIDE DEF w
  <2>3. w \in Seq(Records)
    BY <2>1 DEF LeftOf
  <2> QED
    BY <1>1, <1>2, <2>1, <2>2, <2>3
<1>3. CASE n \notin Boot
  BY <1>1, <1>3 DEF Parted
<1> QED
  BY <1>2, <1>3

LEMMA LeftTransitive ==
  ASSUME NEW c \in Seq(Records), NEW d, NEW e, LeftOf(d, c), LeftOf(e, d)
  PROVE  LeftOf(e, c)
<1>1. /\ d \in Seq(Records) /\ e \in Seq(Records)
      /\ Len(d) <= Len(c) /\ Len(e) <= Len(d)
      /\ Entries(d) \subseteq Entries(c) /\ Entries(e) \subseteq Entries(d)
      /\ OwnersDiffer(c) => OwnersDiffer(d)
      /\ OwnersDiffer(d) => OwnersDiffer(e)
  BY DEF LeftOf
<1>2. Len(c) \in Nat /\ Len(d) \in Nat /\ Len(e) \in Nat
  BY <1>1
<1>3. Len(e) <= Len(c)
  BY <1>1, <1>2
<1> QED
  BY <1>1, <1>3 DEF LeftOf

(* What a change of the network leaves of the caches.                      *)
LEMMA NetworkLeft ==
  ASSUME TypeOK, NEW a \in Node, NEW b \in Node,
         Link(a, b) \/ Unlink(a, b) \/ Relink(a, b) \/ LateClose(a, b)
  PROVE  /\ cache' \in [Boot -> Seq(Records)]
         /\ \A x \in Boot : LeftOf(cache'[x], cache[x])
<1>0. cache \in [Boot -> Seq(Records)]
  BY DEF TypeOK
<1>1. CASE Link(a, b)
  <2>1. cache' = cache
    BY <1>1 DEF Link
  <2>2. ASSUME NEW x \in Boot PROVE LeftOf(cache[x], cache[x])
    <3>1. cache[x] \in Seq(Records) /\ Len(cache[x]) \in Nat
      BY <1>0
    <3> QED
      BY <3>1 DEF LeftOf
  <2> QED
    BY <1>0, <2>1, <2>2
<1>2. CASE Unlink(a, b)
  <2> DEFINE d == Parted(cache, a, b)
  <2>1. cache' = Parted(d, b, a)
    BY <1>2 DEF Unlink
  <2>2. d \in [Boot -> Seq(Records)] /\ \A x \in Boot : LeftOf(d[x], cache[x])
    BY <1>0, PartedLeft
  <2> HIDE DEF d
  <2>3. cache' \in [Boot -> Seq(Records)] /\ \A x \in Boot : LeftOf(cache'[x], d[x])
    BY <2>1, <2>2, PartedLeft
  <2>4. \A x \in Boot : cache[x] \in Seq(Records)
    BY <1>0
  <2> QED
    BY <2>2, <2>3, <2>4, LeftTransitive
<1>3. CASE Relink(a, b)
  BY <1>0, <1>3, PartedLeft DEF Relink
<1>4. CASE LateClose(a, b)
  BY <1>0, <1>4, PartedLeft DEF LateClose
<1> QED
  BY <1>1, <1>2, <1>3, <1>4

LEMMA NetworkBasic ==
  ASSUME Basic, NEW a \in Node, NEW b \in Node,
         Link(a, b) \/ Unlink(a, b) \/ Relink(a, b) \/ LateClose(a, b)
  PROVE  Basic'
<1>0. TypeOK /\ Sound /\ ChanKnown
  BY DEF Basic
<1>1. UNCHANGED <<known, dialled, clock, swept>>
  BY DEF Link, Unlink, Relink, LateClose
<1>2. /\ cache' \in [Boot -> Seq(Records)]
      /\ \A x \in Boot : LeftOf(cache'[x], cache[x])
  BY <1>0, NetworkLeft
<1>3. Sound'
  BY <1>0, <1>1, <1>2, LeftSound
<1>4. chan' = chan \/ \E s \in {<<>>, <<Handshake>>} : chan' = Both(a, b, chan, s)
  BY DEF Link, Unlink, Relink, LateClose
<1>5. chan' \in Channels /\ ChanKnown'
  <2>1. CASE chan' = chan
    BY <1>0, <1>1, <2>1 DEF TypeOK, ChanKnown, Vouched
  <2>2. CASE \E s \in {<<>>, <<Handshake>>} : chan' = Both(a, b, chan, s)
    <3>1. PICK s \in {<<>>, <<Handshake>>} : chan' = Both(a, b, chan, s)
      BY <2>2
    <3>2. /\ chan' \in Channels /\ Entries(s) \subseteq {Handshake}
          /\ \A c, x \in Node : chan'[c][x] = s \/ chan'[c][x] = chan[c][x]
      <4>1. chan \in Channels
        BY <1>0 DEF TypeOK
      <4>2. /\ Both(a, b, chan, s) \in Channels /\ Entries(s) \subseteq {Handshake}
            /\ \A c, x \in Node : Both(a, b, chan, s)[c][x] =
                  IF <<c, x>> = <<a, b>> \/ <<c, x>> = <<b, a>> THEN s ELSE chan[c][x]
        BY <4>1, BothFacts
      <4> QED
        BY <3>1, <4>2
    <3>3. ASSUME NEW c \in Client, NEW x \in Node, NEW m \in Entries(chan'[c][x])
          PROVE  Vouched(c, m)'
      <4>1. m = Handshake \/ m \in Entries(chan[c][x])
        BY <3>2 DEF Node
      <4> QED
        BY <1>0, <1>1, <4>1 DEF ChanKnown, Vouched, Handshake
    <3> QED
      BY <3>2, <3>3 DEF ChanKnown
  <2> QED
    BY <1>4, <2>1, <2>2
<1>6. /\ links' \subseteq Overlay /\ late' \subseteq Node \X Node
      /\ hidden' \subseteq Node \X Node /\ changes' \in 0..MaxChanges
  <2>1. /\ links \subseteq Overlay /\ late \subseteq Node \X Node
        /\ hidden \subseteq Node \X Node /\ changes \in 0..MaxChanges
        /\ MaxChanges \in Nat
    BY <1>0, RendezvousAssumption DEF TypeOK
  <2>2. /\ \/ links' = links
           \/ links' = links \ {{a, b}}
           \/ ({a, b} \in Overlay /\ links' = links \cup {{a, b}})
        /\ late' \subseteq late \cup {<<a, b>>}
        /\ hidden' \subseteq hidden \cup {<<a, b>>}
        /\ changes' = changes \/ (changes < MaxChanges /\ changes' = changes + 1)
    BY DEF Link, Unlink, Relink, LateClose
  <2>3. links' \subseteq Overlay
    BY <2>1, <2>2, Zenon
  <2>4. changes' \in 0..MaxChanges
    BY <2>1, <2>2
  <2>5. late' \subseteq Node \X Node /\ hidden' \subseteq Node \X Node
    BY <2>1, <2>2
  <2> QED
    BY <2>3, <2>4, <2>5
<1>7. TypeOK'
  BY <1>0, <1>1, <1>2, <1>5, <1>6 DEF TypeOK
<1> QED
  BY <1>3, <1>5, <1>7 DEF Basic

LEMMA SweepBasic ==
  ASSUME Basic, NEW b \in Boot, Sweep(b)
  PROVE  Basic' /\ \A x \in Boot : Entries(cache'[x]) \subseteq Entries(cache[x])
<1> USE RendezvousAssumption
<1>0. TypeOK /\ Sound /\ ChanKnown
  BY DEF Basic
<1> DEFINE c == cache[b]
           K == {i \in DOMAIN c : ~Expired(c[i])}
           d == Kept(c, K)
<1>1. c \in Seq(Records) /\ Len(c) \in Nat
  BY <1>0 DEF TypeOK
<1>2. /\ cache' = [cache EXCEPT ![b] = d] /\ swept' = [swept EXCEPT ![b] = clock]
      /\ UNCHANGED <<known, dialled, clock, chan, netVars>>
  BY DEF Sweep, Unexpired
<1>3. LeftOf(d, c) /\ \A q \in Entries(d) : \E i \in K : q = c[i]
  <2> HIDE DEF c
  <2> QED
    BY <1>1, KeptLeft
<1>4. \A q \in Entries(d) : ~Expired(q)
  BY <1>3
<1> HIDE DEF K, d, c
<1>5. /\ d \in Seq(Records) /\ Len(d) <= Len(c) /\ Entries(d) \subseteq Entries(c)
      /\ OwnersDiffer(c) => OwnersDiffer(d)
  BY <1>3 DEF LeftOf
<1>6. ASSUME NEW q \in Entries(d) PROVE Outlives(q, clock)
  <2>1. q \in Records
    BY <1>5 DEF Entries
  <2>2. q.at \in Nat /\ Ttl[q.owner] \in Nat /\ clock \in Nat
    BY <1>0, <2>1 DEF Records, TypeOK
  <2> QED
    BY <1>4, <2>2 DEF Expired, Outlives
<1>7. /\ Len(c) <= Capacity[b] /\ OwnersDiffer(c)
      /\ Capacity[b] \in Nat /\ Len(d) \in Nat
  BY <1>0, <1>5 DEF Sound, c
<1>8. Len(d) <= Capacity[b]
  BY <1>1, <1>5, <1>7
<1>9. /\ cache'[b] = d /\ swept'[b] = clock
      /\ \A x \in Boot : x # b => cache'[x] = cache[x] /\ swept'[x] = swept[x]
      /\ cache' \in [Boot -> Seq(Records)] /\ swept' \in [Boot -> 0..MaxClock]
  BY <1>0, <1>2, <1>5 DEF TypeOK
<1>10. ASSUME NEW x \in Boot
       PROVE  /\ Len(cache'[x]) <= Capacity[x] /\ OwnersDiffer(cache'[x])
              /\ swept'[x] <= clock
              /\ \A r \in Entries(cache'[x]) : Outlives(r, swept'[x])
              /\ Entries(cache'[x]) \subseteq Entries(cache[x])
  <2>1. CASE x = b
    <3>1. clock <= clock
      BY <1>0 DEF TypeOK
    <3> QED
      BY <1>5, <1>6, <1>7, <1>8, <1>9, <2>1, <3>1 DEF c
  <2>2. CASE x # b
    BY <1>0, <1>9, <2>2 DEF Sound
  <2> QED
    BY <2>1, <2>2
<1>11. Sound'
  BY <1>2, <1>10 DEF Sound, Outlives
<1>12. ChanKnown'
  BY <1>0, <1>2 DEF ChanKnown, Vouched
<1>13. TypeOK'
  BY <1>0, <1>2, <1>9 DEF TypeOK, netVars
<1> QED
  BY <1>10, <1>11, <1>12, <1>13 DEF Basic

LEMMA TickBasic ==
  ASSUME Basic, Tick
  PROVE  Basic'
<1>0. TypeOK /\ Sound /\ ChanKnown
  BY DEF Basic
<1>1. /\ clock < MaxClock /\ clock' = clock + 1
      /\ UNCHANGED <<cache, known, dialled, swept, chan, netVars>>
  BY DEF Tick
<1>2. clock \in Nat /\ MaxClock \in Nat /\ clock' \in 0..MaxClock
  BY <1>0, <1>1, RendezvousAssumption DEF TypeOK
<1>3. ASSUME NEW b \in Boot PROVE swept'[b] <= clock'
  <2>1. swept[b] <= clock /\ swept[b] \in Nat
    BY <1>0 DEF Sound, TypeOK
  <2> QED
    BY <1>1, <1>2, <2>1
<1>4. Sound' /\ ChanKnown'
  BY <1>0, <1>1, <1>3 DEF Sound, ChanKnown, Vouched
<1>5. TypeOK'
  BY <1>0, <1>1, <1>2 DEF TypeOK, netVars
<1> QED
  BY <1>4, <1>5 DEF Basic

-----------------------------------------------------------------------------
(* Introduced, step by step: what may be said of a record r that b caches  *)
(* and a node x, whether or not they are connected.                        *)
IntroducedTo(b, x, r) ==
    \/ x = r.owner
    \/ ~Up(b, x)
    \/ <<b, x>> \in hidden
    \/ Underway(b, x, r)
    \/ \E q \in known[x] : Covers(q, r)

LEMMA IntroducedAll ==
  Introduced <=> \A b \in Boot, x \in Client : \A r \in Entries(cache[b]) : IntroducedTo(b, x, r)
BY DEF Introduced, IntroducedTo, Entries

LEMMA UnderwayEntries ==
  ASSUME NEW b, NEW x, NEW r
  PROVE  Underway(b, x, r) <=>
            \/ Gets(b, x, "handshake")
            \/ \E m \in Entries(chan[b][x]) : m.kind = "record" /\ Covers(m.record, r)
BY DEF Underway, Entries

(* Handling a message keeps an introduction: a handshake is answered with  *)
(* all that is cached, and a record that arrives is recorded or one's own. *)
LEMMA ReceiveIntroduced ==
  ASSUME Basic, NEW n \in Node, NEW p \in Node, Receive(n, p),
         NEW b \in Boot, NEW x \in Client, NEW r \in Entries(cache[b]),
         IntroducedTo(b, x, r)
  PROVE  IntroducedTo(b, x, r)'
<1> USE RendezvousAssumption
<1>0. TypeOK /\ Sound /\ ChanKnown
  BY DEF Basic
<1>1. /\ UNCHANGED <<clock, links, hidden>>
      /\ chan[p][n] # <<>>
      /\ \E P, M : Handled(chan', n, p, P, M)
  <2>1. CASE BootMeets(n, p)
    BY <1>0, <2>1, Meeting DEF BootMeets, netVars
  <2>2. CASE BootIgnores(n, p) \/ ClientIgnores(n, p)
    <3>1. UNCHANGED <<clock, netVars>>
      BY <2>2 DEF BootIgnores, ClientIgnores
    <3> QED
      BY <1>0, <2>2, <3>1, Ignoring DEF netVars
  <2>3. CASE BootAccepts(n, p) \/ ClientAccepts(n, p)
    <3>1. UNCHANGED <<clock, netVars>>
      BY <2>3 DEF BootAccepts, ClientAccepts
    <3> QED
      BY <1>0, <2>3, <3>1, Accepting DEF netVars
  <2>4. CASE ClientMeets(n, p)
    BY <1>0, <2>4, Greeting DEF ClientMeets, netVars
  <2> QED
    BY <2>1, <2>2, <2>3, <2>4 DEF Receive
<1>2. known[x] \subseteq known'[x]
  <2>1. CASE BootAccepts(n, p) \/ ClientAccepts(n, p)
    <3>1. PICK q : q = Head(chan[p][n]).record
      OBVIOUS
    <3> QED
      BY <1>0, <2>1, <3>1, Accepting
  <2>2. CASE ~(BootAccepts(n, p) \/ ClientAccepts(n, p))
    <3>1. known' = known
      BY <2>2 DEF Receive, BootMeets, BootIgnores, ClientMeets, ClientIgnores
    <3> QED
      BY <3>1
  <2> QED
    BY <2>1, <2>2
<1>3. PICK P, M : Handled(chan', n, p, P, M)
  BY <1>1
<1>4. b \in Node /\ x \in Node /\ r \in Records
  BY <1>0 DEF Node, TypeOK, Entries
<1>5. CASE ~Underway(b, x, r)
  BY <1>1, <1>2, <1>5 DEF IntroducedTo, Up
<1>6. CASE Gets(b, x, "handshake")
  <2>0. chan[x][b] # <<>> /\ Head(chan[x][b]).kind = "handshake"
    BY <1>6 DEF Gets
  <2>1. CASE <<x, b>> # <<p, n>>
    <3>1. chan'[x][b] # <<>> /\ Head(chan'[x][b]) = Head(chan[x][b])
      BY <1>3, <1>4, <2>0, <2>1 DEF Handled
    <3>2. Gets(b, x, "handshake")'
      BY <2>0, <3>1 DEF Gets
    <3> QED
      BY <3>2 DEF IntroducedTo, Underway
  <2>2. CASE x = p /\ b = n
    <3>1. BootMeets(n, p)
      BY <2>0, <2>2 DEF Receive, BootIgnores, BootAccepts, ClientMeets, ClientIgnores,
                        ClientAccepts, Gets
    <3>2. Handled(chan', n, p, {p}, Greetings(n))
      BY <1>0, <3>1, Meeting
    <3>3. Advert(r) \in Entries(chan'[b][x])
      <4>1. Advert(r) \in Greetings(n)
        BY <2>2 DEF Greetings
      <4>2. Greetings(n) \subseteq Entries(chan'[n][p])
        BY <3>2 DEF Handled
      <4> QED
        BY <2>2, <4>1, <4>2
    <3>4. Covers(r, r)
      BY <1>4 DEF Covers, Records
    <3>5. Underway(b, x, r)'
      BY <3>3, <3>4 DEF Underway, Entries, Advert
    <3> QED
      BY <3>5 DEF IntroducedTo
  <2> QED
    BY <2>1, <2>2
<1>7. CASE \E m \in Entries(chan[b][x]) : m.kind = "record" /\ Covers(m.record, r)
  <2>1. PICK m \in Entries(chan[b][x]) : m.kind = "record" /\ Covers(m.record, r)
    BY <1>7
  <2>2. CASE m \in Entries(chan'[b][x])
    <3>1. Underway(b, x, r)'
      BY <2>1, <2>2 DEF Underway, Entries
    <3> QED
      BY <3>1 DEF IntroducedTo
  <2>3. CASE m \notin Entries(chan'[b][x])
    <3>1. b = p /\ x = n /\ m = Head(chan[p][n])
      BY <1>3, <1>4, <2>1, <2>3 DEF Handled
    <3>2. PICK q : q = m.record
      OBVIOUS
    <3>3. q \in Records /\ Covers(q, r) /\ q = Head(chan[p][n]).record
      BY <1>0, <1>1, <2>1, <3>1, <3>2, Received
    <3>4. n \in Client /\ n \notin Boot
      BY <3>1
    <3>5. CASE ClientAccepts(n, p)
      <4>1. q \in known'[x]
        BY <1>0, <3>1, <3>3, <3>4, <3>5, Accepting
      <4> QED
        BY <3>3, <4>1 DEF IntroducedTo
    <3>6. CASE ClientIgnores(n, p)
      <4>1. q.owner = n
        BY <3>3, <3>6 DEF ClientIgnores
      <4> QED
        BY <3>1, <3>3, <4>1 DEF IntroducedTo, Covers
    <3>7. CASE ClientMeets(n, p)
      BY <2>1, <3>1, <3>7 DEF ClientMeets, Gets
    <3> QED
      BY <3>4, <3>5, <3>6, <3>7 DEF Receive, BootMeets, BootIgnores, BootAccepts
  <2> QED
    BY <2>2, <2>3
<1> QED
  BY <1>5, <1>6, <1>7, UnderwayEntries

(* A record taken in goes out at once to every node connected but the one  *)
(* it came from, which vouches for it.                                     *)
LEMMA AcceptIntroduces ==
  ASSUME Basic, NEW b \in Boot, NEW p \in Node, BootAccepts(b, p), NEW x \in Client,
         NEW r, r = Head(chan[p][b]).record
  PROVE  IntroducedTo(b, x, r)'
<1>0. TypeOK /\ ChanKnown /\ b \in Node /\ x \in Node
  BY DEF Basic, Node
<1>1. /\ chan[p][b] # <<>> /\ Head(chan[p][b]) = Advert(r) /\ r \in Records
      /\ Handled(chan', b, p, Reached(b, p), {Advert(r)})
      /\ \A a \in Client : known[a] \subseteq known'[a]
  BY <1>0, Accepting
<1>2. UNCHANGED <<links, hidden>>
  BY DEF BootAccepts, netVars
<1>3. Covers(r, r)
  BY <1>1 DEF Covers, Records
<1>4. CASE x = p
  <2>1. Advert(r) \in Entries(chan[p][b])
    BY <1>0, <1>1, Received
  <2>2. r \in known[p] \/ r.owner = p
    BY <1>0, <1>4, <2>1 DEF ChanKnown, Vouched, Advert
  <2> QED
    BY <1>1, <1>3, <1>4, <2>2 DEF IntroducedTo
<1>5. CASE x # p /\ Up(b, x) /\ <<b, x>> \notin hidden
  <2>1. x \in Reached(b, p)
    BY <1>0, <1>5 DEF Reached
  <2>2. Advert(r) \in Entries(chan'[b][x])
    BY <1>0, <1>1, <2>1 DEF Handled
  <2>3. Underway(b, x, r)'
    BY <1>3, <2>2 DEF Underway, Entries, Advert
  <2> QED
    BY <2>3 DEF IntroducedTo
<1>6. CASE ~Up(b, x) \/ <<b, x>> \in hidden
  BY <1>2, <1>6 DEF IntroducedTo, Up
<1> QED
  BY <1>4, <1>5, <1>6

(* A connection that comes, or comes back, brings a handshake.             *)
LEMMA NetworkIntroduced ==
  ASSUME Basic, NEW a \in Node, NEW c \in Node,
         Link(a, c) \/ Unlink(a, c) \/ Relink(a, c) \/ LateClose(a, c),
         NEW b \in Boot, NEW x \in Client, NEW r, IntroducedTo(b, x, r)
  PROVE  IntroducedTo(b, x, r)'
<1>0. chan \in Channels /\ b \in Node /\ x \in Node
  BY DEF Basic, TypeOK, Node
<1>1. UNCHANGED <<known, clock>>
  BY DEF Link, Unlink, Relink, LateClose
<1>2. ASSUME NEW s \in {<<>>, <<Handshake>>}, chan' = Both(a, c, chan, s)
      PROVE  /\ {a, c} # {b, x} =>
                   chan'[b][x] = chan[b][x] /\ chan'[x][b] = chan[x][b]
             /\ {a, c} = {b, x} => chan'[x][b] = s
  <2>1. \A d, y \in Node : Both(a, c, chan, s)[d][y] =
            IF <<d, y>> = <<a, c>> \/ <<d, y>> = <<c, a>> THEN s ELSE chan[d][y]
    BY <1>0, BothFacts
  <2> QED
    BY <1>0, <1>2, <2>1
<1>3. CASE Link(a, c) \/ Relink(a, c)
  <2>1. /\ chan' = Both(a, c, chan, <<Handshake>>)
        /\ links' = links \/ links' = links \cup {{a, c}}
        /\ hidden' = hidden \/ hidden' = hidden \ {<<a, c>>, <<c, a>>}
    BY <1>3 DEF Link, Relink
  <2>2. CASE {a, c} = {b, x}
    <3>1. chan'[x][b] = <<Handshake>>
      BY <1>2, <2>1, <2>2
    <3>2. Gets(b, x, "handshake")'
      BY <3>1 DEF Gets, Handshake
    <3> QED
      BY <3>2 DEF IntroducedTo, Underway
  <2>3. CASE {a, c} # {b, x}
    <3>1. chan'[b][x] = chan[b][x] /\ chan'[x][b] = chan[x][b]
      BY <1>2, <2>1, <2>3
    <3>2. /\ ~Up(b, x) => ~Up(b, x)'
          /\ <<b, x>> \in hidden => <<b, x>> \in hidden'
      BY <2>1, <2>3 DEF Up
    <3> QED
      BY <1>1, <3>1, <3>2 DEF IntroducedTo, Underway, Gets
  <2> QED
    BY <2>2, <2>3
<1>4. CASE Unlink(a, c)
  <2>1. /\ chan' = Both(a, c, chan, <<>>) /\ links' = links \ {{a, c}}
        /\ hidden' = hidden \ {<<a, c>>, <<c, a>>}
    BY <1>4 DEF Unlink
  <2>2. CASE {a, c} = {b, x}
    BY <2>1, <2>2 DEF IntroducedTo, Up
  <2>3. CASE {a, c} # {b, x}
    <3>1. chan'[b][x] = chan[b][x] /\ chan'[x][b] = chan[x][b]
      BY <1>2, <2>1, <2>3
    <3>2. /\ ~Up(b, x) => ~Up(b, x)'
          /\ <<b, x>> \in hidden => <<b, x>> \in hidden'
      BY <2>1, <2>3 DEF Up
    <3> QED
      BY <1>1, <3>1, <3>2 DEF IntroducedTo, Underway, Gets
  <2> QED
    BY <2>2, <2>3
<1>5. CASE LateClose(a, c)
  <2>1. UNCHANGED <<links, chan>> /\ hidden \subseteq hidden'
    BY <1>5 DEF LateClose
  <2> QED
    BY <1>1, <2>1 DEF IntroducedTo, Up, Underway, Gets
<1> QED
  BY <1>3, <1>4, <1>5

LEMMA IntroducedStep ==
  ASSUME Basic, Introduced, [Next]_vars
  PROVE  Introduced'
<1>0. \A b \in Boot, x \in Client : \A r \in Entries(cache[b]) : IntroducedTo(b, x, r)
  BY IntroducedAll
<1> SUFFICES ASSUME NEW b \in Boot, NEW x \in Client, NEW r \in Entries(cache'[b])
             PROVE  IntroducedTo(b, x, r)'
  BY DEF Introduced, IntroducedTo, Entries
<1>1. CASE r \in Entries(cache[b])
  <2>0. IntroducedTo(b, x, r)
    BY <1>0, <1>1
  <2>1. ASSUME NEW n \in Node, NEW p \in Node, Receive(n, p) PROVE IntroducedTo(b, x, r)'
    BY <1>1, <2>0, <2>1, ReceiveIntroduced
  <2>2. ASSUME NEW a \in Node, NEW c \in Node,
               Link(a, c) \/ Unlink(a, c) \/ Relink(a, c) \/ LateClose(a, c)
        PROVE  IntroducedTo(b, x, r)'
    BY <2>0, <2>2, NetworkIntroduced
  <2>3. ASSUME NEW c \in Boot, Sweep(c) PROVE IntroducedTo(b, x, r)'
    <3>1. UNCHANGED <<known, chan, links, hidden>>
      BY <2>3 DEF Sweep, netVars
    <3> QED
      BY <2>0, <3>1 DEF IntroducedTo, Up, Underway, Gets
  <2>4. CASE Tick
    <3>1. UNCHANGED <<known, chan, links, hidden>>
      BY <2>4 DEF Tick, netVars
    <3> QED
      BY <2>0, <3>1 DEF IntroducedTo, Up, Underway, Gets
  <2>5. CASE UNCHANGED vars
    <3>1. UNCHANGED <<known, chan, links, hidden>>
      BY <2>5 DEF vars, netVars
    <3> QED
      BY <2>0, <3>1 DEF IntroducedTo, Up, Underway, Gets
  <2> QED
    BY <2>1, <2>2, <2>3, <2>4, <2>5 DEF Next
<1>2. CASE r \notin Entries(cache[b])
  <2>1. \E p \in Node : BootAccepts(b, p) /\ r = Head(chan[p][b]).record
    <3>1. ASSUME NEW n \in Node, NEW p \in Node, BootAccepts(n, p)
          PROVE  n = b /\ r = Head(chan[p][b]).record
      <4>1. PICK q : q = Head(chan[p][n]).record
        OBVIOUS
      <4>2. n \in Boot /\ cache' = [cache EXCEPT ![n] = Upserted(n, q)] /\ q \in Records
        BY <3>1, <4>1, Accepting DEF BootAccepts, Basic
      <4>3. /\ cache \in [Boot -> Seq(Records)]
            /\ Len(cache[n]) <= Capacity[n] /\ OwnersDiffer(cache[n])
        BY <4>2 DEF Basic, TypeOK, Sound
      <4>4. Entries(Upserted(n, q)) \subseteq Entries(cache[n]) \cup {q}
        BY <4>2, <4>3, UpsertedCache
      <4>5. n = b /\ r \in Entries(Upserted(n, q))
        BY <1>2, <4>2, <4>3
      <4> QED
        BY <1>2, <4>1, <4>4, <4>5
    <3>2. ASSUME NEW n \in Node, NEW p \in Node, Receive(n, p), ~BootAccepts(n, p)
          PROVE  FALSE
      BY <1>2, <3>2 DEF Receive, BootMeets, BootIgnores, ClientMeets, ClientIgnores,
                        ClientAccepts
    <3>3. ASSUME NEW a \in Node, NEW c \in Node,
                 Link(a, c) \/ Unlink(a, c) \/ Relink(a, c) \/ LateClose(a, c)
          PROVE  FALSE
      <4>1. LeftOf(cache'[b], cache[b])
        BY <3>3, NetworkLeft DEF Basic
      <4> QED
        BY <1>2, <4>1 DEF LeftOf
    <3>4. ASSUME NEW c \in Boot, Sweep(c) PROVE FALSE
      BY <1>2, <3>4, SweepBasic
    <3>5. ~Tick /\ ~UNCHANGED vars
      BY <1>2 DEF Tick, vars
    <3> QED
      BY <3>1, <3>2, <3>3, <3>4, <3>5 DEF Next, Receive
  <2> QED
    BY <2>1, AcceptIntroduces
<1> QED
  BY <1>1, <1>2

-----------------------------------------------------------------------------
(* The theorems.                                                           *)

LEMMA Initially == Init => IInv
<1> SUFFICES ASSUME Init PROVE IInv
  OBVIOUS
<1> USE RendezvousAssumption
<1>1. Entries(<<>>) = {}
  BY DEF Entries
<1>2. TypeOK
  BY DEF Init, TypeOK, Channels
<1>3. \A b \in Boot : cache[b] = <<>> /\ swept[b] = 0 /\ Capacity[b] \in Nat
  BY DEF Init
<1>4. clock = 0 /\ \A a, x \in Node : chan[a][x] = <<>>
  BY DEF Init
<1>5. Sound
  BY <1>1, <1>3, <1>4 DEF Sound, OwnersDiffer
<1>6. ChanKnown
  BY <1>1, <1>4 DEF ChanKnown, Node
<1>7. Introduced
  BY <1>3 DEF Introduced
<1> QED
  BY <1>2, <1>5, <1>6, <1>7 DEF IInv

LEMMA IInvStep == IInv /\ [Next]_vars => IInv'
<1> SUFFICES ASSUME IInv, [Next]_vars PROVE IInv'
  OBVIOUS
<1>0. Basic /\ Introduced
  BY DEF IInv, Basic
<1>1. Introduced'
  BY <1>0, IntroducedStep
<1>2. Basic'
  <2>1. ASSUME NEW n \in Node, NEW p \in Node, Receive(n, p) PROVE Basic'
    BY <1>0, <2>1, ReceiveBasic
  <2>2. ASSUME NEW a \in Node, NEW c \in Node,
               Link(a, c) \/ Unlink(a, c) \/ Relink(a, c) \/ LateClose(a, c)
        PROVE  Basic'
    BY <1>0, <2>2, NetworkBasic
  <2>3. ASSUME NEW c \in Boot, Sweep(c) PROVE Basic'
    BY <1>0, <2>3, SweepBasic
  <2>4. CASE Tick
    BY <1>0, <2>4, TickBasic
  <2>5. CASE UNCHANGED vars
    BY <1>0, <2>5 DEF vars, netVars, Basic, TypeOK, Sound, ChanKnown, Vouched
  <2> QED
    BY <2>1, <2>2, <2>3, <2>4, <2>5 DEF Next
<1> QED
  BY <1>1, <1>2 DEF IInv, Basic

LEMMA Inductive == Spec => []IInv
BY Initially, IInvStep, PTL DEF Spec

(* The variables have their types: caches, logs and messages hold records  *)
(* of nodes of either kind, no clock runs past its bound, and connections  *)
(* are those that may be made, none between two bootstrap nodes.           *)
THEOREM TypeCorrect == Spec => []TypeOK
<1>1. IInv => TypeOK
  BY DEF IInv
<1> QED
  BY <1>1, Inductive, PTL

(* A bootstrap node's cache stays within maxPeers, has one record for each *)
(* owner, and none that had expired when evictExpired last ran.            *)
THEOREM CacheBounded == Spec => []CacheSound
<1>1. IInv => CacheSound
  BY DEF IInv, Sound, CacheSound, OwnersDiffer, Outlives, Entries
<1> QED
  BY <1>1, Inductive, PTL

(* A regular node connected to a bootstrap node has each record it caches, *)
(* the other bootstrap nodes' own among them, in that or a newer form, or  *)
(* will get it on the connection there is.                                 *)
THEOREM RecordsSpread == Spec => []Introduced
<1>1. IInv => Introduced
  BY DEF IInv
<1> QED
  BY <1>1, Inductive, PTL
=============================================================================
