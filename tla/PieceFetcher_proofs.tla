------------------------- MODULE PieceFetcher_proofs -------------------------
(***************************************************************************)
(* What holds of the piece fetcher for any number of calls, workers,       *)
(* pieces, providers and neighbours.  The queue of a call is built as an   *)
(* enumeration of the pieces that are missing when it starts; from there   *)
(* on a piece is in one place only, in the queue, with one worker, or got. *)
(***************************************************************************)
EXTENDS PieceFetcher, FiniteSetTheorems, TLAPS

Busy(c, w) == job[c][w] \notin {Off, Failed}

TypeOK ==
    /\ cache \in [Piece -> Bytes]
    /\ penalty \in [Neighbours -> 0..MaxPenalty]
    /\ task \in [Calls -> UNION {[D -> Neighbours] : D \in SUBSET Piece}]
    /\ queue \in [Calls -> Seq(Piece)]
    /\ pieces \in [Calls -> [Piece -> Bytes]]
    /\ job \in [Calls -> [Workers -> Job \cup {Off, Failed}]]
    /\ outcome \in [Calls -> {"idle", "pending", "abandoned", "failed",
                              "bytes", "late", "corrupt"}]
    /\ faults \in 0..MaxFaults /\ corruptions \in 0..MaxCorrupt

(* Inductive: the queue of a call repeats nothing, no two of its workers   *)
(* read the same piece, none reads what is still queued, and nothing that  *)
(* is queued or being read has been got.                                   *)
QueueDistinct(c) == \A k, l \in DOMAIN queue[c] : queue[c][k] = queue[c][l] => k = l
WorkersApart(c) ==
    \A v, w \in Workers :
        Busy(c, v) /\ Busy(c, w) /\ job[c][v].piece = job[c][w].piece => v = w
QueueUnread(c) ==
    \A w \in Workers : Busy(c, w) =>
        \A k \in DOMAIN queue[c] : queue[c][k] # job[c][w].piece
QueueNotGot(c) == \A k \in DOMAIN queue[c] : pieces[c][queue[c][k]] = "none"
ReadNotGot(c) == \A w \in Workers : Busy(c, w) => pieces[c][job[c][w].piece] = "none"
(* A call that has not been rejected has every piece in one of them.       *)
Accounted(c) ==
    Running(c) => \A i \in Piece :
        \/ pieces[c][i] # "none"
        \/ \E w \in Workers : Busy(c, w) /\ job[c][w].piece = i
        \/ \E k \in DOMAIN queue[c] : queue[c][k] = i

(* A worker returns only from an empty queue.                              *)
Drained(c) == (\E w \in Workers : job[c][w] = Off) => queue[c] = <<>>

InOnePlace(c) == /\ QueueDistinct(c) /\ WorkersApart(c) /\ QueueUnread(c)
                 /\ QueueNotGot(c) /\ ReadNotGot(c) /\ Accounted(c) /\ Drained(c)
IInv == TypeOK /\ \A c \in Calls : InOnePlace(c)

-----------------------------------------------------------------------------
(* The queue of a new call.                                                *)

LEMMA PieceFinite == \A S \in SUBSET Piece : IsFiniteSet(S) /\ Cardinality(S) \in Nat
<1> TAKE S \in SUBSET Piece
<1>1. IsFiniteSet(Piece)
  BY ConstantsAssumption, FS_Interval DEF Piece
<1> QED
  BY <1>1, FS_Subset, FS_CardinalityType

(* An arrangement of S in any order of cost names every element of S, and  *)
(* none of them twice.                                                     *)
LEMMA InOrderEnumerates ==
  ASSUME NEW S \in SUBSET Piece, NEW cost \in [S -> Nat], NEW q \in InOrder(S, cost)
  PROVE  /\ q \in Seq(S)
         /\ \A k, l \in DOMAIN q : q[k] = q[l] => k = l
         /\ \A i \in S : \E k \in DOMAIN q : q[k] = i
<1> DEFINE n == Cardinality(S)
<1>1. n \in Nat /\ IsFiniteSet(S)
  BY PieceFinite
<1>2. q \in [1..n -> S]
  BY DEF InOrder
<1>3. q \in Seq(S)
  BY <1>1, <1>2
<1>4. ASSUME NEW k \in 1..n, NEW l \in 1..n, k < l
      PROVE  q[k] # q[l]
  <2>1. cost[q[k]] < cost[q[l]] \/ q[k] < q[l]
    BY <1>2, <1>4 DEF InOrder
  <2>2. q[k] \in S /\ q[l] \in S
    BY <1>2
  <2>3. \A i \in S : i \in Nat /\ cost[i] \in Nat
    BY ConstantsAssumption DEF Piece
  <2> QED
    BY <2>1, <2>2, <2>3
<1>5. \A k, l \in 1..n : q[k] = q[l] => k = l
  <2> SUFFICES ASSUME NEW k \in 1..n, NEW l \in 1..n, k # l
               PROVE  q[k] # q[l]
    OBVIOUS
  <2>1. k < l \/ l < k
    BY <1>1
  <2> QED
    BY <1>4, <2>1
<1>6. q \in Injection(1..n, S)
  BY <1>2, <1>5 DEF Injection, IsInjective
<1>7. Cardinality(1..n) = n
  BY <1>1, FS_Interval
<1>8. q \in Surjection(1..n, S)
  BY <1>1, <1>6, <1>7, FS_Injection
<1> QED
  BY <1>2, <1>3, <1>5, <1>8 DEF Surjection

(* The queue names each missing piece once.                                *)
LEMMA QueueEnumerates ==
  ASSUME TypeOK, NEW sel \in Selections, NEW q \in Queue(sel)
  PROVE  /\ q \in Seq(Missing)
         /\ \A k, l \in DOMAIN q : q[k] = q[l] => k = l
         /\ \A i \in Missing : \E k \in DOMAIN q : q[k] = i
<1>1. ASSUME NEW i \in DOMAIN sel PROVE penalty[sel[i]] \in Nat
  BY <1>1, ConstantsAssumption DEF TypeOK, Selections
<1>2. Rank(sel) \in [Missing -> Nat]
  BY <1>1, ConstantsAssumption DEF Rank
<1>3. Missing \in SUBSET Piece
  BY DEF Missing
<1> QED
  BY <1>2, <1>3, InOrderEnumerates DEF Queue

-----------------------------------------------------------------------------
(* Types.                                                                  *)

LEMMA ReadingType == \A i \in Piece : Reading(i) \in Job
BY ConstantsAssumption DEF Reading, Job

(* The call takes q up, its first pieces with its workers.                 *)
Begins(c, sel, q) ==
    LET taken == IF Len(q) < MaxConcurrent THEN Len(q) ELSE MaxConcurrent
    IN /\ task' = [task EXCEPT ![c] = sel]
       /\ queue' = [queue EXCEPT ![c] = SubSeq(q, taken + 1, Len(q))]
       /\ job' = [job EXCEPT ![c] = [w \in Workers |->
                     IF w <= taken THEN Reading(q[w]) ELSE Off]]

LEMMA StartType == \A c \in Calls : TypeOK /\ Start(c) => TypeOK'
<1> SUFFICES ASSUME NEW c \in Calls, TypeOK, Start(c) PROVE TypeOK'
  OBVIOUS
<1>0. PICK sel \in Selections : \E q \in Queue(sel) : Begins(c, sel, q)
  BY DEF Start, Begins
<1>1. PICK q \in Queue(sel) : Begins(c, sel, q)
  BY <1>0
<1> DEFINE taken == IF Len(q) < MaxConcurrent THEN Len(q) ELSE MaxConcurrent
<1>2. q \in Seq(Missing)
  BY <1>1, QueueEnumerates
<1>3. q \in Seq(Piece) /\ Len(q) \in Nat
  BY <1>2 DEF Missing
<1>4. taken \in Nat /\ taken <= Len(q)
  BY <1>3, ConstantsAssumption
<1>5. \A w \in Workers : w <= taken => Reading(q[w]) \in Job
  BY <1>3, <1>4, ReadingType DEF Workers
<1>6. SubSeq(q, taken + 1, Len(q)) \in Seq(Piece)
  BY <1>3, <1>4
<1>7. sel \in UNION {[D -> Neighbours] : D \in SUBSET Piece}
  BY DEF Selections, Missing
<1> HIDE DEF taken
<1>8. task' \in [Calls -> UNION {[D -> Neighbours] : D \in SUBSET Piece}]
  <2> DEFINE T == UNION {[D -> Neighbours] : D \in SUBSET Piece}
  <2>1. sel \in T /\ task \in [Calls -> T]
    BY <1>7 DEF TypeOK
  <2> HIDE DEF T
  <2>2. [task EXCEPT ![c] = sel] \in [Calls -> T]
    BY <2>1
  <2> QED
    BY <1>1, <2>2 DEF T, Begins
<1>9. job' \in [Calls -> [Workers -> Job \cup {Off, Failed}]]
  BY <1>1, <1>5 DEF TypeOK, taken, Begins
<1>10. queue' \in [Calls -> Seq(Piece)]
  BY <1>1, <1>6 DEF TypeOK, taken, Begins
<1> QED
  BY <1>8, <1>9, <1>10 DEF TypeOK, Start

LEMMA TakenType ==
  ASSUME TypeOK, NEW c \in Calls
  PROVE  NextJob(c) \in Job \cup {Off} /\ Rest(c) \in Seq(Piece)
<1>1. queue[c] \in Seq(Piece)
  BY DEF TypeOK
<1> QED
  BY <1>1, ReadingType DEF NextJob, Rest

LEMMA PenaltyType ==
  ASSUME TypeOK, NEW k \in Nat PROVE Clamped(k) \in 0..MaxPenalty
BY ConstantsAssumption DEF Clamped

LEMMA GotType ==
  ASSUME TypeOK, NEW c \in Calls, NEW w \in Workers, NEW bytes \in {"good", "bad"},
         Got(c, w, bytes), corruptions' \in 0..MaxCorrupt
  PROVE  TypeOK'
<1>1. job[c][w] \in Job
  BY DEF Got, TypeOK
<1>2. job[c][w].piece \in Piece
  BY <1>1 DEF Job
<1> QED
  BY <1>2, TakenType DEF Got, TypeOK, Bytes

LEMMA ReadFailsType ==
  ASSUME TypeOK, NEW c \in Calls, NEW w \in Workers, ReadFails(c, w)
  PROVE  TypeOK'
<1>1. job[c][w] \in Job
  BY DEF ReadFails, TypeOK
<1>2. job[c][w].from < Providers =>
         [job[c][w] EXCEPT !.from = @ + 1] \in Job
  BY <1>1, ConstantsAssumption DEF Job
<1>3. job' \in [Calls -> [Workers -> Job \cup {Off, Failed}]]
  <2>1. \E j \in Job \cup {Failed} : job' = [job EXCEPT ![c][w] = j]
    BY <1>1, <1>2 DEF ReadFails
  <2> QED
    BY <2>1 DEF TypeOK
<1>4. penalty' \in [Neighbours -> 0..MaxPenalty]
  <2>1. CASE job[c][w].piece \in DOMAIN task[c]
    <3> DEFINE n == task[c][job[c][w].piece]
    <3>1. n \in Neighbours
      BY <2>1 DEF TypeOK
    <3>2. penalty[n] + 1 \in Nat
      BY <3>1, ConstantsAssumption DEF TypeOK
    <3>3. penalty' = [penalty EXCEPT ![n] = Clamped(@ + 1)]
      BY <2>1 DEF ReadFails, Blamed
    <3> QED
      BY <3>1, <3>2, <3>3, PenaltyType DEF TypeOK
  <2>2. CASE job[c][w].piece \notin DOMAIN task[c]
    BY <2>2 DEF ReadFails, TypeOK
  <2> QED
    BY <2>1, <2>2
<1>5. faults' \in 0..MaxFaults
  BY ConstantsAssumption DEF ReadFails, TypeOK
<1>6. outcome' \in [Calls -> {"idle", "pending", "abandoned", "failed",
                              "bytes", "late", "corrupt"}]
  BY DEF ReadFails, TypeOK
<1> QED
  BY <1>3, <1>4, <1>5, <1>6 DEF ReadFails, AfterThrow, TypeOK

LEMMA AssembleType == \A c \in Calls : TypeOK /\ Assemble(c) => TypeOK'
<1> SUFFICES ASSUME NEW c \in Calls, TypeOK, Assemble(c) PROVE TypeOK'
  OBVIOUS
<1>1. penalty' \in [Neighbours -> 0..MaxPenalty]
  <2> DEFINE Blames(n) == {i \in DOMAIN task[c] : task[c][i] = n}
  <2>1. \A n \in Neighbours : Blames(n) \in SUBSET Piece
    BY DEF TypeOK
  <2>2. \A n \in Neighbours : Cardinality(Blames(n)) \in Nat
    BY <2>1, PieceFinite
  <2> HIDE DEF Blames
  <2>3. \A n \in Neighbours : penalty[n] + 4 * Cardinality(Blames(n)) \in Nat
    BY <2>2, ConstantsAssumption DEF TypeOK
  <2>4. \A n \in Neighbours :
           Clamped(penalty[n] + 4 * Cardinality(Blames(n))) \in 0..MaxPenalty
    BY <2>3, PenaltyType
  <2>5. \/ penalty' = penalty
        \/ penalty' = [n \in Neighbours |-> Clamped(penalty[n] + 4 * Cardinality(Blames(n)))]
    BY DEF Assemble, Blames
  <2> QED
    BY <2>4, <2>5 DEF TypeOK
<1> QED
  BY <1>1 DEF Assemble, TypeOK

LEMMA TypeStep == TypeOK /\ [Next]_vars => TypeOK'
<1> SUFFICES ASSUME TypeOK, [Next]_vars PROVE TypeOK'
  OBVIOUS
<1>1. CASE UNCHANGED vars
  BY <1>1 DEF vars, call, TypeOK
<1>2. ASSUME NEW c \in Calls, Start(c) PROVE TypeOK'
  BY <1>2, StartType
<1>3. ASSUME NEW c \in Calls, Assemble(c) PROVE TypeOK'
  BY <1>3, AssembleType
<1>4. ASSUME NEW c \in Calls, Timeout(c) PROVE TypeOK'
  BY <1>4, ConstantsAssumption DEF Timeout, TypeOK
<1>5. ASSUME NEW c \in Calls, NEW w \in Workers, Read(c, w) PROVE TypeOK'
  BY <1>5, GotType DEF Read, TypeOK
<1>6. ASSUME NEW c \in Calls, NEW w \in Workers, ReadCorrupt(c, w) PROVE TypeOK'
  <2>1. corruptions' \in 0..MaxCorrupt
    BY <1>6, ConstantsAssumption DEF ReadCorrupt, TypeOK
  <2> QED
    BY <1>6, <2>1, GotType DEF ReadCorrupt
<1>7. ASSUME NEW c \in Calls, NEW w \in Workers, ReadFails(c, w) PROVE TypeOK'
  BY <1>7, ReadFailsType
<1> QED
  BY <1>1, <1>2, <1>3, <1>4, <1>5, <1>6, <1>7 DEF Next

-----------------------------------------------------------------------------
(* In one place.                                                           *)

(* A step that leaves a call's pieces where they are.                      *)
LEMMA Untouched ==
  ASSUME NEW d \in Calls, InOnePlace(d),
         queue'[d] = queue[d], pieces'[d] = pieces[d], job'[d] = job[d],
         Running(d)' => Running(d)
  PROVE  InOnePlace(d)'
BY DEF InOnePlace, QueueDistinct, WorkersApart, QueueUnread, QueueNotGot, ReadNotGot,
       Accounted, Drained, Busy

LEMMA StartInOnePlace ==
  ASSUME TypeOK, NEW c \in Calls, Start(c)
  PROVE  InOnePlace(c)'
<1>0. PICK sel \in Selections : \E q \in Queue(sel) : Begins(c, sel, q)
  BY DEF Start, Begins
<1>1. PICK q \in Queue(sel) : Begins(c, sel, q)
  BY <1>0
<1> DEFINE taken == IF Len(q) < MaxConcurrent THEN Len(q) ELSE MaxConcurrent
<1>2. /\ q \in Seq(Missing)
      /\ \A k, l \in DOMAIN q : q[k] = q[l] => k = l
      /\ \A i \in Missing : \E k \in DOMAIN q : q[k] = i
  BY <1>1, QueueEnumerates
<1>3. Len(q) \in Nat /\ DOMAIN q = 1..Len(q) /\ \A k \in DOMAIN q : q[k] \in Missing
  BY <1>2
<1>4. taken \in 0..Len(q) /\ taken <= MaxConcurrent
  BY <1>3, ConstantsAssumption
<1>4a. taken = Len(q) \/ taken = MaxConcurrent
  OBVIOUS
<1>5. queue'[c] = SubSeq(q, taken + 1, Len(q)) /\ pieces'[c] = cache
  BY <1>1 DEF TypeOK, Start, Begins
<1>6. \A w \in Workers : job'[c][w] = IF w <= taken THEN Reading(q[w]) ELSE Off
  BY <1>1 DEF TypeOK, Begins
<1> HIDE DEF taken
<1>7. DOMAIN queue'[c] = 1..(Len(q) - taken)
  BY <1>2, <1>4, <1>5
<1>8. \A k \in DOMAIN queue'[c] : taken + k \in DOMAIN q /\ queue'[c][k] = q[taken + k]
  BY <1>2, <1>3, <1>4, <1>5, <1>7
<1>9. \A w \in Workers : w <= taken =>
         w \in DOMAIN q /\ Busy(c, w)' /\ job'[c][w].piece = q[w]
  <2> SUFFICES ASSUME NEW w \in Workers, w <= taken
               PROVE  w \in DOMAIN q /\ Busy(c, w)' /\ job'[c][w].piece = q[w]
    OBVIOUS
  <2>1. w \in DOMAIN q
    BY <1>3, <1>4, ConstantsAssumption DEF Workers
  <2>2. q[w] \in Piece
    BY <1>3, <2>1 DEF Missing
  <2>3. Reading(q[w]) \in Job
    BY <2>2, ReadingType
  <2> QED
    BY <1>6, <2>1, <2>3, ConstantsAssumption DEF Busy, Reading
<1>10. \A w \in Workers : Busy(c, w)' => w <= taken
  BY <1>6 DEF Busy
<1>11. Workers \subseteq Nat
  BY DEF Workers
<1>12. QueueDistinct(c)'
  <2> SUFFICES ASSUME NEW k \in DOMAIN queue'[c], NEW l \in DOMAIN queue'[c],
                      queue'[c][k] = queue'[c][l]
               PROVE  k = l
    BY DEF QueueDistinct
  <2>1. taken + k = taken + l
    BY <1>2, <1>8
  <2> QED
    BY <2>1, <1>3, <1>4, <1>7
<1>13. WorkersApart(c)'
  BY <1>2, <1>9, <1>10 DEF WorkersApart
<1>14. QueueUnread(c)'
  <2> SUFFICES ASSUME NEW w \in Workers, Busy(c, w)', NEW k \in DOMAIN queue'[c],
                      queue'[c][k] = job'[c][w].piece
               PROVE  FALSE
    BY DEF QueueUnread
  <2>1. taken + k = w
    BY <1>2, <1>8, <1>9, <1>10
  <2> QED
    BY <2>1, <1>3, <1>4, <1>7, <1>10, <1>11
<1>15. \A i \in Missing : pieces'[c][i] = "none"
  BY <1>5 DEF Missing, Cached
<1>16. QueueNotGot(c)' /\ ReadNotGot(c)'
  BY <1>3, <1>8, <1>9, <1>10, <1>15 DEF QueueNotGot, ReadNotGot
<1>17. Accounted(c)'
  <2> SUFFICES ASSUME NEW i \in Piece, pieces'[c][i] = "none"
               PROVE  \/ \E w \in Workers : Busy(c, w)' /\ job'[c][w].piece = i
                      \/ \E k \in DOMAIN queue'[c] : queue'[c][k] = i
    BY DEF Accounted
  <2>1. i \in Missing
    BY <1>5 DEF Missing, Cached
  <2>2. PICK k \in DOMAIN q : q[k] = i
    BY <1>2, <2>1
  <2>3. CASE k <= taken
    <3>1. k \in Workers
      BY <1>3, <1>4, <2>3, ConstantsAssumption DEF Workers
    <3> QED
      BY <1>9, <2>2, <2>3, <3>1
  <2>4. CASE ~(k <= taken)
    <3>1. k - taken \in DOMAIN queue'[c] /\ taken + (k - taken) = k
      BY <1>3, <1>4, <1>7, <2>4
    <3> QED
      BY <1>8, <2>2, <3>1
  <2> QED
    BY <2>3, <2>4
<1>18. Drained(c)'
  <2> SUFFICES ASSUME NEW w \in Workers, job'[c][w] = Off PROVE queue'[c] = <<>>
    BY DEF Drained
  <2>1. ~(w <= taken)
    BY <1>9 DEF Busy
  <2>2. taken = Len(q)
    BY <1>4a, <2>1, ConstantsAssumption DEF Workers
  <2>3. SubSeq(q, Len(q) + 1, Len(q)) = <<>>
    BY <1>2
  <2> QED
    BY <1>5, <2>2, <2>3
<1> QED
  BY <1>12, <1>13, <1>14, <1>16, <1>17, <1>18 DEF InOnePlace

(* A worker that has read i takes the head of the queue, if there is one.  *)
LEMMA GotInOnePlace ==
  ASSUME TypeOK, NEW c \in Calls, NEW w \in Workers, NEW bytes \in {"good", "bad"},
         Got(c, w, bytes), InOnePlace(c)
  PROVE  InOnePlace(c)'
<1> DEFINE i == job[c][w].piece
           old == queue[c]
<1>1. Busy(c, w) /\ job[c][w] \in Job /\ i \in Piece
  BY DEF Got, TypeOK, Busy, Job
<1>2. \A j \in Piece : pieces'[c][j] = IF j = i THEN bytes ELSE pieces[c][j]
  BY <1>1 DEF Got, TypeOK
<1>3. \A v \in Workers : job'[c][v] = IF v = w THEN NextJob(c) ELSE job[c][v]
  BY DEF Got, TypeOK
<1>4. queue'[c] = Rest(c) /\ old \in Seq(Piece)
  BY DEF Got, TypeOK
<1>5. \A v \in Workers : Busy(c, v) => job[c][v].piece \in Piece
  BY DEF TypeOK, Busy, Job
<1>6. \A v \in Workers : v # w =>
         Busy(c, v)' = Busy(c, v) /\ job'[c][v].piece = job[c][v].piece
  BY <1>3 DEF Busy
<1>7. \A v \in Workers : v # w /\ Busy(c, v) => job[c][v].piece # i
  BY <1>1 DEF InOnePlace, WorkersApart
<1>8. \A k \in DOMAIN old : old[k] \in Piece /\ old[k] # i
  BY <1>1, <1>4 DEF InOnePlace, QueueUnread
<1>9. Running(c)' => Running(c)
  BY DEF Got, Running
<1>10. CASE old = <<>>
  <2>1. queue'[c] = <<>> /\ ~Busy(c, w)'
    BY <1>3, <1>4, <1>10 DEF Rest, NextJob, Busy
  <2>2. \A v \in Workers : Busy(c, v)' => v # w
    BY <2>1
  <2>3. DOMAIN queue'[c] = {}
    BY <2>1
  <2>4. WorkersApart(c)'
    BY <1>6, <2>2 DEF InOnePlace, WorkersApart
  <2>5. ReadNotGot(c)'
    BY <1>2, <1>5, <1>6, <1>7, <2>2 DEF InOnePlace, ReadNotGot
  <2>6. Accounted(c)'
    <3> SUFFICES ASSUME Running(c), NEW j \in Piece, pieces'[c][j] = "none"
                 PROVE  \E v \in Workers : Busy(c, v)' /\ job'[c][v].piece = j
      BY <1>9 DEF Accounted
    <3>1. j # i /\ pieces[c][j] = "none"
      BY <1>2
    <3>2. PICK v \in Workers : Busy(c, v) /\ job[c][v].piece = j
      BY <1>10, <3>1 DEF InOnePlace, Accounted
    <3> QED
      BY <1>6, <3>1, <3>2
  <2> QED
    BY <2>1, <2>3, <2>4, <2>5, <2>6 DEF InOnePlace, QueueDistinct, QueueUnread, QueueNotGot, Drained
<1>11. CASE old # <<>>
  <2>1. /\ DOMAIN old = 1..Len(old) /\ Len(old) \in Nat \ {0}
        /\ DOMAIN Tail(old) = 1..(Len(old) - 1)
        /\ \A k \in DOMAIN Tail(old) : Tail(old)[k] = old[k + 1]
        /\ Head(old) = old[1]
    BY <1>4, <1>11
  <2>2. queue'[c] = Tail(old)
    BY <1>4, <1>11 DEF Rest
  <2>3. \A k \in DOMAIN queue'[c] : k + 1 \in DOMAIN old /\ queue'[c][k] = old[k + 1]
    BY <2>1, <2>2
  <2>4. 1 \in DOMAIN old /\ old[1] \in Piece /\ old[1] # i
    BY <1>8, <2>1
  <2>5. Busy(c, w)' /\ job'[c][w].piece = old[1]
    <3>1. Reading(old[1]) \in Job
      BY <2>4, ReadingType
    <3>2. job'[c][w] = Reading(old[1])
      BY <1>3, <1>11, <2>1 DEF NextJob
    <3> QED
      BY <3>1, <3>2, ConstantsAssumption DEF Busy, Reading
  <2>6. QueueDistinct(c)'
    <3> SUFFICES ASSUME NEW k \in DOMAIN queue'[c], NEW l \in DOMAIN queue'[c],
                        queue'[c][k] = queue'[c][l]
                 PROVE  k = l
      BY DEF QueueDistinct
    <3>1. k + 1 = l + 1
      BY <2>3 DEF InOnePlace, QueueDistinct
    <3> QED
      BY <3>1, <2>1, <2>2
  <2>7. WorkersApart(c)'
    <3>1. \A v \in Workers : v # w /\ Busy(c, v) => job[c][v].piece # old[1]
      BY <2>4 DEF InOnePlace, QueueUnread
    <3> QED
      BY <1>6, <2>5, <3>1 DEF InOnePlace, WorkersApart
  <2>8. QueueUnread(c)'
    <3> SUFFICES ASSUME NEW v \in Workers, Busy(c, v)', NEW k \in DOMAIN queue'[c]
                 PROVE  old[k + 1] # job'[c][v].piece
      BY <2>3 DEF QueueUnread
    <3>1. k + 1 \in DOMAIN old /\ k + 1 # 1
      BY <2>1, <2>2, <2>3
    <3>2. CASE v = w
      BY <2>4, <2>5, <3>1, <3>2 DEF InOnePlace, QueueDistinct
    <3>3. CASE v # w
      BY <1>6, <3>1, <3>3 DEF InOnePlace, QueueUnread
    <3> QED
      BY <3>2, <3>3
  <2>9. QueueNotGot(c)'
    BY <1>2, <1>8, <2>3 DEF InOnePlace, QueueNotGot
  <2>10. ReadNotGot(c)'
    <3>1. pieces'[c][old[1]] = "none"
      BY <1>2, <2>4 DEF InOnePlace, QueueNotGot
    <3> QED
      BY <1>2, <1>5, <1>6, <1>7, <2>5, <3>1 DEF InOnePlace, ReadNotGot
  <2>11. Accounted(c)'
    <3> SUFFICES ASSUME Running(c), NEW j \in Piece, pieces'[c][j] = "none"
                 PROVE  \/ \E v \in Workers : Busy(c, v)' /\ job'[c][v].piece = j
                        \/ \E k \in DOMAIN queue'[c] : queue'[c][k] = j
      BY <1>9 DEF Accounted
    <3>1. j # i /\ pieces[c][j] = "none"
      BY <1>2
    <3>2. CASE \E v \in Workers : Busy(c, v) /\ job[c][v].piece = j
      BY <1>6, <3>1, <3>2
    <3>3. CASE \E k \in DOMAIN old : old[k] = j
      <4>1. PICK k \in DOMAIN old : old[k] = j
        BY <3>3
      <4>2. CASE k = 1
        BY <2>5, <4>1, <4>2
      <4>3. CASE k # 1
        <5>1. k - 1 \in DOMAIN queue'[c] /\ (k - 1) + 1 = k
          BY <2>1, <2>2, <4>3
        <5> QED
          BY <2>3, <4>1, <5>1
      <4> QED
        BY <4>2, <4>3
    <3> QED
      BY <3>1, <3>2, <3>3 DEF InOnePlace, Accounted
  <2>12. Drained(c)'
    <3>1. \A v \in Workers : job[c][v] # Off
      BY <1>11 DEF InOnePlace, Drained
    <3>2. job'[c][w] # Off
      BY <2>5 DEF Busy
    <3> QED
      BY <1>3, <3>1, <3>2 DEF Drained
  <2> QED
    BY <2>6, <2>7, <2>8, <2>9, <2>10, <2>11, <2>12 DEF InOnePlace
<1> QED
  BY <1>10, <1>11

(* A worker whose read fails keeps its piece, or gives it up and the call  *)
(* with it.                                                                *)
LEMMA ReadFailsInOnePlace ==
  ASSUME TypeOK, NEW c \in Calls, NEW w \in Workers, ReadFails(c, w), InOnePlace(c)
  PROVE  InOnePlace(c)'
<1>1. Busy(c, w) /\ job[c][w] \in Job /\ queue'[c] = queue[c] /\ pieces'[c] = pieces[c]
  BY DEF ReadFails, TypeOK, Busy
<1>2. \A v \in Workers : v # w => job'[c][v] = job[c][v]
  BY DEF ReadFails, TypeOK
<1>3. CASE /\ job[c][w].from < Providers
           /\ job' = [job EXCEPT ![c][w].from = @ + 1] /\ UNCHANGED outcome
  <2>0. job[c][w].from \in Nat
    BY <1>1 DEF Job
  <2>1. job'[c][w] = [job[c][w] EXCEPT !.from = @ + 1]
    BY <1>3 DEF TypeOK
  <2>2. job'[c][w].piece = job[c][w].piece
    BY <1>1, <2>1 DEF Job
  <2>3. Busy(c, w)'
    <3>2. job'[c][w] \in Job
      BY <1>1, <1>3, <2>0, <2>1, ConstantsAssumption DEF Job
    <3> QED
      BY <3>2, ConstantsAssumption DEF Busy
  <2>4. \A v \in Workers : Busy(c, v)' = Busy(c, v) /\ job'[c][v].piece = job[c][v].piece
    BY <1>1, <1>2, <2>2, <2>3 DEF Busy
  <2>5. Running(c)' = Running(c)
    BY <1>3 DEF Running
  <2> QED
    BY <1>1, <1>2, <2>3, <2>4, <2>5 DEF InOnePlace, QueueDistinct, WorkersApart,
       QueueUnread, QueueNotGot, ReadNotGot, Accounted, Drained, Busy
<1>4. CASE job' = [job EXCEPT ![c][w] = Failed] /\ outcome' = [outcome EXCEPT ![c] = "failed"]
  <2>1. ~Busy(c, w)' /\ ~Running(c)'
    BY <1>4 DEF TypeOK, Busy, Running
  <2>2. \A v \in Workers : Busy(c, v)' =>
           Busy(c, v) /\ job'[c][v].piece = job[c][v].piece
    BY <1>2, <2>1 DEF Busy
  <2>3. Drained(c)'
    <3>1. job'[c][w] # Off
      BY <1>4, ConstantsAssumption DEF TypeOK
    <3> QED
      BY <1>1, <1>2, <3>1 DEF InOnePlace, Drained
  <2> QED
    BY <1>1, <2>1, <2>2, <2>3 DEF InOnePlace, QueueDistinct, WorkersApart, QueueUnread,
       QueueNotGot, ReadNotGot, Accounted
<1> QED
  BY <1>3, <1>4 DEF ReadFails

-----------------------------------------------------------------------------
LEMMA InitIInv == Init => IInv
<1> SUFFICES ASSUME Init PROVE IInv
  OBVIOUS
<1>1. TypeOK
  <2>1. <<>> \in [{} -> Neighbours]
    OBVIOUS
  <2>2. task \in [Calls -> UNION {[D -> Neighbours] : D \in SUBSET Piece}]
    <3> DEFINE T == UNION {[D -> Neighbours] : D \in SUBSET Piece}
    <3>1. <<>> \in T
      BY <2>1
    <3> HIDE DEF T
    <3>2. task \in [Calls -> T]
      BY <3>1 DEF Init
    <3> QED
      BY <3>2 DEF T
  <2>3. cache \in [Piece -> Bytes] /\ pieces \in [Calls -> [Piece -> Bytes]]
    BY DEF Init, Bytes
  <2>4. penalty \in [Neighbours -> 0..MaxPenalty] /\ faults \in 0..MaxFaults
          /\ corruptions \in 0..MaxCorrupt
    BY ConstantsAssumption DEF Init
  <2>5. queue \in [Calls -> Seq(Piece)] /\ job \in [Calls -> [Workers -> Job \cup {Off, Failed}]]
    BY DEF Init
  <2> QED
    BY <2>2, <2>3, <2>4, <2>5 DEF Init, TypeOK
<1>2. ASSUME NEW c \in Calls PROVE InOnePlace(c)
  <2>1. queue[c] = <<>> /\ ~Running(c) /\ \A w \in Workers : ~Busy(c, w)
    BY DEF Init, Busy, Running
  <2> QED
    BY <2>1 DEF InOnePlace, QueueDistinct, WorkersApart, QueueUnread, QueueNotGot,
       ReadNotGot, Accounted, Drained
<1> QED
  BY <1>1, <1>2 DEF IInv

LEMMA InOnePlaceStep ==
  ASSUME IInv, [Next]_vars, NEW d \in Calls
  PROVE  InOnePlace(d)'
<1> USE DEF IInv
<1>1. CASE UNCHANGED vars
  BY <1>1, Untouched DEF vars, call, Running
<1>2. ASSUME NEW c \in Calls, Start(c) PROVE InOnePlace(d)'
  <2>1. CASE c = d
    BY <1>2, <2>1, StartInOnePlace
  <2>2. CASE c # d
    <3>1. queue'[d] = queue[d] /\ pieces'[d] = pieces[d] /\ job'[d] = job[d]
      BY <1>2, <2>2 DEF Start, TypeOK
    <3>2. outcome'[d] = outcome[d]
      BY <1>2, <2>2 DEF Start, TypeOK
    <3> QED
      BY <3>1, <3>2, Untouched DEF Running
  <2> QED
    BY <2>1, <2>2
<1>3. ASSUME NEW c \in Calls, Assemble(c) PROVE InOnePlace(d)'
  <2>1. Running(d)' => Running(d)
    BY <1>3 DEF Assemble, TypeOK, Running
  <2> QED
    BY <1>3, <2>1, Untouched DEF Assemble
<1>4. ASSUME NEW c \in Calls, Timeout(c) PROVE InOnePlace(d)'
  <2>1. Running(d)' => Running(d)
    BY <1>4 DEF Timeout, TypeOK, Running
  <2> QED
    BY <1>4, <2>1, Untouched DEF Timeout
<1>5. ASSUME NEW c \in Calls, NEW w \in Workers, NEW bytes \in {"good", "bad"},
             Got(c, w, bytes)
      PROVE  InOnePlace(d)'
  <2>1. CASE c = d
    BY <1>5, <2>1, GotInOnePlace
  <2>2. CASE c # d
    <3>1. queue'[d] = queue[d] /\ pieces'[d] = pieces[d] /\ job'[d] = job[d]
      BY <1>5, <2>2 DEF Got, TypeOK
    <3> QED
      BY <1>5, <3>1, Untouched DEF Running, Got
  <2> QED
    BY <2>1, <2>2
<1>6. ASSUME NEW c \in Calls, NEW w \in Workers, ReadFails(c, w) PROVE InOnePlace(d)'
  <2>1. CASE c = d
    BY <1>6, <2>1, ReadFailsInOnePlace
  <2>2. CASE c # d
    <3>1. queue'[d] = queue[d] /\ pieces'[d] = pieces[d] /\ job'[d] = job[d]
      BY <1>6, <2>2 DEF ReadFails, TypeOK
    <3>2. outcome'[d] = outcome[d]
      BY <1>6, <2>2 DEF ReadFails, TypeOK
    <3> QED
      BY <3>1, <3>2, Untouched DEF Running
  <2> QED
    BY <2>1, <2>2
<1> QED
  BY <1>1, <1>2, <1>3, <1>4, <1>5, <1>6 DEF Next, Read, ReadCorrupt

LEMMA Inductive == Spec => []IInv
<1>1. Init => IInv
  BY InitIInv
<1>2. IInv /\ [Next]_vars => IInv'
  BY TypeStep, InOnePlaceStep DEF IInv
<1> QED
  BY <1>1, <1>2, PTL DEF Spec

-----------------------------------------------------------------------------
(* What a call, its workers and the shared cache hold (fetchContent and    *)
(* its pieceCache; a reputation stays within its bounds, ReputationMap).   *)
THEOREM TypeCorrect == Spec => []TypeOK
BY Inductive, PTL DEF IInv

LEMMA AtMostOne ==
  ASSUME NEW S, \A x, y \in S : x = y
  PROVE  IsFiniteSet(S) /\ Cardinality(S) = IF S = {} THEN 0 ELSE 1
<1>1. CASE S = {}
  BY <1>1, FS_EmptySet
<1>2. CASE S # {}
  <2>1. PICK x : S = {x}
    BY <1>2
  <2> QED
    BY <1>2, <2>1, FS_Singleton
<1> QED
  BY <1>1, <1>2

LEMMA InOnePlaceOneRequest == IInv => OneRequestEach
<1> SUFFICES ASSUME IInv, NEW c \in Calls, NEW i \in Piece
             PROVE  Cardinality(Readers(c, i)) + Cardinality(Queued(c, i))
                      <= (IF pieces[c][i] = "none" THEN 1 ELSE 0)
  BY DEF OneRequestEach
<1> USE DEF IInv, InOnePlace, Busy
<1>1. \A v, w \in Readers(c, i) : v = w
  BY DEF Readers, WorkersApart
<1>2. \A k, l \in Queued(c, i) : k = l
  BY DEF Queued, QueueDistinct
<1>3. Readers(c, i) = {} \/ Queued(c, i) = {}
  BY DEF Readers, Queued, QueueUnread
<1>4. Readers(c, i) # {} \/ Queued(c, i) # {} => pieces[c][i] = "none"
  BY DEF Readers, Queued, ReadNotGot, QueueNotGot
<1>5. /\ Cardinality(Readers(c, i)) = IF Readers(c, i) = {} THEN 0 ELSE 1
      /\ Cardinality(Queued(c, i)) = IF Queued(c, i) = {} THEN 0 ELSE 1
  BY <1>1, <1>2, AtMostOne
<1> QED
  BY <1>3, <1>4, <1>5

(* However many workers share a queue, and however many calls of them fail *)
(* or are abandoned, a call asks once for a piece, and never for one that  *)
(* it has (the worker of fetchContent between queue.shift and cache.set).  *)
THEOREM RequestedOnce == Spec => []OneRequestEach
BY Inductive, InOnePlaceOneRequest, PTL

LEMMA AccountedMissesNothing == IInv => NothingMissing
BY DEF IInv, InOnePlace, Accounted, NothingMissing, Readers, Queued, Busy

(* A call that is not rejected loses no piece, also if its caller has left *)
(* it: when its workers have returned and it assembles, all of them are    *)
(* there (fetchContent).                                                   *)
THEOREM NoneMissing == Spec => []NothingMissing
BY Inductive, AccountedMissesNothing, PTL

(* A call hashes whole content: no piece of it is absent, so that a        *)
(* mismatch always means bytes that some provider returned (fetchContent,  *)
(* Promise.all before Buffer.concat).                                      *)
THEOREM AssemblesAll ==
  Spec => [][\A c \in Calls : Assemble(c) => \A i \in Piece : pieces[c][i] # "none"]_vars
<1> DEFINE Whole == \A c \in Calls : Assemble(c) => \A i \in Piece : pieces[c][i] # "none"
<1>1. ASSUME IInv, NEW c \in Calls, Assemble(c), NEW i \in Piece
      PROVE  pieces[c][i] # "none"
  <2>1. Running(c) /\ \A w \in Workers : ~Busy(c, w)
    BY <1>1 DEF Assemble, Busy
  <2>2. queue[c] = <<>>
    BY <1>1, ConstantsAssumption DEF Assemble, IInv, InOnePlace, Drained, Workers
  <2> QED
    BY <1>1, <2>1, <2>2 DEF IInv, InOnePlace, Accounted
<1>2. IInv /\ [Next]_vars => [Whole]_vars
  BY <1>1
<1> QED
  BY <1>2, Inductive, PTL DEF Spec
=============================================================================
