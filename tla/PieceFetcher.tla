---------------------------- MODULE PieceFetcher ----------------------------
(***************************************************************************)
(* The piece fetcher (src/src/node/piece-fetcher-service.ts) and the       *)
(* timeout of QdhtNode.fetchContent around it, for one content hash.       *)
(*                                                                         *)
(* Calls of fetchContent share the piece cache; the replica store holds    *)
(* the same indices as the cache.  A caller who was turned away may call   *)
(* again at once, while workers of the earlier call still run: a member of *)
(* Calls is a place for one call, free when the call in it has settled and *)
(* its workers have stopped, and whoever calls takes a free one.           *)
(*                                                                         *)
(* Up to MaxConcurrent workers of a call take piece indices from its       *)
(* queue.  A worker is suspended only while it reads a piece, so what it   *)
(* does between two reads is one step.  Bytes are "good" or "bad", and     *)
(* only the hash of the assembled content can tell; a provider may also    *)
(* throw.  The neighbours named by the tasks are blamed but never asked:   *)
(* every piece is read from the source url.                                *)
(***************************************************************************)
EXTENDS Naturals, Sequences, FiniteSets

CONSTANTS
    Calls,          \* bound: calls of fetchContent under way at once
    Neighbours,     \* nodes known to hold replicas
    Claims,         \* the pieces each neighbour announced
    N,              \* totalPieces
    MaxConcurrent,  \* workers of a call
    Providers,      \* content providers that support the url, fallback included
    MaxPenalty,     \* lowest reputation, in steps of 0.05 (20 in the code)
    MaxFaults,      \* bound: reads that throw and calls that time out
    MaxCorrupt,     \* bound: reads that return bad bytes
    Off, Failed     \* a worker that returned, one that threw

Piece == 0..(N - 1)
Workers == 1..MaxConcurrent
Job == [piece : Piece, from : 1..Providers]  \* of a worker that is reading

ASSUME ConstantsAssumption ==
    /\ N \in Nat /\ MaxConcurrent \in Nat \ {0} /\ Providers \in Nat \ {0}
    /\ MaxPenalty \in Nat /\ MaxFaults \in Nat /\ MaxCorrupt \in Nat
    /\ Claims \in [Neighbours -> SUBSET Piece]
    /\ {Off, Failed} \cap Job = {} /\ Off # Failed

VARIABLES
    cache,      \* pieceCache of the hash, "none" where there is no entry
    penalty,    \* reputationMap, steps of 0.05 below zero
    task,       \* selected: piece -> neighbour, of each call
    queue,      \* piece indices left, of each call
    pieces,     \* what the call has got
    job,        \* each worker's piece and the provider it is reading from
    outcome,    \* what became of the call
    faults, corruptions

call == <<task, queue, pieces, job, outcome>>
vars == <<cache, penalty, call, faults, corruptions>>

Init ==
    /\ cache = [i \in Piece |-> "none"]
    /\ penalty = [n \in Neighbours |-> 0]
    /\ task = [c \in Calls |-> <<>>]
    /\ queue = [c \in Calls |-> <<>>]
    /\ pieces = [c \in Calls |-> cache]
    /\ job = [c \in Calls |-> [w \in Workers |-> Off]]
    /\ outcome = [c \in Calls |-> "idle"]
    /\ faults = 0 /\ corruptions = 0

-----------------------------------------------------------------------------
Cached == {i \in Piece : cache[i] # "none"}
Missing == Piece \ Cached

Claimants(i) == {n \in Neighbours : i \in Claims[n]}

(* The claimants of i that are first in an order by reputation; which of   *)
(* equals comes first depends on when they announced.                      *)
Best(i) == {n \in Claimants(i) : \A m \in Claimants(i) : penalty[n] <= penalty[m]}

(* What selectPiecesToFetch may return: a provider for each missing piece  *)
(* that somebody claims.                                                   *)
Selections ==
    LET claimed == {i \in Missing : Claimants(i) # {}}
    IN {s \in [claimed -> Neighbours] : \A i \in claimed : s[i] \in Best(i)}

(* The arrangements of S, each index once, by rising cost and, at equal    *)
(* cost, by index: there is one.                                           *)
InOrder(S, cost) ==
    {q \in [1..Cardinality(S) -> S] :
        \A k, l \in DOMAIN q : k < l =>
            \/ cost[q[k]] < cost[q[l]]
            \/ cost[q[k]] = cost[q[l]] /\ q[k] < q[l]}

(* Selected pieces by reputation of their provider, then the others.       *)
Rank(sel) ==
    [i \in Missing |-> IF i \in DOMAIN sel THEN penalty[sel[i]] ELSE MaxPenalty + 1]
QueueBug(sel) == InOrder(DOMAIN sel, Rank(sel))
QueueTwiceBug(sel) ==
    {a \o b : a \in InOrder(DOMAIN sel, Rank(sel)), b \in InOrder(Missing, Rank(sel))}
Queue(sel) == InOrder(Missing, Rank(sel))

Reading(i) == [piece |-> i, from |-> 1]

(* reputationMap.adjust by k steps.                                        *)
Clamped(k) == IF k > MaxPenalty THEN MaxPenalty ELSE k
Blamed(n, k) == [penalty EXCEPT ![n] = Clamped(@ + k)]

Running(c) == outcome[c] \in {"pending", "abandoned"}
Stopped(c) == \A w \in Workers : job[c][w] \in {Off, Failed}

-----------------------------------------------------------------------------
(* fetchContent, called for the first time or by someone whose last call   *)
(* came to nothing: queue what is not cached, and let each worker take one.*)
Start(c) ==
    /\ ~Running(c) /\ Stopped(c)
    /\ \E sel \in Selections : \E q \in Queue(sel) :
        LET taken == IF Len(q) < MaxConcurrent THEN Len(q) ELSE MaxConcurrent
        IN /\ task' = [task EXCEPT ![c] = sel]
           /\ queue' = [queue EXCEPT ![c] = SubSeq(q, taken + 1, Len(q))]
           /\ job' = [job EXCEPT ![c] = [w \in Workers |->
                         IF w <= taken THEN Reading(q[w]) ELSE Off]]
    /\ pieces' = [pieces EXCEPT ![c] = cache]
    /\ outcome' = [outcome EXCEPT ![c] = "pending"]
    /\ UNCHANGED <<cache, penalty, faults, corruptions>>

(* A worker takes the next index or returns.                               *)
NextJob(c) == IF queue[c] = <<>> THEN Off ELSE Reading(Head(queue[c]))
Rest(c) == IF queue[c] = <<>> THEN <<>> ELSE Tail(queue[c])

(* readPiece returned: bytes are stored without a look at them.            *)
Got(c, w, bytes) ==
    LET i == job[c][w].piece IN
    /\ job[c][w] \notin {Off, Failed}
    /\ pieces' = [pieces EXCEPT ![c][i] = bytes]
    /\ cache' = [cache EXCEPT ![i] = bytes]
    /\ job' = [job EXCEPT ![c][w] = NextJob(c)]
    /\ queue' = [queue EXCEPT ![c] = Rest(c)]
    /\ UNCHANGED <<penalty, task, outcome, faults>>

Read(c, w) == Got(c, w, "good") /\ UNCHANGED corruptions

ReadCorrupt(c, w) ==
    /\ corruptions < MaxCorrupt
    /\ corruptions' = corruptions + 1
    /\ Got(c, w, "bad")

(* The cache after a read of i that threw: streamToBuffer drops the chunks *)
(* it has.                                                                 *)
AfterThrowBug(i) == [cache EXCEPT ![i] = "bad"]
AfterThrow(i) == cache

(* readPiece threw: the task's neighbour is blamed and the next provider   *)
(* asked; after the last one the worker throws, which rejects the call,    *)
(* while its other workers go on.                                          *)
ReadFails(c, w) ==
    LET j == job[c][w] IN
    /\ j \notin {Off, Failed}
    /\ faults < MaxFaults
    /\ faults' = faults + 1
    /\ penalty' = IF j.piece \in DOMAIN task[c]
                  THEN Blamed(task[c][j.piece], 1) ELSE penalty
    /\ cache' = AfterThrow(j.piece)
    /\ \/ /\ j.from < Providers
          /\ job' = [job EXCEPT ![c][w].from = @ + 1]
          /\ UNCHANGED outcome
       \/ /\ j.from = Providers
          /\ job' = [job EXCEPT ![c][w] = Failed]
          /\ outcome' = [outcome EXCEPT ![c] = "failed"]
    /\ UNCHANGED <<task, queue, pieces, corruptions>>

(* All workers returned: the content is assembled and its hash compared.   *)
Assemble(c) ==
    /\ Running(c)
    /\ \A w \in Workers : job[c][w] = Off
    /\ \/ /\ \A i \in Piece : pieces[c][i] = "good"
          /\ outcome' = [outcome EXCEPT ![c] =
                            IF @ = "pending" THEN "bytes" ELSE "late"]
          /\ UNCHANGED penalty
       \/ /\ \E i \in Piece : pieces[c][i] # "good"
          /\ outcome' = [outcome EXCEPT ![c] = "corrupt"]
          /\ penalty' = [n \in Neighbours |-> Clamped(penalty[n] +
                4 * Cardinality({i \in DOMAIN task[c] : task[c][i] = n}))]
    /\ UNCHANGED <<cache, task, queue, pieces, job, faults, corruptions>>

(* Promise.race in QdhtNode.fetchContent: the caller gets an error, the    *)
(* fetch goes on.                                                          *)
Timeout(c) ==
    /\ outcome[c] = "pending"
    /\ faults < MaxFaults
    /\ faults' = faults + 1
    /\ outcome' = [outcome EXCEPT ![c] = "abandoned"]
    /\ UNCHANGED <<cache, penalty, task, queue, pieces, job, corruptions>>

Next ==
    \E c \in Calls : \/ Start(c)
                     \/ Assemble(c)
                     \/ Timeout(c)
                     \/ \E w \in Workers : \/ Read(c, w)
                                           \/ ReadCorrupt(c, w)
                                           \/ ReadFails(c, w)

Spec == Init /\ [][Next]_vars

Served == \E c \in Calls : outcome[c] = "bytes"

(* Nobody has the bytes or is waiting for them, and somebody calls again.  *)
Retry ==
    /\ ~Served
    /\ \A c \in Calls : outcome[c] # "pending"
    /\ \E c \in Calls : Start(c)

(* Reads end, promises settle, and a user who has no bytes asks again.     *)
FairSpec ==
    /\ Spec
    /\ WF_vars(Retry)
    /\ \A c \in Calls :
        /\ WF_vars(Assemble(c))
        /\ \A w \in Workers : WF_vars(Read(c, w))

-----------------------------------------------------------------------------
Bytes == {"none", "good", "bad"}

(* The pieces call c is reading, and the workers that read i.              *)
Readers(c, i) == {w \in Workers : job[c][w] \notin {Off, Failed} /\ job[c][w].piece = i}
Queued(c, i) == {k \in DOMAIN queue[c] : queue[c][k] = i}

(* However the workers share the queue, no piece is asked for twice by one *)
(* call, and none that the call has already got.                           *)
OneRequestEach ==
    \A c \in Calls, i \in Piece :
        LET asked == Cardinality(Readers(c, i)) + Cardinality(Queued(c, i))
        IN asked <= (IF pieces[c][i] = "none" THEN 1 ELSE 0)

(* A call that has not been rejected loses no piece: each is there, being  *)
(* read, or queued, so that nothing is missing when it assembles.          *)
NothingMissing ==
    \A c \in Calls, i \in Piece :
        Running(c) => \/ pieces[c][i] # "none"
                      \/ Readers(c, i) # {}
                      \/ Queued(c, i) # {}

(* If providers stop failing, a caller who keeps asking gets the content,  *)
(* whatever earlier calls were rejected, after the last provider threw, or *)
(* abandoned half way and still run beside the new one, as long as no      *)
(* provider ever returned bad bytes.                                       *)
RetrySucceeds == [](corruptions = 0) => <>Served

(* The same also after bad bytes, which the code promises to drop and to   *)
(* ask for again.                                                          *)
RetryRepairs == <>Served
=============================================================================
