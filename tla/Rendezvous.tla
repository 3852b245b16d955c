----------------------------- MODULE Rendezvous -----------------------------
(***************************************************************************)
(* Discovery by service records: bootstrap nodes cache the records of      *)
(* their peers and fan them out (src/src/node/bootstrap-service.ts);       *)
(* regular nodes record them, send them on and dial whom they name         *)
(* (handleServiceRecord of src/src/node/sync-manager.ts with the policy of *)
(* src/src/node/peer-discovery-policy.ts).  Nodes of both kinds send their *)
(* own record on a new connection (sendServiceRecord of                    *)
(* src/src/node/peer-manager.ts).                                          *)
(*                                                                         *)
(* Connections are those of EventSync: FIFO channels that come up, go      *)
(* down, or are replaced before one end has seen the old one close.  The   *)
(* observed address and the delta exchange that go along with a new        *)
(* connection teach a regular node nothing about others and are left out.  *)
(* A record is its owner and its created_at; signatures are valid.         *)
(* sendServiceRecord sets no expiration tag: an owner with a Ttl other     *)
(* than 0 is a node of another make, whose tag the bootstrap service       *)
(* honours.  Bootstrap nodes dial nobody, so no two of them connect.       *)
(***************************************************************************)
EXTENDS Sequences, Subsequence

CONSTANTS
    Boot, Client,  \* bootstrap nodes and regular nodes
    Overlay,       \* pairs that may connect
    Capacity,      \* maxPeers of a bootstrap node's cache
    MaxPeers,      \* maxPeers of a regular node's discovery policy
    Distrusts,     \* nodes with a reputation below -0.3 at a regular node
    Ttl,           \* expiration tag of a node's records, 0 when there is none
    SweepPeriod,   \* EVICTION_INTERVAL_MS, in units of the clock
    MaxClock,      \* bound: the clock
    MaxChanges     \* bound: connections made, lost or replaced

Node == Boot \cup Client

ASSUME RendezvousAssumption ==
    /\ IsFiniteSet(Node) /\ Boot \cap Client = {}
    /\ \A l \in Overlay :
          ~(l \subseteq Boot) /\ \E a, b \in Node : a # b /\ l = {a, b}
    /\ Capacity \in [Boot -> Nat \ {0}]
    /\ MaxPeers \in [Client -> Nat] /\ Distrusts \in [Client -> SUBSET Node]
    /\ Ttl \in [Node -> Nat] /\ SweepPeriod \in Nat \ {0}
    /\ MaxClock \in Nat /\ MaxChanges \in Nat

VARIABLES
    cache,     \* BootstrapService.cache in the order of the Map
    known,     \* records in a regular node's event log
    dialled,   \* nodes a regular node has been told to dial
    clock,
    swept,     \* when a bootstrap node last ran evictExpired
    links, chan, late, hidden,  \* as in EventSync
    changes

netVars == <<links, late, hidden, changes>>
vars == <<cache, known, dialled, clock, swept, chan, netVars>>

Records == [owner: Node, at: 0..MaxClock]
Handshake == [kind |-> "handshake"]
Advert(r) == [kind |-> "record", record |-> r]

(* sendServiceRecord.                                                      *)
OwnRecord(n) == [owner |-> n, at |-> clock]

Init ==
    /\ cache = [b \in Boot |-> <<>>]
    /\ known = [n \in Client |-> {}]
    /\ dialled = [n \in Client |-> {}]
    /\ clock = 0 /\ swept = [b \in Boot |-> 0]
    /\ links = {} /\ changes = 0
    /\ chan = [a \in Node |-> [b \in Node |-> <<>>]]
    /\ late = {} /\ hidden = {}

Up(a, b) == {a, b} \in links
Reached(n, x) == {p \in Node \ {x} : Up(n, p) /\ <<n, p>> \notin hidden}
SentTo(ch, n, P, m) ==
    [ch EXCEPT ![n] = [p \in Node |-> IF p \in P THEN Append(ch[n][p], m) ELSE ch[n][p]]]
Taken(n, p) == [chan EXCEPT ![p][n] = Tail(@)]
Gets(n, p, kind) == chan[p][n] # <<>> /\ Head(chan[p][n]).kind = kind
Both(a, b, f, v) ==
    [f EXCEPT ![a] = [@ EXCEPT ![b] = v], ![b] = [@ EXCEPT ![a] = v]]

-----------------------------------------------------------------------------
(* BootstrapService.                                                       *)

ExpiredBug(r) == Ttl[r.owner] # 0 /\ r.at + Ttl[r.owner] < clock
Expired(r) == Ttl[r.owner] # 0 /\ r.at + Ttl[r.owner] <= clock

Owned(c, p) == {i \in DOMAIN c : c[i].owner = p}
Without(c, p) == Kept(c, {i \in DOMAIN c : c[i].owner # p})
Unexpired(c) == Kept(c, {i \in DOMAIN c : ~Expired(c[i])})

(* Upsert: only a strictly newer record replaces one.                      *)
NewsBug(b, r) == \A i \in Owned(cache[b], r.owner) : r.at >= cache[b][i].at
News(b, r) == \A i \in Owned(cache[b], r.owner) : r.at > cache[b][i].at

(* evictOldest: the first of the oldest records.                           *)
Oldest(c) ==
    CHOOSE i \in DOMAIN c :
        /\ \A j \in DOMAIN c : c[i].at <= c[j].at
        /\ \A j \in 1..(i - 1) : c[j].at > c[i].at

FullBug(b, c) == Len(c) > Capacity[b]
Full(b, c) == Len(c) >= Capacity[b]

(* The cache after it took r: in place of the old one, or at the end.      *)
Upserted(b, r) ==
    LET c == cache[b]
        room == IF Full(b, c) THEN Without(c, c[Oldest(c)].owner) ELSE c
    IN IF Owned(c, r.owner) # {}
       THEN [i \in DOMAIN c |-> IF c[i].owner = r.owner THEN r ELSE c[i]]
       ELSE Append(room, r)

(* onPeerConnected sends the whole cache, then registerPeerPubkey the      *)
(* node's own record.                                                      *)
WelcomeBug(b) == <<>>
Welcome(b) == [i \in DOMAIN cache[b] |-> Advert(cache[b][i])]

(* onPeerDisconnected at n.                                                *)
Parted(c, n, p) ==
    IF n \in Boot THEN [c EXCEPT ![n] = Without(@, p)] ELSE c

BootMeets(b, p) ==
    /\ b \in Boot /\ Gets(b, p, "handshake")
    /\ chan' = [Taken(b, p) EXCEPT
                   ![b][p] = @ \o Append(Welcome(b), Advert(OwnRecord(b)))]
    /\ UNCHANGED <<cache, known, dialled, clock, swept, netVars>>

BootIgnores(b, p) ==
    LET r == Head(chan[p][b]).record IN
    /\ b \in Boot /\ Gets(b, p, "record")
    /\ r.owner = b \/ Expired(r) \/ ~News(b, r)
    /\ chan' = Taken(b, p)
    /\ UNCHANGED <<cache, known, dialled, clock, swept, netVars>>

BootAccepts(b, p) ==
    LET r == Head(chan[p][b]).record IN
    /\ b \in Boot /\ Gets(b, p, "record")
    /\ r.owner # b /\ ~Expired(r) /\ News(b, r)
    /\ cache' = [cache EXCEPT ![b] = Upserted(b, r)]
    /\ chan' = SentTo(Taken(b, p), b, Reached(b, p), Advert(r))
    /\ UNCHANGED <<known, dialled, clock, swept, netVars>>

(* evictExpired, on its timer.                                             *)
Due(b) == swept[b] + SweepPeriod <= clock

Sweep(b) ==
    /\ b \in Boot /\ Due(b)
    /\ cache' = [cache EXCEPT ![b] = Unexpired(@)]
    /\ swept' = [swept EXCEPT ![b] = clock]
    /\ UNCHANGED <<known, dialled, clock, chan, netVars>>

-----------------------------------------------------------------------------
(* The regular node.  On a new connection it sends its own record.         *)
ClientMeets(n, p) ==
    /\ n \in Client /\ Gets(n, p, "handshake")
    /\ chan' = SentTo(Taken(n, p), n, {p}, Advert(OwnRecord(n)))
    /\ UNCHANGED <<cache, known, dialled, clock, swept, netVars>>

(* shouldConnect: peers that dialled in are counted, not recognised; a     *)
(* connection to a bootstrap node was always dialled from here.            *)
ShouldConnect(n, p) ==
    /\ Cardinality(Reached(n, n)) < MaxPeers[n]
    /\ ~(p \in dialled[n] \cup Boot /\ p \in Reached(n, n))
    /\ p \notin Distrusts[n]

ClientIgnores(n, p) ==
    /\ n \in Client /\ Gets(n, p, "record")
    /\ Head(chan[p][n]).record.owner = n
    /\ chan' = Taken(n, p)
    /\ UNCHANGED <<cache, known, dialled, clock, swept, netVars>>

(* handleServiceRecord: record, send on whether known or not, maybe dial.  *)
ClientAccepts(n, p) ==
    LET r == Head(chan[p][n]).record IN
    /\ n \in Client /\ Gets(n, p, "record") /\ r.owner # n
    /\ known' = [known EXCEPT ![n] = @ \cup {r}]
    /\ chan' = SentTo(Taken(n, p), n, Reached(n, p), Advert(r))
    /\ dialled' = IF ShouldConnect(n, r.owner)
                  THEN [dialled EXCEPT ![n] = @ \cup {r.owner}] ELSE dialled
    /\ UNCHANGED <<cache, clock, swept, netVars>>

Receive(n, p) ==
    \/ BootMeets(n, p) \/ BootIgnores(n, p) \/ BootAccepts(n, p)
    \/ ClientMeets(n, p) \/ ClientIgnores(n, p) \/ ClientAccepts(n, p)

-----------------------------------------------------------------------------
(* The network.  Regular nodes connect to each other when one dials.       *)
Tick ==
    /\ clock < MaxClock /\ \A b \in Boot : ~Due(b)
    /\ clock' = clock + 1
    /\ UNCHANGED <<cache, known, dialled, swept, chan, netVars>>

Link(a, b) ==
    /\ {a, b} \in Overlay /\ ~Up(a, b) /\ changes < MaxChanges
    /\ {a, b} \subseteq Client => b \in dialled[a]
    /\ changes' = changes + 1
    /\ links' = links \cup {{a, b}}
    /\ chan' = Both(a, b, chan, <<Handshake>>)
    /\ UNCHANGED <<cache, known, dialled, clock, swept, late, hidden>>

Unlink(a, b) ==
    /\ Up(a, b) /\ changes < MaxChanges
    /\ changes' = changes + 1
    /\ links' = links \ {{a, b}}
    /\ chan' = Both(a, b, chan, <<>>)
    /\ cache' = Parted(Parted(cache, a, b), b, a)
    /\ late' = late \ {<<a, b>>, <<b, a>>}
    /\ hidden' = hidden \ {<<a, b>>, <<b, a>>}
    /\ UNCHANGED <<known, dialled, clock, swept>>

(* Replaced by a new connection: b has seen the old one close, a has not.  *)
Relink(a, b) ==
    /\ Up(a, b) /\ <<a, b>> \notin late
    /\ ~Gets(a, b, "handshake") /\ ~Gets(b, a, "handshake")
    /\ changes < MaxChanges
    /\ changes' = changes + 1
    /\ chan' = Both(a, b, chan, <<Handshake>>)
    /\ cache' = Parted(cache, b, a)
    /\ late' = (late \ {<<b, a>>}) \cup {<<a, b>>}
    /\ hidden' = hidden \ {<<a, b>>, <<b, a>>}
    /\ UNCHANGED <<known, dialled, clock, swept, links>>

(* The old socket's close hides the new one and drops the record of b,     *)
(* that of the new connection too.                                         *)
LateClose(a, b) ==
    /\ <<a, b>> \in late
    /\ late' = late \ {<<a, b>>}
    /\ cache' = Parted(cache, a, b)
    /\ hidden' = IF Gets(a, b, "handshake") THEN hidden ELSE hidden \cup {<<a, b>>}
    /\ UNCHANGED <<known, dialled, clock, swept, links, chan, changes>>

Next ==
    \/ \E a, b \in Node : \/ Receive(a, b) \/ Link(a, b) \/ Unlink(a, b)
                          \/ Relink(a, b) \/ LateClose(a, b)
    \/ \E b \in Boot : Sweep(b)
    \/ Tick

Spec == Init /\ [][Next]_vars

(* Whatever is connected, some message that has arrived is handled.        *)
Delivery == WF_vars(\E a, b \in Node : Receive(a, b))

FairSpec == Spec /\ Delivery

-----------------------------------------------------------------------------
(* A bootstrap cache keeps to its capacity with one record per owner, and  *)
(* holds nothing that had expired when it was last swept: what a sweep     *)
(* removes is not let in again, by whatever detour it comes back.          *)
CacheSound ==
    \A b \in Boot : LET c == cache[b] IN
        /\ Len(c) <= Capacity[b]
        /\ \A i, j \in DOMAIN c : c[i].owner = c[j].owner => i = j
        /\ \A i \in DOMAIN c :
              Ttl[c[i].owner] # 0 => c[i].at + Ttl[c[i].owner] > swept[b]

(* What a bootstrap node has cached, every regular node connected to it    *)
(* has got in that or a newer form, or will get on the connection there    *)
(* is, whenever each of them came and whatever was evicted or expired in   *)
(* between; except on a connection that replaced another (see EventSync).  *)
Covers(q, r) == q.owner = r.owner /\ q.at >= r.at

Underway(b, x, r) ==
    \/ Gets(b, x, "handshake")
    \/ \E i \in DOMAIN chan[b][x] :
          chan[b][x][i].kind = "record" /\ Covers(chan[b][x][i].record, r)

Introduced ==
    \A b \in Boot, x \in Client : \A i \in DOMAIN cache[b] :
        LET r == cache[b][i] IN
            \/ x = r.owner \/ ~Up(b, x) \/ <<b, x>> \in hidden \/ Underway(b, x, r)
            \/ \E q \in known[x] : Covers(q, r)

(* The fan-out ends, though regular nodes pass on whatever they get and    *)
(* form rings with bootstrap nodes, one of which has room for too few      *)
(* records to remember all it has seen: on each ring a record comes to its *)
(* owner, who discards it, or to a bootstrap node that still has it.  (Two *)
(* records from outside such a ring would chase each other round it.)      *)
Drains == <>[](\A a, b \in Node : chan[a][b] = <<>>)
=============================================================================
