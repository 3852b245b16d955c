----------------------------- MODULE EventSync -----------------------------
(***************************************************************************)
(* The sync managers (src/src/node/sync-manager.ts) of a network of nodes: *)
(* announcements are recorded and flooded, a delta request on every new    *)
(* connection fetches what was missed, and reputation deltas travel in the *)
(* delta responses.                                                        *)
(*                                                                         *)
(* A connection is a pair of FIFO channels.  Its sockets are PeerManager's *)
(* business; here it comes up, goes down at both ends, or is replaced by a *)
(* new one while some end has not seen the old one close.  That late close *)
(* then hides the live socket from broadcast and send (see PeerManager).   *)
(*                                                                         *)
(* Events are announcements (kind 10800) and reputation deltas (10802),    *)
(* all about one publisher whose announcements fail verification; routes   *)
(* and replicas are recorded and served the way announcements are.  A      *)
(* reputation is the number of -0.1 steps below zero, at most MaxPenalty.  *)
(*                                                                         *)
(* Some nodes also use Nostr relays (relay-adapter.ts): what they publish  *)
(* or pass on is kept there, and every subscription delivers each event    *)
(* once, under the pubkey of its author, to its own publisher as well.     *)
(***************************************************************************)
EXTENDS Naturals, Sequences, FiniteSets

CONSTANTS
    Node,        \* the nodes
    Overlay,     \* pairs {a, b} that connect to each other
    Anns,        \* announcements that may be published
    Author,      \* the node that may publish each
    Relayed,     \* the nodes configured with the relays
    MaxDeltas,   \* bound: reputation deltas one node issues
    MaxPenalty,  \* penalty steps at the clamp (10 in the code)
    MaxClock,    \* bound: seconds of created_at
    MaxSessions  \* bound: connections made, replaced and restarts

ASSUME ConstantsAssumption ==
    /\ IsFiniteSet(Node)
    /\ \A l \in Overlay : \E a, b \in Node : a # b /\ l = {a, b}
    /\ MaxDeltas \in Nat /\ MaxPenalty \in Nat
    /\ MaxClock \in Nat \ {0} /\ MaxSessions \in Nat
    /\ Anns \cap (Node \X (1..MaxDeltas)) = {}
    /\ Author \in [Anns -> Node]
    /\ Relayed \subseteq Node

Deltas == Node \X (1..MaxDeltas)
Events == Anns \cup Deltas

AuthorOf(e) == IF e \in Anns THEN Author[e] ELSE e[1]

VARIABLES
    log,       \* eventLog of a node, in memory
    store,     \* its event store, which outlives the process
    at,        \* created_at of each event, 0 when it does not exist yet
    clock,     \* seconds
    penalty,   \* reputationMap of the failing publisher at each node
    links,     \* connections that are up
    chan,      \* chan[a][b]: messages from a to b
    lastSeen,  \* peerLastSeen; 0 when there is no entry
    late,      \* <<n, p>>: n has yet to see an old socket of p close
    hidden,    \* <<n, p>>: n's live socket to p is not in its peer table
    sessions,
    stored,    \* events the relays keep
    heard      \* of those, what a node's subscription has delivered

netVars == <<links, chan, lastSeen, late, hidden, sessions, stored, heard>>
vars == <<log, store, at, clock, penalty, netVars>>

Up(a, b) == {a, b} \in links

Handshake       == [kind |-> "handshake"]
Announce(e)     == [kind |-> "announcement", event |-> e]
Invalid         == [kind |-> "invalid"]
Request(since)  == [kind |-> "request", since |-> since, at |-> clock]
Response(E)     == [kind |-> "response", events |-> E, at |-> clock]
RepDelta(e)     == [kind |-> "reputation", event |-> e]

(* event.created_at of a message.                                          *)
CreatedAt(m) == IF m.kind \in {"announcement", "reputation"} THEN at[m.event]
                ELSE IF m.kind = "invalid" THEN clock ELSE m.at

Init ==
    /\ log = [n \in Node |-> {}]
    /\ store = [n \in Node |-> {}]
    /\ at = [e \in Events |-> 0]
    /\ clock = 1
    /\ penalty = [n \in Node |-> 0]
    /\ links = {}
    /\ chan = [a \in Node |-> [b \in Node |-> <<>>]]
    /\ lastSeen = [a \in Node |-> [b \in Node |-> 0]]
    /\ late = {}
    /\ hidden = {}
    /\ sessions = 0
    /\ stored = {}
    /\ heard = [n \in Node |-> {}]

-----------------------------------------------------------------------------
(* Helpers.  Definitions whose name ends in Bug are mutated forms of the   *)
(* next one; no action uses them.                                          *)

(* The peers broadcast(msg, x) of n reaches.                               *)
ReachedBug(n, x) == {p \in Node : Up(n, p) /\ <<n, p>> \notin hidden}
Reached(n, x) == {p \in Node \ {x} : Up(n, p) /\ <<n, p>> \notin hidden}

(* ch after n sent m to every peer of P.                                   *)
SentTo(ch, n, P, m) ==
    [ch EXCEPT ![n] = [p \in Node |->
        IF p \in P THEN Append(ch[n][p], m) ELSE ch[n][p]]]

(* ch after n sent m to the one peer p, which send() finds by pubkey.      *)
Replied(ch, n, p, m) ==
    IF <<n, p>> \in hidden THEN ch ELSE SentTo(ch, n, {p}, m)

(* RelayAdapter.broadcast and send publish, if there are relays.           *)
Published(n, e) == IF n \in Relayed THEN stored \cup {e} ELSE stored

Taken(n, p) == [chan EXCEPT ![p][n] = Tail(@)]

(* A message of this kind from p is what n's handler gets next.            *)
Gets(n, p, kind) == chan[p][n] # <<>> /\ Head(chan[p][n]).kind = kind

(* handleMessage raises peerLastSeen before it dispatches.                 *)
Seen(n, p, t) ==
    [lastSeen EXCEPT ![n][p] = IF t > @ THEN t ELSE @]

(* reputationMap.adjust, k times -0.1, clamped.                            *)
ClampedBug(k) == k
Clamped(k) == IF k > MaxPenalty THEN MaxPenalty ELSE k

(* hydrateEventStore replays every persisted delta once.                   *)
ReplayBug(L) == 0
Replay(L) == Clamped(Cardinality(L \cap Deltas))

(* What handleDeltaRequest serves.                                         *)
ServedBug(n, since) == {e \in log[n] : at[e] > since}
Served(n, since) == {e \in log[n] : at[e] >= since}

(* f with v for both directions of the pair a, b.                          *)
Both(a, b, f, v) ==
    [f EXCEPT ![a] = [@ EXCEPT ![b] = v], ![b] = [@ EXCEPT ![a] = v]]

(* onPeerDisconnected at both ends deletes their peerLastSeen.             *)
ForgottenBug(a, b) == lastSeen
Forgotten(a, b) == Both(a, b, lastSeen, 0)

(* To whom n forwards an announcement e that came from p.                  *)
ForwardBug(n, p, e) == IF e \in log[n] THEN Reached(n, p) ELSE {}
Forward(n, p, e) == Reached(n, p)

(* recordEvent of each of E, into the log and the store; rememberEvent     *)
(* writes the log alone.                                                   *)
RecordedBug(n, E) == log' = [log EXCEPT ![n] = @ \cup E] /\ UNCHANGED store
Recorded(n, E) ==
    /\ log' = [log EXCEPT ![n] = @ \cup E]
    /\ store' = [store EXCEPT ![n] = @ \cup E]

-----------------------------------------------------------------------------
(* publishAnnouncement: record, then broadcast to everyone.                *)
Publish(n, e) ==
    /\ n = Author[e]
    /\ at[e] = 0
    /\ at' = [at EXCEPT ![e] = clock]
    /\ Recorded(n, {e})
    /\ chan' = SentTo(chan, n, Reached(n, n), Announce(e))
    /\ stored' = Published(n, e)
    /\ UNCHANGED <<clock, penalty, links, lastSeen, late, hidden, sessions,
                   heard>>

(* onPeerConnected: a delta request since what was last seen of the peer.  *)
ReceiveHandshake(n, p) ==
    /\ Gets(n, p, "handshake")
    /\ chan' = SentTo(Taken(n, p), n, {p}, Request(lastSeen[n][p]))
    /\ UNCHANGED <<log, store, at, clock, penalty, links, lastSeen, late,
                   hidden, sessions, stored, heard>>

(* handleAnnouncement of a valid one: recorded and sent on to everyone but *)
(* the sender, whether it was known or not.                                *)
ReceiveAnnouncement(n, p) ==
    LET e == Head(chan[p][n]).event IN
    /\ Gets(n, p, "announcement")
    /\ lastSeen' = Seen(n, p, at[e])
    /\ Recorded(n, {e})
    /\ chan' = SentTo(Taken(n, p), n, Forward(n, p, e), Announce(e))
    /\ stored' = Published(n, e)
    /\ UNCHANGED <<at, clock, penalty, links, late, hidden, sessions, heard>>

(* handleAnnouncement of one whose signature does not verify: adjust the   *)
(* reputation, record and broadcast a delta (to the sender as well).       *)
ReceiveInvalid(n, p) ==
    /\ Gets(n, p, "invalid")
    /\ lastSeen' = Seen(n, p, clock)
    /\ penalty' = [penalty EXCEPT ![n] = Clamped(@ + 1)]
    /\ \E i \in 1..MaxDeltas :
        /\ at[<<n, i>>] = 0
        /\ \A j \in 1..(i - 1) : at[<<n, j>>] # 0
        /\ at' = [at EXCEPT ![<<n, i>>] = clock]
        /\ Recorded(n, {<<n, i>>})
        /\ chan' = SentTo(Taken(n, p), n, Reached(n, n), RepDelta(<<n, i>>))
        /\ stored' = Published(n, <<n, i>>)
    /\ UNCHANGED <<clock, links, late, hidden, sessions, heard>>

(* A live reputation delta has no handler.                                 *)
ReceiveReputation(n, p) ==
    /\ Gets(n, p, "reputation")
    /\ lastSeen' = Seen(n, p, CreatedAt(Head(chan[p][n])))
    /\ chan' = Taken(n, p)
    /\ UNCHANGED <<log, store, at, clock, penalty, links, late, hidden,
                   sessions, stored, heard>>

(* handleDeltaRequest.                                                     *)
ReceiveRequest(n, p) ==
    LET m == Head(chan[p][n]) IN
    /\ Gets(n, p, "request")
    /\ lastSeen' = Seen(n, p, m.at)
    /\ chan' = Replied(Taken(n, p), n, p, Response(Served(n, m.since)))
    /\ UNCHANGED <<log, store, at, clock, penalty, links, late, hidden,
                   sessions, stored, heard>>

(* handleDeltaResponse: everything is recorded, nothing is sent on, and    *)
(* every reputation delta is applied, also one that was known.             *)
AppliedBug(n, E) == penalty[n]
Applied(n, E) == Clamped(penalty[n] + Cardinality(E \cap Deltas))

ReceiveResponse(n, p) ==
    LET m == Head(chan[p][n]) IN
    /\ Gets(n, p, "response")
    /\ lastSeen' = Seen(n, p, m.at)
    /\ Recorded(n, m.events)
    /\ penalty' = [penalty EXCEPT ![n] = Applied(n, m.events)]
    /\ chan' = Taken(n, p)
    /\ UNCHANGED <<at, clock, links, late, hidden, sessions, stored, heard>>

(* RelayAdapter.handleEvent: the author counts as the sender, be it the    *)
(* node itself; an announcement is handled as any other.                   *)
RelayEvent(n, e) ==
    LET p == AuthorOf(e) IN
    /\ n \in Relayed
    /\ e \in stored \ heard[n]
    /\ heard' = [heard EXCEPT ![n] = @ \cup {e}]
    /\ lastSeen' = Seen(n, p, at[e])
    /\ \/ /\ e \in Anns
          /\ Recorded(n, {e})
          /\ chan' = SentTo(chan, n, Forward(n, p, e), Announce(e))
       \/ /\ e \in Deltas
          /\ UNCHANGED <<log, store, chan>>
    /\ UNCHANGED <<at, clock, penalty, links, late, hidden, sessions, stored>>

-----------------------------------------------------------------------------
(* Time passes.                                                            *)
Tick ==
    /\ clock < MaxClock
    /\ clock' = clock + 1
    /\ UNCHANGED <<log, store, at, penalty, netVars>>

(* An announcement that fails verification is on its way, one at a time,   *)
(* while the bound on deltas allows.                                       *)
SendInvalid(p, n) ==
    /\ Up(p, n)
    /\ \E i \in 1..MaxDeltas : at[<<n, i>>] = 0
    /\ \A a \in Node : \A i \in DOMAIN chan[a][n] : chan[a][n][i].kind # "invalid"
    /\ chan' = SentTo(chan, p, {n}, Invalid)
    /\ UNCHANGED <<log, store, at, clock, penalty, links, lastSeen, late,
                   hidden, sessions, stored, heard>>

(* A new connection; each end sends its handshake first.                   *)
Link(a, b) ==
    /\ {a, b} \in Overlay
    /\ ~Up(a, b)
    /\ sessions < MaxSessions
    /\ sessions' = sessions + 1
    /\ links' = links \cup {{a, b}}
    /\ chan' = Both(a, b, chan, <<Handshake>>)
    /\ UNCHANGED <<log, store, at, clock, penalty, lastSeen, late, hidden,
                   stored, heard>>

(* Both ends see it close: what was in flight is lost and peerLastSeen is  *)
(* deleted.                                                                *)
Unlink(a, b) ==
    /\ Up(a, b)
    /\ links' = links \ {{a, b}}
    /\ chan' = Both(a, b, chan, <<>>)
    /\ lastSeen' = Forgotten(a, b)
    /\ late' = late \ {<<a, b>>, <<b, a>>}
    /\ hidden' = hidden \ {<<a, b>>, <<b, a>>}
    /\ UNCHANGED <<log, store, at, clock, penalty, sessions, stored, heard>>

(* A lost connection both ends had registered is replaced before a has     *)
(* seen it close; b has.                                                   *)
Relink(a, b) ==
    /\ Up(a, b)
    /\ <<a, b>> \notin late
    /\ ~Gets(a, b, "handshake") /\ ~Gets(b, a, "handshake")
    /\ sessions < MaxSessions
    /\ sessions' = sessions + 1
    /\ chan' = Both(a, b, chan, <<Handshake>>)
    /\ lastSeen' = [lastSeen EXCEPT ![b][a] = 0]
    /\ late' = (late \ {<<b, a>>}) \cup {<<a, b>>}
    /\ hidden' = hidden \ {<<a, b>>, <<b, a>>}
    /\ UNCHANGED <<log, store, at, clock, penalty, links, stored, heard>>

(* The old socket closes at last: peerLastSeen is deleted, and with it the *)
(* table entry of the new one, if that has already registered its pubkey.  *)
LateClose(a, b) ==
    /\ <<a, b>> \in late
    /\ late' = late \ {<<a, b>>}
    /\ lastSeen' = [lastSeen EXCEPT ![a][b] = 0]
    /\ hidden' = IF Gets(a, b, "handshake") THEN hidden ELSE hidden \cup {<<a, b>>}
    /\ UNCHANGED <<log, store, at, clock, penalty, links, chan, sessions,
                   stored, heard>>

(* A node stops and starts again: log and reputation are hydrated from the *)
(* store, the one that was kept; all its connections are gone, and the new *)
(* subscription gets everything the relays keep.                           *)
Restart(n) ==
    /\ sessions < MaxSessions
    /\ sessions' = sessions + 1
    /\ log' = [log EXCEPT ![n] = store[n]]
    /\ penalty' = [penalty EXCEPT ![n] = Replay(store[n])]
    /\ links' = {l \in links : n \notin l}
    /\ chan' = [a \in Node |-> [b \in Node |->
                  IF n \in {a, b} THEN <<>> ELSE chan[a][b]]]
    /\ lastSeen' = [a \in Node |-> [b \in Node |->
                  IF n \in {a, b} THEN 0 ELSE lastSeen[a][b]]]
    /\ late' = {l \in late : n \notin {l[1], l[2]}}
    /\ hidden' = {l \in hidden : n \notin {l[1], l[2]}}
    /\ heard' = [heard EXCEPT ![n] = {}]
    /\ UNCHANGED <<store, at, clock, stored>>

Receive(n, p) ==
    \/ ReceiveHandshake(n, p)
    \/ ReceiveAnnouncement(n, p)
    \/ ReceiveInvalid(n, p)
    \/ ReceiveReputation(n, p)
    \/ ReceiveRequest(n, p)
    \/ ReceiveResponse(n, p)

Next ==
    \/ \E n \in Node, e \in Anns : Publish(n, e)
    \/ \E n \in Node, e \in Events : RelayEvent(n, e)
    \/ \E n, p \in Node : \/ Receive(n, p)
                          \/ SendInvalid(p, n)
                          \/ Link(n, p)
                          \/ Unlink(n, p)
                          \/ Relink(n, p)
                          \/ LateClose(n, p)
    \/ \E n \in Node : Restart(n)
    \/ Tick

Spec == Init /\ [][Next]_vars

(* A message on a connection that stays up is delivered and handled.       *)
FairSpec == Spec /\ \A n, p \in Node : WF_vars(Receive(n, p))

-----------------------------------------------------------------------------
Message ==
    [kind : {"handshake", "invalid"}]
        \cup [kind : {"announcement"}, event : Anns]
        \cup [kind : {"reputation"}, event : Deltas]
        \cup [kind : {"request"}, since : 0..MaxClock, at : 0..MaxClock]
        \cup [kind : {"response"}, events : SUBSET Events, at : 0..MaxClock]

(* Type invariant.                                                         *)
TypeOK ==
    /\ log \in [Node -> SUBSET Events]
    /\ store \in [Node -> SUBSET Events]
    /\ at \in [Events -> 0..MaxClock]
    /\ clock \in 1..MaxClock
    /\ penalty \in [Node -> 0..MaxPenalty]
    /\ links \subseteq Overlay
    /\ chan \in [Node -> [Node -> Seq(Message)]]
    /\ lastSeen \in [Node -> [Node -> 0..MaxClock]]
    /\ late \subseteq Node \X Node
    /\ hidden \subseteq Node \X Node
    /\ sessions \in 0..MaxSessions
    /\ stored \in SUBSET Events
    /\ heard \in [Node -> SUBSET Events]

(* However messages are lost, repeated and reordered between connections,  *)
(* what the nodes do to their logs is what EventReplication allows: no     *)
(* event is invented by forwarding it, and none is lost by a restart,      *)
(* which keeps of a log only what recordEvent has put into the store.      *)
Replication == INSTANCE EventReplication WITH Event <- Events
LogsReplicate == Replication!Spec

(* A reputation is never better than the one a restart would compute from  *)
(* the log: every recorded delta has been applied at least once.           *)
DeltasApplied == \A n \in Node : penalty[n] >= Replay(log[n])

(* A reputation is the one the log stands for: missed deltas, and only     *)
(* missed ones, are replayed.                                              *)
ReputationIsLogged == \A n \in Node : penalty[n] = Replay(log[n])

-----------------------------------------------------------------------------
(* The pair has lost its connection, or lives with an old socket's close.  *)
Disturbed(a, b) ==
    ~Up(a, b) \/ {<<a, b>>, <<b, a>>} \cap (late \cup hidden) # {}

(* A relay has told b of an event of a: handleMessage raised the mark that *)
(* the next delta request to a starts from.                                *)
Told(b, a) == \E e \in heard[b] : AuthorOf(e) = a

Ends == {c \in Node \X Node : {c[1], c[2]} \in Overlay}

(* What a has logged when b processes its handshake gets to b on the same  *)
(* connection, whatever else crosses the delta request and its response,   *)
(* unless a relay has raised b's mark for a in its own time.               *)
CatchUp ==
    \A c \in Ends, e \in Events : LET a == c[1] b == c[2] IN
        (Gets(b, a, "handshake") /\ e \in log[a])
            ~> (e \in log[b] \/ Disturbed(a, b) \/ Told(b, a))

(* The same of every connection: also of one that replaced another before  *)
(* the node noticed.                                                       *)
CatchUpAlways ==
    \A c \in Ends, e \in Events : LET a == c[1] b == c[2] IN
        (Gets(b, a, "handshake") /\ e \in log[a])
            ~> (e \in log[b] \/ ~Up(a, b) \/ {<<a, b>>, <<b, a>>} \cap hidden # {})

(* An announcement published while the whole overlay is connected reaches  *)
(* every node by flooding.                                                 *)
Settled == links = Overlay /\ late = {} /\ hidden = {}

FloodReaches ==
    \A e \in Anns :
        /\ Settled
        /\ Cardinality({n \in Node : e \in log[n]}) = 1
        /\ \E a, b \in Node : \E i \in DOMAIN chan[a][b] :
              chan[a][b][i] = Announce(e)
        ~> (\A n \in Node : e \in log[n]) \/ ~Settled

(* Flooding stops: once nothing new happens, the channels become empty.    *)
Drains == <>[](\A a, b \in Node : chan[a][b] = <<>>)
=============================================================================
