---------------------------- MODULE QuicTransport ----------------------------
(***************************************************************************)
(* The QUIC transport of one node (src/src/node/quic-adapter.ts): the      *)
(* table of channels, the index from address to peer id, the outbound      *)
(* dials with their reconnect timers, start and close.                     *)
(*                                                                         *)
(* Code between two awaits is one step.  The awaits that matter are the    *)
(* dial (createQUICClient), the end of a teardown (reader.cancel and       *)
(* writer.close) and those of connect and close.  A connection reports its *)
(* end through listeners that name an address or a peer id, not a channel, *)
(* and they may run long after the channel was torn down: tearing a        *)
(* channel down does not close its connection.  Each connection carries    *)
(* one stream, the one its dialling side opens.  Certificates, framing and *)
(* the length of the reconnect delay are left out.                         *)
(***************************************************************************)
EXTENDS Naturals, FiniteSets

CONSTANTS
    Conns,      \* connections that exist at the same time
    Addrs,      \* canonical addresses
    Keys,       \* pubkeys of the remote nodes
    KeyOf,      \* the pubkey the node at an address sends first
    Peers,      \* opts.peers: the addresses this node dials
    Callers,    \* addresses from which remote nodes dial this one
    MaxCalls,   \* bound: calls of connect and connectPeer from outside
    MaxInbound, \* bound: inbound connections
    MaxFaults,  \* bound: dials that fail, connections and streams that end
    MaxRenames, \* bound: channels that change their pubkey
    None        \* no connection, no name

Names == Addrs \cup Keys

ASSUME ConstantsAssumption ==
    /\ Addrs \cap Keys = {} /\ Addrs # {}
    /\ None \notin Conns \cup Names
    /\ KeyOf \in [Addrs -> Keys]
    /\ Peers \subseteq Addrs /\ Callers \subseteq Addrs
    /\ MaxCalls \in Nat /\ MaxInbound \in Nat /\ MaxFaults \in Nat
    /\ MaxRenames \in Nat

VARIABLES
    st,         \* a connection's channel: none, open, ended (read loop over
                \*   but not torn down), tearing (inside teardownChannel), torn
    live,       \* connections that are up
    late,       \* listeners of a connection that are still to run
    addr, out,  \* address of a channel; the outbound ones
    id,         \* QuicChannel.peerId: the address, then the pubkey
    bye,        \* channels that close() tears down
    dialer,     \* outboundState: none, or its flag: idle, active
    timer,      \* addresses whose reconnect timer is armed
    dials,      \* connectPeer calls that await the client, per address
    clients,    \* address -> connection
    peerMap,    \* name -> channel
    addressToPeerId,
    socket, started, starting, \* socket exists; connect done; connects under way
    closing,    \* close(): no, channels, clients, done
    told,       \* keys whose last notification was "connected"
    crossed,    \* history: addresses that dialled this node, and those
                \*   whose channel went by one pubkey with that of another
    abandoned,  \* history: keys a channel changed for another one and that
                \*   none registered since
    calls, inbound, faults, renames

connVars  == <<st, live, late, addr, out, id, bye>>
dialVars  == <<dialer, timer, dials, clients>>
tableVars == <<peerMap, addressToPeerId>>
lifeVars  == <<socket, started, starting, closing>>
history   == <<crossed, abandoned>>
bounds    == <<calls, inbound, faults, renames>>
vars == <<connVars, dialVars, tableVars, lifeVars, told, history, bounds>>

closed == closing # "no"
InMap == {c \in Conns : \E n \in Names : peerMap[n] = c}

Init ==
    /\ st = [c \in Conns |-> "none"] /\ live = {} /\ late = [c \in Conns |-> {}]
    /\ addr = [c \in Conns |-> CHOOSE a \in Addrs : TRUE]
    /\ id = addr /\ out = {} /\ bye = {}
    /\ dialer = [a \in Addrs |-> "none"] /\ timer = {}
    /\ dials = [a \in Addrs |-> 0] /\ clients = [a \in Addrs |-> None]
    /\ peerMap = [n \in Names |-> None]
    /\ addressToPeerId = [a \in Addrs |-> None]
    /\ socket = FALSE /\ started = FALSE /\ starting = 0 /\ closing = "no"
    /\ told = {} /\ crossed = {} /\ abandoned = {} /\ calls = 0 /\ inbound = 0
    /\ faults = 0 /\ renames = 0

-----------------------------------------------------------------------------
(* getChannel, on given tables.                                            *)
Found(map, index, n) ==
    map[IF n \in Addrs /\ index[n] # None THEN index[n] ELSE n]

(* The tables after the first half of teardownChannel for channel c.       *)
Less(map, c) == [n \in Names |-> IF c # None /\ n = id[c] THEN None ELSE map[n]]
Unnamed(index, c) ==
    [a \in Addrs |-> IF c # None /\ a = addr[c] /\ index[a] = id[c]
                     THEN None ELSE index[a]]

(* teardownChannel up to its first await, for one or two channels in turn. *)
TearDown(c, d) ==
    /\ st' = [x \in Conns |-> IF x \in {c, d} THEN "tearing" ELSE st[x]]
    /\ peerMap' = Less(Less(peerMap, c), d)
    /\ addressToPeerId' = Unnamed(Unnamed(addressToPeerId, c), d)

(* handleConnectionClosed(n): whichever channel goes by that name now.     *)
HandleClosed(n) ==
    TearDown(IF closed THEN None ELSE Found(peerMap, addressToPeerId, n), None)

(* scheduleReconnect: not after close, not while active, one timer.        *)
SchedulableOpenBug(flag) == flag # "active"
Schedulable(flag) == ~closed /\ flag # "active"

(* connectPeer up to its first await, for the addresses in A; armed are    *)
(* the timers that run when it is called.                                  *)
Call(A, armed) ==
    LET go == {a \in A : dialer[a] # "active"} IN
    /\ dialer' = [a \in Addrs |->
                     IF a \in go THEN "idle" ELSE dialer[a]]
    /\ timer' = armed \ go
    /\ dials' = [a \in Addrs |->
                    IF a \in go /\ socket THEN dials[a] + 1 ELSE dials[a]]

(* A connection object that nothing refers to any more can stand for a new *)
(* connection; the first one does.                                         *)
Spare(c) ==
    LET unused(d) == /\ st[d] \notin {"open", "tearing"}
                     /\ d \notin live /\ late[d] = {} /\ d \notin InMap
                     /\ \A a \in Addrs : clients[a] # d
    IN unused(c) /\ c = CHOOSE d \in Conns : unused(d)

(* attachChannel for a new connection c: no channel once closed.           *)
Attach(c, a) ==
    /\ st' = [st EXCEPT ![c] = IF closed THEN "none" ELSE "open"]
    /\ addr' = [addr EXCEPT ![c] = a]
    /\ id' = [id EXCEPT ![c] = a]
    /\ live' = live \cup {c}
    /\ bye' = bye \ {c}
    /\ IF closed THEN UNCHANGED tableVars
       ELSE /\ peerMap' = [peerMap EXCEPT ![a] = c]
            /\ addressToPeerId' = [addressToPeerId EXCEPT ![a] = a]

-----------------------------------------------------------------------------
(* connect: the guard reads flags that are set only after the awaits.      *)
StartBegins ==
    /\ ~closed /\ ~started /\ calls < MaxCalls
    /\ socket' = TRUE /\ starting' = starting + 1 /\ calls' = calls + 1
    /\ UNCHANGED <<connVars, dialVars, tableVars, started, closing, told, history, inbound, faults, renames>>

StartEnds ==
    /\ starting > 0
    /\ starting' = starting - 1 /\ started' = TRUE
    /\ Call(Peers, timer)
    /\ UNCHANGED <<connVars, clients, tableVars, socket, closing, told, history, bounds>>

(* connectPeer called by the node (connectPeerRef).                        *)
ConnectPeer(a) ==
    /\ started /\ calls < MaxCalls
    /\ Call({a}, timer) /\ calls' = calls + 1
    /\ UNCHANGED <<connVars, clients, tableVars, lifeVars, told, history, inbound, faults, renames>>

ReconnectTimer(a) ==
    /\ a \in timer
    /\ Call({a}, timer \ {a})
    /\ UNCHANGED <<connVars, clients, tableVars, lifeVars, told, history, bounds>>

(* The client is there: the flag is set and the channel attached.          *)
DialDone(a) ==
    /\ dials[a] > 0 /\ socket
    /\ \E c \in Conns :
        /\ Spare(c)
        /\ Attach(c, a)
        /\ out' = out \cup {c}
        /\ clients' = [clients EXCEPT ![a] = c]
    /\ dials' = [dials EXCEPT ![a] = @ - 1]
    /\ dialer' = [dialer EXCEPT ![a] = "active"]
    /\ UNCHANGED <<late, timer, lifeVars, told, history, bounds>>

DialFailsSilentBug(a) ==
    /\ dials[a] > 0 /\ (~socket \/ faults < MaxFaults)
    /\ dials' = [dials EXCEPT ![a] = @ - 1]
    /\ dialer' = [dialer EXCEPT ![a] = "idle"]
    /\ faults' = IF socket THEN faults + 1 ELSE faults
    /\ UNCHANGED <<connVars, timer, clients, tableVars, lifeVars, told, history, calls, inbound, renames>>
DialFails(a) ==
    /\ dials[a] > 0 /\ (~socket \/ faults < MaxFaults)
    /\ dials' = [dials EXCEPT ![a] = @ - 1]
    /\ dialer' = [dialer EXCEPT ![a] = "idle"]
    /\ timer' = IF Schedulable("idle") THEN timer \cup {a} ELSE timer
    /\ faults' = IF socket THEN faults + 1 ELSE faults
    /\ UNCHANGED <<connVars, clients, tableVars, lifeVars, told, history, calls, inbound, renames>>

(* A remote node dials this one and opens its stream.                      *)
ServerConnection(a) ==
    /\ a \in Callers /\ started /\ socket /\ ~closed /\ inbound < MaxInbound
    /\ \E c \in Conns : Spare(c) /\ Attach(c, a) /\ out' = out \ {c}
    /\ inbound' = inbound + 1
    /\ crossed' = crossed \cup {a}
    /\ UNCHANGED <<late, dialVars, lifeVars, told, abandoned, calls, faults, renames>>

(* registerPeerPubkey: a handshake frame of the other side arrives, and    *)
(* the channel moves from its previous name to the pubkey in it.           *)
RegisteredSwapBug(c, k) == [peerMap EXCEPT ![id[c]] = None, ![k] = k]
RegisteredBug(c, k) == [peerMap EXCEPT ![k] = c]
Registered(c, k) == [peerMap EXCEPT ![id[c]] = None, ![k] = c]

(* The open channels of other addresses that go by pubkey k.               *)
Namesakes(c, k) == {d \in Conns : st[d] = "open" /\ id[d] = k /\ addr[d] # addr[c]}

(* The first frame gives the key of the node at the other end; a later one *)
(* may give another, which is announced while the old one is not withdrawn.*)
Handshake(c, k) ==
    /\ st[c] = "open" /\ id[c] # k
    /\ IF id[c] = addr[c] THEN k = KeyOf[addr[c]] /\ renames' = renames
       ELSE renames < MaxRenames /\ renames' = renames + 1
    /\ peerMap' = Registered(c, k)
    /\ id' = [id EXCEPT ![c] = k]
    /\ addressToPeerId' = [addressToPeerId EXCEPT ![addr[c]] = k]
    /\ dialer' = [dialer EXCEPT ![addr[c]] = IF @ = "none" THEN @ ELSE "active"]
    /\ told' = told \cup {k}
    /\ crossed' = IF Namesakes(c, k) = {} THEN crossed
                  ELSE crossed \cup {addr[c]} \cup {addr[d] : d \in Namesakes(c, k)}
    /\ abandoned' = (abandoned \cup ({id[c]} \cap Keys)) \ {k}
    /\ UNCHANGED <<st, live, late, addr, out, bye, timer, dials, clients, lifeVars,
                   calls, inbound, faults>>

-----------------------------------------------------------------------------
(* The connection dies, whatever became of its channel; its listeners are  *)
(* to run.                                                                 *)
ConnectionDies(c) ==
    /\ c \in live /\ faults < MaxFaults
    /\ faults' = faults + 1
    /\ live' = live \ {c}
    /\ late' = [late EXCEPT ![c] = {"close", "stopped"}]
    /\ UNCHANGED <<st, addr, out, id, bye, dialVars, tableVars, lifeVars, told, history, calls, inbound, renames>>

(* One event, two listeners in turn: the first names the address, the      *)
(* second the peer id of the connection's channel.                         *)
LateEvent(c, e) ==
    LET first == IF closed THEN None ELSE Found(peerMap, addressToPeerId, addr[c])
        second == IF closed \/ st[c] = "none" THEN None
                  ELSE Found(Less(peerMap, first),
                             Unnamed(addressToPeerId, first), id[c])
    IN /\ e \in late[c]
       /\ late' = [late EXCEPT ![c] = @ \ {e}]
       /\ TearDown(first, second)
       /\ UNCHANGED <<live, addr, out, id, bye, dialVars, lifeVars, told, history, bounds>>

(* The read loop of c ends, because the connection died or the other side  *)
(* ended the stream, and names the channel's peer id.                      *)
ReadLoopEnds(c) ==
    /\ st[c] = "open"
    /\ c \in live => faults < MaxFaults
    /\ faults' = IF c \in live THEN faults + 1 ELSE faults
    /\ LET hit == IF closed THEN None ELSE Found(peerMap, addressToPeerId, id[c])
       IN /\ st' = [x \in Conns |-> CASE x = hit -> "tearing"
                                      [] x = c /\ x # hit -> "ended"
                                      [] OTHER -> st[x]]
          /\ peerMap' = Less(peerMap, hit)
          /\ addressToPeerId' = Unnamed(addressToPeerId, hit)
    /\ UNCHANGED <<live, late, addr, out, id, bye, dialVars, lifeVars, told, history, calls, inbound, renames>>

(* A write to a channel of the table (send, broadcast) is rejected.        *)
WriteFails(c) ==
    /\ c \in InMap \ live
    /\ HandleClosed(id[c])
    /\ UNCHANGED <<live, late, addr, out, id, bye, dialVars, lifeVars, told, history, bounds>>

(* The rest of teardownChannel.                                            *)
AfterTearDownBug(c) == dialer
AfterTearDown(c) ==
    IF c \in out /\ c \notin bye THEN [dialer EXCEPT ![addr[c]] = "idle"] ELSE dialer
ToldAfterBug(c) == IF c \in bye \/ c \notin out THEN told ELSE told \ {id[c]}
ToldAfter(c) == IF c \in bye THEN told ELSE told \ {id[c]}

TornDown(c) ==
    /\ st[c] = "tearing"
    /\ st' = [st EXCEPT ![c] = "torn"]
    /\ told' = ToldAfter(c)
    /\ clients' = IF c \in out THEN [clients EXCEPT ![addr[c]] = None] ELSE clients
    /\ dialer' = AfterTearDown(c)
    /\ timer' = IF c \in out /\ c \notin bye /\ Schedulable(dialer'[addr[c]])
                THEN timer \cup {addr[c]} ELSE timer
    /\ UNCHANGED <<live, late, addr, out, id, bye, dials, tableVars, lifeVars,
                   history, bounds>>

-----------------------------------------------------------------------------
(* close: timers first, then each channel with an await, then the clients, *)
(* then server and socket.                                                 *)
Close ==
    /\ ~closed /\ calls < MaxCalls
    /\ closing' = "channels" /\ started' = FALSE /\ timer' = {}
    /\ calls' = calls + 1
    /\ UNCHANGED <<connVars, dialer, dials, clients, tableVars, socket, starting, told, history, inbound, faults, renames>>

ByeDone == \A c \in bye : st[c] # "tearing"

CloseChannel(c) ==
    /\ closing = "channels" /\ ByeDone /\ c \in InMap
    /\ TearDown(c, None)
    /\ bye' = bye \cup {c}
    /\ UNCHANGED <<live, late, addr, out, id, dialVars, lifeVars, told, history, bounds>>

CloseClients ==
    /\ closing = "channels" /\ ByeDone /\ InMap = {}
    /\ addressToPeerId' = [a \in Addrs |-> None]
    /\ live' = live \ {clients[a] : a \in Addrs}
    /\ clients' = [a \in Addrs |-> None]
    /\ closing' = "clients"
    /\ UNCHANGED <<st, late, addr, out, id, bye, dialer, timer, dials, peerMap,
                   socket, started, starting, told, history, bounds>>

CloseSocket ==
    /\ closing = "clients"
    /\ closing' = "done" /\ socket' = FALSE /\ live' = {}
    /\ UNCHANGED <<st, late, addr, out, id, bye, dialVars, tableVars,
                   started, starting, told, history, bounds>>

Next ==
    \/ StartBegins \/ StartEnds \/ Close \/ CloseClients \/ CloseSocket
    \/ \E a \in Addrs : \/ ReconnectTimer(a) \/ DialDone(a) \/ DialFails(a)
                        \/ ServerConnection(a)
    \/ \E a \in Peers : ConnectPeer(a)
    \/ \E c \in Conns :
        \/ \E k \in Keys : Handshake(c, k)
        \/ ConnectionDies(c) \/ ReadLoopEnds(c) \/ WriteFails(c)
        \/ TornDown(c) \/ CloseChannel(c)
        \/ \E e \in {"close", "stopped"} : LateEvent(c, e)

Spec == Init /\ [][Next]_vars

(* What is awaited ends, timers fire, and what was sent arrives; faults    *)
(* and calls from outside need not happen.                                 *)
FairSpec ==
    /\ Spec
    /\ WF_vars(StartEnds)
    /\ \A a \in Addrs : WF_vars(ReconnectTimer(a)) /\ WF_vars(DialDone(a))
    /\ \A c \in Conns :
        /\ WF_vars(id[c] = addr[c] /\ \E k \in Keys : Handshake(c, k))
        /\ WF_vars(TornDown(c))
        /\ WF_vars(c \notin live /\ ReadLoopEnds(c))
        /\ \A e \in {"close", "stopped"} : WF_vars(LateEvent(c, e))

-----------------------------------------------------------------------------
TypeOK ==
    /\ st \in [Conns -> {"none", "open", "ended", "tearing", "torn"}]
    /\ live \subseteq Conns /\ out \subseteq Conns /\ bye \subseteq Conns
    /\ late \in [Conns -> SUBSET {"close", "stopped"}]
    /\ addr \in [Conns -> Addrs] /\ id \in [Conns -> Names]
    /\ dialer \in [Addrs -> {"none", "idle", "active"}]
    /\ timer \subseteq Addrs
    /\ dials \in [Addrs -> Nat]
    /\ clients \in [Addrs -> Conns \cup {None}]
    /\ peerMap \in [Names -> Conns \cup {None}]
    /\ addressToPeerId \in [Addrs -> Names \cup {None}]
    /\ socket \in BOOLEAN /\ started \in BOOLEAN /\ starting \in Nat
    /\ closing \in {"no", "channels", "clients", "done"}
    /\ told \subseteq Keys /\ crossed \subseteq Addrs /\ abandoned \subseteq Keys
    /\ calls \in Nat /\ inbound \in Nat /\ faults \in Nat /\ renames \in Nat

(* A name of peerMap leads to a channel that goes by that name and is not  *)
(* being torn down, whatever order double dials, handshakes and late       *)
(* listeners run in: a teardown clears the entry it came from and no       *)
(* other, and send never writes to a channel whose read loop is over       *)
(* except during close, or at an address that a channel which changed its  *)
(* pubkey redirected (handleConnectionClosed then finds that one).         *)
TableLive ==
    \A n \in Names : peerMap[n] # None =>
        /\ id[peerMap[n]] = n
        /\ \/ st[peerMap[n]] = "open"
           \/ /\ st[peerMap[n]] = "ended"
              /\ closed \/ (n \in Addrs /\ addressToPeerId[n] # n)

(* A peer the handlers were told is connected has a channel, or a teardown *)
(* that will tell them otherwise, unless its channel changed that pubkey   *)
(* for another (registerPeerPubkey withdraws nothing).                     *)
ToldLive ==
    ~closed => \A k \in told \ abandoned :
        \/ peerMap[k] # None
        \/ \E c \in Conns : st[c] = "tearing" /\ id[c] = k /\ c \notin bye

(* A dialled peer has a channel in the table or something under way that   *)
(* dials it again ("outbound peers schedule a reconnect"), unless a node   *)
(* at its address dialled this one or its channel shared a pubkey with the *)
(* channel of another address.                                             *)
Linked(a) == \E c \in out : addr[c] = a /\ st[c] = "open" /\ c \in InMap
Held(a) == Linked(a) \/ \E c \in out : addr[c] = a /\ st[c] = "tearing"
NeverStranded ==
    started /\ ~closed =>
        \A a \in Peers \ crossed : a \in timer \/ dials[a] > 0 \/ Held(a)

(* The same of every dialled peer.                                         *)
NoneStranded ==
    started /\ ~closed => \A a \in Peers : a \in timer \/ dials[a] > 0 \/ Held(a)

(* After close no reconnect timer is armed, though teardowns and dials     *)
(* that were under way end after it.                                       *)
ClosedStaysQuiet == closed => timer = {}

(* Once faults stop, every dialled peer is connected for good, unless the  *)
(* transport is closed or the address was crossed.                         *)
Reconnects ==
    \A a \in Peers :
        [](started => <>[](closed \/ a \in crossed \/ Linked(a)))
=============================================================================
