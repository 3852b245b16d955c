---------------------------- MODULE PeerManager ----------------------------
(***************************************************************************)
(* The WebSocket peer manager of one node (src/src/node/peer-manager.ts):  *)
(* the table of peers, the index from url to peer, the outbound dials and  *)
(* what the handlers above it are told.                                    *)
(*                                                                         *)
(* The manager is single-threaded: every action below is one callback that *)
(* runs to its end (an API call, a socket event, a timer tick).  What is   *)
(* concurrent is the order of the callbacks: several sockets, possibly     *)
(* several to the same remote node, deliver their open, message, error and *)
(* close events in any order.                                              *)
(*                                                                         *)
(* A socket is an element of Conns.  Its temporary id (a random UUID in    *)
(* the code) is the socket itself, and so is the url of an inbound socket  *)
(* (the remote address and ephemeral port).  A socket whose close event    *)
(* has fired is "gone" and its name can be used again for a fresh one.     *)
(***************************************************************************)
EXTENDS Naturals, FiniteSets

CONSTANTS
    Conns,      \* WebSocket objects alive at the same time
    Keys,       \* pubkeys of the remote nodes
    Urls,       \* urls the node is asked to dial
    UrlOwner,   \* the node that listens at a url, [Urls -> Keys]
    Rws,        \* ReconnectingWebSocket instances the node may create
    MaxInbound, \* bound: inbound sockets alive at the same time
    None        \* no key, no socket, no dialer, no id

ASSUME ConstantsAssumption ==
    /\ Conns \cap Keys = {}
    /\ Conns \cap Urls = {}
    /\ None \notin Conns \cup Keys \cup Urls \cup Rws
    /\ UrlOwner \in [Urls -> Keys]
    /\ MaxInbound \in Nat

VARIABLES
    ready,        \* life of a socket: gone, open, closing (terminate or
                  \*   close called), failed (error event fired)
    pubkey,       \* ConnectedPeer.pubkey, None before the handshake
    owner,        \* the dialer a socket belongs to, None for inbound
    remote,       \* the key the other end of a socket goes by
    silent,       \* sockets whose last pong is more than 90 s old
    rws,          \* life of a dialer: idle, connecting, open, stopped
    target,       \* the url of a dialer
    current,      \* the socket a dialer listens to
    dialer,       \* outboundState[url].rws; None: url not in outboundState
    active,       \* outboundState[url].active
    peerMap,      \* id -> socket
    urlToPeerId,  \* url -> id
    up,           \* keys whose last notification was "connected"
    closed,       \* close() was called
    crowded,      \* history: keys two live sockets went by at once, and
                  \*   those that such a socket changed to later
    redialed,     \* history: urls dialled while an earlier dialer ran
    abandoned     \* history: keys a peer changed for another one and that
                  \*   no peer registered since

socketVars == <<ready, pubkey, owner, remote, silent>>
dialVars   == <<rws, target, current, dialer>>
tableVars  == <<active, peerMap, urlToPeerId, up>>
history    == <<crowded, redialed, abandoned>>
vars == <<socketVars, dialVars, tableVars, closed, history>>

Ids       == Conns \cup Keys
PeerUrls  == Conns \cup Urls

Live(c)  == ready[c] # "gone"
UrlOf(c) == IF owner[c] = None THEN c ELSE target[owner[c]]

(* peer.pubkey || peer.tempId *)
IdOf(c) == IF pubkey[c] = None THEN c ELSE pubkey[c]

Init ==
    /\ ready = [c \in Conns |-> "gone"]
    /\ pubkey = [c \in Conns |-> None]
    /\ owner = [c \in Conns |-> None]
    /\ remote = [c \in Conns |-> None]
    /\ silent = {}
    /\ rws = [r \in Rws |-> "idle"]
    /\ target = [r \in Rws |-> None]
    /\ current = [r \in Rws |-> None]
    /\ dialer = [u \in Urls |-> None]
    /\ active = [u \in Urls |-> FALSE]
    /\ peerMap = [i \in Ids |-> None]
    /\ urlToPeerId = [u \in PeerUrls |-> None]
    /\ up = {}
    /\ closed = FALSE
    /\ crowded = {}
    /\ redialed = {}
    /\ abandoned = {}

-----------------------------------------------------------------------------
(* What the private methods do to the tables.  Definitions whose name ends *)
(* in Bug are mutated forms of the next one; no action uses them.          *)

(* removePeer for every socket of D: the entry under a peer's id is        *)
(* deleted whichever socket it holds.                                      *)
PeersWithoutTempIdBug(D) == [i \in Ids |-> IF i \in D THEN None ELSE peerMap[i]]
PeersWithoutIdentityBug(D) ==
    [i \in Ids |-> IF peerMap[i] \in D THEN None ELSE peerMap[i]]
PeersWithout(D) ==
    [i \in Ids |-> IF \E d \in D : IdOf(d) = i THEN None ELSE peerMap[i]]

(* ... the url entry only when it names that id ...                        *)
UrlIndexWithoutBug(D) == urlToPeerId
UrlIndexWithout(D) ==
    [u \in PeerUrls |->
        IF \E d \in D : UrlOf(d) = u /\ urlToPeerId[u] = IdOf(d)
        THEN None ELSE urlToPeerId[u]]

(* ... and the urls of D, with those of U, are no longer active.           *)
ActiveWithoutBug(D, U) == active
ActiveWithout(D, U) ==
    [u \in Urls |-> active[u] /\ u \notin U /\ \A d \in D : UrlOf(d) # u]

RemovePeers(D, U) ==
    /\ peerMap' = PeersWithout(D)
    /\ urlToPeerId' = UrlIndexWithout(D)
    /\ active' = ActiveWithout(D, U)

(* The socket detachUrl(u) removes, as a set of at most one.               *)
Detached(u) ==
    {c \in Conns : urlToPeerId[u] # None /\ peerMap[urlToPeerId[u]] = c}

(* registerPeerPubkey: the peer moves from its previous id, a pubkey or    *)
(* the temporary one, to the pubkey it sent, over whatever socket that key *)
(* held.                                                                   *)
PeersRenamedBug(c, k) == [peerMap EXCEPT ![c] = None, ![k] = c]
PeersRenamed(c, k) == [peerMap EXCEPT ![IdOf(c)] = None, ![k] = c]

(* notifyDisconnected, as the handlers above keep account of it.           *)
UpWithoutBug(c) == up \ {c}
UpWithout(c) == up \ {IdOf(c)}

(* ws.terminate() of the sockets of D.                                     *)
TerminatedBug(D) == ready
Terminated(D) ==
    [c \in Conns |-> IF c \in D /\ ready[c] = "open" THEN "closing" ELSE ready[c]]

(* attachPeer(ws, url, outbound): the fresh socket c enters both tables    *)
(* under its temporary id.                                                 *)
UrlIndexWithNewBug(c, u) == [urlToPeerId EXCEPT ![u] = u]
UrlIndexWithNew(c, u) == [urlToPeerId EXCEPT ![u] = c]

AttachPeer(c, r, u, k) ==
    /\ ready[c] = "gone"
    /\ ready' = [ready EXCEPT ![c] = "open"]
    /\ pubkey' = [pubkey EXCEPT ![c] = None]
    /\ owner' = [owner EXCEPT ![c] = r]
    /\ remote' = [remote EXCEPT ![c] = k]
    /\ silent' = silent \ {c}
    /\ peerMap' = [peerMap EXCEPT ![c] = c]
    /\ urlToPeerId' = UrlIndexWithNew(c, u)
    /\ crowded' = IF \E d \in Conns : Live(d) /\ remote[d] = k
                  THEN crowded \cup {k} ELSE crowded
    /\ UNCHANGED <<up, closed, redialed, abandoned>>

(* A dialer's close handler runs when the socket that closes or fails is   *)
(* the one it listens to: it goes back to connecting, unless stopped.      *)
DialerLosesBug(c) ==
    /\ rws' = rws
    /\ current' = [r \in Rws |-> IF current[r] = c THEN None ELSE current[r]]
DialerLoses(c) ==
    /\ rws' = [r \in Rws |->
          IF current[r] = c /\ rws[r] = "open" THEN "connecting" ELSE rws[r]]
    /\ current' = [r \in Rws |-> IF current[r] = c THEN None ELSE current[r]]

(* What the dialer's close handler removes before the peer's own handler:  *)
(* detachUrl of its url.                                                   *)
DialerDetaches(c) ==
    IF \E r \in Rws : current[r] = c THEN Detached(UrlOf(c)) ELSE {}
DialerMarks(c) ==
    IF \E r \in Rws : current[r] = c THEN {UrlOf(c)} ELSE {}

-----------------------------------------------------------------------------
(* connect(url) when it is neither closed nor already active: a new dialer *)
(* takes the place of the one recorded for the url.                        *)
Connect(u, r) ==
    /\ ~closed
    /\ ~active[u]
    /\ rws[r] = "idle"
    /\ rws' = [rws EXCEPT ![r] = "connecting"]
    /\ target' = [target EXCEPT ![r] = u]
    /\ dialer' = [dialer EXCEPT ![u] = r]
    /\ redialed' = IF dialer[u] # None THEN redialed \cup {u} ELSE redialed
    /\ UNCHANGED <<socketVars, current, tableVars, closed, crowded, abandoned>>

(* The 'open' event of a dialer: attach, mark active, send the handshake.  *)
(* Nothing here looks at closed.                                           *)
DialerOpen(r, c) ==
    /\ rws[r] = "connecting"
    /\ AttachPeer(c, r, target[r], UrlOwner[target[r]])
    /\ rws' = [rws EXCEPT ![r] = "open"]
    /\ current' = [current EXCEPT ![r] = c]
    /\ active' = [active EXCEPT ![target[r]] = @ \/ dialer[target[r]] # None]
    /\ UNCHANGED <<target, dialer>>

(* An attempt to (re)connect fails: the dialer's 'close' handler detaches  *)
(* whatever socket the url now names, and the dialer tries again.          *)
DialFails(r) ==
    /\ rws[r] = "connecting"
    /\ RemovePeers(Detached(target[r]), {target[r]})
    /\ UNCHANGED <<socketVars, dialVars, up, closed, history>>

(* The server's 'connection' event.                                        *)
Accept(c, k) ==
    /\ ~closed
    /\ Cardinality({d \in Conns : Live(d) /\ owner[d] = None}) < MaxInbound
    /\ AttachPeer(c, None, c, k)
    /\ UNCHANGED <<dialVars, active>>

(* A handshake message of the remote: registerPeerPubkey, unless it names  *)
(* the key the peer already has.  The first one gives the key of the node  *)
(* at the other end; a later one may give another key, which is announced  *)
(* while the old one is not withdrawn.  Messages the socket had buffered   *)
(* are still delivered while it is closing.                                *)
Handshake(c, k) ==
    /\ ready[c] \in {"open", "closing"}
    /\ c \notin silent
    /\ k # pubkey[c]
    /\ pubkey[c] = None => k = remote[c]
    /\ pubkey' = [pubkey EXCEPT ![c] = k]
    /\ remote' = [remote EXCEPT ![c] = k]
    /\ peerMap' = PeersRenamed(c, k)
    /\ urlToPeerId' = [urlToPeerId EXCEPT ![UrlOf(c)] = k]
    /\ up' = up \cup {k}
    /\ active' = [u \in Urls |-> active[u] \/ (u = UrlOf(c) /\ dialer[u] # None)]
    /\ crowded' = IF \/ remote[c] \in crowded
                     \/ \E d \in Conns \ {c} : Live(d) /\ remote[d] = k
                  THEN crowded \cup {k} ELSE crowded
    /\ abandoned' = (abandoned \cup ({pubkey[c]} \ {None})) \ {k}
    /\ UNCHANGED <<ready, owner, silent, dialVars, closed, redialed>>

(* The 'error' event: the dialer lets go of the socket and starts over,    *)
(* the peer is removed, and nobody is notified yet.                        *)
SocketError(c) ==
    /\ ready[c] = "open"
    /\ ready' = [ready EXCEPT ![c] = "failed"]
    /\ DialerLoses(c)
    /\ RemovePeers({c} \cup DialerDetaches(c), DialerMarks(c))
    /\ UNCHANGED <<pubkey, owner, remote, silent, target, dialer, up,
                   closed, history>>

(* The 'close' event, whoever caused it: the dialer's handler, then        *)
(* removePeer and notifyDisconnected of the peer.                          *)
SocketClose(c) ==
    /\ Live(c)
    /\ ready' = [ready EXCEPT ![c] = "gone"]
    /\ pubkey' = [pubkey EXCEPT ![c] = None]
    /\ owner' = [owner EXCEPT ![c] = None]
    /\ remote' = [remote EXCEPT ![c] = None]
    /\ silent' = silent \ {c}
    /\ DialerLoses(c)
    /\ RemovePeers({c} \cup DialerDetaches(c), DialerMarks(c))
    /\ up' = UpWithout(c)
    /\ UNCHANGED <<target, dialer, closed, history>>

-----------------------------------------------------------------------------
(* 90 s without a pong, and a pong after all: pings go only to peers in    *)
(* the table.                                                              *)
GoSilent(c) ==
    /\ ready[c] = "open"
    /\ silent' = silent \cup {c}
    /\ UNCHANGED <<ready, pubkey, owner, remote, dialVars, tableVars,
                   closed, history>>

Listed(c) == \E i \in Ids : peerMap[i] = c

Pong(c) ==
    /\ ready[c] = "open"
    /\ c \in silent
    /\ Listed(c)
    /\ ~closed
    /\ silent' = silent \ {c}
    /\ UNCHANGED <<ready, pubkey, owner, remote, dialVars, tableVars,
                   closed, history>>

(* The listed sockets a tick of the ping interval finds silent.            *)
DeadPeersBug == {c \in silent : Listed(c) /\ pubkey[c] # None}
DeadPeers == {c \in silent : Listed(c)}

(* One tick of the ping interval: they are terminated and leave the table  *)
(* under the key they were found at.                                       *)
PingTick ==
    /\ ~closed
    /\ DeadPeers # {}
    /\ ready' = Terminated(DeadPeers)
    /\ peerMap' = [i \in Ids |-> IF peerMap[i] \in DeadPeers THEN None ELSE peerMap[i]]
    /\ UNCHANGED <<pubkey, owner, remote, silent, dialVars, active,
                   urlToPeerId, up, closed, history>>

(* What close() takes down: the dialers recorded in outboundState, their   *)
(* sockets, and the listed peers.                                          *)
RecordedDialersBug == {}
RecordedDialers == {r \in Rws : \E u \in Urls : dialer[u] = r}

ClosedSocketsBug == {current[r] : r \in RecordedDialers}
ClosedSockets == {current[r] : r \in RecordedDialers} \cup {c \in Conns : Listed(c)}

(* close(): the tables are cleared.                                        *)
Close ==
    /\ ~closed
    /\ closed' = TRUE
    /\ rws' = [r \in Rws |-> IF r \in RecordedDialers THEN "stopped" ELSE rws[r]]
    /\ ready' = Terminated(ClosedSockets)
    /\ peerMap' = [i \in Ids |-> None]
    /\ urlToPeerId' = [u \in PeerUrls |-> None]
    /\ dialer' = [u \in Urls |-> None]
    /\ active' = [u \in Urls |-> FALSE]
    /\ UNCHANGED <<pubkey, owner, remote, silent, target, current, up,
                   history>>

Next ==
    \/ \E u \in Urls, r \in Rws : Connect(u, r)
    \/ \E r \in Rws, c \in Conns : DialerOpen(r, c)
    \/ \E r \in Rws : DialFails(r)
    \/ \E c \in Conns, k \in Keys : Accept(c, k)
    \/ \E c \in Conns, k \in Keys : Handshake(c, k)
    \/ \E c \in Conns : \/ SocketError(c)
                        \/ SocketClose(c)
                        \/ GoSilent(c)
                        \/ Pong(c)
    \/ PingTick
    \/ Close

Spec == Init /\ [][Next]_vars

(* The library fires 'close' for a socket that is going down, the interval *)
(* timer keeps ticking, and a dialer retries for ever (maxRetries:         *)
(* Infinity); the remote sends the one handshake of its side (nothing      *)
(* makes it send another).                                                 *)
Fairness ==
    /\ \A c \in Conns : /\ WF_vars(ready[c] # "open" /\ SocketClose(c))
                        /\ WF_vars(pubkey[c] = None /\ \E k \in Keys : Handshake(c, k))
    /\ WF_vars(PingTick)
    /\ \A r \in Rws : WF_vars(\E c \in Conns : DialerOpen(r, c))

FairSpec == Spec /\ Fairness

-----------------------------------------------------------------------------
(* Type invariant.                                                         *)
TypeOK ==
    /\ ready \in [Conns -> {"gone", "open", "closing", "failed"}]
    /\ pubkey \in [Conns -> Keys \cup {None}]
    /\ owner \in [Conns -> Rws \cup {None}]
    /\ remote \in [Conns -> Keys \cup {None}]
    /\ silent \subseteq Conns
    /\ rws \in [Rws -> {"idle", "connecting", "open", "stopped"}]
    /\ target \in [Rws -> Urls \cup {None}]
    /\ current \in [Rws -> Conns \cup {None}]
    /\ dialer \in [Urls -> Rws \cup {None}]
    /\ active \in [Urls -> BOOLEAN]
    /\ peerMap \in [Ids -> Conns \cup {None}]
    /\ urlToPeerId \in [PeerUrls -> Ids \cup {None}]
    /\ up \subseteq Keys
    /\ closed \in BOOLEAN
    /\ crowded \subseteq Keys
    /\ redialed \subseteq Urls
    /\ abandoned \subseteq Keys

(* registerPeerPubkey moves a peer between keys and removePeer deletes by  *)
(* key: a peer in the table always sits under its own current id, so no    *)
(* socket is ever listed twice.                                            *)
KeyedByOwnId == \A i \in Ids : peerMap[i] # None => IdOf(peerMap[i]) = i

(* No socket stays in peerMap after its close event, although entries are  *)
(* deleted and overwritten without looking at the socket they hold, and    *)
(* although a handshake can re-list a socket that was already removed.     *)
NoDeadPeers == \A i \in Ids : peerMap[i] # None => Live(peerMap[i])

(* Every entry of urlToPeerId names a live socket dialled or accepted at   *)
(* that url, by its current id: detachUrl never works from a stale name.   *)
UrlIndexLive ==
    \A u \in PeerUrls : urlToPeerId[u] # None =>
        \E c \in Conns : Live(c) /\ UrlOf(c) = u /\ IdOf(c) = urlToPeerId[u]

(* connect(url) gives up silently while the url is active: that is only    *)
(* ever the case while some socket of that url is alive.                   *)
ActiveMeansConnected ==
    \A u \in Urls : active[u] => \E c \in Conns : Live(c) /\ UrlOf(c) = u

(* A pubkey peers() lists is one the handlers above were told is connected *)
(* and were not told since that it went.                                   *)
ListedPeersAnnounced == \A k \in Keys : peerMap[k] # None => k \in up

(* The handlers above never take a key for connected when the last socket  *)
(* registered under it is gone, unless a peer changed that key for another *)
(* (registerPeerPubkey announces the new one and withdraws nothing).       *)
AnnouncedPeersAlive ==
    \A k \in up \ abandoned : \E c \in Conns : Live(c) /\ pubkey[c] = k

(* The same of every announced key.                                        *)
AnnouncedKeysAlive == \A k \in up : \E c \in Conns : Live(c) /\ pubkey[c] = k

(* A socket that never shared its node's key with another live socket and  *)
(* whose url never had two dialers.                                        *)
Sole(c) == remote[c] \notin crowded /\ UrlOf(c) \notin redialed

(* A sole link is never lost: while its socket is open it is in the table, *)
(* where broadcast, send and the ping loop find it.                        *)
SoleLinkListed ==
    \A c \in Conns : ready[c] = "open" /\ ~closed /\ Sole(c)
                      => peerMap[IdOf(c)] = c

(* close() leaves no dialer running except those of a url that was dialled *)
(* a second time before its first dialer had a connection.                 *)
ClosedStopsDialers ==
    \A r \in Rws : closed /\ rws[r] \in {"connecting", "open"}
                      => target[r] \in redialed

(* close() stops every dialer: the reference to it is kept for cleanup.    *)
ClosedStopsAllDialers ==
    \A r \in Rws : closed => rws[r] \notin {"connecting", "open"}

-----------------------------------------------------------------------------
(* The ping loop gets rid of a peer whose host has gone, when it is a sole *)
(* link.                                                                   *)
SoleSilentDestroyed ==
    \A c \in Conns : (ready[c] = "open" /\ c \in silent)
                         ~> (ready[c] # "open" \/ c \notin silent \/ ~Sole(c))

(* The same of every peer, as the lifecycle documentation has it: without  *)
(* a pong for 90 s the connection is destroyed.                            *)
SilentDestroyed ==
    \A c \in Conns : (ready[c] = "open" /\ c \in silent /\ ~closed)
                         ~> (ready[c] # "open" \/ c \notin silent)

(* After close() every socket comes down, and with the last one the http   *)
(* server's close callback that close() waits for, sole links permitting.  *)
CloseDrains == closed ~> \A c \in Conns : Live(c) => ~Sole(c)

(* A dialled url is served again after every loss, for as long as its node *)
(* is not crowded nor the url redialled: a socket to it is in the table.   *)
Redials ==
    \A u \in Urls :
        (dialer[u] # None)
            ~> \/ \E c \in Conns : ready[c] = "open" /\ UrlOf(c) = u /\ Listed(c)
               \/ closed
               \/ \E c \in Conns : Live(c) /\ UrlOf(c) = u /\ ~Sole(c)
               \/ u \in redialed
=============================================================================
