# qDHT: TLA+ models, model checking and proofs

This directory holds a verification development of qDHT, a Nostr-shaped DHT
node in TypeScript (`src/`). It models the parts of the node where the order of
callbacks, messages, timers and restarts matters, checks them with TLC on small
instances, and proves the most important invariants with TLAPS for every value
of the constants. `PROJECT.json` maps every definition to the lines it stands
for, and lists the runs, the mutated definitions that show each property can
fail, the findings, the hazards and the theorems.

All paths below are relative to the repository, which is the directory `src/`
next to this one.

## 1. Inventory

One node is one Node.js process: a single-threaded event loop. Its concurrency
is the order of callbacks (socket events, timers, promise continuations after an
`await`) and of messages between nodes.

| Component | State | Operations | Interacts with | Hard behaviour | What makes it correct |
|---|---|---|---|---|---|
| WebSocket peer manager, `src/node/peer-manager.ts` | `peerMap`, `urlToPeerId`, `outboundState`, `closed`, ping timer | connect, accept, handshake, close/error events, ping tick, broadcast, send, close | sync manager and bootstrap service through handlers; `ws`, `reconnecting-websocket` | several sockets to one node, late close events, dials in flight, silent hosts | every live node is found in the table, no dead socket is, close() takes everything down |
| Sync manager, `src/node/sync-manager.ts` | `eventLog`, `peerLastSeen`, `requestResponses`, reputation map, event store | publish, the handlers of each event kind, delta request and response, search, restart | transports, propagator, neighbour state, SQLite store, peer discovery policy | flooding on cyclic overlays, delta replies crossing live events, reputation deltas applied more than once, restart in between | logs only gain published events, memory and store agree, delta sync fills the gaps, reputation survives a restart |
| Propagator, `src/core/propagation/propagator.ts` | `notes` array, `positions` index, `fetched` | addNote, tick, prune | graph state, reputation, fetch handler (re-entrant) | swap-removal while iterating, eviction at the limit, handler that adds notes | index and array are inverse, each note is fetched once |
| Bootstrap service, `src/node/bootstrap-service.ts` | cache pubkey to service record | connect, disconnect, service record, eviction timer, delta request | peer manager, qdht-node | stale and relayed records, capacity, expiry, disconnect | one newest record per node, bounded size |
| Piece fetcher, `src/node/piece-fetcher-service.ts` | shared `pieceCache`, `replicaStore`, reputation | fetchContent with up to four workers, fetchPiece | providers over HTTP, replica store, neighbour state | concurrent fetches of one hash, partial failure, corrupt pieces, retries | a fetch returns the announced bytes or fails, and a later fetch can succeed |
| Content store, `src/node/content-store.ts` | piece files, SQLite index and hash rows | put, hasPiece, getPiece, getIndex | file system, SQLite | crash between the steps of put | an indexed key has all its pieces |
| QUIC transport, `src/node/quic-adapter.ts` | channels, `peerMap`, `outboundState`, reconnect timers | connect, attach, handshake, teardown, reconnect, close | QUIC library, sync manager | awaits in connectPeer and close, late closes of an old connection | as for the peer manager, plus no dial left after close |
| Relay transport, `src/node/relay-adapter.ts` | subscription, connected flag | connect, publish, receive, close | Nostr relays | relay loss | filtering by kind |
| Local discovery, `src/node/local-discovery.ts` | UDP socket, announce timer | start, message, broadcast, close | sync manager | close during start | no timer after close |
| Node, `src/node/qdht-node.ts` | started flag, all of the above | start, stop, connect, put, fetchContent, search, RPC | everything | stop with operations in flight | orderly shutdown |
| Peer discovery policy, `src/node/peer-discovery-policy.ts` | none | shouldConnect | sync manager, peer manager | decision on peers connected now, not on dials in flight | peer limit |
| Reachability, `src/core/discovery/reachability.ts` | route directory | NAT estimate, build, resolve, dial targets | sync manager, node | ties and stale routes | best route is picked |
| Event store, `src/core/nostr/sqlite-store.ts`, `src/core/storage` | events table, memory map | upsert, loadAll | sync manager, restart | first write against last write | same log after restart |
| Reputation and neighbour state, `src/core/protocol/reputation.ts`, `src/core/neighbour-state.ts` | clamped scores; per-qkey neighbour records | adjust, merge, record | sync manager, fetcher | clamped sums depend on order | |
| Graph walk, `src/core/graph` | adjacency, eigen cache | amplitude | propagator | floating point | |
| Simulator, `src/sim` | nodes, inboxes, churn | run | core | | |
| Web server, CLI, config, benchmarks, examples, deploy script | | | | I/O and presentation | |

## 2. Plan

The modules, the most important behaviour first. All are written; "proofs" marks
those with theorems.

| Module | Question | Composition |
|---|---|---|
| `PeerManager` (proofs) | connection lifecycle of one node | the sockets below everything else |
| `EventSync` (proofs), `EventReplication` | event logs of several nodes, flooding, catch-up, relays, reputation, restarts | implements the abstract replicated log `EventReplication` |
| `PieceFetcher` (proofs) | concurrent fetches of one content | |
| `QuicTransport` (proofs) | the peer manager's questions for a transport that is suspended at awaits | |
| `NoteTable`, `NeighbourState`, `Simulation` (proofs) | the propagator's table scanned while it changes; hand-over, churn and catch-up between nodes | `Simulation` EXTENDS the other two: one table and one neighbour state per node |
| `Rendezvous` (proofs) | bootstrap nodes, service records, the discovery policy | bootstrap service, sync manager and policy in one network |
| `DataDirectory` (proofs) | processes that share one data directory; start and stop of a node | content store, node, local discovery and web server in one process |
| `Reachability`, `EventStore`, `Search` (proofs) | route search over several hops with late answers; routes from reports | `Search` EXTENDS the two algorithm modules |
| `Subsequence` | filtering of sequences | EXTENDed by `Rendezvous`, `EventStore`, `Reachability` |

What is left, in order of worth: the part of `CatchUp` that is safety, as an
invariant over the channels of one connection, and likewise what `CloseDrains` and
`Reconnects` rest on; `Search` with rings in the overlay; what an answer says of the
other nodes' routes.

## 3. Modules

### PeerManager: the connections of one node

One process, the manager; one action per callback, because Node.js runs each to
its end. A socket is a slot of `Conns`: its temporary id and, for an inbound
socket, its address are the slot itself, and a slot is free again after the close
event. `owner`, `rws`, `target` and `current` are what `reconnecting-websocket`
and the closures of `connect()` know; `peerMap`, `urlToPeerId`, `dialer` and
`active` are the manager's own maps (`outboundState` is the last two); `up` is
what the handlers above were told by `onConnected` and `onDisconnected`.

| Action | Code |
|---|---|
| `Connect` | `connect()` past its early returns |
| `DialerOpen`, `DialFails` | the open and close listeners of the dialer |
| `Accept` | the server's connection listener |
| `Handshake` | `handleMessage` on a handshake, with `registerPeerPubkey` |
| `SocketError`, `SocketClose` | the error and close listeners, the dialer's before the peer's |
| `GoSilent`, `Pong`, `PingTick` | the passage of 90 s, the pong listener, the ping interval |
| `Close` | `close()` |

`removePeer`, `detachUrl`, `registerPeerPubkey` and `notifyDisconnected` are
operators (`PeersWithout`, `Detached`, `PeersRenamed`, `UpWithout`) that work by
key, as the code does, and not by socket; that is where the hazards are. After a
socket's error event the dialer has let go of it before its close event comes;
messages a closing socket has buffered are still delivered; `close()` does not
stop a dialer that is about to open. A peer may send a second handshake under
another pubkey, and is then re-keyed. `crowded`, `redialed` and `abandoned` are
history variables: nodes that had two sockets to us at once, urls dialled again
before their first dialer connected, and pubkeys given up for another in a
handshake. The code misbehaves for these (section 5); `Sole` says a link is not one
of the first two, and `AnnouncedPeersAlive` excepts the third.

### EventSync: the event logs of several nodes

A node is its event log in memory, its event store, its reputation of one
publisher whose announcements fail verification, and `peerLastSeen`. A restart
loses all but the store, from which the next process fills its log. A connection is a pair of FIFO channels. It comes up (`Link`), goes
down at both ends (`Unlink`), or is replaced while one end has not seen the old
socket close (`Relink`, then `LateClose`), which is how the behaviour of
`PeerManager` on two sockets of one node shows here: the late close deletes
`peerLastSeen` and hides the live socket from `send` and `broadcast` (`hidden`).

| Action | Code |
|---|---|
| `Publish` | `publishAnnouncement` |
| `ReceiveHandshake` | `onPeerConnected`: the delta request since `peerLastSeen` |
| `ReceiveAnnouncement`, `ReceiveInvalid` | `handleAnnouncement`, valid or not (then `broadcastReputationDelta`) |
| `ReceiveReputation` | `handleMessage` of a kind without a handler |
| `ReceiveRequest`, `ReceiveResponse` | `handleDeltaRequest`, `handleDeltaResponse` |
| `Restart` | `close()`, then `hydrateEventStore` of the next process: `log` becomes what `store` has |
| `RelayEvent` | the relay adapter's subscription: a kept event, once, under its author's pubkey, then `handleMessage` as for a peer |
| `SendInvalid`, `Tick` | external: a bad announcement arrives, time passes |

All handlers first raise `peerLastSeen` (`Seen`), as `handleMessage` does.
Replicas and routes are recorded and served like announcements and are not told
apart from them. Served entries carry whole events; requests and responses are
recorded by the code too but never served, so the log leaves them out. A
reputation is a number of -0.1 steps, clamped.

Nodes in `Relayed` also use Nostr relays: what they publish or pass on is kept
(`stored`), and each subscription delivers it once, to its own publisher as well,
where it is forwarded a second time. Relays take signed events only, so delta
requests and responses never go there. A relayed event raises the mark of its
author although there is no connection; `Told` in `CatchUp` says so.

`EventReplication` says what all nodes promise together without messages: a node
adds an event nobody had (publish) or a set of events some log has (learn), and no
log loses an event. `EventSync` implements it with the identity mapping on `log`.

### PieceFetcher: concurrent fetches of one content

Calls of `QdhtNode.fetchContent` share the piece cache. `Calls` are slots for calls
under way at once: a call that was given up or rejected leaves its workers running
in its slot, and the caller may ask again in another one beside them. A worker is suspended
only while it reads, so what it does between two reads is one step: store the
bytes, take the next index. `Start` is `fetchContent` up to the first suspension
of every worker, with `selectPiecesToFetch` as the set of the results it may
return (`Selections`; the order of neighbours with equal reputation depends on
when they announced). `ReadFails` covers blame, the next provider and, after the
last one, the rejection of the call, while its other workers go on. A sort is a choice
among the arrangements that the rank of each piece allows (`InOrder`). `Assemble` is
the hash check, `Timeout` the `Promise.race` of `fetchContent`, which
abandons the call without cancelling it. Bytes are good or bad; HTTP is the
outcome of a read. The model follows the code in reading every piece from the
source url, also when a neighbour was selected for it.

### QuicTransport: the second transport of one node

The same tables as the peer manager's, but `connectPeer`, `teardownChannel` and
`close` are suspended at awaits, so that each is several actions. A slot of `Conns`
is a connection with its one stream; `st` is how far its channel has come, `late`
the events its listeners have still to report. Listeners name an address or a
pubkey and not a channel, and a torn-down channel leaves its connection up. The
node at an address has a pubkey (`KeyOf`), and a channel may also be registered under
another one, again and again (`MaxRenames`). `crossed` and `abandoned` are history
variables: addresses whose node dialled in, or whose channel shared a pubkey with
another address's, and pubkeys that a channel gave up for another.

| Action | Code |
|---|---|
| `StartBegins`, `StartEnds` | `connect()` up to and after the start of the socket |
| `ConnectPeer`, `ReconnectTimer`, `DialDone`, `DialFails` | `connectPeer` before and after `createQUICClient`; `scheduleReconnect` |
| `ServerConnection`, `Handshake` | an inbound connection, `attachChannel`, `registerPeerPubkey` |
| `ConnectionDies`, `LateEvent`, `ReadLoopEnds`, `WriteFails` | the listeners and the read loop, each of which may be late |
| `TornDown`, `CloseChannel` | the two halves of `teardownChannel` |
| `Close`, `CloseClients`, `CloseSocket` | `close()` between its awaits |

### NoteTable, NeighbourState and Simulation

`NoteTable` has the propagator's array, its map of positions and its fetched ids;
each operator is a method (`RemoveAt` moves the last note into the gap).
`NeighbourState` has `NeighbourStateMap`. `Simulation` composes one of each per
node with the simulator's inboxes, churn and delta catch-up: a step is one
iteration of a loop of a round (churn, then for each online node its inbox and its
scan). The neighbours a
fetched note is handed to are noted one by one, in a recursive function over sets of
them (`Sent`). The walk's probability is a choice; in the round in which a note is born it
is zero except at the source, as `amplitude` is. The simulator files neighbour
state by announcement key; keys of different announcements are distinct here. The
live node never calls `tick` nor `updateReplica`: the scan and the claimed
replicas are exercised by the simulator only, which is why it is the composition.

### Rendezvous: bootstrap nodes and service records

On a new connection a node of either kind sends its own record (`OwnRecord`), a
bootstrap node after its cache. Bootstrap nodes keep the records of others in order
of arrival, evict the oldest at capacity, sweep expired ones, forget a node's record
when it disconnects and pass newer ones on; regular nodes log them (`known`), send
them on and dial (`ShouldConnect`). A bootstrap node dials nobody
(`src/node/qdht-node.ts:268`), so no overlay connects two of them. Connections are
EventSync's. A bootstrap node's delta response carries `eventIds` only, which
`handleDeltaResponse` of a regular node throws at and `handleMessage`'s caller
ignores, so it is left out. What a cache loses on a disconnect, by expiry or by
eviction is a subsequence of it (`Kept`). `sendServiceRecord` sets no expiration tag,
which the bootstrap service honours: a node with a `Ttl` is one of another make.

### DataDirectory: processes over one data directory

The daemon and `put` commands. `put()` is one action per file or SQL call,
because another process or a crash may come between any two; `Then` is the loop
over the pieces. `start()` and `stop()` are one action per component they open or
close; a dialer that the peer manager has lost (section 5) stays open after
`disconnect()` (`stray`). One content of several distinct pieces stands for all. SQLite waits up to
5 s for a lock (`busy_timeout`); giving up after that is left out. `Hurry` is a
second SIGINT. `damaged` and `fresh` are history variables: a crash inside a put,
and the puts begun since.

### Reachability, EventStore and Search

`Reachability` has the algorithms on routes as operators: aggregation of reports,
the two best endpoints, NAT estimate, the resolution of several routes and dial
targets. What the code does in loops (`Aggregate`, `Latest`, `Hydrate`) is a recursive
function of the position reached; its stable sort (`Sorted`) puts each entry at the
place that the number of entries before it says. `EventStore` has the SQLite upsert with its order of rows, the
in-memory log and its hydration. `Search` puts them in a network: requests to all
neighbours, passed on by those without an answer, responses to whoever passed the
request on, the one `requestResponses` entry that the last response overwrites, and
the poll that looks at it. Owners of identities build and publish new routes while
searches are under way. The overlay is a tree, because requests circulate on
rings for ever; observations come before anything else; a restarted node's
connections are up at once and the delta exchange is left to `EventSync`.

## 4. Runs

What each run shows, and why its bounds suffice:

| Run | Instance | Shows |
|---|---|---|
| `peer_safety` | 3 sockets, 2 nodes, 1 url, 2 dialers, at most 2 inbound; symmetry on sockets and dialers | Types, and eight invariants of the tables, the notices and the dialers. Three sockets are one more than any of the hazards needs (two to one node and a bystander); two dialers of one url are the double dial; two pubkeys let a peer change its own. |
| `peer_live` | 2 sockets, 2 nodes, 1 url, 2 dialers, 1 inbound, no symmetry | A silent sole link is destroyed, `close()` drains, a dialled url is served again. |
| `sync_safety` | 2 nodes, one of them on a relay, 1 announcement, 1 reputation delta each, penalty clamp 2, 2 seconds, 3 connections or restarts | Logs implement `EventReplication`, also when a restart reads them back from the store; every recorded delta is in force. Two deltas and a clamp of 2 make an applied-twice delta and the clamp both happen. |
| `sync_live` | 3 nodes in a line, the outer ones on a relay, 2 announcements, 2 seconds, 2 connections of which one has been made | An undisturbed connection catches up, including events that the other end relays and that were created before the last one seen; a flood reaches everybody on a connected overlay; the traffic ends. |
| `fetch` | 2 calls at once, 3 pieces, 2 workers each, 2 providers, 2 neighbours, 4 faults, 1 bad read | No call asks for a piece twice, none assembles with one missing, repeated fetches succeed unless bytes were bad. Three pieces for two workers leave one in the queue; two faults reject a call, four reject two of them, and a retry runs beside the workers a rejected or abandoned call left behind. |
| `quic` | 7 connections, 1 dialled peer, 1 caller, 2 calls, 1 inbound, 1 fault, 1 change of pubkey | Tables name live channels, notices are true, no dialled peer that is not `crossed` is stranded, no timer after close, and the peer is connected for good once faults stop. A late event of one connection can tear down up to three others (by address, by pubkey, by the read loop): seven slots are what the two calls and the fault can use up. |
| `simulation` | 3 nodes in a line, 3 announcements of 2 publishers, one distrusted by a node, tables of 2 notes, notes that expire after 1 round, 3 rounds, 2 absences | The tables stay consistent while scanned, both ends agree on what was handed on, catch-up closes every gap. Three announcements for two places make eviction happen. |
| `rendezvous` | 2 bootstrap nodes (room for 2 records and for 1), a regular node connected to both, whose records expire, and one that is a newcomer or has met one of them; 1 tick, 2 connections made, lost or replaced, or 1 while the clock ticks | Caches are sound, whoever is connected gets what is cached, the flood ends although nodes form rings and the small cache forgets what it has seen. With a room of 1 every record that is new evicts another. |
| `datadir` | a daemon, 2 put commands, 2 pieces, 3 puts, 3 starts, 1 crash; symmetry on the commands | Content is readable once nobody is at work on it, announced content is stored, HTTP requests and the messages of closing transports find the store open. Two pieces are what a put that is overtaken between rows needs; three puts are two that collide and the one that repairs. |
| `search` | a searcher with two neighbours and one node behind, 2 identities, logs with old routes in both orders, limit 2, 2 searches, 1 new route, 1 lost connection, 1 restart, 3 events in all | An answer is as new as what its giver held, no node falls back to an older route, routes name the best endpoints. The old routes reach the limit of a response; two searches let answers to the first arrive in the second. |
| `fetch_poison` | as `fetch` with one provider | Violation, section 5. |
| `datadir_socket` | as `datadir` without crashes | Violation, section 5. |

`sync_live` starts later than the initial state (`MCOneLinkSpec`): a connection
has been made and has finished its exchange, and the node on the other side has
published. `Publish`, `Tick`, `Link` and the handlers lead there from `Init`
(publish, tick up to the time, link, exchange handshakes, requests and empty
responses); starting there leaves the bounds to what the property is about.
`rendezvous` starts later too (`MCInit`): `MCNewcomer` and `MCMet` are what is left
when one or two regular nodes have connected and all records have been handled, with
the clock at 0 or, after a tick, at 1 with sweeps due. TLC finds both states from
`Init`; from there the bounds are spent on the newcomer.

Deadlock is not checked where the system may stop: after `close()` in
`PeerManager` and `QuicTransport`, after the last round in `Simulation`, with all
processes gone in `DataDirectory`, and when the bounds are used up and the channels
are empty elsewhere. `PieceFetcher` never stops, because the caller can always ask
again.

Every property of a passing run has a mutated form of the code (an operator whose
name ends in `Bug`, just before the definition it mutates) that violates it under
the run's own configuration.

### Fairness

- `PeerManager`: `ws` fires the close event of a socket that is going down; a
  remote sends its one handshake; the ping interval keeps ticking until
  `close()`; `reconnecting-websocket` retries for ever (`maxRetries: Infinity`) and
  a listening node is reached eventually. Nothing makes a silent socket close by
  itself, a dial start or an inbound connection come.
- `EventSync`: a message on a connection that stays up is delivered and handled
  (TCP, and one event per message). Connections need not come up or last: the
  properties hold for the undisturbed ones. A relay need not deliver anything.
- `Rendezvous`: while messages are under way, some message is handled sooner or
  later, no matter which. Timers need not fire, nor connections come up or last.
- `PieceFetcher`: a read ends, a finished call settles, and a caller without the
  bytes asks again, which may be while workers of its earlier calls still run. Faults are bounded: `RetrySucceeds` is about a source that
  stops failing.
- `QuicTransport`: what is awaited ends (a dial with a connection or with an error,
  a teardown, the start of the socket), a reconnect timer fires, handshakes arrive,
  the read loop of a dead connection ends and its listeners report. Faults and
  calls from outside need not happen and are bounded.

`Simulation`, `DataDirectory` and `Search` are checked for safety only: a
simulation run is finite, a process may be stopped for ever, and a search ends by its
own timeout, which the code sets but no property waits for.

## 5. Where the code and its documentation disagree

Two runs exhibit a divergence from a text of the repository:

- `fetch_poison`: bad bytes stay in the piece cache and make every retry fail;
  `src/node/README.md:117` promises that a piece is verified on receipt and
  requested again.
- `datadir_socket`: `startRpc` unlinks whatever is at `qdht.sock`, so that a `put`
  in the data directory of a running daemon takes its socket away, and `peers`,
  `replicas` and `search`, which talk to the daemon through it
  (`bin/README.md:144`), find nothing.

The following are found by adding the named definition to the run of the same
module, with the changes to its instance named here:

- `SilentDestroyed` (`PeerManager`, `peer_live`): `removePeer` deletes a pubkey's entry whichever
  socket it holds. When a node has two sockets to us and one closes, the live one
  leaves the table and is never pinged or terminated; `src/node/README.md:83`
  promises that a connection without a pong for 90 s is destroyed.
- `ClosedStopsAllDialers` (`PeerManager`, `peer_safety`): a url dialled twice before its first
  connection leaves a dialer that `close()` does not know and that reconnects for
  ever.
- `AnnouncedKeysAlive` (`PeerManager`, `peer_safety`): a peer that sends a second
  handshake under another pubkey is announced under the new one, and the old one is
  never withdrawn: `previousId` finds the entry and not the announcement
  (`src/node/peer-manager.ts:295`). The same is found in `quic` for `ToldLive` over
  all of `told` instead of `told \ abandoned` (`src/node/quic-adapter.ts:455`); there a
  channel that ends may also stay in the table under its address when the address
  leads to another pubkey by then, which `TableLive` excepts.
- `ReputationIsLogged` (`EventSync`, `sync_safety`): a delta response applies reputation deltas the
  node already has, each reconnection lowers the score again, and a restart raises
  it.
- `CatchUpAlways` (`EventSync`), in `sync_live` with `Relayed = {}` and
  `MaxSessions = 3`: when a connection is replaced before the node sees the old one
  close, the delta request starts at the old mark and older events the peer
  learned since are missed.
- `Drains` (`EventSync`) on `MCTriangle` from `MCRingSpec`: announcements are
  forwarded whether they are known or not, so on a cycle of three nodes one
  announcement circulates for ever.
- `NoneStranded` (`QuicTransport`, `quic`): when the dialled node also dials in, or
  another one registers under its pubkey, the inbound channel takes the entry of
  the outbound one, and after both end nobody dials it again. In the run as it is
  it takes the change of pubkey; with `KeyOf <- MCSameNode` and `MaxRenames = 0` the
  dialled node only has to dial back.
- `StoreOutlivesAll` (`DataDirectory`, `datadir`): `stop()` closes the store before the
  RPC socket (`src/node/qdht-node.ts:249`), so that an RPC client may still be served
  without a store, and so may a peer of the dialer that `close()` does not know.
- `Drains` (`Rendezvous`) does not hold for every overlay. A ring of regular nodes only
  forwards a record of another node for ever, as in `EventSync`. A ring with a
  single bootstrap node that has room for one record does so too when two records
  come from outside the ring: each evicts the other before it comes round again.

Seen while modelling, without a property:

- What arrives by delta response is recorded and not forwarded. One malformed entry
  of a response ends the handler, and the mark has been raised all the same. Every
  delta request and response stays in the log and the store for ever.
- An event from a relay raises its author's mark, and the next delta request to
  that peer skips older events (`relay-adapter.ts:84`).
- A search response goes to the node that passed the request on and no further;
  `src/node/README.md:63` says responses are broadcast. A search that the own log
  answers with an announcement of the identity returns at once, without the routes
  the neighbours hold.
- The two endpoints of a route may be a udp or a tcp address, which
  `connectPeerRef` (`src/node/qdht-node.ts`) does not dial.
- The NAT estimate of a route counts reports about other nodes too. A comment in
  `extractIp` speaks of "::1", which the code cuts at its first colon.
- The fetcher orders pieces by reputation only, where the documentation speaks of
  rarest first. It blames the selected neighbour for failures of the source url.
- The live node never calls the propagator's `tick`, so that notes stay until the
  limit of 10,000; at the limit `removeAt(0)` moves the newest note to the first
  place, where the next arrival evicts it.
- The discovery policy counts connected peers and not dials in flight, so that
  several records accepted at once exceed `maxPeers`. A peer that dialled in is
  listed by its remote address: two nodes that learn of each other hold two
  connections.
- A second SIGINT runs `stop()` again, finds the web server gone and closes the
  store under a request; a put is then left without its row. `StoreOutlivesWork`
  excepts it. `QDHTNode.connect` and `LocalDiscoveryService.close` are not safe
  against overlapping calls either, which no program of the repository makes.
- A QUIC client whose creation ends after `close()` is put in a table nobody
  clears.
- The store keeps the last event written under a key, the memory log the first; for
  events without an id they differ after a restart.

## 6. Proofs

TLAPS checks, for every value of the constants that satisfies the
`...Assumption` of the module (disjoint sets of ids, natural bounds, an owner
for each url; a finite set of nodes and an overlay of pairs; a function giving the node
at each address; and so on), and with no other assumption unless named:

- `PeerManager_proofs`: `TypeOK` and all invariants `peer_safety` checks, for any
  number of sockets, nodes, urls and dialers. They are not inductive one by one. The
  inductive invariant `IInv` adds what a free and a used slot hold (`Slots`), what a
  dialer knows of its url and socket (`Dialers`: an open dialer's current socket
  is live, belongs to it and has its url), and what the history variables have
  recorded (`Crowd`, `Doubles`). The proof goes in layers, each using the ones
  before: links between sockets and dialers; the two tables (`KeyedByOwnId`,
  `NoDeadPeers`, `UrlIndexLive`), where `RemovalKeepsTables` treats every way of
  removing peers at once; notices and `active`; the history; `ClosedStopsDialers`;
  and at last `SoleLinkListed`, which needs that what a dialer's close handler
  detaches is never another sole link (`SoleNotDetached`).
- `EventSync_proofs`: `TypeOK`; `Spec => LogsReplicate`, the refinement of
  `EventReplication`; `DeltasApplied`. The inductive invariant is `TypeOK` with
  `Backed` (every event in a message is in its sender's log, so that receiving is
  learning), `Stamped` (a logged event has a creation time, so that publishing
  is of a new one), `Durable` (a store holds what the log holds, so that a restart
  loses nothing) and `DeltasApplied` itself, which rests on a lemma about the
  clamped cardinality of a union of finite sets.

- `QuicTransport_proofs`: `TypeOK`, `TableLive`, `ToldLive`, `ClosedStaysQuiet` and
  `NeverStranded`, for any pubkeys at the addresses and any changes of them.
  The invariant adds that a channel goes by its address or by a pubkey (`NamesOK`)
  and that only `close()` dismisses channels (`ByeLast`); for `NeverStranded`, that a
  started transport has its socket (`HasSocket`) and, of an address that is not
  `crossed`, that its channels were dialled and share no name with another
  address's (`Outbound`, `SameName`), that the pubkey it leads to is listed with one of
  them (`IndexHeld`), and that it is marked active only while it is held
  (`ActiveHeld`).
- `Simulation_proofs`: first a layer of lemmas about `NoteTable` (what `RemoveAt`,
  adding, pruning and fetching do to a table whose positions are the inverse of
  its array), then `TablesConsistent`, `ExaminedOnce` and `NoGap` for every graph,
  table limit and schedule of churn. `NoGap` needs that a note in a table can be
  handed on (`Backlog`) and that an offline node's absence is noted (`Absent`).
  `NeighboursAgree` needs that a node holds what it has received and is sent what
  its sender has received or published (`Truthful`), and what noting a set of
  neighbours one by one leaves of each, by induction over the set.
- `DataDirectory_proofs`: `TypeOK`, `StoreOutlivesWork`, `AnnouncedIndexed` and
  `SettledReadable` for any number of processes and pieces. The argument for the
  last: a file that is not whole has a put about to write it (`Sound`), a missing
  hash row has a put that will insert it (`Covered`), and whenever a row is there
  while a later one is missing, the put that will insert the later one is ahead of
  the row (`Relay`), so that a put thrown out by that row is not the one that was
  needed. A crash breaks all of it; a put begun after the crash restores it call
  by call (`Files`, `Rows`).
- `PieceFetcher_proofs`: `OneRequestEach`, `NothingMissing`, and that a call which
  returns or reports a hash mismatch had all pieces in the cache. The invariant
  says of each call that what it lacked is in one place: no piece is twice in
  the queue (`QueueDistinct`), with two workers (`WorkersApart`), in the queue and
  with a worker (`QueueUnread`), or in either and in the cache of the call
  (`QueueNotGot`, `ReadNotGot`); unless the call was rejected no piece is in none
  of them (`Accounted`); and a worker ends only when the queue is empty
  (`Drained`). A new call's queue is an arrangement of what it lacks, which a lemma
  shows to name each piece once.
- `Rendezvous_proofs`: `CacheSound` and `Introduced` for any set of nodes, connections
  and capacities. For the age of records the invariant adds that no sweep lies in
  the future (`Sound`); for `Introduced`, that what a regular node has sent it has
  logged or owns (`ChanKnown`): the node a record comes from is the one that it is not
  passed on to. What subsequences keep
  is a lemma (`KeptFacts`, `KeptLeft`).
- `Search_proofs`: `FreshAnswer`, `RoutesNeverAge` and `RouteNamesBest`, for any overlay,
  logs of the past, reports and limit. The algorithms come first: `Latest` is the
  newest of what it scans (`LatestNewest`), `Aggregate` keeps the best report of each
  endpoint (`Aggregated`), `Sorted` is a permutation in falling order (`SortedFacts`),
  `Hydrate` restores a log from a store (`Hydrated`). The invariant adds that a log
  has what its store has, each event once (`Stored`); that a route under way is
  logged by some node (`Known`) and no logged route is later than the last
  publication, so that the next one is a new version (`Versions`); that responses
  and the entries of `requestResponses` carry numbers of searches that were begun
  (`Numbered`); and, while a node waits, that what each node held when the search
  began is still in its log and every response to the search serves it (`Awaited`).
  Without `Numbered` an answer to an earlier search could pass for one to the
  next, and `Awaited` would not be inductive.

Induction. The library's induction theorems take a predicate as a parameter, which
the installed provers cannot instantiate. Where an argument is by induction it is made
with a set instead: of the naturals, or of the finite sets, that are counterexamples
one is minimal (`Least`, from `FS_StrictSubsetOrderingWellFounded`), and it is refuted;
and a recursive function over `0..n` is shown to exist and to satisfy its equation by
extending it step by step (`Loop`). Loops that the models write as recursive functions
can be reasoned about in this way; folds and sorts that take an operator (`FoldSeq`,
`SelectSeq`, `SortSeq`) remain out of reach, and no theorem depends on one.

Only model-checked: the liveness properties (`SoleSilentDestroyed`, `CloseDrains`,
`Redials`, `CatchUp`, `FloodReaches`, both `Drains`, `RetrySucceeds`, `Reconnects`), since
liveness under fairness is outside the prover's reach here. Every invariant and
action property that a passing run checks has a theorem.

Not proved and not true of the code: the definitions section 5 names.

## 7. What is not modelled

- Graph walk (`src/core/graph`): floating-point linear algebra. Where the propagator
  uses its result, the model chooses.
- Identity and event formats: signatures and encodings; an event is valid or not.
- Command line, configuration, benchmarks, examples, the web page: argument
  parsing, presentation and measurement. `start`, `put` and SIGINT are in
  `DataDirectory`.
- Reputation: the clamped sums are in `EventSync` and `PieceFetcher`; `merge` and
  the propagation factor are real-valued.
- Node: `status`, listings and the wiring of components; `getContent` and
  `fetchContent` are operators and actions of `DataDirectory` and `PieceFetcher`.
- Local discovery: only when its socket and timer are open; the record it
  multicasts is handled as any other (`Rendezvous`).
- Web server: routes and encodings; only opening, closing and requests in flight.
- Simulator: metrics, reports and scenario files.
- Search: matching by text, and replica records, which are matched in the same
  way as announcements. Where a log has more matches than the limit of a
  response, `FreshAnswer` says only that some route is found. A publisher raises
  its sequence number with every route; what two routes with one number do is not
  exercised.

Within the modelled components: HTTP and stream reading, TLS and QUIC framing,
payload formats, and messages whose content is malformed.

## 8. Running

    tlc -workers 2 -config PeerManager_safety.cfg MCPeerManager.tla
    tlapm PeerManager_proofs.tla

The configuration files begin with the name of the module they check; the module to
give TLC is that name with `MC` before it. The longest run takes a few minutes,
each proof module one to three.
