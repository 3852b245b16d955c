------------------------- MODULE PeerManager_proofs -------------------------
(***************************************************************************)
(* Proofs about PeerManager, for every set of sockets, nodes, urls and     *)
(* dialers.  The safety invariants of the model are proved from one        *)
(* inductive invariant, IInv, which adds to them what the dialers and the  *)
(* history variables know:                                                 *)
(*   Slots     what a socket slot holds when it is live and when not       *)
(*   Dialers   what a dialer knows of its url and of its socket            *)
(*   Crowd     two live sockets that go by one key put it in crowded       *)
(*   Doubles   two dialers of one url put that url in redialed             *)
(* The order of the lemmas is the order of dependence: types and links     *)
(* first, then the two tables, then the listing of sole links.             *)
(***************************************************************************)
EXTENDS PeerManager, TLAPS

Slots ==
    \A c \in Conns :
        /\ Live(c) => remote[c] \in Keys
        /\ pubkey[c] # None => Live(c) /\ pubkey[c] = remote[c]
        /\ owner[c] # None => Live(c) /\ rws[owner[c]] # "idle"

Dialers ==
    /\ \A r \in Rws :
        /\ rws[r] # "idle" => target[r] \in Urls
        /\ rws[r] \in {"idle", "connecting"} => current[r] = None
        /\ current[r] # None => Live(current[r]) /\ owner[current[r]] = r
    /\ \A c \in Conns :
        ready[c] = "open" /\ owner[c] # None => current[owner[c]] = c
    /\ \A u \in Urls :
        dialer[u] # None => rws[dialer[u]] # "idle" /\ target[dialer[u]] = u

Crowd ==
    \A c, d \in Conns :
        c # d /\ Live(c) /\ Live(d) /\ remote[c] = remote[d]
            => remote[c] \in crowded

Doubles ==
    /\ \A r, s \in Rws :
        /\ r # s
        /\ rws[r] # "idle"
        /\ rws[s] # "idle"
        /\ target[r] = target[s]
        => target[r] \in redialed
    /\ \A r \in Rws : rws[r] # "idle" /\ ~closed => dialer[target[r]] # None

Links  == TypeOK /\ Slots /\ Dialers
Tables == KeyedByOwnId /\ NoDeadPeers /\ UrlIndexLive
Notices == ListedPeersAnnounced /\ AnnouncedPeersAlive

IInv == Links /\ Tables /\ Notices /\ ActiveMeansConnected
        /\ Crowd /\ Doubles /\ SoleLinkListed /\ ClosedStopsDialers

-----------------------------------------------------------------------------
(* Every step keeps the types and the links between sockets and dialers.   *)
LEMMA LinksStep == Links /\ [Next]_vars => Links'
<1> SUFFICES ASSUME Links, [Next]_vars PROVE Links'
  OBVIOUS
<1> USE ConstantsAssumption
<1> USE DEF Links, TypeOK, Slots, Dialers, Live, UrlOf, IdOf, Ids, PeerUrls
<1>1. ASSUME NEW u \in Urls, NEW r \in Rws, Connect(u, r) PROVE Links'
  BY <1>1 DEF Connect, history, socketVars, tableVars
<1>2. ASSUME NEW r \in Rws, NEW c \in Conns, DialerOpen(r, c) PROVE Links'
  BY <1>2 DEF DialerOpen, AttachPeer, UrlIndexWithNew
<1>3. ASSUME NEW r \in Rws, DialFails(r) PROVE Links'
  BY <1>3 DEF DialFails, history, RemovePeers, PeersWithout, UrlIndexWithout,
              ActiveWithout, socketVars, dialVars
<1>4. ASSUME NEW c \in Conns, NEW k \in Keys, Accept(c, k) PROVE Links'
  BY <1>4 DEF Accept, AttachPeer, UrlIndexWithNew, dialVars
<1>5. ASSUME NEW c \in Conns, NEW k \in Keys, Handshake(c, k) PROVE Links'
  BY <1>5 DEF Handshake, PeersRenamed, dialVars
<1>6. ASSUME NEW c \in Conns, SocketError(c) PROVE Links'
  BY <1>6 DEF SocketError, history, DialerLoses, RemovePeers, PeersWithout,
              UrlIndexWithout, ActiveWithout
<1>7. ASSUME NEW c \in Conns, SocketClose(c) PROVE Links'
  BY <1>7 DEF SocketClose, history, DialerLoses, RemovePeers, PeersWithout,
              UrlIndexWithout, ActiveWithout, UpWithout
<1>8. ASSUME NEW c \in Conns, GoSilent(c) PROVE Links'
  BY <1>8 DEF GoSilent, history, dialVars, tableVars
<1>9. ASSUME NEW c \in Conns, Pong(c) PROVE Links'
  BY <1>9 DEF Pong, history, dialVars, tableVars
<1>10. CASE PingTick
  BY <1>10 DEF PingTick, history, Terminated, DeadPeers, dialVars
<1>11. CASE Close
  BY <1>11 DEF Close, history, Terminated, ClosedSockets, RecordedDialers
<1>12. CASE UNCHANGED vars
  BY <1>12 DEF vars, history, socketVars, dialVars, tableVars
<1> QED
  BY <1>1, <1>2, <1>3, <1>4, <1>5, <1>6, <1>7, <1>8, <1>9, <1>10, <1>11,
     <1>12 DEF Next

(* The slot of d holds the same peer after a step as before.               *)
Unmoved(d) ==
    ready'[d] = ready[d] /\ pubkey'[d] = pubkey[d] /\ owner'[d] = owner[d]

(* Removing any set of sockets from both tables keeps them in order,       *)
(* whatever becomes of those sockets.                                      *)
LEMMA RemovalKeepsTables ==
    ASSUME Links, Tables, NEW D \in SUBSET Conns,
           peerMap' = PeersWithout(D),
           urlToPeerId' = UrlIndexWithout(D),
           target' = target,
           \A d \in Conns : d \notin D => Unmoved(d)
    PROVE  Tables'
<1> USE ConstantsAssumption
<1> USE DEF Links, TypeOK, Slots, Dialers, Live, UrlOf, IdOf, Ids, PeerUrls,
            Tables, KeyedByOwnId, NoDeadPeers, UrlIndexLive, Unmoved
<1>1. KeyedByOwnId' /\ NoDeadPeers'
  <2> SUFFICES ASSUME NEW i \in Ids, peerMap'[i] # None
               PROVE  IdOf(peerMap[i])' = i /\ Live(peerMap[i])'
    BY DEF KeyedByOwnId, NoDeadPeers
  <2>1. peerMap'[i] = peerMap[i] /\ \A d \in D : IdOf(d) # i
    BY DEF PeersWithout
  <2>2. peerMap[i] \in Conns /\ IdOf(peerMap[i]) = i /\ Live(peerMap[i])
    BY <2>1
  <2>3. peerMap[i] \notin D
    BY <2>1, <2>2
  <2> QED
    BY <2>1, <2>2, <2>3
<1>2. UrlIndexLive'
  <2> SUFFICES ASSUME NEW u \in PeerUrls, urlToPeerId'[u] # None
               PROVE  (\E d \in Conns : Live(d) /\ UrlOf(d) = u
                                        /\ IdOf(d) = urlToPeerId[u])'
    BY DEF UrlIndexLive
  <2>1. urlToPeerId'[u] = urlToPeerId[u]
        /\ \A d \in D : ~(UrlOf(d) = u /\ urlToPeerId[u] = IdOf(d))
    BY DEF UrlIndexWithout
  <2>2. PICK d \in Conns : Live(d) /\ UrlOf(d) = u /\ IdOf(d) = urlToPeerId[u]
    BY <2>1
  <2>3. d \notin D
    BY <2>1, <2>2
  <2> QED
    BY <2>1, <2>2, <2>3
<1> QED
  BY <1>1, <1>2

(* The entries of both tables stay under the ids of live sockets.          *)
LEMMA TablesStep == Links /\ Tables /\ [Next]_vars => Tables'
<1> SUFFICES ASSUME Links, Tables, [Next]_vars PROVE Tables'
  OBVIOUS
<1> USE ConstantsAssumption
<1> USE DEF Links, TypeOK, Slots, Dialers, Live, UrlOf, IdOf, Ids, PeerUrls,
           Tables, KeyedByOwnId, NoDeadPeers, UrlIndexLive
<1>1. ASSUME NEW u \in Urls, NEW r \in Rws, Connect(u, r) PROVE Tables'
  BY <1>1 DEF Connect, history, socketVars, tableVars
<1>2. ASSUME NEW r \in Rws, NEW c \in Conns, DialerOpen(r, c) PROVE Tables'
  <2>1. /\ ready[c] = "gone" /\ pubkey[c] = None /\ rws[r] = "connecting"
        /\ target[r] \in Urls /\ target' = target
        /\ ready' = [ready EXCEPT ![c] = "open"]
        /\ pubkey' = [pubkey EXCEPT ![c] = None]
        /\ owner' = [owner EXCEPT ![c] = r]
        /\ peerMap' = [peerMap EXCEPT ![c] = c]
        /\ urlToPeerId' = [urlToPeerId EXCEPT ![target[r]] = c]
    BY <1>2 DEF DialerOpen, AttachPeer, UrlIndexWithNew
  <2>2. KeyedByOwnId' /\ NoDeadPeers'
    BY <2>1
  <2>3. UrlIndexLive'
    BY <2>1
  <2> QED
    BY <2>2, <2>3
<1>3. ASSUME NEW r \in Rws, DialFails(r) PROVE Tables'
  <2> DEFINE D == Detached(target[r])
  <2>1. D \in SUBSET Conns
    BY DEF DialerDetaches, Detached
  <2>2. /\ peerMap' = PeersWithout(D)
        /\ urlToPeerId' = UrlIndexWithout(D)
        /\ target' = target
        /\ \A d \in Conns : d \notin D => Unmoved(d)
    BY <1>3 DEF DialFails, history, RemovePeers, Unmoved, socketVars, dialVars
  <2> HIDE DEF D
  <2> QED
    BY <2>1, <2>2, RemovalKeepsTables
<1>4. ASSUME NEW c \in Conns, NEW k \in Keys, Accept(c, k) PROVE Tables'
  BY <1>4 DEF Accept, AttachPeer, UrlIndexWithNew, dialVars
<1>5. ASSUME NEW c \in Conns, NEW k \in Keys, Handshake(c, k) PROVE Tables'
  <2> USE <1>5 DEF Handshake, PeersRenamed, dialVars
  <2>1. KeyedByOwnId' /\ NoDeadPeers'
    <3> SUFFICES ASSUME NEW i \in Ids, peerMap'[i] # None
                 PROVE  IdOf(peerMap[i])' = i /\ Live(peerMap[i])'
      BY DEF KeyedByOwnId, NoDeadPeers
    <3>1. /\ k \in Ids /\ IdOf(c) \in Ids /\ c \in Ids
          /\ peerMap' = [peerMap EXCEPT ![IdOf(c)] = None, ![k] = c]
      OBVIOUS
    <3>2. CASE i = k
      BY <3>1, <3>2
    <3>3. CASE i # k
      <4>1. i # IdOf(c) /\ peerMap'[i] = peerMap[i]
        BY <3>1, <3>3
      <4>2. peerMap[i] \in Conns /\ IdOf(peerMap[i]) = i /\ Live(peerMap[i])
        BY <4>1
      <4>3. peerMap[i] # c
        BY <4>1, <4>2
      <4> QED
        BY <4>1, <4>2, <4>3
    <3> QED
      BY <3>2, <3>3
  <2>2. UrlIndexLive'
    <3> SUFFICES ASSUME NEW u \in PeerUrls, urlToPeerId'[u] # None
                 PROVE  (\E d \in Conns : Live(d) /\ UrlOf(d) = u
                                          /\ IdOf(d) = urlToPeerId[u])'
      BY DEF UrlIndexLive
    <3>1. CASE u = UrlOf(c)
      BY <3>1
    <3>2. CASE u # UrlOf(c)
      BY <3>2
    <3> QED
      BY <3>1, <3>2
  <2> QED
    BY <2>1, <2>2
<1>6. ASSUME NEW c \in Conns, SocketError(c) PROVE Tables'
  <2> DEFINE D == {c} \cup DialerDetaches(c)
  <2>1. D \in SUBSET Conns
    BY DEF DialerDetaches, Detached
  <2>2. /\ peerMap' = PeersWithout(D)
        /\ urlToPeerId' = UrlIndexWithout(D)
        /\ target' = target
        /\ \A d \in Conns : d \notin D => Unmoved(d)
    BY <1>6 DEF SocketError, history, RemovePeers, Unmoved, DialerLoses
  <2> HIDE DEF D
  <2> QED
    BY <2>1, <2>2, RemovalKeepsTables
<1>7. ASSUME NEW c \in Conns, SocketClose(c) PROVE Tables'
  <2> DEFINE D == {c} \cup DialerDetaches(c)
  <2>1. D \in SUBSET Conns
    BY DEF DialerDetaches, Detached
  <2>2. /\ peerMap' = PeersWithout(D)
        /\ urlToPeerId' = UrlIndexWithout(D)
        /\ target' = target
        /\ \A d \in Conns : d \notin D => Unmoved(d)
    BY <1>7 DEF SocketClose, history, RemovePeers, Unmoved, DialerLoses
  <2> HIDE DEF D
  <2> QED
    BY <2>1, <2>2, RemovalKeepsTables
<1>8. ASSUME NEW c \in Conns, GoSilent(c) PROVE Tables'
  BY <1>8 DEF GoSilent, history, dialVars, tableVars
<1>9. ASSUME NEW c \in Conns, Pong(c) PROVE Tables'
  BY <1>9 DEF Pong, history, dialVars, tableVars
<1>10. CASE PingTick
  BY <1>10 DEF PingTick, history, Terminated, DeadPeers, Listed, dialVars
<1>11. CASE Close
  BY <1>11 DEF Close, history, Terminated, ClosedSockets, RecordedDialers, Listed
<1>12. CASE UNCHANGED vars
  BY <1>12 DEF vars, history, socketVars, dialVars, tableVars
<1> QED
  BY <1>1, <1>2, <1>3, <1>4, <1>5, <1>6, <1>7, <1>8, <1>9, <1>10, <1>11,
     <1>12 DEF Next

(* What the handlers above were told keeps in step with the table.         *)
LEMMA NoticesStep == Links /\ Tables /\ Notices /\ [Next]_vars => Notices'
<1> SUFFICES ASSUME Links, Tables, Notices, [Next]_vars PROVE Notices'
  OBVIOUS
<1> USE ConstantsAssumption
<1> USE DEF Links, TypeOK, Slots, Dialers, Live, UrlOf, IdOf, Ids, PeerUrls,
           Tables, KeyedByOwnId, NoDeadPeers, Notices, ListedPeersAnnounced,
           AnnouncedPeersAlive
<1>1. ASSUME NEW u \in Urls, NEW r \in Rws, Connect(u, r) PROVE Notices'
  BY <1>1 DEF Connect, history, socketVars, tableVars
<1>2. ASSUME NEW r \in Rws, NEW c \in Conns, DialerOpen(r, c) PROVE Notices'
  BY <1>2 DEF DialerOpen, AttachPeer, UrlIndexWithNew
<1>3. ASSUME NEW r \in Rws, DialFails(r) PROVE Notices'
  BY <1>3 DEF DialFails, history, RemovePeers, PeersWithout, UrlIndexWithout,
              ActiveWithout, Detached, socketVars, dialVars
<1>4. ASSUME NEW c \in Conns, NEW k \in Keys, Accept(c, k) PROVE Notices'
  BY <1>4 DEF Accept, AttachPeer, UrlIndexWithNew, dialVars
<1>5. ASSUME NEW c \in Conns, NEW k \in Keys, Handshake(c, k) PROVE Notices'
  BY <1>5 DEF Handshake, PeersRenamed, dialVars
<1>6. ASSUME NEW c \in Conns, SocketError(c) PROVE Notices'
  BY <1>6 DEF SocketError, history, DialerLoses, RemovePeers, PeersWithout,
              UrlIndexWithout, ActiveWithout, DialerDetaches, DialerMarks, Detached
<1>7. ASSUME NEW c \in Conns, SocketClose(c) PROVE Notices'
  BY <1>7 DEF SocketClose, history, DialerLoses, RemovePeers, PeersWithout,
              UrlIndexWithout, ActiveWithout, UpWithout, DialerDetaches,
              DialerMarks, Detached
<1>8. ASSUME NEW c \in Conns, GoSilent(c) PROVE Notices'
  BY <1>8 DEF GoSilent, history, dialVars, tableVars
<1>9. ASSUME NEW c \in Conns, Pong(c) PROVE Notices'
  BY <1>9 DEF Pong, history, dialVars, tableVars
<1>10. CASE PingTick
  BY <1>10 DEF PingTick, history, Terminated, DeadPeers, Listed, dialVars
<1>11. CASE Close
  BY <1>11 DEF Close, history, Terminated, ClosedSockets, RecordedDialers, Listed
<1>12. CASE UNCHANGED vars
  BY <1>12 DEF vars, history, socketVars, dialVars, tableVars
<1> QED
  BY <1>1, <1>2, <1>3, <1>4, <1>5, <1>6, <1>7, <1>8, <1>9, <1>10, <1>11,
     <1>12 DEF Next

(* Losing the last socket of a url makes the url inactive.                 *)
LEMMA ActiveStep == Links /\ ActiveMeansConnected /\ [Next]_vars => ActiveMeansConnected'
<1> SUFFICES ASSUME Links, ActiveMeansConnected, [Next]_vars PROVE ActiveMeansConnected'
  OBVIOUS
<1> USE ConstantsAssumption
<1> USE DEF Links, TypeOK, Slots, Dialers, Live, UrlOf, IdOf, Ids, PeerUrls,
           ActiveMeansConnected
<1>1. ASSUME NEW u \in Urls, NEW r \in Rws, Connect(u, r) PROVE ActiveMeansConnected'
  BY <1>1 DEF Connect, history, socketVars, tableVars
<1>2. ASSUME NEW r \in Rws, NEW c \in Conns, DialerOpen(r, c) PROVE ActiveMeansConnected'
  BY <1>2 DEF DialerOpen, AttachPeer, UrlIndexWithNew
<1>3. ASSUME NEW r \in Rws, DialFails(r) PROVE ActiveMeansConnected'
  BY <1>3 DEF DialFails, history, RemovePeers, PeersWithout, UrlIndexWithout,
              ActiveWithout, Detached, socketVars, dialVars
<1>4. ASSUME NEW c \in Conns, NEW k \in Keys, Accept(c, k) PROVE ActiveMeansConnected'
  BY <1>4 DEF Accept, AttachPeer, UrlIndexWithNew, dialVars
<1>5. ASSUME NEW c \in Conns, NEW k \in Keys, Handshake(c, k) PROVE ActiveMeansConnected'
  BY <1>5 DEF Handshake, PeersRenamed, dialVars
<1>6. ASSUME NEW c \in Conns, SocketError(c) PROVE ActiveMeansConnected'
  BY <1>6 DEF SocketError, history, DialerLoses, RemovePeers, PeersWithout,
              UrlIndexWithout, ActiveWithout, DialerDetaches, DialerMarks, Detached
<1>7. ASSUME NEW c \in Conns, SocketClose(c) PROVE ActiveMeansConnected'
  <2> SUFFICES ASSUME NEW u \in Urls, active'[u]
               PROVE  (\E d \in Conns : Live(d) /\ UrlOf(d) = u)'
    BY DEF ActiveMeansConnected
  <2>1. active[u] /\ UrlOf(c) # u
    BY <1>7 DEF SocketClose, history, RemovePeers, ActiveWithout
  <2>2. PICK d \in Conns : Live(d) /\ UrlOf(d) = u
    BY <2>1
  <2>3. d # c
    BY <2>1, <2>2
  <2> QED
    BY <1>7, <2>2, <2>3 DEF SocketClose
<1>8. ASSUME NEW c \in Conns, GoSilent(c) PROVE ActiveMeansConnected'
  BY <1>8 DEF GoSilent, history, dialVars, tableVars
<1>9. ASSUME NEW c \in Conns, Pong(c) PROVE ActiveMeansConnected'
  BY <1>9 DEF Pong, history, dialVars, tableVars
<1>10. CASE PingTick
  BY <1>10 DEF PingTick, history, Terminated, DeadPeers, Listed, dialVars
<1>11. CASE Close
  BY <1>11 DEF Close, history, Terminated, ClosedSockets, RecordedDialers, Listed
<1>12. CASE UNCHANGED vars
  BY <1>12 DEF vars, history, socketVars, dialVars, tableVars
<1> QED
  BY <1>1, <1>2, <1>3, <1>4, <1>5, <1>6, <1>7, <1>8, <1>9, <1>10, <1>11,
     <1>12 DEF Next

(* The history variables record every coexistence.                         *)
LEMMA HistoryStep == Links /\ Crowd /\ Doubles /\ [Next]_vars => (Crowd /\ Doubles)'
<1> SUFFICES ASSUME Links, Crowd, Doubles, [Next]_vars PROVE (Crowd /\ Doubles)'
  OBVIOUS
<1> USE ConstantsAssumption
<1> USE DEF Links, TypeOK, Slots, Dialers, Live, UrlOf, IdOf, Ids, PeerUrls,
           Crowd, Doubles
<1>1. ASSUME NEW u \in Urls, NEW r \in Rws, Connect(u, r) PROVE (Crowd /\ Doubles)'
  BY <1>1 DEF Connect, history, socketVars, tableVars
<1>2. ASSUME NEW r \in Rws, NEW c \in Conns, DialerOpen(r, c) PROVE (Crowd /\ Doubles)'
  BY <1>2 DEF DialerOpen, AttachPeer, UrlIndexWithNew
<1>3. ASSUME NEW r \in Rws, DialFails(r) PROVE (Crowd /\ Doubles)'
  BY <1>3 DEF DialFails, history, RemovePeers, PeersWithout, UrlIndexWithout,
              ActiveWithout, Detached, socketVars, dialVars
<1>4. ASSUME NEW c \in Conns, NEW k \in Keys, Accept(c, k) PROVE (Crowd /\ Doubles)'
  BY <1>4 DEF Accept, AttachPeer, UrlIndexWithNew, dialVars
<1>5. ASSUME NEW c \in Conns, NEW k \in Keys, Handshake(c, k) PROVE (Crowd /\ Doubles)'
  BY <1>5 DEF Handshake, PeersRenamed, dialVars
<1>6. ASSUME NEW c \in Conns, SocketError(c) PROVE (Crowd /\ Doubles)'
  BY <1>6 DEF SocketError, history, DialerLoses, RemovePeers, PeersWithout,
              UrlIndexWithout, ActiveWithout, DialerDetaches, DialerMarks, Detached
<1>7. ASSUME NEW c \in Conns, SocketClose(c) PROVE (Crowd /\ Doubles)'
  BY <1>7 DEF SocketClose, history, DialerLoses, RemovePeers, PeersWithout,
              UrlIndexWithout, ActiveWithout, UpWithout, DialerDetaches,
              DialerMarks, Detached
<1>8. ASSUME NEW c \in Conns, GoSilent(c) PROVE (Crowd /\ Doubles)'
  BY <1>8 DEF GoSilent, history, dialVars, tableVars
<1>9. ASSUME NEW c \in Conns, Pong(c) PROVE (Crowd /\ Doubles)'
  BY <1>9 DEF Pong, history, dialVars, tableVars
<1>10. CASE PingTick
  BY <1>10 DEF PingTick, history, Terminated, DeadPeers, Listed, dialVars
<1>11. CASE Close
  BY <1>11 DEF Close, history, Terminated, ClosedSockets, RecordedDialers, Listed
<1>12. CASE UNCHANGED vars
  BY <1>12 DEF vars, history, socketVars, dialVars, tableVars
<1> QED
  BY <1>1, <1>2, <1>3, <1>4, <1>5, <1>6, <1>7, <1>8, <1>9, <1>10, <1>11,
     <1>12 DEF Next

(* close() misses only a dialer that lost its place in outboundState.      *)
LEMMA ClosedStep == Links /\ Doubles /\ ClosedStopsDialers /\ [Next]_vars => ClosedStopsDialers'
<1> SUFFICES ASSUME Links, Doubles, ClosedStopsDialers, [Next]_vars PROVE ClosedStopsDialers'
  OBVIOUS
<1> USE ConstantsAssumption
<1> USE DEF Links, TypeOK, Slots, Dialers, Live, UrlOf, IdOf, Ids, PeerUrls,
           Doubles, ClosedStopsDialers
<1>1. ASSUME NEW u \in Urls, NEW r \in Rws, Connect(u, r) PROVE ClosedStopsDialers'
  BY <1>1 DEF Connect, history, socketVars, tableVars
<1>2. ASSUME NEW r \in Rws, NEW c \in Conns, DialerOpen(r, c) PROVE ClosedStopsDialers'
  BY <1>2 DEF DialerOpen, AttachPeer, UrlIndexWithNew
<1>3. ASSUME NEW r \in Rws, DialFails(r) PROVE ClosedStopsDialers'
  BY <1>3 DEF DialFails, history, RemovePeers, PeersWithout, UrlIndexWithout,
              ActiveWithout, Detached, socketVars, dialVars
<1>4. ASSUME NEW c \in Conns, NEW k \in Keys, Accept(c, k) PROVE ClosedStopsDialers'
  BY <1>4 DEF Accept, AttachPeer, UrlIndexWithNew, dialVars
<1>5. ASSUME NEW c \in Conns, NEW k \in Keys, Handshake(c, k) PROVE ClosedStopsDialers'
  BY <1>5 DEF Handshake, PeersRenamed, dialVars
<1>6. ASSUME NEW c \in Conns, SocketError(c) PROVE ClosedStopsDialers'
  BY <1>6 DEF SocketError, history, DialerLoses, RemovePeers, PeersWithout,
              UrlIndexWithout, ActiveWithout, DialerDetaches, DialerMarks, Detached
<1>7. ASSUME NEW c \in Conns, SocketClose(c) PROVE ClosedStopsDialers'
  BY <1>7 DEF SocketClose, history, DialerLoses, RemovePeers, PeersWithout,
              UrlIndexWithout, ActiveWithout, UpWithout, DialerDetaches,
              DialerMarks, Detached
<1>8. ASSUME NEW c \in Conns, GoSilent(c) PROVE ClosedStopsDialers'
  BY <1>8 DEF GoSilent, history, dialVars, tableVars
<1>9. ASSUME NEW c \in Conns, Pong(c) PROVE ClosedStopsDialers'
  BY <1>9 DEF Pong, history, dialVars, tableVars
<1>10. CASE PingTick
  BY <1>10 DEF PingTick, history, Terminated, DeadPeers, Listed, dialVars
<1>11. CASE Close
  BY <1>11 DEF Close, history, Terminated, ClosedSockets, RecordedDialers, Listed
<1>12. CASE UNCHANGED vars
  BY <1>12 DEF vars, history, socketVars, dialVars, tableVars
<1> QED
  BY <1>1, <1>2, <1>3, <1>4, <1>5, <1>6, <1>7, <1>8, <1>9, <1>10, <1>11,
     <1>12 DEF Next

(* A sole link shares its id with no other live socket.                    *)
LEMMA SoleId ==
    ASSUME Links, Crowd, NEW c \in Conns, NEW d \in Conns,
           Live(c), Live(d), Sole(c), IdOf(c) = IdOf(d)
    PROVE  c = d
BY ConstantsAssumption
   DEF Links, TypeOK, Slots, Crowd, Live, Sole, IdOf

(* What the close handler of a dialer detaches is never a sole link of     *)
(* another socket: an open socket of the same url has the same dialer, and *)
(* then it is the one the dialer listens to.                               *)
LEMMA SoleNotDetached ==
    ASSUME Links, Tables, Crowd, Doubles,
           NEW c \in Conns, ready[c] = "open", Sole(c),
           NEW r \in Rws, rws[r] # "idle", current[r] # c
    PROVE  \A e \in Detached(target[r]) : IdOf(e) # IdOf(c)
<1> SUFFICES ASSUME NEW e \in Detached(target[r]), IdOf(e) = IdOf(c) PROVE FALSE
  OBVIOUS
<1> USE ConstantsAssumption
<1> USE DEF Links, TypeOK, Slots, Dialers, Live, Ids, PeerUrls
<1>1. target[r] \in Urls /\ target[r] \in PeerUrls
  OBVIOUS
<1>2. e \in Conns /\ urlToPeerId[target[r]] \in Ids
      /\ peerMap[urlToPeerId[target[r]]] = e
  BY <1>1 DEF Detached
<1>3. IdOf(e) = urlToPeerId[target[r]] /\ Live(e)
  BY <1>2 DEF Tables, KeyedByOwnId, NoDeadPeers
<1>4. PICK d \in Conns :
        Live(d) /\ UrlOf(d) = target[r] /\ IdOf(d) = urlToPeerId[target[r]]
  BY <1>1, <1>2 DEF Tables, UrlIndexLive
<1>5. d = c
  <2>1. IdOf(c) = IdOf(d) /\ Live(c) /\ Live(d)
    BY <1>3, <1>4
  <2> HIDE DEF Links
  <2> QED
    BY <2>1, SoleId
<1>6. owner[c] \in Rws /\ target[owner[c]] = target[r]
  BY <1>1, <1>4, <1>5 DEF UrlOf
<1>7. owner[c] # r
  BY <1>6
<1>8. target[r] \in redialed
  BY <1>6, <1>7 DEF Doubles
<1> QED
  BY <1>4, <1>5, <1>8 DEF Sole

(* No step makes a socket a sole link again.                               *)
LEMMA SoleOnlyLost ==
    ASSUME Links, NEW c \in Conns, Live(c),
           owner'[c] = owner[c], remote'[c] = remote[c],
           owner[c] # None => target'[owner[c]] = target[owner[c]],
           crowded \subseteq crowded', redialed \subseteq redialed',
           Sole(c)'
    PROVE  Sole(c)
BY DEF Sole, UrlOf

(* What makes a socket a link of its node, unchanged by a step that only    *)
(* extends the history.                                                    *)
Unchanged(c) ==
    /\ owner'[c] = owner[c] /\ remote'[c] = remote[c]
    /\ owner[c] # None => target'[owner[c]] = target[owner[c]]
    /\ crowded \subseteq crowded' /\ redialed \subseteq redialed'

(* The step of the listing invariant: the entry of a sole link is touched  *)
(* by its own socket's events only.                                        *)
LEMMA SoleStep ==
    Links /\ Tables /\ Crowd /\ Doubles /\ SoleLinkListed /\ [Next]_vars
        => SoleLinkListed'
<1> SUFFICES ASSUME Links, Tables, Crowd, Doubles, SoleLinkListed, [Next]_vars,
                    NEW c \in Conns, ready'[c] = "open", ~closed', Sole(c)'
             PROVE  peerMap'[IdOf(c)'] = c
  BY DEF SoleLinkListed
<1> USE ConstantsAssumption
<1> USE DEF Links, TypeOK, Slots, Dialers, Live, Ids, PeerUrls
<1>a. ASSUME ready[c] = "open", ~closed, pubkey'[c] = pubkey[c],
             Unchanged(c), NEW D \in SUBSET Conns,
             peerMap' = PeersWithout(D),
             \A d \in D : IdOf(d) # IdOf(c)
      PROVE  peerMap'[IdOf(c)'] = c
  <2>1. Sole(c)
    BY <1>a, SoleOnlyLost DEF Unchanged
  <2>2. IdOf(c)' = IdOf(c) /\ IdOf(c) \in Ids
    BY <1>a DEF IdOf
  <2>3. peerMap[IdOf(c)] = c
    BY <1>a, <2>1 DEF SoleLinkListed
  <2> QED
    BY <1>a, <2>2, <2>3 DEF PeersWithout
<1>b. ASSUME ready[c] = "open", ~closed, pubkey'[c] = pubkey[c],
             Unchanged(c), peerMap'[IdOf(c)] = peerMap[IdOf(c)]
      PROVE  peerMap'[IdOf(c)'] = c
  <2>1. Sole(c)
    BY <1>b, SoleOnlyLost DEF Unchanged
  <2>2. IdOf(c)' = IdOf(c)
    BY <1>b DEF IdOf
  <2> QED
    BY <1>b, <2>1, <2>2 DEF SoleLinkListed
<1>1. ASSUME NEW u \in Urls, NEW r \in Rws, Connect(u, r)
      PROVE  peerMap'[IdOf(c)'] = c
  BY <1>1, <1>b DEF Connect, history, socketVars, tableVars, Unchanged
<1>2. ASSUME NEW r \in Rws, NEW d \in Conns, DialerOpen(r, d)
      PROVE  peerMap'[IdOf(c)'] = c
  <2>1. CASE c = d
    BY <1>2, <2>1 DEF DialerOpen, AttachPeer, IdOf
  <2>2. CASE c # d
    <3>1. /\ ready[c] = "open" /\ ~closed /\ pubkey'[c] = pubkey[c]
          /\ Unchanged(c)
      BY <1>2, <2>2 DEF DialerOpen, AttachPeer, Unchanged
    <3>2. IdOf(c) # d
      BY <3>1, <2>2 DEF IdOf
    <3> QED
      BY <1>2, <3>1, <3>2, <1>b DEF DialerOpen, AttachPeer
  <2> QED
    BY <2>1, <2>2
<1>3. ASSUME NEW r \in Rws, DialFails(r) PROVE peerMap'[IdOf(c)'] = c
  <2>1. /\ ready[c] = "open" /\ ~closed /\ pubkey'[c] = pubkey[c] /\ Unchanged(c)
        /\ rws[r] = "connecting" /\ peerMap' = PeersWithout(Detached(target[r]))
    BY <1>3 DEF DialFails, history, RemovePeers, socketVars, dialVars, Unchanged
  <2>2. Sole(c)
    BY <2>1, SoleOnlyLost DEF Unchanged
  <2>3. \A e \in Detached(target[r]) : IdOf(e) # IdOf(c)
    BY <2>1, <2>2, SoleNotDetached
  <2> QED
    BY <2>1, <2>3, <1>a DEF Detached
<1>4. ASSUME NEW d \in Conns, NEW k \in Keys, Accept(d, k)
      PROVE  peerMap'[IdOf(c)'] = c
  <2>1. CASE c = d
    BY <1>4, <2>1 DEF Accept, AttachPeer, IdOf
  <2>2. CASE c # d
    <3>1. /\ ready[c] = "open" /\ ~closed /\ pubkey'[c] = pubkey[c]
          /\ Unchanged(c)
      BY <1>4, <2>2 DEF Accept, AttachPeer, dialVars, Unchanged
    <3>2. IdOf(c) # d
      BY <3>1, <2>2 DEF IdOf
    <3> QED
      BY <1>4, <3>1, <3>2, <1>b DEF Accept, AttachPeer
  <2> QED
    BY <2>1, <2>2
<1>5. ASSUME NEW d \in Conns, NEW k \in Keys, Handshake(d, k) PROVE peerMap'[IdOf(c)'] = c
  <2>1. CASE c = d
    BY <1>5, <2>1 DEF Handshake, PeersRenamed, IdOf
  <2>2. CASE c # d
    <3>1. /\ ready[c] = "open" /\ ~closed /\ pubkey'[c] = pubkey[c]
          /\ Unchanged(c) /\ Live(d) /\ IdOf(c) # k
      BY <1>5, <2>2 DEF Handshake, dialVars, Unchanged, IdOf, Sole
    <3>2. Sole(c)
      BY <3>1, SoleOnlyLost DEF Unchanged
    <3>3. IdOf(c) # IdOf(d) /\ IdOf(c) # k
      BY <2>2, <3>1, <3>2, SoleId
    <3>4. peerMap' = [peerMap EXCEPT ![IdOf(d)] = None, ![k] = d]
          /\ IdOf(c) \in Ids
      BY <1>5, <3>1 DEF Handshake, PeersRenamed, IdOf
    <3>5. peerMap'[IdOf(c)] = peerMap[IdOf(c)]
      BY <3>1, <3>3, <3>4
    <3> QED
      BY <3>1, <3>5, <1>b
  <2> QED
    BY <2>1, <2>2
<1>6. ASSUME NEW d \in Conns, SocketError(d) \/ SocketClose(d)
      PROVE  peerMap'[IdOf(c)'] = c
  <2> DEFINE D == {d} \cup DialerDetaches(d)
  <2>1. /\ c # d /\ ready[c] = "open" /\ ~closed
        /\ pubkey'[c] = pubkey[c] /\ Unchanged(c)
        /\ Live(d) /\ peerMap' = PeersWithout(D)
    BY <1>6 DEF SocketError, history, SocketClose, RemovePeers, Unchanged
  <2>2. Sole(c)
    BY <2>1, SoleOnlyLost DEF Unchanged
  <2>3. IdOf(d) # IdOf(c)
    BY <2>1, <2>2, SoleId
  <2>4. \A e \in DialerDetaches(d) : IdOf(e) # IdOf(c)
    <3> SUFFICES ASSUME NEW r \in Rws, current[r] = d
                 PROVE  \A e \in Detached(UrlOf(d)) : IdOf(e) # IdOf(c)
      BY DEF DialerDetaches
    <3>1. UrlOf(d) = target[r] /\ rws[r] # "idle" /\ current[r] # c
      BY <2>1 DEF UrlOf
    <3> QED
      BY <3>1, <2>1, <2>2, SoleNotDetached
  <2>5. D \in SUBSET Conns
    BY DEF DialerDetaches, Detached
  <2>6. \A e \in D : IdOf(e) # IdOf(c)
    BY <2>3, <2>4
  <2> HIDE DEF D
  <2> QED
    BY <2>1, <2>5, <2>6, <1>a
<1>7. ASSUME NEW d \in Conns, GoSilent(d) \/ Pong(d)
      PROVE  peerMap'[IdOf(c)'] = c
  BY <1>7, <1>b DEF GoSilent, history, Pong, dialVars, tableVars, Unchanged
<1>8. CASE PingTick
  <2>1. /\ ready[c] = "open" /\ ~closed /\ pubkey'[c] = pubkey[c] /\ Unchanged(c)
        /\ c \notin DeadPeers
    BY <1>8 DEF PingTick, history, Terminated, dialVars, Unchanged
  <2>2. Sole(c)
    BY <2>1, SoleOnlyLost DEF Unchanged
  <2>3. IdOf(c) \in Ids /\ peerMap[IdOf(c)] = c
    BY <2>1, <2>2 DEF SoleLinkListed, IdOf
  <2> QED
    BY <1>8, <2>1, <2>3, <1>b DEF PingTick
<1>9. CASE Close
  BY <1>9 DEF Close
<1>10. CASE UNCHANGED vars
  BY <1>10, <1>b DEF vars, history, socketVars, dialVars, tableVars, Unchanged
<1> QED
  BY <1>1, <1>2, <1>3, <1>4, <1>5, <1>6, <1>7, <1>8, <1>9, <1>10 DEF Next

-----------------------------------------------------------------------------
LEMMA InitIInv == Init => IInv
<1> USE ConstantsAssumption
<1> SUFFICES ASSUME Init PROVE IInv
  OBVIOUS
<1> USE DEF Init, Live, Ids, PeerUrls
<1>1. Links /\ Crowd /\ Doubles
  BY DEF Links, TypeOK, Slots, Dialers, Crowd, Doubles
<1>2. Tables /\ Notices
  BY DEF Tables, KeyedByOwnId, NoDeadPeers, UrlIndexLive, Notices,
         ListedPeersAnnounced, AnnouncedPeersAlive
<1>3. ActiveMeansConnected /\ SoleLinkListed /\ ClosedStopsDialers
  BY DEF ActiveMeansConnected, SoleLinkListed, ClosedStopsDialers
<1> QED
  BY <1>1, <1>2, <1>3 DEF IInv

LEMMA IInvStep == IInv /\ [Next]_vars => IInv'
BY LinksStep, TablesStep, NoticesStep, ActiveStep, HistoryStep, ClosedStep,
   SoleStep DEF IInv

LEMMA Inductive == Spec => []IInv
BY InitIInv, IInvStep, PTL DEF Spec

(* The types of every variable, for all constants.                         *)
THEOREM TypeCorrect == Spec => []TypeOK
<1>1. IInv => TypeOK
  BY DEF IInv, Links
<1> QED
  BY <1>1, Inductive, PTL

(* peerMap holds every peer under its own current id, in every             *)
(* interleaving of socket events, handshakes, ping ticks and close().      *)
THEOREM KeysCorrect == Spec => []KeyedByOwnId
<1>1. IInv => KeyedByOwnId
  BY DEF IInv, Tables
<1> QED
  BY <1>1, Inductive, PTL

(* peerMap never holds a peer whose socket has been removed: a late close  *)
(* or handshake of one does not put it back for good (removePeer).         *)
THEOREM PeersAlive == Spec => []NoDeadPeers
<1>1. IInv => NoDeadPeers
  BY DEF IInv, Tables
<1> QED
  BY <1>1, Inductive, PTL

(* urlToPeerId names live sockets only (detachUrl, connect).               *)
THEOREM UrlsLive == Spec => []UrlIndexLive
<1>1. IInv => UrlIndexLive
  BY DEF IInv, Tables
<1> QED
  BY <1>1, Inductive, PTL

(* The handlers above the manager have been told of every pubkey it lists  *)
(* (registerPeerPubkey, notifyConnected).                                  *)
THEOREM ListedAnnounced == Spec => []ListedPeersAnnounced
<1>1. IInv => ListedPeersAnnounced
  BY DEF IInv, Notices
<1> QED
  BY <1>1, Inductive, PTL

(* The handlers hold no pubkey for connected whose sockets are all gone,   *)
(* whichever of close event and ping tick removed the peer (removePeer),   *)
(* except one that registerPeerPubkey replaced by another.                 *)
THEOREM AnnouncedAlive == Spec => []AnnouncedPeersAlive
<1>1. IInv => AnnouncedPeersAlive
  BY DEF IInv, Notices
<1> QED
  BY <1>1, Inductive, PTL

(* A url that connect() refuses to dial again has a live socket.           *)
THEOREM ActiveCorrect == Spec => []ActiveMeansConnected
<1>1. IInv => ActiveMeansConnected
  BY DEF IInv
<1> QED
  BY <1>1, Inductive, PTL

(* The one socket of a node is always found in peerMap: only a second      *)
(* socket of that node, or a second dialer of its url, can hide it.        *)
THEOREM SoleLinksListed == Spec => []SoleLinkListed
<1>1. IInv => SoleLinkListed
  BY DEF IInv
<1> QED
  BY <1>1, Inductive, PTL

(* After close() no dialer runs, those of redialled urls apart.            *)
THEOREM CloseStops == Spec => []ClosedStopsDialers
<1>1. IInv => ClosedStopsDialers
  BY DEF IInv
<1> QED
  BY <1>1, Inductive, PTL
=============================================================================
