------------------------ MODULE QuicTransport_proofs ------------------------
(***************************************************************************)
(* Proofs about QuicTransport, for every set of connections, addresses and *)
(* nodes.  The inductive invariant adds to the properties of the model     *)
(*   NamesOK    a channel goes by its address or by a pubkey               *)
(*   ByeLast    only close() dismisses channels                            *)
(* and, for the dials, what holds as long as an address is not crossed:    *)
(*   HasSocket  a transport that is started or starting has its socket     *)
(*   SameName   channels that share a name are of one address              *)
(*   Outbound   the channels of the address were dialled                   *)
(*   IndexHeld  the pubkey an address leads to is that of a listed channel *)
(*              of the address                                             *)
(*   ActiveHeld the address is marked active only while it is held         *)
(***************************************************************************)
EXTENDS QuicTransport, TLAPS

NamesOK  == \A c \in Conns : id[c] \in Keys \cup {addr[c]}
ByeLast  == ~closed => bye = {}
HasSocket == ~closed /\ (started \/ starting > 0) => socket

SameName ==
    \A c, d \in Conns :
        st[c] = "open" /\ st[d] = "open" /\ id[c] = id[d] /\ addr[c] # addr[d]
            => {addr[c], addr[d]} \subseteq crossed
Outbound  == \A c \in Conns : st[c] = "open" => c \in out \/ addr[c] \in crossed
IndexNames == \A a \in Addrs : addressToPeerId[a] \in Keys \cup {a, None}
IndexHeld ==
    ~closed => \A a \in Addrs \ crossed :
        addressToPeerId[a] \in Keys =>
            /\ peerMap[addressToPeerId[a]] # None
            /\ addr[peerMap[addressToPeerId[a]]] = a
ActiveHeld ==
    ~closed => \A a \in Peers \ crossed : dialer[a] = "active" => Held(a)

Tables == NamesOK /\ TableLive
Routes == SameName /\ Outbound /\ IndexNames /\ IndexHeld
Dials  == HasSocket /\ ActiveHeld /\ NeverStranded

-----------------------------------------------------------------------------
LEMMA TypeStep == TypeOK /\ [Next]_vars => TypeOK'
<1> SUFFICES ASSUME TypeOK, [Next]_vars PROVE TypeOK'
  OBVIOUS
<1> USE ConstantsAssumption
<1> USE DEF TypeOK, history, bounds
<1>0. KeyOf \in [Addrs -> Keys] /\ Addrs \subseteq Names /\ Keys \subseteq Names
  BY DEF Names
<1>1. CASE StartBegins
  BY <1>1 DEF StartBegins, connVars, dialVars, tableVars
<1>2. CASE StartEnds
  BY <1>2 DEF StartEnds, Call, connVars, tableVars, bounds
<1>3. CASE Close
  <2> USE <1>3 DEF Close, connVars, tableVars
  <2>1. calls' \in Nat
    OBVIOUS
  <2>4. started' \in BOOLEAN
    OBVIOUS
  <2>2. timer' \subseteq Addrs
    OBVIOUS
  <2>3. closing' \in {"no", "channels", "clients", "done"}
    OBVIOUS
  <2> QED
    BY <2>1, <2>2, <2>3, <2>4
<1>4. CASE CloseClients
  BY <1>4 DEF CloseClients, bounds
<1>5. CASE CloseSocket
  BY <1>5 DEF CloseSocket, dialVars, tableVars, bounds
<1>6. ASSUME NEW a \in Addrs, ReconnectTimer(a) PROVE TypeOK'
  BY <1>6 DEF ReconnectTimer, Call, connVars, tableVars, lifeVars, bounds
<1>7. ASSUME NEW a \in Addrs, DialDone(a) PROVE TypeOK'
  BY <1>7, <1>0 DEF DialDone, Attach, tableVars, lifeVars, bounds
<1>8. ASSUME NEW a \in Addrs, DialFails(a) PROVE TypeOK'
  BY <1>8 DEF DialFails, connVars, tableVars, lifeVars
<1>9. ASSUME NEW a \in Addrs, ServerConnection(a) PROVE TypeOK'
  BY <1>9, <1>0 DEF ServerConnection, Attach, dialVars, tableVars, lifeVars
<1>10. ASSUME NEW a \in Peers, ConnectPeer(a) PROVE TypeOK'
  BY <1>10 DEF ConnectPeer, Call, connVars, tableVars, lifeVars
<1>11. ASSUME NEW c \in Conns, NEW k \in Keys, Handshake(c, k) PROVE TypeOK'
  <2> USE <1>11, <1>0 DEF Handshake, lifeVars
  <2>1. peerMap' \in [Names -> Conns \cup {None}]
    BY DEF Registered
  <2>2. id' \in [Conns -> Names] /\ dialer' \in [Addrs -> {"none", "idle", "active"}]
        /\ addressToPeerId' \in [Addrs -> Names \cup {None}]
    OBVIOUS
  <2>3. told' \subseteq Keys /\ abandoned' \subseteq Keys /\ renames' \in Nat
    OBVIOUS
  <2>4. crossed' \subseteq Addrs
    BY DEF Namesakes
  <2> QED
    BY <2>1, <2>2, <2>3, <2>4
<1>12. ASSUME NEW c \in Conns, ConnectionDies(c) PROVE TypeOK'
  BY <1>12 DEF ConnectionDies, dialVars, tableVars, lifeVars
<1>13. ASSUME NEW c \in Conns, ReadLoopEnds(c) PROVE TypeOK'
  BY <1>13 DEF ReadLoopEnds, Less, Unnamed, dialVars, lifeVars
<1>14. ASSUME NEW c \in Conns, WriteFails(c) PROVE TypeOK'
  BY <1>14 DEF WriteFails, HandleClosed, TearDown, Less, Unnamed,
               dialVars, lifeVars, bounds
<1>15. ASSUME NEW c \in Conns, TornDown(c) PROVE TypeOK'
  <2> USE <1>15 DEF TornDown, tableVars, lifeVars, bounds
  <2>1. told' \subseteq Keys
    BY DEF ToldAfter
  <2>2. dialer' \in [Addrs -> {"none", "idle", "active"}]
    BY DEF AfterTearDown
  <2>3. timer' \subseteq Addrs /\ clients' \in [Addrs -> Conns \cup {None}]
    OBVIOUS
  <2> QED
    BY <2>1, <2>2, <2>3
<1>16. ASSUME NEW c \in Conns, CloseChannel(c) PROVE TypeOK'
  BY <1>16 DEF CloseChannel, TearDown, Less, Unnamed, dialVars, lifeVars, bounds
<1>17. ASSUME NEW c \in Conns, NEW e \in {"close", "stopped"}, LateEvent(c, e)
       PROVE TypeOK'
  BY <1>17 DEF LateEvent, TearDown, Less, Unnamed, dialVars, lifeVars, bounds
<1>18. CASE UNCHANGED vars
  BY <1>18 DEF vars, history, connVars, dialVars, tableVars, lifeVars, bounds
<1> QED
  BY <1>1, <1>2, <1>3, <1>4, <1>5, <1>6, <1>7, <1>8, <1>9, <1>10, <1>11,
     <1>12, <1>13, <1>14, <1>15, <1>16, <1>17, <1>18 DEF Next

-----------------------------------------------------------------------------
(* Whatever a name finds goes by the name it is listed under: a teardown   *)
(* takes out the entries of its channels and no other.                     *)
Hit(c) == c = None \/ (c \in Conns /\ peerMap[id[c]] = c)

LEMMA FoundHit ==
  ASSUME TypeOK, Tables, NEW n \in Names
  PROVE  Hit(Found(peerMap, addressToPeerId, n))
BY ConstantsAssumption DEF Hit, Found, Tables, TableLive, TypeOK, Names

(* The channel that a name found first is gone when a second name looks.   *)
LEMMA FoundNext ==
  ASSUME TypeOK, Tables, NEW n \in Names, NEW c, Hit(c)
  PROVE  Hit(Found(Less(peerMap, c), Unnamed(addressToPeerId, c), n))
<1> DEFINE index == Unnamed(addressToPeerId, c)
           m == IF n \in Addrs /\ index[n] # None THEN index[n] ELSE n
<1>1. m \in Names
  BY ConstantsAssumption DEF Unnamed, TypeOK, Names
<1>2. Less(peerMap, c)[m] \in {None, peerMap[m]}
  BY <1>1 DEF Less
<1>3. Found(Less(peerMap, c), index, n) = Less(peerMap, c)[m]
  BY DEF Found
<1> QED
  BY <1>1, <1>2, <1>3, ConstantsAssumption DEF Hit, Tables, TableLive, TypeOK

LEMMA TearDownTables ==
  ASSUME TypeOK, Tables, NEW c, NEW d, Hit(c), Hit(d), TearDown(c, d)
  PROVE  /\ \A n \in Names :
              peerMap'[n] = IF peerMap[n] \in {c, d} THEN None ELSE peerMap[n]
         /\ \A a \in Addrs : addressToPeerId'[a] \in {None, addressToPeerId[a]}
<1> USE ConstantsAssumption DEF TypeOK, Tables, TableLive
<1>1. \A n \in Names :
        peerMap'[n] = IF peerMap[n] \in {c, d} THEN None ELSE peerMap[n]
  BY DEF TearDown, Less, Hit
<1>2. \A a \in Addrs : addressToPeerId'[a] \in {None, addressToPeerId[a]}
  BY DEF TearDown, Unnamed
<1> QED
  BY <1>1, <1>2

(* A teardown of channels that are listed keeps the tables in order.       *)
LEMMA TearDownKeeps ==
  ASSUME TypeOK, Tables, NEW c, NEW d, Hit(c), Hit(d), TearDown(c, d),
         UNCHANGED <<id, addr, closing>>
  PROVE  Tables'
<1> USE ConstantsAssumption DEF TypeOK, Tables
<1>1. NamesOK'
  BY DEF NamesOK
<1>2. TableLive'
  <2> SUFFICES ASSUME NEW n \in Names, peerMap'[n] # None
               PROVE  /\ id[peerMap'[n]] = n
                      /\ \/ st'[peerMap'[n]] = "open"
                         \/ /\ st'[peerMap'[n]] = "ended"
                            /\ closed \/ (n \in Addrs /\ addressToPeerId'[n] # n)
    BY DEF TableLive, closed
  <2>1. peerMap'[n] = peerMap[n] /\ peerMap[n] \notin {c, d}
    BY TearDownTables
  <2>2. st'[peerMap[n]] = st[peerMap[n]]
    BY <2>1 DEF TearDown
  <2>3. n \in Addrs /\ addressToPeerId[n] # n => addressToPeerId'[n] # n
    BY TearDownTables DEF Names
  <2> QED
    BY <2>1, <2>2, <2>3 DEF TableLive
<1> QED
  BY <1>1, <1>2

(* A channel attached to an object that is not listed takes the entry of   *)
(* its address.                                                            *)
LEMMA AttachKeeps ==
  ASSUME TypeOK, Tables, NEW c \in Conns, NEW a \in Addrs, Spare(c),
         Attach(c, a), UNCHANGED closing
  PROVE  Tables'
<1> USE ConstantsAssumption DEF TypeOK, Tables, Attach
<1>0. a \in Names /\ \A n \in Names : peerMap[n] # c
  BY DEF Spare, InMap, Names
<1>1. NamesOK'
  BY DEF NamesOK
<1>2. CASE closed
  <2>1. UNCHANGED tableVars
    BY <1>2
  <2>2. TableLive'
    BY <2>1, <1>0, <1>2 DEF TableLive, tableVars, closed
  <2> QED
    BY <1>1, <2>2
<1>3. CASE ~closed
  <2>1. TableLive'
    BY <1>0, <1>3 DEF TableLive, closed
  <2> QED
    BY <1>1, <2>1
<1> QED
  BY <1>2, <1>3

LEMMA TablesStep == TypeOK /\ Tables /\ [Next]_vars => Tables'
<1> SUFFICES ASSUME TypeOK, Tables, [Next]_vars PROVE Tables'
  OBVIOUS
<1> USE ConstantsAssumption
<1> DEFINE Same == UNCHANGED <<st, addr, id, tableVars, closing>>
<1>0. ASSUME Same PROVE Tables'
  BY <1>0 DEF Tables, NamesOK, TableLive, tableVars, closed
<1>1. CASE StartBegins \/ StartEnds \/ CloseSocket
  <2>1. UNCHANGED <<st, addr, id, tableVars>> /\ (closed => closed')
        /\ (closing' = closing \/ closed')
    BY <1>1 DEF StartBegins, StartEnds, CloseSocket, connVars, closed, tableVars
  <2> QED
    BY <2>1 DEF Tables, NamesOK, TableLive, tableVars, closed
<1>2. CASE Close
  <2>1. UNCHANGED <<st, addr, id, tableVars>> /\ closed'
    BY <1>2 DEF Close, connVars, closed, tableVars
  <2> QED
    BY <2>1 DEF Tables, NamesOK, TableLive, tableVars
<1>3. CASE CloseClients
  <2>1. UNCHANGED <<st, addr, id, peerMap>>
        /\ \A n \in Names : peerMap[n] = None
    BY <1>3 DEF CloseClients, InMap, TypeOK
  <2>2. \A a \in Addrs : peerMap'[a] = None
    BY <2>1 DEF Names
  <2> QED
    BY <2>1, <2>2 DEF Tables, NamesOK, TableLive
<1>4. ASSUME NEW a \in Addrs, ReconnectTimer(a) \/ DialFails(a) PROVE Tables'
  BY <1>0, <1>4 DEF ReconnectTimer, DialFails, connVars, lifeVars
<1>5. ASSUME NEW a \in Addrs, DialDone(a) PROVE Tables'
  BY <1>5, AttachKeeps DEF DialDone, lifeVars
<1>6. ASSUME NEW a \in Addrs, ServerConnection(a) PROVE Tables'
  BY <1>6, AttachKeeps DEF ServerConnection, lifeVars
<1>7. ASSUME NEW a \in Peers, ConnectPeer(a) PROVE Tables'
  BY <1>0, <1>7 DEF ConnectPeer, connVars, lifeVars
<1>8. ASSUME NEW c \in Conns, NEW k \in Keys, Handshake(c, k) PROVE Tables'
  <2> USE DEF TypeOK, Tables
  <2>1. /\ st[c] = "open" /\ k \in Names /\ k \notin Addrs /\ id[c] \in Names
        /\ UNCHANGED <<st, addr, closing>>
        /\ id' = [id EXCEPT ![c] = k]
        /\ peerMap' = [peerMap EXCEPT ![id[c]] = None, ![k] = c]
        /\ addressToPeerId' = [addressToPeerId EXCEPT ![addr[c]] = k]
    BY <1>8 DEF Handshake, Registered, lifeVars, Names
  <2>2. NamesOK'
    BY <2>1 DEF NamesOK
  <2>3. TableLive'
    <3> SUFFICES ASSUME NEW n \in Names, peerMap'[n] # None
                 PROVE  /\ id'[peerMap'[n]] = n
                        /\ \/ st[peerMap'[n]] = "open"
                           \/ /\ st[peerMap'[n]] = "ended"
                              /\ closed \/ (n \in Addrs /\ addressToPeerId'[n] # n)
      BY <2>1 DEF TableLive, closed
    <3>1. CASE n = k
      BY <3>1, <2>1
    <3>2. CASE n # k
      <4>1. peerMap'[n] = peerMap[n] /\ n # id[c] /\ peerMap[n] \in Conns
        BY <3>2, <2>1
      <4>2. n \in Addrs /\ addressToPeerId[n] # n => addressToPeerId'[n] # n
        BY <2>1
      <4> QED
        BY <4>1, <4>2, <2>1 DEF TableLive
    <3> QED
      BY <3>1, <3>2
  <2> QED
    BY <2>2, <2>3
<1>9. ASSUME NEW c \in Conns, ConnectionDies(c) \/ TornDown(c) PROVE Tables'
  <2>1. CASE ConnectionDies(c)
    BY <1>0, <2>1 DEF ConnectionDies, lifeVars
  <2>2. CASE TornDown(c)
    <3>1. /\ st' = [st EXCEPT ![c] = "torn"] /\ st[c] = "tearing"
          /\ UNCHANGED <<addr, id, tableVars, closing>>
      BY <2>2 DEF TornDown, lifeVars
    <3> QED
      BY <3>1 DEF Tables, NamesOK, TableLive, tableVars, closed, TypeOK
  <2> QED
    BY <1>9, <2>1, <2>2
<1>10. ASSUME NEW c \in Conns, ReadLoopEnds(c) PROVE Tables'
  <2> DEFINE hit == IF closed THEN None ELSE Found(peerMap, addressToPeerId, id[c])
  <2>1. /\ Hit(hit) /\ Hit(None)
        /\ ~closed /\ peerMap[id[c]] = c /\ hit # c
              => id[c] \in Addrs /\ addressToPeerId[id[c]] \notin {None, id[c]}
    <3>1. id[c] \in Names
      BY DEF TypeOK
    <3>2. Hit(None)
      BY DEF Hit
    <3>3. Hit(hit)
      BY <3>1, <3>2, FoundHit
    <3>4. ~closed /\ peerMap[id[c]] = c /\ hit # c
              => id[c] \in Addrs /\ addressToPeerId[id[c]] \notin {None, id[c]}
      BY DEF Found
    <3> QED
      BY <3>2, <3>3, <3>4
  <2>2. /\ st' = [x \in Conns |-> CASE x = hit -> "tearing"
                                    [] x = c /\ x # hit -> "ended"
                                    [] OTHER -> st[x]]
        /\ peerMap' = Less(peerMap, hit)
        /\ addressToPeerId' = Unnamed(addressToPeerId, hit)
        /\ UNCHANGED <<addr, id, closing>>
    BY <1>10 DEF ReadLoopEnds, lifeVars
  <2> HIDE DEF hit
  <2> USE DEF TypeOK, Tables
  <2>3. \A n \in Names : peerMap'[n] = IF peerMap[n] \in {hit, None} THEN None ELSE peerMap[n]
    BY <2>1, <2>2 DEF Less, Hit, TableLive
  <2>4. \A a \in Addrs : addressToPeerId'[a] \in {None, addressToPeerId[a]}
    BY <2>2 DEF Unnamed
  <2>5. TableLive'
    <3> SUFFICES ASSUME NEW n \in Names, peerMap'[n] # None
                 PROVE  /\ id[peerMap'[n]] = n
                        /\ \/ st'[peerMap'[n]] = "open"
                           \/ /\ st'[peerMap'[n]] = "ended"
                              /\ closed \/ (n \in Addrs /\ addressToPeerId'[n] # n)
      BY <2>2 DEF TableLive, closed
    <3>1. /\ peerMap'[n] = peerMap[n] /\ peerMap[n] # hit /\ peerMap[n] \in Conns
          /\ id[peerMap[n]] = n
      BY <2>3 DEF TableLive
    <3>2. CASE peerMap[n] = c
      BY <3>1, <3>2, <2>1, <2>2, <2>4 DEF Names
    <3>3. CASE peerMap[n] # c
      <4>1. st'[peerMap[n]] = st[peerMap[n]]
        BY <3>1, <3>3, <2>2
      <4>2. n \in Addrs /\ addressToPeerId[n] # n => addressToPeerId'[n] # n
        BY <2>4 DEF Names
      <4> QED
        BY <4>1, <4>2, <3>1 DEF TableLive
    <3> QED
      BY <3>2, <3>3
  <2> QED
    BY <2>2, <2>5 DEF NamesOK
<1>11. ASSUME NEW c \in Conns, WriteFails(c) PROVE Tables'
  <2> DEFINE hit == IF closed THEN None ELSE Found(peerMap, addressToPeerId, id[c])
  <2>1. Hit(None) /\ id[c] \in Names
    BY DEF Hit, TypeOK
  <2>2. Hit(hit)
    BY <2>1, FoundHit
  <2>3. TearDown(hit, None) /\ UNCHANGED <<id, addr, closing>>
    BY <1>11 DEF WriteFails, HandleClosed, lifeVars
  <2> HIDE DEF hit
  <2> QED
    BY <2>1, <2>2, <2>3, TearDownKeeps
<1>12. ASSUME NEW c \in Conns, CloseChannel(c) PROVE Tables'
  <2>1. Hit(None) /\ Hit(c)
    BY <1>12 DEF CloseChannel, InMap, Hit, Tables, TableLive, TypeOK
  <2> QED
    BY <2>1, <1>12, TearDownKeeps DEF CloseChannel, lifeVars
<1>13. ASSUME NEW c \in Conns, NEW e \in {"close", "stopped"}, LateEvent(c, e)
       PROVE Tables'
  <2> DEFINE first == IF closed THEN None ELSE Found(peerMap, addressToPeerId, addr[c])
             second == IF closed \/ st[c] = "none" THEN None
                       ELSE Found(Less(peerMap, first),
                                  Unnamed(addressToPeerId, first), id[c])
  <2>1. Hit(None) /\ id[c] \in Names /\ addr[c] \in Names
    BY DEF Hit, TypeOK, Names
  <2>2. Hit(first)
    BY <2>1, FoundHit
  <2>3. TearDown(first, second) /\ UNCHANGED <<id, addr, closing>>
    BY <1>13 DEF LateEvent, lifeVars
  <2> HIDE DEF first
  <2>4. Hit(second)
    BY <2>1, <2>2, FoundNext
  <2> HIDE DEF second
  <2> QED
    BY <2>2, <2>3, <2>4, TearDownKeeps
<1>14. CASE UNCHANGED vars
  BY <1>0, <1>14 DEF vars, history, connVars, lifeVars
<1> QED
  BY <1>1, <1>2, <1>3, <1>4, <1>5, <1>6, <1>7, <1>8, <1>9, <1>10, <1>11,
     <1>12, <1>13, <1>14 DEF Next

-----------------------------------------------------------------------------
(* A teardown of listed channels leaves every peer that is told connected  *)
(* with a channel, or with that teardown to tell it otherwise.             *)
LEMMA TearDownTells ==
  ASSUME TypeOK, Tables, ToldLive, ByeLast, NEW c, NEW d, Hit(c), Hit(d),
         TearDown(c, d), UNCHANGED <<id, told, abandoned, bye, closing>>
  PROVE  ToldLive'
<1> SUFFICES ASSUME ~closed, NEW k \in told \ abandoned
             PROVE  \/ peerMap'[k] # None
                    \/ \E x \in Conns : st'[x] = "tearing" /\ id[x] = k /\ x \notin bye
  BY DEF ToldLive, closed
<1> USE ConstantsAssumption DEF TypeOK
<1>1. k \in Names /\ bye = {}
  BY DEF Names, ByeLast
<1>2. CASE peerMap[k] # None /\ peerMap[k] \notin {c, d}
  BY <1>1, <1>2, TearDownTables
<1>3. CASE peerMap[k] # None /\ peerMap[k] \in {c, d}
  <2>1. peerMap[k] \in Conns /\ id[peerMap[k]] = k
    BY <1>1, <1>3 DEF Tables, TableLive
  <2>2. st'[peerMap[k]] = "tearing"
    BY <2>1, <1>3 DEF TearDown
  <2> QED
    BY <1>1, <2>1, <2>2
<1>4. CASE peerMap[k] = None
  <2>1. PICK x \in Conns : st[x] = "tearing" /\ id[x] = k
    BY <1>4 DEF ToldLive
  <2>2. st'[x] = "tearing"
    BY <2>1 DEF TearDown
  <2> QED
    BY <1>1, <2>1, <2>2
<1> QED
  BY <1>2, <1>3, <1>4

(* A new channel takes no entry of a pubkey and is no teardown's.          *)
LEMMA AttachTells ==
  ASSUME TypeOK, ToldLive, NEW c \in Conns, NEW a \in Addrs, Spare(c),
         Attach(c, a), UNCHANGED <<told, abandoned, closing>>
  PROVE  ToldLive'
<1> SUFFICES ASSUME ~closed, NEW k \in told \ abandoned
             PROVE  \/ peerMap'[k] # None
                    \/ \E x \in Conns : st'[x] = "tearing" /\ id'[x] = k /\ x \notin bye'
  BY DEF ToldLive, closed
<1> USE ConstantsAssumption DEF TypeOK, Attach
<1>1. k \in Names /\ k # a
  BY DEF Names
<1>2. CASE peerMap[k] # None
  BY <1>1, <1>2
<1>3. CASE peerMap[k] = None
  <2>1. PICK x \in Conns : st[x] = "tearing" /\ id[x] = k /\ x \notin bye
    BY <1>3 DEF ToldLive
  <2>2. x # c
    BY <2>1 DEF Spare
  <2>3. st'[x] = "tearing" /\ id'[x] = k /\ x \notin bye'
    BY <2>1, <2>2
  <2> QED
    BY <2>3
<1> QED
  BY <1>2, <1>3

LEMMA ByeStep == TypeOK /\ ByeLast /\ [Next]_vars => ByeLast'
<1> SUFFICES ASSUME ByeLast, [Next]_vars PROVE ByeLast'
  OBVIOUS
<1>0. ASSUME bye' \subseteq bye, closed => closed' PROVE ByeLast'
  BY <1>0 DEF ByeLast
<1>1. CASE StartBegins \/ StartEnds \/ CloseClients \/ CloseSocket \/ Close
  <2>1. bye' = bye /\ (closed => closed')
    BY <1>1 DEF StartBegins, StartEnds, CloseClients, CloseSocket, Close, connVars, closed
  <2> QED
    BY <1>0, <2>1
<1>2. ASSUME NEW a \in Addrs,
             ReconnectTimer(a) \/ DialFails(a) \/ ConnectPeer(a)
      PROVE  ByeLast'
  <2>1. bye' = bye /\ closing' = closing
    BY <1>2 DEF ReconnectTimer, DialFails, ConnectPeer, connVars, lifeVars
  <2> QED
    BY <1>0, <2>1 DEF closed
<1>3. ASSUME NEW a \in Addrs, DialDone(a) \/ ServerConnection(a) PROVE ByeLast'
  <2>1. bye' \subseteq bye /\ closing' = closing
    BY <1>3 DEF DialDone, ServerConnection, Attach, lifeVars
  <2> QED
    BY <1>0, <2>1 DEF closed
<1>4. ASSUME NEW c \in Conns,
             (\E k \in Keys : Handshake(c, k)) \/ ConnectionDies(c) \/ ReadLoopEnds(c) \/ WriteFails(c)
             \/ TornDown(c) \/ (\E e \in {"close", "stopped"} : LateEvent(c, e))
      PROVE  ByeLast'
  <2>1. bye' = bye /\ closing' = closing
    BY <1>4 DEF Handshake, ConnectionDies, ReadLoopEnds, WriteFails, TornDown,
                LateEvent, lifeVars
  <2> QED
    BY <1>0, <2>1 DEF closed
<1>5. ASSUME NEW c \in Conns, CloseChannel(c) PROVE ByeLast'
  BY <1>5 DEF CloseChannel, ByeLast, closed, lifeVars
<1>6. CASE UNCHANGED vars
  BY <1>0, <1>6 DEF vars, history, connVars, lifeVars, closed
<1> QED
  BY <1>1, <1>2, <1>3, <1>4, <1>5, <1>6, ConstantsAssumption DEF Next

LEMMA ToldStep ==
  TypeOK /\ Tables /\ ByeLast /\ ToldLive /\ [Next]_vars => ToldLive'
<1> SUFFICES ASSUME TypeOK, Tables, ByeLast, ToldLive, [Next]_vars PROVE ToldLive'
  OBVIOUS
<1> USE ConstantsAssumption
<1>0. ASSUME UNCHANGED <<st, id, bye, peerMap, told, abandoned>>, closed => closed'
      PROVE  ToldLive'
  BY <1>0 DEF ToldLive
<1>1. CASE StartBegins \/ StartEnds \/ CloseSocket \/ Close
  <2>1. UNCHANGED <<st, id, bye, peerMap, told, abandoned>> /\ (closed => closed')
    BY <1>1 DEF StartBegins, StartEnds, CloseSocket, Close, connVars, tableVars, history, closed
  <2> QED
    BY <1>0, <2>1
<1>2. CASE CloseClients
  BY <1>2 DEF CloseClients, ToldLive, closed
<1>3. ASSUME NEW a \in Addrs,
             ReconnectTimer(a) \/ DialFails(a) \/ ConnectPeer(a)
      PROVE  ToldLive'
  BY <1>0, <1>3 DEF ReconnectTimer, DialFails, ConnectPeer, connVars, tableVars,
                    lifeVars, history, closed
<1>4. ASSUME NEW a \in Addrs, DialDone(a) PROVE ToldLive'
  BY <1>4, AttachTells DEF DialDone, lifeVars, history
<1>5. ASSUME NEW a \in Addrs, ServerConnection(a) PROVE ToldLive'
  BY <1>5, AttachTells DEF ServerConnection, lifeVars, history
<1>6. ASSUME NEW c \in Conns, NEW k \in Keys, Handshake(c, k) PROVE ToldLive'
  <2> USE DEF TypeOK
  <2>1. /\ st[c] = "open" /\ id[c] \in Names /\ k \in Names
        /\ UNCHANGED <<st, bye, closing>>
        /\ id' = [id EXCEPT ![c] = k] /\ told' = told \cup {k}
        /\ abandoned' = (abandoned \cup ({id[c]} \cap Keys)) \ {k}
        /\ peerMap' = [peerMap EXCEPT ![id[c]] = None, ![k] = c]
    BY <1>6 DEF Handshake, Registered, lifeVars, Names
  <2> SUFFICES ASSUME ~closed, NEW j \in told' \ abandoned'
               PROVE  \/ peerMap'[j] # None
                      \/ \E x \in Conns : st[x] = "tearing" /\ id'[x] = j /\ x \notin bye
    BY <2>1 DEF ToldLive, closed
  <2>2. j \in Keys /\ j \in Names
    BY <2>1 DEF Names
  <2>3. CASE j = k
    BY <2>1, <2>2, <2>3
  <2>4. CASE j # k
    <3>1. j \in told \ abandoned /\ j # id[c]
      BY <2>1, <2>2, <2>4
    <3>2. CASE peerMap[j] # None
      BY <2>1, <2>2, <2>4, <3>1, <3>2
    <3>3. CASE peerMap[j] = None
      <4>1. PICK x \in Conns : st[x] = "tearing" /\ id[x] = j /\ x \notin bye
        BY <3>1, <3>3 DEF ToldLive
      <4>2. x # c
        BY <4>1, <2>1
      <4> QED
        BY <4>1, <4>2, <2>1
    <3> QED
      BY <3>2, <3>3
  <2> QED
    BY <2>3, <2>4
<1>7. ASSUME NEW c \in Conns, ConnectionDies(c) PROVE ToldLive'
  BY <1>0, <1>7 DEF ConnectionDies, tableVars, lifeVars, history, closed
<1>8. ASSUME NEW c \in Conns, TornDown(c) PROVE ToldLive'
  <2> USE DEF TypeOK
  <2>1. /\ UNCHANGED <<id, bye, peerMap, closing, abandoned>>
        /\ st' = [st EXCEPT ![c] = "torn"] /\ told' = ToldAfter(c)
    BY <1>8 DEF TornDown, tableVars, lifeVars, history
  <2> SUFFICES ASSUME ~closed, NEW j \in told' \ abandoned
               PROVE  \/ peerMap[j] # None
                      \/ \E x \in Conns : st'[x] = "tearing" /\ id[x] = j /\ x \notin bye
    BY <2>1 DEF ToldLive, closed
  <2>2. bye = {} /\ j \in told \ abandoned /\ j # id[c]
    BY <2>1 DEF ByeLast, ToldAfter
  <2>3. CASE peerMap[j] = None
    <3>1. PICK x \in Conns : st[x] = "tearing" /\ id[x] = j /\ x \notin bye
      BY <2>2, <2>3 DEF ToldLive
    <3>2. st'[x] = "tearing"
      BY <3>1, <2>1, <2>2
    <3> QED
      BY <3>1, <3>2
  <2> QED
    BY <2>3
<1>9. ASSUME NEW c \in Conns, ReadLoopEnds(c) PROVE ToldLive'
  <2> USE DEF TypeOK
  <2> SUFFICES ASSUME ~closed, NEW k \in told \ abandoned
               PROVE  \/ peerMap'[k] # None
                      \/ \E x \in Conns : st'[x] = "tearing" /\ id[x] = k /\ x \notin bye
    BY <1>9 DEF ReadLoopEnds, ToldLive, closed, lifeVars, history
  <2> DEFINE hit == Found(peerMap, addressToPeerId, id[c])
  <2>1. id[c] \in Names /\ bye = {} /\ k \in Names
    BY DEF ByeLast, Names
  <2>2. Hit(hit)
    BY <2>1, FoundHit
  <2>3. /\ st[c] = "open" /\ peerMap' = Less(peerMap, hit)
        /\ st' = [x \in Conns |-> CASE x = hit -> "tearing"
                                    [] x = c /\ x # hit -> "ended"
                                    [] OTHER -> st[x]]
    BY <1>9 DEF ReadLoopEnds
  <2> HIDE DEF hit
  <2>4. CASE peerMap[k] # None /\ peerMap[k] # hit
    <3>1. hit # None => id[hit] # k
      BY <2>2, <2>4 DEF Hit
    <3> QED
      BY <3>1, <2>1, <2>3, <2>4 DEF Less
  <2>5. CASE peerMap[k] # None /\ peerMap[k] = hit
    <3>1. hit \in Conns /\ id[hit] = k
      BY <2>1, <2>5 DEF Tables, TableLive
    <3> QED
      BY <3>1, <2>1, <2>3
  <2>6. CASE peerMap[k] = None
    <3>1. PICK x \in Conns : st[x] = "tearing" /\ id[x] = k
      BY <2>6 DEF ToldLive
    <3>2. x # c
      BY <3>1, <2>3
    <3>3. st'[x] = "tearing"
      BY <3>1, <3>2, <2>3
    <3> QED
      BY <3>1, <3>3, <2>1
  <2> QED
    BY <2>4, <2>5, <2>6
<1>10. ASSUME NEW c \in Conns, WriteFails(c) PROVE ToldLive'
  <2> DEFINE hit == IF closed THEN None ELSE Found(peerMap, addressToPeerId, id[c])
  <2>1. Hit(None) /\ id[c] \in Names
    BY DEF Hit, TypeOK
  <2>2. Hit(hit)
    BY <2>1, FoundHit
  <2>3. TearDown(hit, None) /\ UNCHANGED <<id, told, abandoned, bye, closing>>
    BY <1>10 DEF WriteFails, HandleClosed, lifeVars, history
  <2> HIDE DEF hit
  <2> QED
    BY <2>1, <2>2, <2>3, TearDownTells
<1>11. ASSUME NEW c \in Conns, CloseChannel(c) PROVE ToldLive'
  BY <1>11 DEF CloseChannel, ToldLive, closed, lifeVars, history
<1>12. ASSUME NEW c \in Conns, NEW e \in {"close", "stopped"}, LateEvent(c, e)
       PROVE ToldLive'
  <2> DEFINE first == IF closed THEN None ELSE Found(peerMap, addressToPeerId, addr[c])
             second == IF closed \/ st[c] = "none" THEN None
                       ELSE Found(Less(peerMap, first),
                                  Unnamed(addressToPeerId, first), id[c])
  <2>1. Hit(None) /\ id[c] \in Names /\ addr[c] \in Names
    BY DEF Hit, TypeOK, Names
  <2>2. Hit(first)
    BY <2>1, FoundHit
  <2>3. TearDown(first, second) /\ UNCHANGED <<id, told, abandoned, bye, closing>>
    BY <1>12 DEF LateEvent, lifeVars, history
  <2> HIDE DEF first
  <2>4. Hit(second)
    BY <2>1, <2>2, FoundNext
  <2> HIDE DEF second
  <2> QED
    BY <2>2, <2>3, <2>4, TearDownTells
<1>13. CASE UNCHANGED vars
  BY <1>0, <1>13 DEF vars, history, connVars, tableVars, lifeVars, closed
<1> QED
  BY <1>1, <1>2, <1>3, <1>4, <1>5, <1>6, <1>7, <1>8, <1>9, <1>10, <1>11,
     <1>12, <1>13 DEF Next

-----------------------------------------------------------------------------
(* Close is final, and no timer is armed after it.                         *)
LEMMA QuietStep == TypeOK /\ ClosedStaysQuiet /\ [Next]_vars =>
                   ClosedStaysQuiet' /\ (closed => closed')
<1> SUFFICES ASSUME TypeOK, ClosedStaysQuiet, [Next]_vars
             PROVE  ClosedStaysQuiet' /\ (closed => closed')
  OBVIOUS
<1> USE ConstantsAssumption DEF ClosedStaysQuiet, closed
<1>1. CASE StartBegins \/ StartEnds \/ CloseClients \/ CloseSocket \/ Close
  BY <1>1 DEF StartBegins, StartEnds, CloseClients, CloseSocket, Close, Call, dialVars
<1>2. ASSUME NEW a \in Addrs,
             ReconnectTimer(a) \/ ConnectPeer(a) \/ DialDone(a)
             \/ DialFails(a) \/ ServerConnection(a)
      PROVE  ClosedStaysQuiet' /\ (closed => closed')
  BY <1>2 DEF ReconnectTimer, ConnectPeer, DialDone, DialFails, ServerConnection,
              Call, Schedulable, dialVars, lifeVars
<1>3. ASSUME NEW c \in Conns,
             (\E k \in Keys : Handshake(c, k)) \/ ConnectionDies(c) \/ ReadLoopEnds(c) \/ WriteFails(c)
             \/ CloseChannel(c) \/ (\E e \in {"close", "stopped"} : LateEvent(c, e))
      PROVE  ClosedStaysQuiet' /\ (closed => closed')
  BY <1>3 DEF Handshake, ConnectionDies, ReadLoopEnds, WriteFails, CloseChannel,
              LateEvent, dialVars, lifeVars
<1>4. ASSUME NEW c \in Conns, TornDown(c)
      PROVE  ClosedStaysQuiet' /\ (closed => closed')
  BY <1>4 DEF TornDown, Schedulable, lifeVars
<1>5. CASE UNCHANGED vars
  BY <1>5 DEF vars, history, dialVars, lifeVars
<1> QED
  BY <1>1, <1>2, <1>3, <1>4, <1>5 DEF Next

-----------------------------------------------------------------------------
(* What holds an address goes on holding it until its teardown ends.       *)
Unheld(a) == \E c \in out : TornDown(c) /\ addr[c] = a

LEMMA TearDownHolds ==
  ASSUME TypeOK, Tables, NEW a \in Peers, Held(a), NEW c, NEW d, Hit(c), Hit(d),
         TearDown(c, d), UNCHANGED <<addr, out>>
  PROVE  Held(a)'
<1> USE ConstantsAssumption DEF TypeOK
<1>1. PICK x \in out : addr[x] = a /\ (st[x] = "tearing" \/ (st[x] = "open" /\ x \in InMap))
  BY DEF Held, Linked
<1>2. CASE st[x] = "tearing" \/ x \in {c, d}
  <2>1. st'[x] = "tearing"
    BY <1>1, <1>2 DEF TearDown
  <2> QED
    BY <1>1, <2>1 DEF Held, Linked
<1>3. CASE st[x] = "open" /\ x \in InMap /\ x \notin {c, d}
  <2>1. st'[x] = "open"
    BY <1>1, <1>3 DEF TearDown
  <2>2. x \in InMap'
    BY <1>3, TearDownTables DEF InMap
  <2> QED
    BY <1>1, <2>1, <2>2 DEF Held, Linked
<1> QED
  BY <1>1, <1>2, <1>3

LEMMA AttachHolds ==
  ASSUME TypeOK, Tables, NEW a \in Peers, Held(a), NEW c \in Conns, NEW b \in Addrs,
         b # a, Spare(c), Attach(c, b), out \ {c} \subseteq out'
  PROVE  Held(a)'
<1> USE ConstantsAssumption DEF TypeOK
<1>1. PICK x \in out : addr[x] = a /\ (st[x] = "tearing" \/ (st[x] = "open" /\ x \in InMap))
  BY DEF Held, Linked
<1>2. x # c
  BY <1>1 DEF Spare
<1>3. st'[x] = st[x] /\ addr'[x] = a /\ x \in out'
  BY <1>1, <1>2 DEF Attach
<1>4. ASSUME x \in InMap PROVE x \in InMap'
  <2>1. PICK n \in Names : peerMap[n] = x
    BY <1>4 DEF InMap
  <2>2. n # b
    BY <2>1, <1>1 DEF Tables, TableLive, NamesOK
  <2>3. peerMap'[n] = x
    BY <2>1, <2>2 DEF Attach, tableVars
  <2> QED
    BY <2>3 DEF InMap
<1> QED
  BY <1>1, <1>3, <1>4 DEF Held, Linked

LEMMA HandshakeHolds ==
  ASSUME TypeOK, Tables, Routes, NEW a \in Peers, a \notin crossed', ~closed,
         NEW c \in Conns, NEW k \in Keys, Handshake(c, k)
  PROVE  addr[c] = a \/ Held(a) => Held(a)'
<1> USE ConstantsAssumption DEF TypeOK
<1>1. /\ st[c] = "open" /\ k \in Names /\ id[c] \in Names
      /\ UNCHANGED <<st, addr, out>> /\ crossed \subseteq crossed'
      /\ peerMap' = [peerMap EXCEPT ![id[c]] = None, ![k] = c]
  BY DEF Handshake, Registered, Names
<1>2. CASE addr[c] = a
  <2>1. c \in out
    BY <1>1, <1>2 DEF Routes, Outbound
  <2>2. c \in InMap'
    BY <1>1 DEF InMap
  <2> QED
    BY <1>1, <1>2, <2>1, <2>2 DEF Held, Linked
<1>3. CASE addr[c] # a /\ Held(a)
  <2>1. PICK x \in out : addr[x] = a /\ (st[x] = "tearing" \/ (st[x] = "open" /\ x \in InMap))
    BY <1>3 DEF Held, Linked
  <2>2. ASSUME st[x] = "open", x \in InMap PROVE x \in InMap'
    <3>1. PICK n \in Names : peerMap[n] = x
      BY <2>2 DEF InMap
    <3>2. id[x] = n
      BY <3>1 DEF Tables, TableLive
    <3>3. n # id[c]
      BY <3>2, <2>1, <2>2, <1>1, <1>3 DEF Routes, SameName
    <3>4. n # k
      <4> SUFFICES ASSUME n = k PROVE FALSE
        OBVIOUS
      <4>1. x \in Namesakes(c, k)
        BY <3>2, <2>1, <2>2, <1>3 DEF Namesakes
      <4>2. addr[x] \in crossed'
        BY <4>1 DEF Handshake
      <4> QED
        BY <4>2, <2>1
    <3>5. peerMap'[n] = x
      BY <3>1, <3>3, <3>4, <1>1
    <3> QED
      BY <3>5 DEF InMap
  <2> QED
    BY <1>1, <2>1, <2>2 DEF Held, Linked
<1> QED
  BY <1>2, <1>3

LEMMA HeldStep ==
  ASSUME TypeOK, Tables, Routes, ~closed', ~closed, [Next]_vars,
         NEW a \in Peers, a \notin crossed', a \notin crossed, Held(a), ~Unheld(a)
  PROVE  Held(a)'
<1> USE ConstantsAssumption DEF TypeOK
<1>0. ASSUME UNCHANGED <<st, addr, out, peerMap>> PROVE Held(a)'
  BY <1>0 DEF Held, Linked, InMap
<1>1. CASE StartBegins \/ StartEnds \/ CloseClients \/ CloseSocket \/ Close
  BY <1>0, <1>1 DEF StartBegins, StartEnds, CloseClients, CloseSocket, Close,
                    connVars, tableVars, closed
<1>2. ASSUME NEW b \in Addrs,
             ReconnectTimer(b) \/ DialFails(b) \/ ConnectPeer(b)
      PROVE  Held(a)'
  BY <1>0, <1>2 DEF ReconnectTimer, DialFails, ConnectPeer, connVars, tableVars
<1>3. ASSUME NEW b \in Addrs, DialDone(b) PROVE Held(a)'
  <2>1. PICK c \in Conns : Spare(c) /\ Attach(c, b) /\ out' = out \cup {c}
    BY <1>3 DEF DialDone
  <2>2. CASE b # a
    BY <2>1, <2>2, AttachHolds
  <2>3. CASE b = a
    <3>1. st'[c] = "open" /\ addr'[c] = a /\ peerMap'[a] = c /\ a \in Names
      BY <2>1, <2>3 DEF Attach, Names
    <3> QED
      BY <3>1, <2>1 DEF Held, Linked, InMap
  <2> QED
    BY <2>2, <2>3
<1>4. ASSUME NEW b \in Addrs, ServerConnection(b) PROVE Held(a)'
  <2>1. b # a
    BY <1>4 DEF ServerConnection
  <2>2. PICK c \in Conns : Spare(c) /\ Attach(c, b) /\ out' = out \ {c}
    BY <1>4 DEF ServerConnection
  <2> QED
    BY <2>1, <2>2, AttachHolds
<1>5. ASSUME NEW c \in Conns, NEW k \in Keys, Handshake(c, k) PROVE Held(a)'
  BY <1>5, HandshakeHolds
<1>6. ASSUME NEW c \in Conns, ConnectionDies(c) PROVE Held(a)'
  BY <1>0, <1>6 DEF ConnectionDies, tableVars
<1>7. ASSUME NEW c \in Conns, TornDown(c) PROVE Held(a)'
  <2>1. PICK x \in out : addr[x] = a /\ (st[x] = "tearing" \/ (st[x] = "open" /\ x \in InMap))
    BY DEF Held, Linked
  <2>2. x # c
    BY <1>7, <2>1 DEF Unheld
  <2>3. st'[x] = st[x] /\ UNCHANGED <<addr, out, peerMap>>
    BY <1>7, <2>1, <2>2 DEF TornDown, tableVars
  <2> QED
    BY <2>1, <2>3 DEF Held, Linked, InMap
<1>8. ASSUME NEW c \in Conns, ReadLoopEnds(c) PROVE Held(a)'
  <2> DEFINE hit == Found(peerMap, addressToPeerId, id[c])
  <2>1. Hit(hit) /\ id[c] \in Names
    BY FoundHit
  <2>2. ASSUME c \in InMap, addr[c] = a, hit # c
        PROVE  hit \in out /\ addr[hit] = a
    <3>1. peerMap[id[c]] = c
      BY <2>2 DEF InMap, Tables, TableLive
    <3>2. id[c] = a /\ addressToPeerId[a] \notin {None, a}
      BY <2>2, <3>1 DEF Found, Tables, NamesOK
    <3>3. addressToPeerId[a] \in Keys
      BY <3>2 DEF Routes, IndexNames
    <3>4. hit = peerMap[addressToPeerId[a]] /\ hit # None /\ addr[hit] = a
      BY <3>2, <3>3 DEF Found, Routes, IndexHeld
    <3>5. st[hit] = "open"
      BY <3>3, <3>4 DEF Tables, TableLive, Names
    <3> QED
      BY <3>4, <3>5, <3>3 DEF Routes, Outbound, Names
  <2>3. /\ peerMap' = Less(peerMap, hit)
        /\ st' = [x \in Conns |-> CASE x = hit -> "tearing"
                                    [] x = c /\ x # hit -> "ended"
                                    [] OTHER -> st[x]]
        /\ UNCHANGED <<addr, out>>
    BY <1>8 DEF ReadLoopEnds
  <2>4. st[c] = "open"
    BY <1>8 DEF ReadLoopEnds
  <2> HIDE DEF hit
  <2>5. PICK x \in out : addr[x] = a /\ (st[x] = "tearing" \/ (st[x] = "open" /\ x \in InMap))
    BY DEF Held, Linked
  <2>6. CASE st[x] = "tearing" \/ x = hit
    <3>1. st'[x] = "tearing"
      BY <2>3, <2>4, <2>5, <2>6
    <3> QED
      BY <3>1, <2>3, <2>5 DEF Held, Linked
  <2>7. CASE st[x] = "open" /\ x \in InMap /\ x # hit /\ x # c
    <3>1. st'[x] = "open"
      BY <2>3, <2>5, <2>7
    <3>2. x \in InMap'
      <4>1. PICK n \in Names : peerMap[n] = x
        BY <2>7 DEF InMap
      <4>2. hit # None => id[hit] # n
        BY <4>1, <2>7, <2>1 DEF Hit
      <4>3. peerMap'[n] = x
        BY <4>1, <4>2, <2>3 DEF Less
      <4> QED
        BY <4>3 DEF InMap
    <3> QED
      BY <3>1, <3>2, <2>3, <2>5 DEF Held, Linked
  <2>8. CASE x \in InMap /\ x # hit /\ x = c
    <3>1. hit \in out /\ addr[hit] = a
      BY <2>2, <2>5, <2>8
    <3>2. st'[hit] = "tearing"
      BY <3>1, <2>3
    <3> QED
      BY <3>1, <3>2, <2>3 DEF Held, Linked
  <2> QED
    BY <2>5, <2>6, <2>7, <2>8
<1>9. ASSUME NEW c \in Conns, WriteFails(c) PROVE Held(a)'
  <2> DEFINE hit == IF closed THEN None ELSE Found(peerMap, addressToPeerId, id[c])
  <2>1. Hit(None) /\ id[c] \in Names
    BY DEF Hit
  <2>2. Hit(hit)
    BY <2>1, FoundHit
  <2>3. TearDown(hit, None) /\ UNCHANGED <<addr, out>>
    BY <1>9 DEF WriteFails, HandleClosed
  <2> HIDE DEF hit
  <2> QED
    BY <2>1, <2>2, <2>3, TearDownHolds
<1>10. ASSUME NEW c \in Conns, CloseChannel(c) PROVE Held(a)'
  BY <1>10 DEF CloseChannel, closed
<1>11. ASSUME NEW c \in Conns, NEW e \in {"close", "stopped"}, LateEvent(c, e)
       PROVE Held(a)'
  <2> DEFINE first == IF closed THEN None ELSE Found(peerMap, addressToPeerId, addr[c])
             second == IF closed \/ st[c] = "none" THEN None
                       ELSE Found(Less(peerMap, first),
                                  Unnamed(addressToPeerId, first), id[c])
  <2>1. Hit(None) /\ id[c] \in Names /\ addr[c] \in Names
    BY DEF Hit, Names
  <2>2. Hit(first)
    BY <2>1, FoundHit
  <2>3. TearDown(first, second) /\ UNCHANGED <<addr, out>>
    BY <1>11 DEF LateEvent
  <2> HIDE DEF first
  <2>4. Hit(second)
    BY <2>1, <2>2, FoundNext
  <2> HIDE DEF second
  <2> QED
    BY <2>2, <2>3, <2>4, TearDownHolds
<1>12. CASE UNCHANGED vars
  BY <1>0, <1>12 DEF vars, history, connVars, tableVars
<1> QED
  BY <1>1, <1>2, <1>3, <1>4, <1>5, <1>6, <1>7, <1>8, <1>9, <1>10, <1>11, <1>12
     DEF Next

LEMMA SocketStep == HasSocket /\ [Next]_vars => HasSocket'
<1> SUFFICES ASSUME HasSocket, [Next]_vars PROVE HasSocket'
  OBVIOUS
<1> USE ConstantsAssumption
<1>1. ASSUME UNCHANGED lifeVars PROVE HasSocket'
  BY <1>1 DEF HasSocket, lifeVars, closed
<1>2. CASE StartBegins \/ StartEnds \/ CloseClients \/ CloseSocket \/ Close
  BY <1>2 DEF StartBegins, StartEnds, CloseClients, CloseSocket, Close, HasSocket, closed
<1>3. ASSUME NEW a \in Addrs,
             ReconnectTimer(a) \/ DialFails(a) \/ ConnectPeer(a)
             \/ DialDone(a) \/ ServerConnection(a)
      PROVE  HasSocket'
  BY <1>1, <1>3 DEF ReconnectTimer, DialFails, ConnectPeer, DialDone, ServerConnection
<1>4. ASSUME NEW c \in Conns,
             \/ \E k \in Keys : Handshake(c, k)
             \/ ConnectionDies(c) \/ ReadLoopEnds(c) \/ TornDown(c)
             \/ WriteFails(c) \/ CloseChannel(c)
             \/ \E e \in {"close", "stopped"} : LateEvent(c, e)
      PROVE  HasSocket'
  BY <1>1, <1>4 DEF Handshake, ConnectionDies, ReadLoopEnds, TornDown, WriteFails,
                    CloseChannel, LateEvent
<1>5. CASE UNCHANGED vars
  BY <1>1, <1>5 DEF vars
<1> QED
  BY <1>2, <1>3, <1>4, <1>5 DEF Next

-----------------------------------------------------------------------------
(* What tells the channels of an address that is not crossed from those of *)
(* the others.  A step that opens no channel and renames none keeps it,    *)
(* when the tables lose entries of torn down channels only.                *)
LEMMA CrossedGrows == [Next]_vars => crossed \subseteq crossed'
<1> SUFFICES ASSUME [Next]_vars PROVE crossed \subseteq crossed'
  OBVIOUS
<1>1. ASSUME UNCHANGED history PROVE crossed \subseteq crossed'
  BY <1>1 DEF history
<1>2. ASSUME NEW a \in Addrs, ServerConnection(a) PROVE crossed \subseteq crossed'
  BY <1>2 DEF ServerConnection
<1>3. ASSUME NEW c \in Conns, NEW k \in Keys, Handshake(c, k)
      PROVE  crossed \subseteq crossed'
  BY <1>3 DEF Handshake
<1>4. CASE StartBegins \/ StartEnds \/ CloseClients \/ CloseSocket \/ Close
  BY <1>1, <1>4 DEF StartBegins, StartEnds, CloseClients, CloseSocket, Close
<1>5. ASSUME NEW a \in Addrs,
             ReconnectTimer(a) \/ DialFails(a) \/ ConnectPeer(a) \/ DialDone(a)
      PROVE  crossed \subseteq crossed'
  BY <1>1, <1>5 DEF ReconnectTimer, DialFails, ConnectPeer, DialDone
<1>6. ASSUME NEW c \in Conns,
             \/ ConnectionDies(c) \/ ReadLoopEnds(c) \/ TornDown(c)
             \/ WriteFails(c) \/ CloseChannel(c)
             \/ \E e \in {"close", "stopped"} : LateEvent(c, e)
      PROVE  crossed \subseteq crossed'
  BY <1>1, <1>6 DEF ConnectionDies, ReadLoopEnds, TornDown, WriteFails,
                    CloseChannel, LateEvent
<1>7. CASE UNCHANGED vars
  BY <1>1, <1>7 DEF vars
<1> QED
  BY <1>2, <1>3, <1>4, <1>5, <1>6, <1>7, ConstantsAssumption DEF Next

LEMMA RoutesKept ==
  ASSUME TypeOK, Tables, Routes, UNCHANGED <<id, addr, out, crossed>>,
         closed => closed',
         \A c \in Conns : st'[c] = "open" => st[c] = "open",
         \A a \in Addrs : addressToPeerId'[a] \in {None, addressToPeerId[a]},
         \A a \in Addrs \ crossed :
             ~closed' /\ addressToPeerId'[a] \in Keys
                 => peerMap'[addressToPeerId[a]] = peerMap[addressToPeerId[a]]
  PROVE  Routes'
<1> USE ConstantsAssumption
<1>1. SameName' /\ Outbound' /\ IndexNames'
  BY DEF Routes, SameName, Outbound, IndexNames
<1>2. IndexHeld'
  <2> SUFFICES ASSUME ~closed', NEW a \in Addrs \ crossed, addressToPeerId'[a] \in Keys
               PROVE  /\ peerMap'[addressToPeerId'[a]] # None
                      /\ addr[peerMap'[addressToPeerId'[a]]] = a
    BY DEF IndexHeld
  <2>1. addressToPeerId'[a] = addressToPeerId[a]
    BY DEF Names
  <2> QED
    BY <2>1 DEF Routes, IndexHeld
<1> QED
  BY <1>1, <1>2 DEF Routes

(* The index entry of an address goes with the channel it leads to.        *)
LEMMA RoutesTearDown ==
  ASSUME TypeOK, Tables, Routes, NEW c, NEW d, Hit(c), Hit(d),
         peerMap' = Less(Less(peerMap, c), d),
         addressToPeerId' = Unnamed(Unnamed(addressToPeerId, c), d),
         \A x \in Conns : st'[x] = "open" => st[x] = "open",
         UNCHANGED <<id, addr, out, crossed, closing>>
  PROVE  Routes'
<1> USE ConstantsAssumption DEF TypeOK
<1>1. \A a \in Addrs : addressToPeerId'[a] \in {None, addressToPeerId[a]}
  BY DEF Unnamed
<1>2. ASSUME NEW a \in Addrs \ crossed, ~closed, addressToPeerId'[a] \in Keys
      PROVE  peerMap'[addressToPeerId[a]] = peerMap[addressToPeerId[a]]
  <2> DEFINE j == addressToPeerId[a]
  <2>1. addressToPeerId'[a] = j /\ j \in Keys /\ j \in Names
    BY <1>1, <1>2 DEF Names
  <2>2. /\ peerMap[j] \in Conns /\ addr[peerMap[j]] = a /\ id[peerMap[j]] = j
    BY <2>1, <1>2 DEF Routes, IndexHeld, Tables, TableLive
  <2>3. ~(c # None /\ id[c] = j) /\ ~(d # None /\ id[d] = j)
    <3>1. c # None /\ id[c] = j => c = peerMap[j]
      BY DEF Hit
    <3>2. d # None /\ id[d] = j => d = peerMap[j]
      BY DEF Hit
    <3>3. ~(c # None /\ a = addr[c] /\ j = id[c])
      BY <2>1 DEF Unnamed, Names
    <3>4. Unnamed(addressToPeerId, c)[a] = j
      BY <3>3 DEF Unnamed
    <3>5. ~(d # None /\ a = addr[d] /\ j = id[d])
      BY <2>1, <3>4 DEF Unnamed, Names
    <3> QED
      BY <3>1, <3>2, <3>3, <3>5, <2>2
  <2> QED
    BY <2>1, <2>3 DEF Less
<1> QED
  BY <1>1, <1>2, RoutesKept DEF closed

LEMMA RoutesAttach ==
  ASSUME TypeOK, Tables, Routes, NEW c \in Conns, NEW a \in Addrs, Spare(c),
         Attach(c, a), UNCHANGED closing, crossed \subseteq crossed',
         \/ out' = out \cup {c}
         \/ out' = out \ {c} /\ a \in crossed'
  PROVE  Routes'
<1> USE ConstantsAssumption DEF TypeOK, Attach, Routes
<1>1. \A x \in Conns : x # c => st'[x] = st[x] /\ id'[x] = id[x] /\ addr'[x] = addr[x]
  OBVIOUS
<1>2. id'[c] = a /\ addr'[c] = a
  OBVIOUS
<1>3. SameName'
  <2>1. \A x \in Conns : id[x] = a => addr[x] = a
    BY DEF Tables, NamesOK
  <2> QED
    BY <1>1, <1>2, <2>1 DEF SameName
<1>4. Outbound'
  BY <1>1, <1>2 DEF Outbound
<1>5. IndexNames' /\ IndexHeld'
  <2>1. CASE closed
    <3>1. closed' /\ UNCHANGED tableVars
      BY <2>1 DEF closed
    <3> QED
      BY <3>1 DEF IndexNames, IndexHeld, tableVars
  <2>2. CASE ~closed
    <3>1. /\ peerMap' = [peerMap EXCEPT ![a] = c]
          /\ addressToPeerId' = [addressToPeerId EXCEPT ![a] = a]
      BY <2>2
    <3>2. IndexNames'
      BY <3>1 DEF IndexNames
    <3>3. IndexHeld'
      <4> SUFFICES ASSUME NEW b \in Addrs \ crossed, addressToPeerId'[b] \in Keys
                   PROVE  /\ peerMap'[addressToPeerId'[b]] # None
                          /\ addr'[peerMap'[addressToPeerId'[b]]] = b
        BY DEF IndexHeld
      <4>1. b # a /\ addressToPeerId'[b] = addressToPeerId[b]
        BY <3>1
      <4>2. addressToPeerId[b] # a /\ addressToPeerId[b] \in Names
        BY <4>1 DEF Names
      <4>3. peerMap'[addressToPeerId[b]] = peerMap[addressToPeerId[b]]
        BY <3>1, <4>2
      <4>4. /\ peerMap[addressToPeerId[b]] \in Conns \ {c}
            /\ addr[peerMap[addressToPeerId[b]]] = b
        BY <4>1, <4>2, <2>2 DEF IndexHeld, Spare, InMap
      <4> QED
        BY <4>1, <4>3, <4>4, <1>1
    <3> QED
      BY <3>2, <3>3
  <2> QED
    BY <2>1, <2>2
<1> QED
  BY <1>3, <1>4, <1>5

LEMMA RoutesHandshake ==
  ASSUME TypeOK, Tables, Routes, NEW c \in Conns, NEW k \in Keys, Handshake(c, k)
  PROVE  Routes'
<1> USE ConstantsAssumption DEF TypeOK, Routes
<1>1. /\ st[c] = "open" /\ k \in Names /\ k \notin Addrs /\ id[c] \in Names
      /\ UNCHANGED <<st, addr, out, closing>> /\ crossed \subseteq crossed'
      /\ id' = [id EXCEPT ![c] = k]
      /\ peerMap' = [peerMap EXCEPT ![id[c]] = None, ![k] = c]
      /\ addressToPeerId' = [addressToPeerId EXCEPT ![addr[c]] = k]
  BY DEF Handshake, Registered, lifeVars, Names
<1>2. ASSUME NEW x \in Conns, st[x] = "open", id[x] = k, addr[x] # addr[c]
      PROVE  {addr[c], addr[x]} \subseteq crossed'
  <2>1. x \in Namesakes(c, k)
    BY <1>2 DEF Namesakes
  <2> QED
    BY <2>1 DEF Handshake
<1>3. SameName'
  <2> SUFFICES ASSUME NEW x \in Conns, NEW y \in Conns, st[x] = "open", st[y] = "open",
                      id'[x] = id'[y], addr[x] # addr[y]
               PROVE  {addr[x], addr[y]} \subseteq crossed'
    BY <1>1 DEF SameName
  <2>1. CASE x = c \/ y = c
    BY <2>1, <1>1, <1>2
  <2>2. CASE x # c /\ y # c
    BY <2>2, <1>1 DEF SameName
  <2> QED
    BY <2>1, <2>2
<1>4. Outbound' /\ IndexNames'
  BY <1>1 DEF Outbound, IndexNames
<1>5. IndexHeld'
  <2> SUFFICES ASSUME ~closed, NEW a \in Addrs \ crossed', addressToPeerId'[a] \in Keys
               PROVE  /\ peerMap'[addressToPeerId'[a]] # None
                      /\ addr[peerMap'[addressToPeerId'[a]]] = a
    BY <1>1 DEF IndexHeld, closed
  <2>1. CASE a = addr[c]
    BY <2>1, <1>1
  <2>2. CASE a # addr[c]
    <3> DEFINE j == addressToPeerId[a]
               x == peerMap[j]
    <3>1. addressToPeerId'[a] = j /\ j \in Keys /\ j \in Names /\ j \notin Addrs
      BY <2>2, <1>1 DEF Names
    <3>2. x \in Conns /\ addr[x] = a
      BY <3>1, <1>1 DEF IndexHeld
    <3>3. id[x] = j /\ st[x] = "open"
      BY <3>1, <3>2 DEF Tables, TableLive
    <3>4. j # id[c]
      BY <3>2, <3>3, <2>2, <1>1 DEF SameName
    <3>5. j # k
      BY <3>2, <3>3, <2>2, <1>2
    <3>6. peerMap'[j] = x
      BY <3>1, <3>4, <3>5, <1>1
    <3> QED
      BY <3>1, <3>2, <3>6
  <2> QED
    BY <2>1, <2>2
<1> QED
  BY <1>3, <1>4, <1>5

LEMMA RoutesStep == TypeOK /\ Tables /\ Routes /\ [Next]_vars => Routes'
<1> SUFFICES ASSUME TypeOK, Tables, Routes, [Next]_vars PROVE Routes'
  OBVIOUS
<1> USE ConstantsAssumption
<1>0. ASSUME UNCHANGED <<id, addr, out, crossed, peerMap, addressToPeerId>>,
             closed => closed', \A c \in Conns : st'[c] = "open" => st[c] = "open"
      PROVE  Routes'
  <2>1. \A a \in Addrs : addressToPeerId'[a] \in {None, addressToPeerId[a]}
    BY <1>0
  <2> QED
    BY <1>0, <2>1, RoutesKept
<1>1. CASE StartBegins \/ StartEnds \/ CloseSocket \/ Close
  BY <1>0, <1>1 DEF StartBegins, StartEnds, CloseSocket, Close, connVars, tableVars,
                    history, closed
<1>2. CASE CloseClients
  <2>1. closed' /\ \A a \in Addrs : addressToPeerId'[a] = None
    BY <1>2 DEF CloseClients, closed
  <2>2. UNCHANGED <<st, id, addr, out, crossed>>
    BY <1>2 DEF CloseClients, history
  <2> QED
    BY <2>1, <2>2, RoutesKept
<1>3. ASSUME NEW a \in Addrs,
             ReconnectTimer(a) \/ DialFails(a) \/ ConnectPeer(a)
      PROVE  Routes'
  BY <1>0, <1>3 DEF ReconnectTimer, DialFails, ConnectPeer, connVars, tableVars,
                    lifeVars, history, closed
<1>4. ASSUME NEW a \in Addrs, DialDone(a) \/ ServerConnection(a) PROVE Routes'
  <2>1. PICK c \in Conns : /\ Spare(c) /\ Attach(c, a)
                           /\ \/ out' = out \cup {c}
                              \/ out' = out \ {c} /\ a \in crossed'
    BY <1>4 DEF DialDone, ServerConnection
  <2>2. UNCHANGED closing /\ crossed \subseteq crossed'
    BY <1>4 DEF DialDone, ServerConnection, lifeVars, history
  <2> QED
    BY <2>1, <2>2, RoutesAttach
<1>5. ASSUME NEW c \in Conns, NEW k \in Keys, Handshake(c, k) PROVE Routes'
  BY <1>5, RoutesHandshake
<1>6. ASSUME NEW c \in Conns, ConnectionDies(c) \/ TornDown(c) PROVE Routes'
  BY <1>0, <1>6 DEF ConnectionDies, TornDown, tableVars, lifeVars, history, closed, TypeOK
<1>7. ASSUME NEW c \in Conns, ReadLoopEnds(c) PROVE Routes'
  <2> DEFINE hit == IF closed THEN None ELSE Found(peerMap, addressToPeerId, id[c])
  <2>1. Hit(None) /\ id[c] \in Names
    BY DEF Hit, TypeOK
  <2>2. Hit(hit)
    BY <2>1, FoundHit
  <2>3. /\ peerMap' = Less(peerMap, hit)
        /\ addressToPeerId' = Unnamed(addressToPeerId, hit)
        /\ \A x \in Conns : st'[x] = "open" => st[x] = "open"
        /\ UNCHANGED <<id, addr, out, crossed, closing>>
    BY <1>7 DEF ReadLoopEnds, lifeVars, history
  <2> HIDE DEF hit
  <2>4. Less(peerMap, hit) = Less(Less(peerMap, hit), None)
        /\ Unnamed(addressToPeerId, hit) = Unnamed(Unnamed(addressToPeerId, hit), None)
    BY DEF Less, Unnamed
  <2> QED
    BY <2>1, <2>2, <2>3, <2>4, RoutesTearDown
<1>8. ASSUME NEW c \in Conns, WriteFails(c) PROVE Routes'
  <2> DEFINE hit == IF closed THEN None ELSE Found(peerMap, addressToPeerId, id[c])
  <2>1. Hit(None) /\ id[c] \in Names
    BY DEF Hit, TypeOK
  <2>2. Hit(hit)
    BY <2>1, FoundHit
  <2>3. TearDown(hit, None) /\ UNCHANGED <<id, addr, out, crossed, closing>>
    BY <1>8 DEF WriteFails, HandleClosed, lifeVars, history
  <2> HIDE DEF hit
  <2> QED
    BY <2>1, <2>2, <2>3, RoutesTearDown DEF TearDown
<1>9. ASSUME NEW c \in Conns, CloseChannel(c) PROVE Routes'
  <2>1. Hit(None) /\ Hit(c)
    BY <1>9 DEF CloseChannel, InMap, Hit, Tables, TableLive, TypeOK
  <2>2. TearDown(c, None) /\ UNCHANGED <<id, addr, out, crossed, closing>>
    BY <1>9 DEF CloseChannel, lifeVars, history
  <2> QED
    BY <2>1, <2>2, RoutesTearDown DEF TearDown
<1>10. ASSUME NEW c \in Conns, NEW e \in {"close", "stopped"}, LateEvent(c, e)
       PROVE Routes'
  <2> DEFINE first == IF closed THEN None ELSE Found(peerMap, addressToPeerId, addr[c])
             second == IF closed \/ st[c] = "none" THEN None
                       ELSE Found(Less(peerMap, first),
                                  Unnamed(addressToPeerId, first), id[c])
  <2>1. Hit(None) /\ id[c] \in Names /\ addr[c] \in Names
    BY DEF Hit, TypeOK, Names
  <2>2. Hit(first)
    BY <2>1, FoundHit
  <2>3. TearDown(first, second) /\ UNCHANGED <<id, addr, out, crossed, closing>>
    BY <1>10 DEF LateEvent, lifeVars, history
  <2> HIDE DEF first
  <2>4. Hit(second)
    BY <2>1, <2>2, FoundNext
  <2> HIDE DEF second
  <2> QED
    BY <2>2, <2>3, <2>4, RoutesTearDown DEF TearDown
<1>11. CASE UNCHANGED vars
  BY <1>0, <1>11 DEF vars, history, connVars, tableVars, lifeVars, closed
<1> QED
  BY <1>1, <1>2, <1>3, <1>4, <1>5, <1>6, <1>7, <1>8, <1>9, <1>10, <1>11 DEF Next

(* A dialled address is marked active or forgotten only while it is held.  *)
LEMMA DialsStep ==
  ASSUME TypeOK, Tables, ByeLast, Routes, Dials, [Next]_vars, ~closed', ~closed,
         NEW a \in Peers, a \notin crossed'
  PROVE  /\ dialer'[a] = "active" => Held(a)'
         /\ started' => a \in timer' \/ dials'[a] > 0 \/ Held(a)'
<1> USE ConstantsAssumption DEF TypeOK
<1> DEFINE Goal == /\ dialer'[a] = "active" => Held(a)'
                   /\ started' => a \in timer' \/ dials'[a] > 0 \/ Held(a)'
<1>x. a \notin crossed
  BY CrossedGrows
<1>a. /\ dialer[a] = "active" => Held(a)
      /\ started => a \in timer \/ dials[a] > 0 \/ Held(a)
  BY <1>x DEF Dials, ActiveHeld, NeverStranded
<1>b. Held(a) /\ ~Unheld(a) => Held(a)'
  BY <1>x, HeldStep
<1>0. ASSUME ~Unheld(a), dialer'[a] = "active" => dialer[a] = "active",
             started' => started, timer \subseteq timer', dials'[a] = dials[a]
      PROVE  Goal
  BY <1>0, <1>a, <1>b
<1>c. ASSUME NEW A, NEW T, Call(A, T), a \in A, socket
      PROVE  dials'[a] > 0 \/ dialer[a] = "active"
  BY <1>c DEF Call
<1>d. ASSUME NEW A, NEW T, Call(A, T) PROVE dialer'[a] = "active" => dialer[a] = "active"
  BY <1>d DEF Call
<1>e. ASSUME NEW A, NEW T, Call(A, T), a \notin A
      PROVE  dialer'[a] = dialer[a] /\ dials'[a] = dials[a] /\ (a \in T => a \in timer')
  BY <1>e DEF Call
<1>1. CASE StartBegins
  <2>1. ~Unheld(a)
    BY <1>1 DEF Unheld, StartBegins, TornDown, connVars
  <2> QED
    BY <2>1, <1>0, <1>1 DEF StartBegins, dialVars
<1>2. CASE StartEnds
  <2>1. ~Unheld(a) /\ socket /\ Call(Peers, timer)
    BY <1>2 DEF Unheld, StartEnds, TornDown, connVars, Dials, HasSocket
  <2> QED
    BY <2>1, <1>a, <1>b, <1>c, <1>d
<1>3. CASE CloseClients \/ CloseSocket \/ Close
  BY <1>3 DEF CloseClients, CloseSocket, Close, closed
<1>4. ASSUME NEW b \in Addrs, ReconnectTimer(b) \/ ConnectPeer(b),
             started => socket
      PROVE  Goal
  <2>1. PICK T \in {timer, timer \ {b}} : Call({b}, T)
    BY <1>4 DEF ReconnectTimer, ConnectPeer
  <2>2. ~Unheld(a) /\ started' = started
    BY <1>4 DEF Unheld, ReconnectTimer, ConnectPeer, TornDown, connVars, lifeVars
  <2>3. CASE a = b
    BY <2>1, <2>2, <2>3, <1>4, <1>a, <1>b, <1>c, <1>d
  <2>4. CASE a # b
    BY <2>1, <2>2, <2>4, <1>a, <1>b, <1>e
  <2> QED
    BY <2>3, <2>4
<1>5. ASSUME NEW b \in Addrs, DialDone(b) PROVE Goal
  <2>1. PICK c \in Conns : Spare(c) /\ Attach(c, b) /\ out' = out \cup {c}
    BY <1>5 DEF DialDone
  <2>2. ~Unheld(a)
    BY <2>1, <1>5 DEF Unheld, TornDown, Attach, Spare, DialDone
  <2>3. CASE b = a
    <3>1. st'[c] = "open" /\ addr'[c] = a /\ peerMap'[a] = c /\ a \in Names
      BY <2>1, <2>3 DEF Attach, Names
    <3> QED
      BY <3>1, <2>1 DEF Held, Linked, InMap
  <2>4. CASE b # a
    <3>1. dialer'[a] = dialer[a] /\ dials'[a] = dials[a] /\ timer' = timer /\ started' = started
      BY <1>5, <2>4 DEF DialDone, lifeVars
    <3> QED
      BY <3>1, <2>2, <1>0
  <2> QED
    BY <2>3, <2>4
<1>6. ASSUME NEW b \in Addrs, DialFails(b) PROVE Goal
  <2>1. ~Unheld(a) /\ started' = started
    BY <1>6 DEF Unheld, DialFails, TornDown, connVars, lifeVars
  <2>2. CASE a = b
    <3>1. a \in timer' /\ dialer'[a] # "active"
      BY <1>6, <2>2 DEF DialFails, Schedulable
    <3> QED
      BY <3>1
  <2>3. CASE a # b
    <3>1. dialer'[a] = dialer[a] /\ dials'[a] = dials[a] /\ timer \subseteq timer'
      BY <1>6, <2>3 DEF DialFails
    <3> QED
      BY <3>1, <2>1, <1>0
  <2> QED
    BY <2>2, <2>3
<1>7. ASSUME NEW b \in Addrs, ServerConnection(b) PROVE Goal
  <2>1. PICK c \in Conns : Spare(c) /\ Attach(c, b) /\ out' = out \ {c}
    BY <1>7 DEF ServerConnection
  <2>2. ~Unheld(a)
    BY <2>1, <1>7 DEF Unheld, TornDown, Attach, Spare, ServerConnection, dialVars, lifeVars, tableVars
  <2> QED
    BY <2>2, <1>7, <1>0 DEF ServerConnection, dialVars, lifeVars
<1>8. ASSUME NEW c \in Conns, NEW k \in Keys, Handshake(c, k) PROVE Goal
  <2>1. ~Unheld(a)
    BY <1>8 DEF Unheld, TornDown, Handshake
  <2>2. CASE addr[c] = a
    <3>1. Held(a)'
      BY <1>8, <2>2, HandshakeHolds
    <3> QED
      BY <3>1
  <2>3. CASE addr[c] # a
    <3>1. dialer'[a] = dialer[a] /\ dials' = dials /\ timer' = timer /\ started' = started
      BY <1>8, <2>3 DEF Handshake, lifeVars
    <3> QED
      BY <3>1, <2>1, <1>0
  <2> QED
    BY <2>2, <2>3
<1>9. ASSUME NEW c \in Conns, TornDown(c) PROVE Goal
  <2>1. /\ dialer' = AfterTearDown(c) /\ started' = started /\ dials' = dials
        /\ timer' = IF c \in out /\ c \notin bye /\ Schedulable(dialer'[addr[c]])
                    THEN timer \cup {addr[c]} ELSE timer
    BY <1>9 DEF TornDown, lifeVars
  <2>2. bye = {}
    BY DEF ByeLast
  <2>3. CASE c \in out /\ addr[c] = a
    <3>1. dialer'[a] = "idle"
      BY <2>1, <2>2, <2>3 DEF AfterTearDown
    <3>2. a \in timer'
      BY <3>1, <2>1, <2>2, <2>3 DEF Schedulable
    <3> QED
      BY <3>1, <3>2
  <2>4. CASE ~(c \in out /\ addr[c] = a)
    <3>1. dialer'[a] = dialer[a] /\ timer \subseteq timer'
      BY <2>1, <2>4 DEF AfterTearDown
    <3>2. ~Unheld(a)
      <4> SUFFICES ASSUME NEW d \in out, TornDown(d), addr[d] = a PROVE FALSE
        BY DEF Unheld
      <4>1. st[d] = "tearing" /\ st'[d] = "torn" /\ d # c
        BY <2>4 DEF TornDown
      <4>2. st'[d] = st[d]
        BY <4>1, <1>9 DEF TornDown
      <4> QED
        BY <4>1, <4>2
    <3> QED
      BY <3>1, <3>2, <2>1, <1>0
  <2> QED
    BY <2>3, <2>4
<1>10. ASSUME NEW c \in Conns,
              ConnectionDies(c) \/ ReadLoopEnds(c) \/ WriteFails(c)
              \/ (\E e \in {"close", "stopped"} : LateEvent(c, e))
       PROVE  Goal
  <2>1. UNCHANGED <<dialVars, lifeVars>>
    BY <1>10 DEF ConnectionDies, ReadLoopEnds, WriteFails, LateEvent
  <2>2. ~Unheld(a)
    <3> SUFFICES ASSUME NEW d \in out, TornDown(d) PROVE FALSE
      BY DEF Unheld
    <3>1. st[d] = "tearing" /\ st'[d] = "torn"
      BY DEF TornDown
    <3> QED
      BY <3>1, <1>10 DEF ConnectionDies, ReadLoopEnds, WriteFails, LateEvent,
                         HandleClosed, TearDown
  <2> QED
    BY <2>1, <2>2, <1>0 DEF dialVars, lifeVars
<1>11. ASSUME NEW c \in Conns, CloseChannel(c) PROVE Goal
  BY <1>11 DEF CloseChannel, closed
<1>12. CASE UNCHANGED vars
  <2>1. ~Unheld(a)
    BY <1>12 DEF vars, history, connVars, Unheld, TornDown
  <2> QED
    BY <2>1, <1>12, <1>0 DEF vars, history, dialVars, lifeVars
<1>13. started => socket
  BY DEF Dials, HasSocket
<1> QED
  BY <1>1, <1>2, <1>3, <1>4, <1>5, <1>6, <1>7, <1>8, <1>9, <1>10, <1>11,
     <1>12, <1>13 DEF Next

-----------------------------------------------------------------------------
(* The inductive invariant, without and with the dials.                    *)
IInv == TypeOK /\ Tables /\ ByeLast /\ ToldLive /\ ClosedStaysQuiet

LEMMA Inductive == Spec => []IInv
<1>1. Init => IInv
  <2> SUFFICES ASSUME Init PROVE IInv
    OBVIOUS
  <2> USE ConstantsAssumption DEF Init
  <2>1. addr \in [Conns -> Addrs] /\ Addrs \subseteq Names
    BY DEF Names
  <2>2. TypeOK
    BY <2>1 DEF TypeOK
  <2>3. Tables
    BY <2>1 DEF Tables, NamesOK, TableLive
  <2>4. ByeLast /\ ToldLive /\ ClosedStaysQuiet
    BY DEF ByeLast, ToldLive, ClosedStaysQuiet
  <2> QED
    BY <2>2, <2>3, <2>4 DEF IInv
<1>2. IInv /\ [Next]_vars => IInv'
  BY TypeStep, TablesStep, ByeStep, ToldStep, QuietStep DEF IInv
<1> QED
  BY <1>1, <1>2, PTL DEF Spec

(* The state variables of a channel, the tables, the dials and the life    *)
(* cycle keep their types.                                                 *)
THEOREM TypeCorrect == Spec => []TypeOK
BY Inductive, PTL DEF IInv

(* However double dials, handshakes and late listeners are interleaved, a  *)
(* name of the table leads to a channel of that name that is not being     *)
(* torn down (attachChannel, registerPeerPubkey, teardownChannel).         *)
THEOREM TablesAreLive == Spec => []TableLive
BY Inductive, PTL DEF IInv, Tables

(* A peer the handlers were told is connected has a channel, or a teardown *)
(* that will tell them (registerPeerPubkey, teardownChannel).              *)
THEOREM ToldPeersLive == Spec => []ToldLive
BY Inductive, PTL DEF IInv

(* After close no reconnect timer is ever armed again (close,              *)
(* scheduleReconnect).                                                     *)
THEOREM QuietAfterClose == Spec => []ClosedStaysQuiet
BY Inductive, PTL DEF IInv

(* Unless a node at its address dialled this one, or its channel shared a *)
(* pubkey with that of another address, each dialled address always has a  *)
(* channel, a dial or a timer (connectPeer, registerPeerPubkey,            *)
(* teardownChannel, scheduleReconnect).                                    *)
THEOREM PeersNeverStranded == Spec => []NeverStranded
<1>1. Init => Routes /\ Dials
  <2> SUFFICES ASSUME Init PROVE Routes /\ Dials
    OBVIOUS
  <2> USE ConstantsAssumption DEF Init
  <2>1. Routes
    BY DEF Routes, SameName, Outbound, IndexNames, IndexHeld, Names
  <2>2. Dials
    BY DEF Dials, HasSocket, ActiveHeld, NeverStranded
  <2> QED
    BY <2>1, <2>2
<1>2. IInv /\ Routes /\ Dials /\ [Next]_vars => (Routes /\ Dials)'
  <2> SUFFICES ASSUME IInv, Routes, Dials, [Next]_vars PROVE Routes' /\ Dials'
    OBVIOUS
  <2>1. Routes' /\ HasSocket'
    BY RoutesStep, SocketStep DEF IInv, Dials
  <2>2. ~closed' => ~closed
    BY QuietStep DEF IInv
  <2>3. ASSUME ~closed', NEW a \in Peers, a \notin crossed'
        PROVE  /\ dialer'[a] = "active" => Held(a)'
               /\ started' => a \in timer' \/ dials'[a] > 0 \/ Held(a)'
    BY <2>2, <2>3, DialsStep DEF IInv
  <2> QED
    BY <2>1, <2>3 DEF Dials, ActiveHeld, NeverStranded
<1>3. Dials => NeverStranded
  BY DEF Dials
<1> QED
  BY <1>1, <1>2, <1>3, Inductive, PTL DEF Spec
=============================================================================
