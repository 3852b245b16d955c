-------------------------- MODULE EventSync_proofs --------------------------
(***************************************************************************)
(* Proofs about EventSync, for every finite set of nodes, every overlay    *)
(* and every set of announcements: its types, that the nodes' logs         *)
(* implement EventReplication, and that no recorded reputation delta is    *)
(* out of force.  All follow from one inductive invariant, IInv:           *)
(*   TypeOK                                                                *)
(*   Backed   every event in flight is in the log of the node that sent it *)
(*   Stamped  a logged event has been created                              *)
(*   Kept     what the relays keep is in some node's log                   *)
(*   Durable  a node's store holds what its log holds                      *)
(*   DeltasApplied                                                         *)
(***************************************************************************)
EXTENDS EventSync, TLAPS, FiniteSetTheorems, SequenceTheorems

Carried(m) == IF m.kind = "announcement" THEN {m.event}
              ELSE IF m.kind = "response" THEN m.events ELSE {}

(* The messages a node with log E may have sent.                           *)
BackedBy(E) == {m \in Message : Carried(m) \subseteq E}

Channels(ch, L) ==
    /\ ch \in [Node -> [Node -> Seq(Message)]]
    /\ \A a, b \in Node : ch[a][b] \in Seq(BackedBy(L[a]))

Backed == Channels(chan, log)

Stamped == \A n \in Node : \A e \in log[n] : at[e] # 0

KeptIn(S, L) == \A e \in S : \E n \in Node : e \in L[n]
Kept == KeptIn(stored, log)

Durable == store = log /\ log = [n \in Node |-> log[n]]

-----------------------------------------------------------------------------
(* The channels of the model, operation by operation.                      *)

LEMMA ChannelsGrow ==
    ASSUME NEW ch, NEW L, NEW M, Channels(ch, L),
           \A a \in Node : L[a] \subseteq M[a]
    PROVE  Channels(ch, M)
<1>1. \A a \in Node : BackedBy(L[a]) \subseteq BackedBy(M[a])
  BY DEF BackedBy
<1>2. ASSUME NEW a \in Node, NEW b \in Node
      PROVE  ch[a][b] \in Seq(BackedBy(M[a]))
  BY <1>1, SeqMonotonic DEF Channels
<1> QED BY <1>2 DEF Channels

LEMMA ChannelsSent ==
    ASSUME NEW ch, NEW L, NEW n \in Node, NEW P, NEW m \in BackedBy(L[n]),
           Channels(ch, L)
    PROVE  Channels(SentTo(ch, n, P, m), L)
<1> DEFINE row == [p \in Node |->
                     IF p \in P THEN Append(ch[n][p], m) ELSE ch[n][p]]
<1>1. ASSUME NEW p \in Node
      PROVE  row[p] \in Seq(BackedBy(L[n])) /\ row[p] \in Seq(Message)
  <2>1. ch[n][p] \in Seq(BackedBy(L[n])) /\ ch[n][p] \in Seq(Message)
    BY DEF Channels
  <2>2. m \in Message
    BY DEF BackedBy
  <2>3. /\ Append(ch[n][p], m) \in Seq(BackedBy(L[n]))
        /\ Append(ch[n][p], m) \in Seq(Message)
    BY <2>1, <2>2, AppendProperties
  <2> QED BY <2>1, <2>3
<1>2. SentTo(ch, n, P, m) = [ch EXCEPT ![n] = row]
  BY DEF SentTo
<1>3. row \in [Node -> Seq(Message)]
  BY <1>1
<1> HIDE DEF row
<1> QED BY <1>1, <1>2, <1>3 DEF Channels

LEMMA ChannelsTaken ==
    ASSUME NEW L, NEW n \in Node, NEW p \in Node, chan[p][n] # <<>>,
           Channels(chan, L)
    PROVE  Channels(Taken(n, p), L)
<1>1. /\ Tail(chan[p][n]) \in Seq(BackedBy(L[p]))
      /\ Tail(chan[p][n]) \in Seq(Message)
  BY HeadTailProperties DEF Channels
<1> QED BY <1>1 DEF Channels, Taken

LEMMA HeadBacked ==
    ASSUME NEW L, NEW n \in Node, NEW p \in Node, chan[p][n] # <<>>,
           Channels(chan, L)
    PROVE  Head(chan[p][n]) \in BackedBy(L[p])
BY HeadTailProperties DEF Channels

LEMMA ChannelsBoth ==
    ASSUME NEW ch, NEW L, NEW a \in Node, NEW b \in Node,
           NEW s \in {<<>>, <<Handshake>>}, Channels(ch, L)
    PROVE  Channels(Both(a, b, ch, s), L)
<1>1. Handshake \in Message /\ Carried(Handshake) = {}
  BY DEF Handshake, Message, Carried
<1>2. ASSUME NEW S, Handshake \in S PROVE s \in Seq(S)
  <2>1. <<Handshake>> \in Seq(S) /\ <<>> \in Seq(S)
    BY <1>2
  <2> QED BY <2>1
<1>3. ASSUME NEW E PROVE s \in Seq(BackedBy(E)) /\ s \in Seq(Message)
  BY <1>1, <1>2 DEF BackedBy
<1> QED BY <1>3 DEF Channels, Both

LEMMA SeenType ==
    ASSUME TypeOK, NEW n \in Node, NEW p \in Node, NEW t \in 0..MaxClock
    PROVE  Seen(n, p, t) \in [Node -> [Node -> 0..MaxClock]]
<1>1. lastSeen \in [Node -> [Node -> 0..MaxClock]]
  BY DEF TypeOK
<1> QED BY <1>1 DEF Seen

(* What a received message of each kind holds.                             *)
LEMMA Received ==
    ASSUME TypeOK, Backed, NEW n \in Node, NEW p \in Node, chan[p][n] # <<>>,
           NEW m, m = Head(chan[p][n])
    PROVE  /\ m.kind = "announcement" =>
                  m.event \in Anns /\ m.event \in log[p]
           /\ m.kind = "reputation" => m.event \in Deltas
           /\ m.kind = "request" => m.since \in 0..MaxClock /\ m.at \in 0..MaxClock
           /\ m.kind = "response" =>
                  m.events \subseteq log[p] /\ m.at \in 0..MaxClock
<1>1. m \in Message /\ Carried(m) \subseteq log[p]
  BY HeadBacked DEF Backed, BackedBy
<1> QED BY <1>1 DEF Message, Carried

-----------------------------------------------------------------------------
(* Every step that writes a log writes the store, so a restart loses none. *)

LEMMA RecordedDurable ==
    ASSUME Durable, NEW n \in Node, NEW E, Recorded(n, E)
    PROVE  Durable'
BY DEF Recorded, Durable

LEMMA RestartKeeps ==
    ASSUME Durable, NEW n \in Node, Restart(n)
    PROVE  UNCHANGED <<log, store>>
BY DEF Restart, Durable

LEMMA DurableStep == Durable /\ [Next]_vars => Durable'
<1> SUFFICES ASSUME Durable, [Next]_vars PROVE Durable'
  OBVIOUS
<1>1. ASSUME UNCHANGED <<log, store>> PROVE Durable'
  BY <1>1 DEF Durable
<1>a. CASE \E n \in Node, e \in Anns : Publish(n, e)
  BY <1>a, RecordedDurable DEF Publish
<1>b. ASSUME NEW n \in Node, NEW p \in Node, Receive(n, p) PROVE Durable'
  <2>1. CASE \/ ReceiveAnnouncement(n, p)
             \/ ReceiveInvalid(n, p)
             \/ ReceiveResponse(n, p)
    <3>1. \E E : Recorded(n, E)
      BY <2>1 DEF ReceiveAnnouncement, ReceiveInvalid, ReceiveResponse
    <3> QED BY <3>1, RecordedDurable
  <2>2. CASE ReceiveHandshake(n, p) \/ ReceiveReputation(n, p) \/ ReceiveRequest(n, p)
    BY <1>1, <2>2 DEF ReceiveHandshake, ReceiveReputation, ReceiveRequest
  <2> QED BY <1>b, <2>1, <2>2 DEF Receive
<1>c. CASE \E n \in Node, e \in Events : RelayEvent(n, e)
  BY <1>1, <1>c, RecordedDurable DEF RelayEvent
<1>d. CASE \E n \in Node : Restart(n)
  BY <1>1, <1>d, RestartKeeps
<1>e. CASE \/ Tick
           \/ UNCHANGED vars
           \/ \E n, p \in Node : \/ SendInvalid(p, n)
                               \/ Link(n, p)
                               \/ Unlink(n, p)
                               \/ Relink(n, p)
                               \/ LateClose(n, p)
  <2>1. UNCHANGED <<log, store>>
    BY <1>e DEF Tick, vars, SendInvalid, Link, Unlink, Relink, LateClose
  <2> QED BY <1>1, <2>1
<1> QED BY <1>a, <1>b, <1>c, <1>d, <1>e DEF Next

-----------------------------------------------------------------------------
(* Every step keeps the types, the backing of the channels and the stamps. *)
Based == TypeOK /\ Backed /\ Stamped /\ Kept /\ Durable

LEMMA BasedInit == Init => Based
<1> SUFFICES ASSUME Init PROVE Based
  OBVIOUS
<1>1. ASSUME NEW S PROVE <<>> \in Seq(S)
  BY EmptySeq
<1>2. Backed
  BY <1>1 DEF Init, Backed, Channels
<1>3. TypeOK
  BY <1>1, ConstantsAssumption DEF Init, TypeOK
<1> QED BY <1>2, <1>3 DEF Init, Based, Stamped, Kept, KeptIn, Durable

(* A node's broadcast puts on the relays what its log has by then.         *)
LEMMA PublishedKept ==
    ASSUME NEW n \in Node, NEW e \in Events, NEW L, TypeOK, Kept,
           \A a \in Node : log[a] \subseteq L[a], e \in L[n]
    PROVE  Published(n, e) \in SUBSET Events /\ KeptIn(Published(n, e), L)
<1>1. Published(n, e) \in SUBSET Events
  BY DEF Published, TypeOK
<1>2. \A f \in stored : \E a \in Node : f \in L[a]
  BY DEF Kept, KeptIn
<1> QED BY <1>1, <1>2 DEF Published, KeptIn

LEMMA PublishBased ==
    ASSUME Based, NEW n \in Node, NEW e \in Anns, Publish(n, e), Durable'
    PROVE  Based'
<1> USE ConstantsAssumption DEF Based, Publish, Recorded, Durable
<1>1. /\ log' \in [Node -> SUBSET Events]
      /\ \A a \in Node : log[a] \subseteq log'[a]
      /\ e \in log'[n]
  BY DEF TypeOK, Events
<1>2. at' \in [Events -> 0..MaxClock] /\ at'[e] # 0
  BY DEF TypeOK, Events
<1>3. Channels(chan, log')
  BY <1>1, ChannelsGrow DEF Backed
<1>4. Announce(e) \in BackedBy(log'[n])
  BY <1>1 DEF Announce, BackedBy, Message, Carried
<1>5. Channels(chan', log')
  BY <1>3, <1>4, ChannelsSent
<1>0. stored' \in SUBSET Events /\ KeptIn(stored', log')
  <2>1. e \in Events
    BY DEF Events
  <2> HIDE ConstantsAssumption
  <2> QED BY <1>1, <2>1, PublishedKept
<1>6. TypeOK'
  BY <1>0, <1>1, <1>2, <1>5 DEF TypeOK, Channels
<1>7. Stamped'
  BY <1>2 DEF Stamped, TypeOK, Events
<1>8. Kept'
  BY <1>0 DEF Kept
<1> QED BY <1>5, <1>6, <1>7, <1>8 DEF Backed

LEMMA DeltasFinite == IsFiniteSet(Deltas)
<1>1. MaxDeltas \in Int /\ IsFiniteSet(Node)
  BY ConstantsAssumption
<1>2. IsFiniteSet(1..MaxDeltas)
  BY <1>1, FS_Interval
<1> QED BY <1>1, <1>2, FS_Product DEF Deltas

LEMMA ReceiveBased ==
    ASSUME Based, NEW n \in Node, NEW p \in Node, Receive(n, p), Durable'
    PROVE  Based'
<1> USE ConstantsAssumption
<1> DEFINE m == Head(chan[p][n])
<1>0. TypeOK /\ Backed /\ Stamped /\ Kept
  BY DEF Based
<1>1. chan[p][n] # <<>>
  BY DEF Receive, ReceiveHandshake, ReceiveAnnouncement, ReceiveInvalid,
         ReceiveReputation, ReceiveRequest, ReceiveResponse, Gets
<1>2. Channels(Taken(n, p), log)
  BY <1>0, <1>1, ChannelsTaken DEF Backed
<1>3. /\ Based' <=> TypeOK' /\ Channels(chan', log') /\ Stamped' /\ Kept'
      /\ store' = log'
  BY DEF Based, Backed, Durable
<1>4. ASSUME stored' = stored, \A a \in Node : log[a] \subseteq log'[a]
      PROVE  Kept'
  BY <1>0, <1>4 DEF Kept, KeptIn
<1>a. CASE ReceiveHandshake(n, p)
  <2>1. Request(lastSeen[n][p]) \in BackedBy(log[n])
    BY <1>0 DEF TypeOK, Request, BackedBy, Message, Carried
  <2>2. Channels(chan', log')
    BY <1>2, <2>1, <1>a, ChannelsSent DEF ReceiveHandshake
  <2>3. TypeOK' /\ Stamped' /\ Kept'
    BY <1>0, <1>3, <1>4, <2>2, <1>a DEF ReceiveHandshake, TypeOK, Channels, Stamped
  <2> QED BY <1>3, <2>2, <2>3
<1>b. CASE ReceiveAnnouncement(n, p)
  <2>1. m.event \in Anns /\ m.event \in log[p]
    BY <1>0, <1>1, <1>b, Received DEF ReceiveAnnouncement, Gets
  <2>2. /\ log' \in [Node -> SUBSET Events]
        /\ \A a \in Node : log[a] \subseteq log'[a]
        /\ m.event \in log'[n]
    BY <1>0, <1>b, <2>1 DEF ReceiveAnnouncement, Recorded, TypeOK, Events
  <2>3. Announce(m.event) \in BackedBy(log'[n])
    BY <2>1, <2>2 DEF Announce, BackedBy, Message, Carried
  <2>4. Channels(Taken(n, p), log')
    BY <1>2, <2>2, ChannelsGrow
  <2>5. Channels(chan', log')
    BY <2>3, <2>4, <1>b, ChannelsSent DEF ReceiveAnnouncement
  <2>6. lastSeen' \in [Node -> [Node -> 0..MaxClock]]
    BY <1>0, <1>b, <2>1, SeenType DEF ReceiveAnnouncement, TypeOK, Events
  <2>9. stored' \in SUBSET Events /\ Kept'
    <3>1. m.event \in Events /\ stored' = Published(n, m.event)
      BY <2>1, <1>b DEF Events, ReceiveAnnouncement
    <3> HIDE DEF m
    <3> QED BY <1>0, <2>2, <3>1, PublishedKept DEF Kept
  <2>7. TypeOK'
    BY <1>0, <1>3, <1>b, <2>2, <2>5, <2>6, <2>9 DEF ReceiveAnnouncement, TypeOK, Channels
  <2>8. Stamped'
    BY <1>0, <1>b, <2>1 DEF ReceiveAnnouncement, Recorded, Stamped, TypeOK
  <2> QED BY <1>3, <2>5, <2>7, <2>8, <2>9
<1>c. CASE ReceiveInvalid(n, p)
  <2>1. PICK i \in 1..MaxDeltas :
          /\ at' = [at EXCEPT ![<<n, i>>] = clock]
          /\ log' = [log EXCEPT ![n] = @ \cup {<<n, i>>}]
          /\ chan' = SentTo(Taken(n, p), n, Reached(n, n), RepDelta(<<n, i>>))
          /\ stored' = Published(n, <<n, i>>)
    BY <1>c DEF ReceiveInvalid, Recorded
  <2>2. <<n, i>> \in Deltas /\ <<n, i>> \in Events
    BY DEF Events, Deltas
  <2>3. /\ log' \in [Node -> SUBSET Events]
        /\ \A a \in Node : log[a] \subseteq log'[a]
    BY <1>0, <2>1, <2>2 DEF TypeOK
  <2>4. RepDelta(<<n, i>>) \in BackedBy(log'[n])
    BY <2>2 DEF RepDelta, BackedBy, Message, Carried
  <2>5. Channels(chan', log')
    BY <1>2, <2>1, <2>3, <2>4, ChannelsGrow, ChannelsSent
  <2>6. lastSeen' \in [Node -> [Node -> 0..MaxClock]]
    <3>1. clock \in 0..MaxClock
      BY <1>0 DEF TypeOK
    <3> QED BY <1>0, <1>c, <3>1, SeenType DEF ReceiveInvalid
  <2>7. penalty' \in [Node -> 0..MaxPenalty]
    BY <1>0, <1>c DEF ReceiveInvalid, TypeOK, Clamped
  <2>8. at' \in [Events -> 0..MaxClock]
    BY <1>0, <2>1, <2>2 DEF TypeOK
  <2>9. UNCHANGED <<clock, links, late, hidden, sessions, heard>>
    BY <1>c DEF ReceiveInvalid
  <2>12. stored' \in SUBSET Events /\ Kept'
    <3>1. <<n, i>> \in log'[n]
      BY <1>0, <2>1 DEF TypeOK
    <3> QED BY <1>0, <2>1, <2>2, <2>3, <3>1, PublishedKept DEF Kept
  <2>10. TypeOK'
    BY <1>0, <1>3, <2>3, <2>5, <2>6, <2>7, <2>8, <2>9, <2>12 DEF TypeOK, Channels
  <2>11. Stamped'
    <3>1. clock # 0 /\ at \in [Events -> 0..MaxClock]
      BY <1>0 DEF TypeOK
    <3>2. at'[<<n, i>>] # 0 /\ \A e \in Events : at[e] # 0 => at'[e] # 0
      BY <2>1, <2>2, <3>1
    <3>3. \A a \in Node : log'[a] \subseteq log[a] \cup {<<n, i>>}
      BY <1>0, <2>1 DEF TypeOK
    <3>4. \A a \in Node : log[a] \subseteq Events
      BY <1>0 DEF TypeOK
    <3> QED BY <1>0, <3>2, <3>3, <3>4 DEF Stamped
  <2> QED BY <1>3, <2>5, <2>10, <2>11, <2>12
<1>d. CASE ReceiveReputation(n, p)
  <2>1. m.kind = "reputation" /\ m.event \in Deltas
    BY <1>0, <1>1, <1>d, Received DEF ReceiveReputation, Gets
  <2>2. CreatedAt(m) \in 0..MaxClock
    BY <1>0, <2>1 DEF CreatedAt, TypeOK, Events
  <2>3. lastSeen' \in [Node -> [Node -> 0..MaxClock]]
    BY <1>0, <1>d, <2>2, SeenType DEF ReceiveReputation
  <2>4. Channels(chan', log')
    BY <1>2, <1>d DEF ReceiveReputation
  <2>5. TypeOK' /\ Stamped' /\ Kept'
    BY <1>0, <1>3, <1>4, <1>d, <2>3, <2>4 DEF ReceiveReputation, TypeOK, Channels, Stamped
  <2> QED BY <1>3, <2>4, <2>5
<1>e. CASE ReceiveRequest(n, p)
  <2>1. m.since \in 0..MaxClock /\ m.at \in 0..MaxClock
    BY <1>0, <1>1, <1>e, Received DEF ReceiveRequest, Gets
  <2>2. Response(Served(n, m.since)) \in BackedBy(log[n])
    BY <1>0 DEF Served, Response, BackedBy, Message, Carried, TypeOK
  <2>3. Channels(chan', log')
    BY <1>2, <2>2, <1>e, ChannelsSent DEF ReceiveRequest, Replied
  <2>4. lastSeen' \in [Node -> [Node -> 0..MaxClock]]
    BY <1>0, <1>e, <2>1, SeenType DEF ReceiveRequest
  <2>5. TypeOK' /\ Stamped' /\ Kept'
    BY <1>0, <1>3, <1>4, <1>e, <2>3, <2>4 DEF ReceiveRequest, TypeOK, Channels, Stamped
  <2> QED BY <1>3, <2>3, <2>5
<1>f. CASE ReceiveResponse(n, p)
  <2>1. m.events \subseteq log[p] /\ m.at \in 0..MaxClock
    BY <1>0, <1>1, <1>f, Received DEF ReceiveResponse, Gets
  <2>2. /\ log' \in [Node -> SUBSET Events]
        /\ \A a \in Node : log[a] \subseteq log'[a]
    BY <1>0, <1>f, <2>1 DEF ReceiveResponse, Recorded, TypeOK
  <2>3. Channels(chan', log')
    BY <1>2, <1>f, <2>2, ChannelsGrow DEF ReceiveResponse
  <2>4. lastSeen' \in [Node -> [Node -> 0..MaxClock]]
    BY <1>0, <1>f, <2>1, SeenType DEF ReceiveResponse
  <2>5. penalty' \in [Node -> 0..MaxPenalty]
    <3>1. IsFiniteSet(Deltas)
      BY DeltasFinite
    <3>2. m.events \cap Deltas \in SUBSET Deltas
      OBVIOUS
    <3>3. Cardinality(m.events \cap Deltas) \in Nat
      BY <3>1, <3>2, FS_Subset, FS_CardinalityType
    <3>4. Applied(n, m.events) \in 0..MaxPenalty
      BY <1>0, <3>3 DEF Applied, Clamped, TypeOK
    <3> QED BY <1>0, <1>f, <3>4 DEF ReceiveResponse, TypeOK
  <2>6. UNCHANGED <<at, clock, links, late, hidden, sessions, stored, heard>>
    BY <1>f DEF ReceiveResponse
  <2>7. TypeOK'
    BY <1>0, <1>3, <2>2, <2>3, <2>4, <2>5, <2>6 DEF TypeOK, Channels
  <2>8. Stamped'
    BY <1>0, <1>f, <2>1, <2>6 DEF ReceiveResponse, Recorded, Stamped, TypeOK
  <2>9. Kept'
    BY <1>4, <2>2, <2>6
  <2> QED BY <1>3, <2>3, <2>7, <2>8, <2>9
<1> QED BY <1>a, <1>b, <1>c, <1>d, <1>e, <1>f DEF Receive

(* Connections that come, go and are replaced empty the channels or start  *)
(* them with a handshake; the logs stay as they are.                       *)
LEMMA NetworkBased ==
    ASSUME Based, NEW a \in Node, NEW b \in Node,
           \/ SendInvalid(a, b)
           \/ Link(a, b)
           \/ Unlink(a, b)
           \/ Relink(a, b)
           \/ LateClose(a, b)
    PROVE  Based'
<1> USE ConstantsAssumption
<1>0. TypeOK /\ Channels(chan, log) /\ Stamped /\ Kept
  BY DEF Based, Backed
<1>1. UNCHANGED <<log, store, at, clock, penalty, stored, heard>>
  BY DEF SendInvalid, Link, Unlink, Relink, LateClose
<1>2. ASSUME Channels(chan', log), TypeOK' PROVE Based'
  BY <1>0, <1>1, <1>2 DEF Based, Backed, Stamped, Kept, KeptIn, Durable
<1>a. CASE SendInvalid(a, b)
  <2>1. Invalid \in BackedBy(log[a])
    BY DEF Invalid, BackedBy, Message, Carried
  <2>2. Channels(chan', log)
    BY <1>0, <2>1, <1>a, ChannelsSent DEF SendInvalid
  <2>3. TypeOK'
    BY <1>0, <1>a, <2>2 DEF SendInvalid, TypeOK, Channels
  <2> QED BY <1>2, <2>2, <2>3
<1>b. CASE Link(a, b)
  <2>1. Channels(chan', log)
    BY <1>0, <1>b, ChannelsBoth DEF Link
  <2>2. links' \subseteq Overlay /\ sessions' \in 0..MaxSessions
    <3>1. links \subseteq Overlay /\ sessions \in 0..MaxSessions
      BY <1>0 DEF TypeOK
    <3>2. /\ {a, b} \in Overlay /\ links' = links \cup {{a, b}}
          /\ sessions < MaxSessions /\ sessions' = sessions + 1
      BY <1>b DEF Link
    <3>3. links' \subseteq Overlay
      BY <3>1, <3>2, Zenon
    <3>4. sessions' \in 0..MaxSessions
      BY <3>1, <3>2
    <3> QED BY <3>3, <3>4
  <2>3. UNCHANGED <<lastSeen, late, hidden>>
    BY <1>b DEF Link
  <2>4. TypeOK'
    BY <1>0, <1>1, <2>1, <2>2, <2>3 DEF TypeOK, Channels
  <2> QED BY <1>2, <2>1, <2>4
<1>c. CASE Unlink(a, b)
  <2>1. Channels(chan', log)
    BY <1>0, <1>c, ChannelsBoth DEF Unlink
  <2>2. lastSeen' \in [Node -> [Node -> 0..MaxClock]]
    <3>1. lastSeen \in [Node -> [Node -> 0..MaxClock]] /\ 0 \in 0..MaxClock
      BY <1>0 DEF TypeOK
    <3>2. lastSeen' = Both(a, b, lastSeen, 0)
      BY <1>c DEF Unlink, Forgotten
    <3> HIDE ConstantsAssumption
    <3> QED BY <3>1, <3>2 DEF Both
  <2>3. /\ links' \subseteq Overlay /\ late' \subseteq Node \X Node
        /\ hidden' \subseteq Node \X Node /\ sessions' = sessions
    BY <1>0, <1>c DEF Unlink, TypeOK
  <2>4. TypeOK'
    BY <1>0, <1>1, <2>1, <2>2, <2>3 DEF TypeOK, Channels
  <2> QED BY <1>2, <2>1, <2>4
<1>d. CASE Relink(a, b)
  <2>1. Channels(chan', log)
    BY <1>0, <1>d, ChannelsBoth DEF Relink
  <2>2. lastSeen' \in [Node -> [Node -> 0..MaxClock]]
    <3>1. lastSeen \in [Node -> [Node -> 0..MaxClock]] /\ 0 \in 0..MaxClock
      BY <1>0 DEF TypeOK
    <3>2. lastSeen' = [lastSeen EXCEPT ![b][a] = 0]
      BY <1>d DEF Relink
    <3> QED BY <3>1, <3>2
  <2>3. late' \subseteq Node \X Node /\ hidden' \subseteq Node \X Node
    BY <1>0, <1>d DEF Relink, TypeOK
  <2>4. links' \subseteq Overlay /\ sessions' \in 0..MaxSessions
    BY <1>0, <1>d DEF Relink, TypeOK
  <2>5. TypeOK'
    BY <1>0, <1>1, <2>1, <2>2, <2>3, <2>4 DEF TypeOK, Channels
  <2> QED BY <1>2, <2>1, <2>5
<1>e. CASE LateClose(a, b)
  <2>1. Channels(chan', log)
    BY <1>0, <1>e DEF LateClose
  <2>2. lastSeen' \in [Node -> [Node -> 0..MaxClock]]
    BY <1>0, <1>e DEF LateClose, TypeOK
  <2>3. hidden' \subseteq Node \X Node
    BY <1>0, <1>e DEF LateClose, TypeOK
  <2>4. TypeOK'
    BY <1>0, <1>e, <2>1, <2>2, <2>3 DEF LateClose, TypeOK, Channels
  <2> QED BY <1>2, <2>1, <2>4
<1> QED BY <1>a, <1>b, <1>c, <1>d, <1>e

LEMMA RestartBased ==
    ASSUME Based, NEW n \in Node, Restart(n), Durable'
    PROVE  Based'
<1> USE ConstantsAssumption DEF Restart
<1>0. TypeOK /\ Channels(chan, log) /\ Stamped /\ Kept
  BY DEF Based, Backed
<1>10. log' = log /\ store' = log /\ store[n] = log[n]
  BY RestartKeeps DEF Based, Durable
<1>1. ASSUME NEW S PROVE <<>> \in Seq(S)
  BY EmptySeq
<1>2. Channels(chan', log)
  <2>1. chan' = [a \in Node |-> [b \in Node |->
                   IF n \in {a, b} THEN <<>> ELSE chan[a][b]]]
    OBVIOUS
  <2>2. ASSUME NEW a \in Node, NEW b \in Node
        PROVE  /\ chan'[a][b] \in Seq(Message)
               /\ chan'[a][b] \in Seq(BackedBy(log[a]))
    <3>1. chan'[a][b] \in {<<>>, chan[a][b]}
      BY <2>1
    <3>2. /\ chan[a][b] \in Seq(Message)
          /\ chan[a][b] \in Seq(BackedBy(log[a]))
      BY <1>0 DEF Channels
    <3> QED BY <1>1, <3>1, <3>2
  <2>3. chan' \in [Node -> [Node -> Seq(Message)]]
    BY <2>1, <2>2
  <2> QED BY <2>2, <2>3 DEF Channels
<1>3. Replay(log[n]) \in 0..MaxPenalty
  <2>1. log[n] \cap Deltas \in SUBSET Deltas
    OBVIOUS
  <2>2. Cardinality(log[n] \cap Deltas) \in Nat
    BY <2>1, DeltasFinite, FS_Subset, FS_CardinalityType
  <2> QED BY <2>2 DEF Replay, Clamped
<1>4. penalty' \in [Node -> 0..MaxPenalty]
  BY <1>0, <1>3, <1>10 DEF TypeOK
<1>5. lastSeen' \in [Node -> [Node -> 0..MaxClock]]
  BY <1>0 DEF TypeOK
<1>6. /\ links' \subseteq Overlay /\ late' \subseteq Node \X Node
      /\ hidden' \subseteq Node \X Node
  BY <1>0 DEF TypeOK
<1>7. UNCHANGED <<log, at, clock, stored>> /\ sessions' \in 0..MaxSessions
  BY <1>0, <1>10 DEF TypeOK
<1>9. heard' \in [Node -> SUBSET Events]
  BY <1>0 DEF TypeOK
<1> HIDE DEF Restart
<1>8. TypeOK'
  BY <1>0, <1>2, <1>4, <1>5, <1>6, <1>7, <1>9, <1>10 DEF TypeOK, Channels
<1> QED BY <1>0, <1>2, <1>7, <1>8 DEF Based, Backed, Stamped, Kept, KeptIn

(* An event off the relays is in some log, and its author is a node.       *)
LEMMA RelayBased ==
    ASSUME Based, NEW n \in Node, NEW e \in Events, RelayEvent(n, e), Durable'
    PROVE  Based'
<1> DEFINE p == AuthorOf(e)
<1>0. TypeOK /\ Channels(chan, log) /\ Stamped /\ Kept
  BY DEF Based, Backed
<1>1. p \in Node
  BY ConstantsAssumption DEF AuthorOf, Events, Deltas
<1>2. e \in stored /\ at[e] # 0
  BY <1>0 DEF RelayEvent, Kept, KeptIn, Stamped
<1>3. /\ lastSeen' = Seen(n, p, at[e])
      /\ heard' = [heard EXCEPT ![n] = @ \cup {e}]
      /\ UNCHANGED <<at, clock, penalty, links, late, hidden, sessions, stored>>
  BY DEF RelayEvent
<1>4. lastSeen' \in [Node -> [Node -> 0..MaxClock]]
  <2>1. at[e] \in 0..MaxClock
    BY <1>0 DEF TypeOK
  <2> HIDE DEF p
  <2> QED BY <1>0, <1>1, <1>3, <2>1, SeenType
<1>5. /\ log' \in [Node -> SUBSET Events]
      /\ \A a \in Node : log[a] \subseteq log'[a] /\ log'[a] \subseteq log[a] \cup {e}
      /\ e \in Anns => e \in log'[n]
  <2>1. CASE e \in Anns /\ log' = [log EXCEPT ![n] = @ \cup {e}]
    BY <1>0, <2>1 DEF TypeOK
  <2>2. CASE e \in Deltas /\ log' = log
    BY <1>0, <2>2, ConstantsAssumption DEF TypeOK, Deltas
  <2> QED BY <2>1, <2>2 DEF RelayEvent, Recorded
<1>6. Channels(chan, log')
  BY <1>0, <1>5, ChannelsGrow
<1>7. Channels(chan', log')
  <2>1. CASE e \in Anns /\ chan' = SentTo(chan, n, Forward(n, p, e), Announce(e))
    <3>1. Announce(e) \in BackedBy(log'[n])
      BY <1>5, <2>1 DEF Announce, BackedBy, Message, Carried
    <3> HIDE DEF p
    <3> QED BY <1>6, <2>1, <3>1, ChannelsSent
  <2>2. CASE chan' = chan
    BY <1>6, <2>2
  <2> QED BY <2>1, <2>2 DEF RelayEvent
<1>8. heard' \in [Node -> SUBSET Events]
  BY <1>0, <1>3 DEF TypeOK
<1>9. TypeOK'
  <2>1. chan' \in [Node -> [Node -> Seq(Message)]]
    BY <1>7 DEF Channels
  <2> HIDE DEF p
  <2>2. store' = log'
    BY DEF Durable
  <2> QED BY <1>0, <1>3, <1>4, <1>5, <1>8, <2>1, <2>2 DEF TypeOK
<1>10. Stamped'
  BY <1>0, <1>2, <1>3, <1>5 DEF Stamped
<1>11. Kept'
  BY <1>0, <1>3, <1>5 DEF Kept, KeptIn
<1> QED BY <1>7, <1>9, <1>10, <1>11 DEF Based, Backed

LEMMA BasedStep == Based /\ [Next]_vars => Based'
<1> SUFFICES ASSUME Based, [Next]_vars PROVE Based'
  OBVIOUS
<1>0. Durable'
  BY DurableStep DEF Based
<1>a. CASE \E n \in Node, e \in Anns : Publish(n, e)
  BY <1>0, <1>a, PublishBased
<1>b. CASE \E n, p \in Node : Receive(n, p)
  BY <1>0, <1>b, ReceiveBased
<1>c. CASE \E n, p \in Node : \/ SendInvalid(p, n)
                             \/ Link(n, p)
                             \/ Unlink(n, p)
                             \/ Relink(n, p)
                             \/ LateClose(n, p)
  BY <1>c, NetworkBased
<1>d. CASE \E n \in Node : Restart(n)
  BY <1>0, <1>d, RestartBased
<1>e. CASE Tick
  <2>1. /\ UNCHANGED <<log, store, at, penalty, netVars>>
        /\ clock < MaxClock /\ clock' = clock + 1
    BY <1>e DEF Tick
  <2>2. TypeOK'
    BY <2>1, ConstantsAssumption DEF netVars, Based, TypeOK
  <2>3. Backed' /\ Stamped' /\ Kept'
    BY <2>1 DEF netVars, Based, Backed, Channels, Stamped, Kept, KeptIn
  <2> QED BY <1>0, <2>2, <2>3 DEF Based
<1>f. CASE UNCHANGED vars
  BY <1>0, <1>f DEF vars, netVars, Based, TypeOK, Backed, Channels, Stamped, Kept, KeptIn
<1>g. CASE \E n \in Node, e \in Events : RelayEvent(n, e)
  BY <1>0, <1>g, RelayBased
<1> QED BY <1>a, <1>b, <1>c, <1>d, <1>e, <1>f, <1>g DEF Next

(* The model's variables keep their types.                                 *)
THEOREM TypeCorrect == Spec => []TypeOK
<1>1. Spec => []Based
  BY BasedInit, BasedStep, PTL DEF Spec
<1>2. Based => TypeOK
  BY DEF Based
<1> QED BY <1>1, <1>2, PTL

-----------------------------------------------------------------------------
(* No reputation delta is out of force.                                    *)

(* The number of deltas in a node's log.                                   *)
LEMMA DeltasCounted ==
    ASSUME NEW E
    PROVE  /\ IsFiniteSet(E \cap Deltas)
           /\ Cardinality(E \cap Deltas) \in Nat
<1>1. E \cap Deltas \in SUBSET Deltas
  OBVIOUS
<1> QED BY <1>1, DeltasFinite, FS_Subset, FS_CardinalityType

LEMMA ReplayType == ASSUME NEW E PROVE Replay(E) \in 0..MaxPenalty
BY DeltasCounted, ConstantsAssumption DEF Replay, Clamped

(* Adding k deltas to a log raises the replayed penalty by at most k.      *)
LEMMA ReplayAdds ==
    ASSUME NEW L, NEW E
    PROVE  Replay(L \cup E) <= Clamped(Replay(L) + Cardinality(E \cap Deltas))
<1> DEFINE x == Cardinality(L \cap Deltas)
           y == Cardinality(E \cap Deltas)
           z == Cardinality((L \cup E) \cap Deltas)
<1>1. x \in Nat /\ y \in Nat /\ z \in Nat
  BY DeltasCounted
<1>2. z <= x + y
  <2>1. (L \cup E) \cap Deltas = (L \cap Deltas) \cup (E \cap Deltas)
    OBVIOUS
  <2>2. Cardinality((L \cap Deltas) \cap (E \cap Deltas)) \in Nat
    <3>1. (L \cap Deltas) \cap (E \cap Deltas) = (L \cap E) \cap Deltas
      OBVIOUS
    <3> QED BY <3>1, DeltasCounted
  <2>3. z = x + y - Cardinality((L \cap Deltas) \cap (E \cap Deltas))
    BY <2>1, DeltasCounted, FS_Union
  <2> QED BY <1>1, <2>2, <2>3
<1>3. Replay(L) = Clamped(x) /\ Replay(L \cup E) = Clamped(z)
  BY DEF Replay
<1> HIDE DEF x, y, z
<1>4. Clamped(z) <= Clamped(Clamped(x) + y)
  BY <1>1, <1>2, ConstantsAssumption DEF Clamped
<1> QED BY <1>3, <1>4 DEF y

LEMMA ClampedMonotone ==
    ASSUME NEW j \in Nat, NEW k \in Nat, j <= k
    PROVE  Clamped(j) <= Clamped(k) /\ Clamped(k) \in 0..MaxPenalty
BY ConstantsAssumption DEF Clamped

LEMMA DeltasStep ==
    Based /\ DeltasApplied /\ [Next]_vars => DeltasApplied'
<1> SUFFICES ASSUME Based, DeltasApplied, [Next]_vars PROVE DeltasApplied'
  OBVIOUS
<1>0. TypeOK /\ Backed /\ Durable
  BY DEF Based
<1>1. /\ log \in [Node -> SUBSET Events]
      /\ penalty \in [Node -> 0..MaxPenalty]
      /\ \A n \in Node : penalty[n] >= Replay(log[n])
  BY <1>0 DEF TypeOK, DeltasApplied
(* A node whose penalty rises by the deltas its log gains.                 *)
<1>2. ASSUME NEW n \in Node, NEW E,
             log' = [log EXCEPT ![n] = @ \cup E],
             penalty' = [penalty EXCEPT ![n] =
                            Clamped(penalty[n] + Cardinality(E \cap Deltas))]
      PROVE  DeltasApplied'
  <2> DEFINE k == Cardinality(E \cap Deltas)
  <2>1. /\ k \in Nat /\ Replay(log[n]) \in Nat /\ penalty[n] \in Nat
        /\ Replay(log[n]) + k <= penalty[n] + k
    <3>1. k \in Nat
      BY DeltasCounted
    <3>2. Replay(log[n]) \in Nat /\ penalty[n] \in Nat
      BY <1>1, ReplayType, ConstantsAssumption
    <3> HIDE DEF k
    <3> QED BY <1>1, <3>1, <3>2
  <2>2. Replay(log[n] \cup E) <= Clamped(Replay(log[n]) + k)
    BY ReplayAdds
  <2>3. /\ Clamped(Replay(log[n]) + k) <= Clamped(penalty[n] + k)
        /\ Clamped(Replay(log[n]) + k) \in Nat
        /\ Clamped(penalty[n] + k) \in Nat
    <3> HIDE DEF k
    <3> QED BY <2>1, ConstantsAssumption DEF Clamped
  <2>4. Replay(log[n] \cup E) \in Nat
    BY ReplayType, ConstantsAssumption
  <2>5. penalty'[n] >= Replay(log'[n])
    <3>1. penalty'[n] = Clamped(penalty[n] + k) /\ log'[n] = log[n] \cup E
      BY <1>1, <1>2
    <3> HIDE DEF k
    <3> QED BY <2>2, <2>3, <2>4, <3>1
  <2>6. ASSUME NEW a \in Node, a # n
        PROVE  penalty'[a] = penalty[a] /\ log'[a] = log[a]
    BY <1>1, <1>2, <2>6
  <2>7. \A a \in Node : penalty'[a] >= Replay(log'[a])
    BY <1>1, <2>5, <2>6
  <2> QED BY <2>7 DEF DeltasApplied, Replay
(* A step that changes no reputation and no delta of a log.                *)
<1>3. ASSUME penalty' = penalty,
             \A n \in Node : log'[n] \cap Deltas = log[n] \cap Deltas
      PROVE  DeltasApplied'
  <2>1. \A n \in Node : Replay(log'[n]) = Replay(log[n])
    BY <1>3 DEF Replay
  <2>2. \A n \in Node : penalty'[n] >= Replay(log'[n])
    BY <1>1, <1>3, <2>1
  <2> QED BY <2>2 DEF DeltasApplied, Replay
<1>4. ASSUME UNCHANGED <<log, penalty>> PROVE DeltasApplied'
  BY <1>3, <1>4
<1>5. ASSUME NEW n \in Node, NEW e \in Anns, penalty' = penalty,
             log' = [log EXCEPT ![n] = @ \cup {e}]
      PROVE  DeltasApplied'
  <2>1. e \notin Deltas
    BY ConstantsAssumption DEF Deltas
  <2>2. \A a \in Node : log'[a] \cap Deltas = log[a] \cap Deltas
    BY <1>1, <1>5, <2>1
  <2> QED BY <1>3, <1>5, <2>2
<1>a. CASE \E n \in Node, e \in Anns : Publish(n, e)
  BY <1>a, <1>5 DEF Publish, Recorded
<1>e. CASE \E n \in Node, e \in Events : RelayEvent(n, e)
  BY <1>e, <1>4, <1>5 DEF RelayEvent, Recorded
<1>b. ASSUME NEW n \in Node, NEW p \in Node, Receive(n, p)
      PROVE  DeltasApplied'
  <2>1. CASE ReceiveAnnouncement(n, p)
    <3>1. Head(chan[p][n]).event \in Anns
      BY <1>0, <2>1, Received DEF ReceiveAnnouncement, Gets
    <3> QED BY <1>5, <2>1, <3>1 DEF ReceiveAnnouncement, Recorded
  <2>2. CASE ReceiveInvalid(n, p)
    <3>1. PICK i \in 1..MaxDeltas : log' = [log EXCEPT ![n] = @ \cup {<<n, i>>}]
      BY <2>2 DEF ReceiveInvalid, Recorded
    <3>2. {<<n, i>>} \cap Deltas = {<<n, i>>} /\ Cardinality({<<n, i>>}) = 1
      <4>1. <<n, i>> \in Deltas
        BY DEF Deltas
      <4>2. {<<n, i>>} \cap Deltas = {<<n, i>>}
        BY <4>1
      <4> QED BY <4>2, FS_Singleton
    <3>3. penalty' = [penalty EXCEPT ![n] =
                        Clamped(penalty[n] + Cardinality({<<n, i>>} \cap Deltas))]
      BY <1>1, <2>2, <3>2 DEF ReceiveInvalid
    <3> QED BY <1>2, <3>1, <3>3
  <2>3. CASE ReceiveResponse(n, p)
    <3>1. /\ log' = [log EXCEPT ![n] = @ \cup Head(chan[p][n]).events]
          /\ penalty' = [penalty EXCEPT ![n] = Clamped(penalty[n] +
                 Cardinality(Head(chan[p][n]).events \cap Deltas))]
      BY <1>1, <2>3 DEF ReceiveResponse, Recorded, Applied
    <3> QED BY <1>2, <3>1
  <2>4. CASE ReceiveHandshake(n, p) \/ ReceiveReputation(n, p) \/ ReceiveRequest(n, p)
    BY <1>4, <2>4 DEF ReceiveHandshake, ReceiveReputation, ReceiveRequest
  <2> QED BY <1>b, <2>1, <2>2, <2>3, <2>4 DEF Receive
<1>c. ASSUME NEW n \in Node, Restart(n) PROVE DeltasApplied'
  <2>1. log' = log /\ penalty' = [penalty EXCEPT ![n] = Replay(log[n])]
    BY <1>0, <1>c, RestartKeeps DEF Restart, Durable
  <2>2. penalty'[n] = Replay(log[n]) /\ Replay(log[n]) \in Int
    BY <1>1, <2>1, ReplayType, ConstantsAssumption
  <2>3. \A a \in Node : penalty'[a] >= Replay(log'[a])
    BY <1>1, <2>1, <2>2
  <2> QED BY <2>3 DEF DeltasApplied, Replay
<1>d. CASE \/ Tick
           \/ UNCHANGED vars
           \/ \E n, p \in Node : \/ SendInvalid(p, n)
                               \/ Link(n, p)
                               \/ Unlink(n, p)
                               \/ Relink(n, p)
                               \/ LateClose(n, p)
  BY <1>d, <1>4 DEF Tick, vars, SendInvalid, Link, Unlink, Relink, LateClose
<1> QED BY <1>a, <1>b, <1>c, <1>d, <1>e DEF Next

(* A reputation is never better than the one a restart computes from the   *)
(* log: no delta that was recorded is out of force.                        *)
THEOREM DeltasInForce == Spec => []DeltasApplied
<1>1. Init => Based /\ DeltasApplied
  <2>1. Cardinality({} \cap Deltas) = 0
    <3>1. {} \cap Deltas = {}
      OBVIOUS
    <3> QED BY <3>1, FS_EmptySet
  <2>2. Replay({}) = 0
    BY <2>1, ConstantsAssumption DEF Replay, Clamped
  <2>3. ASSUME Init PROVE DeltasApplied
    BY <2>2, <2>3 DEF Init, DeltasApplied
  <2> QED BY <2>3, BasedInit
<1>2. Based /\ DeltasApplied /\ [Next]_vars => (Based /\ DeltasApplied)'
  BY BasedStep, DeltasStep
<1> QED BY <1>1, <1>2, PTL DEF Spec

-----------------------------------------------------------------------------
(* The logs implement EventReplication.                                    *)

LEMMA LogStep == Based /\ [Next]_vars => [Replication!Next]_log
<1> SUFFICES ASSUME Based, [Next]_vars PROVE [Replication!Next]_log
  OBVIOUS
<1>0. TypeOK /\ Backed /\ Stamped /\ Kept /\ Durable
  BY DEF Based
<1>1. log \in [Node -> SUBSET Events]
  BY <1>0 DEF TypeOK
<1>2. \A n \in Node : log[n] \subseteq Replication!Known
  BY DEF Replication!Known
<1>3. ASSUME NEW n \in Node, NEW e \in Events, at[e] = 0,
             log' = [log EXCEPT ![n] = @ \cup {e}]
      PROVE  Replication!Next
  <2>1. e \notin Replication!Known
    BY <1>0, <1>3 DEF Stamped, Replication!Known
  <2> QED BY <1>3, <2>1 DEF Replication!Next, Replication!Publish
<1>4. ASSUME NEW n \in Node, NEW p \in Node, NEW E, E \subseteq log[p],
             log' = [log EXCEPT ![n] = @ \cup E]
      PROVE  Replication!Next
  <2>1. E \subseteq Replication!Known /\ E \in SUBSET Events
    BY <1>1, <1>2, <1>4
  <2> QED BY <1>4, <2>1 DEF Replication!Next, Replication!Learn
<1>a. CASE \E n \in Node, e \in Anns : Publish(n, e)
  BY <1>a, <1>3 DEF Publish, Recorded, Events
<1>d. ASSUME NEW n \in Node, NEW e \in Events, RelayEvent(n, e)
      PROVE  [Replication!Next]_log
  <2>1. PICK p \in Node : {e} \subseteq log[p]
    BY <1>0, <1>d DEF RelayEvent, Kept, KeptIn
  <2>2. log' = log \/ log' = [log EXCEPT ![n] = @ \cup {e}]
    BY <1>d DEF RelayEvent, Recorded
  <2>3. CASE log' = log
    BY <2>3
  <2>4. CASE log' = [log EXCEPT ![n] = @ \cup {e}]
    BY <1>4, <2>1, <2>4
  <2> QED BY <2>2, <2>3, <2>4
<1>b. ASSUME NEW n \in Node, NEW p \in Node, Receive(n, p)
      PROVE  [Replication!Next]_log
  <2>1. CASE ReceiveAnnouncement(n, p)
    <3>1. {Head(chan[p][n]).event} \subseteq log[p]
      BY <1>0, <2>1, Received DEF ReceiveAnnouncement, Gets
    <3>2. log' = [log EXCEPT ![n] = @ \cup {Head(chan[p][n]).event}]
      BY <2>1 DEF ReceiveAnnouncement, Recorded
    <3> QED BY <1>4, <3>1, <3>2
  <2>2. CASE ReceiveInvalid(n, p)
    <3>1. PICK i \in 1..MaxDeltas :
            at[<<n, i>>] = 0 /\ log' = [log EXCEPT ![n] = @ \cup {<<n, i>>}]
      BY <2>2 DEF ReceiveInvalid, Recorded
    <3>2. <<n, i>> \in Events
      BY DEF Events, Deltas
    <3> QED BY <1>3, <3>1, <3>2
  <2>3. CASE ReceiveResponse(n, p)
    <3>1. Head(chan[p][n]).events \subseteq log[p]
      BY <1>0, <2>3, Received DEF ReceiveResponse, Gets
    <3>2. log' = [log EXCEPT ![n] = @ \cup Head(chan[p][n]).events]
      BY <1>1, <2>3 DEF ReceiveResponse, Recorded
    <3> QED BY <1>4, <3>1, <3>2
  <2>4. CASE ReceiveHandshake(n, p) \/ ReceiveReputation(n, p) \/ ReceiveRequest(n, p)
    BY <2>4 DEF ReceiveHandshake, ReceiveReputation, ReceiveRequest
  <2> QED BY <1>b, <2>1, <2>2, <2>3, <2>4 DEF Receive
<1>c. CASE \/ Tick
           \/ UNCHANGED vars
           \/ \E n, p \in Node : \/ SendInvalid(p, n)
                               \/ Link(n, p)
                               \/ Unlink(n, p)
                               \/ Relink(n, p)
                               \/ LateClose(n, p)
  BY <1>c DEF Tick, vars, SendInvalid, Link, Unlink, Relink, LateClose
<1>e. CASE \E n \in Node : Restart(n)
  BY <1>0, <1>e, RestartKeeps
<1> QED BY <1>a, <1>b, <1>c, <1>d, <1>e DEF Next

(* What the nodes do to their logs is what EventReplication allows: an     *)
(* event enters the network once, by being published, every other log      *)
(* gets it from a log that has it, and no log ever loses one.              *)
THEOREM LogsImplementReplication == Spec => LogsReplicate
<1>1. Init => Replication!Init
  BY DEF Init, Replication!Init
<1> QED BY <1>1, BasedInit, BasedStep, LogStep, PTL
        DEF Spec, LogsReplicate, Replication!Spec
=============================================================================
