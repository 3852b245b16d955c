----------------------------- MODULE Simulation -----------------------------
(***************************************************************************)
(* The simulator (src/src/sim/): nodes with an inbox and a propagator      *)
(* (src/src/core/propagation/propagator.ts) that hand announcements on to  *)
(* their neighbours while nodes go offline and come back.                  *)
(*                                                                         *)
(* A run is one thread: a round takes churn first, then each online node   *)
(* in turn drains its inbox and scans its notes.  A step is one iteration  *)
(* of one of these loops.  What the walk's probability says of a note is a *)
(* choice, except that in the round a note is born it is zero for any node *)
(* but the source.  Metrics, pieces and the scenario files are left out.   *)
(***************************************************************************)
EXTENDS NoteTable, NeighbourState, FiniteSets

CONSTANTS
    N,          \* nodes, indexed 1..N as in the graph
    Nbrs,       \* graph.getNeighbors
    Publisher,  \* announcement -> node
    Distrusts,  \* the publishers whose reputation at a node is below -0.5
    MaxAge,     \* maxAgeRounds (600 in the code)
    MaxRound,   \* tickCount
    MaxChurn    \* bound: nodes that go offline

Nodes == 1..N

ASSUME SimulationAssumption ==
    /\ N \in Nat \ {0} /\ Sources = Nodes
    /\ Nbrs \in [Nodes -> SUBSET Nodes]
    /\ Publisher \in [Ids -> Nodes]
    /\ Distrusts \in [Nodes -> SUBSET Nodes]
    /\ MaxAge \in Nat \ {0} /\ MaxRound \in Nat /\ MaxChurn \in Nat

VARIABLES
    online,
    away,           \* nodes with offlineSince set
    inbox,          \* envelopes in order of arrival
    announcements,  \* SimNode.announcements: what a node could hand on
    table,          \* the propagator's notes of each node
    neighbours,     \* neighbourState of each node
    delivered,      \* metrics: pairs of node and announcement
    history,        \* announcements published, in order
    round, at, phase, i,  \* place in the loops of run and tick
    seen,           \* history: ids examined in this scan
    churned

loopVars == <<round, at, phase, i, seen>>
vars == <<online, away, inbox, announcements, table, neighbours, delivered, history,
          loopVars, churned>>

Init ==
    /\ online = Nodes /\ away = {}
    /\ inbox = [n \in Nodes |-> <<>>]
    /\ announcements = [n \in Nodes |-> {}]
    /\ table = [n \in Nodes |-> Empty]
    /\ neighbours = [n \in Nodes |-> NoNeighbours]
    /\ delivered = {} /\ history = <<>>
    /\ round = 0 /\ at = 1 /\ phase = "between" /\ i = 1 /\ seen = {}
    /\ churned = 0

Published == {history[j] : j \in DOMAIN history}

-----------------------------------------------------------------------------
(* enqueueFrom: the inbox of an offline node drops what it is sent.        *)
EnqueueFrom(n, env) ==
    IF n \in online THEN [inbox EXCEPT ![n] = Append(@, env)] ELSE inbox

(* publishAnnouncement, between two rounds.                                *)
Publish(k) ==
    /\ phase = "between" /\ k \notin Published
    /\ history' = Append(history, k)
    /\ inbox' = EnqueueFrom(Publisher[k], [from |-> Publisher[k], key |-> k])
    /\ UNCHANGED <<online, away, announcements, table, neighbours, delivered, loopVars, churned>>

(* triggerDeltaCatchup: the whole history, from the publishers.            *)
CatchUpBug == <<>>
CatchUp == [j \in DOMAIN history |-> [from |-> Publisher[history[j]], key |-> history[j]]]

(* setOnline(false) notes when a node that was online went away.           *)
Leaving(down) == down \cap online

(* A round begins: those in down go offline, then those in up come online  *)
(* and catch up if they had been away.                                     *)
BeginRound(down, up) ==
    LET left == away \cup Leaving(down) IN
    /\ phase = "between" /\ round < MaxRound
    /\ churned + Cardinality(down) <= MaxChurn
    /\ churned' = churned + Cardinality(down)
    /\ online' = (online \ down) \cup up
    /\ away' = left \ up
    /\ inbox' = [n \in Nodes |-> IF n \in up \cap left THEN inbox[n] \o CatchUp
                                 ELSE inbox[n]]
    /\ round' = round + 1 /\ at' = 1 /\ phase' = "drain"
    /\ UNCHANGED <<announcements, table, neighbours, delivered, history, i, seen>>

(* Where the loop over the nodes goes after node n.                        *)
NextNode(n) ==
    /\ at' = IF n = N THEN 1 ELSE n + 1
    /\ phase' = IF n = N THEN "between" ELSE "drain"
    /\ i' = 1 /\ seen' = {}

SkipOffline ==
    /\ phase = "drain" /\ at \notin online
    /\ NextNode(at)
    /\ UNCHANGED <<online, away, inbox, announcements, table, neighbours, delivered,
                   history, round, churned>>

(* processMessage and receiveAnnouncement for the first envelope of the    *)
(* drained inbox.                                                          *)
Heard(n, env) == AddNote(table[n], env.key, env.from, round)

(* Whoever hands an announcement on is taken to hold a replica.            *)
Noted(n, env) ==
    UpdateReplica(RecordInbound(neighbours[n], env.key, env.from), env.key, env.from, TRUE)

Receive ==
    /\ phase = "drain" /\ at \in online /\ inbox[at] # <<>>
    /\ LET env == Head(inbox[at]) IN
        IF Publisher[env.key] \in Distrusts[at]
        THEN UNCHANGED <<announcements, table, neighbours, delivered>>
        ELSE /\ announcements' = [announcements EXCEPT ![at] = @ \cup {env.key}]
             /\ table' = [table EXCEPT ![at] = Heard(at, env)]
             /\ neighbours' = [neighbours EXCEPT ![at] = Noted(at, env)]
             /\ delivered' = delivered \cup {<<at, env.key>>}
    /\ inbox' = [inbox EXCEPT ![at] = Tail(@)]
    /\ UNCHANGED <<online, away, history, loopVars, churned>>

Drained ==
    /\ phase = "drain" /\ at \in online /\ inbox[at] = <<>>
    /\ phase' = "prune" /\ i' = 1
    /\ UNCHANGED <<online, away, inbox, announcements, table, neighbours, delivered,
                   history, round, at, seen, churned>>

-----------------------------------------------------------------------------
(* tick: pruneExpired, then the scan; a removal refills place i.           *)
Old(note) == round - note.born > MaxAge

Prune ==
    /\ phase = "prune"
    /\ IF i > Len(table[at].notes)
       THEN phase' = "scan" /\ i' = 1 /\ UNCHANGED table
       ELSE IF Old(table[at].notes[i])
       THEN table' = [table EXCEPT ![at] = RemoveAt(@, i)] /\ UNCHANGED <<phase, i>>
       ELSE i' = i + 1 /\ UNCHANGED <<phase, table>>
    /\ UNCHANGED <<online, away, inbox, announcements, neighbours, delivered,
                   history, round, at, seen, churned>>

Keep ==
    /\ phase = "scan" /\ i <= Len(table[at].notes)
    /\ i' = i + 1
    /\ seen' = seen \cup {table[at].notes[i].id}
    /\ UNCHANGED <<online, away, inbox, announcements, table, neighbours, delivered,
                   history, round, at, phase, churned>>

(* The handler: forwardFetchedAnnouncement sends to the online neighbours  *)
(* and notes to whom.                                                      *)
TargetsBug(n) == Nbrs[n] \ {n}
Targets(n) == (Nbrs[n] \cap online) \ {n}

Forward(n, k) ==
    LET env == [from |-> n, key |-> k]
    IN [m \in Nodes |-> IF m \in Targets(n) THEN EnqueueFrom(m, env)[m] ELSE inbox[m]]

(* The neighbour state of n when the nodes of Targets(n) have been noted   *)
(* one after the other.                                                    *)
Sent(n, k) ==
    LET noted[T \in SUBSET Targets(n)] ==
            IF T = {} THEN neighbours[n]
            ELSE LET m == CHOOSE m \in T : TRUE
                 IN RecordOutbound(noted[T \ {m}], k, m)
    IN noted[Targets(n)]

AfterFetchBug == i + 1
AfterFetch == i

Fetch ==
    LET note == table[at].notes[i]
        known == note.id \in announcements[at] /\ Publisher[note.id] \notin Distrusts[at]
    IN /\ phase = "scan" /\ i <= Len(table[at].notes)
       /\ note.born = round => note.src = at
       /\ table' = [table EXCEPT ![at] = Fetched(@, i)]
       /\ seen' = seen \cup {note.id}
       /\ i' = AfterFetch
       /\ inbox' = IF known THEN Forward(at, note.id) ELSE inbox
       /\ neighbours' = IF known THEN [neighbours EXCEPT ![at] = Sent(at, note.id)]
                        ELSE neighbours
       /\ announcements' = IF known
                           THEN [announcements EXCEPT ![at] = @ \ {note.id}]
                           ELSE announcements
       /\ UNCHANGED <<online, away, delivered, history, round, at, phase, churned>>

TickEnds ==
    /\ phase = "scan" /\ i > Len(table[at].notes)
    /\ NextNode(at)
    /\ UNCHANGED <<online, away, inbox, announcements, table, neighbours, delivered,
                   history, round, churned>>

Next ==
    \/ \E k \in Ids : Publish(k)
    \/ \E down, up \in SUBSET Nodes : BeginRound(down, up)
    \/ SkipOffline \/ Receive \/ Drained \/ Prune \/ Keep \/ Fetch \/ TickEnds

Spec == Init /\ [][Next]_vars

-----------------------------------------------------------------------------
TypeOK ==
    /\ online \subseteq Nodes /\ away \subseteq Nodes
    /\ inbox \in [Nodes -> Seq([from: Nodes, key: Ids])]
    /\ announcements \in [Nodes -> SUBSET Ids]
    /\ table = [n \in Nodes |-> table[n]] /\ \A n \in Nodes : IsTable(table[n])
    /\ delivered \subseteq Nodes \X Ids
    /\ history \in Seq(Ids)
    /\ round \in Nat /\ at \in Nodes
    /\ phase \in {"between", "drain", "prune", "scan"}
    /\ i \in Nat \ {0} /\ seen \subseteq Ids /\ churned \in Nat

(* The position map of every propagator is the inverse of its array, after *)
(* any order of additions, expiries, fetches and evictions at the limit.   *)
TablesConsistent == \A n \in Nodes : Consistent(table[n])

(* A scan that removes notes as it goes examines each note exactly once.   *)
ExaminedOnce ==
    phase = "scan" =>
        \A j \in 1..Len(table[at].notes) : j < i <=> table[at].notes[j].id \in seen

(* The two ends agree on what was handed on: what a node notes as sent to  *)
(* a neighbour is in that neighbour's inbox or noted there as received     *)
(* from the node, though the neighbour may go away in between; and whom a  *)
(* node takes to hold a replica has published or received the              *)
(* announcement (forwardFetchedAnnouncement, receiveAnnouncement).         *)
NeighboursAgree ==
    \A n, m \in Nodes : \A k \in Ids :
        /\ <<k, m>> \in neighbours[n].outbound =>
              \/ Publisher[k] \in Distrusts[m]
              \/ <<k, n>> \in neighbours[m].inbound
              \/ \E j \in DOMAIN inbox[m] : inbox[m][j] = [from |-> n, key |-> k]
        /\ <<k, m>> \in neighbours[n].replicas =>
              m = Publisher[k] \/ <<m, k>> \in delivered

(* What a node has fetched while it trusts the publisher, each neighbour   *)
(* that is online has got or will find in its inbox, whoever was away when *)
(* it was handed on: delta catch-up closes the gap.                        *)
NoGap ==
    \A n \in Nodes : \A k \in table[n].fetched : \A m \in Nbrs[n] \cap online :
        \/ m = n \/ Publisher[k] \in Distrusts[m]
        \/ <<m, k>> \in delivered
        \/ \E j \in DOMAIN inbox[m] : inbox[m][j].key = k
=============================================================================
