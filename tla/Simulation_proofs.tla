-------------------------- MODULE Simulation_proofs --------------------------
(***************************************************************************)
(* Proofs about NoteTable and Simulation, for every graph, limit and       *)
(* schedule of churn.  First what each method does to a consistent table;  *)
(* then the invariants of the simulation, which need besides               *)
(*   Backlog  a note in a table can be handed on                           *)
(*   Absent   a node that is offline has its absence noted                 *)
(*   Unseen   a node's scan begins with nothing examined                   *)
(*   Truthful what a node knows it has received, and what it is sent comes *)
(*            from the publisher or from a node that has received it       *)
(***************************************************************************)
EXTENDS Simulation, FiniteSetTheorems, SequenceTheorems, TLAPS

Table(t) == IsTable(t) /\ Indexed(t)
Active(t) == DOMAIN t.positions

-----------------------------------------------------------------------------
LEMMA EmptyTable == Table(Empty)
BY MaxActiveAssumption DEF Table, Empty, IsTable, Indexed

(* An active id is found at its position, and nowhere else.                *)
LEMMA IdsDistinct ==
  ASSUME NEW t, Table(t), NEW p \in 1..Len(t.notes), NEW j \in 1..Len(t.notes),
         t.notes[p].id = t.notes[j].id
  PROVE  p = j
BY DEF Table, Indexed

(* The last note takes the place of the one that is removed.               *)
LEMMA RemoveAtNotes ==
  ASSUME NEW t, Table(t), NEW p \in 1..Len(t.notes)
  PROVE  LET s == RemoveAt(t, p) IN
         /\ s.notes \in Seq(Notes) /\ Len(s.notes) = Len(t.notes) - 1
         /\ \A j \in 1..Len(s.notes) :
               s.notes[j] = IF j = p THEN t.notes[Len(t.notes)] ELSE t.notes[j]
         /\ Active(s) = Active(t) \ {t.notes[p].id}
         /\ \A x \in Active(s) :
               s.positions[x] = IF x = t.notes[Len(t.notes)].id THEN p ELSE t.positions[x]
         /\ s.fetched = t.fetched
         /\ s = [notes |-> s.notes, positions |-> s.positions, fetched |-> s.fetched]
<1> DEFINE s == RemoveAt(t, p)
           last == Len(t.notes)
           swapped == [t.notes EXCEPT ![p] = t.notes[last]]
           places == [x \in DOMAIN t.positions \ {t.notes[p].id} |->
                         IF x = t.notes[last].id THEN p ELSE t.positions[x]]
<1>1. last \in Nat /\ last >= 1 /\ p \in Nat /\ t.notes \in Seq(Notes)
  BY DEF Table, IsTable
<1>2. swapped \in Seq(Notes) /\ Len(swapped) = last
  <2>1. t.notes[last] \in Notes
    BY <1>1
  <2> QED
    BY <1>1, <2>1
<1>3. s = [notes |-> SubSeq(swapped, 1, last - 1), positions |-> places, fetched |-> t.fetched]
  <2>1. s = [t EXCEPT !.notes = SubSeq(swapped, 1, last - 1), !.positions = places]
    BY Zenon DEF RemoveAt
  <2>2. t = [notes |-> t.notes, positions |-> t.positions, fetched |-> t.fetched]
    BY DEF Table, IsTable
  <2> HIDE DEF s, swapped, places, last
  <2> QED
    BY <2>1, <2>2
<1>4. /\ SubSeq(swapped, 1, last - 1) \in Seq(Notes)
      /\ Len(SubSeq(swapped, 1, last - 1)) = last - 1
      /\ \A j \in 1..(last - 1) : SubSeq(swapped, 1, last - 1)[j] = swapped[j]
  BY <1>1, <1>2
<1>5. \A j \in 1..(last - 1) : swapped[j] = IF j = p THEN t.notes[last] ELSE t.notes[j]
  BY <1>1
<1> HIDE DEF s, swapped
<1> QED
  BY <1>1, <1>3, <1>4, <1>5 DEF s, Active

LEMMA RemoveAtTable ==
  ASSUME NEW t, Table(t), NEW p \in 1..Len(t.notes)
  PROVE  Table(RemoveAt(t, p))
<1> DEFINE s == RemoveAt(t, p)
           last == Len(t.notes)
<1>1. /\ s.notes \in Seq(Notes) /\ Len(s.notes) = last - 1
      /\ \A j \in 1..Len(s.notes) :
            s.notes[j] = IF j = p THEN t.notes[last] ELSE t.notes[j]
      /\ Active(s) = Active(t) \ {t.notes[p].id}
      /\ \A x \in Active(s) :
            s.positions[x] = IF x = t.notes[last].id THEN p ELSE t.positions[x]
      /\ s.fetched = t.fetched
      /\ s = [notes |-> s.notes, positions |-> s.positions, fetched |-> s.fetched]
  BY RemoveAtNotes
<1>a. s.positions = [x \in Active(s) |-> s.positions[x]]
  BY DEF Active, RemoveAt, Table, IsTable
<1> HIDE DEF s
<1>2. last \in Nat /\ last >= 1 /\ last \in 1..last /\ t.notes \in Seq(Notes)
  BY DEF Table, IsTable
<1>3. IsTable(s)
  <2>1. \A x \in Active(s) : s.positions[x] \in Nat \ {0}
    BY <1>1, <1>2 DEF Table, IsTable, Active
  <2> QED
    BY <1>1, <1>a, <2>1 DEF Table, IsTable, Active
<1>4. ASSUME NEW j \in 1..Len(s.notes)
      PROVE  s.notes[j].id \in Active(s) /\ s.positions[s.notes[j].id] = j
  <2>1. j \in 1..last /\ j # last
    BY <1>1, <1>2
  <2>2. CASE j = p
    <3>1. s.notes[j] = t.notes[last] /\ t.notes[last].id # t.notes[p].id
      BY <1>1, <1>2, <2>1, <2>2, IdsDistinct
    <3>2. t.notes[last].id \in Active(t)
      BY <1>2 DEF Table, Indexed, Active
    <3> QED
      BY <1>1, <2>2, <3>1, <3>2
  <2>3. CASE j # p
    <3>1. s.notes[j] = t.notes[j]
      BY <1>1, <2>3
    <3>2. t.notes[j].id # t.notes[p].id /\ t.notes[j].id # t.notes[last].id
      BY <1>2, <2>1, <2>3, IdsDistinct
    <3>3. t.notes[j].id \in Active(t) /\ t.positions[t.notes[j].id] = j
      BY <2>1 DEF Table, Indexed, Active
    <3> QED
      BY <1>1, <3>1, <3>2, <3>3
  <2> QED
    BY <2>2, <2>3
<1>5. ASSUME NEW x \in Active(s)
      PROVE  s.positions[x] \in 1..Len(s.notes) /\ s.notes[s.positions[x]].id = x
  <2>1. x \in Active(t) /\ x # t.notes[p].id
    BY <1>1
  <2>2. t.positions[x] \in 1..last /\ t.notes[t.positions[x]].id = x
    BY <2>1 DEF Table, Indexed, Active
  <2>3. t.positions[x] # p
    BY <2>1, <2>2
  <2>4. CASE x = t.notes[last].id
    <3>1. s.positions[x] = p
      BY <1>1, <2>4
    <3>2. p # last
      BY <2>1, <2>4
    <3>3. p \in 1..Len(s.notes)
      BY <1>1, <1>2, <3>2
    <3> QED
      BY <1>1, <2>4, <3>1, <3>3
  <2>5. CASE x # t.notes[last].id
    <3>1. s.positions[x] = t.positions[x] /\ t.positions[x] # last
      BY <1>1, <2>2, <2>5
    <3>2. t.positions[x] \in 1..Len(s.notes)
      BY <1>1, <1>2, <2>2, <3>1
    <3> QED
      BY <1>1, <2>2, <2>3, <3>1, <3>2
  <2> QED
    BY <2>4, <2>5
<1>6. \A x \in Active(s) : x \notin s.fetched
  BY <1>1 DEF Table, Indexed, Active
<1>7. Indexed(s)
  BY <1>4, <1>5, <1>6 DEF Indexed, Active
<1> QED
  BY <1>3, <1>7 DEF Table, s

LEMMA AppendedTable ==
  ASSUME NEW t, Table(t), NEW note \in Notes, note.id \notin Active(t),
         note.id \notin t.fetched
  PROVE  LET s == Appended(t, note) IN
         /\ Table(s) /\ Len(s.notes) = Len(t.notes) + 1
         /\ Active(s) = Active(t) \cup {note.id} /\ s.fetched = t.fetched
<1> DEFINE s == Appended(t, note)
           more == Append(t.notes, note)
           places == [x \in DOMAIN t.positions \cup {note.id} |->
                         IF x = note.id THEN Len(t.notes) + 1 ELSE t.positions[x]]
<1>1. s = [notes |-> more, positions |-> places, fetched |-> t.fetched]
  <2>1. s = [t EXCEPT !.notes = more, !.positions = places]
    BY Zenon DEF Appended
  <2>2. t = [notes |-> t.notes, positions |-> t.positions, fetched |-> t.fetched]
    BY DEF Table, IsTable
  <2> HIDE DEF s, more, places
  <2> QED
    BY <2>1, <2>2
<1>2. /\ t.notes \in Seq(Notes) /\ Len(t.notes) \in Nat /\ more \in Seq(Notes)
      /\ Len(more) = Len(t.notes) + 1 /\ more[Len(t.notes) + 1] = note
      /\ \A j \in 1..Len(t.notes) : more[j] = t.notes[j]
  BY DEF Table, IsTable
<1>3. note.id \in Ids
  BY DEF Notes
<1>4. /\ DOMAIN places = DOMAIN t.positions \cup {note.id}
      /\ places[note.id] = Len(t.notes) + 1
      /\ \A x \in DOMAIN t.positions : places[x] = t.positions[x]
  BY DEF Active
<1>5. places = [x \in DOMAIN places |-> places[x]]
  BY Zenon
<1> HIDE DEF s, more, places
<1>6. IsTable(s)
  <2>1. \A x \in DOMAIN places : places[x] \in Nat \ {0}
    BY <1>2, <1>4 DEF Table, IsTable
  <2>2. places \in [DOMAIN places -> Nat \ {0}]
    BY <1>5, <2>1
  <2>3. DOMAIN places \subseteq Ids /\ t.fetched \subseteq Ids
    BY <1>3, <1>4 DEF Table, IsTable
  <2> QED
    BY <1>1, <1>2, <2>2, <2>3 DEF IsTable
<1>7. ASSUME NEW j \in 1..Len(more)
      PROVE  more[j].id \in DOMAIN places /\ places[more[j].id] = j
  <2>1. CASE j = Len(t.notes) + 1
    BY <1>2, <1>4, <2>1
  <2>2. CASE j # Len(t.notes) + 1
    <3>1. j \in 1..Len(t.notes)
      BY <1>2, <2>2
    <3> QED
      BY <3>1, <1>2, <1>4 DEF Table, Indexed
  <2> QED
    BY <2>1, <2>2
<1>8. ASSUME NEW x \in DOMAIN places
      PROVE  places[x] \in 1..Len(more) /\ more[places[x]].id = x
  <2>1. CASE x = note.id
    BY <1>2, <1>4, <2>1
  <2>2. CASE x \in DOMAIN t.positions
    <3>1. t.positions[x] \in 1..Len(t.notes) /\ t.notes[t.positions[x]].id = x
      BY <2>2 DEF Table, Indexed
    <3> QED
      BY <3>1, <2>2, <1>2, <1>4
  <2> QED
    BY <1>4, <2>1, <2>2
<1>9. \A x \in DOMAIN places : x \notin t.fetched
  BY <1>4 DEF Table, Indexed
<1>10. Indexed(s)
  BY <1>1, <1>7, <1>8, <1>9 DEF Indexed
<1> QED
  BY <1>1, <1>2, <1>4, <1>6, <1>10 DEF Table, Active, s

(* addNote keeps the table in order and within its limit; it activates at  *)
(* most the id it is given, and none that was fetched.                     *)
LEMMA AddNoteTable ==
  ASSUME NEW t, Table(t), Len(t.notes) <= MaxActive,
         NEW id \in Ids, NEW src \in Sources, NEW born \in Nat
  PROVE  LET s == AddNote(t, id, src, born) IN
         /\ Table(s) /\ Len(s.notes) <= MaxActive
         /\ Active(s) \subseteq Active(t) \cup {id} /\ s.fetched = t.fetched
<1> DEFINE s == AddNote(t, id, src, born)
<1>1. CASE id \in t.fetched
  <2>1. s = t
    BY <1>1 DEF AddNote
  <2> QED
    BY <2>1
<1>2. CASE id \notin t.fetched /\ id \in Active(t)
  <2> DEFINE p == t.positions[id]
             fresh == [t.notes EXCEPT ![p].src = src]
  <2>1. s = [t EXCEPT !.notes = [@ EXCEPT ![t.positions[id]].src = src]]
    BY <1>2 DEF AddNote, Active
  <2>2. p \in 1..Len(t.notes) /\ t.notes \in Seq(Notes) /\ t.notes[p] \in Notes
    BY <1>2 DEF Table, IsTable, Indexed, Active
  <2>3. s = [notes |-> fresh, positions |-> t.positions, fetched |-> t.fetched]
    BY <2>1 DEF Table, IsTable
  <2>4. /\ fresh \in Seq(Notes) /\ Len(fresh) = Len(t.notes)
        /\ \A j \in 1..Len(t.notes) : fresh[j].id = t.notes[j].id
    <3>1. [t.notes[p] EXCEPT !.src = src] \in Notes
          /\ [t.notes[p] EXCEPT !.src = src].id = t.notes[p].id
      BY <2>2 DEF Notes
    <3>2. fresh = [t.notes EXCEPT ![p] = [t.notes[p] EXCEPT !.src = src]]
      BY <2>2
    <3> QED
      BY <2>2, <3>1, <3>2
  <2> HIDE DEF s, fresh, p
  <2>5. Table(s)
    BY <2>3, <2>4 DEF Table, IsTable, Indexed
  <2> QED
    BY <2>3, <2>4, <2>5 DEF Active, s
<1>3. CASE id \notin t.fetched /\ id \notin Active(t)
  <2> DEFINE note == [id |-> id, src |-> src, born |-> born]
             more == Appended(t, note)
  <2>1. note \in Notes /\ note.id = id
    BY DEF Notes
  <2> HIDE DEF note
  <2>2. /\ Table(more) /\ Len(more.notes) = Len(t.notes) + 1
        /\ Active(more) = Active(t) \cup {id} /\ more.fetched = t.fetched
    BY <1>3, <2>1, AppendedTable
  <2>3. s = IF Len(more.notes) > MaxActive THEN RemoveAt(more, 1) ELSE more
    BY <1>3 DEF AddNote, Active, note
  <2> HIDE DEF s, more
  <2>4. Len(t.notes) \in Nat
    BY DEF Table, IsTable
  <2>5. CASE Len(more.notes) > MaxActive
    <3>1. 1 \in 1..Len(more.notes)
      BY <2>2, <2>4
    <3>2. Table(RemoveAt(more, 1))
      BY <2>2, <3>1, RemoveAtTable
    <3>3. /\ Len(RemoveAt(more, 1).notes) = Len(more.notes) - 1
          /\ Active(RemoveAt(more, 1)) \subseteq Active(more)
          /\ RemoveAt(more, 1).fetched = more.fetched
      BY <2>2, <3>1, RemoveAtNotes
    <3> QED
      BY <2>2, <2>3, <2>4, <2>5, <3>2, <3>3, MaxActiveAssumption DEF s
  <2>6. CASE ~(Len(more.notes) > MaxActive)
    BY <2>2, <2>3, <2>4, <2>6, MaxActiveAssumption DEF s
  <2> QED
    BY <2>5, <2>6
<1> QED
  BY <1>1, <1>2, <1>3

(* A fetched note leaves the table and its id comes to the fetched ones.   *)
LEMMA FetchedTable ==
  ASSUME NEW t, Table(t), NEW p \in 1..Len(t.notes)
  PROVE  LET s == Fetched(t, p) IN
         /\ Table(s) /\ s.notes = RemoveAt(t, p).notes
         /\ Active(s) = Active(RemoveAt(t, p))
         /\ s.fetched = t.fetched \cup {t.notes[p].id}
<1> DEFINE r == RemoveAt(t, p)
           s == Fetched(t, p)
<1>1. Table(r)
  BY RemoveAtTable
<1>2. /\ r.fetched = t.fetched /\ Active(r) = Active(t) \ {t.notes[p].id}
      /\ r = [notes |-> r.notes, positions |-> r.positions, fetched |-> r.fetched]
  BY RemoveAtNotes
<1>3. s = [r EXCEPT !.fetched = r.fetched \cup {t.notes[p].id}]
  BY DEF Fetched
<1>4. t.notes[p].id \in Ids
  <2>1. t.notes \in Seq(Notes)
    BY DEF Table, IsTable
  <2>2. t.notes[p] \in Notes
    BY <2>1
  <2> QED
    BY <2>2 DEF Notes
<1> HIDE DEF r, s
<1>5. s = [notes |-> r.notes, positions |-> r.positions,
           fetched |-> t.fetched \cup {t.notes[p].id}]
  BY <1>2, <1>3
<1>6. IsTable(s)
  BY <1>1, <1>2, <1>4, <1>5 DEF Table, IsTable
<1>7. Indexed(s)
  BY <1>1, <1>2, <1>5 DEF Table, Indexed, Active
<1> QED
  BY <1>5, <1>6, <1>7 DEF Table, Active, r, s

-----------------------------------------------------------------------------
(* The types of a state, and the order of its tables.                      *)
Tables == \A n \in Nodes : Table(table[n]) /\ Len(table[n].notes) <= MaxActive
Envelopes == [from: Nodes, key: Ids]

LEMMA NodesFinite == \A down \in SUBSET Nodes : Cardinality(down) \in Nat
<1>1. IsFiniteSet(Nodes)
  BY FS_Interval, SimulationAssumption DEF Nodes
<1> QED
  BY <1>1, FS_Subset, FS_CardinalityType

LEMMA Here ==
  ASSUME TypeOK, Tables
  PROVE  /\ at \in Nodes /\ table[at].notes \in Seq(Notes)
         /\ Len(table[at].notes) \in Nat
         /\ \A j \in 1..Len(table[at].notes) : table[at].notes[j] \in Notes
BY DEF TypeOK, Tables, Table, IsTable

(* Only the table of one node changes, to one that is in order.            *)
LEMMA OneTable ==
  ASSUME TypeOK, Tables, NEW n \in Nodes, NEW t, Table(t), Len(t.notes) <= MaxActive,
         table' = [table EXCEPT ![n] = t]
  PROVE  /\ Tables' /\ table' = [m \in Nodes |-> table'[m]]
         /\ \A m \in Nodes : IsTable(table'[m])
<1>1. table' = [m \in Nodes |-> IF m = n THEN t ELSE table[m]]
  BY DEF TypeOK
<1> QED
  BY <1>1 DEF TypeOK, Tables, Table

LEMMA SentTypes ==
  ASSUME TypeOK, NEW n \in Nodes, NEW env \in Envelopes
  PROVE  EnqueueFrom(n, env) \in [Nodes -> Seq(Envelopes)]
<1> DEFINE box == inbox[n]
<1>1. box \in Seq(Envelopes)
  BY DEF TypeOK, Envelopes
<1>2. Append(box, env) \in Seq(Envelopes)
  BY <1>1
<1> QED
  BY <1>2 DEF EnqueueFrom, TypeOK, Envelopes

LEMMA HeardTable ==
  ASSUME TypeOK, Tables, NEW env \in Envelopes
  PROVE  LET s == Heard(at, env) IN
         /\ Table(s) /\ Len(s.notes) <= MaxActive
         /\ Active(s) \subseteq Active(table[at]) \cup {env.key}
         /\ s.fetched = table[at].fetched
<1>1. /\ env.key \in Ids /\ env.from \in Sources /\ round \in Nat /\ at \in Nodes
  BY SimulationAssumption DEF TypeOK, Envelopes
<1>2. Table(table[at]) /\ Len(table[at].notes) <= MaxActive
  BY <1>1 DEF Tables
<1> QED
  BY <1>1, <1>2, AddNoteTable DEF Heard

LEMMA PrunedTable ==
  ASSUME TypeOK, Tables, i <= Len(table[at].notes)
  PROVE  /\ i \in 1..Len(table[at].notes) /\ Table(table[at])
         /\ Table(RemoveAt(table[at], i)) /\ Table(Fetched(table[at], i))
         /\ Len(RemoveAt(table[at], i).notes) <= MaxActive
         /\ Len(Fetched(table[at], i).notes) <= MaxActive
<1>1. i \in 1..Len(table[at].notes) /\ Table(table[at]) /\ Len(table[at].notes) <= MaxActive
  BY Here DEF TypeOK, Tables
<1>2. Table(RemoveAt(table[at], i))
  BY <1>1, RemoveAtTable
<1>3. Len(RemoveAt(table[at], i).notes) = Len(table[at].notes) - 1
  BY <1>1, RemoveAtNotes
<1>4. Table(Fetched(table[at], i)) /\ Fetched(table[at], i).notes = RemoveAt(table[at], i).notes
  BY <1>1, FetchedTable
<1> QED
  BY <1>1, <1>2, <1>3, <1>4, Here, MaxActiveAssumption

LEMMA TypeStep == TypeOK /\ Tables /\ [Next]_vars => TypeOK' /\ Tables'
<1> SUFFICES ASSUME TypeOK, Tables, [Next]_vars PROVE TypeOK' /\ Tables'
  OBVIOUS
<1> USE SimulationAssumption
<1>0. 1 \in Nodes /\ Nodes \subseteq Nat \ {0} /\ {"between", "drain"} \subseteq {"between", "drain", "prune", "scan"}
  BY DEF Nodes
<1>a. ASSUME table' = table PROVE /\ Tables' /\ table' = [m \in Nodes |-> table'[m]]
                                 /\ \A m \in Nodes : IsTable(table'[m])
  BY <1>a DEF TypeOK, Tables
<1>b. ASSUME NextNode(at)
      PROVE  /\ at' \in Nodes /\ phase' \in {"between", "drain"} /\ i' = 1 /\ seen' = {}
  BY <1>b DEF NextNode, Nodes, TypeOK
<1>1. ASSUME NEW k \in Ids, Publish(k) PROVE TypeOK' /\ Tables'
  <2>1. [from |-> Publisher[k], key |-> k] \in Envelopes /\ Publisher[k] \in Nodes
    BY DEF Envelopes
  <2>2. inbox' \in [Nodes -> Seq(Envelopes)]
    BY <1>1, <2>1, SentTypes DEF Publish
  <2>3. history' \in Seq(Ids)
    BY <1>1 DEF Publish, TypeOK
  <2> QED
    BY <1>1, <2>2, <2>3, <1>a DEF Publish, TypeOK, Envelopes, loopVars
<1>2. ASSUME NEW down \in SUBSET Nodes, NEW up \in SUBSET Nodes, BeginRound(down, up)
      PROVE  TypeOK' /\ Tables'
  <2>1. CatchUp \in Seq(Envelopes)
    <3>1. Len(history) \in Nat /\ DOMAIN history = 1..Len(history)
          /\ \A j \in DOMAIN history : history[j] \in Ids
      BY DEF TypeOK
    <3>2. \A j \in DOMAIN history :
            [from |-> Publisher[history[j]], key |-> history[j]] \in Envelopes
      BY <3>1 DEF Envelopes
    <3> QED
      BY <3>1, <3>2 DEF CatchUp
  <2>2. \A n \in Nodes : inbox[n] \o CatchUp \in Seq(Envelopes)
    <3> SUFFICES ASSUME NEW n \in Nodes PROVE inbox[n] \o CatchUp \in Seq(Envelopes)
      OBVIOUS
    <3>1. inbox[n] \in Seq(Envelopes)
      BY DEF TypeOK, Envelopes
    <3> QED
      BY <2>1, <3>1
  <2>3. inbox' \in [Nodes -> Seq(Envelopes)]
    BY <1>2, <2>2 DEF BeginRound, TypeOK, Envelopes
  <2>4. churned' \in Nat /\ round' \in Nat /\ at' \in Nodes
    <3>1. Cardinality(down) \in Nat
      BY NodesFinite
    <3>2. churned' = churned + Cardinality(down) /\ round' = round + 1 /\ at' = 1
      BY <1>2 DEF BeginRound
    <3> QED
      BY <3>1, <3>2, <1>0 DEF TypeOK
  <2>5. online' \subseteq Nodes /\ away' \subseteq Nodes
    BY <1>2 DEF BeginRound, TypeOK, Leaving
  <2> QED
    BY <1>2, <2>3, <2>4, <2>5, <1>a DEF BeginRound, TypeOK, Envelopes
<1>3. CASE SkipOffline \/ TickEnds
  BY <1>3, <1>0, <1>a, <1>b DEF SkipOffline, TickEnds, TypeOK
<1>4. CASE Receive
  <2> DEFINE env == Head(inbox[at])
  <2>1. /\ at \in Nodes /\ inbox[at] \in Seq(Envelopes) /\ inbox[at] # <<>>
    BY <1>4 DEF Receive, TypeOK, Envelopes
  <2>2. env \in Envelopes /\ Tail(inbox[at]) \in Seq(Envelopes)
    BY <2>1
  <2>3. inbox' \in [Nodes -> Seq(Envelopes)]
    BY <1>4, <2>1, <2>2 DEF Receive, TypeOK, Envelopes
  <2>4. /\ Tables' /\ table' = [m \in Nodes |-> table'[m]]
        /\ \A m \in Nodes : IsTable(table'[m])
    <3>1. CASE table' = table
      BY <3>1, <1>a
    <3>2. CASE table' = [table EXCEPT ![at] = Heard(at, env)]
      BY <3>2, <2>1, <2>2, HeardTable, OneTable
    <3> QED
      BY <1>4, <3>1, <3>2 DEF Receive
  <2>5. announcements' \in [Nodes -> SUBSET Ids] /\ delivered' \subseteq Nodes \X Ids
    <3>1. env.key \in Ids
      BY <2>2 DEF Envelopes
    <3>2. CASE UNCHANGED <<announcements, delivered>>
      BY <3>2 DEF TypeOK
    <3>3. CASE /\ announcements' = [announcements EXCEPT ![at] = @ \cup {env.key}]
               /\ delivered' = delivered \cup {<<at, env.key>>}
      BY <3>1, <3>3, <2>1 DEF TypeOK
    <3> QED
      BY <1>4, <3>2, <3>3 DEF Receive
  <2>6. UNCHANGED <<online, away, history, loopVars, churned>>
    BY <1>4 DEF Receive
  <2> QED
    BY <2>3, <2>4, <2>5, <2>6 DEF TypeOK, Envelopes, loopVars
<1>5. CASE Drained
  <2>1. phase' = "prune" /\ i' \in Nat \ {0}
    BY <1>5 DEF Drained
  <2>2. table' = table
    BY <1>5 DEF Drained
  <2> QED
    BY <1>5, <2>1, <2>2, <1>a DEF Drained, TypeOK
<1>6. CASE Prune
  <2>1. i' \in Nat \ {0} /\ phase' \in {"prune", "scan"}
    BY <1>6 DEF Prune, TypeOK
  <2>2. /\ Tables' /\ table' = [m \in Nodes |-> table'[m]]
        /\ \A m \in Nodes : IsTable(table'[m])
    <3>1. CASE table' = table
      BY <3>1, <1>a
    <3>2. CASE i <= Len(table[at].notes) /\ table' = [table EXCEPT ![at] = RemoveAt(@, i)]
      <4>1. table' = [table EXCEPT ![at] = RemoveAt(table[at], i)]
        BY <3>2, Here DEF TypeOK
      <4> QED
        BY <3>2, <4>1, Here, PrunedTable, OneTable
    <3> QED
      BY <1>6, <3>1, <3>2, Here DEF Prune, TypeOK
  <2> QED
    BY <1>6, <2>1, <2>2 DEF Prune, TypeOK
<1>7. CASE Keep
  <2>1. table[at].notes[i].id \in Ids
    BY <1>7, PrunedTable, Here DEF Keep, Notes
  <2> QED
    <3>1. i' \in Nat \ {0} /\ seen' \subseteq Ids
      BY <1>7, <2>1 DEF Keep, TypeOK
    <3>2. UNCHANGED <<online, away, inbox, announcements, table, delivered,
                      history, round, at, phase, churned>>
      BY <1>7 DEF Keep
    <3> QED
      BY <3>1, <3>2, <1>a DEF TypeOK
<1>8. CASE Fetch
  <2> DEFINE k == table[at].notes[i].id
  <2>0. i <= Len(table[at].notes) /\ at \in Nodes
    BY <1>8 DEF Fetch, TypeOK
  <2>1. k \in Ids
    BY <2>0, PrunedTable, Here DEF Notes
  <2>2. table' = [table EXCEPT ![at] = Fetched(table[at], i)]
    BY <1>8, <2>0 DEF Fetch, TypeOK
  <2>3. /\ Tables' /\ table' = [m \in Nodes |-> table'[m]]
        /\ \A m \in Nodes : IsTable(table'[m])
    BY <2>0, <2>2, PrunedTable, OneTable
  <2>4. [from |-> at, key |-> k] \in Envelopes
    BY <2>0, <2>1 DEF Envelopes
  <2>5. Forward(at, k) \in [Nodes -> Seq(Envelopes)]
    <3>1. \A m \in Nodes : EnqueueFrom(m, [from |-> at, key |-> k])[m] \in Seq(Envelopes)
      BY <2>4, SentTypes
    <3>2. \A m \in Nodes : inbox[m] \in Seq(Envelopes)
      BY DEF TypeOK, Envelopes
    <3> HIDE DEF k
    <3> QED
      BY <3>1, <3>2 DEF Forward
  <2>6. inbox' \in [Nodes -> Seq(Envelopes)]
    BY <1>8, <2>5 DEF Fetch, TypeOK, Envelopes
  <2>7. announcements' \in [Nodes -> SUBSET Ids] /\ seen' \subseteq Ids
    BY <1>8, <2>1 DEF Fetch, TypeOK
  <2>8. UNCHANGED <<online, away, delivered, history, round, at, phase, churned>> /\ i' = i
    BY <1>8 DEF Fetch, AfterFetch
  <2> QED
    BY <2>3, <2>6, <2>7, <2>8 DEF TypeOK, Envelopes
<1>9. CASE UNCHANGED vars
  BY <1>9, <1>a DEF vars, loopVars, TypeOK
<1> QED
  BY <1>1, <1>2, <1>3, <1>4, <1>5, <1>6, <1>7, <1>8, <1>9 DEF Next

-----------------------------------------------------------------------------
(* A scan examines each note once.                                         *)
Unseen == phase # "scan" => seen = {}

LEMMA ScanStep ==
  TypeOK /\ Tables /\ Unseen /\ ExaminedOnce /\ [Next]_vars => Unseen' /\ ExaminedOnce'
<1> SUFFICES ASSUME TypeOK, Tables, Unseen, ExaminedOnce, [Next]_vars
             PROVE  Unseen' /\ ExaminedOnce'
  OBVIOUS
<1> DEFINE notes == table[at].notes
<1>0. /\ notes \in Seq(Notes) /\ Len(notes) \in Nat /\ at \in Nodes
      /\ i \in Nat \ {0} /\ Table(table[at])
  BY Here DEF TypeOK, Tables
<1>a. ASSUME phase' # "scan", seen' = {} PROVE Unseen' /\ ExaminedOnce'
  BY <1>a DEF Unseen, ExaminedOnce
<1>1. ASSUME NEW k \in Ids, Publish(k) PROVE Unseen' /\ ExaminedOnce'
  BY <1>1, <1>a DEF Publish, loopVars, Unseen
<1>2. ASSUME NEW down \in SUBSET Nodes, NEW up \in SUBSET Nodes, BeginRound(down, up)
      PROVE  Unseen' /\ ExaminedOnce'
  BY <1>2, <1>a DEF BeginRound, Unseen
<1>3. CASE SkipOffline \/ TickEnds
  BY <1>3, <1>a DEF SkipOffline, TickEnds, NextNode
<1>4. CASE Receive \/ Drained
  BY <1>4, <1>a DEF Receive, Drained, Unseen, loopVars
<1>5. CASE Prune
  <2>1. seen = {} /\ seen' = {} /\ at' = at
    BY <1>5 DEF Prune, Unseen
  <2>2. CASE phase' = "scan"
    <3>1. i' = 1
      BY <1>5, <2>2 DEF Prune
    <3>2. \A j \in 1..Len(table'[at].notes) : ~(j < 1)
      OBVIOUS
    <3> QED
      BY <2>1, <2>2, <3>1, <3>2 DEF Unseen, ExaminedOnce
  <2>3. CASE phase' # "scan"
    BY <2>1, <2>3, <1>a
  <2> QED
    BY <2>2, <2>3
<1>6. CASE Keep
  <2>1. /\ i \in 1..Len(notes) /\ phase = "scan" /\ table' = table /\ at' = at
        /\ phase' = phase /\ i' = i + 1 /\ seen' = seen \cup {notes[i].id}
    BY <1>6, <1>0 DEF Keep
  <2> SUFFICES ASSUME NEW j \in 1..Len(notes)
               PROVE  j < i + 1 <=> notes[j].id \in seen \cup {notes[i].id}
    BY <2>1 DEF Unseen, ExaminedOnce
  <2>2. j < i <=> notes[j].id \in seen
    BY <2>1 DEF ExaminedOnce
  <2>3. notes[j].id = notes[i].id => j = i
    BY <1>0, <2>1, IdsDistinct
  <2> HIDE DEF notes
  <2> QED
    BY <1>0, <2>1, <2>2, <2>3
<1>7. CASE Fetch
  <2> DEFINE left == RemoveAt(table[at], i).notes
             last == Len(notes)
  <2>1. /\ i \in 1..last /\ phase = "scan" /\ at' = at
        /\ phase' = phase /\ i' = i /\ seen' = seen \cup {notes[i].id}
        /\ table' = [table EXCEPT ![at] = Fetched(table[at], i)]
    BY <1>7, <1>0 DEF Fetch, AfterFetch, TypeOK
  <2>2. table'[at].notes = left
    <3>1. Fetched(table[at], i).notes = left
      BY <1>0, <2>1, FetchedTable
    <3>2. table'[at] = Fetched(table[at], i)
      BY <1>0, <2>1 DEF TypeOK
    <3> QED
      BY <3>1, <3>2
  <2>3. /\ Len(left) = last - 1
        /\ \A j \in 1..Len(left) : left[j] = IF j = i THEN notes[last] ELSE notes[j]
    BY <1>0, <2>1, RemoveAtNotes
  <2> HIDE DEF left
  <2> SUFFICES ASSUME NEW j \in 1..Len(left)
               PROVE  j < i <=> left[j].id \in seen \cup {notes[i].id}
    BY <2>1, <2>2 DEF Unseen, ExaminedOnce
  <2>4. \A x \in 1..last : x < i <=> notes[x].id \in seen
    BY <2>1 DEF ExaminedOnce
  <2>5. \A x \in 1..last : notes[x].id = notes[i].id => x = i
    BY <1>0, <2>1, IdsDistinct
  <2> HIDE DEF notes
  <2>6. j \in 1..last /\ j # last /\ last \in 1..last
    BY <1>0, <2>1, <2>3
  <2>7. CASE j = i
    <3>1. left[j] = notes[last] /\ ~(last < i) /\ last # i
      BY <1>0, <2>3, <2>6, <2>7
    <3> QED
      BY <3>1, <2>4, <2>5, <2>6, <2>7
  <2>8. CASE j # i
    BY <2>3, <2>4, <2>5, <2>6, <2>8
  <2> QED
    BY <2>7, <2>8
<1>8. CASE UNCHANGED vars
  BY <1>8 DEF vars, loopVars, Unseen, ExaminedOnce
<1> QED
  BY <1>1, <1>2, <1>3, <1>4, <1>5, <1>6, <1>7, <1>8 DEF Next

-----------------------------------------------------------------------------
(* What was handed on is not lost: the announcements a node has in its     *)
(* table can be handed on, and what travels or is known was published.     *)
HasKey(m, k) == \E j \in DOMAIN inbox[m] : inbox[m][j].key = k
Reached(m, k) == Publisher[k] \in Distrusts[m] \/ <<m, k>> \in delivered \/ HasKey(m, k)

Backlog == \A n \in Nodes : \A k \in Active(table[n]) :
              k \in announcements[n] /\ Publisher[k] \notin Distrusts[n]
Absent == Nodes \ online \subseteq away
Known == \A n \in Nodes :
            /\ \A j \in DOMAIN inbox[n] : inbox[n][j].key \in Published
            /\ Active(table[n]) \cup table[n].fetched \subseteq Published

(* Appending to an inbox keeps what is in it.                              *)
LEMMA EnqueueKeys ==
  ASSUME TypeOK, NEW n \in Nodes, NEW m \in Nodes, NEW env \in Envelopes, NEW k
  PROVE  LET box == EnqueueFrom(n, env)[m] IN
         /\ HasKey(m, k) => \E j \in DOMAIN box : box[j].key = k
         /\ \A j \in DOMAIN box : box[j].key = env.key \/ HasKey(m, box[j].key)
         /\ m = n /\ n \in online => \E j \in DOMAIN box : box[j].key = env.key
<1> DEFINE b == inbox[m]
           box == EnqueueFrom(n, env)[m]
<1>1. b \in Seq(Envelopes) /\ DOMAIN b = 1..Len(b) /\ Len(b) \in Nat
  <2>1. b \in Seq(Envelopes)
    BY DEF TypeOK, Envelopes
  <2> HIDE DEF b
  <2> QED
    BY <2>1
<1>2. CASE m = n /\ n \in online
  <2>1. box = Append(b, env)
    BY <1>2 DEF EnqueueFrom, TypeOK
  <2>2. /\ DOMAIN box = 1..(Len(b) + 1) /\ box[Len(b) + 1] = env
        /\ \A j \in 1..Len(b) : box[j] = b[j]
    BY <1>1, <2>1
  <2> HIDE DEF box, b
  <2>3. ASSUME NEW j \in DOMAIN box PROVE box[j].key = env.key \/ HasKey(m, box[j].key)
    <3>1. j = Len(b) + 1 \/ j \in 1..Len(b)
      BY <1>1, <2>2
    <3>2. ASSUME j \in 1..Len(b) PROVE HasKey(m, box[j].key)
      BY <1>1, <2>2, <3>2 DEF HasKey, b
    <3> QED
      BY <2>2, <3>1, <3>2
  <2>4. ASSUME HasKey(m, k) PROVE \E j \in DOMAIN box : box[j].key = k
    <3>1. PICK j \in 1..Len(b) : b[j].key = k
      BY <1>1, <2>4 DEF HasKey, b
    <3>2. j \in DOMAIN box
      BY <1>1, <2>2
    <3> QED
      BY <2>2, <3>1, <3>2
  <2>5. Len(b) + 1 \in DOMAIN box
    BY <1>1, <2>2
  <2> QED
    BY <1>2, <2>2, <2>3, <2>4, <2>5 DEF box
<1>3. CASE ~(m = n /\ n \in online)
  <2>1. box = b
    BY <1>3 DEF EnqueueFrom, TypeOK
  <2>2. \A j \in DOMAIN b : HasKey(m, b[j].key)
    BY DEF HasKey
  <2>3. HasKey(m, k) => \E j \in DOMAIN b : b[j].key = k
    BY DEF HasKey
  <2> HIDE DEF box, b
  <2> QED
    BY <2>1, <2>2, <2>3, <1>3 DEF box
<1> QED
  BY <1>2, <1>3

(* Handing on reaches the targets and keeps what is in the inboxes.        *)
LEMMA ForwardKeys ==
  ASSUME TypeOK, NEW k \in Ids, NEW m \in Nodes, inbox' = Forward(at, k)
  PROVE  /\ \A x : HasKey(m, x) => HasKey(m, x)'
         /\ m \in Targets(at) => HasKey(m, k)'
         /\ \A j \in DOMAIN inbox'[m] : inbox'[m][j].key = k \/ HasKey(m, inbox'[m][j].key)
<1> DEFINE env == [from |-> at, key |-> k]
<1>1. env \in Envelopes /\ env.key = k
  BY DEF Envelopes, TypeOK
<1> HIDE DEF env
<1>2. CASE m \in Targets(at)
  <2>1. inbox'[m] = EnqueueFrom(m, env)[m] /\ m \in online
    BY <1>2 DEF Forward, Targets, env
  <2>2. ASSUME NEW x, HasKey(m, x) PROVE HasKey(m, x)'
    BY <2>1, <2>2, <1>1, EnqueueKeys DEF HasKey
  <2>3. HasKey(m, k)'
    BY <2>1, <1>1, EnqueueKeys DEF HasKey
  <2>4. \A j \in DOMAIN inbox'[m] : inbox'[m][j].key = k \/ HasKey(m, inbox'[m][j].key)
    BY <2>1, <1>1, EnqueueKeys
  <2> QED
    BY <2>2, <2>3, <2>4
<1>3. CASE m \notin Targets(at)
  <2>1. inbox'[m] = inbox[m]
    BY <1>3 DEF Forward
  <2> QED
    BY <2>1, <1>3 DEF HasKey
<1> QED
  BY <1>2, <1>3

(* The drained envelope is the only one that leaves an inbox.              *)
LEMMA ReceiveKeys ==
  ASSUME TypeOK, Receive, NEW m \in Nodes
  PROVE  LET env == Head(inbox[at]) IN
         /\ env \in Envelopes /\ HasKey(at, env.key)
         /\ \A x : HasKey(m, x) => HasKey(m, x)' \/ (m = at /\ x = env.key)
         /\ \A j \in DOMAIN inbox'[m] : HasKey(m, inbox'[m][j].key)
<1> DEFINE b == inbox[at]
<1>1. b \in Seq(Envelopes) /\ b # <<>> /\ inbox' = [inbox EXCEPT ![at] = Tail(b)]
      /\ at \in Nodes /\ inbox \in [Nodes -> Seq(Envelopes)]
  BY DEF Receive, TypeOK, Envelopes
<1>2. /\ DOMAIN b = 1..Len(b) /\ Len(b) \in Nat /\ Len(b) >= 1 /\ Head(b) = b[1]
      /\ b[1] \in Envelopes
      /\ DOMAIN Tail(b) = 1..(Len(b) - 1)
      /\ \A j \in 1..(Len(b) - 1) : Tail(b)[j] = b[j + 1]
  <2> HIDE DEF b
  <2> QED
    BY <1>1
<1>3. CASE m = at
  <2>1. inbox'[m] = Tail(b)
    BY <1>1, <1>3
  <2>2. ASSUME NEW x, HasKey(m, x), x # Head(b).key PROVE HasKey(m, x)'
    <3>1. PICK j \in 1..Len(b) : b[j].key = x
      BY <1>2, <1>3, <2>2 DEF HasKey, b
    <3> HIDE DEF b
    <3>2. j - 1 \in 1..(Len(b) - 1) /\ Tail(b)[j - 1] = b[j]
      BY <1>2, <2>2, <3>1
    <3> QED
      BY <1>2, <2>1, <3>1, <3>2 DEF HasKey
  <2>3. ASSUME NEW j \in DOMAIN inbox'[m] PROVE HasKey(m, inbox'[m][j].key)
    <3>1. inbox'[m][j] = b[j + 1] /\ j + 1 \in DOMAIN b
      BY <1>2, <2>1
    <3> QED
      BY <1>3, <3>1 DEF HasKey, b
  <2>4. HasKey(at, Head(b).key)
    BY <1>2 DEF HasKey, b
  <2> QED
    BY <1>2, <1>3, <2>2, <2>3, <2>4
<1>4. CASE m # at
  <2>1. inbox'[m] = inbox[m]
    BY <1>1, <1>4
  <2>2. HasKey(at, Head(b).key)
    BY <1>2 DEF HasKey, b
  <2>3. \A x : HasKey(m, x) => HasKey(m, x)'
    BY <2>1 DEF HasKey
  <2>4. \A j \in DOMAIN inbox'[m] : HasKey(m, inbox'[m][j].key)
    BY <2>1 DEF HasKey
  <2> QED
    BY <1>2, <2>2, <2>3, <2>4
<1> QED
  BY <1>3, <1>4

(* A round that begins adds the whole history to some inboxes.             *)
LEMMA RoundKeys ==
  ASSUME TypeOK, NEW down \in SUBSET Nodes, NEW up \in SUBSET Nodes,
         BeginRound(down, up), NEW m \in Nodes
  PROVE  /\ \A x : HasKey(m, x) => HasKey(m, x)'
         /\ m \in up \cap (away \cup Leaving(down)) =>
               \A k \in Published : HasKey(m, k)'
         /\ \A j \in DOMAIN inbox'[m] :
               inbox'[m][j].key \in Published \/ HasKey(m, inbox'[m][j].key)
<1> DEFINE b == inbox[m]
           rest == CatchUp
<1>1. /\ b \in Seq(Envelopes) /\ DOMAIN history = 1..Len(history) /\ Len(history) \in Nat
  <2>1. b \in Seq(Envelopes)
    BY DEF TypeOK, Envelopes
  <2>2. history \in Seq(Ids)
    BY DEF TypeOK
  <2> QED
    BY <2>1, <2>2
<1>2. /\ rest \in Seq(Envelopes) /\ DOMAIN rest = DOMAIN history
      /\ \A j \in DOMAIN history : rest[j].key = history[j]
  <2>1. \A j \in DOMAIN history :
          [from |-> Publisher[history[j]], key |-> history[j]] \in Envelopes
    <3>1. \A j \in DOMAIN history : history[j] \in Ids
      BY DEF TypeOK
    <3> QED
      BY <3>1, SimulationAssumption DEF Envelopes
  <2>2. rest = [j \in 1..Len(history) |->
                  [from |-> Publisher[history[j]], key |-> history[j]]]
    BY <1>1 DEF CatchUp
  <2>3. rest \in Seq(Envelopes)
    BY <1>1, <2>1, <2>2
  <2> QED
    BY <1>1, <2>2, <2>3
<1>3. CASE m \in up \cap (away \cup Leaving(down))
  <2>1. inbox'[m] = b \o rest
    BY <1>3 DEF BeginRound
  <2>2. /\ Len(b) \in Nat /\ DOMAIN b = 1..Len(b) /\ Len(rest) = Len(history)
        /\ DOMAIN (b \o rest) = 1..(Len(b) + Len(history))
        /\ \A j \in 1..Len(b) : (b \o rest)[j] = b[j]
        /\ \A j \in 1..Len(history) : (b \o rest)[Len(b) + j] = rest[j]
    <3> HIDE DEF b, rest
    <3>1. Len(rest) = Len(history)
      BY <1>1, <1>2
    <3> QED
      BY <1>1, <1>2, <3>1
  <2> HIDE DEF b, rest
  <2>3. ASSUME NEW x, HasKey(m, x) PROVE HasKey(m, x)'
    <3>1. PICK j \in 1..Len(b) : b[j].key = x
      BY <2>2, <2>3 DEF HasKey, b
    <3>2. j \in DOMAIN (b \o rest)
      BY <1>1, <2>2
    <3> QED
      BY <2>1, <2>2, <3>1, <3>2 DEF HasKey
  <2>4. ASSUME NEW k \in Published PROVE HasKey(m, k)'
    <3>1. PICK j \in 1..Len(history) : history[j] = k
      BY <1>1 DEF Published
    <3>2. Len(b) + j \in DOMAIN (b \o rest) /\ (b \o rest)[Len(b) + j].key = k
      BY <1>1, <1>2, <2>2, <3>1
    <3> QED
      BY <2>1, <3>2 DEF HasKey
  <2>5. ASSUME NEW j \in DOMAIN inbox'[m]
        PROVE  inbox'[m][j].key \in Published \/ HasKey(m, inbox'[m][j].key)
    <3>1. CASE j \in 1..Len(b)
      BY <2>1, <2>2, <3>1 DEF HasKey, b
    <3>2. CASE j \notin 1..Len(b)
      <4>1. PICK x \in 1..Len(history) : j = Len(b) + x
        <5>1. j \in 1..(Len(b) + Len(history))
          BY <2>1, <2>2
        <5>2. j - Len(b) \in 1..Len(history) /\ j = Len(b) + (j - Len(b))
          BY <5>1, <3>2, <1>1, <2>2
        <5> QED
          BY <5>2
      <4> QED
        BY <4>1, <2>1, <2>2, <1>1, <1>2 DEF Published
    <3> QED
      BY <3>1, <3>2
  <2> QED
    BY <2>3, <2>4, <2>5
<1>4. CASE m \notin up \cap (away \cup Leaving(down))
  <2>1. inbox'[m] = inbox[m]
    BY <1>4 DEF BeginRound
  <2> QED
    BY <2>1, <1>4 DEF HasKey
<1> QED
  BY <1>3, <1>4

(* What a step does to the table of a node: nothing, or it prunes it, or   *)
(* the node hears of an announcement, or it fetches one.                   *)
Hears(n) ==
    /\ Receive /\ n = at
    /\ Publisher[Head(inbox[at]).key] \notin Distrusts[at]
    /\ announcements' = [announcements EXCEPT ![at] = @ \cup {Head(inbox[at]).key}]
    /\ Active(table'[n]) \subseteq Active(table[n]) \cup {Head(inbox[at]).key}
    /\ table'[n].fetched = table[n].fetched
Prunes(n) ==
    /\ Active(table'[n]) \subseteq Active(table[n])
    /\ table'[n].fetched = table[n].fetched
    /\ announcements'[n] = announcements[n]
Fetches(n) ==
    /\ Fetch /\ n = at /\ i \in 1..Len(table[at].notes)
    /\ table[at].notes[i].id \in Ids
    /\ table[at].notes[i].id \in Active(table[at])
    /\ Active(table'[n]) = Active(table[n]) \ {table[at].notes[i].id}
    /\ table'[n].fetched = table[n].fetched \cup {table[at].notes[i].id}

LEMMA TableStep ==
  ASSUME TypeOK, Tables, [Next]_vars, NEW n \in Nodes
  PROVE  Hears(n) \/ Prunes(n) \/ Fetches(n)
<1>0. at \in Nodes
  BY DEF TypeOK
<1>a. ASSUME table'[n] = table[n], announcements'[n] = announcements[n] PROVE Prunes(n)
  BY <1>a DEF Prunes
<1>1. ASSUME NEW k \in Ids, Publish(k) PROVE Prunes(n)
  BY <1>1, <1>a DEF Publish
<1>2. ASSUME NEW down \in SUBSET Nodes, NEW up \in SUBSET Nodes, BeginRound(down, up)
      PROVE  Prunes(n)
  BY <1>2, <1>a DEF BeginRound
<1>3. CASE SkipOffline \/ TickEnds \/ Drained \/ Keep
  BY <1>3, <1>a DEF SkipOffline, TickEnds, Drained, Keep
<1>4. CASE Receive
  <2> DEFINE env == Head(inbox[at])
  <2>1. env \in Envelopes
    BY <1>4, <1>0, ReceiveKeys
  <2>2. CASE Publisher[env.key] \in Distrusts[at] \/ n # at
    BY <1>4, <2>2, <1>a DEF Receive, TypeOK
  <2>3. CASE Publisher[env.key] \notin Distrusts[at] /\ n = at
    <3>1. table' = [table EXCEPT ![at] = Heard(at, env)]
          /\ announcements' = [announcements EXCEPT ![at] = @ \cup {env.key}]
      BY <1>4, <2>3 DEF Receive
    <3>2. table'[n] = Heard(at, env)
      BY <3>1, <2>3 DEF TypeOK
    <3>3. Active(Heard(at, env)) \subseteq Active(table[at]) \cup {env.key}
          /\ Heard(at, env).fetched = table[at].fetched
      BY <2>1, HeardTable
    <3> QED
      BY <1>4, <2>3, <3>1, <3>2, <3>3 DEF Hears
  <2> QED
    BY <2>2, <2>3
<1>5. CASE Prune
  <2>1. announcements' = announcements
    BY <1>5 DEF Prune
  <2>2. CASE table'[n] = table[n]
    BY <2>1, <2>2, <1>a
  <2>3. CASE table'[n] # table[n]
    <3>1. i <= Len(table[at].notes) /\ n = at /\ table'[n] = RemoveAt(table[at], i)
      BY <1>5, <2>3, Here DEF Prune, TypeOK
    <3>2. Active(RemoveAt(table[at], i)) \subseteq Active(table[at])
          /\ RemoveAt(table[at], i).fetched = table[at].fetched
      BY <3>1, PrunedTable, RemoveAtNotes
    <3> QED
      BY <2>1, <3>1, <3>2 DEF Prunes
  <2> QED
    BY <2>2, <2>3
<1>6. CASE Fetch
  <2>1. CASE n # at
    BY <1>6, <2>1, <1>a DEF Fetch, TypeOK
  <2>2. CASE n = at
    <3> DEFINE k == table[at].notes[i].id
    <3>1. i \in 1..Len(table[at].notes) /\ Table(table[at])
      BY <1>6, PrunedTable DEF Fetch
    <3>2. k \in Ids /\ k \in Active(table[at])
      <4>1. table[at].notes[i] \in Notes
        BY <3>1, Here
      <4> QED
        BY <3>1, <4>1 DEF Notes, Table, Indexed, Active
    <3>3. table'[n] = Fetched(table[at], i)
      BY <1>6, <2>2 DEF Fetch, TypeOK
    <3>4. /\ Active(RemoveAt(table[at], i)) = Active(table[at]) \ {k}
          /\ Active(Fetched(table[at], i)) = Active(RemoveAt(table[at], i))
          /\ Fetched(table[at], i).fetched = table[at].fetched \cup {k}
      BY <3>1, FetchedTable, RemoveAtNotes
    <3> QED
      BY <1>6, <2>2, <3>1, <3>2, <3>3, <3>4 DEF Fetches
  <2> QED
    BY <2>1, <2>2
<1>7. CASE UNCHANGED vars
  BY <1>7, <1>a DEF vars
<1> QED
  BY <1>1, <1>2, <1>3, <1>4, <1>5, <1>6, <1>7 DEF Next

(* No step takes an announcement away from a node that it has reached.     *)
LEMMA ReachedStep ==
  ASSUME TypeOK, Tables, [Next]_vars, NEW m \in Nodes, NEW x, Reached(m, x)
  PROVE  Reached(m, x)'
<1>a. ASSUME HasKey(m, x) => HasKey(m, x)', delivered \subseteq delivered'
      PROVE  Reached(m, x)'
  BY <1>a DEF Reached
<1>b. ASSUME inbox' = inbox PROVE HasKey(m, x) => HasKey(m, x)'
  BY <1>b DEF HasKey
<1>1. ASSUME NEW k \in Ids, Publish(k) PROVE Reached(m, x)'
  <2> DEFINE p == Publisher[k]
             env == [from |-> p, key |-> k]
  <2>1. env \in Envelopes /\ p \in Nodes
    BY SimulationAssumption DEF Envelopes
  <2>2. inbox' = EnqueueFrom(p, env)
    BY <1>1 DEF Publish
  <2> HIDE DEF p, env
  <2>3. HasKey(m, x) => HasKey(m, x)'
    <3>1. HasKey(m, x) => \E j \in DOMAIN EnqueueFrom(p, env)[m] :
                             EnqueueFrom(p, env)[m][j].key = x
      BY <2>1, EnqueueKeys
    <3> QED
      BY <2>2, <3>1 DEF HasKey
  <2> QED
    BY <1>1, <1>a, <2>3 DEF Publish
<1>2. ASSUME NEW down \in SUBSET Nodes, NEW up \in SUBSET Nodes, BeginRound(down, up)
      PROVE  Reached(m, x)'
  <2>1. HasKey(m, x) => HasKey(m, x)'
    BY <1>2, RoundKeys
  <2> QED
    BY <1>2, <1>a, <2>1 DEF BeginRound
<1>3. CASE SkipOffline \/ TickEnds \/ Drained \/ Keep \/ Prune
  BY <1>3, <1>a, <1>b DEF SkipOffline, TickEnds, Drained, Keep, Prune
<1>4. CASE Receive
  <2> DEFINE env == Head(inbox[at])
  <2>1. HasKey(m, x) => HasKey(m, x)' \/ (m = at /\ x = env.key)
    BY <1>4, ReceiveKeys
  <2>2. delivered \subseteq delivered'
    BY <1>4 DEF Receive
  <2>3. Publisher[env.key] \in Distrusts[at] \/ <<at, env.key>> \in delivered'
    <3>1. \/ Publisher[env.key] \in Distrusts[at]
          \/ delivered' = delivered \cup {<<at, env.key>>}
      BY <1>4 DEF Receive
    <3> QED
      BY <3>1
  <2> HIDE DEF env
  <2> QED
    BY <2>1, <2>2, <2>3 DEF Reached
<1>5. CASE Fetch
  <2>1. delivered' = delivered
    BY <1>5 DEF Fetch
  <2>2. CASE inbox' = inbox
    BY <2>1, <2>2, <1>a, <1>b
  <2>3. CASE inbox' = Forward(at, table[at].notes[i].id)
    <3>1. table[at].notes[i].id \in Ids
      <4>1. table[at].notes[i] \in Notes
        BY <1>5, PrunedTable, Here DEF Fetch
      <4> QED
        BY <4>1 DEF Notes
    <3>2. HasKey(m, x) => HasKey(m, x)'
      BY <2>3, <3>1, ForwardKeys
    <3> QED
      BY <2>1, <3>2, <1>a
  <2> QED
    BY <1>5, <2>2, <2>3 DEF Fetch
<1>6. CASE UNCHANGED vars
  BY <1>6, <1>a, <1>b DEF vars
<1> QED
  BY <1>1, <1>2, <1>3, <1>4, <1>5, <1>6 DEF Next

LEMMA BacklogStep ==
  TypeOK /\ Tables /\ Backlog /\ Absent /\ [Next]_vars => Backlog' /\ Absent'
<1> SUFFICES ASSUME TypeOK, Tables, Backlog, Absent, [Next]_vars
             PROVE  Backlog' /\ Absent'
  OBVIOUS
<1>1. ASSUME NEW n \in Nodes, NEW k \in Active(table'[n])
      PROVE  k \in announcements'[n] /\ Publisher[k] \notin Distrusts[n]
  <2>1. CASE Hears(n)
    <3>1. k \in Active(table[n]) \/ k = Head(inbox[at]).key
      BY <2>1, <1>1 DEF Hears
    <3>2. announcements'[n] = announcements[n] \cup {Head(inbox[at]).key}
      BY <2>1 DEF Hears, TypeOK
    <3> QED
      BY <2>1, <3>1, <3>2 DEF Hears, Backlog
  <2>2. CASE Prunes(n)
    BY <2>2, <1>1 DEF Prunes, Backlog
  <2>3. CASE Fetches(n)
    <3>1. k \in Active(table[n]) /\ k # table[at].notes[i].id
      BY <2>3, <1>1 DEF Fetches
    <3>2. announcements[n] \ {table[at].notes[i].id} \subseteq announcements'[n]
      BY <2>3 DEF Fetches, Fetch, TypeOK
    <3> QED
      BY <3>1, <3>2 DEF Backlog
  <2> QED
    BY <2>1, <2>2, <2>3, TableStep
<1>2. Absent'
  <2>1. ASSUME NEW down \in SUBSET Nodes, NEW up \in SUBSET Nodes, BeginRound(down, up)
        PROVE  Absent'
    BY <2>1 DEF BeginRound, Absent, Leaving
  <2>2. CASE UNCHANGED <<online, away>>
    BY <2>2 DEF Absent
  <2> QED
    BY <2>1, <2>2 DEF Next, Publish, SkipOffline, Receive, Drained, Prune, Keep, Fetch,
                      TickEnds, vars
<1> QED
  BY <1>1, <1>2 DEF Backlog

LEMMA KnownStep ==
  TypeOK /\ Tables /\ Known /\ [Next]_vars => Known' /\ Published \subseteq Published'
<1> SUFFICES ASSUME TypeOK, Tables, Known, [Next]_vars
             PROVE  Known' /\ Published \subseteq Published'
  OBVIOUS
<1>0. \A m \in Nodes : \A x : HasKey(m, x) => x \in Published
  BY DEF Known, HasKey
<1>1. Published \subseteq Published' /\ (\A k \in Ids : Publish(k) => k \in Published')
  <2>1. ASSUME NEW k \in Ids, Publish(k)
        PROVE  Published \subseteq Published' /\ k \in Published'
    <3>1. /\ history' = Append(history, k) /\ DOMAIN history = 1..Len(history)
          /\ Len(history) \in Nat /\ history \in Seq(Ids)
      <4>1. history \in Seq(Ids)
        BY DEF TypeOK
      <4> QED
        BY <2>1, <4>1 DEF Publish
    <3>2. /\ DOMAIN history' = 1..(Len(history) + 1) /\ history'[Len(history) + 1] = k
          /\ \A j \in 1..Len(history) : history'[j] = history[j]
      BY <3>1
    <3>3. Len(history) + 1 \in DOMAIN history' /\ DOMAIN history \subseteq DOMAIN history'
      BY <3>1, <3>2
    <3> QED
      BY <3>1, <3>2, <3>3 DEF Published
  <2>3. (\E k \in Ids : Publish(k)) \/ history' = history
    BY DEF Next, BeginRound, SkipOffline, Receive, Drained, Prune, Keep, Fetch,
           TickEnds, vars
  <2>4. CASE \E k \in Ids : Publish(k)
    BY <2>1, <2>4
  <2>5. \A k \in Ids : Publish(k) => k \in Published'
    BY <2>1
  <2>6. CASE history' = history
    BY <2>5, <2>6 DEF Published
  <2> QED
    BY <2>3, <2>4, <2>5, <2>6
<1>2. ASSUME NEW n \in Nodes, NEW j \in DOMAIN inbox'[n]
      PROVE  inbox'[n][j].key \in Published'
  <2>a. HasKey(n, inbox'[n][j].key) => inbox'[n][j].key \in Published'
    BY <1>0, <1>1
  <2>b. CASE inbox' = inbox
    BY <2>b, <1>1, <1>2 DEF Known
  <2>1. ASSUME NEW k \in Ids, Publish(k) PROVE inbox'[n][j].key \in Published'
    <3> DEFINE p == Publisher[k]
               env == [from |-> p, key |-> k]
    <3>1. env \in Envelopes /\ p \in Nodes /\ env.key = k
      BY SimulationAssumption DEF Envelopes
    <3>2. inbox' = EnqueueFrom(p, env)
      BY <2>1 DEF Publish
    <3> HIDE DEF p, env
    <3>3. inbox'[n][j].key = k \/ HasKey(n, inbox'[n][j].key)
      <4>1. \A x \in DOMAIN EnqueueFrom(p, env)[n] :
               \/ EnqueueFrom(p, env)[n][x].key = env.key
               \/ HasKey(n, EnqueueFrom(p, env)[n][x].key)
        BY <3>1, EnqueueKeys
      <4> QED
        BY <4>1, <3>1, <3>2, <1>2
    <3> QED
      BY <3>3, <2>1, <2>a, <1>1
  <2>2. ASSUME NEW down \in SUBSET Nodes, NEW up \in SUBSET Nodes, BeginRound(down, up)
        PROVE  inbox'[n][j].key \in Published'
    BY <2>2, RoundKeys, <1>1, <1>2, <2>a
  <2>3. CASE SkipOffline \/ TickEnds \/ Drained \/ Keep \/ Prune
    BY <2>3, <2>b DEF SkipOffline, TickEnds, Drained, Keep, Prune
  <2>4. CASE Receive
    BY <2>4, ReceiveKeys, <1>2, <2>a
  <2>5. CASE Fetch
    <3>1. CASE inbox' = inbox
      BY <3>1, <2>b
    <3>2. CASE inbox' = Forward(at, table[at].notes[i].id)
      <4> DEFINE k == table[at].notes[i].id
      <4>1. k \in Ids /\ k \in Active(table[at])
        <5>1. i \in 1..Len(table[at].notes) /\ table[at].notes[i] \in Notes /\ Table(table[at])
          BY <2>5, PrunedTable, Here DEF Fetch
        <5> QED
          BY <5>1 DEF Notes, Table, Indexed, Active
      <4>2. k \in Published
        BY <4>1, Here DEF Known
      <4> HIDE DEF k
      <4>3. inbox'[n][j].key = k \/ HasKey(n, inbox'[n][j].key)
        BY <3>2, <4>1, <1>2, ForwardKeys DEF k
      <4> QED
        BY <4>2, <4>3, <2>a, <1>1
    <3> QED
      BY <2>5, <3>1, <3>2 DEF Fetch
  <2>6. CASE UNCHANGED vars
    BY <2>6, <2>b DEF vars
  <2> QED
    BY <2>1, <2>2, <2>3, <2>4, <2>5, <2>6 DEF Next
<1>3. ASSUME NEW n \in Nodes
      PROVE  Active(table'[n]) \cup table'[n].fetched \subseteq Published
  <2>1. CASE Hears(n)
    <3>1. HasKey(at, Head(inbox[at]).key)
      BY <2>1, ReceiveKeys DEF Hears
    <3>2. Head(inbox[at]).key \in Published
      BY <3>1, <1>0, Here
    <3> QED
      BY <2>1, <3>2 DEF Hears, Known
  <2>2. CASE Prunes(n)
    BY <2>2 DEF Prunes, Known
  <2>3. CASE Fetches(n)
    <3>1. table[at].notes[i].id \in Published
      BY <2>3 DEF Fetches, Known
    <3> QED
      BY <2>3, <3>1 DEF Fetches, Known
  <2> QED
    BY <2>1, <2>2, <2>3, TableStep
<1>4. \A n \in Nodes : /\ \A j \in DOMAIN inbox'[n] : inbox'[n][j].key \in Published'
                      /\ Active(table'[n]) \cup table'[n].fetched \subseteq Published'
  BY <1>1, <1>2, <1>3
<1>5. Known'
  BY <1>4 DEF Known, Active
<1> QED
  BY <1>1, <1>5

LEMMA GapStep ==
  TypeOK /\ Tables /\ Backlog /\ Absent /\ Known /\ NoGap /\ [Next]_vars => NoGap'
<1> SUFFICES ASSUME TypeOK, Tables, Backlog, Absent, Known, NoGap, [Next]_vars
             PROVE  NoGap'
  OBVIOUS
<1> SUFFICES ASSUME NEW n \in Nodes, NEW k \in table'[n].fetched,
                    NEW m \in Nbrs[n] \cap online', m # n
             PROVE  Reached(m, k)'
  <2> SUFFICES ASSUME NEW n \in Nodes, NEW k \in table'[n].fetched,
                      NEW m \in Nbrs[n] \cap online'
               PROVE  \/ m = n \/ Publisher[k] \in Distrusts[m]
                      \/ <<m, k>> \in delivered'
                      \/ \E j \in DOMAIN inbox'[m] : inbox'[m][j].key = k
    BY DEF NoGap
  <2> QED
    BY DEF Reached, HasKey
<1>0. m \in Nodes
  BY SimulationAssumption
<1>1. CASE k \in table[n].fetched /\ m \in online
  <2>1. Reached(m, k)
    BY <1>1 DEF NoGap, Reached, HasKey
  <2> QED
    BY <1>0, <2>1, ReachedStep
<1>2. CASE k \in table[n].fetched /\ m \notin online
  <2>1. PICK down \in SUBSET Nodes, up \in SUBSET Nodes : BeginRound(down, up)
    BY <1>2 DEF Next, Publish, SkipOffline, Receive, Drained, Prune, Keep, Fetch,
                TickEnds, vars
  <2>2. m \in up /\ m \in away
    BY <1>0, <1>2, <2>1 DEF BeginRound, Absent
  <2>3. k \in Published
    BY <1>2 DEF Known
  <2>4. HasKey(m, k)'
    BY <1>0, <2>1, <2>2, <2>3, RoundKeys
  <2> QED
    BY <2>4 DEF Reached
<1>3. CASE k \notin table[n].fetched
  <2>1. Fetches(n) /\ k = table[at].notes[i].id
    BY <1>3, TableStep DEF Hears, Prunes, Fetches
  <2>2. k \in announcements[at] /\ Publisher[k] \notin Distrusts[at]
    BY <2>1 DEF Fetches, Backlog
  <2>3. inbox' = Forward(at, k) /\ online' = online
    BY <2>1, <2>2 DEF Fetches, Fetch
  <2>4. m \in Targets(at)
    BY <2>1, <2>3 DEF Targets, Fetches
  <2>5. k \in Ids
    BY <2>1 DEF Fetches
  <2>6. HasKey(m, k)'
    BY <1>0, <2>3, <2>4, <2>5, ForwardKeys
  <2> QED
    BY <2>6 DEF Reached
<1> QED
  BY <1>1, <1>2, <1>3

-----------------------------------------------------------------------------
(* What two neighbours note of each other.                                 *)
NeighbourStates ==
    [keys : SUBSET Ids, inbound : SUBSET (Ids \X Nodes),
     replicas : SUBSET (Ids \X Nodes), outbound : SUBSET (Ids \X Nodes)]

LEMMA RecordedOutbound ==
  ASSUME NEW a, NEW b, NEW c, NEW d, NEW k, NEW to
  PROVE  RecordOutbound([keys |-> a, inbound |-> b, replicas |-> c, outbound |-> d], k, to) =
            [keys |-> a \cup {k}, inbound |-> b, replicas |-> c, outbound |-> d \cup {<<k, to>>}]
<1> DEFINE r == [keys |-> a, inbound |-> b, replicas |-> c, outbound |-> d]
           o == [keys |-> a \cup {k}, inbound |-> b, replicas |-> c, outbound |-> d]
<1>1. Opened(r, k) = o
  BY DEF Opened
<1>2. [o EXCEPT !.outbound = @ \cup {<<k, to>>}] =
          [keys |-> a \cup {k}, inbound |-> b, replicas |-> c, outbound |-> d \cup {<<k, to>>}]
  OBVIOUS
<1>3. RecordOutbound(r, k, to) = [Opened(r, k) EXCEPT !.outbound = @ \cup {<<k, to>>}]
  BY Zenon DEF RecordOutbound
<1> QED
  BY <1>1, <1>2, <1>3

(* Noting the targets one after the other notes them all, in whatever      *)
(* order they are taken: if not, take a smallest set of targets for which  *)
(* it does not.                                                            *)
LEMMA NotedAll ==
  ASSUME NEW n \in Nodes, NEW k \in Ids, neighbours[n] \in NeighbourStates,
         IsFiniteSet(Targets(n))
  PROVE  /\ Sent(n, k).inbound = neighbours[n].inbound
         /\ Sent(n, k).replicas = neighbours[n].replicas
         /\ Sent(n, k).outbound = neighbours[n].outbound \cup {<<k, m>> : m \in Targets(n)}
         /\ Sent(n, k).keys \subseteq neighbours[n].keys \cup {k}
         /\ Sent(n, k) = [keys |-> Sent(n, k).keys, inbound |-> Sent(n, k).inbound,
                          replicas |-> Sent(n, k).replicas,
                          outbound |-> Sent(n, k).outbound]
<1> DEFINE D == Targets(n)
           s == neighbours[n]
           noting(g, T) ==
               IF T = {} THEN s
               ELSE RecordOutbound(g[T \ {CHOOSE m \in T : TRUE}], k, CHOOSE m \in T : TRUE)
           noted == CHOOSE g : g = [T \in SUBSET D |-> noting(g, T)]
           all(T) == [keys |-> s.keys \cup IF T = {} THEN {} ELSE {k},
                      inbound |-> s.inbound, replicas |-> s.replicas,
                      outbound |-> s.outbound \cup {<<k, m>> : m \in T}]
           f == [T \in SUBSET D |-> all(T)]
<1>1. s = [keys |-> s.keys, inbound |-> s.inbound,
           replicas |-> s.replicas, outbound |-> s.outbound]
  BY DEF NeighbourStates
<1>2. all({}) = s
  BY <1>1
<1>3. ASSUME NEW T \in SUBSET D, NEW m \in T
      PROVE  RecordOutbound(all(T \ {m}), k, m) = all(T)
  <2>1. all(T \ {m}).outbound \cup {<<k, m>>} = all(T).outbound
    OBVIOUS
  <2>2. all(T \ {m}).keys \cup {k} = all(T).keys
    OBVIOUS
  <2>3. RecordOutbound(all(T \ {m}), k, m) =
          [keys |-> all(T \ {m}).keys \cup {k}, inbound |-> s.inbound,
           replicas |-> s.replicas, outbound |-> all(T \ {m}).outbound \cup {<<k, m>>}]
    BY RecordedOutbound
  <2> QED
    BY <2>1, <2>2, <2>3
<1>4. Sent(n, k) = noted[D]
  BY DEF Sent
<1> HIDE DEF all, s, D
<1>5. ASSUME NEW T \in SUBSET D PROVE all(T) = noting(f, T)
  <2>1. CASE T = {}
    BY <1>2, <2>1
  <2>2. CASE T # {}
    <3>1. PICK m : m = CHOOSE x \in T : TRUE
      OBVIOUS
    <3>2. m \in T
      BY <2>2, <3>1
    <3>3. f[T \ {m}] = all(T \ {m})
      BY <3>2
    <3>4. noting(f, T) = RecordOutbound(all(T \ {m}), k, m)
      BY <2>2, <3>1, <3>3
    <3> QED
      BY <1>3, <3>2, <3>4
  <2> QED
    BY <2>1, <2>2
<1>6. f = [T \in SUBSET D |-> noting(f, T)]
  <2> HIDE DEF noting
  <2> QED
    BY <1>5
<1>7. noted = [T \in SUBSET D |-> noting(noted, T)]
  <2> HIDE DEF noting, f
  <2> QED
    BY <1>6
<1> HIDE DEF noted, f
<1>8. \A T \in SUBSET D : noted[T] = all(T)
  <2> DEFINE Bad == {T \in SUBSET D : noted[T] # all(T)}
  <2> SUFFICES ASSUME Bad # {} PROVE FALSE
    OBVIOUS
  <2>1. Bad \subseteq FiniteSubsetsOf(D)
    BY FS_Subset DEF FiniteSubsetsOf, D
  <2>2. PICK T \in Bad : \A U \in Bad : ~(<<U, T>> \in StrictSubsetOrdering(D))
    <3> HIDE DEF Bad
    <3> QED
      BY <2>1, WFMin, FS_StrictSubsetOrderingWellFounded
  <2>3. T \in SUBSET D /\ noted[T] # all(T) /\ noted[T] = noting(noted, T)
    BY <1>7
  <2>4. CASE T = {}
    BY <1>2, <2>3, <2>4
  <2>5. CASE T # {}
    <3>1. PICK m : m = CHOOSE x \in T : TRUE
      OBVIOUS
    <3>2. m \in T
      BY <2>5, <3>1
    <3>3. T \ {m} \notin Bad
      BY <2>2, <2>3, <3>2 DEF StrictSubsetOrdering
    <3>4. noted[T \ {m}] = all(T \ {m})
      BY <2>3, <3>3
    <3>5. noting(noted, T) = RecordOutbound(all(T \ {m}), k, m)
      BY <2>5, <3>1, <3>4
    <3> QED
      BY <1>3, <2>3, <3>2, <3>5
  <2> QED
    BY <2>4, <2>5
<1>9. Sent(n, k) = all(D)
  BY <1>4, <1>8
<1> QED
  BY <1>9 DEF all, s, D

Entries(s) == {s[j] : j \in DOMAIN s}

LEMMA TailEntries ==
  ASSUME NEW S, NEW s \in Seq(S), s # <<>>
  PROVE  /\ Entries(Tail(s)) \subseteq Entries(s)
         /\ Entries(s) \subseteq Entries(Tail(s)) \cup {Head(s)}
         /\ Head(s) \in Entries(s) /\ Head(s) \in S
<1>1. /\ Len(s) \in Nat /\ Len(s) # 0 /\ DOMAIN s = 1..Len(s)
      /\ \A j \in 1..Len(s) : s[j] \in S
  OBVIOUS
<1>2. /\ DOMAIN Tail(s) = 1..(Len(s) - 1) /\ Head(s) = s[1]
      /\ \A j \in 1..(Len(s) - 1) : Tail(s)[j] = s[j + 1]
  OBVIOUS
<1>3. ASSUME NEW j \in 1..(Len(s) - 1) PROVE Tail(s)[j] \in Entries(s)
  <2>1. j + 1 \in 1..Len(s)
    BY <1>1
  <2> QED
    BY <1>1, <1>2, <2>1 DEF Entries
<1>4. ASSUME NEW j \in 1..Len(s) PROVE s[j] \in Entries(Tail(s)) \cup {Head(s)}
  <2>1. j = 1 \/ (j - 1 \in 1..(Len(s) - 1) /\ (j - 1) + 1 = j)
    BY <1>1
  <2>2. s[j] = Head(s) \/ (j - 1 \in DOMAIN Tail(s) /\ Tail(s)[j - 1] = s[j])
    BY <1>2, <2>1
  <2> QED
    BY <2>2 DEF Entries
<1>5. 1 \in 1..Len(s)
  BY <1>1
<1> QED
  BY <1>1, <1>2, <1>3, <1>4, <1>5 DEF Entries

LEMMA ConcatEntries ==
  ASSUME NEW S, NEW s \in Seq(S), NEW t \in Seq(S)
  PROVE  Entries(s \o t) = Entries(s) \cup Entries(t)
<1>1. /\ Len(s) \in Nat /\ DOMAIN s = 1..Len(s)
      /\ Len(t) \in Nat /\ DOMAIN t = 1..Len(t)
  OBVIOUS
<1>2. /\ DOMAIN (s \o t) = 1..(Len(s) + Len(t))
      /\ \A j \in 1..Len(s) : (s \o t)[j] = s[j]
      /\ \A j \in 1..Len(t) : (s \o t)[Len(s) + j] = t[j]
  BY <1>1
<1>3. ASSUME NEW j \in 1..(Len(s) + Len(t))
      PROVE  (s \o t)[j] \in Entries(s) \cup Entries(t)
  <2>1. j \in 1..Len(s) \/ (j - Len(s) \in 1..Len(t) /\ Len(s) + (j - Len(s)) = j)
    BY <1>1
  <2>2. \/ ((s \o t)[j] = s[j] /\ j \in DOMAIN s)
        \/ ((s \o t)[j] = t[j - Len(s)] /\ j - Len(s) \in DOMAIN t)
    BY <1>1, <1>2, <2>1
  <2> QED
    BY <2>2 DEF Entries
<1>4. ASSUME NEW j \in 1..Len(s) PROVE s[j] \in Entries(s \o t)
  <2>1. j \in 1..(Len(s) + Len(t))
    BY <1>1
  <2> QED
    BY <1>2, <2>1 DEF Entries
<1>5. ASSUME NEW j \in 1..Len(t) PROVE t[j] \in Entries(s \o t)
  <2>1. Len(s) + j \in 1..(Len(s) + Len(t))
    BY <1>1
  <2> QED
    BY <1>2, <2>1 DEF Entries
<1>6. Entries(s \o t) \subseteq Entries(s) \cup Entries(t)
  BY <1>2, <1>3 DEF Entries
<1>7. Entries(s) \subseteq Entries(s \o t) /\ Entries(t) \subseteq Entries(s \o t)
  BY <1>1, <1>4, <1>5 DEF Entries
<1> QED
  BY <1>6, <1>7

LEMMA EnqueuedEntries ==
  ASSUME TypeOK, NEW n \in Nodes, NEW m \in Nodes, NEW env \in Envelopes
  PROVE  Entries(EnqueueFrom(n, env)[m]) =
            Entries(inbox[m]) \cup IF m = n /\ n \in online THEN {env} ELSE {}
<1>1. inbox[m] \in Seq(Envelopes)
  BY DEF TypeOK, Envelopes
<1>2. CASE m = n /\ n \in online
  <2>1. EnqueueFrom(n, env)[m] = Append(inbox[m], env)
    BY <1>2 DEF EnqueueFrom, TypeOK
  <2>2. Append(inbox[m], env) = inbox[m] \o <<env>> /\ <<env>> \in Seq(Envelopes)
    BY <1>1
  <2>3. Entries(<<env>>) = {env}
    BY DEF Entries
  <2>4. Entries(inbox[m] \o <<env>>) = Entries(inbox[m]) \cup Entries(<<env>>)
    BY <1>1, <2>2, ConcatEntries
  <2> QED
    BY <1>2, <2>1, <2>2, <2>3, <2>4
<1>3. CASE ~(m = n /\ n \in online)
  <2>1. EnqueueFrom(n, env)[m] = inbox[m]
    BY <1>3 DEF EnqueueFrom, TypeOK
  <2> QED
    BY <1>3, <2>1
<1> QED
  BY <1>2, <1>3

(* An inbox loses the envelope that is drained and no other, and gains     *)
(* envelopes from publishers and those that are handed on.                 *)
HandsOn(m, e) ==
    /\ Fetch /\ e.key \in announcements[at] /\ e.from = at
    /\ inbox' = Forward(at, e.key) /\ m \in Targets(at)

LEMMA InboxStep ==
  ASSUME TypeOK, Tables, [Next]_vars, NEW m \in Nodes
  PROVE  /\ \A e \in Entries(inbox[m]) :
               e \in Entries(inbox'[m]) \/ (Receive /\ m = at /\ e = Head(inbox[at]))
         /\ \A e \in Entries(inbox'[m]) :
               e \in Entries(inbox[m]) \/ e.from = Publisher[e.key] \/ HandsOn(m, e)
<1>0. inbox \in [Nodes -> Seq(Envelopes)] /\ at \in Nodes
  BY DEF TypeOK, Envelopes
<1>1. ASSUME NEW k \in Ids, Publish(k)
      PROVE  /\ Entries(inbox[m]) \subseteq Entries(inbox'[m])
             /\ \A e \in Entries(inbox'[m]) : e \in Entries(inbox[m]) \/ e.from = Publisher[e.key]
  <2> DEFINE env == [from |-> Publisher[k], key |-> k]
  <2>1. env \in Envelopes /\ Publisher[k] \in Nodes /\ env.from = Publisher[env.key]
    BY SimulationAssumption DEF Envelopes
  <2>2. inbox' = EnqueueFrom(Publisher[k], env)
    BY <1>1 DEF Publish
  <2> HIDE DEF env
  <2>3. Entries(inbox'[m]) = Entries(inbox[m]) \cup
            IF m = Publisher[k] /\ Publisher[k] \in online THEN {env} ELSE {}
    BY <2>1, <2>2, EnqueuedEntries
  <2> QED
    BY <2>1, <2>3
<1>2. ASSUME NEW down \in SUBSET Nodes, NEW up \in SUBSET Nodes, BeginRound(down, up)
      PROVE  /\ Entries(inbox[m]) \subseteq Entries(inbox'[m])
             /\ \A e \in Entries(inbox'[m]) : e \in Entries(inbox[m]) \/ e.from = Publisher[e.key]
  <2>1. CatchUp \in Seq(Envelopes) /\ \A e \in Entries(CatchUp) : e.from = Publisher[e.key]
    <3>1. /\ Len(history) \in Nat /\ DOMAIN history = 1..Len(history)
          /\ \A j \in DOMAIN history : history[j] \in Ids
      BY DEF TypeOK
    <3>2. \A j \in DOMAIN history :
            [from |-> Publisher[history[j]], key |-> history[j]] \in Envelopes
      BY <3>1, SimulationAssumption DEF Envelopes
    <3> QED
      BY <3>1, <3>2 DEF CatchUp, Entries
  <2>2. inbox'[m] = inbox[m] \/ inbox'[m] = inbox[m] \o CatchUp
    BY <1>2 DEF BeginRound
  <2>3. inbox[m] \in Seq(Envelopes)
    BY <1>0
  <2>4. Entries(inbox[m] \o CatchUp) = Entries(inbox[m]) \cup Entries(CatchUp)
    BY <2>1, <2>3, ConcatEntries
  <2> HIDE DEF Entries
  <2> QED
    BY <2>1, <2>2, <2>4
<1>3. CASE SkipOffline \/ TickEnds \/ Drained \/ Keep \/ Prune \/ UNCHANGED vars
  <2>1. inbox' = inbox
    BY <1>3 DEF SkipOffline, TickEnds, Drained, Keep, Prune, vars
  <2> QED
    BY <2>1
<1>4. CASE Receive
  <2>1. inbox[at] # <<>> /\ inbox' = [inbox EXCEPT ![at] = Tail(@)] /\ inbox[at] \in Seq(Envelopes)
    BY <1>0, <1>4 DEF Receive
  <2>2. /\ Entries(Tail(inbox[at])) \subseteq Entries(inbox[at])
        /\ Entries(inbox[at]) \subseteq Entries(Tail(inbox[at])) \cup {Head(inbox[at])}
    BY <2>1, TailEntries
  <2>3. CASE m = at
    <3>1. inbox'[m] = Tail(inbox[at])
      BY <1>0, <2>1, <2>3
    <3> QED
      BY <1>4, <2>2, <2>3, <3>1
  <2>4. CASE m # at
    <3>1. inbox'[m] = inbox[m]
      BY <1>0, <2>1, <2>4
    <3> QED
      BY <3>1
  <2> QED
    BY <2>3, <2>4
<1>5. CASE Fetch
  <2> DEFINE k == table[at].notes[i].id
             env == [from |-> at, key |-> k]
  <2>1. inbox' = inbox \/ (inbox' = Forward(at, k) /\ k \in announcements[at])
    BY <1>5 DEF Fetch
  <2>2. CASE inbox' = inbox
    BY <2>2
  <2>3. CASE inbox' = Forward(at, k) /\ k \in announcements[at]
    <3>1. k \in Ids
      <4>1. table[at].notes[i] \in Notes
        BY <1>5, PrunedTable, Here DEF Fetch
      <4> QED
        BY <4>1 DEF Notes
    <3>2. env \in Envelopes
      BY <1>0, <3>1 DEF Envelopes
    <3>3. CASE m \in Targets(at)
      <4>1. inbox'[m] = EnqueueFrom(m, env)[m]
        BY <2>3, <3>3 DEF Forward
      <4>2. Entries(inbox'[m]) \subseteq Entries(inbox[m]) \cup {env}
            /\ Entries(inbox[m]) \subseteq Entries(inbox'[m])
        <5> HIDE DEF env
        <5> QED
          BY <3>2, <4>1, EnqueuedEntries
      <4>3. HandsOn(m, env)
        BY <1>5, <2>3, <3>3 DEF HandsOn
      <4> QED
        BY <4>2, <4>3
    <3>4. CASE m \notin Targets(at)
      <4>1. inbox'[m] = inbox[m]
        BY <2>3, <3>4 DEF Forward
      <4> QED
        BY <4>1
    <3> QED
      BY <3>3, <3>4
  <2> QED
    BY <2>1, <2>2, <2>3
<1>6. CASE (\E k \in Ids : Publish(k)) \/ (\E down, up \in SUBSET Nodes : BeginRound(down, up))
  BY <1>1, <1>2, <1>6
<1> QED
  BY <1>3, <1>4, <1>5, <1>6 DEF Next

(* Handing on puts the envelope in the inbox of each target.               *)
LEMMA ForwardEntries ==
  ASSUME TypeOK, NEW k \in Ids, NEW m \in Targets(at), inbox' = Forward(at, k)
  PROVE  [from |-> at, key |-> k] \in Entries(inbox'[m])
<1> DEFINE env == [from |-> at, key |-> k]
<1>1. env \in Envelopes
  BY DEF Envelopes, TypeOK
<1>2. m \in Nodes /\ m \in online /\ inbox'[m] = EnqueueFrom(m, env)[m]
  BY SimulationAssumption DEF Targets, Forward, TypeOK
<1> HIDE DEF env
<1>3. env \in Entries(inbox'[m])
  BY <1>1, <1>2, EnqueuedEntries
<1> QED
  BY <1>3 DEF env

LEMMA NotedFacts ==
  ASSUME NEW n \in Nodes, neighbours[n] \in NeighbourStates, NEW env \in Envelopes
  PROVE  /\ Noted(n, env) \in NeighbourStates
         /\ Noted(n, env).outbound = neighbours[n].outbound
         /\ Noted(n, env).inbound = neighbours[n].inbound \cup {<<env.key, env.from>>}
         /\ Noted(n, env).replicas = neighbours[n].replicas \cup {<<env.key, env.from>>}
<1> DEFINE s == neighbours[n]
           r == [keys |-> s.keys \cup {env.key},
                 inbound |-> s.inbound \cup {<<env.key, env.from>>},
                 replicas |-> s.replicas, outbound |-> s.outbound]
           q == [keys |-> r.keys, inbound |-> r.inbound,
                 replicas |-> r.replicas \cup {<<env.key, env.from>>},
                 outbound |-> r.outbound]
<1>1. env.key \in Ids /\ env.from \in Nodes
  BY DEF Envelopes
<1>2. s = [keys |-> s.keys, inbound |-> s.inbound,
           replicas |-> s.replicas, outbound |-> s.outbound]
  BY DEF NeighbourStates
<1>3. RecordInbound(s, env.key, env.from) = r
  <2>1. Opened(s, env.key) = [keys |-> s.keys \cup {env.key}, inbound |-> s.inbound,
                              replicas |-> s.replicas, outbound |-> s.outbound]
    BY <1>2 DEF Opened
  <2> QED
    BY <2>1 DEF RecordInbound
<1>4. env.key \in r.keys /\ <<env.key, env.from>> \in r.inbound
  OBVIOUS
<1>5. UpdateReplica(r, env.key, env.from, TRUE) = q
  <2>1. UpdateReplica(r, env.key, env.from, TRUE) =
            [r EXCEPT !.replicas = @ \cup {<<env.key, env.from>>}]
    BY <1>4 DEF UpdateReplica
  <2> QED
    BY <2>1
<1>6. Noted(n, env) = q
  BY <1>3, <1>5 DEF Noted
<1>7. q \in NeighbourStates
  BY <1>1 DEF NeighbourStates
<1> QED
  BY <1>6, <1>7

(* A node holds what it has received, and what it is sent comes from the   *)
(* publisher or from a node that has received it.                          *)
Truthful ==
    /\ neighbours \in [Nodes -> NeighbourStates]
    /\ \A n \in Nodes : \A k \in announcements[n] : <<n, k>> \in delivered
    /\ \A n \in Nodes : \A e \in Entries(inbox[n]) :
          e.from = Publisher[e.key] \/ <<e.from, e.key>> \in delivered

(* What a step does to the neighbour state of a node.                      *)
NotesHeard(n) ==
    /\ Receive /\ n = at
    /\ Publisher[Head(inbox[at]).key] \notin Distrusts[at]
    /\ neighbours' = [neighbours EXCEPT ![at] = Noted(at, Head(inbox[at]))]
    /\ announcements' = [announcements EXCEPT ![at] = @ \cup {Head(inbox[at]).key}]
    /\ delivered' = delivered \cup {<<at, Head(inbox[at]).key>>}
NotesSent(n, k) ==
    /\ Fetch /\ n = at /\ k \in Ids /\ k \in announcements[at]
    /\ neighbours' = [neighbours EXCEPT ![at] = Sent(at, k)]
    /\ inbox' = Forward(at, k)
    /\ delivered' = delivered

LEMMA NeighbourStep ==
  ASSUME TypeOK, Tables, [Next]_vars, neighbours \in [Nodes -> NeighbourStates]
  PROVE  /\ delivered \subseteq delivered'
         /\ \A n \in Nodes : \/ neighbours'[n] = neighbours[n]
                             \/ NotesHeard(n)
                             \/ \E k : NotesSent(n, k)
         /\ \/ neighbours' = neighbours
            \/ NotesHeard(at)
            \/ \E k : NotesSent(at, k)
         /\ (\A n \in Nodes : announcements'[n] \subseteq announcements[n]) \/ NotesHeard(at)
<1>0. at \in Nodes
  BY DEF TypeOK
<1>1. CASE Receive
  <2>1. CASE Publisher[Head(inbox[at]).key] \in Distrusts[at]
    BY <1>1, <2>1 DEF Receive
  <2>2. CASE Publisher[Head(inbox[at]).key] \notin Distrusts[at]
    <3>1. NotesHeard(at)
      BY <1>1, <2>2 DEF Receive, NotesHeard
    <3>2. \A n \in Nodes : n # at => neighbours'[n] = neighbours[n]
      BY <3>1 DEF NotesHeard
    <3>3. delivered \subseteq delivered'
      BY <3>1 DEF NotesHeard
    <3> QED
      BY <3>1, <3>2, <3>3
  <2> QED
    BY <2>1, <2>2
<1>2. CASE Fetch
  <2> DEFINE k == table[at].notes[i].id
  <2>1. k \in Ids
    <3>1. table[at].notes[i] \in Notes
      BY <1>2, PrunedTable, Here DEF Fetch
    <3> QED
      BY <3>1 DEF Notes
  <2>2. /\ delivered' = delivered
        /\ \A n \in Nodes : announcements'[n] \subseteq announcements[n]
        /\ \/ neighbours' = neighbours
           \/ /\ k \in announcements[at] /\ inbox' = Forward(at, k)
              /\ neighbours' = [neighbours EXCEPT ![at] = Sent(at, k)]
    BY <1>2 DEF Fetch, TypeOK
  <2> HIDE DEF k
  <2>3. CASE neighbours' = neighbours
    BY <2>2, <2>3
  <2>4. CASE /\ k \in announcements[at] /\ inbox' = Forward(at, k)
             /\ neighbours' = [neighbours EXCEPT ![at] = Sent(at, k)]
    <3>1. NotesSent(at, k)
      BY <1>2, <2>1, <2>2, <2>4 DEF NotesSent
    <3>2. \A n \in Nodes : n # at => neighbours'[n] = neighbours[n]
      BY <2>4
    <3> QED
      BY <2>2, <3>1, <3>2
  <2> QED
    BY <2>2, <2>3, <2>4
<1>3. CASE ~Receive /\ ~Fetch
  <2>1. UNCHANGED <<neighbours, delivered, announcements>>
    BY <1>3 DEF Next, Publish, BeginRound, SkipOffline, Drained, Prune, Keep, TickEnds, vars
  <2> QED
    BY <2>1
<1> QED
  BY <1>1, <1>2, <1>3

LEMMA TruthfulStep ==
  ASSUME TypeOK, Tables, Truthful, [Next]_vars
  PROVE  Truthful'
<1>0. at \in Nodes /\ neighbours \in [Nodes -> NeighbourStates] /\ delivered \subseteq delivered'
  BY NeighbourStep DEF TypeOK, Truthful
<1>a. ASSUME NotesHeard(at) PROVE Head(inbox[at]) \in Envelopes
  <2>1. inbox[at] \in Seq(Envelopes) /\ inbox[at] # <<>>
    BY <1>a, <1>0 DEF NotesHeard, Receive, TypeOK, Envelopes
  <2> QED
    BY <2>1
<1>1. neighbours' \in [Nodes -> NeighbourStates]
  <2>1. CASE neighbours' = neighbours
    BY <1>0, <2>1
  <2>2. CASE NotesHeard(at)
    <3>1. Noted(at, Head(inbox[at])) \in NeighbourStates
      BY <1>0, <1>a, <2>2, NotedFacts
    <3> QED
      BY <1>0, <2>2, <3>1 DEF NotesHeard
  <2>3. ASSUME NEW k, NotesSent(at, k) PROVE neighbours' \in [Nodes -> NeighbourStates]
    <3>1. neighbours[at] \in NeighbourStates /\ k \in Ids /\ IsFiniteSet(Targets(at))
          /\ Targets(at) \subseteq Nodes
      <4>1. Targets(at) \subseteq Nodes
        BY <1>0, SimulationAssumption DEF Targets
      <4>2. IsFiniteSet(Nodes)
        BY FS_Interval, SimulationAssumption DEF Nodes
      <4> QED
        BY <1>0, <2>3, <4>1, <4>2, FS_Subset DEF NotesSent
    <3> DEFINE t == Sent(at, k)
    <3>2. /\ t = [keys |-> t.keys, inbound |-> t.inbound,
                  replicas |-> t.replicas, outbound |-> t.outbound]
          /\ t.inbound = neighbours[at].inbound /\ t.replicas = neighbours[at].replicas
          /\ t.outbound = neighbours[at].outbound \cup {<<k, m>> : m \in Targets(at)}
          /\ t.keys \subseteq neighbours[at].keys \cup {k}
      BY <1>0, <3>1, NotedAll
    <3> HIDE DEF t
    <3>3. t \in NeighbourStates
      BY <3>1, <3>2 DEF NeighbourStates
    <3> QED
      BY <1>0, <2>3, <3>3 DEF NotesSent, t
  <2> QED
    BY <1>0, <2>1, <2>2, <2>3, NeighbourStep
<1>2. ASSUME NEW n \in Nodes, NEW k \in announcements'[n] PROVE <<n, k>> \in delivered'
  <2>1. CASE k \in announcements[n]
    BY <1>0, <2>1 DEF Truthful
  <2>2. CASE NotesHeard(at) /\ k \notin announcements[n]
    <3>1. n = at /\ k = Head(inbox[at]).key
      BY <1>0, <1>2, <2>2 DEF NotesHeard, TypeOK
    <3> QED
      BY <2>2, <3>1 DEF NotesHeard
  <2> QED
    BY <1>0, <1>2, <2>1, <2>2, NeighbourStep
<1>3. ASSUME NEW n \in Nodes, NEW e \in Entries(inbox'[n])
      PROVE  e.from = Publisher[e.key] \/ <<e.from, e.key>> \in delivered'
  <2>1. CASE e \in Entries(inbox[n])
    BY <1>0, <2>1 DEF Truthful
  <2>2. CASE HandsOn(n, e)
    BY <1>0, <2>2 DEF HandsOn, Truthful
  <2> QED
    BY <2>1, <2>2, InboxStep
<1> QED
  BY <1>1, <1>2, <1>3 DEF Truthful

LEMMA AgreeStep ==
  ASSUME TypeOK, Tables, Truthful, NeighboursAgree, [Next]_vars
  PROVE  NeighboursAgree'
<1>0. at \in Nodes /\ neighbours \in [Nodes -> NeighbourStates] /\ delivered \subseteq delivered'
  BY NeighbourStep DEF TypeOK, Truthful
<1>a. ASSUME NotesHeard(at)
      PROVE  /\ Head(inbox[at]) \in Envelopes /\ Head(inbox[at]) \in Entries(inbox[at])
             /\ neighbours'[at] = Noted(at, Head(inbox[at]))
             /\ \A n \in Nodes : n # at => neighbours'[n] = neighbours[n]
  <2>1. inbox[at] \in Seq(Envelopes) /\ inbox[at] # <<>>
    BY <1>a, <1>0 DEF NotesHeard, Receive, TypeOK, Envelopes
  <2>2. Head(inbox[at]) \in Envelopes /\ Head(inbox[at]) \in Entries(inbox[at])
    BY <2>1, TailEntries
  <2>3. neighbours' = [neighbours EXCEPT ![at] = Noted(at, Head(inbox[at]))]
    BY <1>a DEF NotesHeard
  <2> QED
    BY <1>0, <2>2, <2>3
<1>b. ASSUME NEW k, NotesSent(at, k)
      PROVE  /\ neighbours'[at].inbound = neighbours[at].inbound
             /\ neighbours'[at].replicas = neighbours[at].replicas
             /\ neighbours'[at].outbound =
                   neighbours[at].outbound \cup {<<k, m>> : m \in Targets(at)}
             /\ \A n \in Nodes : n # at => neighbours'[n] = neighbours[n]
  <2>1. neighbours[at] \in NeighbourStates /\ k \in Ids /\ IsFiniteSet(Targets(at))
    <3>1. Targets(at) \subseteq Nodes
      BY <1>0, SimulationAssumption DEF Targets
    <3>2. IsFiniteSet(Nodes)
      BY FS_Interval, SimulationAssumption DEF Nodes
    <3> QED
      BY <1>0, <1>b, <3>1, <3>2, FS_Subset DEF NotesSent
  <2>2. neighbours' = [neighbours EXCEPT ![at] = Sent(at, k)]
    BY <1>b DEF NotesSent
  <2>3. neighbours'[at] = Sent(at, k) /\ \A n \in Nodes : n # at => neighbours'[n] = neighbours[n]
    BY <1>0, <2>2
  <2> QED
    BY <1>0, <2>1, <2>3, NotedAll
<1>c. ASSUME NEW m \in Nodes PROVE neighbours[m].inbound \subseteq neighbours'[m].inbound
  <2>1. CASE neighbours'[m] = neighbours[m]
    BY <2>1
  <2>2. CASE NotesHeard(m)
    <3>1. NotesHeard(at) /\ m = at
      BY <2>2 DEF NotesHeard
    <3>2. Noted(at, Head(inbox[at])).inbound =
             neighbours[at].inbound \cup {<<Head(inbox[at]).key, Head(inbox[at]).from>>}
      BY <1>0, <1>a, <3>1, NotedFacts
    <3> QED
      BY <1>a, <3>1, <3>2
  <2>3. ASSUME NEW k, NotesSent(m, k) PROVE neighbours[m].inbound \subseteq neighbours'[m].inbound
    <3>1. NotesSent(at, k) /\ m = at
      BY <2>3 DEF NotesSent
    <3> QED
      BY <1>b, <3>1
  <2> QED
    BY <1>0, <2>1, <2>2, <2>3, NeighbourStep
<1>1. ASSUME NEW n \in Nodes, NEW m \in Nodes, NEW k \in Ids,
             <<k, m>> \in neighbours'[n].outbound
      PROVE  \/ Publisher[k] \in Distrusts[m]
             \/ <<k, n>> \in neighbours'[m].inbound
             \/ [from |-> n, key |-> k] \in Entries(inbox'[m])
  <2>1. CASE <<k, m>> \in neighbours[n].outbound
    <3>1. \/ Publisher[k] \in Distrusts[m]
          \/ <<k, n>> \in neighbours[m].inbound
          \/ [from |-> n, key |-> k] \in Entries(inbox[m])
      <4>1. \/ Publisher[k] \in Distrusts[m]
            \/ <<k, n>> \in neighbours[m].inbound
            \/ \E j \in DOMAIN inbox[m] : inbox[m][j] = [from |-> n, key |-> k]
        BY <2>1 DEF NeighboursAgree
      <4> QED
        BY <4>1 DEF Entries
    <3>2. CASE Publisher[k] \in Distrusts[m] \/ <<k, n>> \in neighbours[m].inbound
      BY <1>c, <3>2
    <3>3. CASE [from |-> n, key |-> k] \in Entries(inbox[m])
      <4>1. PICK e : e = [from |-> n, key |-> k]
        OBVIOUS
      <4>2. e.from = n /\ e.key = k
        BY <4>1
      <4>3. e \in Entries(inbox'[m]) \/ (Receive /\ m = at /\ e = Head(inbox[at]))
        BY <3>3, <4>1, InboxStep
      <4>4. CASE Receive /\ m = at /\ e = Head(inbox[at])
        <5>1. CASE Publisher[k] \in Distrusts[m]
          BY <5>1
        <5>2. CASE Publisher[k] \notin Distrusts[m]
          <6>1. NotesHeard(at)
            BY <4>2, <4>4, <5>2 DEF NotesHeard, Receive
          <6>2. Noted(at, e).inbound = neighbours[at].inbound \cup {<<e.key, e.from>>}
            BY <1>0, <1>a, <4>4, <6>1, NotedFacts
          <6>3. <<k, n>> \in neighbours'[m].inbound
            BY <1>a, <4>2, <4>4, <6>1, <6>2
          <6> QED
            BY <6>3
        <5> QED
          BY <5>1, <5>2
      <4> QED
        BY <4>1, <4>3, <4>4
    <3> QED
      BY <3>1, <3>2, <3>3
  <2>2. CASE <<k, m>> \notin neighbours[n].outbound
    <3>1. ~NotesHeard(n)
      <4> SUFFICES ASSUME NotesHeard(n) PROVE FALSE
        OBVIOUS
      <4>1. NotesHeard(at) /\ n = at
        BY DEF NotesHeard
      <4>2. Noted(at, Head(inbox[at])).outbound = neighbours[at].outbound
        BY <1>0, <1>a, <4>1, NotedFacts
      <4> QED
        BY <1>1, <1>a, <2>2, <4>1, <4>2
    <3>2. PICK x : NotesSent(n, x)
      BY <1>0, <1>1, <2>2, <3>1, NeighbourStep
    <3>3. NotesSent(at, x) /\ n = at /\ x \in Ids /\ inbox' = Forward(at, x)
      BY <3>2 DEF NotesSent
    <3>4. k = x /\ m \in Targets(at)
      <4>1. <<k, m>> \in {<<x, y>> : y \in Targets(at)}
        BY <1>1, <1>b, <2>2, <3>3
      <4> QED
        BY <4>1
    <3> QED
      BY <3>3, <3>4, ForwardEntries
  <2> QED
    BY <2>1, <2>2
<1>2. ASSUME NEW n \in Nodes, NEW m \in Nodes, NEW k \in Ids,
             <<k, m>> \in neighbours'[n].replicas
      PROVE  m = Publisher[k] \/ <<m, k>> \in delivered'
  <2>1. CASE <<k, m>> \in neighbours[n].replicas
    BY <1>0, <2>1 DEF NeighboursAgree
  <2>2. CASE <<k, m>> \notin neighbours[n].replicas
    <3>1. ASSUME NEW x, NotesSent(n, x) PROVE FALSE
      <4>1. NotesSent(at, x) /\ n = at
        BY <3>1 DEF NotesSent
      <4> QED
        BY <1>2, <1>b, <2>2, <4>1
    <3>2. NotesHeard(n)
      BY <1>0, <1>2, <2>2, <3>1, NeighbourStep
    <3>3. NotesHeard(at) /\ n = at
      BY <3>2 DEF NotesHeard
    <3> DEFINE e == Head(inbox[at])
    <3>4. e \in Envelopes /\ e \in Entries(inbox[at]) /\ neighbours'[at] = Noted(at, e)
      BY <1>a, <3>3
    <3> HIDE DEF e
    <3>5. Noted(at, e).replicas = neighbours[at].replicas \cup {<<e.key, e.from>>}
      BY <1>0, <3>4, NotedFacts
    <3>6. k = e.key /\ m = e.from
      BY <1>2, <2>2, <3>3, <3>4, <3>5
    <3> QED
      BY <1>0, <3>4, <3>6 DEF Truthful
  <2> QED
    BY <2>1, <2>2
<1>3. ASSUME NEW n \in Nodes, NEW m \in Nodes, NEW k \in Ids,
             <<k, m>> \in neighbours'[n].outbound
      PROVE  \/ Publisher[k] \in Distrusts[m]
             \/ <<k, n>> \in neighbours'[m].inbound
             \/ \E j \in DOMAIN inbox'[m] : inbox'[m][j] = [from |-> n, key |-> k]
  <2>1. [from |-> n, key |-> k] \in Entries(inbox'[m]) =>
            \E j \in DOMAIN inbox'[m] : inbox'[m][j] = [from |-> n, key |-> k]
    BY DEF Entries
  <2> QED
    BY <1>1, <1>3, <2>1
<1>4. ASSUME NEW n \in Nodes, NEW m \in Nodes, NEW k \in Ids
      PROVE  /\ <<k, m>> \in neighbours'[n].outbound =>
                   \/ Publisher[k] \in Distrusts[m]
                   \/ <<k, n>> \in neighbours'[m].inbound
                   \/ \E j \in DOMAIN inbox'[m] : inbox'[m][j] = [from |-> n, key |-> k]
             /\ <<k, m>> \in neighbours'[n].replicas =>
                   m = Publisher[k] \/ <<m, k>> \in delivered'
  BY <1>2, <1>3
<1> QED
  BY <1>4, Zenon DEF NeighboursAgree

-----------------------------------------------------------------------------
IInv == /\ TypeOK /\ Tables /\ Unseen /\ ExaminedOnce
        /\ Backlog /\ Absent /\ Known /\ NoGap /\ Truthful /\ NeighboursAgree

LEMMA Inductive == Spec => []IInv
<1>1. Init => IInv
  <2> SUFFICES ASSUME Init PROVE IInv
    OBVIOUS
  <2> USE SimulationAssumption
  <2>1. /\ 1 \in Nodes /\ Table(Empty) /\ IsTable(Empty) /\ Len(Empty.notes) = 0
        /\ Active(Empty) = {} /\ Empty.fetched = {}
    BY EmptyTable DEF Nodes, Empty, Table, Active
  <2>2. TypeOK
    BY <2>1 DEF Init, TypeOK
  <2>3. Tables
    BY <2>1, MaxActiveAssumption DEF Init, Tables
  <2>4. Unseen /\ ExaminedOnce /\ Absent
    BY DEF Init, Unseen, ExaminedOnce, Absent
  <2>5. Backlog /\ Known /\ NoGap
    BY <2>1 DEF Init, Backlog, Known, NoGap
  <2>6. Truthful /\ NeighboursAgree
    <3>1. \A n \in Nodes : /\ neighbours[n] = NoNeighbours /\ announcements[n] = {}
                           /\ Entries(inbox[n]) = {}
      BY DEF Init, Entries
    <3>2. NoNeighbours \in NeighbourStates /\ NoNeighbours.outbound = {}
          /\ NoNeighbours.replicas = {}
      BY DEF NoNeighbours, NeighbourStates
    <3>3. neighbours \in [Nodes -> NeighbourStates]
      BY <3>2 DEF Init
    <3> QED
      BY <3>1, <3>2, <3>3 DEF Truthful, NeighboursAgree
  <2> QED
    BY <2>2, <2>3, <2>4, <2>5, <2>6 DEF IInv
<1>2. IInv /\ [Next]_vars => IInv'
  BY TypeStep, ScanStep, BacklogStep, KnownStep, GapStep, TruthfulStep, AgreeStep DEF IInv
<1> QED
  BY <1>1, <1>2, PTL DEF Spec

(* Whatever is added, evicted, expired or fetched, the position map of a   *)
(* propagator stays the inverse of its array, and the array within its     *)
(* limit (Propagator.addNote, removeAt, tick).                             *)
THEOREM TablesStayConsistent == Spec => []TablesConsistent
<1>1. IInv => TablesConsistent
  BY DEF IInv, Tables, Table, TablesConsistent, Consistent
<1> QED
  BY <1>1, Inductive, PTL

(* A tick that removes notes while it walks the array examines each note   *)
(* once (Propagator.tick).                                                 *)
THEOREM EachExaminedOnce == Spec => []ExaminedOnce
<1>1. IInv => ExaminedOnce
  BY DEF IInv
<1> QED
  BY <1>1, Inductive, PTL

(* In any graph and under any churn, what a node has handed on reaches     *)
(* each trusting neighbour that is online or comes back                    *)
(* (forwardFetchedAnnouncement, triggerDeltaCatchup).                      *)
THEOREM CatchUpClosesGap == Spec => []NoGap
<1>1. IInv => NoGap
  BY DEF IInv
<1> QED
  BY <1>1, Inductive, PTL

(* What a node notes as handed to a neighbour is there or on its way, and  *)
(* whom it takes for a replica has published or received the announcement  *)
(* (NeighbourStateMap as used by forwardFetchedAnnouncement and            *)
(* receiveAnnouncement).                                                   *)
THEOREM StatesAgree == Spec => []NeighboursAgree
<1>1. IInv => NeighboursAgree
  BY DEF IInv
<1> QED
  BY <1>1, Inductive, PTL
=============================================================================
