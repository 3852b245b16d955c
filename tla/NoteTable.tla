------------------------------ MODULE NoteTable ------------------------------
(***************************************************************************)
(* The table of active notes inside the propagator                         *)
(* (src/src/core/propagation/propagator.ts): an array of notes, a map from *)
(* note id to its position in the array, and the ids that were fetched.    *)
(* A table is a value; each operator is one method.  Removal moves the     *)
(* last note into the gap.                                                 *)
(***************************************************************************)
EXTENDS Naturals, Sequences

CONSTANTS
    Ids,        \* note ids
    Sources,    \* nodes a note is heard from
    MaxActive   \* maxActive (10000 in the code)

ASSUME MaxActiveAssumption == MaxActive \in Nat

Notes == [id: Ids, src: Sources, born: Nat]
IsTable(t) ==
    /\ t.notes \in Seq(Notes) /\ t.fetched \subseteq Ids
    /\ DOMAIN t.positions \subseteq Ids
    /\ t.positions \in [DOMAIN t.positions -> Nat \ {0}]
    /\ t = [notes |-> t.notes, positions |-> t.positions, fetched |-> t.fetched]

Empty == [notes |-> <<>>, positions |-> [x \in {} |-> 1], fetched |-> {}]

(* removeAt: the position of the note that moves is set to the gap.        *)
RemoveAtBug(t, i) ==
    LET last == Len(t.notes)
        gone == t.notes[i].id
    IN [t EXCEPT !.notes = SubSeq([t.notes EXCEPT ![i] = t.notes[last]], 1, last - 1),
                 !.positions = [x \in DOMAIN t.positions \ {gone} |-> t.positions[x]]]
RemoveAt(t, i) ==
    LET last == Len(t.notes)
        gone == t.notes[i].id
        moved == t.notes[last].id
    IN [t EXCEPT !.notes = SubSeq([t.notes EXCEPT ![i] = t.notes[last]], 1, last - 1),
                 !.positions = [x \in DOMAIN t.positions \ {gone} |->
                                   IF x = moved THEN i ELSE t.positions[x]]]

Appended(t, note) ==
    [t EXCEPT !.notes = Append(t.notes, note),
              !.positions = [x \in DOMAIN t.positions \cup {note.id} |->
                                IF x = note.id THEN Len(t.notes) + 1
                                ELSE t.positions[x]]]

(* addNote: nothing for a fetched id, the last source for an active one,   *)
(* and at the limit the first note of the array makes room.                *)
AddNote(t, id, src, born) ==
    CASE id \in t.fetched -> t
      [] id \notin t.fetched /\ id \in DOMAIN t.positions ->
            [t EXCEPT !.notes = [@ EXCEPT ![t.positions[id]].src = src]]
      [] OTHER ->
            LET more == Appended(t, [id |-> id, src |-> src, born |-> born])
            IN IF Len(more.notes) > MaxActive THEN RemoveAt(more, 1) ELSE more

(* The note at place i goes to the fetch handler.                          *)
Fetched(t, i) == [RemoveAt(t, i) EXCEPT !.fetched = @ \cup {t.notes[i].id}]

-----------------------------------------------------------------------------
(* The position map is the inverse of the array, so that no id is active   *)
(* twice and an update reaches the note it is meant for, and what was      *)
(* fetched is not active.                                                  *)
Indexed(t) ==
    /\ \A i \in 1..Len(t.notes) :
        /\ t.notes[i].id \in DOMAIN t.positions
        /\ t.positions[t.notes[i].id] = i
    /\ \A x \in DOMAIN t.positions :
        /\ t.positions[x] \in 1..Len(t.notes)
        /\ t.notes[t.positions[x]].id = x
    /\ \A x \in DOMAIN t.positions : x \notin t.fetched

(* Between two methods the array keeps to its limit, too.                  *)
Consistent(t) == Indexed(t) /\ Len(t.notes) <= MaxActive
=============================================================================
