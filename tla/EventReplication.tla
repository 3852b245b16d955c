-------------------------- MODULE EventReplication --------------------------
(***************************************************************************)
(* What the sync managers of all nodes promise together, with no message   *)
(* in sight: each node keeps a log of events that never loses one, a node  *)
(* adds an event by publishing it, and learns others from some other log.  *)
(***************************************************************************)
CONSTANTS Node, Event

VARIABLE log       \* the event log of each node, as a set of events

Init == log = [n \in Node |-> {}]

Known == UNION {log[m] : m \in Node}

Publish(n, e) ==
    /\ e \notin Known
    /\ log' = [log EXCEPT ![n] = @ \cup {e}]

Learn(n, E) ==
    /\ E \subseteq Known
    /\ log' = [log EXCEPT ![n] = @ \cup E]

Next == \E n \in Node : \/ \E e \in Event : Publish(n, e)
                        \/ \E E \in SUBSET Event : Learn(n, E)

Spec == Init /\ [][Next]_log
=============================================================================
