--------------------------- MODULE NeighbourState ---------------------------
(***************************************************************************)
(* What a node remembers of its neighbours about each announcement:        *)
(* NeighbourStateMap of src/src/core/neighbour-state.ts.  A state is a     *)
(* value and each operator one method.  Rounds, probabilities and piece    *)
(* ranges are left out: no decision of the program reads them.             *)
(***************************************************************************)

NoNeighbours == [keys |-> {}, inbound |-> {}, replicas |-> {}, outbound |-> {}]

(* getOrCreate.                                                            *)
Opened(s, k) == [s EXCEPT !.keys = @ \cup {k}]

RecordInbound(s, k, from) ==
    [Opened(s, k) EXCEPT !.inbound = @ \cup {<<k, from>>}]

RecordOutbound(s, k, to) ==
    [Opened(s, k) EXCEPT !.outbound = @ \cup {<<k, to>>}]

(* Only an inbound neighbour of a known key can hold a replica.            *)
UpdateReplica(s, k, node, has) ==
    IF k \in s.keys /\ <<k, node>> \in s.inbound
    THEN [s EXCEPT !.replicas = IF has THEN @ \cup {<<k, node>>} ELSE @ \ {<<k, node>>}]
    ELSE s
=============================================================================
