---------------------------- MODULE MCEventSync ----------------------------
(* EventSync on small overlays for TLC.                                    *)
EXTENDS EventSync, TLC

CONSTANTS n1, n2, n3, e1, e2

MCPair == {n1, n2}
MCTrio == {n1, n2, n3}
MCPairOverlay == {{n1, n2}}
MCLine == {{n1, n2}, {n2, n3}}
MCTriangle == {{n1, n2}, {n2, n3}, {n1, n3}}
MCOneAnn == {e1}
MCTwoAnns == {e1, e2}
MCOneAuthor == e1 :> n1
MCTwoAuthors == e1 :> n3 @@ e2 :> n1
MCOuter == {n1, n3}
MCSecond == {n2}

(* A later state to start from: the connections of L were made and have    *)
(* finished their delta requests at time t, and the node h alone, which is *)
(* on none of them, has published E at time 1.                             *)
MCMet(L, t, h, E) ==
    /\ log = [n \in Node |-> IF n = h THEN E ELSE {}]
    /\ store = log
    /\ at = [e \in Events |-> IF e \in E THEN 1 ELSE 0]
    /\ clock = t
    /\ penalty = [n \in Node |-> 0]
    /\ links = L
    /\ chan = [a \in Node |-> [b \in Node |-> <<>>]]
    /\ lastSeen = [a \in Node |-> [b \in Node |-> IF {a, b} \in L THEN t ELSE 0]]
    /\ late = {} /\ hidden = {}
    /\ sessions = Cardinality(L)
    /\ stored = IF h \in Relayed THEN E ELSE {}
    /\ heard = [n \in Node |-> {}]

MCFair == [][Next]_vars /\ \A n, p \in Node : WF_vars(Receive(n, p))

MCOneLinkSpec == MCMet({{n1, n2}}, 2, n3, {e1}) /\ MCFair
MCRingSpec == MCMet(MCTriangle, 1, n1, {}) /\ MCFair
=============================================================================
