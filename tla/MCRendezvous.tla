---------------------------- MODULE MCRendezvous ----------------------------
(* Rendezvous of two bootstrap nodes and two regular ones, from states of  *)
(* the program in which everything so far has been passed on: one of c1    *)
(* and c2 dials the other once it has heard of it, which closes a ring     *)
(* through a bootstrap node with the other one outside.                    *)
EXTENDS Rendezvous, TLC

CONSTANTS b1, b2, c1, c2

MCBoot == {b1, b2}
MCClient == {c1, c2}
MCOverlay == {{b1, c1}, {b1, c2}, {b2, c1}, {b2, c2}, {c1, c2}}
MCCapacity == (b1 :> 2) @@ (b2 :> 1)
MCMaxPeers == (c1 :> 2) @@ (c2 :> 2)
MCDistrusts == (c1 :> {}) @@ (c2 :> {})
MCTtl == [n \in MCBoot \cup MCClient |-> IF n = c2 THEN 1 ELSE 0]

First(n) == [owner |-> n, at |-> 0]

(* At time t, with MaxChanges - spent changes to come.                     *)
Quiet(t, spent) ==
    /\ clock = t /\ changes = spent /\ swept = [b \in Boot |-> 0]
    /\ chan = [a \in Node |-> [b \in Node |-> <<>>]]
    /\ late = {} /\ hidden = {}

(* c2 has met b1 and b2; c1 is a newcomer.                                 *)
MCNewcomer ==
    /\ links = {{b1, c2}, {b2, c2}}
    /\ cache = (b1 :> <<First(c2), First(b2)>>) @@ (b2 :> <<First(b1)>>)
    /\ known = (c1 :> {}) @@ (c2 :> {First(b1), First(b2)})
    /\ dialled = (c1 :> {}) @@ (c2 :> {})

(* c1 has met b2 as well and heard of c2 and b1.                           *)
MCMet ==
    /\ links = {{b1, c2}, {b2, c1}, {b2, c2}}
    /\ cache = (b1 :> <<First(b2), First(c1)>>) @@ (b2 :> <<First(c1)>>)
    /\ known = (c1 :> {First(b1), First(b2), First(c2)})
               @@ (c2 :> {First(b1), First(b2), First(c1)})
    /\ dialled = (c1 :> {b1, c2}) @@ (c2 :> {})

(* Two changes after the clock has stopped and sweeps are due, or one      *)
(* while it ticks.                                                         *)
MCInit ==
    \/ MCNewcomer /\ Quiet(1, 0)
    \/ (MCNewcomer \/ MCMet) /\ Quiet(0, 1)

MCSpec == MCInit /\ [][Next]_vars /\ Delivery
=============================================================================
