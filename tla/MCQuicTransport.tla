--------------------------- MODULE MCQuicTransport ---------------------------
(* QuicTransport with one dialled peer, and a caller that is another node. *)
(* MCSameNode makes it the dialled one, for reproducing a defect.          *)
EXTENDS QuicTransport, TLC

CONSTANTS a1, a2, k1, k2

MCAddrs == {a1, a2}
MCKeys == {k1, k2}
MCPeers == {a1}
MCCallers == {a2}
MCKeyOf == (a1 :> k1) @@ (a2 :> k2)
(* The dialled peer dials back, from a port of its own.                    *)
MCSameNode == (a1 :> k1) @@ (a2 :> k1)
=============================================================================
