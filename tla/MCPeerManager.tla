--------------------------- MODULE MCPeerManager ---------------------------
(* PeerManager with small sets for TLC.                                    *)
EXTENDS PeerManager, TLC

CONSTANTS k1, k2, u1, u2

MCKeys == {k1, k2}
MCUrls == {u1, u2}
(* k1 listens at u1 and k2 at u2; both may also dial this node.            *)
MCUrlOwner == (u1 :> k1) @@ (u2 :> k2)

MCOneKey == {k1}
MCOneUrl == {u1}
MCOneUrlOwner == u1 :> k1

Symmetry == Permutations(Conns) \cup Permutations(Rws)
=============================================================================
