--------------------------- MODULE MCPieceFetcher ---------------------------
(* PieceFetcher with two calls at once and two neighbours for TLC.         *)
EXTENDS PieceFetcher, TLC

CONSTANTS c1, c2, p1, p2

MCCalls == {c1, c2}
MCNeighbours == {p1, p2}
(* Piece 0 is claimed by both, piece 1 by one, piece 2 by nobody.          *)
MCClaims == (p1 :> {0, 1}) @@ (p2 :> {0})
=============================================================================
