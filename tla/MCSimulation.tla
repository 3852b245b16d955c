---------------------------- MODULE MCSimulation ----------------------------
(* Simulation of three nodes in a line with three announcements, one of    *)
(* them of a publisher the last node distrusts.                            *)
EXTENDS Simulation, TLC

CONSTANTS x, y, z

MCIds == {x, y, z}
MCSources == 1..3
MCNbrs == (1 :> {2}) @@ (2 :> {1, 3}) @@ (3 :> {2})
MCPublisher == (x :> 1) @@ (y :> 1) @@ (z :> 2)
MCDistrusts == (1 :> {}) @@ (2 :> {}) @@ (3 :> {2})
=============================================================================
