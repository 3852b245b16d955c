--------------------------- MODULE MCDataDirectory ---------------------------
(* A daemon and two put commands over one data directory.                  *)
EXTENDS DataDirectory, TLC

CONSTANTS d1, p1, p2

MCDaemon == {d1}
MCCommand == {p1, p2}
Symmetry == Permutations(MCCommand)
=============================================================================
