------------------------------ MODULE MCSearch ------------------------------
(* A node s that searches through its neighbours p and q; o is behind q.   *)
EXTENDS Search, TLC

CONSTANTS s, p, q, o, x1, x2

MCNode == {s, p, q, o}
MCSeeker == {s}
MCOverlay == {{s, p}, {s, q}, {q, o}}
MCIdent == {x1, x2}
MCOwner == (x1 :> o) @@ (x2 :> p)
Seen(x, port, confidence, dialback) ==
    [subject |-> x, transport |-> "ws", ip |-> "ip", port |-> port,
     confidence |-> confidence, dialback |-> dialback]
MCPublisher == {x1}
MCReport == {Seen(x1, 1, 50, TRUE), Seen(x1, 1, 70, FALSE), Seen(x1, 2, 75, FALSE),
             Seen(x1, 3, 60, TRUE)}
OldRoute(x, sequence) ==
    Route(BuildRoute(x, <<Seen(x, sequence, 50, TRUE)>>, sequence, 0))
MCPast ==
    (s :> {<<>>, <<Announcement(x1)>>})
    @@ (p :> {<<OldRoute(x2, 1), Announcement(x1)>>,
              <<OldRoute(x2, 1), OldRoute(x1, 1)>>})
    @@ (q :> {<<Announcement(x2), OldRoute(x1, 1), OldRoute(x1, 2)>>,
              <<OldRoute(x1, 2), OldRoute(x1, 1)>>})
    @@ (o :> {<<OldRoute(x1, 1), OldRoute(x1, 2)>>})
=============================================================================
