---------------------------- MODULE Reachability ----------------------------
(***************************************************************************)
(* The algorithms of src/src/core/discovery/reachability.ts: a route is    *)
(* built from what others have observed of a node's address, and of the    *)
(* routes of an identity the latest is resolved to what can be dialled.    *)
(*                                                                         *)
(* Confidences are integers in hundredths.  A report is                    *)
(* [subject, transport, ip, port, confidence, dialback].                   *)
(***************************************************************************)
EXTENDS Integers, Sequences, Functions, Subsequence

CONSTANT None

Key(r) == <<r.transport, r.ip, r.port>>
Score(r) == r.confidence + (IF r.dialback THEN 35 ELSE -15)
Clamp(c) == IF c < 0 THEN 0 ELSE IF c > 100 THEN 100 ELSE c

(* One report per endpoint, the first of those that score best.            *)
PutBug(agg, r) ==
    IF \E i \in DOMAIN agg : Key(agg[i]) = Key(r) THEN agg ELSE Append(agg, r)
Put(agg, r) ==
    IF \E i \in DOMAIN agg : Key(agg[i]) = Key(r)
    THEN [i \in DOMAIN agg |->
             IF Key(agg[i]) = Key(r) /\ Score(r) > Score(agg[i]) THEN r ELSE agg[i]]
    ELSE Append(agg, r)
Aggregate(reports) ==
    LET agg[i \in 0..Len(reports)] ==
            IF i = 0 THEN <<>> ELSE Put(agg[i - 1], reports[i])
    IN agg[Len(reports)]

(* Array.sort by falling score, which leaves equal ones as they are.       *)
Before(s, i, j) ==
    \/ Score(s[i]) > Score(s[j])
    \/ Score(s[i]) = Score(s[j]) /\ i < j
Sorted(s) ==
    [k \in DOMAIN s |->
        s[CHOOSE i \in DOMAIN s :
            Cardinality({j \in DOMAIN s : Before(s, j, i)}) = k - 1]]

Relay == [transport |-> "relay", ip |-> "relay.example", port |-> 0,
          confidence |-> 100]

(* The two best endpoints and the relay.                                   *)
Endpoints(reports) ==
    LET ranked == Sorted(Aggregate(reports))
        best == SubSeq(ranked, 1, IF Len(ranked) > 2 THEN 2 ELSE Len(ranked))
        endpoint(r) == [transport |-> r.transport, ip |-> r.ip,
                        port |-> r.port, confidence |-> Clamp(Score(r))]
    IN Append([i \in DOMAIN best |-> endpoint(best[i])], Relay)

EstimateNatType(reports) ==
    LET ips == {reports[i].ip : i \in DOMAIN reports}
        ports == {reports[i].port : i \in DOMAIN reports}
        successes == Cardinality({i \in DOMAIN reports : reports[i].dialback})
    IN CASE reports = <<>> -> "unknown"
         [] reports # <<>> /\ successes = 0 -> "symmetric-nat"
         [] successes >= 2 /\ Cardinality(ips) > 1 -> "cgnat"
         [] successes = 1 /\ Cardinality(ips) > 1 -> "unknown"
         [] successes > 0 /\ Cardinality(ips) = 1 /\ Cardinality(ports) > 1
              -> "port-changing"
         [] OTHER -> "stable-public"

About(x, reports) ==
    Kept(reports, {i \in DOMAIN reports : reports[i].subject = x})

(* Endpoints come from the reports about x, the NAT estimate from all.     *)
BuildRoute(x, reports, sequence, now) ==
    [identity |-> x, sequence |-> sequence, observedAt |-> now,
     endpoints |-> Endpoints(About(x, reports)),
     nat |-> EstimateNatType(reports)]

Newer(r, s) ==
    \/ r.sequence > s.sequence
    \/ r.sequence = s.sequence /\ r.observedAt > s.observedAt

SameVersion(r, s) == r.identity = s.identity /\ ~Newer(r, s) /\ ~Newer(s, r)

(* resolveRouteAnnouncement: the newest of the routes of x.                *)
Latest(x, routes) ==
    LET latest[i \in 0..Len(routes)] ==
            IF i = 0 THEN None
            ELSE LET r == routes[i] l == latest[i - 1]
                 IN IF r.identity = x /\ (l = None \/ Newer(r, l)) THEN r ELSE l
    IN latest[Len(routes)]

(* routeAnnouncementToDialTargets: every endpoint, the relay included.     *)
Targets(route) == Range(route.endpoints)

(* Those that resolveRouteAnnouncement calls dialable.                     *)
Dialable(route) == {t \in Targets(route) : t.transport # "relay"}
=============================================================================
