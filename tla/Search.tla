------------------------------- MODULE Search -------------------------------
(***************************************************************************)
(* Looking up the route of an identity: searchIdentity of                  *)
(* src/src/node/qdht-node.ts, search requests and responses of             *)
(* src/src/node/sync-manager.ts (src/src/core/protocol/request.ts), and    *)
(* the routes they find, which their owners build from reflected addresses *)
(* (Reachability) and publish.                                             *)
(*                                                                         *)
(* Connections are FIFO and may be lost; what is exchanged when one comes  *)
(* up is EventSync's.  A log keeps routes and announcements only, in the   *)
(* order in which they were recorded; it is filled from the event store    *)
(* (EventStore) when a node starts again.  A search asks for an identity;  *)
(* of an announcement only its publisher matters, which is what such a     *)
(* query matches.  Replica records are matched in the same way and left    *)
(* out.                                                                    *)
(***************************************************************************)
EXTENDS Reachability, EventStore

CONSTANTS
    Node, Seeker,   \* all nodes, those that search
    Overlay,        \* connections, a tree
    Ident, Owner,   \* identities, the node of each
    Publisher,      \* identities whose nodes publish routes
    Past,           \* what a node may have logged before
    Report,         \* observations that may still be made
    Limit,          \* limit of a search request
    MaxSearches, MaxRoutes, MaxLost, MaxRestarts,  \* bounds on each,
    MaxEvents       \* and on all of them and the observations together

Transports == {"quic", "udp", "tcp", "ws", "wss"}
Reports == [subject : Ident, transport : Transports, ip : STRING, port : Nat,
            confidence : Int, dialback : BOOLEAN]
RouteEndpoints ==
    [transport : Transports, ip : STRING, port : Nat, confidence : Int]
    \cup {Relay}
Routes == [identity : Ident, sequence : Nat, observedAt : Int,
           endpoints : Seq(RouteEndpoints),
           nat : {"stable-public", "port-changing", "symmetric-nat", "cgnat",
                  "unknown"}]

(* Events; an id is a hash, which no two of them share.                    *)
Announcement(x) ==
    [kind |-> "announcement", id |-> <<"announcement", x>>, publisher |-> x,
     createdAt |-> 0]
Route(r) ==
    [kind |-> "route", id |-> <<"route", r>>, route |-> r,
     createdAt |-> r.observedAt]
IsEvent(e) ==
    \/ \E x \in Ident : e = Announcement(x)
    \/ e.route \in Routes /\ e = Route(e.route)

Responses ==
    [kind : {"response"}, request : 1..MaxSearches, from : Node, routes : Seq(Routes)]
Searches == [request : 1..MaxSearches, identity : Ident]

ASSUME SearchAssumption ==
    /\ Seeker \subseteq Node /\ Owner \in [Ident -> Node]
    /\ Report \subseteq Reports
    /\ Publisher \subseteq Ident
    /\ \A l \in Overlay : \E m, n \in Node : m # n /\ l = {m, n}
    /\ Limit \in Nat \ {0}
    /\ MaxSearches \in Nat /\ MaxRoutes \in Nat
    /\ MaxLost \in Nat /\ MaxRestarts \in Nat /\ MaxEvents \in Nat
    /\ None \notin Node \cup Routes \cup Responses \cup Searches

(* Stores of the past have each event once.  Their routes were made before *)
(* the first that is published here; those of an identity differ in        *)
(* sequence or time.                                                       *)
PastRoutes ==
    {e.route : e \in {f \in UNION {Range(h) : h \in UNION {Past[n] : n \in Node}} :
                         f.kind = "route"}}
ASSUME PastAssumption ==
    /\ \A n \in Node : \A h \in Past[n] :
          /\ h \in Seq(Range(h)) /\ \A e \in Range(h) : IsEvent(e)
          /\ \A i, j \in DOMAIN h : h[i].id = h[j].id => i = j
    /\ \A r, t \in PastRoutes :
          /\ r.observedAt <= 0
          /\ SameVersion(r, t) => r = t

VARIABLES
    log,      \* routes and announcements a node has recorded, in order
    store,    \* the same in its event store
    reports,  \* observed addresses an identity's node has recorded
    waiting,  \* the search a node waits for, or None
    answers,  \* requestResponses: the last response to each request (of a node
              \* that searches; the others record responses to no end)
    result,   \* what the last search of a node returned
    held,     \* the newest route each node held when it began (history)
    observed, searches, routes, lost, restarts,  \* counters
    links, chan

netVars == <<links, lost, restarts>>
logVars == <<log, store>>
vars == <<logVars, reports, waiting, answers, result, held, observed, searches,
          routes, chan, netVars>>

Nothing == [identity |-> None, from |-> None, route |-> None]

Init ==
    /\ log \in [Node -> UNION {Past[n] : n \in Node}]
    /\ \A n \in Node : log[n] \in Past[n]
    /\ store = log
    /\ reports = [x \in Publisher |-> <<>>]
    /\ waiting = [n \in Seeker |-> None]
    /\ answers = [n \in Seeker |-> [i \in 1..MaxSearches |-> None]]
    /\ result = [n \in Seeker |-> Nothing]
    /\ held = [n \in Seeker |-> [q \in Node |-> None]]
    /\ observed = 0 /\ searches = 0 /\ routes = 0 /\ lost = 0 /\ restarts = 0
    /\ links = Overlay
    /\ chan = [m \in Node |-> [n \in Node |-> <<>>]]

Room == observed + searches + routes + lost + restarts < MaxEvents

Peers(n) == {p \in Node : {n, p} \in links}
SentTo(ch, n, P, m) ==
    [ch EXCEPT ![n] = [p \in Node |-> IF p \in P THEN Append(@[p], m) ELSE @[p]]]
Taken(n, p) == [chan EXCEPT ![p][n] = Tail(@)]
Gets(n, p, kind) == chan[p][n] # <<>> /\ Head(chan[p][n]).kind = kind

(* recordEvent.                                                            *)
Record(n, e) ==
    /\ log' = [log EXCEPT ![n] = Remember(@, e)]
    /\ store' = [store EXCEPT ![n] = Upsert(@, e)]

-----------------------------------------------------------------------------
(* What a log says about an identity.                                      *)

RoutesIn(events, x) ==
    LET found == Kept(events, {i \in DOMAIN events :
                     events[i].kind = "route" /\ events[i].route.identity = x})
    IN [i \in DOMAIN found |-> found[i].route]
RoutesOf(n, x) == RoutesIn(log[n], x)
Announces(n, x) == Announcement(x) \in Range(log[n])

(* ReachabilityDirectory.resolve reads the store.                          *)
Resolved(n, x) == Latest(x, RoutesIn(store[n], x))

(* matchRoutes: the first of them.                                         *)
MatchRoutes(n, x) ==
    LET found == RoutesOf(n, x)
    IN SubSeq(found, 1, IF Len(found) > Limit THEN Limit ELSE Len(found))

(* buildRequestResponse: none when nothing matches.                        *)
Answerable(n, x) == Announces(n, x) \/ RoutesOf(n, x) # <<>>
Response(n, request, x) ==
    [kind |-> "response", request |-> request, from |-> n,
     routes |-> MatchRoutes(n, x)]
Request(n, request, x) ==
    [kind |-> "request", request |-> request, identity |-> x]

-----------------------------------------------------------------------------
(* searchIdentity and searchRequest.                                       *)

Returns(n, x, from, route) ==
    result' = [result EXCEPT
        ![n] = [identity |-> x, from |-> from, route |-> route]]

Snapshot(x) == [q \in Node |-> Resolved(q, x)]

(* The node's own store knows nothing, else searchIdentity returns that.   *)
(* The request is broadcast even if the node's own log answers it, which   *)
(* it does when it has an announcement of x but no route.                  *)
Search(n, x) ==
    /\ waiting[n] = None /\ Resolved(n, x) = None
    /\ Room /\ searches < MaxSearches /\ searches' = searches + 1
    /\ chan' = SentTo(chan, n, Peers(n), Request(n, searches', x))
    /\ held' = [held EXCEPT ![n] = Snapshot(x)]
    /\ IF Announces(n, x)
       THEN /\ answers' = [answers EXCEPT ![n][searches'] = Response(n, searches', x)]
            /\ Returns(n, x, n, None) /\ UNCHANGED waiting
       ELSE /\ waiting' = [waiting EXCEPT
                   ![n] = [request |-> searches', identity |-> x]]
            /\ UNCHANGED <<answers, result>>
    /\ UNCHANGED <<observed, logVars, reports, routes, netVars>>

(* The poll finds a response.                                              *)
Found(n) ==
    /\ waiting[n] # None
    /\ LET w == waiting[n]
           a == answers[n][w.request]
       IN /\ a # None
          /\ Returns(n, w.identity, a.from, Latest(w.identity, a.routes))
    /\ waiting' = [waiting EXCEPT ![n] = None]
    /\ UNCHANGED <<observed, logVars, reports, answers, held, searches, routes, chan, netVars>>

(* The timeout passes without one.                                         *)
TimeOut(n) ==
    /\ waiting[n] # None /\ answers[n][waiting[n].request] = None
    /\ Returns(n, waiting[n].identity, None, None)
    /\ waiting' = [waiting EXCEPT ![n] = None]
    /\ UNCHANGED <<observed, logVars, reports, answers, held, searches, routes, chan, netVars>>

-----------------------------------------------------------------------------
(* Handlers of the sync manager.                                           *)

(* handleRequestAnnouncement: flood on, answer the sender.                 *)
OnRequest(n, p) ==
    /\ Gets(n, p, "request")
    /\ LET m == Head(chan[p][n])
           onward == SentTo(Taken(n, p), n, Peers(n) \ {p}, m)
       IN chan' = IF Answerable(n, m.identity)
                  THEN SentTo(onward, n, {p} \cap Peers(n),
                              Response(n, m.request, m.identity))
                  ELSE onward
    /\ UNCHANGED <<observed, logVars, reports, waiting, answers, result, held, searches,
                   routes, netVars>>

(* handleRequestResponse: the last one counts, and it goes no further.     *)
OnResponseBug(n, p) ==
    /\ Gets(n, p, "response")
    /\ LET m == Head(chan[p][n])
       IN answers' = IF n \in Seeker
                     THEN [answers EXCEPT ![n] = [i \in DOMAIN @ |-> m]]
                     ELSE answers
    /\ chan' = Taken(n, p)
    /\ UNCHANGED <<observed, logVars, reports, waiting, result, held, searches, routes, netVars>>
OnResponse(n, p) ==
    /\ Gets(n, p, "response")
    /\ LET m == Head(chan[p][n])
       IN answers' = IF n \in Seeker
                     THEN [answers EXCEPT ![n][m.request] = m] ELSE answers
    /\ chan' = Taken(n, p)
    /\ UNCHANGED <<observed, logVars, reports, waiting, result, held, searches, routes, netVars>>

(* handleRouteAnnouncement.                                                *)
OnRoute(n, p) ==
    /\ Gets(n, p, "route")
    /\ LET m == Head(chan[p][n])
       IN /\ Record(n, m)
          /\ chan' = SentTo(Taken(n, p), n, Peers(n) \ {p}, m)
    /\ UNCHANGED <<observed, reports, waiting, answers, result, held, searches, routes, netVars>>

(* handleObservedAddress.  Bound: before anything else happens; a report   *)
(* changes nothing but the routes that are published after it.             *)
OnObserved(x, r) ==
    /\ searches = 0 /\ routes = 0 /\ lost = 0 /\ restarts = 0
    /\ Room /\ observed' = observed + 1
    /\ r \notin Range(reports[x])
    /\ reports' = [reports EXCEPT ![x] = Append(@, r)]
    /\ UNCHANGED <<logVars, waiting, answers, result, held, searches, routes,
                   chan, netVars>>

(* publishRouteAnnouncement of a route built from them, one sequence on.   *)
Publish(x) ==
    /\ Room /\ routes < MaxRoutes /\ routes' = routes + 1
    /\ LET n == Owner[x]
           last == Resolved(n, x)
           sequence == IF last = None THEN 1 ELSE last.sequence + 1
           m == Route(BuildRoute(x, reports[x], sequence, routes'))
       IN /\ Record(n, m)
          /\ chan' = SentTo(chan, n, Peers(n), m)
    /\ UNCHANGED <<observed, reports, waiting, answers, result, held, searches, netVars>>

Lose(l) ==
    /\ Room /\ lost < MaxLost /\ lost' = lost + 1
    /\ l \in links /\ links' = links \ {l}
    /\ chan' = [m \in Node |-> [n \in Node |->
                   IF l = {m, n} THEN <<>> ELSE chan[m][n]]]
    /\ UNCHANGED <<observed, logVars, reports, waiting, answers, result, held,
                   searches, routes, restarts>>

(* A node stops and starts again, and its connections come up again.       *)
Restart(n) ==
    /\ Room /\ restarts < MaxRestarts /\ restarts' = restarts + 1
    /\ log' = [log EXCEPT ![n] = Hydrate(store[n])]
    /\ chan' = [a \in Node |-> [b \in Node |->
                   IF n \in {a, b} THEN <<>> ELSE chan[a][b]]]
    /\ IF n \in Seeker
       THEN /\ waiting' = [waiting EXCEPT ![n] = None]
            /\ answers' = [answers EXCEPT ![n] = [i \in DOMAIN @ |-> None]]
            /\ result' = [result EXCEPT ![n] = Nothing]
       ELSE UNCHANGED <<waiting, answers, result>>
    /\ UNCHANGED <<observed, store, reports, held, searches, routes, links, lost>>

Receive(n, p) == OnRequest(n, p) \/ OnResponse(n, p) \/ OnRoute(n, p)

Next ==
    \/ \E n \in Seeker : \/ \E x \in Ident : Search(n, x)
                         \/ Found(n)
                         \/ TimeOut(n)
    \/ \E n, p \in Node : Receive(n, p)
    \/ \E n \in Node : Restart(n)
    \/ \E x \in Publisher : Publish(x) \/ \E r \in Report : OnObserved(x, r)
    \/ \E l \in Overlay : Lose(l)

Spec == Init /\ [][Next]_vars

-----------------------------------------------------------------------------
(* A search that some node has answered returns a route of the identity    *)
(* asked for, not older than the newest one that node held when the search *)
(* began, however late and in whatever order responses to this and to      *)
(* earlier searches arrive; of a node with more routes than the limit,     *)
(* some route (searchRequest, handleRequestResponse, matchRoutes,          *)
(* resolveRouteAnnouncement).                                              *)
FreshAnswer ==
    \A n \in Seeker :
        LET r == result[n]
            had == held[n][r.from]
        IN r.from # None /\ waiting[n] = None /\ had # None =>
             /\ r.route # None
             /\ r.route.identity = r.identity
             /\ Len(RoutesOf(r.from, r.identity)) <= Limit => ~Newer(had, r.route)

(* The route a node resolves for an identity is never forgotten or         *)
(* replaced by an older one, and its log answers others with the same,     *)
(* whatever order routes are recorded in and however often the node starts *)
(* again from a store that keeps them in another (sqlite-store.ts, upsert  *)
(* and loadAll; hydrateEventStore).                                        *)
RoutesNeverAge ==
    [][\A n \in Node, x \in Ident :
          <<log[n], store[n]>>' # <<log[n], store[n]>> =>
            LET was == Resolved(n, x)
                now == Resolved(n, x)'
            IN /\ was # None => now # None /\ ~Newer(was, now)
               /\ now = Latest(x, RoutesOf(n, x))']_vars

(* A route names the best endpoints that were observed: none that it       *)
(* leaves out was reported with a better score than one that it names, at  *)
(* whatever time (buildRouteAnnouncement).                                 *)
BestReported(x, k) ==
    LET scores == {Score(reports[x][i]) : i \in
                      {j \in DOMAIN reports[x] :
                          Key(reports[x][j]) = k /\ reports[x][j].subject = x}}
    IN CHOOSE s \in scores : \A t \in scores : t <= s
RouteNamesBest ==
    \A x \in Publisher :
        LET own == {r \in Range(reports[x]) : r.subject = x}
            best(r) == BestReported(x, Key(r))
            named == Dialable([endpoints |-> Endpoints(About(x, reports[x]))])
            in(r) == \E e \in named : Key(e) = Key(r)
        IN /\ Cardinality(named) <= 2
           /\ \A r \in own : \A s \in own :
                  in(r) /\ ~in(s) => best(r) >= best(s)
           /\ \A r \in own : in(r) => \E e \in named :
                  Key(e) = Key(r) /\ e.confidence = Clamp(best(r))

=============================================================================
