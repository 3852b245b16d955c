---------------------------- MODULE DataDirectory ----------------------------
(***************************************************************************)
(* The processes that share one data directory: the daemon ("qdht-node     *)
(* start") and "qdht-node put", each of which is a QDHTNode                *)
(* (src/src/node/qdht-node.ts) with its content store                      *)
(* (src/src/node/content-store.ts), its local discovery, web server and    *)
(* RPC socket.                                                             *)
(*                                                                         *)
(* Files and tables of different contents do not touch each other, so one  *)
(* content of several pieces stands for all.  put() runs to its end        *)
(* without returning to the event loop; other processes get in between its *)
(* calls, a crash ends it at any of them.  Each SQL statement is atomic.   *)
(***************************************************************************)
EXTENDS Naturals, FiniteSets

CONSTANTS
    Daemon,      \* processes that serve until they are told to stop
    Command,     \* processes that put one file and stop
    Pieces,      \* pieces of the content
    None, Stale, \* no file at qdht.sock, a file nobody listens behind
    MaxPuts,     \* bound: puts begun
    MaxStarts,   \* bound: processes started
    MaxCrashes   \* bound: crashes

Proc == Daemon \cup Command
Index == 0..(Pieces - 1)

ASSUME DataDirectoryAssumption ==
    /\ Pieces \in Nat \ {0} /\ Daemon \cap Command = {}
    /\ {None, Stale} \cap Proc = {} /\ None # Stale
    /\ MaxPuts \in Nat /\ MaxStarts \in Nat /\ MaxCrashes \in Nat

VARIABLES
    file,       \* <hash>/<i>.bin: missing, cut short, or whole
    row,        \* content_index has the row
    hashes,     \* piece_index of the rows in content_piece_hashes
    put,        \* put() of a process: next call and piece
    announced,  \* a put has published its announcement
    stage,      \* how far start() or stop() of a process has come
    parts,      \* what a process has open
    request,    \* a web request is being served
    hurried,    \* a second SIGINT came while stop() was waiting
    call,       \* a client is connected to the RPC socket of a process
    path,       \* who listens at <dataDir>/qdht.sock
    damaged,    \* a put was cut off and none has run since (history)
    fresh,      \* puts begun after the last crash (history)
    puts, starts, crashes

storeVars == <<file, row, hashes, put, announced, damaged, fresh, puts>>
nodeVars == <<stage, parts, request, hurried, call, path, starts>>
vars == <<storeVars, nodeVars, crashes>>

Network == {"ws", "relay", "quic"}
Parts == Network \cup {"store", "udp", "rpc", "web", "stray"}
Idle == [at |-> "idle", i |-> 0]
At(a, i) == [at |-> a, i |-> i]
Writing == {"open", "write", "upsert", "delete", "insert"}

Init ==
    /\ file = [i \in Index |-> "none"] /\ row = FALSE /\ hashes = {}
    /\ put = [p \in Proc |-> Idle] /\ announced = FALSE
    /\ damaged = FALSE /\ fresh = {} /\ puts = 0
    /\ stage = [p \in Proc |-> "off"] /\ parts = [p \in Proc |-> {}]
    /\ request = [p \in Proc |-> FALSE] /\ hurried = [p \in Proc |-> FALSE]
    /\ call = [p \in Proc |-> FALSE]
    /\ path = None /\ starts = 0 /\ crashes = 0

Open(p, x) == x \in parts[p]
Free(p) == put[p] = Idle  \* the event loop of p is not inside put()

-----------------------------------------------------------------------------
(* ContentStore.put.                                                       *)

(* The call after the one for piece i: the next piece, or the next phase.  *)
Then(i, again, next) == IF i + 1 < Pieces THEN At(again, i + 1) ELSE At(next, 0)

(* A put ends by throwing: the web server answers 500, the command dies    *)
(* from the rejection, before its stop().                                  *)
Throws(p) ==
    /\ put' = [put EXCEPT ![p] = Idle] /\ fresh' = fresh \ {p}
    /\ request' = [request EXCEPT ![p] = FALSE]
    /\ stage' = [stage EXCEPT ![p] = IF p \in Command THEN "off" ELSE @]
    /\ parts' = [parts EXCEPT ![p] = IF p \in Command THEN {} ELSE @]
    /\ call' = [call EXCEPT ![p] = IF p \in Command THEN FALSE ELSE @]
    /\ path' = IF p \in Command /\ path = p THEN Stale ELSE path

(* writeFileSync opens the file, which truncates it, and writes it.        *)
OpenPieceBug(p) ==
    /\ put[p].at = "open"
    /\ file' = [file EXCEPT ![put[p].i] = IF @ = "none" THEN "cut" ELSE @]
    /\ put' = [put EXCEPT
           ![p] = IF file[@.i] = "none" THEN At("write", @.i)
                                        ELSE Then(@.i, "open", "upsert")]
    /\ UNCHANGED <<row, hashes, announced, damaged, fresh, puts, nodeVars, crashes>>
OpenPiece(p) ==
    /\ put[p].at = "open"
    /\ file' = [file EXCEPT ![put[p].i] = "cut"]
    /\ put' = [put EXCEPT ![p] = At("write", @.i)]
    /\ UNCHANGED <<row, hashes, announced, damaged, fresh, puts, nodeVars, crashes>>

WritePiece(p) ==
    /\ put[p].at = "write"
    /\ file' = [file EXCEPT ![put[p].i] = "whole"]
    /\ put' = [put EXCEPT ![p] = Then(@.i, "open", "upsert")]
    /\ UNCHANGED <<row, hashes, announced, damaged, fresh, puts, nodeVars, crashes>>

(* INSERT OR REPLACE: the row it replaces takes its hash rows along        *)
(* (ON DELETE CASCADE).                                                    *)
UpsertRow(p) ==
    /\ put[p].at = "upsert" /\ Open(p, "store")
    /\ row' = TRUE /\ hashes' = {}
    /\ put' = [put EXCEPT ![p] = At("delete", 0)]
    /\ UNCHANGED <<file, announced, damaged, fresh, puts, nodeVars, crashes>>

DeleteHashes(p) ==
    /\ put[p].at = "delete"
    /\ hashes' = {}
    /\ put' = [put EXCEPT ![p] = At("insert", 0)]
    /\ UNCHANGED <<file, row, announced, damaged, fresh, puts, nodeVars, crashes>>

InsertHash(p) ==
    /\ put[p].at = "insert" /\ put[p].i \notin hashes
    /\ hashes' = hashes \cup {put[p].i}
    /\ put' = [put EXCEPT ![p] = Then(@.i, "insert", "announce")]
    /\ UNCHANGED <<file, row, announced, damaged, fresh, puts, nodeVars, crashes>>

(* The statement throws: another put has inserted the row, or the store    *)
(* was closed by a stop() in a hurry.                                      *)
PutThrows(p) ==
    /\ \/ /\ put[p].at = "insert" /\ put[p].i \in hashes
       \/ /\ put[p].at = "upsert" /\ ~Open(p, "store")
    /\ Throws(p)
    /\ UNCHANGED <<file, row, hashes, announced, damaged, puts, hurried,
                   starts, crashes>>

(* QDHTNode.put publishes what is stored.  A put begun after the last      *)
(* crash has written everything anew.                                      *)
Announce(p) ==
    /\ put[p].at = "announce"
    /\ announced' = TRUE
    /\ put' = [put EXCEPT ![p] = Idle]
    /\ damaged' = (damaged /\ p \notin fresh) /\ fresh' = fresh \ {p}
    /\ stage' = [stage EXCEPT ![p] = IF p \in Command THEN "done" ELSE @]
    /\ request' = [request EXCEPT ![p] = FALSE]
    /\ UNCHANGED <<file, row, hashes, puts, parts, hurried, call, path,
                   starts, crashes>>

(* The command begins once it has started, the daemon on request.          *)
BeginPutBug(p) ==
    /\ puts < MaxPuts /\ Free(p)
    /\ (stage[p] = "up" /\ p \in Command) \/ request[p]
    /\ puts' = puts + 1
    /\ put' = [put EXCEPT ![p] = At("open", 0)] /\ fresh' = fresh \cup {p}
    /\ announced' = TRUE
    /\ UNCHANGED <<file, row, hashes, damaged, nodeVars, crashes>>
BeginPut(p) ==
    /\ puts < MaxPuts /\ Free(p)
    /\ (stage[p] = "up" /\ p \in Command) \/ request[p]
    /\ puts' = puts + 1
    /\ put' = [put EXCEPT ![p] = At("open", 0)] /\ fresh' = fresh \cup {p}
    /\ UNCHANGED <<file, row, hashes, announced, damaged, nodeVars, crashes>>

(* hasPiece looks for the file only.                                       *)
HasPiece(i) == row /\ file[i] # "none"

(* getPiece: the i-th of the hash rows there are, in the order of their    *)
(* index, must be the hash of what the file holds.                         *)
GetPiece(i) == row /\ file[i] = "whole" /\ 0..i \subseteq hashes
GetContent == row /\ \A i \in Index : GetPiece(i)

-----------------------------------------------------------------------------
(* QDHTNode.start.                                                         *)

Step(p, from, to) ==
    /\ Free(p) /\ stage[p] = from /\ stage' = [stage EXCEPT ![p] = to]
    /\ UNCHANGED <<storeVars, hurried, crashes>>
Opens(p, X) == parts' = [parts EXCEPT ![p] = @ \cup X]
Closes(p, X) == parts' = [parts EXCEPT ![p] = @ \ X]

Construct(p) ==
    /\ starts < MaxStarts /\ starts' = starts + 1
    /\ Step(p, "off", "listen") /\ Opens(p, {"store"})
    /\ UNCHANGED <<request, call, path>>

Listen(p) ==
    /\ Step(p, "listen", "discover") /\ Opens(p, {"ws"})
    /\ UNCHANGED <<request, call, path, starts>>

StartDiscovery(p) ==
    /\ Step(p, "discover", "connect") /\ Opens(p, {"udp"})
    /\ UNCHANGED <<request, call, path, starts>>

Connect(p) ==
    /\ Step(p, "connect", "unlink") /\ Opens(p, {"relay", "quic"})
    /\ UNCHANGED <<request, call, path, starts>>

(* startRpc unlinks whatever is at the path, then listens there.           *)
Unlink(p) ==
    /\ Step(p, "unlink", "bind") /\ path' = None
    /\ UNCHANGED <<parts, request, call, starts>>

Bind(p) ==
    /\ path = None /\ path' = p
    /\ Step(p, "bind", "web") /\ Opens(p, {"rpc"})
    /\ UNCHANGED <<request, call, starts>>

(* EADDRINUSE: nobody listens to the server's error event.                 *)
BindFails(p) ==
    /\ path # None
    /\ Step(p, "bind", "off") /\ parts' = [parts EXCEPT ![p] = {}]
    /\ UNCHANGED <<request, call, path, starts>>

StartWeb(p) ==
    /\ Step(p, "web", "up") /\ Opens(p, {"web"})
    /\ UNCHANGED <<request, call, path, starts>>

-----------------------------------------------------------------------------
(* Requests over HTTP, and clients of the RPC socket.                      *)

Request(p) ==
    /\ p \in Daemon /\ Free(p) /\ Open(p, "web") /\ ~request[p]
    /\ request' = [request EXCEPT ![p] = TRUE]
    /\ UNCHANGED <<storeVars, stage, parts, hurried, call, path, starts, crashes>>

Answer(p) ==
    /\ Free(p) /\ request[p]
    /\ request' = [request EXCEPT ![p] = FALSE]
    /\ UNCHANGED <<storeVars, stage, parts, hurried, call, path, starts, crashes>>

Call(p) ==
    /\ path = p /\ ~call[p]
    /\ call' = [call EXCEPT ![p] = TRUE]
    /\ UNCHANGED <<storeVars, stage, parts, request, hurried, path, starts, crashes>>

(* The client has its answer, or its timeout.                              *)
HangUp(p) ==
    /\ call[p]
    /\ call' = [call EXCEPT ![p] = FALSE]
    /\ UNCHANGED <<storeVars, stage, parts, request, hurried, path, starts, crashes>>

-----------------------------------------------------------------------------
(* QDHTNode.stop.                                                          *)

Stop(p) ==
    /\ Step(p, IF p \in Command THEN "done" ELSE "up", "close web")
    /\ Closes(p, {"web"})
    /\ UNCHANGED <<request, call, path, starts>>

(* SIGINT once more: that stop() finds the web server gone and waits for   *)
(* no request.                                                             *)
Hurry(p) ==
    /\ p \in Daemon /\ Free(p) /\ stage[p] = "close web" /\ ~hurried[p]
    /\ hurried' = [hurried EXCEPT ![p] = TRUE]
    /\ UNCHANGED <<storeVars, stage, parts, request, call, path, starts, crashes>>

(* The transports are closed.  The peer manager may have lost a dialer     *)
(* (see PeerManager, ClosedStopsAllDialers), which stays.                  *)
ClosesTransports(p) ==
    \E left \in SUBSET {"stray"} :
        parts' = [parts EXCEPT ![p] = (@ \ Network) \cup left]

DisconnectBug(p) ==
    /\ Step(p, "close web", "close discovery") /\ ClosesTransports(p)
    /\ UNCHANGED <<request, call, path, starts>>
Disconnect(p) ==
    /\ ~request[p] \/ hurried[p]
    /\ Step(p, "close web", "close discovery") /\ ClosesTransports(p)
    /\ UNCHANGED <<request, call, path, starts>>

CloseDiscovery(p) ==
    /\ Step(p, "close discovery", "close store") /\ Closes(p, {"udp"})
    /\ UNCHANGED <<request, call, path, starts>>

(* Closing the server unlinks the path, whoever listens there by now.      *)
CloseStore(p) ==
    /\ Step(p, "close store", "close rpc") /\ Closes(p, {"store", "rpc"})
    /\ path' = None
    /\ UNCHANGED <<request, call, starts>>

(* The server is closed when its last client has gone; stop() unlinks the  *)
(* path again, and the process exits (a put command that lost a dialer     *)
(* lingers, but has nothing left to do).                                   *)
Exit(p) ==
    /\ ~call[p] /\ Free(p) /\ stage[p] = "close rpc"
    /\ stage' = [stage EXCEPT ![p] = "off"] /\ path' = None
    /\ parts' = [parts EXCEPT ![p] = {}]
    /\ request' = [request EXCEPT ![p] = FALSE]
    /\ hurried' = [hurried EXCEPT ![p] = FALSE]
    /\ UNCHANGED <<storeVars, call, starts, crashes>>

-----------------------------------------------------------------------------
(* The process is killed.                                                  *)
Crash(p) ==
    /\ crashes < MaxCrashes /\ crashes' = crashes + 1
    /\ stage[p] # "off" /\ stage' = [stage EXCEPT ![p] = "off"]
    /\ parts' = [parts EXCEPT ![p] = {}]
    /\ request' = [request EXCEPT ![p] = FALSE]
    /\ hurried' = [hurried EXCEPT ![p] = FALSE]
    /\ call' = [call EXCEPT ![p] = FALSE]
    /\ path' = IF path = p THEN Stale ELSE path
    /\ put' = [put EXCEPT ![p] = Idle]
    /\ IF put[p].at \in Writing THEN damaged' = TRUE /\ fresh' = {}
                                ELSE damaged' = damaged /\ fresh' = fresh \ {p}
    /\ UNCHANGED <<file, row, hashes, announced, puts, starts>>

PutStep(p) ==
    \/ BeginPut(p) \/ OpenPiece(p) \/ WritePiece(p) \/ UpsertRow(p)
    \/ DeleteHashes(p) \/ InsertHash(p) \/ PutThrows(p) \/ Announce(p)

StartStep(p) ==
    \/ Construct(p) \/ Listen(p) \/ StartDiscovery(p) \/ Connect(p)
    \/ Unlink(p) \/ Bind(p) \/ BindFails(p) \/ StartWeb(p)

ServeStep(p) == Request(p) \/ Answer(p) \/ Call(p) \/ HangUp(p)

StopStep(p) ==
    \/ Stop(p) \/ Hurry(p) \/ Disconnect(p) \/ CloseDiscovery(p)
    \/ CloseStore(p) \/ Exit(p)

Next ==
    \E p \in Proc :
        PutStep(p) \/ StartStep(p) \/ ServeStep(p) \/ StopStep(p) \/ Crash(p)

Spec == Init /\ [][Next]_vars

-----------------------------------------------------------------------------
Stages == {"off", "listen", "discover", "connect", "unlink", "bind", "web",
           "up", "done", "close web", "close discovery", "close store",
           "close rpc"}

TypeOK ==
    /\ file \in [Index -> {"none", "cut", "whole"}]
    /\ row \in BOOLEAN /\ hashes \subseteq Index
    /\ put \in [Proc -> [at : Writing \cup {"idle", "announce"}, i : Index]]
    /\ announced \in BOOLEAN /\ damaged \in BOOLEAN /\ fresh \subseteq Proc
    /\ stage \in [Proc -> Stages]
    /\ parts \in [Proc -> SUBSET Parts]
    /\ request \in [Proc -> BOOLEAN] /\ hurried \in [Proc -> BOOLEAN]
    /\ call \in [Proc -> BOOLEAN]
    /\ path \in Proc \cup {None, Stale}
    /\ puts \in Nat /\ starts \in Nat /\ crashes \in Nat

(* Whatever processes put the same content at the same time, one of them   *)
(* thrown out by the other's rows included: once none of them is at it any *)
(* more, the content can be read, unless a crash cut one off, and then     *)
(* again after the next put of it (content-store.ts, put and getPiece).    *)
SettledReadable ==
    row /\ ~damaged /\ (\A p \in Proc : put[p].at \notin Writing) => GetContent

(* What has been announced stays indexed, with a file for each piece,      *)
(* which is all that hasPiece asks for, even after crashes and while it is *)
(* put again (qdht-node.ts, put; content-store.ts, hasPiece).              *)
AnnouncedIndexed ==
    announced => \A i \in Index : HasPiece(i)

(* An HTTP request that is being served finds the store open, and so does  *)
(* every message of a transport that disconnect() closes, however stop()   *)
(* is interleaved with them, unless SIGINT came twice (qdht-node.ts, stop).*)
StoreOutlivesWork ==
    \A p \in Proc :
        \/ (request[p] /\ ~hurried[p])
        \/ parts[p] \cap (Network \cup {"udp", "web"}) # {}
        => Open(p, "store")

(* The same of the clients of the RPC socket and of a dialer that the peer *)
(* manager has lost.  The code does not promise it: stop() closes the      *)
(* store before the socket, and disconnect() does not reach the dialer.    *)
StoreOutlivesAll ==
    \A p \in Proc : call[p] \/ Open(p, "stray") => Open(p, "store")

(* A running daemon is reached at the socket of its data directory         *)
(* (startRpc, and the commands peers, replicas and search).                *)
DaemonReachable == \A p \in Daemon : stage[p] = "up" => path = p
=============================================================================
