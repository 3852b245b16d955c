------------------------ MODULE DataDirectory_proofs ------------------------
(***************************************************************************)
(* Theorems about DataDirectory, for all sets of processes, every number   *)
(* of pieces and every bound.                                              *)
(*                                                                         *)
(* SettledReadable holds because somebody always answers for what is not   *)
(* there: a file that is not whole has a put about to write it, and a      *)
(* missing hash row has a put that will insert it (Covers).  A put that is *)
(* thrown out by a row another one inserted leaves that other one ahead of *)
(* itself, which is Relay below.  A crash breaks both; a put that began    *)
(* after it restores them as it goes along (Mends).                        *)
(***************************************************************************)
EXTENDS DataDirectory, Integers, TLAPS

-----------------------------------------------------------------------------
(* The inductive invariant.                                                *)

(* How far start() and stop() have come determines what is open.           *)
StoreOpen(p) == stage[p] \notin {"off", "close rpc"} => Open(p, "store")
WebOpen(p) ==
    Open(p, "web") => stage[p] = "up" \/ (p \in Command /\ stage[p] = "done")
NetworkOpen(p) ==
    \A x \in Network : Open(p, x) =>
        stage[p] \notin {"off", "listen", "close discovery", "close store", "close rpc"}
UdpOpen(p) == Open(p, "udp") => stage[p] \notin {"off", "close store", "close rpc"}
Served(p) ==
    request[p] => p \in Daemon /\ (hurried[p] \/ stage[p] \in {"up", "close web"})
Working(p) == p \in Command /\ ~Free(p) => stage[p] = "up"
StagesOK ==
    \A p \in Proc : /\ StoreOpen(p) /\ WebOpen(p) /\ NetworkOpen(p)
                    /\ UdpOpen(p) /\ Served(p) /\ Working(p)

(* What a put has behind it.                                               *)
Past(p, j) ==
    \/ put[p].at \in {"open", "write"} /\ j < put[p].i
    \/ put[p].at \in {"upsert", "delete", "insert", "announce"}
Indexed(p) == put[p].at \in {"delete", "insert", "announce"}
Behind ==
    /\ \A p \in Proc, j \in Index : Past(p, j) => file[j] # "none"
    /\ \A p \in Proc : put[p].at = "write" => file[put[p].i] # "none"
    /\ \A p \in Proc : Indexed(p) => row

(* A file is whole, or somebody is about to write it.                      *)
Sound(j) == file[j] = "whole" \/ \E q \in Proc : put[q] = At("write", j)

(* Somebody will insert row j, and every row from m to j before it.        *)
Covers(q, m, j) ==
    \/ put[q].at = "delete"
    \/ put[q].at = "insert" /\ m <= put[q].i /\ put[q].i <= j
Covered(m, j) == \E q \in Proc : Covers(q, m, j)

Relay ==
    /\ \A j \in Index : j \notin hashes => Covered(0, j)
    /\ \A k \in hashes, j \in Index : k < j /\ j \notin hashes => Covered(k + 1, j)

Mends(p) == p \in fresh /\ Indexed(p)
Files ==
    /\ row /\ ~damaged => \A j \in Index : Sound(j)
    /\ \A p \in fresh, j \in Index : Past(p, j) => Sound(j)
    /\ ~row /\ ~damaged => \A p \in Proc : ~Free(p) => p \in fresh
Rows == (row /\ ~damaged) \/ (\E p \in Proc : Mends(p)) => Relay

IInv == TypeOK /\ StagesOK /\ Behind /\ AnnouncedIndexed /\ Files /\ Rows

-----------------------------------------------------------------------------
(* Types.                                                                  *)

LEMMA ThenType ==
  ASSUME NEW i \in Index, NEW a \in Writing, NEW b \in Writing \cup {"announce"}
  PROVE  Then(i, a, b) \in [at : Writing \cup {"idle", "announce"}, i : Index]
BY DataDirectoryAssumption DEF Then, At, Index

LEMMA PutType == \A p \in Proc : TypeOK /\ PutStep(p) => TypeOK'
<1> SUFFICES ASSUME NEW p \in Proc, TypeOK, PutStep(p) PROVE TypeOK'
  OBVIOUS
<1> USE DEF TypeOK, nodeVars
<1>0. 0 \in Index
  BY DataDirectoryAssumption DEF Index
<1>1. CASE BeginPut(p)
  BY <1>0, <1>1 DEF BeginPut, At, Writing
<1>2. CASE OpenPiece(p)
  BY <1>2 DEF OpenPiece, At, Writing
<1>3. CASE WritePiece(p)
  <2>1. Then(put[p].i, "open", "upsert") \in [at : Writing \cup {"idle", "announce"}, i : Index]
    BY ThenType DEF Writing
  <2> QED
    BY <1>3, <2>1 DEF WritePiece
<1>4. CASE UpsertRow(p)
  BY <1>0, <1>4 DEF UpsertRow, At, Writing
<1>5. CASE DeleteHashes(p)
  BY <1>0, <1>5 DEF DeleteHashes, At, Writing
<1>6. CASE InsertHash(p)
  <2>1. Then(put[p].i, "insert", "announce") \in [at : Writing \cup {"idle", "announce"}, i : Index]
    BY ThenType DEF Writing
  <2> QED
    BY <1>6, <2>1 DEF InsertHash
<1>7. CASE PutThrows(p)
  BY <1>0, <1>7 DEF PutThrows, Throws, Idle, Stages
<1>8. CASE Announce(p)
  BY <1>0, <1>8 DEF Announce, Idle, Stages
<1> QED
  BY <1>1, <1>2, <1>3, <1>4, <1>5, <1>6, <1>7, <1>8 DEF PutStep

(* Outside put() and crashes nothing of the content is touched.            *)
LEMMA NodeFrame ==
  \A p \in Proc : StartStep(p) \/ ServeStep(p) \/ StopStep(p) => UNCHANGED storeVars
<1> SUFFICES ASSUME NEW p \in Proc, StartStep(p) \/ ServeStep(p) \/ StopStep(p)
             PROVE  UNCHANGED storeVars
  OBVIOUS
<1>1. CASE StartStep(p)
  BY <1>1 DEF StartStep, Construct, Listen, StartDiscovery, Connect, Unlink, Bind,
              BindFails, StartWeb, Step
<1>2. CASE ServeStep(p)
  BY <1>2 DEF ServeStep, Request, Answer, Call, HangUp
<1>3. CASE StopStep(p)
  BY <1>3 DEF StopStep, Stop, Hurry, Disconnect, CloseDiscovery, CloseStore, Exit, Step
<1> QED
  BY <1>1, <1>2, <1>3

LEMMA NodeType ==
  \A p \in Proc : TypeOK /\ (StartStep(p) \/ ServeStep(p) \/ StopStep(p)) => TypeOK'
<1> SUFFICES ASSUME NEW p \in Proc, TypeOK, StartStep(p) \/ ServeStep(p) \/ StopStep(p)
             PROVE  TypeOK'
  OBVIOUS
<1> DEFINE NodeOK == /\ stage \in [Proc -> Stages] /\ parts \in [Proc -> SUBSET Parts]
                     /\ request \in [Proc -> BOOLEAN] /\ hurried \in [Proc -> BOOLEAN]
                     /\ call \in [Proc -> BOOLEAN] /\ path \in Proc \cup {None, Stale}
                     /\ starts \in Nat /\ crashes \in Nat
<1>1. NodeOK
  BY DEF TypeOK
<1>2. CASE StartStep(p)
  <2>0. starts + 1 \in Nat
    BY <1>1
  <2>1. NodeOK'
    <3> USE <1>1 DEF Step, Opens, Stages, Parts, Network
    <3>1. CASE Construct(p)
      <4>1. starts' = starts + 1
        BY <3>1 DEF Construct
      <4>2. parts' \in [Proc -> SUBSET Parts] /\ stage' \in [Proc -> Stages]
        BY <3>1 DEF Construct
      <4> QED
        BY <2>0, <3>1, <4>1, <4>2 DEF Construct
    <3>2. CASE Listen(p)
      BY <3>2 DEF Listen
    <3>3. CASE StartDiscovery(p)
      BY <3>3 DEF StartDiscovery
    <3>4. CASE Connect(p)
      BY <3>4 DEF Connect
    <3>5. CASE Unlink(p)
      BY <3>5 DEF Unlink
    <3>6. CASE Bind(p)
      BY <3>6 DEF Bind
    <3>7. CASE BindFails(p)
      BY <3>7 DEF BindFails
    <3>8. CASE StartWeb(p)
      BY <3>8 DEF StartWeb
    <3> QED
      BY <1>2, <3>1, <3>2, <3>3, <3>4, <3>5, <3>6, <3>7, <3>8 DEF StartStep
  <2> QED
    BY <2>1, NodeFrame DEF TypeOK, storeVars
<1>3. CASE ServeStep(p)
  <2>1. NodeOK'
    BY <1>1, <1>3 DEF ServeStep, Request, Answer, Call, HangUp
  <2> QED
    BY <2>1, NodeFrame DEF TypeOK, storeVars
<1>4. CASE StopStep(p)
  <2>1. NodeOK'
    <3> USE <1>1 DEF Step, Closes, Stages
    <3>1. CASE Stop(p)
      BY <3>1 DEF Stop
    <3>2. CASE Hurry(p) \/ Exit(p)
      BY <3>2 DEF Hurry, Exit
    <3>3. CASE Disconnect(p)
      BY <3>3 DEF Disconnect, ClosesTransports, Parts
    <3>4. CASE CloseDiscovery(p) \/ CloseStore(p)
      BY <3>4 DEF CloseDiscovery, CloseStore
    <3> QED
      BY <1>4, <3>1, <3>2, <3>3, <3>4 DEF StopStep
  <2> QED
    BY <2>1, NodeFrame DEF TypeOK, storeVars
<1> QED
  BY <1>2, <1>3, <1>4

LEMMA CrashType == \A p \in Proc : TypeOK /\ Crash(p) => TypeOK'
<1> SUFFICES ASSUME NEW p \in Proc, TypeOK, Crash(p) PROVE TypeOK'
  OBVIOUS
<1>1. 0 \in Index
  BY DataDirectoryAssumption DEF Index
<1> USE DEF TypeOK, Crash
<1>2. put' \in [Proc -> [at : Writing \cup {"idle", "announce"}, i : Index]]
  BY <1>1 DEF Idle
<1>3. stage' \in [Proc -> Stages]
  BY DEF Stages
<1>4. /\ parts' \in [Proc -> SUBSET Parts]
      /\ request' \in [Proc -> BOOLEAN] /\ hurried' \in [Proc -> BOOLEAN]
      /\ call' \in [Proc -> BOOLEAN] /\ path' \in Proc \cup {None, Stale}
  OBVIOUS
<1>5. damaged' \in BOOLEAN /\ fresh' \subseteq Proc
  OBVIOUS
<1>6. crashes' \in Nat
  OBVIOUS
<1> QED
  BY <1>2, <1>3, <1>4, <1>5, <1>6

LEMMA TypeStep == TypeOK /\ [Next]_vars => TypeOK'
<1> SUFFICES ASSUME TypeOK, [Next]_vars PROVE TypeOK'
  OBVIOUS
<1>1. CASE Next
  BY <1>1, PutType, NodeType, CrashType DEF Next
<1>2. CASE UNCHANGED vars
  BY <1>2 DEF TypeOK, vars, storeVars, nodeVars
<1> QED
  BY <1>1, <1>2

-----------------------------------------------------------------------------
(* What is open.                                                           *)

Good(q) == /\ StoreOpen(q) /\ WebOpen(q) /\ NetworkOpen(q)
           /\ UdpOpen(q) /\ Served(q) /\ Working(q)

(* A step of start() or stop() is a step of one process.                   *)
LEMMA NodeLocal ==
  ASSUME TypeOK, NEW p \in Proc, NEW q \in Proc, p # q,
         StartStep(p) \/ ServeStep(p) \/ StopStep(p)
  PROVE  /\ stage'[q] = stage[q] /\ parts'[q] = parts[q] /\ put'[q] = put[q]
         /\ request'[q] = request[q] /\ hurried'[q] = hurried[q]
<1> USE DEF TypeOK
<1>1. put'[q] = put[q]
  BY NodeFrame DEF storeVars
<1>2. CASE Construct(p) \/ Listen(p) \/ StartDiscovery(p) \/ Connect(p)
  BY <1>1, <1>2 DEF Construct, Listen, StartDiscovery, Connect, Step, Opens
<1>3. CASE Unlink(p) \/ Bind(p) \/ BindFails(p) \/ StartWeb(p)
  BY <1>1, <1>3 DEF Unlink, Bind, BindFails, StartWeb, Step, Opens
<1>4. CASE ServeStep(p)
  BY <1>1, <1>4 DEF ServeStep, Request, Answer, Call, HangUp
<1>5. CASE StopStep(p)
  BY <1>1, <1>5 DEF StopStep, Stop, Hurry, Disconnect, CloseDiscovery, CloseStore,
                    Exit, Step, Closes, ClosesTransports
<1> QED
  BY <1>2, <1>3, <1>4, <1>5 DEF StartStep

LEMMA StartGood == TypeOK /\ StagesOK => \A p \in Proc : StartStep(p) => Good(p)'
<1> SUFFICES ASSUME TypeOK, StagesOK, NEW p \in Proc, StartStep(p) PROVE Good(p)'
  OBVIOUS
<1> USE DEF Good, StoreOpen, WebOpen, NetworkOpen, UdpOpen, Served, Working, Open, Free,
            Network, TypeOK
<1>0. Good(p)
  BY DEF StagesOK
<1>1. put' = put /\ put[p] = Idle
  BY NodeFrame DEF storeVars, StartStep, Construct, Listen, StartDiscovery,
     Connect, Unlink, Bind, BindFails, StartWeb, Step
<1> USE <1>0, <1>1 DEF Step, Opens
<1>2. CASE Construct(p)
  BY <1>2 DEF Construct
<1>3. CASE Listen(p)
  BY <1>3 DEF Listen
<1>4. CASE StartDiscovery(p)
  BY <1>4 DEF StartDiscovery
<1>5. CASE Connect(p)
  BY <1>5 DEF Connect
<1>6. CASE Unlink(p)
  BY <1>6 DEF Unlink
<1>7. CASE Bind(p)
  BY <1>7 DEF Bind
<1>8. CASE BindFails(p)
  BY <1>8 DEF BindFails
<1>9. CASE StartWeb(p)
  BY <1>9 DEF StartWeb
<1> QED
  BY <1>2, <1>3, <1>4, <1>5, <1>6, <1>7, <1>8, <1>9 DEF StartStep

LEMMA StopGood == TypeOK /\ StagesOK => \A p \in Proc : StopStep(p) => Good(p)'
<1> SUFFICES ASSUME TypeOK, StagesOK, NEW p \in Proc, StopStep(p) PROVE Good(p)'
  OBVIOUS
<1> USE DEF Good, StoreOpen, WebOpen, NetworkOpen, UdpOpen, Served, Working, Open, Free,
            Network, TypeOK
<1>0. Good(p) /\ Daemon \cap Command = {}
  BY DataDirectoryAssumption DEF StagesOK
<1>1. put' = put /\ put[p] = Idle
  BY NodeFrame DEF storeVars, StopStep, Stop, Hurry, Disconnect,
     CloseDiscovery, CloseStore, Exit, Step
<1> USE <1>0, <1>1 DEF Step, Closes
<1>2. CASE Stop(p)
  BY <1>2 DEF Stop
<1>3. CASE Hurry(p)
  BY <1>3 DEF Hurry
<1>4. CASE Disconnect(p)
  <2>1. PICK left \in SUBSET {"stray"} : parts'[p] = (parts[p] \ Network) \cup left
    BY <1>4 DEF Disconnect, ClosesTransports
  <2>2. /\ stage[p] = "close web" /\ stage'[p] = "close discovery"
        /\ ~request[p] \/ hurried[p]
        /\ request' = request /\ hurried' = hurried
    BY <1>4 DEF Disconnect
  <2>3. \A x \in Network : x \notin parts'[p]
    BY <2>1
  <2>4. \A x : x # "stray" /\ x \notin Network => (x \in parts'[p] <=> x \in parts[p])
    BY <2>1
  <2> QED
    BY <2>2, <2>3, <2>4
<1>5. CASE CloseDiscovery(p)
  BY <1>5 DEF CloseDiscovery
<1>6. CASE CloseStore(p)
  BY <1>6 DEF CloseStore
<1>7. CASE Exit(p)
  BY <1>7 DEF Exit
<1> QED
  BY <1>2, <1>3, <1>4, <1>5, <1>6, <1>7 DEF StopStep

LEMMA StagesStep == TypeOK /\ StagesOK /\ [Next]_vars => StagesOK'
<1> SUFFICES ASSUME TypeOK, StagesOK, [Next]_vars, NEW q \in Proc PROVE Good(q)'
  BY DEF StagesOK, Good
<1> USE DEF Good, StoreOpen, WebOpen, NetworkOpen, UdpOpen, Served, Working, Open, Free
<1>0. Good(q) /\ Daemon \cap Command = {}
  BY DataDirectoryAssumption DEF StagesOK
<1>1. ASSUME NEW p \in Proc, p # q, StartStep(p) \/ ServeStep(p) \/ StopStep(p)
      PROVE  Good(q)'
  BY <1>0, <1>1, NodeLocal
<1>2. ASSUME StartStep(q) \/ StopStep(q) PROVE Good(q)'
  BY <1>2, StartGood, StopGood
<1>3. ASSUME ServeStep(q) PROVE Good(q)'
  <2>1. parts' = parts /\ stage' = stage /\ put' = put /\ hurried' = hurried
    BY <1>3 DEF ServeStep, Request, Answer, Call, HangUp, storeVars
  <2>2. request'[q] => request[q] \/ (q \in Daemon /\ Open(q, "web"))
    BY <1>3 DEF ServeStep, Request, Answer, Call, HangUp, TypeOK
  <2>3. Served(q)'
    <3>1. request[q] => q \in Daemon /\ (hurried[q] \/ stage[q] \in {"up", "close web"})
      BY <1>0
    <3>2. Open(q, "web") /\ q \in Daemon => stage[q] = "up"
      BY <1>0
    <3> QED
      BY <3>1, <3>2, <2>1, <2>2
  <2> HIDE DEF Served
  <2> QED
    BY <1>0, <2>1, <2>3
<1>4. ASSUME NEW p \in Proc, PutStep(p) PROVE Good(q)'
  <2>1. CASE PutThrows(p)
    BY <1>0, <2>1 DEF TypeOK, PutThrows, Throws, Idle, Network
  <2>2. CASE Announce(p)
    <3>1. p = q => put[q] # Idle
      BY <2>2 DEF Announce, Idle
    <3> QED
      BY <1>0, <2>2, <3>1 DEF TypeOK, Announce, Network
  <2>3. CASE BeginPut(p)
    BY <1>0, <2>3 DEF TypeOK, BeginPut, nodeVars
  <2>4. CASE OpenPiece(p) \/ WritePiece(p) \/ UpsertRow(p) \/ DeleteHashes(p) \/ InsertHash(p)
    <3>1. UNCHANGED nodeVars /\ put[p] # Idle /\ \A r \in Proc : r # p => put'[r] = put[r]
      BY <2>4 DEF TypeOK, OpenPiece, WritePiece, UpsertRow, DeleteHashes, InsertHash, Idle
    <3> QED
      BY <1>0, <3>1 DEF nodeVars
  <2> QED
    BY <1>4, <2>1, <2>2, <2>3, <2>4 DEF PutStep
<1>5. ASSUME NEW p \in Proc, Crash(p) PROVE Good(q)'
  BY <1>0, <1>5 DEF TypeOK, Crash, Idle, Network
<1>6. CASE UNCHANGED vars
  BY <1>0, <1>6 DEF vars, storeVars, nodeVars
<1>7. CASE Next
  BY <1>1, <1>2, <1>3, <1>4, <1>5, <1>7 DEF Next
<1> QED
  BY <1>6, <1>7

-----------------------------------------------------------------------------
(* What a put has behind it, and what is announced.                        *)

(* The one call of a put moves nobody else's.                              *)
LEMMA PutLocal ==
  ASSUME TypeOK, NEW p \in Proc, PutStep(p) \/ Crash(p), NEW q \in Proc, q # p
  PROVE  put'[q] = put[q]
<1> USE DEF TypeOK
<1>1. CASE BeginPut(p) \/ OpenPiece(p) \/ WritePiece(p) \/ UpsertRow(p)
  BY <1>1 DEF BeginPut, OpenPiece, WritePiece, UpsertRow
<1>2. CASE DeleteHashes(p) \/ InsertHash(p) \/ PutThrows(p) \/ Announce(p) \/ Crash(p)
  BY <1>2 DEF DeleteHashes, InsertHash, PutThrows, Throws, Announce, Crash
<1> QED
  BY <1>1, <1>2 DEF PutStep

(* Where the call after piece i stands.                                    *)
LEMMA ThenAt ==
  ASSUME NEW i \in Index, NEW a, NEW b
  PROVE  \/ i + 1 \in Index /\ Then(i, a, b) = At(a, i + 1)
         \/ i + 1 = Pieces /\ Then(i, a, b) = At(b, 0)
BY DataDirectoryAssumption DEF Then, Index

(* Files never disappear, and the row stays.                               *)
LEMMA StoreGrows ==
  TypeOK /\ [Next]_vars =>
     (row => row') /\ \A j \in Index : file[j] # "none" => file'[j] # "none"
<1> SUFFICES ASSUME TypeOK, [Next]_vars
             PROVE  (row => row') /\ \A j \in Index : file[j] # "none" => file'[j] # "none"
  OBVIOUS
<1> USE DEF TypeOK
<1>1. ASSUME NEW p \in Proc, PutStep(p)
      PROVE  (row => row') /\ \A j \in Index : file[j] # "none" => file'[j] # "none"
  BY <1>1 DEF PutStep, BeginPut, OpenPiece, WritePiece, UpsertRow, DeleteHashes,
              InsertHash, PutThrows, Announce
<1>2. ASSUME NEW p \in Proc, StartStep(p) \/ ServeStep(p) \/ StopStep(p)
      PROVE  row' = row /\ file' = file
  BY <1>2, NodeFrame DEF storeVars
<1>3. ASSUME NEW p \in Proc, Crash(p) PROVE row' = row /\ file' = file
  BY <1>3 DEF Crash
<1>4. CASE UNCHANGED vars
  BY <1>4 DEF vars, storeVars
<1> QED
  BY <1>1, <1>2, <1>3, <1>4 DEF Next

LEMMA BehindStep == TypeOK /\ Behind /\ [Next]_vars => Behind'
<1> SUFFICES ASSUME TypeOK, Behind, [Next]_vars, NEW q \in Proc
             PROVE  /\ \A j \in Index : Past(q, j)' => file'[j] # "none"
                    /\ put'[q].at = "write" => file'[put'[q].i] # "none"
                    /\ Indexed(q)' => row'
  BY DEF Behind
<1> DEFINE Goal == /\ \A j \in Index : Past(q, j)' => file'[j] # "none"
                   /\ put'[q].at = "write" => file'[put'[q].i] # "none"
                   /\ Indexed(q)' => row'
<1> USE DEF TypeOK, Past, Indexed
<1>0. /\ \A j \in Index : Past(q, j) => file[j] # "none"
      /\ put[q].at = "write" => file[put[q].i] # "none"
      /\ Indexed(q) => row
      /\ put[q].i \in Index
  BY DEF Behind
<1>1. ASSUME put'[q] = put[q] PROVE Goal
  BY <1>0, <1>1, StoreGrows
<1>2. ASSUME PutStep(q) PROVE Goal
  <2>0. \A j \in Index : j < 0 => FALSE
    BY DEF Index
  <2>1. CASE BeginPut(q)
    BY <2>0, <2>1 DEF BeginPut, At
  <2>2. CASE OpenPiece(q)
    BY <1>0, <2>2 DEF OpenPiece, At
  <2>3. CASE WritePiece(q)
    <3>1. /\ put' = [put EXCEPT ![q] = Then(put[q].i, "open", "upsert")]
          /\ file' = [file EXCEPT ![put[q].i] = "whole"] /\ put[q].at = "write"
      BY <2>3 DEF WritePiece
    <3>2. CASE put'[q] = At("open", put[q].i + 1)
      <4>1. \A j \in Index : j < put[q].i + 1 => j < put[q].i \/ j = put[q].i
        BY <1>0 DEF Index
      <4> QED
        BY <1>0, <3>1, <3>2, <4>1 DEF At
    <3>3. CASE put[q].i + 1 = Pieces /\ put'[q] = At("upsert", 0)
      <4>1. \A j \in Index : j < put[q].i \/ j = put[q].i
        BY <1>0, <3>3, DataDirectoryAssumption DEF Index
      <4> QED
        BY <1>0, <3>1, <3>3, <4>1 DEF At
    <3> QED
      BY <1>0, <3>1, <3>2, <3>3, ThenAt
  <2>4. CASE UpsertRow(q) \/ DeleteHashes(q)
    BY <1>0, <2>4 DEF UpsertRow, DeleteHashes, At
  <2>5. CASE InsertHash(q)
    <3>1. put'[q] = Then(put[q].i, "insert", "announce") /\ file' = file /\ row' = row
          /\ put[q].at = "insert"
      BY <2>5 DEF InsertHash
    <3>2. put'[q].at \in {"insert", "announce"}
      <4> HIDE DEF TypeOK, Past, Indexed
      <4>1. put[q].i \in Index
        BY <1>0
      <4>2. Then(put[q].i, "insert", "announce").at \in {"insert", "announce"}
        BY <4>1, ThenAt DEF At
      <4> QED
        BY <3>1, <4>2
    <3>3. row /\ \A j \in Index : file[j] # "none"
      BY <1>0, <3>1
    <3>4. row' /\ \A j \in Index : file'[j] # "none"
      BY <3>1, <3>3
    <3>5. put'[q].at # "write"
      BY <3>2
    <3> QED
      BY <3>4, <3>5
  <2>6. CASE PutThrows(q) \/ Announce(q)
    <3>1. put'[q] = Idle
      BY <2>6 DEF PutThrows, Throws, Announce
    <3> QED
      BY <3>1 DEF Idle
  <2> QED
    BY <1>2, <2>1, <2>2, <2>3, <2>4, <2>5, <2>6 DEF PutStep
<1>3. ASSUME Crash(q) PROVE Goal
  BY <1>3 DEF Crash, Idle
<1>4. ASSUME NEW p \in Proc, StartStep(p) \/ ServeStep(p) \/ StopStep(p)
      PROVE  put' = put
  BY <1>4, NodeFrame DEF storeVars
<1>5. ASSUME UNCHANGED vars PROVE Goal
  BY <1>1, <1>5 DEF vars, storeVars
<1>6. ASSUME NEW p \in Proc, PutStep(p) \/ Crash(p) PROVE Goal
  <2>1. CASE p = q
    BY <1>2, <1>3, <1>6, <2>1
  <2>2. CASE p # q
    BY <1>1, <1>6, <2>2, PutLocal
  <2> QED
    BY <2>1, <2>2
<1>7. ASSUME NEW p \in Proc, StartStep(p) \/ ServeStep(p) \/ StopStep(p) PROVE Goal
  BY <1>1, <1>4, <1>7
<1> HIDE DEF TypeOK, Past, Indexed, Goal
<1>8. Goal
  BY <1>5, <1>6, <1>7 DEF Next
<1> QED
  BY <1>8 DEF Goal

LEMMA AnnouncedStep ==
  TypeOK /\ Behind /\ AnnouncedIndexed /\ [Next]_vars => AnnouncedIndexed'
<1> SUFFICES ASSUME TypeOK, Behind, AnnouncedIndexed, [Next]_vars, announced'
             PROVE  row' /\ \A i \in Index : file'[i] # "none"
  BY DEF AnnouncedIndexed, HasPiece
<1>1. announced \/ \E p \in Proc : put[p].at = "announce"
  <2>1. ASSUME NEW p \in Proc, PutStep(p) PROVE announced \/ put[p].at = "announce"
    BY <2>1 DEF PutStep, BeginPut, OpenPiece, WritePiece, UpsertRow, DeleteHashes,
                InsertHash, PutThrows, Announce
  <2>2. ASSUME NEW p \in Proc, StartStep(p) \/ ServeStep(p) \/ StopStep(p) PROVE announced
    BY <2>2, NodeFrame DEF storeVars
  <2>3. ASSUME NEW p \in Proc, Crash(p) PROVE announced
    BY <2>3 DEF Crash
  <2>4. CASE UNCHANGED vars
    BY <2>4 DEF vars, storeVars
  <2> QED
    BY <2>1, <2>2, <2>3, <2>4 DEF Next
<1>2. CASE announced
  <2>1. 0 \in Index
    BY DataDirectoryAssumption DEF Index
  <2>2. row /\ \A i \in Index : file[i] # "none"
    BY <1>2, <2>1 DEF AnnouncedIndexed, HasPiece
  <2> QED
    BY <2>2, StoreGrows
<1>3. ASSUME NEW p \in Proc, put[p].at = "announce"
      PROVE  row /\ \A i \in Index : file[i] # "none"
  BY <1>3 DEF Behind, Past, Indexed
<1> QED
  BY <1>1, <1>2, <1>3, StoreGrows

-----------------------------------------------------------------------------
(* Files.                                                                  *)

(* A put is cut off.                                                       *)
Cut == \E p \in Proc : Crash(p) /\ put[p].at \in Writing

LEMMA CutDamages == Cut => damaged' /\ fresh' = {}
BY DEF Cut, Crash

(* Otherwise a file that is sound stays so.                                *)
LEMMA SoundKept ==
  ASSUME TypeOK, [Next]_vars, ~Cut, NEW j \in Index, Sound(j)
  PROVE  Sound(j)'
<1> USE DEF Sound
<1>1. ASSUME NEW p \in Proc, PutStep(p) PROVE Sound(j)'
  <2>0. \A q \in Proc : q # p => put'[q] = put[q]
    BY <1>1, PutLocal
  <2>1. CASE OpenPiece(p)
    <3>1. file' = [file EXCEPT ![put[p].i] = "cut"] /\ put'[p] = At("write", put[p].i)
          /\ put[p] # At("write", j)
      BY <2>1 DEF OpenPiece, TypeOK, At
    <3>2. CASE j = put[p].i
      BY <3>1, <3>2
    <3>3. CASE j # put[p].i
      BY <2>0, <3>1, <3>3 DEF TypeOK
    <3> QED
      BY <3>2, <3>3
  <2>2. CASE WritePiece(p)
    <3>1. file' = [file EXCEPT ![put[p].i] = "whole"]
      BY <2>2 DEF WritePiece
    <3>2. CASE j = put[p].i
      BY <3>1, <3>2 DEF TypeOK
    <3>3. CASE j # put[p].i
      <4>1. put[p] # At("write", j)
        BY <3>3 DEF At
      <4> QED
        BY <2>0, <3>1, <3>3, <4>1 DEF TypeOK
    <3> QED
      BY <3>2, <3>3
  <2>3. CASE ~OpenPiece(p) /\ ~WritePiece(p)
    <3>1. file' = file /\ put[p] # At("write", j)
      BY <1>1, <2>3 DEF PutStep, BeginPut, UpsertRow, DeleteHashes, InsertHash,
         PutThrows, Announce, Free, Idle, At
    <3> QED
      BY <2>0, <3>1
  <2> QED
    BY <2>1, <2>2, <2>3
<1>2. ASSUME NEW p \in Proc, StartStep(p) \/ ServeStep(p) \/ StopStep(p) PROVE Sound(j)'
  BY <1>2, NodeFrame DEF storeVars
<1>3. ASSUME NEW p \in Proc, Crash(p) PROVE Sound(j)'
  <2>1. file' = file /\ \A q \in Proc : q # p => put'[q] = put[q]
    BY <1>3, PutLocal DEF Crash
  <2>2. put[p] # At("write", j)
    BY <1>3 DEF Cut, At, Writing
  <2> QED
    BY <2>1, <2>2
<1>4. ASSUME UNCHANGED vars PROVE Sound(j)'
  BY <1>4 DEF vars, storeVars
<1> QED
  BY <1>1, <1>2, <1>3, <1>4 DEF Next

(* Who is fresh and past a piece was so before, or has just written it.    *)
LEMMA PastKept ==
  ASSUME TypeOK, [Next]_vars, ~Cut, NEW q \in Proc, q \in fresh', NEW j \in Index, Past(q, j)'
  PROVE  (q \in fresh /\ Past(q, j)) \/ file'[j] = "whole"
<1> DEFINE Goal == (q \in fresh /\ Past(q, j)) \/ file'[j] = "whole"
<1>0. put[q].i \in Index /\ 0 \in Index
  BY DataDirectoryAssumption DEF TypeOK, Index
<1>1. ASSUME put'[q] = put[q], fresh' \subseteq fresh PROVE Goal
  BY <1>1 DEF Past
<1>2. ASSUME PutStep(q) PROVE Goal
  <2>1. CASE BeginPut(q) \/ PutThrows(q) \/ Announce(q)
    <3>1. put'[q] = At("open", 0) \/ put'[q] = Idle
      BY <2>1 DEF TypeOK, BeginPut, PutThrows, Throws, Announce
    <3>2. ~Past(q, j)'
      BY <3>1 DEF Past, At, Idle, Index
    <3> QED
      BY <3>2
  <2>2. CASE OpenPiece(q)
    BY <2>2 DEF OpenPiece, Past, At, TypeOK
  <2>3. CASE WritePiece(q)
    <3>1. /\ put'[q] = Then(put[q].i, "open", "upsert") /\ put[q].at = "write"
          /\ file'[put[q].i] = "whole" /\ fresh' = fresh
      BY <2>3 DEF WritePiece, TypeOK
    <3>2. j < put[q].i \/ j = put[q].i
      <4>1. CASE put'[q] = At("open", put[q].i + 1)
        BY <1>0, <4>1 DEF Past, At, Index
      <4>2. CASE put[q].i + 1 = Pieces
        BY <1>0, <4>2, DataDirectoryAssumption DEF Index
      <4> QED
        BY <1>0, <3>1, <4>1, <4>2, ThenAt
    <3> QED
      BY <3>1, <3>2 DEF Past
  <2>4. CASE UpsertRow(q) \/ DeleteHashes(q) \/ InsertHash(q)
    BY <2>4 DEF UpsertRow, DeleteHashes, InsertHash, Past
  <2> QED
    BY <1>2, <2>1, <2>2, <2>3, <2>4 DEF PutStep
<1>3. ASSUME NEW p \in Proc, p # q, PutStep(p) PROVE Goal
  <2>1. put'[q] = put[q] /\ fresh' \subseteq fresh \cup {p}
    BY <1>3, PutLocal DEF PutStep, BeginPut, OpenPiece, WritePiece, UpsertRow,
       DeleteHashes, InsertHash, PutThrows, Throws, Announce
  <2> QED
    BY <1>3, <2>1 DEF Past
<1>4. ASSUME NEW p \in Proc, StartStep(p) \/ ServeStep(p) \/ StopStep(p) PROVE Goal
  BY <1>1, <1>4, NodeFrame DEF storeVars
<1>5. ASSUME NEW p \in Proc, Crash(p) PROVE Goal
  <2>1. p # q /\ fresh' \subseteq fresh
    <3>1. put'[p] = Idle /\ fresh' \subseteq fresh
      BY <1>5 DEF Crash, TypeOK
    <3>2. p # q
      BY <3>1 DEF Past, Idle
    <3> QED
      BY <3>1, <3>2
  <2> QED
    BY <1>1, <1>5, <2>1, PutLocal
<1>6. ASSUME UNCHANGED vars PROVE Goal
  BY <1>1, <1>6 DEF vars, storeVars
<1> QED
  BY <1>2, <1>3, <1>4, <1>5, <1>6 DEF Next

(* Which steps make a content count as stored and undamaged.               *)
LEMMA Mended ==
  ASSUME TypeOK, [Next]_vars, ~Cut
  PROVE  /\ row' => row \/ \E p \in Proc : UpsertRow(p)
         /\ ~damaged' => ~damaged \/ \E p \in fresh : put[p].at = "announce"
<1> DEFINE Goal == /\ row' => row \/ \E p \in Proc : UpsertRow(p)
                   /\ ~damaged' => ~damaged \/ \E p \in fresh : put[p].at = "announce"
<1>1. ASSUME NEW p \in Proc, PutStep(p) PROVE Goal
  <2>1. CASE Announce(p)
    BY <2>1 DEF Announce
  <2>2. CASE UpsertRow(p)
    BY <2>2 DEF UpsertRow
  <2>3. CASE ~Announce(p) /\ ~UpsertRow(p)
    <3>1. row' = row /\ damaged' = damaged
      BY <1>1, <2>3 DEF PutStep, BeginPut, OpenPiece, WritePiece, DeleteHashes,
         InsertHash, PutThrows
    <3> QED
      BY <3>1
  <2> QED
    BY <2>1, <2>2, <2>3
<1>2. ASSUME NEW p \in Proc, StartStep(p) \/ ServeStep(p) \/ StopStep(p) PROVE Goal
  BY <1>2, NodeFrame DEF storeVars
<1>3. ASSUME NEW p \in Proc, Crash(p) PROVE Goal
  BY <1>3 DEF Cut, Crash
<1>4. ASSUME UNCHANGED vars PROVE Goal
  BY <1>4 DEF vars, storeVars
<1> QED
  BY <1>1, <1>2, <1>3, <1>4 DEF Next

LEMMA FilesStep == TypeOK /\ Behind /\ Files /\ [Next]_vars => Files'
<1> SUFFICES ASSUME TypeOK, Behind, Files, [Next]_vars, ~Cut PROVE Files'
  BY CutDamages DEF Files
<1>1. ASSUME row', ~damaged', NEW j \in Index PROVE Sound(j)'
  <2>1. Sound(j)
    <3>1. CASE \E p \in fresh : put[p].at = "announce"
      BY <3>1 DEF Files, Past
    <3>2. CASE ~damaged /\ row
      BY <3>2 DEF Files
    <3>3. CASE ~damaged /\ ~row
      <4>1. PICK p \in Proc : UpsertRow(p)
        BY <1>1, <3>3, Mended
      <4>2. put[p].at = "upsert" /\ ~Free(p)
        BY <4>1 DEF UpsertRow, Free, Idle
      <4> QED
        BY <3>3, <4>2 DEF Files, Past
    <3> QED
      BY <1>1, <3>1, <3>2, <3>3, Mended
  <2> QED
    BY <2>1, SoundKept
<1>2. ASSUME NEW q \in fresh', NEW j \in Index, Past(q, j)' PROVE Sound(j)'
  <2>0. q \in Proc
    BY TypeStep DEF TypeOK
  <2>1. CASE q \in fresh /\ Past(q, j)
    BY <2>1, SoundKept DEF Files
  <2>2. CASE file'[j] = "whole"
    BY <2>2 DEF Sound
  <2> QED
    BY <1>2, <2>0, <2>1, <2>2, PastKept
<1>3. ASSUME ~row', ~damaged', NEW q \in Proc, ~Free(q)' PROVE q \in fresh'
  <2>1. ~row /\ ~damaged
    <3>1. ~row
      BY <1>3, StoreGrows
    <3>2. \A p \in fresh : put[p].at # "announce"
      BY <3>1 DEF Behind, Indexed, TypeOK
    <3> QED
      BY <1>3, <3>1, <3>2, Mended
  <2>2. ~Free(q) => q \in fresh
    BY <2>1 DEF Files
  <2>3. ASSUME PutStep(q) PROVE q \in fresh'
    <3>1. CASE BeginPut(q)
      BY <3>1 DEF BeginPut
    <3>2. CASE PutThrows(q) \/ Announce(q)
      BY <1>3, <3>2 DEF PutThrows, Throws, Announce, Free, TypeOK
    <3>3. CASE OpenPiece(q) \/ WritePiece(q) \/ UpsertRow(q) \/ DeleteHashes(q) \/ InsertHash(q)
      <4>1. fresh' = fresh /\ ~Free(q)
        BY <3>3 DEF OpenPiece, WritePiece, UpsertRow, DeleteHashes, InsertHash, Free, Idle
      <4> QED
        BY <2>2, <4>1
    <3> QED
      BY <2>3, <3>1, <3>2, <3>3 DEF PutStep
  <2>4. ASSUME NEW p \in Proc, p # q, PutStep(p) PROVE q \in fresh'
    <3>1. put'[q] = put[q]
      BY <2>4, PutLocal
    <3>2. q \in fresh => q \in fresh'
      BY <2>4 DEF PutStep, BeginPut, OpenPiece, WritePiece, UpsertRow,
         DeleteHashes, InsertHash, PutThrows, Throws, Announce
    <3> QED
      BY <1>3, <2>2, <3>1, <3>2 DEF Free
  <2>5. ASSUME NEW p \in Proc, StartStep(p) \/ ServeStep(p) \/ StopStep(p)
        PROVE  q \in fresh'
    BY <1>3, <2>2, <2>5, NodeFrame DEF storeVars, Free
  <2>6. ASSUME NEW p \in Proc, Crash(p) PROVE q \in fresh'
    <3>1. put'[p] = Idle /\ fresh' = fresh \ {p}
      BY <2>6 DEF Cut, Crash, TypeOK
    <3>2. p # q
      BY <1>3, <3>1 DEF Free
    <3> QED
      BY <1>3, <2>2, <2>6, <3>1, <3>2, PutLocal DEF Free
  <2>7. ASSUME UNCHANGED vars PROVE q \in fresh'
    BY <1>3, <2>2, <2>7 DEF vars, storeVars, Free
  <2> QED
    BY <2>3, <2>4, <2>5, <2>6, <2>7 DEF Next
<1> QED
  BY <1>1, <1>2, <1>3 DEF Files

-----------------------------------------------------------------------------
(* Hash rows.                                                              *)

LEMMA PremiseKept ==
  ASSUME TypeOK, Behind, [Next]_vars, ~Cut,
         (row' /\ ~damaged') \/ \E q \in Proc : Mends(q)'
  PROVE  \/ row /\ ~damaged
         \/ \E q \in Proc : Mends(q)
         \/ \E q \in Proc : UpsertRow(q)
<1> DEFINE Goal == \/ row /\ ~damaged
                   \/ \E q \in Proc : Mends(q)
                   \/ \E q \in Proc : UpsertRow(q)
<1>1. ASSUME row', ~damaged' PROVE Goal
  <2>1. CASE \E p \in fresh : put[p].at = "announce"
    BY <2>1 DEF Mends, Indexed, TypeOK
  <2> QED
    BY <1>1, <2>1, Mended
<1>2. ASSUME NEW q \in Proc, Mends(q)' PROVE Goal
  <2>1. q \in fresh' /\ Indexed(q)'
    BY <1>2 DEF Mends
  <2>2. ASSUME put'[q] = put[q], fresh' \subseteq fresh PROVE Goal
    BY <2>1, <2>2 DEF Mends, Indexed
  <2>3. ASSUME PutStep(q) PROVE Goal
    <3>1. CASE UpsertRow(q)
      BY <3>1
    <3>2. CASE DeleteHashes(q) \/ InsertHash(q)
      <4>1. fresh' = fresh /\ Indexed(q)
        BY <3>2 DEF DeleteHashes, InsertHash, Indexed
      <4> QED
        BY <2>1, <4>1 DEF Mends
    <3>3. CASE BeginPut(q) \/ OpenPiece(q) \/ PutThrows(q) \/ Announce(q)
      <4>1. put'[q] \in {At("open", 0), At("write", put[q].i), Idle}
        BY <3>3 DEF BeginPut, OpenPiece, PutThrows, Throws, Announce, TypeOK
      <4>2. put'[q].at \in {"open", "write", "idle"}
        BY <4>1 DEF At, Idle
      <4> QED
        BY <2>1, <4>2 DEF Indexed
    <3>4. CASE WritePiece(q)
      <4>1. put'[q] = Then(put[q].i, "open", "upsert") /\ put[q].i \in Index
        BY <3>4 DEF WritePiece, TypeOK
      <4>2. put'[q].at \in {"open", "upsert"}
        BY <4>1, ThenAt DEF At
      <4> QED
        BY <2>1, <4>2 DEF Indexed
    <3> QED
      BY <2>3, <3>1, <3>2, <3>3, <3>4 DEF PutStep
  <2>4. ASSUME NEW p \in Proc, p # q, PutStep(p) PROVE Goal
    <3>1. put'[q] = put[q] /\ fresh' \subseteq fresh \cup {p}
      BY <2>4, PutLocal DEF PutStep, BeginPut, OpenPiece, WritePiece, UpsertRow,
         DeleteHashes, InsertHash, PutThrows, Throws, Announce
    <3> QED
      BY <2>1, <2>4, <3>1 DEF Mends, Indexed
  <2>5. ASSUME NEW p \in Proc, StartStep(p) \/ ServeStep(p) \/ StopStep(p) PROVE Goal
    BY <2>2, <2>5, NodeFrame DEF storeVars
  <2>6. ASSUME NEW p \in Proc, Crash(p) PROVE Goal
    <3>1. put'[p] = Idle /\ fresh' \subseteq fresh
      BY <2>6 DEF Crash, TypeOK
    <3>2. p # q
      BY <2>1, <3>1 DEF Indexed, Idle
    <3> QED
      BY <2>2, <2>6, <3>1, <3>2, PutLocal
  <2>7. ASSUME UNCHANGED vars PROVE Goal
    BY <2>2, <2>7 DEF vars, storeVars
  <2> QED
    BY <2>3, <2>4, <2>5, <2>6, <2>7 DEF Next
<1> QED
  BY <1>1, <1>2

LEMMA RelayBegins == ASSUME TypeOK, NEW p \in Proc, UpsertRow(p) PROVE Relay'
<1>1. hashes' = {} /\ put'[p].at = "delete"
  BY DEF UpsertRow, At, TypeOK
<1> QED
  BY <1>1 DEF Relay, Covered, Covers

(* A step that touches neither the hash rows nor a put that covers some.   *)
LEMMA RelayFrame ==
  ASSUME Relay, hashes' = hashes,
         \A q \in Proc : put[q].at \in {"delete", "insert"} => put'[q] = put[q]
  PROVE  Relay'
<1>1. ASSUME NEW m, NEW j, Covered(m, j) PROVE Covered(m, j)'
  BY <1>1 DEF Covered, Covers
<1> QED
  BY <1>1 DEF Relay

LEMMA RelayInsert ==
  ASSUME TypeOK, Relay, NEW p \in Proc, InsertHash(p) PROVE Relay'
<1>i. PICK i \in Index : i = put[p].i
  BY DEF TypeOK
<1>0. i \in Index /\ i \in Int /\ Index \subseteq Int
  BY <1>i DEF Index
<1>1. /\ put[p].i = i
      /\ hashes' = hashes \cup {i} /\ put[p].at = "insert"
      /\ put'[p] = Then(i, "insert", "announce")
      /\ \A q \in Proc : q # p => put'[q] = put[q]
  BY <1>i DEF InsertHash, TypeOK
<1>2. ASSUME NEW j \in Index, i < j
      PROVE  put'[p] = At("insert", i + 1) /\ i + 1 <= j
  <2>1. i + 1 # Pieces /\ i + 1 <= j
    BY <1>0, <1>2, DataDirectoryAssumption DEF Index
  <2> QED
    BY <1>0, <1>1, <2>1, ThenAt
<1>3. ASSUME NEW m \in Int, NEW j \in Index, j # i, Covered(m, j) PROVE Covered(m, j)'
  <2>1. PICK q \in Proc : Covers(q, m, j)
    BY <1>3 DEF Covered
  <2>2. CASE q # p
    BY <1>1, <2>1, <2>2 DEF Covered, Covers
  <2>3. CASE q = p
    <3>1. m <= i /\ i < j
      BY <1>0, <1>1, <1>3, <2>1, <2>3 DEF Covers
    <3>2. put'[p].at = "insert" /\ put'[p].i = i + 1 /\ i + 1 <= j
      BY <1>2, <3>1 DEF At
    <3> QED
      BY <1>0, <3>1, <3>2 DEF Covered, Covers
  <2> QED
    BY <2>2, <2>3
<1>4. ASSUME NEW j \in Index, i < j PROVE Covered(i + 1, j)'
  <2>1. put'[p].at = "insert" /\ put'[p].i = i + 1 /\ i + 1 <= j /\ i + 1 \in Int
    BY <1>0, <1>2, <1>4 DEF At
  <2>2. Covers(p, i + 1, j)'
    BY <2>1 DEF Covers
  <2> QED
    BY <2>2 DEF Covered
<1>5. ASSUME NEW j \in Index, j \notin hashes' PROVE Covered(0, j)'
  BY <1>1, <1>3, <1>5 DEF Relay
<1>6. ASSUME NEW k \in hashes', NEW j \in Index, k < j, j \notin hashes'
      PROVE  Covered(k + 1, j)'
  <2>1. CASE k = i
    BY <1>4, <1>6, <2>1
  <2>2. CASE k \in hashes
    <3>1. k \in Index /\ k + 1 \in Int
      BY <1>0, <2>2 DEF TypeOK
    <3> QED
      BY <1>1, <1>3, <1>6, <2>2, <3>1 DEF Relay
  <2> QED
    BY <1>1, <1>6, <2>1, <2>2
<1> QED
  BY <1>5, <1>6 DEF Relay

LEMMA RelayThrows ==
  ASSUME TypeOK, Relay, NEW p \in Proc, PutThrows(p) PROVE Relay'
<1>i. PICK i \in Index : i = put[p].i
  BY DEF TypeOK
<1>0. /\ i \in Index /\ Index \subseteq Int /\ hashes \subseteq Index
      /\ put[p].i = i /\ \A q \in Proc : put[q].i \in Int
  BY <1>i DEF TypeOK, Index
<1>1. hashes' = hashes /\ \A q \in Proc : q # p => put'[q] = put[q]
  BY DEF PutThrows, Throws, TypeOK
<1>2. CASE put[p].at = "upsert"
  BY <1>1, <1>2, RelayFrame
<1>3. ASSUME put[p].at = "insert", i \in hashes PROVE Relay'
  <2>1. ASSUME NEW m \in Int, NEW j \in Index, j \notin hashes, Covered(m, j)
        PROVE  Covered(m, j)'
    <3>1. PICK q \in Proc : Covers(q, m, j)
      BY <2>1 DEF Covered
    <3>2. CASE q # p
      BY <1>1, <3>1, <3>2 DEF Covered, Covers
    <3>3. CASE q = p
      <4>1. m <= i /\ i <= j /\ i # j
        BY <1>0, <1>3, <2>1, <3>1, <3>3 DEF Covers
      <4>2. Covered(i + 1, j)
        BY <1>0, <1>3, <2>1, <4>1 DEF Relay
      <4>3. PICK r \in Proc : Covers(r, i + 1, j)
        BY <4>2 DEF Covered
      <4>4. r # p
        BY <1>0, <1>3, <4>3 DEF Covers
      <4>5. put[r].i \in Int
        BY <1>0
      <4>6. Covers(r, m, j)
        BY <1>0, <4>1, <4>3, <4>5 DEF Covers
      <4> QED
        BY <1>1, <4>4, <4>6 DEF Covered, Covers
    <3> QED
      BY <3>2, <3>3
  <2>2. \A k \in hashes : k + 1 \in Int
    BY <1>0
  <2> QED
    BY <1>1, <2>1, <2>2 DEF Relay
<1> QED
  BY <1>0, <1>2, <1>3 DEF PutThrows

LEMMA RelayKept ==
  ASSUME TypeOK, Relay, [Next]_vars, ~Cut PROVE Relay'
<1>1. ASSUME NEW p \in Proc, PutStep(p) PROVE Relay'
  <2>1. CASE UpsertRow(p)
    BY <2>1, RelayBegins
  <2>2. CASE DeleteHashes(p)
    <3>1. hashes' = {} /\ put'[p] = At("insert", 0)
      BY <2>2 DEF DeleteHashes, TypeOK
    <3> QED
      BY <3>1 DEF Relay, Covered, Covers, At, Index
  <2>3. CASE InsertHash(p)
    BY <2>3, RelayInsert
  <2>4. CASE PutThrows(p)
    BY <2>4, RelayThrows
  <2>5. CASE BeginPut(p) \/ OpenPiece(p) \/ WritePiece(p) \/ Announce(p)
    <3>1. hashes' = hashes /\ put[p].at \notin {"delete", "insert"}
      BY <2>5 DEF BeginPut, OpenPiece, WritePiece, Announce, Free, Idle
    <3>2. \A q \in Proc : q # p => put'[q] = put[q]
      BY <1>1, PutLocal
    <3> QED
      BY <3>1, <3>2, RelayFrame
  <2> QED
    BY <1>1, <2>1, <2>2, <2>3, <2>4, <2>5 DEF PutStep
<1>2. ASSUME NEW p \in Proc, StartStep(p) \/ ServeStep(p) \/ StopStep(p) PROVE Relay'
  BY <1>2, NodeFrame, RelayFrame DEF storeVars
<1>3. ASSUME NEW p \in Proc, Crash(p) PROVE Relay'
  <2>1. hashes' = hashes /\ put[p].at \notin {"delete", "insert"}
    BY <1>3 DEF Crash, Cut, Writing
  <2>2. \A q \in Proc : q # p => put'[q] = put[q]
    BY <1>3, PutLocal
  <2> QED
    BY <2>1, <2>2, RelayFrame
<1>4. ASSUME UNCHANGED vars PROVE Relay'
  BY <1>4, RelayFrame DEF vars, storeVars
<1> QED
  BY <1>1, <1>2, <1>3, <1>4 DEF Next

LEMMA RowsStep == TypeOK /\ Behind /\ Rows /\ [Next]_vars => Rows'
<1> SUFFICES ASSUME TypeOK, Behind, Rows, [Next]_vars,
                    (row' /\ ~damaged') \/ \E q \in Proc : Mends(q)'
             PROVE  Relay'
  BY DEF Rows
<1>1. ~Cut
  BY CutDamages DEF Mends
<1>2. CASE \E p \in Proc : UpsertRow(p)
  BY <1>2, RelayBegins
<1>3. CASE (row /\ ~damaged) \/ \E q \in Proc : Mends(q)
  BY <1>1, <1>3, RelayKept DEF Rows
<1> QED
  BY <1>1, <1>2, <1>3, PremiseKept

-----------------------------------------------------------------------------
(* The theorems.                                                           *)

LEMMA Inductive == Spec => []IInv
<1>1. Init => IInv
  <2> SUFFICES ASSUME Init PROVE IInv
    OBVIOUS
  <2>1. TypeOK
    <3>1. 0 \in Index
      BY DataDirectoryAssumption DEF Index
    <3>2. put \in [Proc -> [at : Writing \cup {"idle", "announce"}, i : Index]]
      BY <3>1 DEF Init, Idle
    <3> QED
      BY <3>2 DEF Init, TypeOK, Stages
  <2>2. StagesOK
    BY DEF Init, StagesOK, StoreOpen, WebOpen, NetworkOpen, UdpOpen, Served, Working,
           Open, Free, Network
  <2>3. Behind /\ AnnouncedIndexed
    BY DEF Init, Behind, AnnouncedIndexed, Past, Indexed, Idle
  <2>4. Files
    BY DEF Init, Files, Free
  <2>5. Rows
    BY DEF Init, Rows, Mends
  <2> QED
    BY <2>1, <2>2, <2>3, <2>4, <2>5 DEF IInv
<1>2. IInv /\ [Next]_vars => IInv'
  BY TypeStep, StagesStep, BehindStep, AnnouncedStep, FilesStep, RowsStep DEF IInv
<1> QED
  BY <1>1, <1>2, PTL DEF Spec

(* The state variables of the store, of the puts and of the processes keep *)
(* their types.                                                            *)
THEOREM TypeCorrect == Spec => []TypeOK
BY Inductive, PTL DEF IInv

(* Whatever is being served, by HTTP or by a transport, finds the store    *)
(* open, unless SIGINT came twice (qdht-node.ts, stop).                    *)
THEOREM StoreOutlives == Spec => []StoreOutlivesWork
<1>1. IInv => StoreOutlivesWork
  BY DEF IInv, StagesOK, StoreOutlivesWork, StoreOpen, WebOpen, NetworkOpen,
         UdpOpen, Served, Open
<1> QED
  BY <1>1, Inductive, PTL

(* What was announced is indexed and has its files (qdht-node.ts, put).    *)
THEOREM AnnouncedStored == Spec => []AnnouncedIndexed
BY Inductive, PTL DEF IInv

(* Once no put is at work and no crash is left unmended, the content can   *)
(* be read (content-store.ts, put and getPiece).                           *)
THEOREM ContentReadable == Spec => []SettledReadable
<1>1. IInv => SettledReadable
  <2> SUFFICES ASSUME IInv, row, ~damaged, \A p \in Proc : put[p].at \notin Writing
               PROVE  GetContent
    BY DEF SettledReadable
  <2>1. ASSUME NEW j \in Index PROVE file[j] = "whole"
    <3>1. \A q \in Proc : put[q].at # "write"
      BY DEF Writing
    <3>2. \A q \in Proc : put[q] # At("write", j)
      BY <3>1 DEF At
    <3> QED
      BY <3>2 DEF IInv, Files, Sound
  <2>2. \A j \in Index : j \in hashes
    BY DEF IInv, Rows, Relay, Covered, Covers, Writing
  <2>3. \A j \in Index : 0..j \subseteq Index
    BY DataDirectoryAssumption DEF Index
  <2> QED
    BY <2>1, <2>2, <2>3 DEF GetContent, GetPiece
<1> QED
  BY <1>1, Inductive, PTL
=============================================================================
