----------------------------- MODULE EventStore -----------------------------
(***************************************************************************)
(* The event repository of a node, src/src/core/nostr/sqlite-store.ts, and *)
(* the event log that src/src/node/sync-manager.ts keeps of it in memory.  *)
(*                                                                         *)
(* An event is a record with an id and a createdAt in seconds.  A store is *)
(* the sequence of its rows in the order in which loadAll returns them, by *)
(* created_at and then by rowid; a log is a sequence in the order in which *)
(* a Map was filled.  One upsert is one transaction, with the tags and     *)
(* identities of the event.                                                *)
(***************************************************************************)
EXTENDS Sequences, Subsequence

(* The primary key.                                                        *)
EventKeyBug(e) == IF e.kind = "route" THEN e.route.identity ELSE e.id
EventKey(e) == e.id

HasKey(s, e) == \E i \in DOMAIN s : EventKey(s[i]) = EventKey(e)

(* INSERT OR REPLACE: a row of the key is deleted, and the new one has the *)
(* largest rowid.                                                          *)
Upsert(store, e) ==
    LET others == {i \in DOMAIN store : EventKey(store[i]) # EventKey(e)}
    IN Kept(store, {i \in others : store[i].createdAt <= e.createdAt})
         \o <<e>>
         \o Kept(store, {i \in others : store[i].createdAt > e.createdAt})

(* The first event of a key stays in the log.                              *)
Remember(log, e) == IF HasKey(log, e) THEN log ELSE Append(log, e)

(* A new process fills its log from the store, row by row.                 *)
Hydrate(store) ==
    LET filled[i \in 0..Len(store)] ==
            IF i = 0 THEN <<>> ELSE Remember(filled[i - 1], store[i])
    IN filled[Len(store)]
=============================================================================
