------------------------------- MODULE Caches -------------------------------
(***************************************************************************)
(* LruCache, BlockCache and CacheManager (storage/cache.rs), used by       *)
(* several threads.  Every lock is taken for one statement, so put,        *)
(* remove and clear are several steps.                                     *)
(*                                                                         *)
(* A block is a record [height, hash].  The map of the LRU cache is the    *)
(* sequence of its blocks in the order of last_access.                     *)
(***************************************************************************)
EXTENDS Integers, Sequences, FiniteSets
LOCAL INSTANCE SequencesExt

CONSTANTS CacheUsers,    \* threads
          CacheBlocks,   \* the blocks that are put: records [height, hash]
          CacheSize,     \* max_size
          CacheTtl,      \* whether entries expire (with_ttl)
          CacheMaxCalls  \* bound: calls

VARIABLES lru,        \* LruCache.map
          hashIndex,  \* BlockCache.hash_index: hash -> height
          cacheUser,  \* the call of each thread
          cacheCalls

cacheVars == <<lru, hashIndex, cacheUser, cacheCalls>>

CacheHeights == {b.height : b \in CacheBlocks}
NoBlock == [height |-> -1, hash |-> -1]
CacheIdle == [at |-> "idle", block |-> NoBlock]
CacheCall(at, block) == [at |-> at, block |-> block]

CacheTypeOK ==
    /\ lru \in Seq(CacheBlocks)
    /\ DOMAIN hashIndex \subseteq {b.hash : b \in CacheBlocks}
    /\ \A u \in CacheUsers : cacheUser[u].at \in
          {"idle", "insert", "evict", "unindex", "drop", "clear"}

CacheInit ==
    /\ lru = <<>>
    /\ hashIndex = [h \in {} |-> -1]
    /\ cacheUser = [u \in CacheUsers |-> CacheIdle]
    /\ cacheCalls = 0

(* evict_expired: the blocks that were not read for the time to live, which *)
(* are the first ones of the sequence.                                      *)
evict_expired(n) == SubSeq(lru, n + 1, Len(lru))
CacheExpired == IF CacheTtl THEN 0..Len(lru) ELSE {0}

CacheWithout(seq, height) == SelectSeq(seq, LAMBDA b : b.height # height)
CacheHas(seq, height) == \E b \in ToSet(seq) : b.height = height
CacheAt(seq, height) == CHOOSE b \in ToSet(seq) : b.height = height

(* LruCache::get: what is found becomes the last one accessed.              *)
LruGet(seq, height) ==
    IF CacheHas(seq, height) THEN Append(CacheWithout(seq, height), CacheAt(seq, height))
    ELSE seq

CacheStarts(u) ==
    /\ cacheUser[u].at = "idle" /\ cacheCalls < CacheMaxCalls
    /\ cacheCalls' = cacheCalls + 1

(* get, and get_by_hash of a hash that is indexed.                          *)
CacheGet(u, height) ==
    /\ CacheStarts(u)
    /\ \E n \in CacheExpired : lru' = LruGet(evict_expired(n), height)
    /\ UNCHANGED <<hashIndex, cacheUser>>

CacheGetByHash(u, hash) ==
    /\ hash \in DOMAIN hashIndex /\ CacheGet(u, hashIndex[hash])

(* BlockCache::put: the index, then LruCache::put.                          *)
CachePut(u, b) ==
    /\ CacheStarts(u)
    /\ hashIndex' = [h \in DOMAIN hashIndex \cup {b.hash} |->
                        IF h = b.hash THEN b.height ELSE hashIndex[h]]
    /\ cacheUser' = [cacheUser EXCEPT ![u] = CacheCall("insert", b)]
    /\ UNCHANGED lru

CacheInsert(u) ==
    LET b == cacheUser[u].block
    IN /\ cacheUser[u].at = "insert"
       /\ \E n \in CacheExpired : lru' = Append(CacheWithout(evict_expired(n), b.height), b)
       /\ cacheUser' = [cacheUser EXCEPT ![u].at = "evict"]
       /\ UNCHANGED <<hashIndex, cacheCalls>>

(* evict_lru: as many of the least recently used as are too many.           *)
evict_lru(seq) ==
    IF Len(seq) > CacheSize THEN SubSeq(seq, Len(seq) - CacheSize + 1, Len(seq)) ELSE seq

CacheEvict(u) ==
    /\ cacheUser[u].at = "evict"
    /\ lru' = evict_lru(lru)
    /\ cacheUser' = [cacheUser EXCEPT ![u] = CacheIdle]
    /\ UNCHANGED <<hashIndex, cacheCalls>>

(* BlockCache::remove: a get, the index entry of the block it found, and    *)
(* the map entry of the height.                                             *)
CacheRemove(u, height) ==
    /\ CacheStarts(u)
    /\ \E n \in CacheExpired :
         LET seq == LruGet(evict_expired(n), height)
         IN /\ lru' = seq
            /\ cacheUser' = [cacheUser EXCEPT ![u] =
                 IF CacheHas(seq, height) THEN CacheCall("unindex", CacheAt(seq, height))
                 ELSE CacheCall("drop", [height |-> height, hash |-> -1])]
    /\ UNCHANGED hashIndex

CacheUnindex(u) ==
    /\ cacheUser[u].at = "unindex"
    /\ hashIndex' = [h \in DOMAIN hashIndex \ {cacheUser[u].block.hash} |-> hashIndex[h]]
    /\ cacheUser' = [cacheUser EXCEPT ![u].at = "drop"]
    /\ UNCHANGED <<lru, cacheCalls>>

CacheDrop(u) ==
    /\ cacheUser[u].at = "drop"
    /\ lru' = CacheWithout(lru, cacheUser[u].block.height)
    /\ cacheUser' = [cacheUser EXCEPT ![u] = CacheIdle]
    /\ UNCHANGED <<hashIndex, cacheCalls>>

(* clear: the map, then the index.                                          *)
CacheClear(u) ==
    /\ CacheStarts(u)
    /\ lru' = <<>>
    /\ cacheUser' = [cacheUser EXCEPT ![u] = CacheCall("clear", NoBlock)]
    /\ UNCHANGED hashIndex

CacheClearIndex(u) ==
    /\ cacheUser[u].at = "clear"
    /\ hashIndex' = [h \in {} |-> -1]
    /\ cacheUser' = [cacheUser EXCEPT ![u] = CacheIdle]
    /\ UNCHANGED <<lru, cacheCalls>>

CacheNext ==
    \E u \in CacheUsers :
        \/ \E h \in CacheHeights : CacheGet(u, h) \/ CacheRemove(u, h)
        \/ \E b \in CacheBlocks : CachePut(u, b) \/ CacheGetByHash(u, b.hash)
        \/ CacheInsert(u) \/ CacheEvict(u) \/ CacheUnindex(u) \/ CacheDrop(u)
        \/ CacheClear(u) \/ CacheClearIndex(u)
=============================================================================
