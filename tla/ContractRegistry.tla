-------------------------- MODULE ContractRegistry --------------------------
(***************************************************************************)
(* ContractManager (execution/contract.rs) used by several threads: code   *)
(* storage, metadata storage and the metadata cache are written one after  *)
(* the other, and nothing is held between the check and the writes.        *)
(***************************************************************************)
EXTENDS Integers, FiniteSets

CONSTANTS RegThreads, RegAddresses, RegOwners,
          RegCodes,     \* codes; a code's hash is the code
          RegMaxEvents  \* bound: events emitted

NoCode == 0
NoMeta == [owner |-> 0, code |-> NoCode]

ASSUME RegAssumption ==
    /\ NoCode \notin RegCodes
    /\ RegMaxEvents \in Nat

VARIABLES regCode,         \* code_storage: address -> code
          metadata,        \* storage: address -> metadata
          metadata_cache,  \* address -> metadata
          regThread,       \* thread -> its call
          regEvents,       \* the contracts that emitted the events, counted
          checked          \* ghost: address -> the deployers that passed the check

regVars == <<regCode, metadata, metadata_cache, regThread, regEvents, checked>>

Metas == [owner : RegOwners, code : RegCodes]
RegIdle == [at |-> "idle", address |-> 0, meta |-> NoMeta]
Deploying == {"set", "save", "cache"}
RegCalls == [at : Deploying \cup {"storage", "fill"}, address : RegAddresses,
             meta : Metas \cup {NoMeta}] \cup {RegIdle}

RegTypeOK ==
    /\ regCode \in [RegAddresses -> RegCodes \cup {NoCode}]
    /\ metadata \in [RegAddresses -> Metas \cup {NoMeta}]
    /\ metadata_cache \in [RegAddresses -> Metas \cup {NoMeta}]
    /\ regThread \in [RegThreads -> RegCalls]
    /\ regEvents \in [RegAddresses -> Nat]
    /\ checked \in [RegAddresses -> SUBSET RegThreads]

RegInit ==
    /\ regCode = [a \in RegAddresses |-> NoCode]
    /\ metadata = [a \in RegAddresses |-> NoMeta]
    /\ metadata_cache = [a \in RegAddresses |-> NoMeta]
    /\ regThread = [t \in RegThreads |-> RegIdle]
    /\ regEvents = [a \in RegAddresses |-> 0]
    /\ checked = [a \in RegAddresses |-> {}]

RegMoves(t, next) == regThread' = [regThread EXCEPT ![t] = next]

(* deploy: refused when there is code; else metadata is made, and the code, *)
(* the stored metadata and the cached metadata are written in this order.   *)
Deployable(a) == regCode[a] = NoCode

deploy(t, a, owner, code) ==
    /\ regThread[t].at = "idle" /\ Deployable(a)
    /\ RegMoves(t, [at |-> "set", address |-> a, meta |-> [owner |-> owner, code |-> code]])
    /\ checked' = [checked EXCEPT ![a] = @ \cup {t}]
    /\ UNCHANGED <<regCode, metadata, metadata_cache, regEvents>>

set_code(t) ==
    /\ regThread[t].at = "set"
    /\ regCode' = [regCode EXCEPT ![regThread[t].address] = regThread[t].meta.code]
    /\ RegMoves(t, [regThread[t] EXCEPT !.at = "save"])
    /\ UNCHANGED <<metadata, metadata_cache, regEvents, checked>>

save_metadata(t) ==
    /\ regThread[t].at = "save"
    /\ metadata' = [metadata EXCEPT ![regThread[t].address] = regThread[t].meta]
    /\ RegMoves(t, [regThread[t] EXCEPT !.at = "cache"])
    /\ UNCHANGED <<regCode, metadata_cache, regEvents, checked>>

CacheMetadata(t) ==
    /\ regThread[t].at \in {"cache", "fill"}
    /\ metadata_cache' = [metadata_cache EXCEPT ![regThread[t].address] = regThread[t].meta]
    /\ RegMoves(t, RegIdle)
    /\ UNCHANGED <<regCode, metadata, regEvents, checked>>

(* get_metadata, and upgrade, which gets the metadata and then refuses: a   *)
(* contract is never marked upgradeable.  What is not in the cache is read  *)
(* from storage and put in the cache.                                       *)
get_metadata(t, a) ==
    /\ regThread[t].at = "idle" /\ metadata_cache[a] = NoMeta
    /\ RegMoves(t, [at |-> "storage", address |-> a, meta |-> NoMeta])
    /\ UNCHANGED <<regCode, metadata, metadata_cache, regEvents, checked>>

ReadMetadata(t) ==
    /\ regThread[t].at = "storage"
    /\ LET found == metadata[regThread[t].address]
       IN RegMoves(t, IF found = NoMeta THEN RegIdle
                      ELSE [regThread[t] EXCEPT !.at = "fill", !.meta = found])
    /\ UNCHANGED <<regCode, metadata, metadata_cache, regEvents, checked>>

emit_event(a) ==
    /\ regEvents[a] < RegMaxEvents
    /\ regEvents' = [regEvents EXCEPT ![a] = @ + 1]
    /\ UNCHANGED <<regCode, metadata, metadata_cache, regThread, checked>>

RegNext ==
    \/ \E t \in RegThreads :
         \/ \E a \in RegAddresses, o \in RegOwners, c \in RegCodes : deploy(t, a, o, c)
         \/ set_code(t) \/ save_metadata(t) \/ CacheMetadata(t)
         \/ \E a \in RegAddresses : get_metadata(t, a)
         \/ ReadMetadata(t)
    \/ \E a \in RegAddresses : emit_event(a)

RegSpec == RegInit /\ [][RegNext]_regVars
-----------------------------------------------------------------------------
(* A contract whose deployment raced with no other is described by what     *)
(* storage and the cache hold: once its deployer has returned, the stored   *)
(* metadata names the code that is stored, and the cache holds the same     *)
(* metadata or none, whoever reads and fills the cache meanwhile.  About    *)
(* deploy and get_metadata writing three stores without a lock.             *)
ContractDescribed ==
    \A a \in RegAddresses :
        (\E t \in RegThreads : checked[a] = {t} /\ regThread[t].at \notin Deploying) =>
            /\ metadata[a].code = regCode[a] /\ regCode[a] # NoCode
            /\ metadata_cache[a] \in {metadata[a], NoMeta}
=============================================================================
