-------------------------- MODULE Services_proofs ---------------------------
(***************************************************************************)
(* Proofs about the shard bridge, for any number of clients, operators,    *)
(* shards and bridges: type correctness, the pending index, the safety of  *)
(* mark_reverted, and that the bridge implements BridgeOutcome; and about  *)
(* the contract registry, for any threads, addresses and codes: a contract *)
(* whose deployment raced with no other is described by what is stored.    *)
(***************************************************************************)
EXTENDS Bridge, ContractRegistry, TLAPS

-----------------------------------------------------------------------------
(***************************************************************************)
(* The contract registry, for any number of threads, addresses, owners,    *)
(* codes and events.  The inductive invariant follows the only deployer of *)
(* an address through its three writes (Stage), and says that who fills    *)
(* the cache holds what is stored (FillsStored).                           *)
(***************************************************************************)
Untouched(a) == regCode[a] = NoCode /\ metadata[a] = NoMeta /\ metadata_cache[a] = NoMeta
DeploysAt(t, a) == regThread[t].at \in Deploying /\ regThread[t].address = a
Described(a) ==
    /\ metadata[a].code = regCode[a] /\ regCode[a] # NoCode
    /\ metadata_cache[a] \in {metadata[a], NoMeta}

(* Where the writes of the only deployer of a stand.                        *)
Stage(t, a) ==
    LET own == regThread[t]
    IN IF DeploysAt(t, a)
       THEN \/ own.at = "set" /\ Untouched(a)
            \/ /\ own.at = "save" /\ regCode[a] = own.meta.code
               /\ metadata[a] = NoMeta /\ metadata_cache[a] = NoMeta
            \/ own.at = "cache" /\ metadata[a] = own.meta /\ Described(a)
       ELSE Described(a)

Staged == \A a \in RegAddresses : \A t \in RegThreads : checked[a] = {t} => Stage(t, a)
Unchecked == \A a \in RegAddresses : checked[a] = {} => Untouched(a)
Owned == \A t \in RegThreads : regThread[t].at \in Deploying =>
            t \in checked[regThread[t].address] /\ regThread[t].meta \in Metas
FillsStored ==
    \A t, u \in RegThreads : regThread[t].at = "fill" =>
        /\ regThread[t].meta \in Metas
        /\ checked[regThread[t].address] # {}
        /\ checked[regThread[t].address] = {u} =>
              regThread[t].meta = metadata[regThread[t].address]

RegInv == RegTypeOK /\ Staged /\ Unchecked /\ Owned /\ FillsStored
-----------------------------------------------------------------------------
(* Metadata that was made by deploy is not the absent metadata.             *)
LEMMA MetaIsThere == NoMeta \notin Metas
  BY RegAssumption, Zenon DEF NoMeta, Metas

(* The initial state satisfies the invariant: nothing is deployed.          *)
LEMMA RegInitInv == RegInit => RegInv
  BY DEF RegInit, RegInv, RegTypeOK, Staged, Unchecked, Owned, FillsStored, Untouched,
         RegIdle, RegCalls, Deploying

(* A deployer that passed the check is the only one, or the address has several.*)
LEMMA DeployInv ==
  ASSUME RegInv, NEW t \in RegThreads, NEW a \in RegAddresses, NEW o \in RegOwners, NEW c \in RegCodes, deploy(t, a, o, c)
  PROVE  RegInv'
<1> USE DEF RegInv, RegMoves
<1>1. RegTypeOK'
  BY Zenon DEF deploy, Deployable, RegTypeOK, RegCalls, RegIdle, Deploying, Metas, Owned
<1>2. Staged'
  BY MetaIsThere DEF deploy, Deployable, RegTypeOK, RegCalls, RegIdle, Deploying, Staged, Stage, Untouched,
     DeploysAt, Described, Unchecked, Owned, FillsStored
<1>3. Unchecked'
  BY Zenon DEF deploy, Deployable, RegTypeOK, RegCalls, RegIdle, Deploying, Unchecked, Untouched, Owned, FillsStored
<1>4. Owned'
  BY DEF deploy, Deployable, RegTypeOK, RegCalls, RegIdle, Deploying, Owned, Metas
<1>5. FillsStored'
  BY MetaIsThere DEF deploy, Deployable, RegTypeOK, RegCalls, RegIdle, Deploying, FillsStored, Owned,
     Staged, Stage, DeploysAt, Unchecked, Untouched
<1>. QED BY <1>1, <1>2, <1>3, <1>4, <1>5, Zenon

(* The code is written by a deployer that passed the check.                 *)
LEMMA SetCodeInv ==
  ASSUME RegInv, NEW t \in RegThreads, set_code(t)
  PROVE  RegInv'
<1> USE DEF RegInv, RegMoves
<1>1. RegTypeOK'
  BY DEF set_code, RegTypeOK, RegCalls, RegIdle, Deploying, Metas, Owned
<1>2. Staged'
  BY MetaIsThere DEF set_code, RegTypeOK, RegCalls, RegIdle, Deploying, Staged, Stage, Untouched,
     DeploysAt, Described, Unchecked, Owned, FillsStored
<1>3. Unchecked'
  BY Zenon DEF set_code, RegTypeOK, RegCalls, RegIdle, Deploying, Unchecked, Untouched, Owned, FillsStored
<1>4. Owned'
  BY DEF set_code, RegTypeOK, RegCalls, RegIdle, Deploying, Owned, Metas
<1>5. FillsStored'
  BY MetaIsThere DEF set_code, RegTypeOK, RegCalls, RegIdle, Deploying, FillsStored, Owned,
     Staged, Stage, DeploysAt, Unchecked, Untouched
<1>. QED BY <1>1, <1>2, <1>3, <1>4, <1>5, Zenon

(* The stored metadata is written after the code it describes.              *)
LEMMA SaveInv ==
  ASSUME RegInv, NEW t \in RegThreads, save_metadata(t)
  PROVE  RegInv'
<1> USE DEF RegInv, RegMoves
<1>1. RegTypeOK'
  BY DEF save_metadata, RegTypeOK, RegCalls, RegIdle, Deploying, Metas, Owned
<1>2. Staged'
  <2> DEFINE a == regThread[t].address
  <2>1. a \in RegAddresses /\ regThread[t].meta \in Metas /\ t \in checked[a]
    BY DEF save_metadata, RegTypeOK, RegCalls, RegIdle, Deploying, Owned
  <2>2. regThread[t].meta.code # NoCode
    BY <2>1, RegAssumption, Zenon DEF Metas
  <2>. QED BY <2>1, <2>2 DEF save_metadata, RegTypeOK, RegCalls, RegIdle, Deploying, Staged, Stage,
     Untouched, DeploysAt, Described
<1>3. Unchecked'
  BY Zenon DEF save_metadata, RegTypeOK, RegCalls, RegIdle, Deploying, Unchecked, Untouched, Owned, FillsStored
<1>4. Owned'
  BY DEF save_metadata, RegTypeOK, RegCalls, RegIdle, Deploying, Owned, Metas
<1>5. FillsStored'
  BY MetaIsThere DEF save_metadata, RegTypeOK, RegCalls, RegIdle, Deploying, FillsStored, Owned,
     Staged, Stage, DeploysAt, Unchecked, Untouched
<1>. QED BY <1>1, <1>2, <1>3, <1>4, <1>5, Zenon

(* What is put in the cache is what is stored.                              *)
LEMMA CacheInv ==
  ASSUME RegInv, NEW t \in RegThreads, CacheMetadata(t)
  PROVE  RegInv'
<1> USE DEF RegInv, RegMoves
<1>1. RegTypeOK'
  BY DEF CacheMetadata, RegTypeOK, RegCalls, RegIdle, Deploying, Metas, Owned
<1>2. Staged'
  BY MetaIsThere DEF CacheMetadata, RegTypeOK, RegCalls, RegIdle, Deploying, Staged, Stage, Untouched,
     DeploysAt, Described, Unchecked, Owned, FillsStored
<1>3. Unchecked'
  BY Zenon DEF CacheMetadata, RegTypeOK, RegCalls, RegIdle, Deploying, Unchecked, Untouched, Owned, FillsStored
<1>4. Owned'
  BY Zenon DEF CacheMetadata, RegTypeOK, RegCalls, RegIdle, Deploying, Owned, Metas
<1>5. FillsStored'
  BY MetaIsThere, Zenon DEF CacheMetadata, RegTypeOK, RegCalls, RegIdle, Deploying, FillsStored, Owned,
     Staged, Stage, DeploysAt, Unchecked, Untouched
<1>. QED BY <1>1, <1>2, <1>3, <1>4, <1>5, Zenon

(* A look in the cache writes nothing.                                      *)
LEMMA GetInv ==
  ASSUME RegInv, NEW t \in RegThreads, NEW a \in RegAddresses, get_metadata(t, a)
  PROVE  RegInv'
<1> USE DEF RegInv, RegMoves
<1>1. RegTypeOK'
  BY DEF get_metadata, RegTypeOK, RegCalls, RegIdle, Deploying, Metas, Owned
<1>2. Staged'
  BY MetaIsThere DEF get_metadata, RegTypeOK, RegCalls, RegIdle, Deploying, Staged, Stage, Untouched,
     DeploysAt, Described, Unchecked, Owned, FillsStored
<1>3. Unchecked'
  BY Zenon DEF get_metadata, RegTypeOK, RegCalls, RegIdle, Deploying, Unchecked, Untouched, Owned, FillsStored
<1>4. Owned'
  BY Zenon DEF get_metadata, RegTypeOK, RegCalls, RegIdle, Deploying, Owned, Metas
<1>5. FillsStored'
  BY MetaIsThere, Zenon DEF get_metadata, RegTypeOK, RegCalls, RegIdle, Deploying, FillsStored, Owned,
     Staged, Stage, DeploysAt, Unchecked, Untouched
<1>. QED BY <1>1, <1>2, <1>3, <1>4, <1>5, Zenon

(* What is read from storage is what the cache will be filled with.         *)
LEMMA ReadInv ==
  ASSUME RegInv, NEW t \in RegThreads, ReadMetadata(t)
  PROVE  RegInv'
<1> USE DEF RegInv, RegMoves
<1>1. RegTypeOK'
  <2>1. regThread[t] \in RegCalls \ {RegIdle} /\ regThread[t].address \in RegAddresses
    BY DEF ReadMetadata, RegTypeOK, RegCalls, RegIdle, Deploying
  <2>2. CASE metadata[regThread[t].address] = NoMeta
    BY <2>1, <2>2, Zenon DEF ReadMetadata, RegTypeOK, RegCalls
  <2>3. CASE metadata[regThread[t].address] # NoMeta
    <3>1. metadata[regThread[t].address] \in Metas
      BY <2>1, <2>3, Zenon DEF RegTypeOK
    <3>2. [regThread[t] EXCEPT !.at = "fill", !.meta = metadata[regThread[t].address]] \in RegCalls
      BY <2>1, <3>1, Zenon DEF RegCalls
    <3>. QED BY <2>1, <2>3, <3>2, Zenon DEF ReadMetadata, RegTypeOK
  <2>. QED BY <2>2, <2>3, Zenon
<1>2. Staged'
  BY MetaIsThere DEF ReadMetadata, RegTypeOK, RegCalls, RegIdle, Deploying, Staged, Stage, Untouched,
     DeploysAt, Described, Unchecked, Owned, FillsStored
<1>3. Unchecked'
  BY Zenon DEF ReadMetadata, RegTypeOK, RegCalls, RegIdle, Deploying, Unchecked, Untouched, Owned, FillsStored
<1>4. Owned'
  BY DEF ReadMetadata, RegTypeOK, RegCalls, RegIdle, Deploying, Owned, Metas
<1>5. FillsStored'
  BY MetaIsThere DEF ReadMetadata, RegTypeOK, RegCalls, RegIdle, Deploying, FillsStored, Owned,
     Staged, Stage, DeploysAt, Unchecked, Untouched
<1>. QED BY <1>1, <1>2, <1>3, <1>4, <1>5, Zenon

(* An event changes none of this.                                           *)
LEMMA EventInv ==
  ASSUME RegInv, NEW a \in RegAddresses, emit_event(a)
  PROVE  RegInv'
<1>1. RegTypeOK'
  BY DEF RegInv, emit_event, RegTypeOK
<1>. QED BY <1>1 DEF RegInv, emit_event, Staged, Stage, DeploysAt, Described, Unchecked, Untouched,
                     Owned, FillsStored

(* Every step keeps the invariant.                                          *)
LEMMA RegNextInv == RegInv /\ [RegNext]_regVars => RegInv'
<1> SUFFICES ASSUME RegInv, [RegNext]_regVars PROVE RegInv'
  BY Zenon
<1>1. CASE UNCHANGED regVars
  BY <1>1 DEF regVars, RegInv, RegTypeOK, Staged, Stage, DeploysAt, Described, Unchecked, Untouched,
              Owned, FillsStored
<1>2. CASE RegNext
  BY <1>2, DeployInv, SetCodeInv, SaveInv, CacheInv, GetInv, ReadInv, EventInv, Zenon DEF RegNext
<1>. QED BY <1>1, <1>2, Zenon

(* For every number of threads, addresses, owners and codes: a contract     *)
(* whose deployment raced with no other is described by storage and by the  *)
(* cache.  About deploy and get_metadata writing three stores without a     *)
(* lock.                                                                    *)
THEOREM RegDescribes == RegSpec => []ContractDescribed
<1>1. RegInv => ContractDescribed
  BY Zenon DEF RegInv, Staged, Stage, DeploysAt, Described, ContractDescribed
<1>. QED BY <1>1, RegInitInv, RegNextInv, PTL DEF RegSpec

-----------------------------------------------------------------------------
(* The shard bridge.                                                        *)
\* Clients inside initiate_bridge hold different, already issued identifiers.
\* Their bridge is not in the map before InitiateInsert and has the shards of
\* the call after it.
CallsApart ==
    /\ \A c \in Clients : call[c].phase = "idle" <=> call[c].id = NoId
    /\ \A c \in Clients : call[c].phase # "idle" =>
         /\ call[c].id < next_bridge_id
         /\ call[c].tx.source # call[c].tx.target
         /\ call[c].phase = "hasId" =>
              bridges[call[c].id].status = "Absent" /\ call[c].tx.status = "Pending"
         /\ call[c].phase = "inserted" =>
              /\ bridges[call[c].id].status # "Absent"
              /\ bridges[call[c].id].source = call[c].tx.source
    /\ \A c, d \in Clients : call[c].phase # "idle" /\ c # d => call[c].id # call[d].id

\* A bridge that is not in the map is not listed, not about to be reverted and
\* not about to be marked; one that is in the map was issued.
AbsentUntouched ==
    \A i \in BridgeIds :
        /\ i >= next_bridge_id => bridges[i].status = "Absent"
        /\ bridges[i].status = "Absent" =>
              /\ \A s \in Shards : i \notin pending[s]
              /\ \A r \in Reverters : marking[r] # i
              /\ i \notin expired
        /\ bridges[i].status # "Absent" =>
              /\ bridges[i].source # bridges[i].target
              /\ \A c \in Clients : call[c].id = i => call[c].phase = "inserted"

Inv == BridgeTypeOK /\ CallsApart /\ AbsentUntouched /\ PendingIndex /\ MarkSafe

USE DEF BridgeIds, NoId, Reverters

LEMMA NoBridgeType == NoBridge \in BridgeTransaction
  <1>1. AnyShard \in Shards
    BY BridgeAssumption, Zenon DEF AnyShard
  <1>2. QED
    BY <1>1, Zenon DEF NoBridge, BridgeTransaction, Statuses

LEMMA InitInv == BridgeInit => Inv
  <1> SUFFICES ASSUME BridgeInit PROVE Inv
    BY Zenon
  <1>1. BridgeTypeOK
    BY NoBridgeType, BridgeAssumption DEF BridgeInit, BridgeTypeOK, NoCall, Call
  <1>2. CallsApart
    BY Zenon DEF BridgeInit, CallsApart, NoCall
  <1>3. AbsentUntouched
    BY BridgeAssumption DEF BridgeInit, AbsentUntouched, NoBridge, NoCall
  <1>4. PendingIndex
    BY Zenon DEF BridgeInit, PendingIndex, NoBridge
  <1>5. MarkSafe
    BY Zenon DEF BridgeInit, MarkSafe
  <1>6. QED
    BY <1>1, <1>2, <1>3, <1>4, <1>5, Zenon DEF Inv

-----------------------------------------------------------------------------
(* Every step preserves the invariant. *)

LEMMA InitiateTakeIdInv ==
  ASSUME Inv, NEW c \in Clients, NEW a \in Amounts, NEW s \in Shards, NEW t \in Shards,
         InitiateTakeId(c, a, s, t)
  PROVE  Inv'
  <1> USE BridgeAssumption
  <1> DEFINE tx == [status |-> "Pending", amount |-> a, source |-> s, target |-> t,
                    expires |-> now + BridgeTimeout]
  <1>1. call \in [Clients -> Call] /\ next_bridge_id \in BridgeIds /\ now + BridgeTimeout \in Nat
    BY DEF Inv, BridgeTypeOK, InitiateTakeId
  <1>2. tx \in BridgeTransaction
    BY <1>1, Zenon DEF BridgeTransaction, Statuses
  <1>3. [phase |-> "hasId", id |-> next_bridge_id, tx |-> tx] \in Call
    BY <1>1, <1>2, Zenon DEF Call
  <1>4. /\ call'[c] = [phase |-> "hasId", id |-> next_bridge_id, tx |-> tx]
        /\ \A d \in Clients : d # c => call'[d] = call[d]
    BY <1>1, Zenon DEF InitiateTakeId
  <1>5. /\ call'[c].phase = "hasId" /\ call'[c].id = next_bridge_id
        /\ call'[c].tx.status = "Pending" /\ call'[c].tx.source = s /\ call'[c].tx.target = t
        /\ call[c].phase = "idle" /\ s # t
        /\ next_bridge_id' = next_bridge_id + 1 /\ bridges' = bridges
        /\ \A d \in Clients : d # c => call'[d] = call[d]
    BY <1>4 DEF InitiateTakeId
  <1>6. BridgeTypeOK'
    BY <1>1, <1>3 DEF Inv, BridgeTypeOK, InitiateTakeId
  <1> HIDE DEF tx
  <1>7. CallsApart'
    <2>1. bridges[next_bridge_id].status = "Absent"
      BY <1>1 DEF Inv, AbsentUntouched
    <2>2. \A d \in Clients : call[d].id < next_bridge_id
      BY <1>1 DEF Inv, CallsApart
    <2>3. ASSUME NEW d \in Clients
          PROVE  /\ call'[d].phase = "idle" <=> call'[d].id = NoId
                 /\ call'[d].phase # "idle" =>
                      /\ call'[d].id < next_bridge_id'
                      /\ call'[d].tx.source # call'[d].tx.target
                      /\ call'[d].phase = "hasId" =>
                           bridges[call'[d].id].status = "Absent" /\ call'[d].tx.status = "Pending"
                      /\ call'[d].phase = "inserted" =>
                           /\ bridges[call'[d].id].status # "Absent"
                           /\ bridges[call'[d].id].source = call'[d].tx.source
      <3>1. CASE d = c
        BY <1>1, <1>5, <2>1, <3>1
      <3>2. CASE d # c
        BY <1>1, <1>5, <2>2, <3>2 DEF Inv, CallsApart, Call
      <3>3. QED
        BY <3>1, <3>2, Zenon
    <2>4. ASSUME NEW d \in Clients, NEW f \in Clients, call'[d].phase # "idle", d # f
          PROVE  call'[d].id # call'[f].id
      BY <1>1, <1>5, <2>2, <2>4 DEF Inv, CallsApart
    <2>5. QED
      BY <1>5, <2>3, <2>4, Zenon DEF CallsApart
  <1>8. AbsentUntouched'
    BY <1>1, <1>4, <1>5, SMTT(30) DEF Inv, CallsApart, AbsentUntouched, InitiateTakeId
  <1>9. PendingIndex'
    BY <1>1, <1>4, <1>5 DEF Inv, CallsApart, AbsentUntouched, PendingIndex, Returned, InitiateTakeId
  <1>10. MarkSafe'
    BY Zenon DEF Inv, MarkSafe, InitiateTakeId
  <1>11. QED
    BY <1>6, <1>7, <1>8, <1>9, <1>10, Zenon DEF Inv

LEMMA InitiateInsertInv ==
  ASSUME Inv, NEW c \in Clients, InitiateInsert(c)
  PROVE  Inv'
  <1> USE BridgeAssumption
  <1>1. bridges \in [BridgeIds -> BridgeTransaction] /\ call \in [Clients -> Call] /\ next_bridge_id \in Nat
    BY DEF Inv, BridgeTypeOK
  <1>2. call[c].tx \in BridgeTransaction /\ call[c].id \in BridgeIds
    BY <1>1, Zenon DEF Inv, CallsApart, InitiateInsert, Call
  <1>3. [call[c] EXCEPT !.phase = "inserted"] \in Call
    BY <1>1, Zenon DEF Call
  <1>4. /\ bridges'[call[c].id] = call[c].tx
        /\ \A i \in BridgeIds : i # call[c].id => bridges'[i] = bridges[i]
    BY <1>1, <1>2, Zenon DEF InitiateInsert
  <1>5. /\ call'[c].phase = "inserted" /\ call'[c].id = call[c].id /\ call'[c].tx = call[c].tx
        /\ \A d \in Clients : d # c => call'[d] = call[d]
    BY <1>1, Zenon DEF InitiateInsert, Call
  <1>6. BridgeTypeOK'
    BY <1>1, <1>2, <1>3, Zenon DEF Inv, BridgeTypeOK, InitiateInsert
  <1>7. CallsApart'
    BY <1>1, <1>2, <1>4, <1>5 DEF Inv, CallsApart, AbsentUntouched, InitiateInsert
  <1>8. AbsentUntouched'
    <2> SUFFICES ASSUME NEW i \in BridgeIds
                 PROVE  /\ i >= next_bridge_id => bridges'[i].status = "Absent"
                        /\ bridges'[i].status = "Absent" =>
                              /\ \A s \in Shards : i \notin pending[s]
                              /\ \A r \in Reverters : marking[r] # i
                              /\ i \notin expired
                        /\ bridges'[i].status # "Absent" =>
                              /\ bridges'[i].source # bridges'[i].target
                              /\ \A d \in Clients : call'[d].id = i => call'[d].phase = "inserted"
      BY Zenon DEF AbsentUntouched, InitiateInsert
    <2>1. CASE i = call[c].id
      BY <1>1, <1>2, <1>4, <1>5, <2>1 DEF Inv, CallsApart, InitiateInsert
    <2>2. CASE i # call[c].id
      BY <1>4, <1>5, <2>2 DEF Inv, AbsentUntouched
    <2>3. QED
      BY <2>1, <2>2, Zenon
  <1>9. PendingIndex'
    BY <1>1, <1>2, <1>4, <1>5
       DEF Inv, CallsApart, AbsentUntouched, PendingIndex, Returned, InitiateInsert
  <1>10. MarkSafe'
    BY <1>1, <1>2, <1>4, <1>5 DEF Inv, CallsApart, AbsentUntouched, MarkSafe, InitiateInsert
  <1>11. QED
    BY <1>6, <1>7, <1>8, <1>9, <1>10, Zenon DEF Inv

LEMMA InitiatePushInv ==
  ASSUME Inv, NEW c \in Clients, InitiatePush(c)
  PROVE  Inv'
  <1> USE BridgeAssumption
  <1>1. /\ bridges \in [BridgeIds -> BridgeTransaction] /\ call \in [Clients -> Call]
        /\ pending \in [Shards -> SUBSET BridgeIds] /\ next_bridge_id \in Nat
    BY DEF Inv, BridgeTypeOK
  <1>2. call[c].tx.source \in Shards /\ call[c].id \in BridgeIds
    BY <1>1, Zenon DEF Inv, CallsApart, InitiatePush, Call, BridgeTransaction
  <1>3. NoCall \in Call
    BY NoBridgeType, Zenon DEF NoCall, Call
  <1>4. /\ pending'[call[c].tx.source] = pending[call[c].tx.source] \cup {call[c].id}
        /\ \A s \in Shards : s # call[c].tx.source => pending'[s] = pending[s]
    BY <1>1, <1>2, Zenon DEF InitiatePush
  <1>5. /\ call'[c].phase = "idle" /\ call'[c].id = NoId
        /\ \A d \in Clients : d # c => call'[d] = call[d]
    BY <1>1, Zenon DEF InitiatePush, NoCall
  <1>6. BridgeTypeOK'
    BY <1>1, <1>2, <1>3, Zenon DEF Inv, BridgeTypeOK, InitiatePush
  <1>7. CallsApart'
    BY <1>1, <1>2, <1>5 DEF Inv, CallsApart, InitiatePush
  <1>8. bridges[call[c].id].status # "Absent"
    BY <1>1, <1>2, Zenon DEF Inv, AbsentUntouched, CallsApart, InitiatePush
  <1>9. AbsentUntouched'
    BY <1>1, <1>2, <1>4, <1>5, <1>8, SMTT(30) DEF Inv, AbsentUntouched, InitiatePush
  <1>10. PendingIndex'
    BY <1>1, <1>2, <1>4, <1>5 DEF Inv, CallsApart, PendingIndex, Returned, InitiatePush
  <1>11. MarkSafe'
    BY Zenon DEF Inv, MarkSafe, InitiatePush
  <1>12. QED
    BY <1>6, <1>7, <1>9, <1>10, <1>11, Zenon DEF Inv

\* What SetStatus does to the map.
LEMMA SetStatusFacts ==
  ASSUME BridgeTypeOK, NEW i \in BridgeIds, NEW st \in Statuses, SetStatus(i, st)
  PROVE  /\ bridges' \in [BridgeIds -> BridgeTransaction]
         /\ bridges'[i].status = st
         /\ bridges'[i].source = bridges[i].source
         /\ bridges'[i].target = bridges[i].target
         /\ \A j \in BridgeIds : j # i => bridges'[j] = bridges[j]
  <1>1. bridges \in [BridgeIds -> BridgeTransaction]
    BY Zenon DEF BridgeTypeOK
  <1>2. [bridges[i] EXCEPT !.status = st] \in BridgeTransaction
    BY <1>1, Zenon DEF BridgeTransaction
  <1>3. bridges'[i] = [bridges[i] EXCEPT !.status = st]
    BY <1>1, Zenon DEF SetStatus
  <1>4. QED
    BY <1>1, <1>2, <1>3, Zenon DEF SetStatus, BridgeTransaction

\* A bridge that is in the map and stays there disturbs no call.
LEMMA KeepApart ==
  ASSUME Inv, NEW i \in BridgeIds, NEW st \in Statuses \ {"Absent"},
         bridges[i].status # "Absent", SetStatus(i, st), UNCHANGED <<call, next_bridge_id>>
  PROVE  CallsApart'
  <1>1. call \in [Clients -> Call]
    BY Zenon DEF Inv, BridgeTypeOK
  <1>2. QED
    BY <1>1, SetStatusFacts DEF Inv, CallsApart, Call

LEMMA KeepUntouched ==
  ASSUME Inv, NEW i \in BridgeIds, NEW st \in Statuses \ {"Absent"},
         bridges[i].status # "Absent", SetStatus(i, st), UNCHANGED <<call, next_bridge_id>>,
         \A j \in BridgeIds : j # i =>
            /\ \A s \in Shards : j \in pending'[s] => j \in pending[s]
            /\ \A r \in Reverters : marking'[r] = j => marking[r] = j
            /\ j \in expired' => j \in expired
  PROVE  AbsentUntouched'
  <1>1. next_bridge_id \in Nat
    BY BridgeAssumption DEF Inv, BridgeTypeOK
  <1>2. ~(i >= next_bridge_id)
    BY <1>1, Zenon DEF Inv, AbsentUntouched
  <1>3. QED
    BY <1>1, <1>2, SetStatusFacts DEF Inv, AbsentUntouched

\* The listing of the other bridges is as before: only bridge i is to be checked.
LEMMA IndexFrame ==
  ASSUME Inv, NEW i \in BridgeIds, NEW st \in Statuses, SetStatus(i, st), UNCHANGED <<call, next_bridge_id>>,
         \A s \in Shards : \A j \in BridgeIds : j # i => (j \in pending'[s] <=> j \in pending[s]),
         st \in {"Pending", "Locked"} /\ i \in Returned => i \in pending'[bridges[i].source],
         st = "Relayed" => i \in pending'[bridges[i].target],
         \A s \in Shards : i \in pending'[s] =>
            \/ s = bridges[i].source
            \/ s = bridges[i].target /\ st \in {"Relayed", "Reverting"}
  PROVE  PendingIndex'
  <1>1. /\ bridges'[i].status = st
        /\ bridges'[i].source = bridges[i].source
        /\ bridges'[i].target = bridges[i].target
        /\ \A j \in BridgeIds : j # i => bridges'[j] = bridges[j]
    BY SetStatusFacts, Zenon DEF Inv
  <1>2. Returned' = Returned
    BY Zenon DEF Returned
  <1>3. ASSUME NEW j \in BridgeIds, j # i
        PROVE  /\ bridges'[j].status \in {"Pending", "Locked"} /\ j \in Returned =>
                    j \in pending'[bridges'[j].source]
               /\ bridges'[j].status = "Relayed" => j \in pending'[bridges'[j].target]
               /\ \A s \in Shards : j \in pending'[s] =>
                    \/ s = bridges'[j].source
                    \/ s = bridges'[j].target /\ bridges'[j].status \in {"Relayed", "Reverting"}
    BY <1>1, <1>3 DEF Inv, BridgeTypeOK, BridgeTransaction, PendingIndex
  <1>4. QED
    BY <1>1, <1>2, <1>3 DEF PendingIndex

LEMMA KnownIds == ASSUME NEW i \in Known PROVE i \in BridgeIds
  BY Zenon DEF Known, Returned, get_all_pending

LEMMA LockInv ==
  ASSUME Inv, NEW i \in Known, lock_bridge(i)
  PROVE  Inv'
  <1>1. i \in BridgeIds /\ SetStatus(i, "Locked") /\ bridges[i].status = "Pending"
    BY KnownIds, Zenon DEF lock_bridge, CanLock
  <1>2. "Locked" \in Statuses \ {"Absent"}
    BY Zenon DEF Statuses
  <1>3. UNCHANGED <<pending, processed, next_bridge_id, totalBridged, totalFailed, call, expired, marking, now, listing>>
    BY Zenon DEF lock_bridge
  <1>4. BridgeTypeOK'
    BY <1>1, <1>2, <1>3, SetStatusFacts, Zenon DEF Inv, BridgeTypeOK
  <1>5. CallsApart'
    BY <1>1, <1>2, <1>3, KeepApart, Zenon
  <1>6. AbsentUntouched'
    BY <1>1, <1>2, <1>3, KeepUntouched, Zenon
  <1>7. PendingIndex'
    BY <1>1, <1>2, <1>3, SetStatusFacts DEF Inv, PendingIndex, Returned
  <1>8. MarkSafe'
    BY <1>1, <1>2, <1>3, SetStatusFacts DEF Inv, BridgeTypeOK, MarkSafe
  <1>9. QED
    BY <1>4, <1>5, <1>6, <1>7, <1>8, Zenon DEF Inv

LEMMA RelayInv ==
  ASSUME Inv, NEW i \in Known, relay_bridge(i), ~WaitsForPending
  PROVE  Inv'
  <1> DEFINE src == bridges[i].source
             dst == bridges[i].target
  <1>1. i \in BridgeIds /\ SetStatus(i, "Relayed") /\ bridges[i].status = "Locked"
    BY KnownIds, Zenon DEF relay_bridge, CanRelay
  <1>2. "Relayed" \in Statuses \ {"Absent"}
    BY Zenon DEF Statuses
  <1>3. UNCHANGED <<processed, next_bridge_id, totalBridged, totalFailed, call, expired, marking, now, listing>>
    BY Zenon DEF relay_bridge
  <1>4. /\ src \in Shards /\ dst \in Shards /\ src # dst
        /\ pending \in [Shards -> SUBSET BridgeIds]
    BY <1>1, Zenon DEF Inv, BridgeTypeOK, BridgeTransaction, AbsentUntouched
  <1>5. /\ pending' \in [Shards -> SUBSET BridgeIds]
        /\ pending'[src] = pending[src] \ {i}
        /\ pending'[dst] = pending[dst] \cup {i}
        /\ \A s \in Shards \ {src, dst} : pending'[s] = pending[s]
    BY <1>1, <1>4, Zenon DEF relay_bridge, MoveToTarget
  <1>6. BridgeTypeOK'
    BY <1>1, <1>2, <1>3, <1>5, SetStatusFacts, Zenon DEF Inv, BridgeTypeOK
  <1>7. CallsApart'
    BY <1>1, <1>2, <1>3, KeepApart, Zenon
  <1>8. AbsentUntouched'
    BY <1>1, <1>2, <1>3, <1>5, KeepUntouched, Zenon
  <1>9. PendingIndex'
    <2>1. \A s \in Shards : \A j \in BridgeIds : j # i => (j \in pending'[s] <=> j \in pending[s])
      BY <1>4, <1>5, Zenon
    <2>2. i \in pending'[dst] /\ \A s \in Shards : i \in pending'[s] => s \in {src, dst}
      BY <1>1, <1>4, <1>5, Zenon DEF Inv, PendingIndex
    <2>3. QED
      BY <1>1, <1>2, <1>3, <2>1, <2>2, IndexFrame, Zenon
  <1>10. MarkSafe'
    BY <1>1, <1>2, <1>3, SetStatusFacts DEF Inv, BridgeTypeOK, MarkSafe
  <1>11. QED
    BY <1>6, <1>7, <1>8, <1>9, <1>10, Zenon DEF Inv

LEMMA FinalizeInv ==
  ASSUME Inv, NEW i \in Known, finalize_bridge(i), ~WaitsForPending
  PROVE  Inv'
  <1> DEFINE dst == bridges[i].target
  <1>1. i \in BridgeIds /\ SetStatus(i, "Finalized") /\ bridges[i].status = "Relayed"
    BY KnownIds, Zenon DEF finalize_bridge, CanFinalize
  <1>2. "Finalized" \in Statuses \ {"Absent"}
    BY Zenon DEF Statuses
  <1>3. UNCHANGED <<next_bridge_id, totalFailed, call, expired, marking, now, listing>>
    BY Zenon DEF finalize_bridge
  <1>4. dst \in Shards /\ pending \in [Shards -> SUBSET BridgeIds] /\ bridges[i].amount \in Nat
    BY <1>1, Zenon DEF Inv, BridgeTypeOK, BridgeTransaction
  <1>5. /\ pending' \in [Shards -> SUBSET BridgeIds]
        /\ pending'[dst] = pending[dst] \ {i}
        /\ \A s \in Shards : s # dst => pending'[s] = pending[s]
    BY <1>1, <1>4, Zenon DEF finalize_bridge
  <1>6. BridgeTypeOK'
    <2>1. processed' \subseteq {ZeroHash} \X Statuses /\ totalBridged' \in Nat
      BY <1>2, <1>4 DEF Inv, BridgeTypeOK, finalize_bridge
    <2>2. QED
      BY <1>1, <1>2, <1>3, <1>5, <2>1, SetStatusFacts, Zenon DEF Inv, BridgeTypeOK
  <1>7. CallsApart'
    BY <1>1, <1>2, <1>3, KeepApart, Zenon
  <1>8. AbsentUntouched'
    BY <1>1, <1>2, <1>3, <1>5, KeepUntouched, Zenon
  <1>9. PendingIndex'
    <2>1. \A s \in Shards : \A j \in BridgeIds : j # i => (j \in pending'[s] <=> j \in pending[s])
      BY <1>4, <1>5, Zenon
    <2>2. \A s \in Shards : i \in pending'[s] => s = bridges[i].source
      BY <1>1, <1>4, <1>5, Zenon DEF Inv, PendingIndex
    <2>3. QED
      BY <1>1, <1>2, <1>3, <2>1, <2>2, IndexFrame, Zenon
  <1>10. MarkSafe'
    BY <1>1, <1>2, <1>3, SetStatusFacts DEF Inv, BridgeTypeOK, MarkSafe
  <1>11. QED
    BY <1>6, <1>7, <1>8, <1>9, <1>10, Zenon DEF Inv

\* revert_bridge by the reaper, which takes the bridge off its list, or by an
\* operator.
LEMMA RevertInv ==
  ASSUME Inv, NEW r \in Reverters, NEW i \in BridgeIds, revert_bridge(r, i), expired' \subseteq expired,
         UNCHANGED <<pending, processed, next_bridge_id, totalBridged, totalFailed, call, now, listing>>
  PROVE  Inv'
  <1>1. SetStatus(i, "Reverting") /\ bridges[i].status \notin {"Absent", "Finalized"}
    BY Zenon DEF revert_bridge, CanRevert
  <1>2. "Reverting" \in Statuses \ {"Absent"}
    BY Zenon DEF Statuses
  <1>3. /\ marking' \in [Reverters -> BridgeIds \cup {NoId}]
        /\ marking'[r] = i
        /\ \A q \in Reverters : q # r => marking'[q] = marking[q]
    BY Zenon DEF Inv, BridgeTypeOK, revert_bridge
  <1>4. BridgeTypeOK'
    BY <1>1, <1>2, <1>3, SetStatusFacts, Zenon DEF Inv, BridgeTypeOK
  <1>5. CallsApart'
    BY <1>1, <1>2, KeepApart, Zenon
  <1>6. AbsentUntouched'
    BY <1>1, <1>2, <1>3, KeepUntouched, Zenon
  <1>7. PendingIndex'
    <2>1. \A s \in Shards : i \in pending'[s] => s = bridges[i].source \/ s = bridges[i].target
      BY Zenon DEF Inv, PendingIndex
    <2>2. QED
      BY <1>1, <1>2, <2>1, IndexFrame, Zenon DEF Statuses
  <1>8. MarkSafe'
    BY <1>1, <1>2, <1>3, SetStatusFacts DEF Inv, BridgeTypeOK, MarkSafe
  <1>9. QED
    BY <1>4, <1>5, <1>6, <1>7, <1>8, Zenon DEF Inv

LEMMA MarkRevertedInv ==
  ASSUME Inv, NEW r \in Reverters, mark_reverted(r), ~WaitsForPending
  PROVE  Inv'
  <1> DEFINE i == marking[r]
  <1>1. /\ i \in BridgeIds /\ SetStatus(i, "Reverted")
        /\ bridges[i].status \in {"Reverting", "Reverted"}
    BY Zenon DEF Inv, BridgeTypeOK, MarkSafe, mark_reverted
  <1>2. "Reverted" \in Statuses \ {"Absent"}
    BY Zenon DEF Statuses
  <1>3. UNCHANGED <<processed, next_bridge_id, totalBridged, call, expired, now, listing>>
    BY Zenon DEF mark_reverted
  <1>4. /\ marking' \in [Reverters -> BridgeIds \cup {NoId}]
        /\ marking'[r] = NoId
        /\ \A q \in Reverters : q # r => marking'[q] = marking[q]
    BY Zenon DEF Inv, BridgeTypeOK, mark_reverted
  <1>5. /\ pending' \in [Shards -> SUBSET BridgeIds]
        /\ \A s \in Shards : pending'[s] = pending[s] \ {i}
    <2>1. pending' = [s \in Shards |-> pending[s] \ {i}]
      BY Zenon DEF mark_reverted
    <2>2. pending \in [Shards -> SUBSET BridgeIds]
      BY Zenon DEF Inv, BridgeTypeOK
    <2>3. QED
      BY <2>1, <2>2, Zenon
  <1>6. BridgeTypeOK'
    <2>1. totalFailed' \in Nat
      BY DEF Inv, BridgeTypeOK, mark_reverted
    <2>2. QED
      BY <1>1, <1>2, <1>3, <1>4, <1>5, <2>1, SetStatusFacts, Zenon DEF Inv, BridgeTypeOK
  <1> HIDE DEF i
  <1>7. CallsApart'
    BY <1>1, <1>2, <1>3, KeepApart, Zenon
  <1>8. AbsentUntouched'
    BY <1>1, <1>2, <1>3, <1>4, <1>5, KeepUntouched
  <1>9. PendingIndex'
    <2>1. \A s \in Shards : i \notin pending'[s]
      BY <1>5, Zenon
    <2>2. \A s \in Shards : \A j \in BridgeIds : j # i => (j \in pending'[s] <=> j \in pending[s])
      BY <1>5, Zenon
    <2>3. QED
      BY <1>1, <1>2, <1>3, <2>1, <2>2, IndexFrame, Zenon
  <1>10. MarkSafe'
    BY <1>1, <1>2, <1>4, SetStatusFacts DEF Inv, BridgeTypeOK, MarkSafe
  <1>11. QED
    BY <1>6, <1>7, <1>8, <1>9, <1>10, Zenon DEF Inv

\* The reaper's list may change as long as it names bridges in the map.
LEMMA OnlyExpiredInv ==
  ASSUME Inv, expired' \subseteq {j \in BridgeIds : bridges[j].status # "Absent"},
         UNCHANGED <<bridges, pending, processed, next_bridge_id, totalBridged, totalFailed, call,
                     marking, now, listing>>
  PROVE  Inv'
  <1>1. BridgeTypeOK'
    BY Zenon DEF Inv, BridgeTypeOK
  <1>2. CallsApart'
    BY Zenon DEF Inv, CallsApart
  <1>3. AbsentUntouched'
    BY Zenon DEF Inv, AbsentUntouched
  <1>4. PendingIndex'
    BY Zenon DEF Inv, PendingIndex, Returned
  <1>5. MarkSafe'
    BY Zenon DEF Inv, MarkSafe
  <1>6. QED
    BY <1>1, <1>2, <1>3, <1>4, <1>5, Zenon DEF Inv

\* get_pending_for_shard, and a writer that meets it, change nothing but the
\* locks they hold.
LEMMA OnlyListingInv ==
  ASSUME Inv, get_pending_for_shard \/ WaitsForPending
  PROVE  Inv'
  <1>1. /\ UNCHANGED <<bridges, pending, processed, next_bridge_id, totalBridged, totalFailed, call,
                       expired, marking, now>>
        /\ listing' \in {"idle", "holds", "dead"}
    BY Zenon DEF get_pending_for_shard, WaitsForPending
  <1>2. BridgeTypeOK'
    BY <1>1, Zenon DEF Inv, BridgeTypeOK
  <1>3. CallsApart'
    BY <1>1, Zenon DEF Inv, CallsApart
  <1>4. AbsentUntouched'
    BY <1>1, Zenon DEF Inv, AbsentUntouched
  <1>5. PendingIndex'
    BY <1>1, Zenon DEF Inv, PendingIndex, Returned
  <1>6. MarkSafe'
    BY <1>1, Zenon DEF Inv, MarkSafe
  <1>7. QED
    BY <1>2, <1>3, <1>4, <1>5, <1>6, Zenon DEF Inv

LEMMA TickInv == ASSUME Inv, Tick PROVE Inv'
  <1>1. BridgeTypeOK'
    BY BridgeAssumption DEF Tick, Inv, BridgeTypeOK
  <1>2. CallsApart'
    BY Zenon DEF Tick, Inv, CallsApart
  <1>3. AbsentUntouched'
    BY Zenon DEF Tick, Inv, AbsentUntouched
  <1>4. PendingIndex'
    BY Zenon DEF Tick, Inv, PendingIndex, Returned
  <1>5. MarkSafe'
    BY Zenon DEF Tick, Inv, MarkSafe
  <1>6. QED
    BY <1>1, <1>2, <1>3, <1>4, <1>5, Zenon DEF Inv

-----------------------------------------------------------------------------
LEMMA NextInv == Inv /\ [BridgeNext]_bridgeVars => Inv'
  <1> SUFFICES ASSUME Inv, [BridgeNext]_bridgeVars PROVE Inv'
    BY Zenon
  <1>1. ASSUME NEW c \in Clients, Initiate(c) PROVE Inv'
    BY <1>1, InitiateTakeIdInv, InitiateInsertInv, InitiatePushInv, Zenon DEF Initiate
  <1>2. ASSUME NEW i \in Known, lock_bridge(i) \/ relay_bridge(i) \/ finalize_bridge(i) PROVE Inv'
    BY <1>2, LockInv, RelayInv, FinalizeInv, OnlyListingInv, Zenon
  <1>3. ASSUME NEW r \in Operators, NEW i \in Known, OperatorRevert(r, i) PROVE Inv'
    BY <1>3, KnownIds, RevertInv, Zenon DEF OperatorRevert
  <1>4. ASSUME NEW r \in Operators, mark_reverted(r) PROVE Inv'
    BY <1>4, MarkRevertedInv, OnlyListingInv, Zenon DEF Reverters
  <1>5. CASE ReaperScan
    BY <1>5, OnlyExpiredInv, Zenon DEF ReaperScan, find_expired_bridges
  <1>6. ASSUME NEW i \in BridgeIds, ReaperRevert(i) PROVE Inv'
    <2>1. CASE revert_bridge("reaper", i)
      BY <1>6, <2>1, RevertInv, Zenon DEF ReaperRevert
    <2>2. CASE UNCHANGED <<bridges, marking>>
      <3>1. /\ expired' \subseteq expired
            /\ UNCHANGED <<bridges, pending, processed, next_bridge_id, totalBridged, totalFailed, call,
                           marking, now, listing>>
        BY <1>6, <2>2, Zenon DEF ReaperRevert
      <3>2. expired' \subseteq {j \in BridgeIds : bridges[j].status # "Absent"}
        BY <3>1, Zenon DEF Inv, BridgeTypeOK, AbsentUntouched
      <3>3. QED
        BY <3>1, <3>2, OnlyExpiredInv, Zenon
    <2>3. QED
      BY <1>6, <2>1, <2>2, Zenon DEF ReaperRevert
  <1>7. CASE mark_reverted("reaper")
    BY <1>7, MarkRevertedInv, OnlyListingInv, Zenon
  <1>8. CASE Tick
    BY <1>8, TickInv, Zenon
  <1>9. CASE UNCHANGED bridgeVars
    <2>1. BridgeTypeOK'
      BY <1>9, Zenon DEF bridgeVars, Inv, BridgeTypeOK
    <2>2. CallsApart'
      BY <1>9, Zenon DEF bridgeVars, Inv, CallsApart
    <2>3. AbsentUntouched'
      BY <1>9, Zenon DEF bridgeVars, Inv, AbsentUntouched
    <2>4. PendingIndex'
      BY <1>9, Zenon DEF bridgeVars, Inv, PendingIndex, Returned
    <2>5. MarkSafe'
      BY <1>9, Zenon DEF bridgeVars, Inv, MarkSafe
    <2>6. QED
      BY <2>1, <2>2, <2>3, <2>4, <2>5, Zenon DEF Inv
  <1>10. CASE get_pending_for_shard
    BY <1>10, OnlyListingInv, Zenon
  <1>11. QED
    BY <1>1, <1>2, <1>3, <1>4, <1>5, <1>6, <1>7, <1>8, <1>9, <1>10, Zenon DEF BridgeNext, Reaper

LEMMA SpecInv == BridgeSpec => []Inv
  BY InitInv, NextInv, PTL DEF BridgeSpec

\* Type correctness of the bridge manager, its callers and the reaper.
THEOREM TypeCorrect == BridgeSpec => []BridgeTypeOK
  BY SpecInv, PTL DEF Inv

\* pending_by_shard never loses an open bridge, for any number of bridges and
\* threads (src/vault/bridge.rs, initiate_bridge to mark_reverted).
THEOREM PendingIndexHolds == BridgeSpec => []PendingIndex
  BY SpecInv, PTL DEF Inv

\* mark_reverted, which assigns the status without a test, never meets a
\* bridge that was paid out.
THEOREM MarkRevertedSafe == BridgeSpec => []MarkSafe
  BY SpecInv, PTL DEF Inv

-----------------------------------------------------------------------------
(* The bridge implements BridgeOutcome. *)

\* A change of one status is a change of one outcome.
LEMMA OutcomeStep ==
  ASSUME BridgeTypeOK, NEW i \in BridgeIds, NEW st \in Statuses, SetStatus(i, st)
  PROVE  outcomes' = [outcomes EXCEPT ![i] = OutcomeOf(st)]
  <1>1. bridges'[i].status = st /\ \A j \in BridgeIds : j # i => bridges'[j] = bridges[j]
    BY SetStatusFacts, Zenon
  <1>2. QED
    BY <1>1, Zenon DEF outcomes

LEMMA RevertOutcome ==
  ASSUME Inv, NEW r \in Reverters, NEW i \in BridgeIds, revert_bridge(r, i)
  PROVE  Abstract!Refund(i) \/ outcomes' = outcomes
  <1>1. outcomes' = [outcomes EXCEPT ![i] = "refunded"]
    BY OutcomeStep, Zenon DEF Inv, revert_bridge, Statuses, OutcomeOf
  <1>2. bridges[i].status \in Statuses \ {"Absent", "Finalized"}
    BY Zenon DEF Inv, BridgeTypeOK, BridgeTransaction, revert_bridge, CanRevert
  <1>3. outcomes[i] \in {"open", "refunded"}
    BY <1>2, Zenon DEF outcomes, OutcomeOf, Statuses
  <1>4. QED
    BY <1>1, <1>3, Zenon DEF Abstract!Refund, outcomes

LEMMA MarkOutcome ==
  ASSUME Inv, NEW r \in Reverters, mark_reverted(r), ~WaitsForPending
  PROVE  outcomes' = outcomes
  <1>1. /\ marking[r] \in BridgeIds /\ SetStatus(marking[r], "Reverted")
        /\ bridges[marking[r]].status \in {"Reverting", "Reverted"}
    BY Zenon DEF Inv, BridgeTypeOK, MarkSafe, mark_reverted
  <1>2. outcomes' = [outcomes EXCEPT ![marking[r]] = "refunded"]
    BY <1>1, OutcomeStep, Zenon DEF Inv, Statuses, OutcomeOf
  <1>3. outcomes[marking[r]] = "refunded"
    BY <1>1, Zenon DEF outcomes, OutcomeOf
  <1>4. QED
    BY <1>1, <1>2, <1>3, Zenon DEF outcomes

LEMMA StepRefines == Inv /\ [BridgeNext]_bridgeVars => [Abstract!Next]_outcomes
  <1> SUFFICES ASSUME Inv, [BridgeNext]_bridgeVars PROVE Abstract!Next \/ outcomes' = outcomes
    BY Zenon
  <1>1. ASSUME NEW c \in Clients, InitiateInsert(c) PROVE Abstract!Next
    <2> DEFINE i == call[c].id
    <2>1. /\ i \in BridgeIds /\ bridges[i].status = "Absent" /\ call[c].tx.status = "Pending"
          /\ bridges \in [BridgeIds -> BridgeTransaction]
      BY <1>1, Zenon DEF Inv, BridgeTypeOK, CallsApart, InitiateInsert, Call
    <2>2. outcomes' = [outcomes EXCEPT ![i] = "open"]
      BY <1>1, <2>1, Zenon DEF InitiateInsert, outcomes, OutcomeOf
    <2>3. outcomes[i] = "absent"
      BY <2>1, Zenon DEF outcomes, OutcomeOf
    <2>4. QED
      BY <2>1, <2>2, <2>3, Zenon DEF Abstract!Next, Abstract!Open
  <1>0. CASE WaitsForPending
    BY <1>0, Zenon DEF WaitsForPending, outcomes
  <1>2. ASSUME NEW i \in Known, lock_bridge(i) \/ relay_bridge(i), ~WaitsForPending
        PROVE  outcomes' = outcomes
    <2>1. PICK st \in {"Locked", "Relayed"} : SetStatus(i, st)
      BY <1>2, Zenon DEF lock_bridge, relay_bridge
    <2>2. i \in BridgeIds /\ OutcomeOf(bridges[i].status) = "open"
      BY <1>2, KnownIds, Zenon DEF lock_bridge, relay_bridge, CanLock, CanRelay, OutcomeOf
    <2>3. outcomes' = [outcomes EXCEPT ![i] = "open"]
      BY <2>1, <2>2, OutcomeStep DEF Inv, Statuses, OutcomeOf
    <2>4. QED
      BY <2>2, <2>3, Zenon DEF outcomes
  <1>3. ASSUME NEW i \in Known, finalize_bridge(i), ~WaitsForPending PROVE Abstract!Next
    <2>1. i \in BridgeIds /\ outcomes[i] = "open"
      BY <1>3, KnownIds, Zenon DEF finalize_bridge, CanFinalize, outcomes, OutcomeOf
    <2>2. outcomes' = [outcomes EXCEPT ![i] = "paid"]
      BY <1>3, <2>1, OutcomeStep, Zenon DEF Inv, finalize_bridge, Statuses, OutcomeOf
    <2>3. QED
      BY <2>1, <2>2, Zenon DEF Abstract!Next, Abstract!PayOut
  <1>4. ASSUME NEW r \in Reverters, NEW i \in BridgeIds, revert_bridge(r, i)
        PROVE  Abstract!Next \/ outcomes' = outcomes
    BY <1>4, RevertOutcome, Zenon DEF Abstract!Next
  <1>5. ASSUME bridges' = bridges PROVE outcomes' = outcomes
    BY <1>5, Zenon DEF outcomes
  <1>6. ASSUME NEW r \in Reverters, mark_reverted(r), ~WaitsForPending PROVE outcomes' = outcomes
    BY <1>6, MarkOutcome, Zenon
  <1>7. ASSUME NEW c \in Clients, Initiate(c) PROVE Abstract!Next \/ outcomes' = outcomes
    BY <1>1, <1>5, <1>7, Zenon DEF Initiate, InitiateTakeId, InitiatePush
  <1>8. CASE \E r \in Operators, i \in Known : OperatorRevert(r, i)
    BY <1>4, <1>8, KnownIds, Zenon DEF OperatorRevert
  <1>9. CASE Reaper
    BY <1>0, <1>4, <1>5, <1>6, <1>9, Zenon DEF Reaper, ReaperScan, ReaperRevert
  <1>10. QED
    BY <1>0, <1>2, <1>3, <1>5, <1>6, <1>7, <1>8, <1>9, Zenon
       DEF BridgeNext, Tick, get_pending_for_shard, bridgeVars

\* BridgeManager and the reaper implement the abstract bridge: a transfer is
\* opened once and is paid out or refunded, never both, whatever the threads
\* that call lock, relay, finalize and revert do.
THEOREM BridgeImplementsOutcome == BridgeSpec => AbstractSpec
  <1>1. BridgeInit => Abstract!Init
    BY DEF BridgeInit, Abstract!Init, outcomes, OutcomeOf, NoBridge
  <1>2. QED
    BY <1>1, SpecInv, StepRefines, PTL DEF BridgeSpec, AbstractSpec, Abstract!Spec

=============================================================================
