------------------------------- MODULE Ledger -------------------------------
(***************************************************************************)
(* One node's ledger: the StateManager (storage/state.rs) over             *)
(* RocksDBStorage (storage/rocksdb.rs), driven by the engine's             *)
(* commit_block (consensus/engine.rs), with failing writes, process        *)
(* crashes and power failures.                                             *)
(*                                                                         *)
(* An account is the set of the transfers applied to it; an account map is *)
(* a function whose domain is the set of the addresses it holds.  A state  *)
(* root is the account map it is the hash of.  A block is its sequence of  *)
(* transfers.                                                              *)
(***************************************************************************)
EXTENDS Integers, Sequences, FiniteSets, Maps

CONSTANTS LedgerAddresses,   \* account addresses
          Genesis,     \* the address that exists before the first transfer
          Transfers,   \* records [from, to, id]
          Bodies,      \* the transfer sequences a block may carry
          LedgerMaxHeight,   \* bound: the highest block
          LedgerMaxFaults,   \* bound: writes that fail
          MaxCrashes   \* bound: crashes, power failures and reverts together

ASSUME LedgerAssumption ==
    /\ Genesis \in LedgerAddresses
    /\ Transfers \subseteq [from : LedgerAddresses, to : LedgerAddresses, id : Nat]
    /\ \A t \in Transfers : t.from # t.to
    /\ Bodies \subseteq Seq(Transfers)
    /\ LedgerMaxHeight \in Nat \ {0} /\ LedgerMaxFaults \in Nat /\ MaxCrashes \in Nat

VARIABLES disk,        \* what RocksDB returns: accounts, blocks, roots, height
          durable,     \* the prefix of those writes that has reached the medium
          accountCache,\* RocksDBStorage.account_cache
          state,       \* StateManager: cache, dirty, versions, root, height
          committer,   \* the commit_block call in progress, and engine.height
          announced,   \* the <<height, block>> pairs of BlockCommitted events
          ledgerFaults, crashes

ledgerVars == <<disk, durable, accountCache, state, committer, announced, ledgerFaults, crashes>>

Heights == 1 .. LedgerMaxHeight
Empty == [a \in {} |-> {}]

IsAccountMap(f) == /\ DOMAIN f \subseteq LedgerAddresses
                   /\ \A a \in DOMAIN f : f[a] \subseteq Transfers

IsRootMap(f) == DOMAIN f \subseteq Heights /\ \A h \in DOMAIN f : IsAccountMap(f[h])

LedgerTypeOK ==
    /\ \A d \in {disk, durable} :
         /\ IsAccountMap(d.accounts) /\ IsRootMap(d.roots)
         /\ DOMAIN d.blocks \subseteq Heights
         /\ \A h \in DOMAIN d.blocks : d.blocks[h] \in Bodies \cup {<<>>}
         /\ d.height \in 0 .. LedgerMaxHeight
    /\ IsAccountMap(accountCache)
    /\ IsAccountMap(state.cache) /\ IsAccountMap(state.dirty)
    /\ IsRootMap(state.versions)
    /\ IsAccountMap(state.root) /\ state.height \in 0 .. LedgerMaxHeight
    /\ committer.pc \in {"idle", "apply", "root", "batch", "block", "meta"}
    /\ committer.height \in 0 .. LedgerMaxHeight + 1
    /\ committer.body \in Bodies \cup {<<>>} /\ committer.next \in Nat
    /\ IsAccountMap(committer.batch)
    /\ announced \subseteq Heights \X Bodies
    /\ ledgerFaults \in 0 .. LedgerMaxFaults /\ crashes \in 0 .. MaxCrashes
-----------------------------------------------------------------------------
(* StateManager::new: nothing is read back from the storage.                *)
FreshState == [cache |-> Empty, dirty |-> Empty, versions |-> Empty,
               root |-> Empty, height |-> 0]

(* HotStuffEngine::run starts at the stored height.                         *)
FreshEngine(height) ==
    [pc |-> "idle", height |-> height, body |-> <<>>, next |-> 1,
     batch |-> Empty]

(* A store that already holds block 1 and the genesis account.              *)
InitialDisk == [accounts |-> [a \in {Genesis} |-> {}],
                blocks |-> [h \in {1} |-> <<>>],
                roots |-> [h \in {1} |-> Empty],
                height |-> 1]

LedgerInit == /\ disk = InitialDisk /\ durable = InitialDisk
        /\ accountCache = Empty
        /\ state = FreshState
        /\ committer = FreshEngine(InitialDisk.height)
        /\ announced = {}
        /\ ledgerFaults = 0 /\ crashes = 0
-----------------------------------------------------------------------------
(* RocksDBStorage::get_account reads through its cache, and get_account of  *)
(* the state manager through its own cache and the dirty accounts.          *)
StorageMap == Over(accountCache, disk.accounts)
AccountMap == Over(state.cache, Over(state.dirty, StorageMap))

(* What reading the addresses S brings from the storage into both caches.   *)
ReadThrough(S) ==
    [a \in (S \cap DOMAIN StorageMap) \ (DOMAIN state.cache \cup DOMAIN state.dirty)
       |-> StorageMap[a]]

(* apply_transfer, the balance check apart: one more transfer on both       *)
(* accounts, the receiver's created when there is none.                     *)
apply_transfer(t) ==
    LET to == IF t.to \in DOMAIN AccountMap THEN AccountMap[t.to] ELSE {}
    IN  [a \in {t.from, t.to} |->
            IF a = t.from THEN AccountMap[t.from] \cup {t} ELSE to \cup {t}]

(* compute_state_root hashes the cached and the dirty accounts, and keeps   *)
(* the current root when nothing is dirty.                                  *)
compute_state_root ==
    IF state.dirty = Empty THEN state.root ELSE Over(state.dirty, state.cache)

(* get_version: the version in memory, or else the root in the storage.     *)
get_version(h) == Over(state.versions, disk.roots)[h]
KnownVersions == DOMAIN state.versions \cup DOMAIN disk.roots

(* A write that returns an error ends commit_block: what is in memory stays *)
(* and so does engine.height.                                               *)
AfterErrorMutant(e) == [e EXCEPT !.pc = "idle", !.height = @ + 1]
AfterError(e) == [e EXCEPT !.pc = "idle"]

GiveUp == /\ ledgerFaults < LedgerMaxFaults
          /\ ledgerFaults' = ledgerFaults + 1
          /\ committer' = AfterError(committer)
-----------------------------------------------------------------------------
(* commit_block calls apply_block, which takes only the height after the    *)
(* state's own; any other block is refused and changes nothing.             *)
FollowsState(h) == h = state.height + 1

BeginApply ==
    /\ committer.pc = "idle"
    /\ committer.height \in Heights
    /\ FollowsState(committer.height)
    /\ \E b \in Bodies :
         committer' = [committer EXCEPT !.pc = "apply", !.body = b, !.next = 1]
    /\ UNCHANGED <<disk, durable, accountCache, state, announced, ledgerFaults, crashes>>

(* One apply_transfer of the loop: both reads, then set_account twice.      *)
WrittenByMutant(t) ==
    [a \in {t.from} |-> apply_transfer(t)[a]]

WrittenBy(t) == apply_transfer(t)

ApplyTransfer ==
    /\ committer.pc = "apply" /\ committer.next <= Len(committer.body)
    /\ LET t == committer.body[committer.next]
       IN  /\ t.from \in DOMAIN AccountMap
           /\ state' = [state EXCEPT !.dirty = Over(WrittenBy(t), @),
                                     !.cache = Over(WrittenBy(t), @)]
           /\ accountCache' = Over(ReadThrough({t.from, t.to}), accountCache)
    /\ committer' = [committer EXCEPT !.next = @ + 1]
    /\ UNCHANGED <<disk, durable, announced, ledgerFaults, crashes>>

(* AccountNotFound or InsufficientBalance: `?` leaves the loop, and the      *)
(* transfers already applied stay dirty.                                    *)
RejectTransfer ==
    /\ committer.pc = "apply" /\ committer.next <= Len(committer.body)
    /\ LET read == ReadThrough({committer.body[committer.next].from})
       IN  /\ state' = [state EXCEPT !.cache = Over(read, @)]
           /\ accountCache' = Over(read, accountCache)
    /\ GiveUp
    /\ UNCHANGED <<disk, durable, announced, crashes>>

(* The version goes into memory, then save_state_root may fail.             *)
SaveStateRoot ==
    /\ committer.pc = "apply" /\ committer.next > Len(committer.body)
    /\ state' = [state EXCEPT !.versions =
                    Put(@, committer.height, compute_state_root)]
    /\ \/ /\ disk' = [disk EXCEPT !.roots =
                        Put(@, committer.height, compute_state_root)]
          /\ committer' = [committer EXCEPT !.pc = "root"]
          /\ UNCHANGED ledgerFaults
       \/ /\ GiveUp
          /\ UNCHANGED disk
    /\ UNCHANGED <<durable, accountCache, announced, crashes>>

(* current_root and current_height advance and commit_dirty_accounts takes  *)
(* the dirty accounts out of memory before it writes them.                  *)
AfterTakeMutant(dirty) == "block"
AfterTake(dirty) == IF dirty = Empty THEN "block" ELSE "batch"

TakeDirty ==
    /\ committer.pc = "root"
    /\ state' = [state EXCEPT !.root = get_version(committer.height),
                              !.height = committer.height, !.dirty = Empty]
    /\ committer' = [committer EXCEPT !.pc = AfterTake(state.dirty),
                                !.batch = state.dirty]
    /\ UNCHANGED <<disk, durable, accountCache, announced, ledgerFaults, crashes>>

(* write_batch: one atomic db.write, then the storage's cache.              *)
WriteBatch ==
    /\ committer.pc = "batch"
    /\ \/ /\ disk' = [disk EXCEPT !.accounts = Over(committer.batch, @)]
          /\ accountCache' = Over(committer.batch, accountCache)
          /\ committer' = [committer EXCEPT !.pc = "block", !.batch = Empty]
          /\ UNCHANGED ledgerFaults
       \/ /\ GiveUp
          /\ UNCHANGED <<disk, accountCache>>
    /\ UNCHANGED <<durable, state, announced, crashes>>

(* save_block: the block, then the height metadata, as two writes.          *)
WrittenAtMutant(d, step, h, b) ==
    IF step = "meta" THEN [d EXCEPT !.blocks = Put(@, h, b)]
                     ELSE [d EXCEPT !.height = h]

WrittenAt(d, step, h, b) ==
    IF step = "block" THEN [d EXCEPT !.blocks = Put(@, h, b)]
                      ELSE [d EXCEPT !.height = h]

SaveBlock ==
    /\ committer.pc = "block"
    /\ \/ /\ disk' = WrittenAt(disk, committer.pc, committer.height, committer.body)
          /\ committer' = [committer EXCEPT !.pc = "meta"]
          /\ UNCHANGED ledgerFaults
       \/ /\ GiveUp
          /\ UNCHANGED disk
    /\ UNCHANGED <<durable, accountCache, state, announced, crashes>>

(* The metadata write, then the block count.  When both succeed nothing in  *)
(* the rest of commit_block can fail: the mempool is cleaned,               *)
(* BlockCommitted is sent and the height moves.                             *)
SaveHeight ==
    /\ committer.pc = "meta"
    /\ \/ /\ disk' = WrittenAt(disk, committer.pc, committer.height, committer.body)
          /\ announced' = announced \cup {<<committer.height, committer.body>>}
          /\ committer' = FreshEngine(committer.height + 1)
          /\ UNCHANGED ledgerFaults
       \/ /\ GiveUp
          /\ disk' \in {disk, WrittenAt(disk, committer.pc, committer.height, committer.body)}
          /\ UNCHANGED announced
    /\ UNCHANGED <<durable, accountCache, state, crashes>>

(* revert_to_height between two blocks: it drops what is in memory and      *)
(* moves the root and the height; the accounts on disk stay.                *)
RevertToHeight ==
    /\ committer.pc = "idle" /\ crashes < MaxCrashes
    /\ \E h \in KnownVersions :
         state' = [state EXCEPT !.cache = Empty, !.dirty = Empty,
                                !.root = get_version(h), !.height = h]
    /\ crashes' = crashes + 1
    /\ UNCHANGED <<disk, durable, accountCache, committer, announced, ledgerFaults>>

(* The operating system writes back; no put of the code asks for a sync.    *)
WriteBack ==
    /\ durable # disk
    /\ durable' = disk
    /\ UNCHANGED <<disk, accountCache, state, committer, announced, ledgerFaults, crashes>>

(* A node that comes up on store d, with new managers and a new engine.     *)
RestartOn(d) ==
    /\ crashes < MaxCrashes
    /\ crashes' = crashes + 1
    /\ disk' = d
    /\ accountCache' = Empty /\ state' = FreshState
    /\ committer' = FreshEngine(d.height)
    /\ UNCHANGED <<announced, ledgerFaults>>

(* The process dies: every put that returned is still in RocksDB.           *)
Crash == RestartOn(disk) /\ UNCHANGED durable

(* The machine dies: only what was written back is there.                   *)
PowerFailure == durable # disk /\ RestartOn(durable) /\ UNCHANGED durable

LedgerNext == \/ BeginApply \/ ApplyTransfer \/ RejectTransfer \/ SaveStateRoot
        \/ TakeDirty \/ WriteBatch \/ SaveBlock \/ SaveHeight
        \/ RevertToHeight \/ WriteBack \/ Crash \/ PowerFailure

LedgerSpec == LedgerInit /\ [][LedgerNext]_ledgerVars
-----------------------------------------------------------------------------
(* At every instant, so whatever the moment of a crash or a power failure,  *)
(* the height the storage reports names a block that is stored with its     *)
(* state root: get_latest_block of the restarted node finds it.             *)
RecoverableTip ==
    \A d \in {disk, durable} :
        d.height \in DOMAIN d.blocks /\ DOMAIN d.blocks \subseteq DOMAIN d.roots

(* No transfer is ever stored on one side only: neither a block abandoned   *)
(* halfway, whose changes linger in memory, nor a crash between the writes  *)
(* of a commit leaves a debit on disk without its credit.                   *)
TransferAtomic ==
    \A d \in {disk, durable}, t \in Transfers :
        LET On(a) == a \in DOMAIN d.accounts /\ t \in d.accounts[a]
        IN  On(t.from) <=> On(t.to)

(* A stored block's transfers are in the stored accounts, whatever failed   *)
(* or crashed since: the accounts are written before the block.             *)
StoredBlockApplied ==
    \A d \in {disk, durable} : \A h \in DOMAIN d.blocks :
        \A i \in DOMAIN d.blocks[h] :
            LET t == d.blocks[h][i]
            IN  /\ t.from \in DOMAIN d.accounts /\ t \in d.accounts[t.from]
                /\ t.to \in DOMAIN d.accounts /\ t \in d.accounts[t.to]

(* The state in memory is never more than one block ahead of the stored     *)
(* height, through failed writes, restarts and reverts.                     *)
AtMostOneUnsaved == state.height <= disk.height + 1

(* What the Whitepaper promises of a power failure: the blocks announced    *)
(* as committed are the stored blocks of their heights.                     *)
CommittedPreserved ==
    \A c \in announced : c[1] \in DOMAIN disk.blocks /\ disk.blocks[c[1]] = c[2]
=============================================================================
