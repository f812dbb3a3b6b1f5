------------------------------ MODULE Snapshots ------------------------------
(***************************************************************************)
(* SnapshotManager (storage/snapshot.rs) beside a node that goes on saving *)
(* blocks in RocksDBStorage: create_snapshot and restore_from_snapshot     *)
(* await the storage and write one file after the other, and the process   *)
(* may stop between any two of those steps.                                *)
(*                                                                         *)
(* A block is its height.  A snapshot directory is a record: the heights   *)
(* in blocks.bin, whether state.bin and manifest.json are there, and       *)
(* whether a second create_snapshot has begun to replace them.  A crash    *)
(* that loses buffered records is a crash some blocks earlier.             *)
(***************************************************************************)
EXTENDS Integers, Sequences, FiniteSets

CONSTANTS SnapMaxHeight,   \* bound: the highest block
          SnapBatch,       \* blocks per write_batch of restore_blocks
          SnapKeep,        \* keep_last of prune_old_snapshots
          SnapMaxCalls     \* bound: calls and crashes

ASSUME SnapAssumption ==
    /\ {SnapMaxHeight, SnapKeep, SnapMaxCalls} \subseteq Nat
    /\ SnapBatch \in Nat \ {0}

VARIABLES store,    \* RocksDBStorage: blocks by height, and the height key
          snaps,    \* the directories, by height
          snapTask, \* the call in progress
          snapCalls

snapVars == <<store, snaps, snapTask, snapCalls>>

SnapHeights == 0 .. SnapMaxHeight
NoTask == [at |-> "idle", height |-> 0, done |-> 0]
NoDir == [exists |-> FALSE, blocks |-> {}, state |-> FALSE, manifest |-> FALSE,
          again |-> FALSE]

SnapTypeOK ==
    /\ store.blocks \subseteq SnapHeights /\ store.height \in SnapHeights
    /\ DOMAIN snaps = SnapHeights
    /\ \A h \in SnapHeights : snaps[h].blocks \subseteq SnapHeights
    /\ snapTask.at \in {"idle", "blocks", "state", "manifest", "restore", "reread"}

SnapInit ==
    /\ store = [blocks |-> {0}, height |-> 0]
    /\ snaps = [h \in SnapHeights |-> NoDir]
    /\ snapTask = NoTask
    /\ snapCalls = 0

(* The node commits its next block: its state root is stored with it.       *)
SnapSaveBlock ==
    /\ store.height < SnapMaxHeight
    /\ store' = [blocks |-> store.blocks \cup {store.height + 1}, height |-> store.height + 1]
    /\ UNCHANGED <<snaps, snapTask, snapCalls>>

(* create_snapshot: the block and its state root are looked up, the         *)
(* directory is made if it is not there, and blocks.bin is created empty.   *)
SnapBegunMutant(dir) == [dir EXCEPT !.exists = TRUE, !.blocks = {}, !.manifest = TRUE]
SnapBegun(dir) == [dir EXCEPT !.exists = TRUE, !.blocks = {}, !.again = @ \/ dir.manifest]

create_snapshot(h) ==
    /\ snapTask.at = "idle" /\ snapCalls < SnapMaxCalls
    /\ h \in store.blocks
    /\ snaps' = [snaps EXCEPT ![h] = SnapBegun(@)]
    /\ snapTask' = [at |-> "blocks", height |-> h, done |-> 0]
    /\ snapCalls' = snapCalls + 1
    /\ UNCHANGED store

(* save_blocks: one block after the other, those the storage does not have  *)
(* left out.                                                                *)
save_blocks ==
    LET h == snapTask.height
        n == snapTask.done
    IN /\ snapTask.at = "blocks"
       /\ IF n <= h
          THEN /\ snaps' = [snaps EXCEPT ![h].blocks = @ \cup ({n} \cap store.blocks)]
               /\ snapTask' = [snapTask EXCEPT !.done = n + 1]
          ELSE UNCHANGED snaps /\ snapTask' = [snapTask EXCEPT !.at = "state"]
       /\ UNCHANGED <<store, snapCalls>>

(* save_state: a file of two zeroes, whatever the state is.                 *)
save_state ==
    /\ snapTask.at = "state"
    /\ snaps' = [snaps EXCEPT ![snapTask.height].state = TRUE]
    /\ snapTask' = [snapTask EXCEPT !.at = "manifest"]
    /\ UNCHANGED <<store, snapCalls>>

(* The end of create_snapshot: the manifest with its checksum.              *)
SaveManifest ==
    /\ snapTask.at = "manifest"
    /\ snaps' = [snaps EXCEPT ![snapTask.height] =
                    [@ EXCEPT !.manifest = TRUE, !.again = FALSE]]
    /\ snapTask' = NoTask
    /\ UNCHANGED <<store, snapCalls>>

(* list_snapshots: the directories with a readable manifest.                *)
list_snapshots == {h \in SnapHeights : snaps[h].manifest}

(* restore_from_snapshot: a directory without manifest is refused.          *)
restore_from_snapshot(h) ==
    /\ snapTask.at = "idle" /\ snapCalls < SnapMaxCalls
    /\ snaps[h].exists /\ snaps[h].manifest
    /\ snapTask' = [at |-> "restore", height |-> h, done |-> 0]
    /\ snapCalls' = snapCalls + 1
    /\ UNCHANGED <<store, snaps>>

(* restore_blocks: the blocks in the order of the file, a batch at a time.  *)
(* write_batch does not touch the height key.                               *)
SnapBatchMutant(heights, done) ==
    {h \in heights : Cardinality({k \in heights : k > h}) < SnapBatch}
SnapBatchOf(heights, done) ==
    {h \in heights : done <= h /\ Cardinality({k \in heights : done <= k /\ k < h}) < SnapBatch}

restore_blocks ==
    LET batch == SnapBatchOf(snaps[snapTask.height].blocks, snapTask.done)
    IN /\ snapTask.at = "restore"
       /\ store' = [store EXCEPT !.blocks = @ \cup batch]
       /\ snapTask' = IF \E k \in snaps[snapTask.height].blocks : \A b \in batch : k > b
                      THEN [snapTask EXCEPT !.done = (CHOOSE b \in batch : \A k \in batch : k <= b) + 1]
                      ELSE [snapTask EXCEPT !.at = "reread"]
       /\ UNCHANGED <<snaps, snapCalls>>

(* restore_state: state.bin is read, and nothing is restored from it.       *)
restore_state ==
    /\ snapTask.at = "reread"
    /\ snapTask' = NoTask
    /\ UNCHANGED <<store, snaps, snapCalls>>

(* prune_old_snapshots: all but the keep_last highest of the listed ones.   *)
SnapPruned == {h \in list_snapshots : Cardinality({k \in list_snapshots : k > h}) >= SnapKeep}

prune_old_snapshots ==
    /\ snapTask.at = "idle" /\ snapCalls < SnapMaxCalls
    /\ snaps' = [h \in SnapHeights |-> IF h \in SnapPruned THEN NoDir ELSE snaps[h]]
    /\ snapCalls' = snapCalls + 1
    /\ UNCHANGED <<store, snapTask>>

(* The process stops and comes back, on its own data directory or on a new  *)
(* one that starts from the genesis block.                                  *)
SnapCrash ==
    /\ snapCalls < SnapMaxCalls
    /\ snapTask' = NoTask
    /\ snapCalls' = snapCalls + 1
    /\ UNCHANGED snaps
    /\ store' \in {store, [blocks |-> {0}, height |-> 0]}

SnapNext ==
    \/ SnapSaveBlock
    \/ \E h \in SnapHeights : create_snapshot(h) \/ restore_from_snapshot(h)
    \/ save_blocks \/ save_state \/ SaveManifest
    \/ restore_blocks \/ restore_state
    \/ prune_old_snapshots
    \/ SnapCrash

SnapSpec == SnapInit /\ [][SnapNext]_snapVars
-----------------------------------------------------------------------------
(* A listed snapshot holds every block up to its height, unless a second    *)
(* create_snapshot of that height was interrupted after it.  About the      *)
(* manifest being the last file that create_snapshot writes.                *)
ListedSnapshotComplete ==
    \A h \in list_snapshots : ~snaps[h].again => snaps[h].state /\ snaps[h].blocks = 0..h

(* The blocks in the storage are the blocks 0 to n for some n, also when a  *)
(* restore was cut short between two batches: no restored block is without  *)
(* its ancestors.  About restore_blocks and write_batch.                    *)
RestoreLeavesPrefix ==
    \E n \in SnapHeights : store.blocks = 0..n
=============================================================================
