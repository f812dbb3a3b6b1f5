--------------------------- MODULE Storage_proofs ---------------------------
(***************************************************************************)
(* Proofs about the snapshots, for any heights, batch sizes, calls and     *)
(* crashes.                                                                *)
(*                                                                         *)
(* What a directory holds is always a prefix of the chain, and             *)
(* restore_blocks adds to the storage the heights that follow the ones it  *)
(* has already written, so what is stored stays a prefix at every batch.   *)
(* The manifest is the last file written, and a directory that gets its    *)
(* files again is marked until it is written once more.                    *)
(***************************************************************************)
EXTENDS Snapshots, TLAPS

-----------------------------------------------------------------------------
(* Snapshots. *)

Dirs == [exists : BOOLEAN, blocks : SUBSET SnapHeights, state : BOOLEAN, manifest : BOOLEAN,
         again : BOOLEAN]
Stores == [blocks : SUBSET SnapHeights, height : SnapHeights]
Tasks == [at : {"idle", "blocks", "state", "manifest", "restore", "reread"},
          height : SnapHeights, done : Nat]

SnapTyped ==
    /\ store \in Stores
    /\ snaps \in [SnapHeights -> Dirs]
    /\ snapTask \in Tasks
    /\ snapCalls \in Nat

\* The heights 0 to m; none when m is -1.
Prefix(S) == \E m \in -1 .. SnapMaxHeight : S = 0 .. m

StorePrefix == \E n \in SnapHeights : store.blocks = 0 .. n /\ store.height <= n
DirsPrefix == \A h \in SnapHeights : Prefix(snaps[h].blocks)

\* Where create_snapshot and restore_from_snapshot stand.
Creating ==
    LET dir == snaps[snapTask.height]
    IN  /\ snapTask.at = "blocks" => /\ snapTask.done <= snapTask.height + 1
                                     /\ dir.blocks = 0 .. snapTask.done - 1
                                     /\ snapTask.height \in store.blocks
        /\ snapTask.at \in {"state", "manifest"} => dir.blocks = 0 .. snapTask.height
        /\ snapTask.at = "manifest" => dir.state
        /\ snapTask.at \in {"blocks", "state", "manifest"} => (dir.manifest => dir.again)
Restoring ==
    snapTask.at = "restore" =>
        /\ 0 .. snapTask.done - 1 \subseteq store.blocks
        /\ snaps[snapTask.height].blocks # {} => snapTask.done \in snaps[snapTask.height].blocks

SnapInv == /\ SnapTyped /\ StorePrefix /\ DirsPrefix /\ Creating /\ Restoring
           /\ ListedSnapshotComplete

LEMMA NoTaskTyped == NoTask \in Tasks /\ NoTask.at = "idle"
  <1>1. 0 \in SnapHeights
    BY SnapAssumption DEF SnapHeights
  <1>2. QED
    BY <1>1, Zenon DEF Tasks, NoTask

LEMMA EmptyPrefix == 0 .. -1 = {} /\ Prefix({})
  <1>1. \A x : x \notin 0 .. -1
    OBVIOUS
  <1>2. 0 .. -1 = {}
    BY <1>1, Zenon
  <1>3. -1 \in -1 .. SnapMaxHeight
    BY SnapAssumption
  <1>4. QED
    BY <1>2, <1>3, Zenon DEF Prefix

LEMMA SnapInitInv == SnapInit => SnapInv
  <1> SUFFICES ASSUME SnapInit PROVE SnapInv
    BY Zenon
  <1> USE SnapAssumption
  <1>1. SnapTyped
    <2>1. 0 \in SnapHeights
      BY DEF SnapHeights
    <2>2. QED
      BY <2>1, Zenon DEF SnapInit, SnapTyped, Stores, Dirs, Tasks, NoDir, NoTask
  <1>2. {0} = 0 .. 0 /\ 0 \in SnapHeights
    BY DEF SnapHeights
  <1>3. StorePrefix /\ DirsPrefix
    <2>1. StorePrefix
      BY <1>2 DEF SnapInit, StorePrefix
    <2>2. \A h \in SnapHeights : snaps[h].blocks = {}
      BY Zenon DEF SnapInit, NoDir
    <2>3. QED
      BY <2>1, <2>2, EmptyPrefix, Zenon DEF DirsPrefix
  <1>4. Creating /\ Restoring
    BY Zenon DEF SnapInit, NoTask, Creating, Restoring
  <1>5. ListedSnapshotComplete
    BY Zenon DEF SnapInit, NoDir, ListedSnapshotComplete, list_snapshots
  <1>6. QED
    BY <1>1, <1>3, <1>4, <1>5, Zenon DEF SnapInv

LEMMA SaveBlockSnap == ASSUME SnapInv, SnapSaveBlock PROVE SnapInv'
  <1> USE SnapAssumption
  <1>1. /\ store.height < SnapMaxHeight
        /\ store' = [blocks |-> store.blocks \cup {store.height + 1}, height |-> store.height + 1]
        /\ UNCHANGED <<snaps, snapTask, snapCalls>>
    BY Zenon DEF SnapSaveBlock
  <1>2. store.height + 1 \in SnapHeights
    BY <1>1 DEF SnapInv, SnapTyped, Stores, SnapHeights
  <1>3. SnapTyped'
    BY <1>1, <1>2, Zenon DEF SnapInv, SnapTyped, Stores
  <1>4. StorePrefix'
    <2>1. PICK n \in SnapHeights : store.blocks = 0 .. n /\ store.height <= n
      BY Zenon DEF SnapInv, StorePrefix
    <2>2. store.height \in Nat /\ n \in Nat
      BY DEF SnapInv, SnapTyped, Stores, SnapHeights
    <2>3. CASE store.height = n
      <3>1. store'.blocks = 0 .. n + 1
        BY <1>1, <2>1, <2>2, <2>3
      <3>2. QED
        BY <1>1, <1>2, <2>3, <3>1 DEF StorePrefix
    <2>4. CASE store.height < n
      <3>1. store'.blocks = 0 .. n /\ store'.height <= n
        BY <1>1, <2>1, <2>2, <2>4
      <3>2. QED
        BY <3>1, Zenon DEF StorePrefix
    <2>5. QED
      BY <2>1, <2>2, <2>3, <2>4
  <1>5. Creating' /\ Restoring'
    BY <1>1, Zenon DEF SnapInv, Creating, Restoring
  <1>6. QED
    BY <1>1, <1>3, <1>4, <1>5, Zenon DEF SnapInv, DirsPrefix, ListedSnapshotComplete, list_snapshots

LEMMA CreateSnap ==
  ASSUME SnapInv, NEW h \in SnapHeights, create_snapshot(h) PROVE SnapInv'
  <1> USE SnapAssumption
  <1>1. /\ h \in store.blocks /\ snaps' = [snaps EXCEPT ![h] = SnapBegun(@)]
        /\ snapTask' = [at |-> "blocks", height |-> h, done |-> 0]
        /\ snapCalls' = snapCalls + 1 /\ UNCHANGED store
    BY Zenon DEF create_snapshot
  <1>2. snaps \in [SnapHeights -> Dirs]
    BY Zenon DEF SnapInv, SnapTyped
  <1>3. /\ snaps'[h] \in Dirs /\ snaps'[h].blocks = {}
        /\ snaps'[h].manifest => snaps'[h].again
    <2> DEFINE dir == snaps[h]
               a == dir.again \/ dir.manifest
    <2>1. a \in BOOLEAN /\ dir \in Dirs
      BY <1>2, Zenon
    <2>2. snaps'[h] = [dir EXCEPT !.exists = TRUE, !.blocks = {}, !.again = a]
      BY <1>1, <1>2, Zenon DEF SnapBegun, Dirs
    <2> HIDE DEF a, dir
    <2>3. snaps'[h] \in Dirs /\ snaps'[h].blocks = {} /\ snaps'[h].manifest = dir.manifest
          /\ snaps'[h].again = a
      BY <2>1, <2>2, Zenon DEF Dirs
    <2>4. QED
      BY <2>3, Zenon DEF a
  <1>4. /\ snaps' \in [SnapHeights -> Dirs]
        /\ \A k \in SnapHeights : k # h => snaps'[k] = snaps[k]
    BY <1>1, <1>2, <1>3, Zenon
  <1>5. SnapTyped'
    BY <1>1, <1>4 DEF SnapInv, SnapTyped, Tasks
  <1>6. StorePrefix'
    BY <1>1, Zenon DEF SnapInv, StorePrefix
  <1>7. 0 .. 0 - 1 = {} /\ Prefix({})
    BY EmptyPrefix
  <1>8. DirsPrefix'
    <2>1. \A k \in SnapHeights : Prefix(snaps'[k].blocks)
      BY <1>3, <1>4, <1>7, Zenon DEF SnapInv, DirsPrefix
    <2>2. QED
      BY <2>1, Zenon DEF DirsPrefix, Prefix
  <1>9. Creating' /\ Restoring'
    <2>1. h \in Nat
      BY DEF SnapHeights
    <2>2. QED
      BY <1>1, <1>3, <1>7, <2>1 DEF Creating, Restoring
  <1>10. ListedSnapshotComplete'
    BY <1>3, <1>4, Zenon DEF SnapInv, ListedSnapshotComplete, list_snapshots
  <1>11. QED
    BY <1>5, <1>6, <1>8, <1>9, <1>10, Zenon DEF SnapInv

LEMMA SaveBlocksSnap == ASSUME SnapInv, save_blocks PROVE SnapInv'
  <1> USE SnapAssumption
  <1> DEFINE h == snapTask.height
             n == snapTask.done
  <1>1. snapTask.at = "blocks" /\ UNCHANGED <<store, snapCalls>>
    BY Zenon DEF save_blocks
  <1>2. /\ snaps \in [SnapHeights -> Dirs] /\ snapTask \in Tasks /\ h \in SnapHeights
        /\ n \in Nat /\ n <= h + 1 /\ h \in Nat /\ h <= SnapMaxHeight
        /\ snaps[h].blocks = 0 .. n - 1 /\ h \in store.blocks
        /\ snaps[h].manifest => snaps[h].again
    BY <1>1 DEF SnapInv, SnapTyped, Tasks, Creating, SnapHeights
  <1>3. CASE n <= h
    <2>1. /\ snaps' = [snaps EXCEPT ![h].blocks = @ \cup ({n} \cap store.blocks)]
          /\ snapTask' = [snapTask EXCEPT !.done = n + 1]
      BY <1>3, Zenon DEF save_blocks
    <2>2. n \in store.blocks
      <3>1. PICK m \in SnapHeights : store.blocks = 0 .. m
        BY Zenon DEF SnapInv, StorePrefix
      <3>2. QED
        BY <1>2, <1>3, <3>1 DEF SnapHeights
    <2>3. (0 .. n - 1) \cup ({n} \cap store.blocks) = 0 .. (n + 1) - 1
      BY <1>2, <2>2
    <2>4. /\ snaps'[h] = [snaps[h] EXCEPT !.blocks = 0 .. (n + 1) - 1]
          /\ \A k \in SnapHeights : k # h => snaps'[k] = snaps[k]
      BY <1>2, <2>1, <2>3, Zenon
    <2>5. 0 .. (n + 1) - 1 \in SUBSET SnapHeights
      BY <1>2, <1>3 DEF SnapHeights
    <2>6. /\ snaps'[h] \in Dirs /\ snaps'[h].blocks = 0 .. (n + 1) - 1
          /\ snaps'[h].manifest = snaps[h].manifest /\ snaps'[h].again = snaps[h].again
          /\ snaps'[h].state = snaps[h].state
      <3> DEFINE d == snaps[h]
                 b == 0 .. (n + 1) - 1
      <3>1. d \in Dirs /\ b \in SUBSET SnapHeights /\ snaps'[h] = [d EXCEPT !.blocks = b]
        BY <1>2, <2>4, <2>5, Zenon
      <3> HIDE DEF d, b
      <3>2. /\ snaps'[h] \in Dirs /\ snaps'[h].blocks = b /\ snaps'[h].manifest = d.manifest
            /\ snaps'[h].again = d.again /\ snaps'[h].state = d.state
        BY <3>1, Zenon DEF Dirs
      <3> QED BY <3>2, Zenon DEF d, b
    <2>7. snaps' \in [SnapHeights -> Dirs]
      BY <1>2, <2>1, <2>4, <2>6, Zenon
    <2>8. /\ snapTask' \in Tasks /\ snapTask'.at = "blocks" /\ snapTask'.height = h
          /\ snapTask'.done = n + 1
      BY <1>1, <1>2, <2>1 DEF Tasks
    <2> HIDE DEF h, n
    <2>9. SnapTyped' /\ StorePrefix'
      BY <1>1, <2>7, <2>8, Zenon DEF SnapInv, SnapTyped, StorePrefix
    <2>10. DirsPrefix'
      <3>1. (n + 1) - 1 \in -1 .. SnapMaxHeight
        BY <1>2, <1>3
      <3>2. Prefix(snaps'[h].blocks)
        BY <2>6, <3>1, Zenon DEF Prefix
      <3>3. QED
        BY <2>4, <3>2, Zenon DEF SnapInv, DirsPrefix, Prefix
    <2>11. Creating' /\ Restoring'
      BY <1>1, <1>2, <1>3, <2>6, <2>8 DEF Creating, Restoring
    <2>12. ListedSnapshotComplete'
      BY <1>2, <2>4, <2>6, Zenon DEF SnapInv, ListedSnapshotComplete, list_snapshots
    <2>13. QED
      BY <2>9, <2>10, <2>11, <2>12, Zenon DEF SnapInv
  <1>4. CASE ~(n <= h)
    <2>1. UNCHANGED snaps /\ snapTask' = [snapTask EXCEPT !.at = "state"]
      BY <1>4, Zenon DEF save_blocks
    <2>2. n - 1 = h
      BY <1>2, <1>4
    <2>3. snapTask' \in Tasks /\ snapTask'.at = "state" /\ snapTask'.height = h
      BY <1>2, <2>1, Zenon DEF Tasks
    <2>4. Creating' /\ Restoring'
      BY <1>2, <2>1, <2>2, <2>3, Zenon DEF Creating, Restoring
    <2>5. QED
      BY <1>1, <2>1, <2>3, <2>4, Zenon DEF SnapInv, SnapTyped, StorePrefix, DirsPrefix,
         ListedSnapshotComplete, list_snapshots
  <1>5. QED
    BY <1>3, <1>4, Zenon

\* What save_state and the manifest leave of a directory's record.
LEMMA StateWritten ==
  ASSUME NEW d \in Dirs, NEW e, e = [d EXCEPT !.state = TRUE]
  PROVE  /\ e \in Dirs /\ e.blocks = d.blocks /\ e.state
         /\ e.manifest = d.manifest /\ e.again = d.again
  <1>1. e \in Dirs
    BY Zenon DEF Dirs
  <1>2. e.blocks = d.blocks /\ e.manifest = d.manifest /\ e.again = d.again
    BY Zenon DEF Dirs
  <1>3. e.state = TRUE
    BY Zenon DEF Dirs
  <1>4. QED
    BY <1>1, <1>2, <1>3, Zenon

LEMMA ManifestWritten ==
  ASSUME NEW d \in Dirs, NEW e, e = [d EXCEPT !.manifest = TRUE, !.again = FALSE]
  PROVE  e \in Dirs /\ e.blocks = d.blocks /\ e.state = d.state
  <1>1. e \in Dirs
    BY Zenon DEF Dirs
  <1>2. e.blocks = d.blocks /\ e.state = d.state
    BY Zenon DEF Dirs
  <1>3. QED
    BY <1>1, <1>2, Zenon

LEMMA SaveStateSnap == ASSUME SnapInv, save_state PROVE SnapInv'
  <1> DEFINE h == snapTask.height
  <1>1. /\ snapTask.at = "state" /\ snaps' = [snaps EXCEPT ![h].state = TRUE]
        /\ snapTask' = [snapTask EXCEPT !.at = "manifest"]
        /\ UNCHANGED <<store, snapCalls>>
    BY Zenon DEF save_state
  <1>2. /\ snaps \in [SnapHeights -> Dirs] /\ snapTask \in Tasks /\ h \in SnapHeights
        /\ snaps[h].blocks = 0 .. h /\ (snaps[h].manifest => snaps[h].again)
    BY <1>1, Zenon DEF SnapInv, SnapTyped, Tasks, Creating
  <1>3. /\ snapTask' \in Tasks /\ snapTask'.at = "manifest" /\ snapTask'.height = h
    BY <1>1, <1>2, Zenon DEF Tasks
  <1>4. /\ snaps'[h] = [snaps[h] EXCEPT !.state = TRUE]
        /\ \A k \in SnapHeights : k # h => snaps'[k] = snaps[k]
    BY <1>1, <1>2, Zenon
  <1>5. /\ snaps'[h] \in Dirs /\ snaps'[h].blocks = snaps[h].blocks /\ snaps'[h].state
        /\ snaps'[h].manifest = snaps[h].manifest /\ snaps'[h].again = snaps[h].again
    <2>1. snaps[h] \in Dirs
      BY <1>2, Zenon
    <2>2. QED
      BY <1>4, <2>1, StateWritten, Zenon
  <1>6. snaps' \in [SnapHeights -> Dirs]
    BY <1>1, <1>2, <1>4, <1>5, Zenon
  <1> HIDE DEF h
  <1>7. SnapTyped' /\ StorePrefix'
    BY <1>1, <1>3, <1>6, Zenon DEF SnapInv, SnapTyped, StorePrefix
  <1>8. DirsPrefix'
    <2>1. \A k \in SnapHeights : Prefix(snaps'[k].blocks)
      BY <1>4, <1>5, Zenon DEF SnapInv, DirsPrefix
    <2>2. QED
      BY <2>1, Zenon DEF DirsPrefix, Prefix
  <1>9. Creating' /\ Restoring'
    BY <1>2, <1>3, <1>5, Zenon DEF Creating, Restoring
  <1>10. ListedSnapshotComplete'
    BY <1>2, <1>4, <1>5, Zenon DEF SnapInv, ListedSnapshotComplete, list_snapshots
  <1>11. QED
    BY <1>7, <1>8, <1>9, <1>10, Zenon DEF SnapInv

LEMMA SaveManifestSnap == ASSUME SnapInv, SaveManifest PROVE SnapInv'
  <1> DEFINE h == snapTask.height
  <1>1. /\ snapTask.at = "manifest"
        /\ snaps' = [snaps EXCEPT ![h] = [@ EXCEPT !.manifest = TRUE, !.again = FALSE]]
        /\ snapTask' = NoTask
        /\ UNCHANGED <<store, snapCalls>>
    BY Zenon DEF SaveManifest
  <1>2. /\ snaps \in [SnapHeights -> Dirs] /\ h \in SnapHeights
        /\ snaps[h].blocks = 0 .. h /\ snaps[h].state
    BY <1>1, Zenon DEF SnapInv, SnapTyped, Tasks, Creating
  <1>3. snapTask' \in Tasks /\ snapTask'.at = "idle"
    <2>1. 0 \in SnapHeights
      BY SnapAssumption DEF SnapHeights
    <2>2. QED
      BY <1>1, <2>1, Zenon DEF Tasks, NoTask
  <1>4. /\ snaps'[h] = [snaps[h] EXCEPT !.manifest = TRUE, !.again = FALSE]
        /\ \A k \in SnapHeights : k # h => snaps'[k] = snaps[k]
    BY <1>1, <1>2, Zenon
  <1>5. /\ snaps'[h] \in Dirs /\ snaps'[h].blocks = 0 .. h /\ snaps'[h].state
    <2>1. snaps[h] \in Dirs
      BY <1>2, Zenon
    <2>2. snaps'[h] \in Dirs /\ snaps'[h].blocks = snaps[h].blocks /\ snaps'[h].state = snaps[h].state
      BY <1>4, <2>1, ManifestWritten, Zenon
    <2>3. QED
      BY <1>2, <2>2, Zenon
  <1>6. snaps' \in [SnapHeights -> Dirs]
    BY <1>1, <1>2, <1>4, <1>5, Zenon
  <1> HIDE DEF h
  <1>7. SnapTyped' /\ StorePrefix'
    BY <1>1, <1>3, <1>6, Zenon DEF SnapInv, SnapTyped, StorePrefix
  <1>8. DirsPrefix'
    <2>1. \A k \in SnapHeights : Prefix(snaps'[k].blocks)
      BY <1>2, <1>4, <1>5, Zenon DEF SnapInv, DirsPrefix
    <2>2. QED
      BY <2>1, Zenon DEF DirsPrefix, Prefix
  <1>9. Creating' /\ Restoring'
    BY <1>3, Zenon DEF Creating, Restoring
  <1>10. ListedSnapshotComplete'
    BY <1>4, <1>5, Zenon DEF SnapInv, ListedSnapshotComplete, list_snapshots
  <1>11. QED
    BY <1>7, <1>8, <1>9, <1>10, Zenon DEF SnapInv

LEMMA RestoreSnap ==
  ASSUME SnapInv, NEW h \in SnapHeights, restore_from_snapshot(h) PROVE SnapInv'
  <1>1. /\ snapTask' = [at |-> "restore", height |-> h, done |-> 0]
        /\ snapCalls' = snapCalls + 1 /\ UNCHANGED <<store, snaps>>
    BY Zenon DEF restore_from_snapshot
  <1>2. SnapTyped' /\ StorePrefix' /\ DirsPrefix' /\ ListedSnapshotComplete'
    BY <1>1 DEF SnapInv, SnapTyped, Tasks, StorePrefix, DirsPrefix, ListedSnapshotComplete,
       list_snapshots
  <1>3. Creating'
    BY <1>1, Zenon DEF Creating
  <1>4. Restoring'
    <2>1. PICK m \in -1 .. SnapMaxHeight : snaps[h].blocks = 0 .. m
      BY Zenon DEF SnapInv, DirsPrefix, Prefix
    <2>2. snaps[h].blocks # {} => 0 \in snaps[h].blocks
      BY <2>1, SnapAssumption
    <2>3. 0 .. 0 - 1 = {}
      BY EmptyPrefix
    <2>4. QED
      BY <1>1, <2>2, <2>3, Zenon DEF Restoring
  <1>5. QED
    BY <1>2, <1>3, <1>4, Zenon DEF SnapInv

INSTANCE FiniteSetTheorems

\* A batch is the heights from `done` on, no more of them than SnapBatch.
LEMMA BatchTop ==
  ASSUME NEW m \in -1 .. SnapMaxHeight, NEW done \in Nat, done <= m
  PROVE  \A h \in Nat : h \in SnapBatchOf(0 .. m, done) <=>
                          h <= m /\ done <= h /\ h - done < SnapBatch
  <1> USE SnapAssumption
  <1>1. ASSUME NEW h \in 0 .. m, done <= h
        PROVE  Cardinality({k \in 0 .. m : done <= k /\ k < h}) = h - done
    <2>1. {k \in 0 .. m : done <= k /\ k < h} = done .. h - 1
      BY <1>1
    <2>2. Cardinality(done .. h - 1) = h - done
      <3>1. done \in Int /\ h - 1 \in Int /\ h \in Int
        BY <1>1
      <3>2. Cardinality(done .. h - 1) = IF done > h - 1 THEN 0 ELSE (h - 1) - done + 1
        BY <3>1, FS_Interval, Zenon
      <3>3. QED
        BY <1>1, <3>1, <3>2
    <2>3. QED
      BY <2>1, <2>2, Zenon
  <1>2. ASSUME NEW h \in Nat
        PROVE  h \in SnapBatchOf(0 .. m, done) <=> h <= m /\ done <= h /\ h - done < SnapBatch
    <2>1. h \in SnapBatchOf(0 .. m, done) <=>
             /\ h \in 0 .. m /\ done <= h
             /\ Cardinality({k \in 0 .. m : done <= k /\ k < h}) < SnapBatch
      BY Zenon DEF SnapBatchOf
    <2>2. h <= m <=> h \in 0 .. m
      OBVIOUS
    <2>3. QED
      BY <1>1, <2>1, <2>2, Zenon
  <1>3. QED
    BY <1>2, Zenon

LEMMA BatchIs ==
  ASSUME NEW m \in -1 .. SnapMaxHeight, NEW done \in Nat, done <= m
  PROVE  LET batch == SnapBatchOf(0 .. m, done)
         IN  /\ done \in batch
             /\ \A b \in batch : b \in 0 .. m /\ done .. b \subseteq batch
             /\ \A b \in batch : b < done + SnapBatch
  <1> DEFINE batch == SnapBatchOf(0 .. m, done)
  <1>1. batch \subseteq 0 .. m
    BY Zenon DEF SnapBatchOf
  <1>2. \A h \in Nat : h \in batch <=> h <= m /\ done <= h /\ h - done < SnapBatch
    BY BatchTop, Zenon
  <1> HIDE DEF batch
  <1>3. done \in batch
    BY <1>2, SnapAssumption
  <1>4. \A b \in batch : done .. b \subseteq batch /\ b < done + SnapBatch
    BY <1>1, <1>2, SnapAssumption
  <1>5. QED
    BY <1>1, <1>3, <1>4, Zenon DEF batch

LEMMA RestoreBlocksSnap == ASSUME SnapInv, restore_blocks PROVE SnapInv'
  <1> DEFINE blocks == snaps[snapTask.height].blocks
             done == snapTask.done
             batch == SnapBatchOf(blocks, done)
             more == \E k \in blocks : \A b \in batch : k > b
             top == CHOOSE b \in batch : \A k \in batch : k <= b
  <1>1. /\ snapTask.at = "restore" /\ store' = [store EXCEPT !.blocks = @ \cup batch]
        /\ snapTask' = IF more THEN [snapTask EXCEPT !.done = top + 1]
                               ELSE [snapTask EXCEPT !.at = "reread"]
        /\ UNCHANGED <<snaps, snapCalls>>
    BY Zenon DEF restore_blocks
  <1>2. /\ store \in Stores /\ snapTask \in Tasks /\ done \in Nat
        /\ snapTask.height \in SnapHeights
        /\ 0 .. done - 1 \subseteq store.blocks
        /\ blocks # {} => done \in blocks
    BY <1>1, Zenon DEF SnapInv, SnapTyped, Tasks, Restoring
  <1>3. PICK m \in -1 .. SnapMaxHeight : blocks = 0 .. m
    BY <1>2, Zenon DEF SnapInv, DirsPrefix, Prefix
  <1>4. PICK n \in SnapHeights : store.blocks = 0 .. n /\ store.height <= n
    BY Zenon DEF SnapInv, StorePrefix
  <1>5. CASE blocks = {}
    <2>1. batch = {} /\ ~more
      BY <1>5, Zenon DEF SnapBatchOf
    <2>2. store' = store /\ snapTask' = [snapTask EXCEPT !.at = "reread"]
      BY <1>1, <1>2, <2>1, Zenon DEF Stores
    <2>3. snapTask' \in Tasks /\ snapTask'.at = "reread"
      BY <1>2, <2>2, Zenon DEF Tasks
    <2>4. QED
      BY <1>1, <2>2, <2>3, Zenon DEF SnapInv, SnapTyped, StorePrefix, DirsPrefix, Creating, Restoring,
         ListedSnapshotComplete, list_snapshots
  <1>6. CASE blocks # {}
    <2>1. m \in Nat /\ done <= m /\ n \in Nat /\ SnapMaxHeight \in Nat /\ m <= SnapMaxHeight
      BY <1>2, <1>3, <1>6, SnapAssumption DEF SnapHeights
    <2>2. /\ done \in batch
          /\ \A b \in batch : b \in 0 .. m /\ done .. b \subseteq batch
          /\ \A b \in batch : b < done + SnapBatch
      BY <1>2, <1>3, <2>1, BatchIs, Zenon
    <2>2a. \A h \in Nat : h \in batch <=> h <= m /\ done <= h /\ h - done < SnapBatch
      BY <1>2, <1>3, <2>1, BatchTop, Zenon
    <2> HIDE DEF batch
    <2>3. \E b \in batch : \A k \in batch : k <= b
      <3>1. CASE done + SnapBatch - 1 <= m
        <4>1. done + SnapBatch - 1 \in batch
          <5>1. /\ done + SnapBatch - 1 \in Nat /\ done <= done + SnapBatch - 1
                /\ (done + SnapBatch - 1) - done < SnapBatch
            BY <1>2, SnapAssumption
          <5>2. QED
            BY <2>2a, <3>1, <5>1, Zenon
        <4>2. QED
          BY <2>1, <2>2, <4>1, SnapAssumption
      <3>2. CASE ~(done + SnapBatch - 1 <= m)
        <4>1. m \in batch
          <5>1. m <= m /\ done <= m /\ m - done < SnapBatch
            BY <1>2, <2>1, <3>2, SnapAssumption
          <5>2. QED
            BY <2>2a, <2>1, <5>1, Zenon
        <4>2. QED
          BY <2>1, <2>2, <4>1
      <3>3. QED
        BY <3>1, <3>2, Zenon
    <2>4. top \in batch /\ \A k \in batch : k <= top
      BY <2>3, Zenon
    <2> HIDE DEF top
    <2>5. batch = done .. top /\ top \in Nat /\ done <= top /\ top <= m
      <3>1. top \in 0 .. m /\ done .. top \subseteq batch /\ done <= top
        BY <2>2, <2>4, Zenon
      <3>2. \A b \in batch : b \in Nat /\ done <= b
        <4>1. \A b \in batch : b \in Nat
          BY <2>1, <2>2
        <4>2. \A b \in Nat : b \in batch => done <= b
          BY <2>2a, Zenon
        <4>3. QED
          BY <4>1, <4>2, Zenon
      <3>3. batch \subseteq done .. top
        <4>1. \A b \in batch : b \in Nat /\ done <= b /\ b <= top
          BY <2>4, <3>2, Zenon
        <4>2. top \in Nat /\ done \in Nat
          BY <1>2, <2>1, <3>1
        <4>3. QED
          BY <4>1, <4>2
      <3>4. batch = done .. top
        BY <3>1, <3>3, Zenon
      <3>5. QED
        BY <2>1, <3>1, <3>4
    <2>6. \E x \in SnapHeights : store.blocks \cup batch = 0 .. x /\ n <= x /\ top <= x
      <3>1. done - 1 <= n
        BY <1>2, <1>4, <2>1
      <3>2. CASE top <= n
        <4>1. store.blocks \cup batch = 0 .. n
          BY <1>2, <1>4, <2>1, <2>5, <3>2
        <4>2. QED
          BY <2>1, <3>2, <4>1
      <3>3. CASE n < top
        <4>1. store.blocks \cup batch = 0 .. top
          BY <1>2, <1>4, <2>1, <2>5, <3>1, <3>3
        <4>2. top \in SnapHeights
          BY <2>1, <2>5 DEF SnapHeights
        <4>3. QED
          BY <2>1, <2>5, <3>3, <4>1, <4>2
      <3>4. QED
        BY <2>1, <2>5, <3>2, <3>3
    <2>7. PICK x \in SnapHeights : store.blocks \cup batch = 0 .. x /\ n <= x /\ top <= x
      BY <2>6, Zenon
    <2>8. x \in Nat /\ 0 .. x \subseteq SnapHeights
      BY SnapAssumption DEF SnapHeights
    <2>9. store'.blocks = 0 .. x /\ store'.height = store.height /\ store' \in Stores
      BY <1>1, <1>2, <2>7, <2>8, Zenon DEF Stores
    <2>10. StorePrefix'
      <3>1. store.height <= x
        BY <1>2, <1>4, <2>1, <2>7, <2>8, SMTT(30) DEF Stores, SnapHeights
      <3>2. QED
        BY <2>9, <3>1, Zenon DEF StorePrefix
    <2>11. CASE more
      <3>1. snapTask' = [snapTask EXCEPT !.done = top + 1]
        BY <1>1, <2>11, Zenon
      <3>2. /\ snapTask' \in Tasks /\ snapTask'.at = "restore" /\ snapTask'.done = top + 1
            /\ snapTask'.height = snapTask.height
        BY <1>1, <1>2, <2>5, <3>1, SMTT(30) DEF Tasks
      <3>3. 0 .. (top + 1) - 1 \subseteq 0 .. x
        BY <2>5, <2>7, <2>8
      <3>4. top + 1 \in blocks
        BY <1>3, <2>1, <2>4, <2>5, <2>11
      <3>5. Restoring' /\ Creating'
        BY <1>1, <2>9, <3>2, <3>3, <3>4, Zenon DEF Restoring, Creating
      <3>6. QED
        BY <1>1, <2>9, <2>10, <3>2, <3>5, Zenon DEF SnapInv, SnapTyped, DirsPrefix,
           ListedSnapshotComplete, list_snapshots
    <2>12. CASE ~more
      <3>1. snapTask' \in Tasks /\ snapTask'.at = "reread"
        BY <1>1, <1>2, <2>12, Zenon DEF Tasks
      <3>2. Restoring' /\ Creating'
        BY <3>1, Zenon DEF Restoring, Creating
      <3>3. QED
        BY <1>1, <2>9, <2>10, <3>1, <3>2, Zenon DEF SnapInv, SnapTyped, DirsPrefix,
           ListedSnapshotComplete, list_snapshots
    <2>13. QED
      BY <2>11, <2>12, Zenon
  <1>7. QED
    BY <1>5, <1>6, Zenon

LEMMA RestoreStateSnap == ASSUME SnapInv, restore_state PROVE SnapInv'
  <1>1. snapTask' = NoTask /\ UNCHANGED <<store, snaps, snapCalls>>
    BY Zenon DEF restore_state
  <1>2. snapTask' \in Tasks /\ snapTask'.at = "idle"
    BY <1>1, NoTaskTyped, Zenon
  <1>3. Creating' /\ Restoring'
    BY <1>2, Zenon DEF Creating, Restoring
  <1>4. QED
    BY <1>1, <1>2, <1>3, Zenon DEF SnapInv, SnapTyped, StorePrefix, DirsPrefix,
       ListedSnapshotComplete, list_snapshots

LEMMA PruneSnap == ASSUME SnapInv, prune_old_snapshots PROVE SnapInv'
  <1>1. /\ snaps' = [h \in SnapHeights |-> IF h \in SnapPruned THEN NoDir ELSE snaps[h]]
        /\ snapTask.at = "idle" /\ snapCalls' = snapCalls + 1 /\ UNCHANGED <<store, snapTask>>
    BY Zenon DEF prune_old_snapshots
  <1>2. NoDir \in Dirs /\ NoDir.blocks = {} /\ ~NoDir.manifest
    BY Zenon DEF NoDir, Dirs
  <1>3. \A h \in SnapHeights : snaps'[h] = NoDir \/ snaps'[h] = snaps[h]
    BY <1>1, Zenon
  <1>4. snaps' \in [SnapHeights -> Dirs]
    BY <1>1, <1>2, Zenon DEF SnapInv, SnapTyped
  <1>5. SnapTyped' /\ StorePrefix'
    BY <1>1, <1>4 DEF SnapInv, SnapTyped, StorePrefix
  <1>6. DirsPrefix'
    <2>1. \A k \in SnapHeights : Prefix(snaps'[k].blocks)
      BY <1>2, <1>3, EmptyPrefix, Zenon DEF SnapInv, DirsPrefix
    <2>2. QED
      BY <2>1, Zenon DEF DirsPrefix, Prefix
  <1>7. Creating' /\ Restoring'
    BY <1>1, Zenon DEF Creating, Restoring
  <1>8. ListedSnapshotComplete'
    BY <1>2, <1>3, Zenon DEF SnapInv, ListedSnapshotComplete, list_snapshots
  <1>9. QED
    BY <1>5, <1>6, <1>7, <1>8, Zenon DEF SnapInv

LEMMA CrashSnap == ASSUME SnapInv, SnapCrash PROVE SnapInv'
  <1>1. /\ snapTask' = NoTask /\ snapCalls' = snapCalls + 1 /\ UNCHANGED snaps
        /\ store' = store \/ store' = [blocks |-> {0}, height |-> 0]
    BY Zenon DEF SnapCrash
  <1>2. snapTask' \in Tasks /\ snapTask'.at = "idle"
    BY <1>1, NoTaskTyped, Zenon
  <1>3. Creating' /\ Restoring'
    BY <1>2, Zenon DEF Creating, Restoring
  <1>4. store' \in Stores /\ StorePrefix'
    <2>1. CASE store' = store
      BY <2>1, Zenon DEF SnapInv, SnapTyped, StorePrefix
    <2>2. CASE store' = [blocks |-> {0}, height |-> 0]
      <3>1. 0 \in SnapHeights /\ {0} = 0 .. 0
        BY SnapAssumption DEF SnapHeights
      <3>2. QED
        BY <2>2, <3>1 DEF Stores, StorePrefix
    <2>3. QED
      BY <1>1, <2>1, <2>2, Zenon
  <1>5. SnapTyped'
    BY <1>1, <1>2, <1>4 DEF SnapInv, SnapTyped
  <1>6. QED
    BY <1>1, <1>3, <1>4, <1>5, Zenon DEF SnapInv, DirsPrefix, ListedSnapshotComplete, list_snapshots

LEMMA SnapNextInv == SnapInv /\ [SnapNext]_snapVars => SnapInv'
  <1> SUFFICES ASSUME SnapInv, [SnapNext]_snapVars PROVE SnapInv'
    BY Zenon
  <1>1. CASE SnapSaveBlock
    BY <1>1, SaveBlockSnap, Zenon
  <1>2. CASE \E h \in SnapHeights : create_snapshot(h)
    BY <1>2, CreateSnap, Zenon
  <1>3. CASE \E h \in SnapHeights : restore_from_snapshot(h)
    BY <1>3, RestoreSnap, SMTT(30)
  <1>4. CASE save_blocks
    BY <1>4, SaveBlocksSnap, Zenon
  <1>5. CASE save_state
    BY <1>5, SaveStateSnap, Zenon
  <1>6. CASE SaveManifest
    BY <1>6, SaveManifestSnap, Zenon
  <1>7. CASE restore_blocks
    BY <1>7, RestoreBlocksSnap, Zenon
  <1>8. CASE restore_state
    BY <1>8, RestoreStateSnap, Zenon
  <1>9. CASE prune_old_snapshots
    BY <1>9, PruneSnap, Zenon
  <1>10. CASE SnapCrash
    BY <1>10, CrashSnap, Zenon
  <1>11. CASE UNCHANGED snapVars
    BY <1>11, Zenon DEF snapVars, SnapInv, SnapTyped, StorePrefix, DirsPrefix, Creating, Restoring,
       ListedSnapshotComplete, list_snapshots
  <1>12. QED
    BY <1>1, <1>2, <1>3, <1>4, <1>5, <1>6, <1>7, <1>8, <1>9, <1>10, <1>11, SMTT(30) DEF SnapNext

\* The snapshots' invariant holds in every reachable state.
THEOREM SnapInvariant == SnapSpec => []SnapInv
  <1>1. QED
    BY SnapInitInv, SnapNextInv, PTL DEF SnapSpec

(* A listed snapshot is complete, whatever is saved, begun, restored,      *)
(* pruned or cut short by a crash, unless its height was begun again: the  *)
(* manifest is the last file create_snapshot writes.                       *)
THEOREM ListedAlwaysComplete == SnapSpec => []ListedSnapshotComplete
  <1>1. SnapInv => ListedSnapshotComplete
    BY Zenon DEF SnapInv
  <1>2. QED
    BY SnapInvariant, <1>1, PTL

(* The storage holds the blocks 0 to n for some n after every batch of     *)
(* restore_blocks, for any batch size and any crash between two batches.   *)
THEOREM RestoreAlwaysPrefix == SnapSpec => []RestoreLeavesPrefix
  <1>1. SnapInv => RestoreLeavesPrefix
    BY Zenon DEF SnapInv, StorePrefix, RestoreLeavesPrefix
  <1>2. QED
    BY SnapInvariant, <1>1, PTL

=============================================================================
