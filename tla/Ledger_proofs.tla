--------------------------- MODULE Ledger_proofs ---------------------------
(***************************************************************************)
(* Proofs about the ledger, for any addresses, transfers and blocks, and   *)
(* any number of failed writes, crashes, power failures and reverts: what  *)
(* is on the medium at any instant is a state to recover from.             *)
(*                                                                         *)
(* The argument: View is what the accounts will be once the block in       *)
(* progress is written.  Every transfer is on both or on neither of its    *)
(* sides in View, and nothing that is on disk is missing from it; only a   *)
(* whole View is written, before the block is.  After a failed write the   *)
(* caches may be ahead of the disk, but then the engine's height is the    *)
(* state's own and apply_block refuses every block until a restart or a    *)
(* revert has emptied them.                                                *)
(***************************************************************************)
EXTENDS Ledger, TLAPS

MapsOf(K, V) == UNION {[D -> V] : D \in SUBSET K}
AccountMaps == MapsOf(LedgerAddresses, SUBSET Transfers)
RootMaps == MapsOf(Heights, AccountMaps)
BodySet == Bodies \cup {<<>>}
BlockMaps == MapsOf(Heights, BodySet)

Disks == [accounts : AccountMaps, blocks : BlockMaps, roots : RootMaps,
          height : 0 .. LedgerMaxHeight]
States == [cache : AccountMaps, dirty : AccountMaps, versions : RootMaps,
           root : AccountMaps, height : 0 .. LedgerMaxHeight]
Engines == [pc : {"idle", "apply", "root", "batch", "block", "meta"},
            height : 0 .. LedgerMaxHeight + 1, body : BodySet, next : Nat, batch : AccountMaps]

Typed ==
    /\ disk \in Disks /\ durable \in Disks
    /\ accountCache \in AccountMaps
    /\ state \in States
    /\ committer \in Engines
    /\ announced \subseteq Heights \X Bodies
    /\ ledgerFaults \in 0 .. LedgerMaxFaults /\ crashes \in 0 .. MaxCrashes

\* On an account map, a transfer is on both of its sides.
OnBoth(m, t) == /\ t.from \in DOMAIN m /\ t \in m[t.from]
                /\ t.to \in DOMAIN m /\ t \in m[t.to]
Balanced(m) ==
    \A t \in Transfers : (t.from \in DOMAIN m /\ t \in m[t.from])
                            <=> (t.to \in DOMAIN m /\ t \in m[t.to])

\* A store that a node can come up on.
SoundStore(d) ==
    /\ d.height \in DOMAIN d.blocks /\ DOMAIN d.blocks \subseteq DOMAIN d.roots
    /\ \A h \in DOMAIN d.roots : h <= d.height + 1
    /\ Balanced(d.accounts)
    /\ \A h \in DOMAIN d.blocks : \A i \in DOMAIN d.blocks[h] : OnBoth(d.accounts, d.blocks[h][i])

\* Where commit_block stands: the heights of the engine, the state and the
\* disk, and what has been written for the block.
Staged ==
    /\ committer.height \in {disk.height, disk.height + 1}
    /\ committer.pc # "idle" => committer.height \in Heights /\ committer.body \in Bodies
    /\ committer.pc = "apply" => committer.next >= 1
    /\ committer.pc \in {"apply", "root"} => FollowsState(committer.height)
    /\ committer.pc \in {"root", "batch", "block", "meta"} => committer.height \in DOMAIN disk.roots
    /\ committer.pc \in {"batch", "block", "meta"} => state.height = committer.height /\ state.dirty = Empty
    /\ committer.pc = "meta" => committer.height \in DOMAIN disk.blocks
    /\ \A h \in DOMAIN state.versions : h <= disk.height + 1
    /\ AtMostOneUnsaved

\* The accounts as they are once what commit_block holds is written.
View == Over(IF committer.pc = "batch" THEN committer.batch ELSE state.dirty, disk.accounts)

\* A block is being applied, or the next one could be.
Usable == committer.pc = "idle" => FollowsState(committer.height)

ViewSound ==
    Usable => /\ Balanced(View)
              /\ \A a \in DOMAIN disk.accounts : disk.accounts[a] \subseteq View[a]
              /\ \A a \in DOMAIN state.cache : a \in DOMAIN View /\ state.cache[a] = View[a]

StoredFresh == \A a \in DOMAIN accountCache : a \in DOMAIN disk.accounts /\ accountCache[a] = disk.accounts[a]

\* The transfers of the block that View already shows.
BodyShown ==
    /\ committer.pc = "apply" => \A i \in DOMAIN committer.body : i < committer.next => OnBoth(View, committer.body[i])
    /\ committer.pc \in {"root", "batch", "block", "meta"} =>
          \A i \in DOMAIN committer.body : OnBoth(View, committer.body[i])

Inv == /\ Typed /\ SoundStore(disk) /\ SoundStore(durable) /\ Staged
       /\ ViewSound /\ StoredFresh /\ BodyShown

-----------------------------------------------------------------------------
(* Maps. *)

LEMMA MapElim ==
  ASSUME NEW K, NEW V, NEW f \in MapsOf(K, V)
  PROVE  DOMAIN f \subseteq K /\ f \in [DOMAIN f -> V] /\ \A x \in DOMAIN f : f[x] \in V
  BY Zenon DEF MapsOf

LEMMA MapIntro ==
  ASSUME NEW K, NEW V, NEW D \in SUBSET K, NEW f \in [D -> V]
  PROVE  f \in MapsOf(K, V)
  BY Zenon DEF MapsOf

LEMMA EmptyMap ==
  ASSUME NEW K, NEW V
  PROVE  Empty \in MapsOf(K, V) /\ DOMAIN Empty = {}
  <1>1. Empty \in [{} -> V] /\ DOMAIN Empty = {}
    BY Zenon DEF Empty
  <1>2. QED
    BY <1>1, MapIntro, Zenon

LEMMA RootElim ==
  ASSUME NEW m \in RootMaps
  PROVE  /\ DOMAIN m \subseteq Heights /\ DOMAIN m \subseteq Nat
         /\ \A h \in DOMAIN m : m[h] \in AccountMaps
  <1>1. DOMAIN m \subseteq Heights /\ \A h \in DOMAIN m : m[h] \in AccountMaps
    BY MapElim, Zenon DEF RootMaps
  <1>2. QED
    BY <1>1 DEF Heights

LEMMA RootPut ==
  ASSUME NEW m \in RootMaps, NEW h \in Heights, NEW c \in AccountMaps
  PROVE  Put(m, h, c) \in RootMaps /\ DOMAIN Put(m, h, c) = DOMAIN m \cup {h}
  <1>1. DOMAIN m \cup {h} \in SUBSET Heights /\ \A x \in DOMAIN m : m[x] \in AccountMaps
    BY MapElim, Zenon DEF RootMaps
  <1>2. Put(m, h, c) \in [DOMAIN m \cup {h} -> AccountMaps]
    BY <1>1, Zenon DEF Put
  <1>3. QED
    BY <1>1, <1>2, MapIntro, Zenon DEF RootMaps

\* p holds the blocks of m, and b at height h.
Stores(p, m, h, b) == /\ p \in BlockMaps
                      /\ DOMAIN p = DOMAIN m \cup {h}
                      /\ \A x \in DOMAIN p : p[x] = IF x = h THEN b ELSE m[x]

LEMMA BlockPut ==
  ASSUME NEW m \in BlockMaps, NEW h \in Heights, NEW b \in BodySet
  PROVE  Stores(Put(m, h, b), m, h, b)
  <1>1. DOMAIN m \cup {h} \in SUBSET Heights /\ \A x \in DOMAIN m : m[x] \in BodySet
    BY MapElim, Zenon DEF BlockMaps
  <1>2. Put(m, h, b) \in [DOMAIN m \cup {h} -> BodySet]
    BY <1>1, Zenon DEF Put
  <1>3. Put(m, h, b) \in BlockMaps
    BY <1>1, <1>2, MapIntro, Zenon DEF BlockMaps
  <1>4. QED
    BY <1>3, Zenon DEF Put, Stores

\* h holds the accounts of f, and those of g that f does not have.
Covers(h, f, g) == /\ h \in AccountMaps
                   /\ DOMAIN h = DOMAIN f \cup DOMAIN g
                   /\ \A x \in DOMAIN f : h[x] = f[x]
                   /\ \A x \in DOMAIN g : x \notin DOMAIN f => h[x] = g[x]

LEMMA AccountOver ==
  ASSUME NEW f \in AccountMaps, NEW g \in AccountMaps
  PROVE  Covers(Over(f, g), f, g)
  <1>1. /\ DOMAIN f \in SUBSET LedgerAddresses /\ DOMAIN g \in SUBSET LedgerAddresses
        /\ \A x \in DOMAIN f : f[x] \in SUBSET Transfers
        /\ \A x \in DOMAIN g : g[x] \in SUBSET Transfers
    BY MapElim, Zenon DEF AccountMaps
  <1>2. Over(f, g) \in [DOMAIN f \cup DOMAIN g -> SUBSET Transfers]
    BY <1>1, Zenon DEF Over
  <1>3. Over(f, g) \in AccountMaps
    BY <1>1, <1>2, MapIntro, Zenon DEF AccountMaps
  <1>4. QED
    BY <1>3, Zenon DEF Over, Covers

LEMMA AccountElim ==
  ASSUME NEW f \in AccountMaps
  PROVE  DOMAIN f \subseteq LedgerAddresses /\ \A a \in DOMAIN f : f[a] \in SUBSET Transfers
  BY MapElim, Zenon DEF AccountMaps

-----------------------------------------------------------------------------
(* The initial state. *)

LEMMA InitialStore == InitialDisk \in Disks /\ SoundStore(InitialDisk)
  <1> USE LedgerAssumption
  <1>1. 1 \in Heights /\ 1 \in 0 .. LedgerMaxHeight
    BY DEF Heights
  <1>2. [a \in {Genesis} |-> {}] \in AccountMaps
    BY MapIntro, Zenon DEF AccountMaps
  <1>3. [h \in {1} |-> <<>>] \in BlockMaps
    BY <1>1, MapIntro, Zenon DEF BodySet, BlockMaps
  <1>4. [h \in {1} |-> Empty] \in RootMaps
    <2>1. Empty \in AccountMaps
      BY EmptyMap, Zenon DEF AccountMaps
    <2>2. QED
      BY <1>1, <2>1, MapIntro, Zenon DEF RootMaps
  <1>5. InitialDisk \in Disks
    BY <1>1, <1>2, <1>3, <1>4, Zenon DEF InitialDisk, Disks
  <1>6. Balanced(InitialDisk.accounts)
    BY Zenon DEF InitialDisk, Balanced
  <1>7. \A h \in DOMAIN InitialDisk.blocks : DOMAIN InitialDisk.blocks[h] = {}
    BY DEF InitialDisk
  <1>8. SoundStore(InitialDisk)
    <2>1. DOMAIN InitialDisk.blocks = {1} /\ DOMAIN InitialDisk.roots = {1}
          /\ InitialDisk.height = 1
      BY Zenon DEF InitialDisk
    <2>2. QED
      BY <1>6, <1>7, <2>1 DEF SoundStore
  <1>9. QED
    BY <1>5, <1>8, Zenon

\* A node that comes up on a sound store, with nothing in memory.
LEMMA Restart ==
  /\ disk \in Disks /\ SoundStore(disk) /\ accountCache = Empty /\ state = FreshState
  /\ committer = FreshEngine(disk.height) /\ durable \in Disks /\ SoundStore(durable)
  /\ announced \subseteq Heights \X Bodies
  /\ ledgerFaults \in 0 .. LedgerMaxFaults /\ crashes \in 0 .. MaxCrashes
  => Inv
  <1> SUFFICES ASSUME disk \in Disks, SoundStore(disk), accountCache = Empty, state = FreshState,
                      committer = FreshEngine(disk.height), durable \in Disks, SoundStore(durable),
                      announced \subseteq Heights \X Bodies,
                      ledgerFaults \in 0 .. LedgerMaxFaults, crashes \in 0 .. MaxCrashes
               PROVE  Inv
    BY Zenon
  <1> USE LedgerAssumption
  <1>1. Empty \in AccountMaps /\ Empty \in RootMaps /\ DOMAIN Empty = {}
    BY EmptyMap, Zenon DEF AccountMaps, RootMaps
  <1>2. /\ state.cache = Empty /\ state.dirty = Empty /\ state.versions = Empty
        /\ state.height = 0 /\ state \in States
    BY <1>1 DEF FreshState, States
  <1>3. /\ committer.pc = "idle" /\ committer.height = disk.height
        /\ committer \in Engines
    <2>1. disk.height \in 0 .. LedgerMaxHeight + 1
      BY DEF Disks
    <2>2. QED
      BY <1>1, <2>1, Zenon DEF FreshEngine, Engines, BodySet
  <1>4. Typed
    BY <1>1, <1>2, <1>3, Zenon DEF Typed
  <1>5. disk.height \in Nat
    BY DEF Disks
  <1>6. Staged
    BY <1>1, <1>2, <1>3, <1>5 DEF Staged, AtMostOneUnsaved
  <1>7. /\ DOMAIN View = DOMAIN disk.accounts
        /\ \A a \in DOMAIN View : View[a] = disk.accounts[a]
    BY <1>1, <1>2, <1>3, Zenon DEF View, Over
  <1>8. ViewSound
    BY <1>1, <1>2, <1>7, Zenon DEF ViewSound, SoundStore, Balanced
  <1>9. StoredFresh /\ BodyShown
    BY <1>1, <1>3, Zenon DEF StoredFresh, BodyShown
  <1>10. QED
    BY <1>4, <1>6, <1>8, <1>9, Zenon DEF Inv

LEMMA InitInv == LedgerInit => Inv
  BY InitialStore, Restart, LedgerAssumption DEF LedgerInit

-----------------------------------------------------------------------------
(* What the steps read. *)

LEMMA Fields ==
  ASSUME Typed
  PROVE  /\ disk.accounts \in AccountMaps /\ disk.blocks \in BlockMaps
         /\ disk.roots \in RootMaps /\ disk.height \in 0 .. LedgerMaxHeight
         /\ state.cache \in AccountMaps /\ state.dirty \in AccountMaps
         /\ state.versions \in RootMaps /\ state.root \in AccountMaps
         /\ state.height \in 0 .. LedgerMaxHeight
         /\ committer.height \in 0 .. LedgerMaxHeight + 1 /\ committer.body \in BodySet
         /\ committer.next \in Nat /\ committer.batch \in AccountMaps
         /\ accountCache \in AccountMaps
  BY Zenon DEF Typed, Disks, States, Engines

\* The dirty accounts over the stored ones, away from the write of the batch.
LEMMA DirtyView ==
  ASSUME Typed, committer.pc # "batch"
  PROVE  Covers(View, state.dirty, disk.accounts)
  <1>1. View = Over(state.dirty, disk.accounts)
    BY Zenon DEF View
  <1>2. state.dirty \in AccountMaps /\ disk.accounts \in AccountMaps
    BY Fields, Zenon
  <1>3. QED
    BY <1>1, <1>2, AccountOver, Zenon

\* The batch over the stored accounts, while it is being written.
LEMMA BatchView ==
  ASSUME Typed, committer.pc = "batch"
  PROVE  Covers(View, committer.batch, disk.accounts)
  <1>1. View = Over(committer.batch, disk.accounts)
    BY Zenon DEF View
  <1>2. committer.batch \in AccountMaps /\ disk.accounts \in AccountMaps
    BY Fields, Zenon
  <1>3. QED
    BY <1>1, <1>2, AccountOver, Zenon

LEMMA StorageIsDisk ==
  ASSUME Typed, StoredFresh
  PROVE  /\ DOMAIN StorageMap = DOMAIN disk.accounts
         /\ \A a \in DOMAIN disk.accounts : StorageMap[a] = disk.accounts[a]
  <1>1. Covers(StorageMap, accountCache, disk.accounts)
    <2>1. accountCache \in AccountMaps /\ disk.accounts \in AccountMaps
      BY Fields, Zenon
    <2>2. QED
      BY <2>1, AccountOver, Zenon DEF StorageMap
  <1>2. QED
    BY <1>1, Zenon DEF StoredFresh, Covers

\* Reading through the caches finds the View while a block is applied.
LEMMA ReadsView ==
  ASSUME Inv, committer.pc = "apply"
  PROVE  /\ DOMAIN AccountMap = DOMAIN View
         /\ \A a \in DOMAIN View : AccountMap[a] = View[a]
  <1>1. /\ \A a \in DOMAIN state.cache : a \in DOMAIN View /\ state.cache[a] = View[a]
        /\ Typed /\ StoredFresh
    BY Zenon DEF Inv, ViewSound, Usable
  <1>2. Covers(View, state.dirty, disk.accounts)
    BY <1>1, DirtyView, Zenon
  <1>3. /\ DOMAIN StorageMap = DOMAIN disk.accounts
        /\ \A a \in DOMAIN disk.accounts : StorageMap[a] = disk.accounts[a]
    BY <1>1, StorageIsDisk, Zenon
  <1>4. /\ DOMAIN AccountMap = DOMAIN state.cache \cup (DOMAIN state.dirty \cup DOMAIN StorageMap)
        /\ \A a \in DOMAIN AccountMap :
             AccountMap[a] = IF a \in DOMAIN state.cache THEN state.cache[a]
                             ELSE IF a \in DOMAIN state.dirty THEN state.dirty[a] ELSE StorageMap[a]
    BY Zenon DEF AccountMap, Over
  <1>5. QED
    BY <1>1, <1>2, <1>3, <1>4, Zenon DEF Covers

\* What a read brings into the caches is what is on disk, for accounts that
\* no block in progress has changed.
LEMMA ReadThroughFresh ==
  ASSUME Typed, StoredFresh, NEW S \in SUBSET LedgerAddresses
  PROVE  /\ ReadThrough(S) \in AccountMaps
         /\ \A a \in DOMAIN ReadThrough(S) :
              /\ a \in DOMAIN disk.accounts /\ a \notin DOMAIN state.dirty
              /\ ReadThrough(S)[a] = disk.accounts[a]
  <1> DEFINE D == (S \cap DOMAIN StorageMap) \ (DOMAIN state.cache \cup DOMAIN state.dirty)
  <1>1. D \in SUBSET LedgerAddresses /\ D \subseteq DOMAIN disk.accounts
    BY StorageIsDisk, Zenon
  <1>2. \A a \in D : StorageMap[a] = disk.accounts[a] /\ disk.accounts[a] \in SUBSET Transfers
    BY <1>1, StorageIsDisk, Fields, AccountElim, Zenon
  <1>3. ReadThrough(S) = [a \in D |-> StorageMap[a]]
    BY Zenon DEF ReadThrough
  <1>4. ReadThrough(S) \in [D -> SUBSET Transfers]
    BY <1>2, <1>3, Zenon
  <1>5. QED
    BY <1>1, <1>2, <1>3, <1>4, MapIntro, Zenon DEF AccountMaps

-----------------------------------------------------------------------------
(* The steps of commit_block. *)

LEMMA BeginApplyStep ==
  ASSUME Inv, BeginApply PROVE Inv'
  <1> USE LedgerAssumption
  <1>1. PICK b \in Bodies : committer' = [committer EXCEPT !.pc = "apply", !.body = b, !.next = 1]
    BY Zenon DEF BeginApply
  <1>2. /\ UNCHANGED <<disk, durable, accountCache, state, announced, ledgerFaults, crashes>>
        /\ committer.pc = "idle" /\ committer.height \in Heights /\ FollowsState(committer.height)
    BY Zenon DEF BeginApply
  <1>3. /\ committer'.pc = "apply" /\ committer'.body = b /\ committer'.next = 1
        /\ committer'.height = committer.height /\ committer' \in Engines
    BY <1>1, Zenon DEF Inv, Typed, Engines, BodySet
  <1>4. Typed'
    BY <1>2, <1>3, Zenon DEF Inv, Typed
  <1>5. Staged'
    BY <1>2, <1>3 DEF Inv, Staged, FollowsState, AtMostOneUnsaved
  <1>6. View' = View
    BY <1>2, <1>3, Zenon DEF View
  <1>7. ViewSound'
    BY <1>2, <1>6, Zenon DEF Inv, ViewSound, Usable, Balanced
  <1>8. BodyShown'
    <2>1. DOMAIN b = 1 .. Len(b)
      OBVIOUS
    <2>2. QED
      BY <1>3, <2>1 DEF BodyShown
  <1>9. QED
    BY <1>2, <1>4, <1>5, <1>7, <1>8, Zenon DEF Inv, SoundStore, StoredFresh

\* One transfer written on both of its sides.
LEMMA Credited ==
  ASSUME NEW v \in AccountMaps, NEW w \in AccountMaps, NEW t \in Transfers,
         t.from \in DOMAIN v,
         DOMAIN w = DOMAIN v \cup {t.from, t.to},
         w[t.from] = v[t.from] \cup {t},
         w[t.to] = (IF t.to \in DOMAIN v THEN v[t.to] ELSE {}) \cup {t},
         \A a \in DOMAIN v \ {t.from, t.to} : w[a] = v[a],
         Balanced(v)
  PROVE  /\ Balanced(w) /\ OnBoth(w, t)
         /\ \A u \in Transfers : OnBoth(v, u) => OnBoth(w, u)
         /\ \A a \in DOMAIN v : v[a] \subseteq w[a]
  <1>1. \A a, u : u # t => ((a \in DOMAIN w /\ u \in w[a]) <=> (a \in DOMAIN v /\ u \in v[a]))
    <2> TAKE a, u
    <2> HAVE u # t
    <2>1. CASE a = t.from
      BY <2>1, Zenon
    <2>2. CASE a = t.to
      BY <2>2, Zenon
    <2>3. CASE a \notin {t.from, t.to}
      BY <2>3, Zenon
    <2>4. QED
      BY <2>1, <2>2, <2>3, Zenon
  <1>2. OnBoth(w, t)
    BY Zenon DEF OnBoth
  <1>3. Balanced(w)
    BY <1>1, <1>2, Zenon DEF Balanced, OnBoth
  <1>4. QED
    BY <1>1, <1>2, <1>3, Zenon DEF OnBoth

LEMMA ApplyTransferStep ==
  ASSUME Inv, ApplyTransfer PROVE Inv'
  <1> DEFINE t == committer.body[committer.next]
             W == WrittenBy(t)
             R == ReadThrough({t.from, t.to})
  <1>1. /\ committer.pc = "apply" /\ committer.next <= Len(committer.body)
        /\ t.from \in DOMAIN AccountMap
        /\ state' = [state EXCEPT !.dirty = Over(W, @), !.cache = Over(W, @)]
        /\ accountCache' = Over(R, accountCache)
        /\ committer' = [committer EXCEPT !.next = @ + 1]
        /\ UNCHANGED <<disk, durable, announced, ledgerFaults, crashes>>
    BY Zenon DEF ApplyTransfer
  <1>2. /\ Typed /\ StoredFresh /\ Staged /\ committer.body \in Bodies
        /\ Balanced(View)
        /\ \A a \in DOMAIN disk.accounts : disk.accounts[a] \subseteq View[a]
        /\ \A a \in DOMAIN state.cache : a \in DOMAIN View /\ state.cache[a] = View[a]
        /\ \A i \in DOMAIN committer.body : i < committer.next => OnBoth(View, committer.body[i])
    BY <1>1, Zenon DEF Inv, Staged, ViewSound, Usable, BodyShown
  <1>3. committer.body \in Seq(Transfers) /\ DOMAIN committer.body = 1 .. Len(committer.body)
    BY <1>2, LedgerAssumption
  <1>4. t \in Transfers /\ t.from \in LedgerAddresses /\ t.to \in LedgerAddresses /\ t.from # t.to
    <2>1. committer.next \in Nat /\ (committer.next >= 1 => committer.next \in DOMAIN committer.body)
      BY <1>1, <1>2, <1>3, Fields
    <2>2. committer.next >= 1
      BY <1>2, <1>1, Zenon DEF Staged
    <2>3. t \in Transfers
      BY <1>3, <2>1, <2>2
    <2>4. QED
      BY <2>3, LedgerAssumption, Zenon
  <1> HIDE DEF t
  <1>5. Covers(View, state.dirty, disk.accounts)
    BY <1>1, <1>2, DirtyView, Zenon
  <1>6. DOMAIN AccountMap = DOMAIN View /\ \A a \in DOMAIN View : AccountMap[a] = View[a]
    BY <1>1, ReadsView, Zenon
  <1>7. /\ DOMAIN W = {t.from, t.to}
        /\ W[t.from] = View[t.from] \cup {t}
        /\ W[t.to] = (IF t.to \in DOMAIN View THEN View[t.to] ELSE {}) \cup {t}
    BY <1>1, <1>4, <1>6, Zenon DEF WrittenBy, apply_transfer
  <1>8. W \in AccountMaps
    <2>1. W[t.from] \in SUBSET Transfers /\ W[t.to] \in SUBSET Transfers
      BY <1>1, <1>4, <1>5, <1>6, <1>7, AccountElim, Zenon DEF Covers
    <2>2. W \in [{t.from, t.to} -> SUBSET Transfers]
      BY <1>7, <2>1, Zenon DEF WrittenBy, apply_transfer
    <2>3. QED
      BY <1>4, <2>2, MapIntro, Zenon DEF AccountMaps
  <1> HIDE DEF W
  <1>9. R \in AccountMaps /\ \A a \in DOMAIN R : /\ a \in DOMAIN disk.accounts
                                               /\ R[a] = disk.accounts[a]
    BY <1>2, <1>4, ReadThroughFresh, Zenon
  <1> HIDE DEF R
  <1>10. /\ state'.dirty = Over(W, state.dirty) /\ state'.cache = Over(W, state.cache)
         /\ state'.versions = state.versions /\ state'.root = state.root
         /\ state'.height = state.height
         /\ committer'.pc = "apply" /\ committer'.height = committer.height
         /\ committer'.body = committer.body /\ committer'.next = committer.next + 1
         /\ committer'.batch = committer.batch
    BY <1>1, <1>2, Zenon DEF Typed, States, Engines
  <1>11. /\ state.dirty \in AccountMaps /\ state.cache \in AccountMaps
         /\ disk.accounts \in AccountMaps /\ accountCache \in AccountMaps
    BY <1>2, Fields, Zenon
  <1>12. Covers(state'.dirty, W, state.dirty)
    BY <1>8, <1>10, <1>11, AccountOver, Zenon
  <1>13. Covers(state'.cache, W, state.cache)
    BY <1>8, <1>10, <1>11, AccountOver, Zenon
  <1>14. Covers(accountCache', R, accountCache)
    BY <1>1, <1>9, <1>11, AccountOver, Zenon
  <1>15. Covers(View', state'.dirty, disk.accounts)
    <2>1. View' = Over(state'.dirty, disk.accounts)
      BY <1>1, <1>10, Zenon DEF View
    <2>2. state'.dirty \in AccountMaps
      BY <1>12, Zenon DEF Covers
    <2>3. QED
      BY <1>11, <2>1, <2>2, AccountOver, Zenon
  <1>16. /\ DOMAIN View' = DOMAIN View \cup {t.from, t.to}
         /\ View'[t.from] = View[t.from] \cup {t}
         /\ View'[t.to] = (IF t.to \in DOMAIN View THEN View[t.to] ELSE {}) \cup {t}
         /\ \A a \in DOMAIN View \ {t.from, t.to} : View'[a] = View[a]
    BY <1>5, <1>7, <1>12, <1>15 DEF Covers
  <1>17. /\ Balanced(View') /\ OnBoth(View', t)
         /\ \A u \in Transfers : OnBoth(View, u) => OnBoth(View', u)
         /\ \A a \in DOMAIN View : View[a] \subseteq View'[a]
    BY <1>1, <1>2, <1>4, <1>5, <1>6, <1>15, <1>16, Credited, Zenon DEF Covers
  <1>18. Typed'
    <2>1. state' \in States
      BY <1>1, <1>2, <1>12, <1>13, Zenon DEF Typed, States, Covers
    <2>2. committer' \in Engines
      BY <1>1, <1>2 DEF Typed, Engines
    <2>3. QED
      BY <1>1, <1>2, <1>14, <2>1, <2>2, Zenon DEF Typed, Covers
  <1>19. Staged'
    BY <1>1, <1>2, <1>10, Fields DEF Staged, FollowsState, AtMostOneUnsaved
  <1>20. ViewSound'
    <2>1. \A a \in DOMAIN disk.accounts : disk.accounts[a] \subseteq View'[a]
      BY <1>2, <1>5, <1>17, Zenon DEF Covers
    <2>2. \A a \in DOMAIN state'.cache : a \in DOMAIN View' /\ state'.cache[a] = View'[a]
      BY <1>2, <1>7, <1>12, <1>13, <1>15, <1>16, SMTT(30) DEF Covers
    <2>3. QED
      BY <1>1, <1>17, <2>1, <2>2, Zenon DEF ViewSound, Balanced
  <1>21. StoredFresh'
    BY <1>1, <1>2, <1>9, <1>14, Zenon DEF StoredFresh, Covers
  <1>22. BodyShown'
    <2>1. \A i \in DOMAIN committer.body : i < committer.next + 1 => OnBoth(View', committer.body[i])
      <3> TAKE i \in DOMAIN committer.body
      <3> HAVE i < committer.next + 1
      <3>1. CASE i = committer.next
        BY <1>17, <3>1, Zenon DEF t
      <3>2. CASE i < committer.next
        BY <1>2, <1>3, <1>17, <3>2
      <3>3. QED
        BY <1>2, <1>3, <3>1, <3>2, Fields
    <2>2. QED
      BY <1>10, <2>1, Zenon DEF BodyShown, OnBoth
  <1>23. QED
    BY <1>1, <1>18, <1>19, <1>20, <1>21, <1>22, Zenon DEF Inv, SoundStore

\* A write or a transfer that fails leaves everything but the program counter.
LEMMA GaveUp ==
  ASSUME Typed, GiveUp
  PROVE  /\ committer'.pc = "idle" /\ committer'.height = committer.height
         /\ committer' \in Engines /\ ledgerFaults' \in 0 .. LedgerMaxFaults
  <1>1. committer' = [committer EXCEPT !.pc = "idle"] /\ committer \in Engines
    BY Zenon DEF GiveUp, AfterError, Typed
  <1>2. ledgerFaults' \in 0 .. LedgerMaxFaults
    BY LedgerAssumption DEF GiveUp, Typed
  <1>3. QED
    BY <1>1, <1>2, Zenon DEF Engines

LEMMA RejectTransferStep ==
  ASSUME Inv, RejectTransfer PROVE Inv'
  <1> DEFINE S == {committer.body[committer.next].from}
             R == ReadThrough(S)
  <1>1. /\ committer.pc = "apply" /\ committer.next <= Len(committer.body)
        /\ state' = [state EXCEPT !.cache = Over(R, @)]
        /\ accountCache' = Over(R, accountCache)
        /\ GiveUp
        /\ UNCHANGED <<disk, durable, announced, crashes>>
    BY Zenon DEF RejectTransfer
  <1>2. /\ Typed /\ StoredFresh /\ Staged /\ committer.body \in Bodies
        /\ Balanced(View)
        /\ \A a \in DOMAIN disk.accounts : disk.accounts[a] \subseteq View[a]
        /\ \A a \in DOMAIN state.cache : a \in DOMAIN View /\ state.cache[a] = View[a]
    BY <1>1, Zenon DEF Inv, Staged, ViewSound, Usable
  <1>3. S \in SUBSET LedgerAddresses
    <2>1. committer.body \in Seq(Transfers) /\ committer.next \in Nat /\ committer.next >= 1
      BY <1>1, <1>2, Fields, LedgerAssumption, Zenon DEF Staged
    <2>2. committer.body[committer.next] \in Transfers
      BY <1>1, <2>1
    <2>3. QED
      BY <2>2, LedgerAssumption, Zenon
  <1> HIDE DEF S
  <1>4. R \in AccountMaps
        /\ \A a \in DOMAIN R : /\ a \in DOMAIN disk.accounts /\ a \notin DOMAIN state.dirty
                               /\ R[a] = disk.accounts[a]
    BY <1>2, <1>3, ReadThroughFresh, Zenon
  <1> HIDE DEF R
  <1>5. /\ state'.cache = Over(R, state.cache) /\ state'.dirty = state.dirty
        /\ state'.versions = state.versions /\ state'.root = state.root
        /\ state'.height = state.height
    BY <1>1, <1>2, Zenon DEF Typed, States
  <1>6. /\ committer'.pc = "idle" /\ committer'.height = committer.height
        /\ committer' \in Engines /\ ledgerFaults' \in 0 .. LedgerMaxFaults
    BY <1>1, <1>2, GaveUp, Zenon
  <1>7. state.cache \in AccountMaps /\ accountCache \in AccountMaps
    BY <1>2, Fields, Zenon
  <1>8. Covers(state'.cache, R, state.cache)
    BY <1>4, <1>5, <1>7, AccountOver, Zenon
  <1>9. Covers(accountCache', R, accountCache)
    BY <1>1, <1>4, <1>7, AccountOver, Zenon
  <1>10. View' = View /\ Covers(View, state.dirty, disk.accounts)
    BY <1>1, <1>2, <1>5, <1>6, DirtyView, Zenon DEF View
  <1>11. Typed'
    <2>1. state' \in States
      BY <1>1, <1>2, <1>8, Zenon DEF Typed, States, Covers
    <2>2. QED
      BY <1>1, <1>2, <1>6, <1>9, <2>1, Zenon DEF Typed, Covers
  <1>12. Staged'
    BY <1>1, <1>2, <1>5, <1>6, Zenon DEF Staged, AtMostOneUnsaved
  <1>13. ViewSound'
    <2>1. \A a \in DOMAIN state'.cache : a \in DOMAIN View /\ state'.cache[a] = View[a]
      BY <1>2, <1>4, <1>8, <1>10, Zenon DEF Covers
    <2>2. QED
      BY <1>1, <1>2, <1>10, <2>1, Zenon DEF ViewSound, Balanced
  <1>14. StoredFresh'
    BY <1>1, <1>2, <1>4, <1>9, Zenon DEF StoredFresh, Covers
  <1>15. BodyShown'
    BY <1>6, Zenon DEF BodyShown
  <1>16. QED
    BY <1>1, <1>11, <1>12, <1>13, <1>14, <1>15, Zenon DEF Inv, SoundStore

LEMMA SaveStateRootStep ==
  ASSUME Inv, SaveStateRoot PROVE Inv'
  <1> DEFINE c == compute_state_root
  <1>1. /\ committer.pc = "apply" /\ committer.next > Len(committer.body)
        /\ state' = [state EXCEPT !.versions = Put(@, committer.height, c)]
        /\ UNCHANGED <<durable, accountCache, announced, crashes>>
    BY Zenon DEF SaveStateRoot
  <1>2. \/ /\ disk' = [disk EXCEPT !.roots = Put(@, committer.height, c)]
           /\ committer' = [committer EXCEPT !.pc = "root"]
           /\ UNCHANGED ledgerFaults
        \/ GiveUp /\ UNCHANGED disk
    BY Zenon DEF SaveStateRoot
  <1>3. /\ Typed /\ StoredFresh /\ Staged /\ BodyShown /\ ViewSound /\ SoundStore(disk)
        /\ committer.body \in Bodies /\ committer.height \in Heights
        /\ committer.height \in Nat /\ disk.height \in Nat /\ committer.height <= disk.height + 1
    BY <1>1, Fields DEF Inv, Staged, Heights
  <1>4. c \in AccountMaps
    <2>1. state.root \in AccountMaps /\ state.dirty \in AccountMaps /\ state.cache \in AccountMaps
      BY <1>3, Fields, Zenon
    <2>2. QED
      BY <2>1, AccountOver, Zenon DEF compute_state_root, Covers
  <1> HIDE DEF c
  <1>5. \A m \in RootMaps : /\ Put(m, committer.height, c) \in RootMaps
                            /\ DOMAIN Put(m, committer.height, c) = DOMAIN m \cup {committer.height}
    <2>1. committer.height \in Heights
      BY <1>3, Zenon
    <2>2. QED
      BY <1>4, <2>1, RootPut, Zenon
  <1>6. /\ state'.versions = Put(state.versions, committer.height, c)
        /\ state'.cache = state.cache /\ state'.dirty = state.dirty
        /\ state'.root = state.root /\ state'.height = state.height
    BY <1>1, <1>3, Zenon DEF Typed, States
  <1>7. /\ state' \in States
        /\ DOMAIN state'.versions = DOMAIN state.versions \cup {committer.height}
    BY <1>1, <1>3, <1>5, <1>6, Fields, Zenon DEF Typed, States
  <1>8. CASE GiveUp /\ UNCHANGED disk
    <2>1. /\ committer'.pc = "idle" /\ committer'.height = committer.height
          /\ committer' \in Engines /\ ledgerFaults' \in 0 .. LedgerMaxFaults
      BY <1>3, <1>8, GaveUp, Zenon
    <2>2. View' = View
      BY <1>1, <1>6, <1>8, <2>1, Zenon DEF View
    <2>3. Typed' /\ Staged'
      BY <1>1, <1>3, <1>6, <1>7, <1>8, <2>1, Zenon DEF Typed, Staged, AtMostOneUnsaved
    <2>4. ViewSound'
      BY <1>1, <1>3, <1>6, <1>8, <2>2, Zenon DEF ViewSound, Usable, Balanced
    <2>5. StoredFresh' /\ BodyShown'
      BY <1>1, <1>3, <1>8, <2>1, Zenon DEF StoredFresh, BodyShown
    <2>6. QED
      BY <1>1, <1>8, <2>3, <2>4, <2>5, Zenon DEF Inv, SoundStore
  <1>9. CASE /\ disk' = [disk EXCEPT !.roots = Put(@, committer.height, c)]
             /\ committer' = [committer EXCEPT !.pc = "root"]
             /\ UNCHANGED ledgerFaults
    <2>1. /\ disk'.roots = Put(disk.roots, committer.height, c) /\ disk'.accounts = disk.accounts
          /\ disk'.blocks = disk.blocks /\ disk'.height = disk.height
          /\ committer'.pc = "root" /\ committer'.height = committer.height
          /\ committer'.body = committer.body /\ committer' \in Engines
      BY <1>3, <1>9, Zenon DEF Typed, Disks, Engines
    <2>2. disk' \in Disks /\ DOMAIN disk'.roots = DOMAIN disk.roots \cup {committer.height}
      BY <1>3, <1>5, <1>9, <2>1, Fields, Zenon DEF Typed, Disks
    <2>3. View' = View
      BY <1>1, <1>6, <2>1, Zenon DEF View
    <2>4. Typed'
      BY <1>1, <1>3, <1>7, <1>9, <2>1, <2>2, Zenon DEF Typed
    <2>5. Staged'
      BY <1>1, <1>3, <1>6, <1>7, <2>1, <2>2, Zenon DEF Staged, FollowsState, AtMostOneUnsaved
    <2>6. SoundStore(disk')
      BY <1>3, <2>1, <2>2, Zenon DEF SoundStore, Balanced, OnBoth
    <2>7. ViewSound'
      BY <1>1, <1>3, <1>6, <2>1, <2>3, Zenon DEF ViewSound, Usable, Balanced
    <2>8. StoredFresh'
      BY <1>1, <1>3, <2>1, Zenon DEF StoredFresh
    <2>9. BodyShown'
      <3>1. committer.body \in Seq(Transfers) /\ committer.next \in Nat
        BY <1>3, Fields, LedgerAssumption, Zenon
      <3>2. \A i \in DOMAIN committer.body : i < committer.next
        BY <1>1, <3>1
      <3>3. \A i \in DOMAIN committer.body : OnBoth(View, committer.body[i])
        BY <1>1, <1>3, <3>2, Zenon DEF BodyShown
      <3>4. QED
        BY <2>1, <2>3, <3>3, Zenon DEF BodyShown, OnBoth
    <2>10. QED
      BY <1>1, <2>4, <2>5, <2>6, <2>7, <2>8, <2>9, Zenon DEF Inv, SoundStore
  <1>10. QED
    BY <1>2, <1>8, <1>9, Zenon

LEMMA TakeDirtyStep ==
  ASSUME Inv, TakeDirty PROVE Inv'
  <1>1. /\ committer.pc = "root"
        /\ state' = [state EXCEPT !.root = get_version(committer.height),
                                  !.height = committer.height, !.dirty = Empty]
        /\ committer' = [committer EXCEPT !.pc = AfterTake(state.dirty), !.batch = state.dirty]
        /\ UNCHANGED <<disk, durable, accountCache, announced, ledgerFaults, crashes>>
    BY Zenon DEF TakeDirty
  <1>2. /\ Typed /\ Staged /\ ViewSound /\ BodyShown
        /\ committer.height \in Heights /\ committer.body \in Bodies
        /\ committer.height \in DOMAIN disk.roots
        /\ committer.height \in Nat /\ disk.height \in Nat /\ committer.height <= disk.height + 1
    BY <1>1, Fields DEF Inv, Staged, Heights
  <1>3. get_version(committer.height) \in AccountMaps
    <2>1. /\ \A h \in DOMAIN state.versions : state.versions[h] \in AccountMaps
          /\ \A h \in DOMAIN disk.roots : disk.roots[h] \in AccountMaps
      BY <1>2, Fields, RootElim, Zenon
    <2>2. QED
      BY <1>2, <2>1, Zenon DEF get_version, Over
  <1>4. Empty \in AccountMaps /\ state.dirty \in AccountMaps
    BY <1>2, EmptyMap, Fields, Zenon DEF AccountMaps
  <1>5. /\ state'.cache = state.cache /\ state'.dirty = Empty
        /\ state'.versions = state.versions /\ state'.height = committer.height
        /\ committer'.height = committer.height /\ committer'.body = committer.body
        /\ committer'.pc = AfterTake(state.dirty) /\ committer'.batch = state.dirty
    BY <1>1, <1>2, Zenon DEF Typed, States, Engines
  <1>6. committer'.pc \in {"batch", "block"} /\ (committer'.pc = "block" => state.dirty = Empty)
    BY <1>5, Zenon DEF AfterTake
  <1>7. Typed'
    <2>1. committer.height \in 0 .. LedgerMaxHeight
      BY <1>2 DEF Heights
    <2> state' \in States
      BY <1>1, <1>2, <1>3, <1>4, <2>1, Zenon DEF Typed, States
    <2>2. committer' \in Engines
      BY <1>1, <1>2, <1>4, <1>5, <1>6, Zenon DEF Typed, Engines
    <2>3. QED
      BY <1>1, <1>2, <2>1, <2>2, Zenon DEF Typed
  <1>8. Staged'
    BY <1>1, <1>2, <1>5, <1>6, Zenon DEF Staged, AtMostOneUnsaved
  <1>9. View' = View
    BY <1>1, <1>5, <1>6, Zenon DEF View
  <1>10. ViewSound'
    BY <1>1, <1>2, <1>5, <1>9, Zenon DEF ViewSound, Usable, Balanced
  <1>11. BodyShown'
    BY <1>1, <1>2, <1>5, <1>6, <1>9, Zenon DEF BodyShown, OnBoth
  <1>12. QED
    BY <1>1, <1>7, <1>8, <1>10, <1>11, Zenon DEF Inv, SoundStore, StoredFresh

\* A write that fails once the state has taken the block's height: the engine
\* stays at the height that apply_block now refuses.
LEMMA FailedSave ==
  ASSUME Inv, committer.pc \in {"batch", "block", "meta"}, GiveUp,
         disk' \in Disks, SoundStore(disk'), disk'.accounts = disk.accounts,
         disk'.height \in {disk.height, committer.height},
         UNCHANGED <<durable, accountCache, state, announced, crashes>>
  PROVE  Inv'
  <1>1. /\ Typed /\ Staged /\ StoredFresh
        /\ state.height = committer.height
        /\ committer.height \in Nat /\ disk.height \in Nat
        /\ committer.height \in {disk.height, disk.height + 1}
    BY Fields DEF Inv, Staged
  <1>2. /\ committer'.pc = "idle" /\ committer'.height = committer.height
        /\ committer' \in Engines /\ ledgerFaults' \in 0 .. LedgerMaxFaults
    BY <1>1, GaveUp, Zenon
  <1>3. Typed'
    BY <1>1, <1>2, Zenon DEF Typed
  <1>4. Staged'
    <2>1. DOMAIN state.versions \subseteq Nat
      BY <1>1, Fields, RootElim, Zenon
    <2>2. /\ disk'.height \in Nat /\ disk.height <= disk'.height
          /\ committer.height \in {disk'.height, disk'.height + 1}
      BY <1>1
    <2>3. QED
      BY <1>1, <1>2, <2>1, <2>2 DEF Staged, AtMostOneUnsaved
  <1>5. ViewSound'
    <2>1. ~Usable'
      BY <1>1, <1>2 DEF Usable, FollowsState
    <2>2. QED
      BY <2>1, Zenon DEF ViewSound, Balanced
  <1>6. StoredFresh' /\ BodyShown'
    BY <1>1, <1>2, Zenon DEF StoredFresh, BodyShown
  <1>7. QED
    BY <1>3, <1>4, <1>5, <1>6, Zenon DEF Inv, SoundStore

LEMMA WriteBatchStep ==
  ASSUME Inv, WriteBatch PROVE Inv'
  <1>1. committer.pc = "batch" /\ UNCHANGED <<durable, state, announced, crashes>>
    BY Zenon DEF WriteBatch
  <1>2. /\ Typed /\ Staged /\ ViewSound /\ BodyShown /\ StoredFresh /\ SoundStore(disk)
        /\ Balanced(View) /\ state.dirty = Empty /\ committer.body \in Bodies
        /\ \A a \in DOMAIN disk.accounts : disk.accounts[a] \subseteq View[a]
        /\ \A a \in DOMAIN state.cache : a \in DOMAIN View /\ state.cache[a] = View[a]
    BY <1>1, Zenon DEF Inv, Staged, ViewSound, Usable
  <1>3. CASE GiveUp /\ UNCHANGED <<disk, accountCache>>
    BY <1>1, <1>2, <1>3, FailedSave, Zenon DEF Typed, Inv
  <1>4. CASE /\ disk' = [disk EXCEPT !.accounts = Over(committer.batch, @)]
             /\ accountCache' = Over(committer.batch, accountCache)
             /\ committer' = [committer EXCEPT !.pc = "block", !.batch = Empty]
             /\ UNCHANGED ledgerFaults
    <2>1. committer.batch \in AccountMaps /\ disk.accounts \in AccountMaps /\ accountCache \in AccountMaps
      BY <1>2, Fields, Zenon
    <2>2. Empty \in AccountMaps /\ DOMAIN Empty = {}
      BY EmptyMap, Zenon DEF AccountMaps
    <2>3. /\ disk'.accounts = View /\ disk'.blocks = disk.blocks /\ disk'.roots = disk.roots
          /\ disk'.height = disk.height
          /\ committer'.pc = "block" /\ committer'.height = committer.height
          /\ committer'.body = committer.body /\ committer' \in Engines
      BY <1>1, <1>2, <1>4, <2>2, Zenon DEF Typed, Disks, Engines, View
    <2>4. Covers(View, committer.batch, disk.accounts)
      BY <1>1, <1>2, BatchView, Zenon
    <2>5. Covers(accountCache', committer.batch, accountCache)
      BY <1>4, <2>1, AccountOver, Zenon
    <2>6. Covers(View', Empty, View)
      <3>1. View' = Over(Empty, View)
        BY <1>1, <1>2, <2>3, Zenon DEF View
      <3>2. View \in AccountMaps
        BY <2>4, Zenon DEF Covers
      <3>3. QED
        BY <2>2, <3>1, <3>2, AccountOver, Zenon
    <2>7. DOMAIN View' = DOMAIN View /\ \A a \in DOMAIN View : View'[a] = View[a]
      BY <2>2, <2>6, Zenon DEF Covers
    <2>8. Typed'
      <3>1. disk' \in Disks
        BY <1>2, <1>4, <2>3, <2>4, Zenon DEF Typed, Disks, Covers
      <3>2. QED
        BY <1>1, <1>2, <1>4, <2>3, <2>5, <3>1, Zenon DEF Typed, Covers
    <2>9. Staged'
      BY <1>1, <1>2, <2>3, Zenon DEF Staged, AtMostOneUnsaved
    <2>10. SoundStore(disk')
      <3>1. \A h \in DOMAIN disk.blocks : \A i \in DOMAIN disk.blocks[h] : OnBoth(View, disk.blocks[h][i])
        BY <1>2, <2>4 DEF SoundStore, OnBoth, Covers
      <3>2. QED
        BY <1>2, <2>3, <3>1, ZenonT(60) DEF SoundStore
    <2>11. ViewSound'
      <3>1. Balanced(View')
        BY <1>2, <2>7, Zenon DEF Balanced
      <3>2. \A a \in DOMAIN state'.cache : a \in DOMAIN View' /\ state'.cache[a] = View'[a]
        BY <1>1, <1>2, <2>7, Zenon
      <3>3. QED
        BY <2>3, <2>7, <3>1, <3>2, Zenon DEF ViewSound, Balanced
    <2>12. StoredFresh'
      BY <1>2, <2>3, <2>4, <2>5, ZenonT(60) DEF StoredFresh, Covers
    <2>13. BodyShown'
      BY <1>1, <1>2, <2>3, <2>7 DEF BodyShown, OnBoth
    <2>14. QED
      BY <1>1, <2>8, <2>9, <2>10, <2>11, <2>12, <2>13, Zenon DEF Inv, SoundStore
  <1>5. QED
    BY <1>3, <1>4, Zenon DEF WriteBatch

\* With nothing dirty, what is on disk is the View.
LEMMA NothingDirty ==
  ASSUME Typed, committer.pc # "batch", state.dirty = Empty
  PROVE  DOMAIN View = DOMAIN disk.accounts /\ \A a \in DOMAIN View : View[a] = disk.accounts[a]
  <1>1. DOMAIN Empty = {}
    BY Zenon DEF Empty
  <1>2. QED
    BY <1>1, DirtyView, Zenon DEF Covers

LEMMA SaveBlockStep ==
  ASSUME Inv, SaveBlock PROVE Inv'
  <1>1. committer.pc = "block" /\ UNCHANGED <<durable, accountCache, state, announced, crashes>>
    BY Zenon DEF SaveBlock
  <1>2. /\ Typed /\ Staged /\ ViewSound /\ BodyShown /\ StoredFresh /\ SoundStore(disk)
        /\ state.dirty = Empty /\ committer.body \in Bodies /\ committer.height \in Heights
        /\ committer.height \in DOMAIN disk.roots
    BY <1>1, Zenon DEF Inv, Staged
  <1>3. CASE GiveUp /\ UNCHANGED disk
    BY <1>1, <1>2, <1>3, FailedSave, Zenon DEF Typed, Inv
  <1>4. CASE /\ disk' = WrittenAt(disk, committer.pc, committer.height, committer.body)
             /\ committer' = [committer EXCEPT !.pc = "meta"]
             /\ UNCHANGED ledgerFaults
    <2>1. disk' = [disk EXCEPT !.blocks = Put(@, committer.height, committer.body)]
      BY <1>1, <1>4, Zenon DEF WrittenAt
    <2>2. /\ disk'.blocks = Put(disk.blocks, committer.height, committer.body)
          /\ disk'.accounts = disk.accounts /\ disk'.roots = disk.roots
          /\ disk'.height = disk.height
          /\ committer'.pc = "meta" /\ committer'.height = committer.height
          /\ committer'.body = committer.body /\ committer' \in Engines
      BY <1>2, <1>4, <2>1, Zenon DEF Typed, Disks, Engines
    <2>3. Stores(disk'.blocks, disk.blocks, committer.height, committer.body)
      <3>1. disk.blocks \in BlockMaps /\ committer.body \in BodySet
        BY <1>2, Fields, Zenon
      <3>2. QED
        BY <1>2, <2>2, <3>1, BlockPut, Zenon
    <2>4. View' = View
      BY <1>1, <2>2, Zenon DEF View
    <2>5. Typed'
      <3>1. disk' \in Disks
        BY <1>2, <2>1, <2>2, <2>3, Zenon DEF Typed, Disks, Stores
      <3>2. QED
        BY <1>1, <1>2, <1>4, <2>2, <3>1, Zenon DEF Typed
    <2>6. Staged'
      BY <1>1, <1>2, <2>2, <2>3, Zenon DEF Staged, AtMostOneUnsaved, Stores
    <2>7. SoundStore(disk')
      <3>1. \A i \in DOMAIN committer.body : OnBoth(disk.accounts, committer.body[i])
        BY <1>1, <1>2, NothingDirty, Zenon DEF BodyShown, OnBoth
      <3>2. \A h \in DOMAIN disk'.blocks : \A i \in DOMAIN disk'.blocks[h] :
               OnBoth(disk.accounts, disk'.blocks[h][i])
        BY <1>2, <2>3, <3>1, Zenon DEF SoundStore, Stores
      <3>3. QED
        BY <1>2, <2>2, <2>3, <3>2, Zenon DEF SoundStore, Stores
    <2>8. ViewSound'
      BY <1>1, <1>2, <2>2, <2>4, Zenon DEF ViewSound, Usable, Balanced
    <2>9. StoredFresh' /\ BodyShown'
      BY <1>1, <1>2, <2>2, <2>4, Zenon DEF StoredFresh, BodyShown, OnBoth
    <2>10. QED
      BY <1>1, <2>5, <2>6, <2>7, <2>8, <2>9, Zenon DEF Inv, SoundStore
  <1>5. QED
    BY <1>3, <1>4, Zenon DEF SaveBlock

LEMMA SaveHeightStep ==
  ASSUME Inv, SaveHeight PROVE Inv'
  <1>1. committer.pc = "meta" /\ UNCHANGED <<durable, accountCache, state, crashes>>
    BY Zenon DEF SaveHeight
  <1>2. /\ Typed /\ Staged /\ ViewSound /\ StoredFresh /\ SoundStore(disk)
        /\ state.dirty = Empty /\ committer.body \in Bodies /\ committer.height \in Heights
        /\ committer.height \in DOMAIN disk.blocks /\ state.height = committer.height
        /\ committer.height \in {disk.height, disk.height + 1}
    BY <1>1, Zenon DEF Inv, Staged
  <1>3. committer.height \in 0 .. LedgerMaxHeight /\ committer.height \in Nat /\ disk.height \in Nat
    BY <1>2, Fields DEF Heights
  <1> DEFINE d == WrittenAt(disk, committer.pc, committer.height, committer.body)
  <1>4. d = [disk EXCEPT !.height = committer.height]
    BY <1>1, Zenon DEF WrittenAt
  <1>5. /\ d \in Disks /\ d.height = committer.height /\ d.accounts = disk.accounts
        /\ d.blocks = disk.blocks /\ d.roots = disk.roots
    BY <1>2, <1>3, <1>4, Zenon DEF Typed, Disks
  <1> HIDE DEF d
  <1>6. SoundStore(d)
    <2>1. DOMAIN disk.roots \subseteq Nat
      BY <1>2, Fields, RootElim, Zenon
    <2>2. \A h \in DOMAIN d.roots : h <= d.height + 1
      BY <1>2, <1>3, <1>5, <2>1 DEF SoundStore
    <2>3. QED
      BY <1>2, <1>5, <2>2, Zenon DEF SoundStore
  <1>7. CASE GiveUp /\ disk' \in {disk, d} /\ UNCHANGED announced
    BY <1>1, <1>2, <1>5, <1>6, <1>7, FailedSave, Zenon DEF Typed
  <1>8. CASE /\ disk' = d
             /\ announced' = announced \cup {<<committer.height, committer.body>>}
             /\ committer' = FreshEngine(committer.height + 1)
             /\ UNCHANGED ledgerFaults
    <2>1. /\ committer'.pc = "idle" /\ committer'.height = committer.height + 1 /\ committer' \in Engines
      <3>1. Empty \in AccountMaps /\ committer.height + 1 \in 0 .. LedgerMaxHeight + 1
        BY <1>3, EmptyMap, LedgerAssumption DEF AccountMaps
      <3>2. QED
        BY <1>8, <3>1, Zenon DEF FreshEngine, Engines, BodySet
    <2>2. Typed'
      BY <1>1, <1>2, <1>5, <1>8, <2>1 DEF Typed
    <2>3. Staged'
      <3>1. DOMAIN state.versions \subseteq Nat
        BY <1>2, Fields, RootElim, Zenon
      <3>2. QED
        BY <1>1, <1>2, <1>3, <1>5, <1>8, <2>1, <3>1 DEF Staged, AtMostOneUnsaved
    <2>4. View' = View
      BY <1>1, <1>5, <1>8, <2>1, Zenon DEF View
    <2>5. ViewSound'
      BY <1>1, <1>2, <1>5, <1>8, <2>4, Zenon DEF ViewSound, Usable, Balanced
    <2>6. StoredFresh' /\ BodyShown'
      BY <1>1, <1>2, <1>5, <1>8, <2>1, Zenon DEF StoredFresh, BodyShown
    <2>7. QED
      BY <1>1, <1>6, <1>8, <2>2, <2>3, <2>5, <2>6, Zenon DEF Inv, SoundStore
  <1>9. QED
    BY <1>7, <1>8, Zenon DEF SaveHeight, d

-----------------------------------------------------------------------------
(* Reverts, write-back and restarts. *)

LEMMA RevertToHeightStep ==
  ASSUME Inv, RevertToHeight PROVE Inv'
  <1>1. PICK h \in KnownVersions :
          state' = [state EXCEPT !.cache = Empty, !.dirty = Empty,
                                 !.root = get_version(h), !.height = h]
    BY Zenon DEF RevertToHeight
  <1>2. /\ committer.pc = "idle" /\ crashes < MaxCrashes /\ crashes' = crashes + 1
        /\ UNCHANGED <<disk, durable, accountCache, committer, announced, ledgerFaults>>
    BY Zenon DEF RevertToHeight
  <1>3. Typed /\ Staged /\ StoredFresh /\ SoundStore(disk)
    BY Zenon DEF Inv
  <1>4. state.versions \in RootMaps /\ disk.roots \in RootMaps
    BY <1>3, Fields, Zenon
  <1>5. /\ h \in Heights /\ h <= disk.height + 1 /\ get_version(h) \in AccountMaps
    <2>1. /\ \A x \in DOMAIN state.versions : x \in Heights /\ state.versions[x] \in AccountMaps
          /\ \A x \in DOMAIN disk.roots : x \in Heights /\ disk.roots[x] \in AccountMaps
      BY <1>4, RootElim, Zenon
    <2>2. h <= disk.height + 1
      BY <1>3, Zenon DEF KnownVersions, Staged, SoundStore
    <2>3. QED
      BY <2>1, <2>2, Zenon DEF KnownVersions, get_version, Over
  <1>6. Empty \in AccountMaps /\ DOMAIN Empty = {}
    BY EmptyMap, Zenon DEF AccountMaps
  <1>7. /\ state'.cache = Empty /\ state'.dirty = Empty /\ state'.height = h
        /\ state'.versions = state.versions
    BY <1>1, <1>3, Zenon DEF Typed, States
  <1>8. Typed'
    <2>1. h \in 0 .. LedgerMaxHeight
      BY <1>5 DEF Heights
    <2>2. state' \in States
      BY <1>1, <1>3, <1>5, <1>6, <2>1, Zenon DEF Typed, States
    <2>3. crashes' \in 0 .. MaxCrashes
      BY <1>2, <1>3, LedgerAssumption DEF Typed
    <2>4. QED
      BY <1>2, <1>3, <2>2, <2>3, Zenon DEF Typed
  <1>9. Staged'
    BY <1>2, <1>3, <1>5, <1>7, Zenon DEF Staged, AtMostOneUnsaved
  <1>10. DOMAIN View' = DOMAIN disk.accounts /\ \A a \in DOMAIN View' : View'[a] = disk.accounts[a]
    BY <1>2, <1>6, <1>7, Zenon DEF View, Over
  <1>11. ViewSound'
    <2>1. Balanced(View')
      BY <1>3, <1>10, Zenon DEF SoundStore, Balanced
    <2>2. QED
      BY <1>2, <1>6, <1>7, <1>10, <2>1, Zenon DEF ViewSound, Balanced
  <1>12. StoredFresh' /\ BodyShown'
    BY <1>2, <1>3, Zenon DEF StoredFresh, BodyShown
  <1>13. QED
    BY <1>2, <1>8, <1>9, <1>11, <1>12, Zenon DEF Inv, SoundStore

LEMMA WriteBackStep ==
  ASSUME Inv, WriteBack PROVE Inv'
  <1>1. /\ durable' = disk
        /\ UNCHANGED <<disk, accountCache, state, committer, announced, ledgerFaults, crashes>>
    BY Zenon DEF WriteBack
  <1>2. Typed' /\ Staged'
    BY <1>1, ZenonT(60) DEF Inv, Typed, Staged, FollowsState, AtMostOneUnsaved
  <1>3. ViewSound' /\ StoredFresh' /\ BodyShown'
    BY <1>1 DEF Inv, ViewSound, StoredFresh, BodyShown, View, Usable, FollowsState, Balanced, OnBoth
  <1>4. QED
    BY <1>1, <1>2, <1>3, Zenon DEF Inv, SoundStore

LEMMA RestartStep ==
  ASSUME Inv, NEW d \in Disks, SoundStore(d), RestartOn(d), UNCHANGED durable
  PROVE  Inv'
  <1>1. /\ (disk \in Disks /\ SoundStore(disk) /\ accountCache = Empty /\ state = FreshState
            /\ committer = FreshEngine(disk.height) /\ durable \in Disks /\ SoundStore(durable)
            /\ announced \subseteq Heights \X Bodies
            /\ ledgerFaults \in 0 .. LedgerMaxFaults /\ crashes \in 0 .. MaxCrashes)'
    <2>1. /\ disk' = d /\ durable' = durable /\ accountCache' = Empty /\ state' = FreshState
          /\ committer' = FreshEngine(d.height) /\ announced' = announced /\ ledgerFaults' = ledgerFaults
          /\ crashes < MaxCrashes /\ crashes' = crashes + 1
      BY Zenon DEF RestartOn
    <2>2. /\ durable \in Disks /\ SoundStore(durable) /\ announced \subseteq Heights \X Bodies
          /\ ledgerFaults \in 0 .. LedgerMaxFaults /\ crashes \in 0 .. MaxCrashes
      BY Zenon DEF Inv, Typed
    <2>3. crashes' \in 0 .. MaxCrashes
      BY <2>1, <2>2, LedgerAssumption
    <2>4. SoundStore(disk)' /\ SoundStore(durable)'
      BY <2>1, <2>2, Zenon DEF SoundStore
    <2>5. QED
      BY <2>1, <2>2, <2>3, <2>4, Zenon
  <1>2. QED
    BY <1>1, Restart, PTL

-----------------------------------------------------------------------------
(* The theorems. *)

LEMMA NextInv == Inv /\ [LedgerNext]_ledgerVars => Inv'
  <1> SUFFICES ASSUME Inv, [LedgerNext]_ledgerVars PROVE Inv'
    BY Zenon
  <1>1. CASE BeginApply
    BY <1>1, BeginApplyStep, Zenon
  <1>2. CASE ApplyTransfer
    BY <1>2, ApplyTransferStep, Zenon
  <1>3. CASE RejectTransfer
    BY <1>3, RejectTransferStep, Zenon
  <1>4. CASE SaveStateRoot
    BY <1>4, SaveStateRootStep, Zenon
  <1>5. CASE TakeDirty
    BY <1>5, TakeDirtyStep, Zenon
  <1>6. CASE WriteBatch
    BY <1>6, WriteBatchStep, Zenon
  <1>7. CASE SaveBlock
    BY <1>7, SaveBlockStep, Zenon
  <1>8. CASE SaveHeight
    BY <1>8, SaveHeightStep, Zenon
  <1>9. CASE RevertToHeight
    BY <1>9, RevertToHeightStep, Zenon
  <1>10. CASE WriteBack
    BY <1>10, WriteBackStep, Zenon
  <1>11. CASE Crash
    BY <1>11, RestartStep, Zenon DEF Crash, Inv, Typed
  <1>12. CASE PowerFailure
    BY <1>12, RestartStep, Zenon DEF PowerFailure, Inv, Typed
  <1>13. CASE UNCHANGED ledgerVars
    <2>1. UNCHANGED <<disk, durable, accountCache, state, committer, announced, ledgerFaults, crashes>>
      BY <1>13, Zenon DEF ledgerVars
    <2>2. Typed' /\ Staged'
      BY <2>1, ZenonT(60) DEF Inv, Typed, Staged, FollowsState, AtMostOneUnsaved
    <2>3. ViewSound' /\ StoredFresh' /\ BodyShown'
      BY <2>1 DEF Inv, ViewSound, StoredFresh, BodyShown, View, Usable, FollowsState, Balanced, OnBoth
    <2>4. QED
      BY <2>1, <2>2, <2>3, Zenon DEF Inv, SoundStore
  <1>14. QED
    BY <1>1, <1>2, <1>3, <1>4, <1>5, <1>6, <1>7, <1>8, <1>9, <1>10, <1>11, <1>12, <1>13, Zenon DEF LedgerNext

\* The ledger's invariant, for any number of failed writes, crashes, power
\* failures and reverts: the argument of this module.
THEOREM Invariant == LedgerSpec => []Inv
  BY InitInv, NextInv, PTL DEF LedgerSpec

\* Every variable of the ledger keeps its type: what RocksDB returns, both
\* caches, the StateManager and the commit_block in progress.
THEOREM TypeCorrect == LedgerSpec => []LedgerTypeOK
  <1>1. Inv => LedgerTypeOK
    <2> SUFFICES ASSUME Typed PROVE LedgerTypeOK
      BY Zenon DEF Inv
    <2>1. \A f \in AccountMaps : IsAccountMap(f)
      BY AccountElim, Zenon DEF IsAccountMap
    <2>2. \A f \in RootMaps : IsRootMap(f)
      BY <2>1, RootElim, Zenon DEF IsRootMap
    <2>3. \A d \in Disks : /\ IsAccountMap(d.accounts) /\ IsRootMap(d.roots)
                           /\ DOMAIN d.blocks \subseteq Heights
                           /\ \A h \in DOMAIN d.blocks : d.blocks[h] \in Bodies \cup {<<>>}
                           /\ d.height \in 0 .. LedgerMaxHeight
      BY <2>1, <2>2, MapElim DEF Disks, BlockMaps, BodySet
    <2>4. QED
      BY <2>1, <2>2, <2>3, Zenon DEF Typed, LedgerTypeOK, States, Engines, BodySet
  <1>2. QED
    BY <1>1, Invariant, PTL

\* Whenever the process or the machine dies, the height the storage reports
\* names a block it holds together with its state root (save_block after
\* save_state_root, the height last).
THEOREM TipAlwaysRecoverable == LedgerSpec => []RecoverableTip
  <1>1. Inv => RecoverableTip
    BY Zenon DEF Inv, SoundStore, RecoverableTip
  <1>2. QED
    BY <1>1, Invariant, PTL

\* No debit is ever on the medium without its credit: apply_transfer works in
\* memory and write_batch writes both accounts at once.
THEOREM TransfersAlwaysAtomic == LedgerSpec => []TransferAtomic
  <1>1. Inv => TransferAtomic
    BY ZenonT(60) DEF Inv, SoundStore, Balanced, TransferAtomic
  <1>2. QED
    BY <1>1, Invariant, PTL

\* The transfers of every stored block are in the stored accounts, after any
\* failures, restarts and reverts.
THEOREM StoredBlocksAlwaysApplied == LedgerSpec => []StoredBlockApplied
  <1>1. Inv => StoredBlockApplied
    BY DEF Inv, SoundStore, OnBoth, StoredBlockApplied
  <1>2. QED
    BY <1>1, Invariant, PTL

\* The StateManager is never more than one block ahead of the storage.
THEOREM NeverTwoUnsaved == LedgerSpec => []AtMostOneUnsaved
  <1>1. Inv => AtMostOneUnsaved
    BY Zenon DEF Inv, Staged
  <1>2. QED
    BY <1>1, Invariant, PTL
=============================================================================
