# Verification of Pacyte Nexus

TLA+ models of the node (`src/`), of its ledger and network, and of the Solidity
contracts (`contracts/`); TLC runs that check them on small instances; and TLAPS
proofs that hold for every value of the constants. `PROJECT.json` lists
components, runs, mutants, the map from definitions to source lines, findings,
hazards and theorems.

Paths below are relative to the repository root.

## 1. The system and its parts

| Part | Source | Module |
|---|---|---|
| consensus engine | `src/consensus/engine.rs` | `ConsensusEngine` |
| validator manager, Titan node | `src/consensus/validator.rs` | `Validators` |
| safety rules, vote manager, vote aggregator | `src/consensus/safety.rs`, `vote.rs` | `SafetyRules` (extends `Validators`) |
| round manager, pacemaker | `src/consensus/round.rs`, `pacemaker.rs` | `Rounds` |
| sentinel | `src/consensus/sentinel.rs` | `Sentinel` |
| shard bridge | `src/vault/bridge.rs` | `Bridge`, `BridgeOutcome` |
| vault manager, supply phases | `src/vault/manager.rs`, `mod.rs` | `Vault` |
| dormancy, burn, fee managers, sovereign hook | `src/vault/dormancy.rs`, `burn.rs`, `fee.rs`, `sovereign.rs` | `VaultBooks` (extends `Vault`) |
| mempool | `src/mempool/pool.rs`, `validator.rs` | `Mempool` |
| mempool pruning and ordering | `src/mempool/pruning.rs`, `ordering.rs` | `PoolTools` |
| state manager, storage | `src/storage/state.rs`, `rocksdb.rs` | `Ledger`, `LedgerReaders` |
| write-ahead log, snapshots, caches | `src/storage/wal.rs`, `snapshot.rs`, `cache.rs` | `Wal`, `WalRecovery`, `Snapshots`, `Caches` |
| Merkle trees | `src/crypto/merkle.rs` | `Merkle` |
| virtual machine, gas | `src/execution/vm.rs`, `gas.rs` | `Vm` |
| executors | `src/execution/executor.rs`, `mod.rs` | `Executor` (extends `Vm`) |
| contract registry | `src/execution/contract.rs` | `ContractRegistry` |
| WASM runtime, precompiles | `src/execution/wasm_runtime.rs`, `precompiles.rs` | `Runtimes` |
| REST and RPC handlers | `src/api/rest.rs`, `rpc.rs`, `mod.rs` | `Api` |
| rate limiter, keys, metrics | `src/api/middleware.rs` | `ApiGate` |
| WebSocket server | `src/api/websocket.rs` | `WebSockets` |
| network | `src/network/peer.rs`, `p2p.rs` | `Network` |
| contracts | `contracts/*.sol` | `Contracts` |

How they interact: the engine selects transactions from the mempool, proposes a
block, counts votes, and on a precommit quorum calls `StateManager::apply_block`
and `Storage::save_block`, then `mempool.cleanup`. The engine and the sentinel
subscribe to the network; the WebSocket server would, but the calls that start the API
servers are commented out (`src/api/mod.rs:121-143`). Mempool validation and the API read
accounts through the state manager while the engine applies blocks. The bridge is
driven by clients, operators and a background reaper. The executor runs the virtual
machine and calls the vault; the safety rules slash through the validator manager.
The Solidity contracts share one token.

Where the parts meet, the boundary is modelled: `Ledger` contains the engine's
commit path, `Mempool` the engine's select/commit/cleanup cycle, `Network` the engine
and sentinel as subscribers, `ConsensusEngine` each engine's storage and state
manager height, `Executor` the machine it runs and the vault's transfer,
`SafetyRules` the validator manager, `Snapshots` and `Api` a node that goes on storing
blocks. `Contracts` composes the four contracts.

Several parts are used by tests or by other code than the node's `main`: safety
rules, vote manager, round manager, pacemaker, the vault's books, log, snapshots,
caches, executor, runtimes and API servers; the rate limiter is built and not layered
on any route (`src/api/rest.rs:89`). They are modelled as libraries: their public
calls, from any thread, in any order.

## 2. What each module keeps

**ConsensusEngine.** One engine is one task that runs a command to its end, so one
command is one action. Operators follow the call chain and return the engine, the
broadcasts, a commit and whether `?` ended the chain. What carries messages between
engines is not in the source (the network branch of `run()` is empty): it is a pool
from which any message goes to any engine any number of times, or never. A proposal
that `validate_basic` refuses leaves the engine as it was, like one that never came. A
hash is a number; `applies` says whether the block's transactions execute.

**Validators, SafetyRules.** Each field of the manager has a lock; `register_validator`
takes them in turn and is one step per lock. Where a call asks for a lock it already
holds (`replace_validator` from a full set, a slash that rebuilds the set, `store_vote`
testing for a quorum) the lock is lost for good: `valHung`, `votesHung`,
`proposalsHung`. `safetyLog` is the history of deliveries.

**Rounds.** Height, round, state and start time are written and read one at a time,
the height and round that a timeout names included. A watcher's `quiet` flag tells
whether anything was written between its reads.

**Sentinel.** The two detectors with their bounded caches, missed blocks, saving in
three steps (as often as it is called), loading, restart, and the watching task.
`process_message` drops every message, so the detectors are driven by calls.

**Bridge.** `initiate_bridge` takes three locks in turn and is three steps; the
reaper scans, reverts and marks in separate steps. `relay_bridge`, `finalize_bridge` and
`mark_reverted` take `pending_by_shard` while they hold `bridges`, and are one step each
unless they meet `get_pending_for_shard`, which takes the two in the opposite order:
`listing` follows it from its first lock to its second, and is `"dead"` when a writer
and it wait for each other. `BridgeOutcome` is the promise: a
bridge goes from open to paid or to refunded and stays there. `OutcomeOf` maps
statuses to outcomes.

**Vault, VaultBooks.** A transfer is one step per await. The rates of `SupplyPhase` are
exact fractions with the code's phase limits, supplies in units of ten million. A
transfer that burns asks for the supply's lock twice in one statement and hangs.
The dormancy calls may be given any address, and act on a time read before they have
their locks; `passedOver` is the history of accounts that newer activity left on the
list. Dormancy keeps the total as a wrapping number.

**Mempool, PoolTools.** The four maps of the pool have a lock each. An operation changes
one at a time; the search for a transaction to replace and `select_for_block` read one
while they hold another, always in the same order. So a step is what happens between
two points where another task can intervene. A block has a limit on its number of
transactions and one on their size. The helpers are operators on lists of transactions.

**Ledger.** An account is the set of transfers applied to it, so losing half a
transfer is visible. Every write is a step that may fail; `durable` is what has
reached the medium. `LedgerReaders` adds tasks that read an account while the
engine applies blocks: the storage read and the cache insert of `get_account` are
two steps.

**Wal, Snapshots, Caches.** Each lock held over another request, each file and each
batch is a step, and the process may stop between any two. Entries are numbered, a
block is its height, the LRU map is the sequence in order of last access. A flush that
fails after it took the entries loses what it has not written, and a crash or a failure
may leave a cut record. `WalRecovery` is what `recover` gives back of the files: one
record that cannot be read makes it an error for the whole log.

**Merkle.** A hash of a pair is the pair, so hashes collide only when their inputs are
equal; the XOR of the sparse tree is the symmetric difference.

**Vm, Executor.** A word is four limbs; a limb stands for a `u64` and is also the unit
of memory. Multiplication and division keep the swapped halves of the code. The
executor keeps its account cache in front of the state, and transfers go through the
vault, which writes the state directly.

**ContractRegistry, Runtimes.** Three stores written one after the other without a
lock; one gas meter shared by concurrent WASM calls; the cost and output length of
each precompile.

**Api, ApiGate, WebSockets.** What a handler answers, given what it read when; the
list of blocks and the consensus state are read piece by piece. The time of a rate
check is read before its lock. A connection has a receive loop, a sender task and an
entry in the table, which start and end at different times; a sender task that fails
drops its channel. The broadcasting task panics once both channels it selects from are
closed.

**Network.** Each lock section of `add_peer`, `remove_peer` and the connection task
is a step. A message is its arrival number. Sending is left out: `get_peer` returns
a copy with an unconnected channel, so `send_to` changes nothing.

**Contracts.** A transaction is atomic; a failed `require` changes nothing. A bridge
request is named by what its id hashes: sender, recipient, amount, timestamp.

**Maps** has the hash maps the modules share: insert, remove, and a cache in front of what
it caches.

## 3. The runs

The three passing runs are sums of components that are checked separately: the
variable `unit` says which component lives in a behaviour, and the others keep their
initial state. So the state space is the sum of theirs and not the product. These runs
show nothing about interactions between units; interactions are inside the modules
(section 1).

`services` (`MCServices`, 0.37 million states), the tasks that never end:

| Unit | Instance | Property |
|---|---|---|
| bridge | 2 clients, 1 operator, a lister, the reaper, 2 bridges, clock to 3 | `AbstractSpec`: refinement of `BridgeOutcome`; `PendingIndex`; `BridgedTotal`; `EventuallySettled`: every bridge is settled, unless two locks taken in opposite orders stop the manager |
| network | 2 connections from one address, 2 subscribers, 2 messages, 1 administrative act | `ConnectedHasTask`: every connected peer has a task that will remove it; `OneStream`: one subscriber gets all messages in order, and eventually (`ReceivedIsDelivered`) |

`block_path` (`MCBlockPath`, 1.57 million states), from a submitted transaction to the
stored block:

| Unit | Instance | Property |
|---|---|---|
| mempool | 2 submitters, 3 transactions of one sender (one a replacement), pool of 1 | `CapacityBound`: exceeded by at most one; `IndexComplete`; `QuotaSound`: never undercounts; `SelectedInOrder`: no repeated nonce in a block |
| tools | 5 transactions of 2 senders, limit 3 | `PruneFits`: what is left fits every limit |
| requests, state | 3 heights, known and unknown arguments | none: exercises every handler |
| pages | page sizes 1 to 3, cap 2, 3 heights | `PagesSkipNoBlock`: walking the pages misses no block while the chain grows, for sizes up to the cap |
| gate | 2 threads, 4 requests, limit 2 in a window of 2 | none: exercises limiter, keys and metrics |
| websockets | 2 clients, 2 events | `WsNoGap`: no event lost, doubled or reordered while the sender runs |
| vm, executor | every opcode after 0, 1 and 2 pushes, loops; blocks of up to 2 transactions | `GasPaysForSteps`: the gas reported stays within its limit and pays for every step but the last |
| registry, wasm, precompiles | 2 threads; 5 input lengths | none (the registry's property is proved, section 4) |
| engine | 2 validators, 2 heights, 1 timeout per height, 1 fault | `OneBlockPerRound`: the votes of a round agree; `CommitNeedsTwoQuorums`: no precommit without a quorum of prevotes, no commit without one of precommits; `ChainLinked` |
| ledger | 3 heights, blocks of up to 2 transfers, 1 failed write, 1 crash, power failure or revert | `RecoverableTip`, `TransferAtomic`, `StoredBlockApplied`, `AtMostOneUnsaved` |
| snapshots | 3 heights, batches of 2, 5 calls, crashes | `ListedSnapshotComplete`, `RestoreLeavesPrefix` |
| caches | 2 threads, 4 blocks, size 1 | none: exercises every interleaving |
| merkle | lists of up to 5 leaves; updates of a tree of depth 2 | `TreesSound`: proofs verify for the leaves of the tree and only for them; the root depends on the set of updates, not their order |

`node_parts` (`MCNodeParts`, 2.5 million states), the rest:

| Unit | Instance | Property |
|---|---|---|
| contracts | 2 people, 4 contracts, 6 calls, clock to 3 | `StakesBacked`, `BridgeBacked` |
| validators | 2 racing registrations, set of 1 | `SetHoldsHighestStakes` |
| safety, votes, aggregator, titan | 2 rounds, 2 blocks, 2 deliveries, 5 voters | `SetHoldsHighestStakes` across slashes |
| rounds | 2 round changes, clock to 4 | `TimeoutDueOrTorn`: only torn reads make a timeout premature |
| sentinel, watching | 2 validators, 2 hashes, 3 messages, cache of 1, save, load, restart | `EvidenceJustified`: DoubleVote evidence names two votes of the accused |
| vault | 3 accounts, 2 users, 3 calls | none (its property is proved, section 4) |
| dormancy, books | 1 account, clock to 5; 4 bookings | `DormantBurnedOnlyAfterGrace` |
| wal | 1 appender, 2 flushers, 3 entries, buffer and file of 2, 1 crash or failing write | `WalSavesAccounted`: no saved entry is doubled, and only a crash, a failing write or a flush after close loses one |

Properties that name an exception (`EventuallySettled`, `TimeoutDueOrTorn`,
`PagesSkipNoBlock`, `DormantBurnedOnlyAfterGrace`, `WalSavesAccounted`, and
`VaultGrowsOnlyBy`, which is only proved) are exact about it: without the exception TLC
finds it. They say that the code has no other way to go wrong in that respect.

Runs that find a disagreement between the code and what the repository says of it
(quoted in `findings`):

| Run | Property | What happens |
|---|---|---|
| `engine_observer` | `Agreement` | an engine outside the validator set that missed a proposal commits the block of an earlier round |
| `engine_genesis` | `Progress` | from a store with only the genesis block, the engine proposes height 0 and the state manager wants height 1 |
| `mempool_cleanup` | `CleanupKeepsValid` | `<=` drops the transaction with the next valid nonce |
| `wal_checkpoint` | `WalCallsReturn` | `checkpoint` waits for a lock its own argument holds; an append that fills the buffer waits for one it holds itself |
| `ledger_power` | `CommittedPreserved` | announced blocks are not synced, and no log is replayed |
| `ledger_readers` | `TransferAtomic` | a reader puts a stale account back into the cache while a block is applied |
| `network_subscribers` | `EngineHears` | the sentinel takes the only receiver |
| `double_proposal` | `DoubleProposalIsTwoBlocks` | the sentinel accuses a validator of another's proposal, the safety rules slash for one delivered twice |
| `fee_shares` | `DistributedWithinFees` | late in the first supply phase the shares exceed the fees |

`TransferAtomic` holds in `block_path`, whose ledger has no concurrent readers, and fails
in `ledger_readers`, which adds them. So it is a property of the commit path under
faults and crashes, and not of a node that also serves reads. `Agreement` fails because
the block that is committed need not be the one the quorum voted for;
`CommitNeedsTwoQuorums` says what remains true.

**Bounds.** Two of each kind of process are enough for each race: every decision in
the code compares with the work of one other task. Two heights let a height inherit
what the previous one left; one timeout lets two rounds of a height overlap. Up to
three validators the code's quorum is all of them, so a quorum that leaves somebody out
does not occur in `block_path`; the engine's three properties there are proved for any
number. A pool of 1 with 2 submitters makes every capacity check contended. In the
ledger the first failure leaves dirty accounts, the second block picks them up, the
third follows a restart; the log's first number is 9 so that file numbers change their
length; batches of 2 over 4 blocks leave a restore half-way. Six contract calls cover
distribution, approval, registration, slashing and withdrawal; 55 units of supply and
burns of 10 and 20 reach all three phases; a cache of 1 forgets between two messages.
Two safety deliveries are a proposal and its repetition. A clock of 5 lets an account
become dormant, be active again while it is listed, and reach the end of its grace
period. All bounds are CONSTANTs whose comment says "bound". Deadlock checking is off
where behaviour stops because a bound is reached, a lock is lost, or the engines or the
network stop; in `block_path` it is on, and every unit but the pool may rest.

**Fairness.** All of it is weak fairness, justified by the runtime polling ready tasks.
`Bridge`: the clock, the reaper (a tokio interval task) and calls already under way;
the lister is not fair. `Network`: the forwarding task
and the start-up subscriptions. `Wal`: a thread inside a call runs on. `ConsensusEngine`:
delivery while no timeout has fired and nothing has failed. That is more than the code
gives, since it drops what comes early and sends nothing again; it is used in
`engine_genesis` only, where `Progress` fails in spite of it. The other modules have
safety properties only.

## 4. The proofs

Each theorem holds for every value of the constants that its module's assumption
allows (`EngineAssumption`, `LedgerAssumption` and so on): numbers are natural, names
that must differ differ. Three assumptions say more: the submitting tasks are finitely
many and at least one (`MempoolAssumption`), so are the people who hold tokens
(`ContractsAssumption`), and a connection has an address (`NetworkAssumption`). Each
strengthened invariant named below was also checked by TLC on the instance of its run.

`ConsensusEngine_proofs`:

- `TypeCorrect`, and `OneBlockPerRoundHolds`: all votes of one round of one height
  are for one block. The property is not inductive: a vote copies the hash of
  another message. The invariant adds that a proposal comes from the proposer of its
  height and round, which has not gone back behind it (`ProposerPast`), that a height
  and round have one proposal (`OneProposal`), and that each vote names the block of
  a proposal of its height and round (`VotesBacked`). Lemmas say what each link of
  the call chain returns.
- `CommitAlwaysNeedsTwoQuorums`: no precommit without the prevotes of more than two
  thirds of the validators, no commit at a height without as many precommits for one
  block of it. The code counts records, the property voters as a set, so a vote
  delivered twice must not count twice. The invariant (`QuorumInv`) says of the messages
  sent so far that every recorded vote is among them (`VotesIn`), that votes come from
  validators and precommits have their prevotes (`SoundIn`), and that a committed height
  has its precommits (`DecidedIn`); one lemma per link of the call chain carries it from
  the messages before the call to those after it (`Phased`).
- `ChainAlwaysLinked`: committed blocks form a chain. A proposal outlives rounds, so
  the invariant (`Linked`) relates it to the last block as well: it is never ahead of
  the engine's height, and at that height its parent is the last block.
- `SlashedOnlyForRepeat` (safety rules): each key in `seen_proposals` comes from a
  delivery, and each cut stake from a report or a repetition (`SlashInv`).
- `SetAlwaysHighest` (validator manager): a validator is in the set, or outstaked by a
  full one, or its own thread has yet to rebuild the set (`Placed`, in `SetInv`).

`Ledger_proofs`: `TypeCorrect`, `TipAlwaysRecoverable`, `TransfersAlwaysAtomic`,
`StoredBlocksAlwaysApplied`, `NeverTwoUnsaved`, for any transfers, failed writes, crashes,
power failures and reverts. Between two writes the disk alone says too little. `View` is
what the accounts will be once the block in progress is written; in it every transfer
is on both sides, and it contains the disk (`ViewSound`). Only a whole `View` is written,
and before the block is (`Staged`), so disk and medium are always stores to come up on
(`SoundStore`). After a failed write the caches may be ahead of the disk, and then
`apply_block` refuses every block until they are emptied (`Usable`).

`Mempool_proofs`: `CapacityAlwaysBounded`, `IndexAlwaysComplete`, `QuotaAlwaysSound`. The
maps change one after the other, so a transaction in the pool, one about to be
published and one about to be unindexed each have a claim on an index entry and on a
unit of the sender's counter. The invariant (`Covered`) is that entries and units are at
least as many as claims; a removal hands the pool's claim to the one caller that found
the entry. For the capacity, a task past the check counts as a transaction (`Reserved`).

`Storage_proofs`: `ListedAlwaysComplete`, `RestoreAlwaysPrefix`. Store and directories
always hold a prefix of the chain, and a call between two files or batches says how far
it is (`Creating`, `Restoring`). A crash may come between any two.

`Network_proofs`:

- `TypeCorrect`, `ConnectedAlwaysHasTask`: ids are handed out once (`IdsApart`) and an
  id is not in the table before its connection inserts it (`NotYetAdded`), so that the
  task that removes an entry is the one that owns it (`TableInv`).
- `OneStreamHolds`: what the owner of the channel was handed, followed by what waits,
  is what was received while the forwarding task runs (`StreamInv`).
- `EvidenceAlwaysJustified` (sentinel): every vote in the caches, in the evidence, and
  in a state being saved or loaded was delivered (`SenInv`). Evidence of a double
  proposal is left to `double_proposal`, where the like of it fails.

`Services_proofs`:

- `TypeCorrect`, `PendingIndexHolds`, `MarkRevertedSafe`, and
  `BridgeImplementsOutcome`, the refinement. The invariant adds that calls under way
  own distinct ids (`CallsApart`) and that a bridge not in the map is in no list
  (`AbsentUntouched`); without `MarkSafe` the unconditional assignment of
  `mark_reverted` could undo a payout.
- `RegDescribes` (contract registry): the property says nothing of a deployment under
  way, so `RegInv` follows the only deployer through its three writes (`Staged`), says
  that an address nobody deployed is untouched (`Unchecked`), that a deployer passed
  the check (`Owned`), and that a reader about to fill the cache holds what is stored
  (`FillsStored`). No run lists `ContractDescribed`.

`Vault_proofs`:

- `VaultNeverGrows` (`VaultGrowsOnlyBy`, which no run lists): while no calls overlap,
  a transfer in progress has read balances that still stand, so each of its stages has
  a bound on the sum of all balances and of what is still to be written
  (`TransferSound`, `Within`); the shares a distribution hands out are no more than
  the fee unless the burn rate has outgrown it (`Rates`).
- `GraceAlwaysGiven` (dormancy): an account is listed no earlier than its last activity,
  unless a call has yet to reach the list or newer activity left it there: the account
  was created again, or `record_activity` ran between `mark_dormant`'s reading of the
  clock and its insertion (`passedOver`, in `DormInv`).
- What `SumFunctionOnSet` computes: the library defines it by recursion over the set.
  The sum lemmas (`SumUpdate`, `SumInsert`, `SumSame` and others) argue by a minimal
  counterexample, which needs no induction rule.

`Contracts_proofs`:

- `ReleasedAlwaysWithinVested`: only `release` debits the vesting contract, so what it
  holds and has released add up to at least the founder's amount (`VestInv`). The
  schedule is the code's `vestedAmount`; section 5 says how the documents differ.
- `StakesAlwaysBacked`, `BridgeAlwaysBacked`: a call changes one term of what is owed and
  moves at least as many tokens the right way (`BackInv`); an address that never
  registered is not active, or registering it could count a stake twice.

Only model-checked:

- `EventuallySettled`, `ReceivedIsDelivered`: liveness is out of the prover's reach;
- `BridgedTotal`: follows from the bridge's invariant and `SumUpdate`, which live in
  modules the prover is too slow to combine;
- `TimeoutDueOrTorn`: compares powers, and facts about exponentiation need induction;
- `SelectedInOrder`, `PruneFits`, `PagesSkipNoBlock`, `WsNoGap`,
  `WalSavesAccounted`: about what folds, filters and sorts return for every sequence,
  which needs induction over data;
- `TreesSound`, `GasPaysForSteps`: recursive definitions and bitwise operators.

## 5. What is not modelled

Each part is a component of `PROJECT.json` with its status and reason. In short:

- not modelled: network message formats, handshake contents and gossip; signatures
  and hash functions (messages are authentic, hashes injective); storage migration
  and mempool fee estimates, which nothing calls; type definitions, utilities;
  `proposal.rs`, which is empty;
- left out of modelled parts: delegation, `RoundTimer` and `TimeoutCalculator`,
  `resolve_dependencies`, the vault's statistics and `update_config` of the fees,
  response formats, logging and CORS layers, JSON encodings;
- modelled without a property: `Caches`, `Runtimes`, `ApiGate`, the aggregator, the Titan
  score, the books of burns and fees, single API requests, the word arithmetic of
  `Vm`. Their actions are exercised by the runs, which shows that the models run and no
  more.

The map covers about a third of the implementation's lines.

Disagreements met while reading that no run shows:

- `Whitepaper:584`, `:588` and `contracts/FounderVesting.sol:7` have a cliff of one year
  and a linear release over the 36 months after it; the code counts from the start, so
  that a quarter can be released at the cliff;
- a page size above the cap moves the offset by the size asked for and returns the cap
  (`src/api/mod.rs:345`, `:349`), so that the pages skip blocks;
- the lists `[a, b, c]` and `[a, b, c, c]` have one Merkle root (`src/crypto/merkle.rs`
  repeats an odd leaf);
- the executor writes its cached sender back after the vault's transfer and so undoes
  the debit (`src/execution/executor.rs:127-129`); `Executor` has it, no property forbids
  it;
- `test_vm_simple` and `test_arithmetic` of `src/execution/vm.rs` expect another push and
  multiplication than the code's, which the model keeps.

Hazards met while reading and not listed in `PROJECT.json`:

- no property forbids them: `select_for_block` expects a sender's first nonce to be 0
  (`src/mempool/pool.rs:350`); after a restart the state manager is at height 0 and the
  engine at the stored height (`src/storage/state.rs:67`, see `engine_genesis`); a
  validator slashed below the minimum can neither leave nor register again
  (`contracts/TitanStaking.sol:86`); the shared gas meter of
  `src/execution/wasm_runtime.rs` charges one call for another; a failed handshake
  leaves its entry in the table of peers (`src/network/p2p.rs:87`);
- locks a thread asks for while it holds them, modelled as lost:
  `src/consensus/vote.rs:162`, `src/consensus/validator.rs:397`;
- overlapping transfers overwrite balances (`src/vault/manager.rs:142`), exempted by
  `VaultGrowsOnlyBy`; the hash index of `BlockCache` is not cleaned on eviction
  (`src/storage/cache.rs:204`);
- counters that drift: `total_failed` of the bridge (`src/vault/bridge.rs:306`), a
  sender's quota after two submissions of one hash (`src/mempool/pool.rs:269`), the
  dormant total after renewed activity (`src/vault/dormancy.rs:157`);
- two identical `BridgeVault` requests in one block share an id
  (`contracts/BridgeVault.sol:38`); `BridgeBacked` holds in spite of it;
- the state root covers cached accounts only (`src/storage/state.rs:262`);
- a stop sent while a message is handled is missed (`src/network/p2p.rs:98`), and
  `send_to` writes into a copy of the peer (`src/network/peer.rs:208`);
- also covered by the properties of the engine, the bridge and the ledger: a timeout
  racing the last precommit (`src/consensus/engine.rs:559`), the reaper's stale list
  (`src/vault/bridge.rs:468`), a half-applied block left in memory
  (`src/storage/state.rs:213`).
