------------------------------ MODULE Mempool ------------------------------
(***************************************************************************)
(* The transaction pool of src/mempool/pool.rs, used at the same time by    *)
(* the tasks that submit transactions (adders), by the consensus engine     *)
(* (select_for_block, then cleanup after a commit) and by the background    *)
(* pruner. The four maps of the pool have a lock each. An operation changes *)
(* one map at a time; the search for a transaction to replace and           *)
(* select_for_block read one map while they hold another, always in the     *)
(* same order. So a step here is what happens between two points where      *)
(* another task can change what a decision was based on:                    *)
(*   add_transaction: check | validate (await) | look up the nonce |        *)
(*                    remove the old one (two steps) | index | publish      *)
(*   remove_transaction: take it from `transactions` | unindex it           *)
(***************************************************************************)
EXTENDS Integers, FiniteSets, Sequences, FiniteSetsExt

CONSTANTS
    Txs,            \* transactions [from, nonce, fee, size, id]; each is its own hash
    Adders,         \* tasks that call add_transaction
    NoTx,
    MaxSize,        \* config.max_size
    MaxPerAddress,  \* config.max_tx_per_address
    MaxNonceGap,    \* config.max_nonce_gap
    MaxBlock,       \* max_count: transactions a block has room for
    MaxBytes,       \* max_size: their size together
    MaxNonce        \* bound: highest nonce an account reaches

Addresses == {t.from : t \in Txs}
Fees == {t.fee : t \in Txs}

ASSUME MempoolAssumption ==
    /\ \A t \in Txs : t.nonce \in Nat /\ t.fee \in Nat /\ t.size \in Nat
    /\ NoTx \notin Txs
    /\ {MaxSize, MaxPerAddress, MaxNonceGap, MaxBlock, MaxBytes, MaxNonce} \subseteq Nat
    /\ IsFiniteSet(Adders) /\ Adders # {}

VARIABLES
    transactions,  \* the pool: the transactions whose hash has an entry
    nonces,        \* pending_nonces
    count,         \* tx_count_by_address
    index,         \* priority_index: the hashes listed under each priority
    adder,         \* where each adder is in add_transaction
    remover,       \* the removal loops of the engine's cleanup and of the pruner
    block,         \* what select_for_block returned and is not committed yet
    stateNonce     \* the nonce of each account in the state manager

vars == <<transactions, nonces, count, index, adder, remover, block, stateNonce>>
pool == <<transactions, nonces, count, index>>

Removers == {"engine", "pruner"}
Idle == [pc |-> "idle", tx |-> NoTx, old |-> NoTx]
Resting == [phase |-> "idle", todo |-> {}, cur |-> NoTx]

TypeOK ==
    /\ transactions \subseteq Txs
    /\ nonces \in [Addresses -> SUBSET Nat]
    /\ count \in [Addresses -> Nat]
    /\ index \in [Fees -> Seq(Txs)]
    /\ adder \in [Adders -> [pc : {"idle", "validate", "lookup", "remove", "unindex",
                                   "index", "publish"},
                             tx : Txs \cup {NoTx}, old : Txs \cup {NoTx}]]
    /\ remover \in [Removers -> [phase : {"idle", "processed", "stale", "expired"},
                                 todo : SUBSET Txs, cur : Txs \cup {NoTx}]]
    /\ block \in Seq(Txs)
    /\ stateNonce \in [Addresses -> Nat]

Init ==
    /\ transactions = {}
    /\ nonces = [a \in Addresses |-> {}]
    /\ count = [a \in Addresses |-> 0]
    /\ index = [f \in Fees |-> <<>>]
    /\ adder = [a \in Adders |-> Idle]
    /\ remover = [r \in Removers |-> Resting]
    /\ block = <<>>
    /\ stateNonce = [a \in Addresses |-> 0]

-----------------------------------------------------------------------------
(* What the operations test and compute *)

HasRoomMutant(t) == count[t.from] < MaxPerAddress
HasRoom(t) ==
    /\ Cardinality(transactions) < MaxSize
    /\ count[t.from] < MaxPerAddress

check_nonce(t) ==
    t.nonce >= stateNonce[t.from] /\ t.nonce <= stateNonce[t.from] + MaxNonceGap

\* The new fee rate exceeds the old one by more than ten percent.
should_replace(old, new) == 10 * new.fee > 11 * old.fee

SameNonce(t) ==
    IF t.nonce \in nonces[t.from]
    THEN {u \in transactions : u.from = t.from /\ u.nonce = t.nonce}
    ELSE {}

\* Vec::swap_remove of the first occurrence, in the one list that has it.
WithoutMutant(s, t) == SelectSeq(s, LAMBDA u : u # t)
Without(s, t) ==
    LET found == {i \in DOMAIN s : s[i] = t}
    IN  IF found = {} THEN s ELSE SubSeq([s EXCEPT ![Min(found)] = s[Len(s)]], 1, Len(s) - 1)

Unindex(t) ==
    /\ nonces' = [nonces EXCEPT ![t.from] = @ \ {t.nonce}]
    /\ count' = [count EXCEPT ![t.from] = IF @ = 0 THEN 0 ELSE @ - 1]
    /\ index' = [index EXCEPT ![t.fee] = Without(@, t)]

\* transactions.remove(hash) tells whether there was an entry: only the caller
\* that removed it goes on to unindex it.
FoundMutant(t) == TRUE
Found(t) == t \in transactions

\* select_for_block walks the index from the highest priority down.
ByPriority ==
    MapThenFoldSet(\o, <<>>, LAMBDA f : index[f], Max, Fees)

NonceFitsMutant(nonce, expected) == nonce <= expected + MaxNonceGap
NonceFits(nonce, expected) == nonce >= expected /\ nonce <= expected + MaxNonceGap

SizeOf(sel) == MapThenSumSet(LAMBDA i : sel[i].size, DOMAIN sel)

select_for_block ==
    LET expected(sel, t) ==
            LET mine == SelectSeq(sel, LAMBDA u : u.from = t.from)
            IN  IF mine = <<>> THEN 0 ELSE mine[Len(mine)].nonce + 1
        step(t, sel) ==
            IF /\ Len(sel) < MaxBlock /\ SizeOf(sel) < MaxBytes
               /\ \A i \in DOMAIN sel : sel[i] # t
               /\ t \in transactions
               /\ NonceFits(t.nonce, expected(sel, t))
               /\ SizeOf(sel) + t.size <= MaxBytes
            THEN Append(sel, t) ELSE sel
    IN  MapThenFoldSet(step, <<>>, LAMBDA i : ByPriority[i], Max, DOMAIN ByPriority)

-----------------------------------------------------------------------------
(* add_transaction *)

Goto(a, pc) == adder' = [adder EXCEPT ![a].pc = pc]
Return(a) == adder' = [adder EXCEPT ![a] = Idle]

\* A known hash, a full pool or a full quota ends the call before any change.
Submit(a, t) ==
    /\ adder[a].pc = "idle"
    /\ t \notin transactions
    /\ HasRoom(t)
    /\ adder' = [adder EXCEPT ![a] = [pc |-> "validate", tx |-> t, old |-> NoTx]]
    /\ UNCHANGED <<pool, remover, block, stateNonce>>

\* The age, the signature, the balance and the fee may each be refused too.
Validate(a) ==
    /\ adder[a].pc = "validate"
    /\ \/ check_nonce(adder[a].tx) /\ Goto(a, "lookup")
       \/ Return(a)
    /\ UNCHANGED <<pool, remover, block, stateNonce>>

Lookup(a) ==
    /\ adder[a].pc = "lookup"
    /\ \/ SameNonce(adder[a].tx) = {} /\ Goto(a, "index")
       \/ \E u \in SameNonce(adder[a].tx) :
            IF should_replace(u, adder[a].tx)
            THEN adder' = [adder EXCEPT ![a].pc = "remove", ![a].old = u]
            ELSE Return(a)
    /\ UNCHANGED <<pool, remover, block, stateNonce>>

RemoveOld(a) ==
    /\ adder[a].pc = "remove"
    /\ Goto(a, IF Found(adder[a].old) THEN "unindex" ELSE "index")
    /\ transactions' = transactions \ {adder[a].old}
    /\ UNCHANGED <<nonces, count, index, remover, block, stateNonce>>

UnindexOld(a) ==
    /\ adder[a].pc = "unindex"
    /\ Unindex(adder[a].old)
    /\ Goto(a, "index")
    /\ UNCHANGED <<transactions, remover, block, stateNonce>>

IndexNew(a) ==
    /\ adder[a].pc = "index"
    /\ LET t == adder[a].tx IN
        /\ nonces' = [nonces EXCEPT ![t.from] = @ \cup {t.nonce}]
        /\ count' = [count EXCEPT ![t.from] = @ + 1]
        /\ index' = [index EXCEPT ![t.fee] = Append(@, t)]
    /\ Goto(a, "publish")
    /\ UNCHANGED <<transactions, remover, block, stateNonce>>

Publish(a) ==
    /\ adder[a].pc = "publish"
    /\ transactions' = transactions \cup {adder[a].tx}
    /\ Return(a)
    /\ UNCHANGED <<nonces, count, index, remover, block, stateNonce>>

-----------------------------------------------------------------------------
(* The engine and the pruner *)

SelectForBlock ==
    /\ remover["engine"].phase = "idle"
    /\ block' = select_for_block
    /\ UNCHANGED <<pool, adder, remover, stateNonce>>

NoncesOf(a) == Cardinality({i \in DOMAIN block : block[i].from = a})

\* commit_block: apply_block counts the sender's nonce up for each transaction,
\* then cleanup starts with the transactions of the block.
CommitBlock ==
    /\ remover["engine"].phase = "idle" /\ block # <<>>
    /\ \A a \in Addresses : stateNonce[a] + NoncesOf(a) <= MaxNonce
    /\ stateNonce' = [a \in Addresses |-> stateNonce[a] + NoncesOf(a)]
    /\ remover' = [remover EXCEPT !["engine"].phase = "processed",
                                  !["engine"].todo = Range(block)]
    /\ block' = <<>>
    /\ UNCHANGED <<pool, adder>>

\* The second half of cleanup: what the committed nonces have left behind.
IsStale(t) == t.nonce <= stateNonce[t.from]

CleanupScan ==
    /\ remover["engine"] = [phase |-> "processed", todo |-> {}, cur |-> NoTx]
    /\ remover' = [remover EXCEPT !["engine"].phase = "stale",
                                  !["engine"].todo = {t \in transactions : IsStale(t)}]
    /\ UNCHANGED <<pool, adder, block, stateNonce>>

\* prune_expired: time is not modelled, any pooled transaction may be too old.
PruneScan ==
    /\ remover["pruner"].phase = "idle"
    /\ \E old \in SUBSET transactions \ {{}} :
         remover' = [remover EXCEPT !["pruner"].phase = "expired", !["pruner"].todo = old]
    /\ UNCHANGED <<pool, adder, block, stateNonce>>

\* remove_transaction in a loop over `todo`.
RemoveNext(r) ==
    /\ remover[r].cur = NoTx
    /\ \E t \in remover[r].todo :
         /\ remover' = [remover EXCEPT ![r].todo = @ \ {t},
                                       ![r].cur = IF Found(t) THEN t ELSE NoTx]
         /\ transactions' = transactions \ {t}
    /\ UNCHANGED <<nonces, count, index, adder, block, stateNonce>>

UnindexRemoved(r) ==
    /\ remover[r].cur # NoTx
    /\ Unindex(remover[r].cur)
    /\ remover' = [remover EXCEPT ![r].cur = NoTx]
    /\ UNCHANGED <<transactions, adder, block, stateNonce>>

RemovalDone(r) ==
    /\ remover[r].phase \in {"stale", "expired"}
    /\ remover[r].todo = {} /\ remover[r].cur = NoTx
    /\ remover' = [remover EXCEPT ![r] = Resting]
    /\ UNCHANGED <<pool, adder, block, stateNonce>>

Add(a) ==
    \/ \E t \in Txs : Submit(a, t)
    \/ Validate(a) \/ Lookup(a) \/ RemoveOld(a) \/ UnindexOld(a) \/ IndexNew(a) \/ Publish(a)

Next ==
    \/ \E a \in Adders : Add(a)
    \/ SelectForBlock \/ CommitBlock \/ CleanupScan \/ PruneScan
    \/ \E r \in Removers : RemoveNext(r) \/ UnindexRemoved(r) \/ RemovalDone(r)

Spec == Init /\ [][Next]_vars

-----------------------------------------------------------------------------
(* Properties *)

Pooled(a) == {t \in transactions : t.from = a}

\* The capacity check of add_transaction is followed by an await, so the pool
\* can grow past max_size, but never by more than the other submitting tasks.
CapacityBound == Cardinality(transactions) <= MaxSize + Cardinality(Adders) - 1

\* Every transaction in the pool is listed in priority_index, where alone
\* select_for_block looks, whatever adders, cleanup and pruner do to the same
\* hash at the same time.
IndexComplete == \A t \in transactions : \E i \in DOMAIN index[t.fee] : index[t.fee][i] = t

\* The quota counter of an address never falls below what the address has in
\* the pool, so the per-address limit cannot be passed by racing removals.
QuotaSound == \A a \in Addresses : count[a] >= Cardinality(Pooled(a))

\* A selected block never holds two transactions of one sender with the same
\* nonce, nor two in the wrong order, although races may leave both a
\* transaction and its replacement in the pool.
SelectedInOrder ==
    \A i, j \in DOMAIN block :
        i < j /\ block[i].from = block[j].from => block[i].nonce < block[j].nonce

\* cleanup removes only what the validator would refuse if it were submitted
\* again: nonces below the one the account has reached.
CleanupKeepsValid ==
    remover["engine"].phase = "stale" =>
        \A t \in remover["engine"].todo : t.nonce < stateNonce[t.from]
=============================================================================
