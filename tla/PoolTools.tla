------------------------------ MODULE PoolTools ------------------------------
(***************************************************************************)
(* The helpers of the mempool: which transactions to prune                 *)
(* (mempool/pruning.rs) and in which order to take them                    *)
(* (mempool/ordering.rs).                                                  *)
(*                                                                         *)
(* A transaction is a record [id, from, nonce, fee, size, time].  Sizes    *)
(* are squares, so that priorities, counted in fortieths, are integers.    *)
(***************************************************************************)
EXTENDS Integers, Sequences, FiniteSets
LOCAL INSTANCE SequencesExt

CONSTANTS ToolTxs,        \* transactions, each arriving at most once
          ToolMaxSize,    \* max_size
          ToolMaxAge,     \* max_tx_age_secs
          ToolPerAddress, \* max_tx_per_address
          ToolTime        \* bound: the clock

VARIABLES pending,   \* the transactions handed to the helpers, in order
          toolClock,
          heap       \* TransactionQueue.heap: records [id, priority, time]

toolVars == <<pending, toolClock, heap>>

ToolTypeOK ==
    /\ pending \in Seq(ToolTxs) /\ toolClock \in 0..ToolTime
    /\ \A e \in heap : \E x \in ToolTxs : e.id = x.id

ToolInit == pending = <<>> /\ toolClock = 0 /\ heap = {}

(* Position i among the list sorted by a key: sort_by is stable, so equals  *)
(* keep their order.                                                        *)
Rank(seq, i, Before(_, _)) ==
    Cardinality({j \in DOMAIN seq : \/ Before(seq[j], seq[i])
                                    \/ ~Before(seq[i], seq[j]) /\ j < i})
Sorted(seq, Before(_, _)) ==
    [n \in DOMAIN seq |-> seq[CHOOSE i \in DOMAIN seq : Rank(seq, i, Before) = n - 1]]

(* a.fee / a.size < b.fee / b.size                                          *)
Cheaper(a, b) == a.fee * b.size < b.fee * a.size
Older(a, b) == a.time < b.time
Lowest(seq, n, Before(_, _)) == {seq[i] : i \in {i \in DOMAIN seq : Rank(seq, i, Before) < n}}
-----------------------------------------------------------------------------
(* Pruner::prune_capacity: as many of the cheapest as are too many.         *)
ExcessMutant(count, max) == count - max - 1
Excess(count, max) == count - max

prune_capacity(seq) ==
    IF Len(seq) <= ToolMaxSize THEN {} ELSE Lowest(seq, Excess(Len(seq), ToolMaxSize), Cheaper)

(* Pruner::select_for_pruning: the expired, the cheapest beyond the         *)
(* capacity, and the oldest of each address beyond its quota, each counted  *)
(* over the whole list.                                                     *)
Expired(x, now) == now - x.time > ToolMaxAge
OfAddress(seq, address) == SelectSeq(seq, LAMBDA x : x.from = address)
PrunedOf(seq, address) ==
    LET own == OfAddress(seq, address)
    IN IF Len(own) > ToolPerAddress THEN Lowest(own, Excess(Len(own), ToolPerAddress), Older) ELSE {}

select_for_pruning(seq, now) ==
    {x \in ToSet(seq) : Expired(x, now)}
    \cup prune_capacity(seq)
    \cup UNION {PrunedOf(seq, x.from) : x \in ToSet(seq)}

(* Pruner::prune_old_nonces                                                 *)
prune_old_nonces(seq, address, nonce) == {x \in ToSet(seq) : x.from = address /\ x.nonce <= nonce}

Kept(seq, removed) == SelectSeq(seq, LAMBDA x : x \notin removed)
-----------------------------------------------------------------------------
(* TransactionOrdering::calculate_priority, with the age in minutes: 0.7 of *)
(* the fee per byte, 0.2 of the age up to 100, 0.1 over the root of size.   *)
Root(n) == CHOOSE r \in 1..n : r * r = n
calculate_priority(fee, size, age) ==
    (28 * fee) \div size + 8 * (IF age < 100 THEN age ELSE 100) + 4 \div Root(size)

PriorityOf(x) == calculate_priority(x.fee, x.size, 0)
Preferred(a, b) == PriorityOf(a) > PriorityOf(b)

(* sort_by_nonce: the groups it sorts by nonce are dropped, and the list is *)
(* sorted by priority.                                                      *)
sort_by_nonce(seq) == Sorted(seq, Preferred)

SortsPending ==
    /\ pending' = sort_by_nonce(pending)
    /\ UNCHANGED <<toolClock, heap>>

(* TransactionQueue: the heap's greatest has the highest priority and, at   *)
(* equal priority, the latest time.                                         *)
Entry(x) == [id |-> x.id, priority |-> PriorityOf(x), time |-> x.time]
Above(e, f) == e.priority > f.priority \/ (e.priority = f.priority /\ e.time > f.time)

push(x) ==
    /\ heap' = heap \cup {Entry(x)}
    /\ UNCHANGED <<pending, toolClock>>

pop ==
    /\ \E e \in heap : (\A f \in heap : ~Above(f, e)) /\ heap' = heap \ {e}
    /\ UNCHANGED <<pending, toolClock>>
-----------------------------------------------------------------------------
Arrives(x) ==
    /\ x \notin ToSet(pending) /\ x.time <= toolClock
    /\ pending' = Append(pending, x)
    /\ UNCHANGED <<toolClock, heap>>

ToolTick ==
    /\ toolClock < ToolTime /\ toolClock' = toolClock + 1
    /\ UNCHANGED <<pending, heap>>

(* BackgroundPruner: a tick removes what has expired and nothing else.      *)
BackgroundPruner ==
    /\ pending' = SelectSeq(pending, LAMBDA x : ~Expired(x, toolClock))
    /\ UNCHANGED <<toolClock, heap>>

(* A caller that carries out the pruner's verdict.                          *)
Prunes ==
    /\ pending' = Kept(pending, select_for_pruning(pending, toolClock))
    /\ UNCHANGED <<toolClock, heap>>

PrunesNonces(address, nonce) ==
    /\ pending' = Kept(pending, prune_old_nonces(pending, address, nonce))
    /\ UNCHANGED <<toolClock, heap>>

ToolNext ==
    \/ ToolTick \/ BackgroundPruner \/ Prunes \/ pop \/ SortsPending
    \/ \E x \in ToolTxs : Arrives(x) \/ push(x) \/ PrunesNonces(x.from, x.nonce)
-----------------------------------------------------------------------------
(* One pass of the pruner is enough: what it leaves holds nothing expired,  *)
(* fits the capacity and respects the quota of every address, though each   *)
(* rule counts its excess over the whole list and the same transaction may  *)
(* be counted by all three.  About select_for_pruning.                      *)
PruneFits ==
    LET left == Kept(pending, select_for_pruning(pending, toolClock))
    IN /\ Len(left) <= ToolMaxSize
       /\ \A i \in DOMAIN left : ~Expired(left[i], toolClock)
       /\ \A x \in ToolTxs : Len(OfAddress(left, x.from)) <= ToolPerAddress
=============================================================================
