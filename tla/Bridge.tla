------------------------------- MODULE Bridge -------------------------------
(***************************************************************************)
(* The shard bridge of src/vault/bridge.rs: BridgeManager, whose methods    *)
(* run on any thread, and the BridgeReaper task that reverts what expired.  *)
(*                                                                         *)
(* A method that keeps bridges.write() for its whole body is one action.    *)
(* initiate_bridge takes three locks one after the other and the reaper     *)
(* calls revert_bridge and mark_reverted separately: each lock section is   *)
(* an action of its own, so other threads run between them. relay_bridge,   *)
(* finalize_bridge and mark_reverted take pending_by_shard while they hold  *)
(* bridges; get_pending_for_shard takes them in the opposite order.         *)
(***************************************************************************)
EXTENDS Integers, FiniteSets, Functions

CONSTANTS
    Clients,      \* threads that call initiate_bridge
    Operators,    \* threads that call revert_bridge, then mark_reverted
    Shards,       \* shard identifiers
    Amounts,      \* amounts clients ask for
    MaxAmount,    \* MAX_BRIDGE_AMOUNT
    BridgeTimeout, \* BRIDGE_TIMEOUT_SECS, in clock ticks
    MaxId,        \* bound: number of bridges ever initiated
    MaxTime,      \* bound: last clock tick
    MaxReverts    \* bound: operators start no revert once total_failed is this

ASSUME BridgeAssumption ==
    /\ Shards # {}
    /\ Amounts \subseteq Nat
    /\ MaxAmount \in Nat
    /\ BridgeTimeout \in Nat
    /\ MaxId \in Nat
    /\ MaxTime \in Nat
    /\ MaxReverts \in Nat
    /\ "reaper" \notin Operators

VARIABLES
    bridges,        \* the bridges map; status Absent stands for "no entry"
    pending,        \* pending_by_shard
    processed,      \* processed: the hash -> status entries
    next_bridge_id, \* the next identifier to hand out
    totalBridged,   \* total_bridged
    totalFailed,    \* total_failed
    call,           \* what each client inside initiate_bridge holds
    expired,        \* the ids the reaper still has to revert in this round
    marking,        \* the id a reverter will pass to mark_reverted, or NoId
    now,            \* current_timestamp()
    listing         \* a thread in get_pending_for_shard: "idle", it "holds"
                    \* pending_by_shard, or it is "dead"locked with a writer

bridgeVars == <<bridges, pending, processed, next_bridge_id, totalBridged, totalFailed,
                call, expired, marking, now, listing>>

BridgeIds == 1..MaxId
NoId == 0
Reverters == Operators \cup {"reaper"}

Statuses ==
    {"Absent", "Pending", "Locked", "Relayed", "Finalized", "Reverting", "Reverted"}

BridgeTransaction ==
    [status : Statuses, amount : Nat, source : Shards, target : Shards, expires : Nat]

\* Every bridge is created with the hash [0u8; 32] and none is given another.
ZeroHash == "zero"

AnyShard == CHOOSE s \in Shards : TRUE
NoBridge ==
    [status |-> "Absent", amount |-> 0, source |-> AnyShard, target |-> AnyShard, expires |-> 0]
NoCall == [phase |-> "idle", id |-> NoId, tx |-> NoBridge]

Call == [phase : {"idle", "hasId", "inserted"}, id : BridgeIds \cup {NoId}, tx : BridgeTransaction]

BridgeTypeOK ==
    /\ bridges \in [BridgeIds -> BridgeTransaction]
    /\ pending \in [Shards -> SUBSET BridgeIds]
    /\ processed \subseteq {ZeroHash} \X Statuses
    /\ next_bridge_id \in 1..(MaxId + 1)
    /\ totalBridged \in Nat
    /\ totalFailed \in Nat
    /\ call \in [Clients -> Call]
    /\ expired \subseteq BridgeIds
    /\ marking \in [Reverters -> BridgeIds \cup {NoId}]
    /\ now \in 0..MaxTime
    /\ listing \in {"idle", "holds", "dead"}

BridgeInit ==
    /\ bridges = [i \in BridgeIds |-> NoBridge]
    /\ pending = [s \in Shards |-> {}]
    /\ processed = {}
    /\ next_bridge_id = 1
    /\ totalBridged = 0
    /\ totalFailed = 0
    /\ call = [c \in Clients |-> NoCall]
    /\ expired = {}
    /\ marking = [r \in Reverters |-> NoId]
    /\ now = 0
    /\ listing = "idle"

-----------------------------------------------------------------------------
(* Guards of the methods, one operator for each test the code makes.        *)

CanLock(s) == s = "Pending"

CanRelay(s) == s = "Locked"

CanFinalizeMutant(s) == s \in {"Relayed", "Finalized"}
CanFinalize(s) == s = "Relayed"

CanRevertMutant(s) == s # "Absent"
CanRevert(s) == s \notin {"Absent", "Finalized"}

is_expired(tx, t) == t > tx.expires

find_expired_bridgesMutant(t) ==
    {i \in BridgeIds : /\ bridges[i].status \in {"Pending", "Locked"}
                 /\ is_expired(bridges[i], t)}
find_expired_bridges(t) ==
    {i \in BridgeIds : /\ bridges[i].status \notin {"Absent", "Finalized", "Reverted"}
                 /\ is_expired(bridges[i], t)}

get_all_pending == {i \in BridgeIds : bridges[i].status \in {"Pending", "Locked", "Relayed"}}

\* The ids initiate_bridge has returned to their callers.
Returned == {i \in BridgeIds : i < next_bridge_id /\ \A c \in Clients : call[c].id # i}

\* The ids a thread outside the manager can name when it calls a method:
\* get_all_pending shows a bridge before initiate_bridge has listed it.
Known == Returned \cup get_all_pending

SetStatus(i, s) == bridges' = [bridges EXCEPT ![i].status = s]

-----------------------------------------------------------------------------
(* initiate_bridge, one action per lock section. A request that fails the   *)
(* amount or the shard check returns before it changes anything.            *)

\* Bound: an initiation starts only if a bridge of its can expire before MaxTime.
InitiateTakeId(c, amount, source, target) ==
    /\ call[c].phase = "idle"
    /\ amount <= MaxAmount
    /\ source # target
    /\ next_bridge_id <= MaxId
    /\ now + BridgeTimeout < MaxTime
    /\ next_bridge_id' = next_bridge_id + 1
    /\ call' = [call EXCEPT ![c] =
         [phase |-> "hasId", id |-> next_bridge_id,
          tx |-> [status |-> "Pending", amount |-> amount, source |-> source,
                  target |-> target, expires |-> now + BridgeTimeout]]]
    /\ UNCHANGED <<bridges, pending, processed, totalBridged, totalFailed,
                   expired, marking, now, listing>>

InitiateInsert(c) ==
    /\ call[c].phase = "hasId"
    /\ listing # "dead"
    /\ bridges' = [bridges EXCEPT ![call[c].id] = call[c].tx]
    /\ call' = [call EXCEPT ![c].phase = "inserted"]
    /\ UNCHANGED <<pending, processed, next_bridge_id, totalBridged, totalFailed,
                   expired, marking, now, listing>>

InitiatePush(c) ==
    /\ call[c].phase = "inserted"
    /\ listing = "idle"
    /\ pending' = [pending EXCEPT ![call[c].tx.source] = @ \cup {call[c].id}]
    /\ call' = [call EXCEPT ![c] = NoCall]
    /\ UNCHANGED <<bridges, processed, next_bridge_id, totalBridged, totalFailed,
                   expired, marking, now, listing>>

-----------------------------------------------------------------------------
(* The two locks. The writes a method made before it waits for ever are     *)
(* behind bridges.write(), which it keeps: no thread sees them, and they    *)
(* are left out.                                                            *)

get_pending_for_shard ==
    /\ \/ listing = "idle" /\ listing' = "holds"
       \/ listing = "holds" /\ listing' = "idle"
    /\ UNCHANGED <<bridges, pending, processed, next_bridge_id, totalBridged,
                   totalFailed, call, expired, marking, now>>

WaitsForPending ==
    /\ listing = "holds"
    /\ listing' = "dead"
    /\ UNCHANGED <<bridges, pending, processed, next_bridge_id, totalBridged,
                   totalFailed, call, expired, marking, now>>

-----------------------------------------------------------------------------
lock_bridge(i) ==
    /\ listing # "dead"
    /\ CanLock(bridges[i].status)
    /\ SetStatus(i, "Locked")
    /\ UNCHANGED <<pending, processed, next_bridge_id, totalBridged, totalFailed, call,
                   expired, marking, now, listing>>

MoveToTargetMutant(i) ==
    [pending EXCEPT ![bridges[i].source] = @ \ {i}]
MoveToTarget(i) ==
    [pending EXCEPT ![bridges[i].source] = @ \ {i},
                    ![bridges[i].target] = @ \cup {i}]

relay_bridge(i) ==
    /\ CanRelay(bridges[i].status)
    /\ \/ WaitsForPending
       \/ /\ listing = "idle"
          /\ SetStatus(i, "Relayed")
          /\ pending' = MoveToTarget(i)
          /\ UNCHANGED <<processed, next_bridge_id, totalBridged, totalFailed, call,
                         expired, marking, now, listing>>

finalize_bridge(i) ==
    /\ CanFinalize(bridges[i].status)
    /\ \/ WaitsForPending
       \/ /\ listing = "idle"
          /\ SetStatus(i, "Finalized")
          /\ totalBridged' = totalBridged + bridges[i].amount
          /\ processed' = processed \cup {<<ZeroHash, "Finalized">>}
          /\ pending' = [pending EXCEPT ![bridges[i].target] = @ \ {i}]
          /\ UNCHANGED <<next_bridge_id, totalFailed, call, expired, marking, now, listing>>

\* revert_bridge followed, in the same thread, by mark_reverted.
revert_bridge(r, i) ==
    /\ listing # "dead"
    /\ CanRevert(bridges[i].status)
    /\ SetStatus(i, "Reverting")
    /\ marking' = [marking EXCEPT ![r] = i]

mark_reverted(r) ==
    /\ marking[r] # NoId
    /\ \/ WaitsForPending
       \/ /\ listing = "idle"
          /\ SetStatus(marking[r], "Reverted")
          /\ totalFailed' = totalFailed + 1
          /\ pending' = [s \in Shards |-> pending[s] \ {marking[r]}]
          /\ marking' = [marking EXCEPT ![r] = NoId]
          /\ UNCHANGED <<processed, next_bridge_id, totalBridged, call, expired, now, listing>>

OperatorRevert(r, i) ==
    /\ marking[r] = NoId
    /\ totalFailed < MaxReverts
    /\ revert_bridge(r, i)
    /\ UNCHANGED <<pending, processed, next_bridge_id, totalBridged, totalFailed, call,
                   expired, now, listing>>

-----------------------------------------------------------------------------
(* BridgeReaper: find_expired_bridges releases the lock before the loop      *)
(* reverts what it found; a bridge finalized meanwhile is skipped.           *)

ReaperScan ==
    /\ expired = {} /\ marking["reaper"] = NoId /\ listing # "dead"
    /\ expired' = find_expired_bridges(now)
    /\ UNCHANGED <<bridges, pending, processed, next_bridge_id, totalBridged,
                   totalFailed, call, marking, now, listing>>

ReaperRevert(i) ==
    /\ i \in expired /\ marking["reaper"] = NoId
    /\ expired' = expired \ {i}
    /\ \/ revert_bridge("reaper", i)
       \/ /\ listing # "dead"
          /\ ~CanRevert(bridges[i].status)
          /\ UNCHANGED <<bridges, marking>>
    /\ UNCHANGED <<pending, processed, next_bridge_id, totalBridged, totalFailed, call,
                   now, listing>>

Tick ==
    /\ now < MaxTime
    /\ now' = now + 1
    /\ UNCHANGED <<bridges, pending, processed, next_bridge_id, totalBridged,
                   totalFailed, call, expired, marking, listing>>

Initiate(c) ==
    \/ \E a \in Amounts, s, t \in Shards : InitiateTakeId(c, a, s, t)
    \/ InitiateInsert(c)
    \/ InitiatePush(c)

Reaper ==
    \/ ReaperScan
    \/ \E i \in BridgeIds : ReaperRevert(i)
    \/ mark_reverted("reaper")

BridgeNext ==
    \/ \E c \in Clients : Initiate(c)
    \/ \E i \in Known : lock_bridge(i) \/ relay_bridge(i) \/ finalize_bridge(i)
    \/ \E r \in Operators, i \in Known : OperatorRevert(r, i)
    \/ \E r \in Operators : mark_reverted(r)
    \/ Reaper
    \/ get_pending_for_shard
    \/ Tick

\* The reaper is a tokio task on an interval, and the clock advances. Clients
\* inside initiate_bridge and operators between their two calls run on.
BridgeFairness ==
    /\ WF_bridgeVars(Tick)
    /\ WF_bridgeVars(Reaper)
    /\ \A c \in Clients : WF_bridgeVars(InitiateInsert(c) \/ InitiatePush(c))
    /\ \A r \in Operators : WF_bridgeVars(mark_reverted(r))

BridgeSpec == BridgeInit /\ [][BridgeNext]_bridgeVars
BridgeFairSpec == BridgeSpec /\ BridgeFairness

-----------------------------------------------------------------------------
(* Properties                                                              *)

\* pending_by_shard never loses an open bridge: once initiate_bridge has
\* returned, a bridge is listed under the shard that has to act on it, and it
\* is listed under its target only while it is relayed or being reverted. The
\* index and the map are behind two locks, and relay_bridge may run between
\* the insertion of a bridge and its listing.
PendingIndex ==
    \A i \in BridgeIds :
        LET tx == bridges[i] IN
        /\ tx.status \in {"Pending", "Locked"} /\ i \in Returned => i \in pending[tx.source]
        /\ tx.status = "Relayed" => i \in pending[tx.target]
        /\ \A s \in Shards : i \in pending[s] =>
              s = tx.source \/ (s = tx.target /\ tx.status \in {"Relayed", "Reverting"})

\* total_bridged is the sum of the finalized amounts: no race between the
\* reaper and finalize_bridge counts a transfer twice or takes one back.
PaidOut == [i \in BridgeIds |-> IF bridges[i].status = "Finalized" THEN bridges[i].amount ELSE 0]
BridgedTotal == totalBridged = SumFunctionOnSet(PaidOut, BridgeIds)

\* A bridge between revert_bridge and mark_reverted is still Reverting (or has
\* been marked by another reverter): nothing locks, relays or finalizes it, so
\* the unconditional assignment of mark_reverted never undoes a payout.
MarkSafe ==
    \A r \in Reverters :
        marking[r] # NoId => bridges[marking[r]].status \in {"Reverting", "Reverted"}

\* The bridge of src/vault/bridge.rs implements the abstract bridge: stats()
\* counts Reverting and Reverted together, and so does the mapping.
OutcomeOf(status) ==
    CASE status = "Absent" -> "absent"
      [] status \in {"Pending", "Locked", "Relayed"} -> "open"
      [] status = "Finalized" -> "paid"
      [] OTHER -> "refunded"
outcomes == [i \in BridgeIds |-> OutcomeOf(bridges[i].status)]
Abstract == INSTANCE BridgeOutcome WITH outcome <- outcomes
AbstractSpec == Abstract!Spec

\* Every bridge that enters the map is decided: it is finalized, or the reaper
\* reverts it after its timeout. One thing alone can prevent it: a writer that
\* waits for pending_by_shard with bridges in its hands while
\* get_pending_for_shard waits for bridges with pending_by_shard in its own.
\* Then neither the reaper nor any other method gets a lock again.
EventuallySettled ==
    \A i \in BridgeIds :
        bridges[i].status # "Absent" ~>
            bridges[i].status \in {"Finalized", "Reverted"} \/ listing = "dead"
=============================================================================
