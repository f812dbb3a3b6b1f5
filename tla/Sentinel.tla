------------------------------ MODULE Sentinel ------------------------------
(***************************************************************************)
(* The watcher node (consensus/sentinel.rs): the double-proposal and       *)
(* double-vote detectors with their bounded caches, the evidence they      *)
(* keep, its saving and loading, and the life of the watching task.        *)
(* process_message drops every message, so the detectors are driven here   *)
(* by calls and the watching task never calls them.                        *)
(***************************************************************************)
EXTENDS Integers, Sequences, FiniteSets

CONSTANTS SenHeights, SenRounds, SenIds, SenHashes,
          SenCacheSize,  \* cache_size
          SenSet,        \* validators in the rotation, 21 in the code
          SenMaxMissed,  \* max_missed_blocks_before_alarm
          SenHistory,    \* max_height_history
          SenWorkers,    \* watching tasks that may be started
          SenMaxCalls    \* bound: proposals and votes

ASSUME SenAssumption == SenCacheSize \in Nat \ {0}

VARIABLES sen,         \* the node's memory
          senFile,     \* the saved state
          senSaving,   \* what a save has read so far
          senWorker, senState, senHandle,
          senDelivered, senCalls \* the calls so far

senVars == <<sen, senFile, senSaving, senWorker, senState, senHandle, senDelivered, senCalls>>

NoFile == [at |-> "none", height |-> 0, anomalies |-> 0, evidence |-> <<>>]
FreshSentinel == [height |-> 0, proposals |-> <<>>, votes |-> <<>>, evidence |-> <<>>,
                  missed |-> [id \in 1..SenSet |-> 0], anomalies |-> 0, reports |-> 0]

SenTypeOK ==
    /\ sen.height \in SenHeights \cup {0} /\ sen.reports \in 0..SenHistory
    /\ Len(sen.proposals) <= SenCacheSize /\ Len(sen.votes) <= SenCacheSize
    /\ senFile.at \in {"none", "torn", "whole"}
    /\ senWorker \in [SenWorkers -> {"none", "spawned", "watching", "signalled", "ended"}]
    /\ senState \in {"Idle", "Watching"}

SenInit ==
    /\ sen = FreshSentinel /\ senFile = NoFile /\ senSaving = NoFile
    /\ senWorker = [w \in SenWorkers |-> "none"] /\ senState = "Idle"
    /\ senHandle = {} /\ senDelivered = {} /\ senCalls = 0

(* An LRU cache, most recent first: Seen gives the hashes under a key,      *)
(* Noted moves the key to the front with one more hash and drops the oldest *)
(* entry of a full cache.                                                   *)
Seen(cache, key) == UNION {cache[i].hashes : i \in {i \in DOMAIN cache : cache[i].key = key}}
ForgetKey(cache, key) ==
    LET held == {i \in DOMAIN cache : cache[i].key = key}
        at == CHOOSE i \in held : TRUE    \* a key is held once
    IN IF held = {} THEN cache
       ELSE SubSeq(cache, 1, at - 1) \o SubSeq(cache, at + 1, Len(cache))
Noted(cache, key, hash) ==
    LET all == <<[key |-> key, hashes |-> Seen(cache, key) \cup {hash}]>> \o ForgetKey(cache, key)
    IN SubSeq(all, 1, IF Len(all) < SenCacheSize THEN Len(all) ELSE SenCacheSize)

SenIsDoubleMutant(hashes, hash) == Cardinality(hashes) = 1
SenIsDouble(hashes, hash) == hash \notin hashes /\ Cardinality(hashes) = 1

(* Evidence names the sender of the second hash.                            *)
Evidence(kind, m, hashes) ==
    IF SenIsDouble(hashes, m.hash)
    THEN <<[kind |-> kind, id |-> m.id, height |-> m.height, round |-> m.round,
            hash1 |-> CHOOSE h \in hashes : TRUE, hash2 |-> m.hash]>>
    ELSE <<>>

SenCalled(kind, m) ==
    /\ senCalls < SenMaxCalls /\ senCalls' = senCalls + 1
    /\ senDelivered' = senDelivered \cup {[kind |-> kind, m |-> m]}
    /\ UNCHANGED <<senFile, senSaving, senWorker, senState, senHandle>>

get_proposer_for_height(height) == (height % SenSet) + 1

(* The anomalies of a proposal other than a double one: a late proposer is  *)
(* blamed only when the height is new, and the genesis block has round 0.   *)
handle_proposal(m) ==
    LET expected == get_proposer_for_height(m.height)
        late == m.height > sen.height /\ m.id # expected
        missed == IF late THEN [sen.missed EXCEPT ![expected] = @ + 1] ELSE sen.missed
        evidence == Evidence("proposal", m, Seen(sen.proposals, <<m.height, m.round>>))
        anomalies == Len(evidence)
                     + (IF late /\ missed[expected] >= SenMaxMissed THEN 1 ELSE 0)
                     + (IF m.height = 0 /\ m.round > 0 THEN 1 ELSE 0)
    IN /\ SenCalled("proposal", m)
       /\ sen' = [sen EXCEPT !.height = IF m.height > @ THEN m.height ELSE @,
                             !.missed = missed,
                             !.proposals = Noted(@, <<m.height, m.round>>, m.hash),
                             !.evidence = @ \o evidence,
                             !.anomalies = @ + anomalies,
                             !.reports = IF @ < SenHistory THEN @ + 1 ELSE @]

handle_vote(m) ==
    LET key == <<m.height, m.round, m.id>>
        evidence == Evidence("vote", m, Seen(sen.votes, key))
    IN /\ SenCalled("vote", m)
       /\ sen' = [sen EXCEPT !.votes = Noted(@, key, m.hash),
                             !.evidence = @ \o evidence,
                             !.anomalies = @ + Len(evidence)]

(* save_state reads the fields one by one, then replaces the file, the one  *)
(* of an earlier save as well.                                              *)
SaveReads ==
    /\ senSaving.at = "none"
    /\ senSaving' = [at |-> "torn", height |-> sen.height,
                     anomalies |-> sen.anomalies, evidence |-> <<>>]
    /\ UNCHANGED <<sen, senFile, senWorker, senState, senHandle, senDelivered, senCalls>>

SaveTruncates ==
    /\ senSaving.at = "torn"
    /\ senSaving' = [senSaving EXCEPT !.at = "whole", !.evidence = sen.evidence]
    /\ senFile' = [NoFile EXCEPT !.at = "torn"]
    /\ UNCHANGED <<sen, senWorker, senState, senHandle, senDelivered, senCalls>>

save_state ==
    /\ senSaving.at = "whole"
    /\ senFile' = senSaving /\ senSaving' = NoFile
    /\ UNCHANGED <<sen, senWorker, senState, senHandle, senDelivered, senCalls>>

(* A torn file does not parse; load_state then changes nothing.             *)
load_state ==
    /\ senFile.at = "whole"
    /\ sen' = [sen EXCEPT !.height = senFile.height, !.anomalies = senFile.anomalies,
                          !.evidence = senFile.evidence]
    /\ UNCHANGED <<senFile, senSaving, senWorker, senState, senHandle, senDelivered, senCalls>>

SenRestarts ==
    /\ sen # FreshSentinel
    /\ sen' = FreshSentinel /\ senSaving' = NoFile /\ senState' = "Idle"
    /\ senWorker' = [w \in SenWorkers |-> "none"] /\ senHandle' = {}
    /\ UNCHANGED <<senFile, senDelivered, senCalls>>

(* The watching task.  A shutdown signal reaches the tasks that subscribed  *)
(* before it was sent; stop_watching waits five seconds at most and then    *)
(* reports Idle whatever the task does.                                     *)
start_watching(w) ==
    /\ senWorker[w] = "none"
    /\ senWorker' = [senWorker EXCEPT ![w] = "spawned"] /\ senHandle' = {w}
    /\ UNCHANGED <<sen, senFile, senSaving, senState, senDelivered, senCalls>>

watch_loop(w) ==
    /\ \/ /\ senWorker[w] = "spawned" /\ senState' = "Watching"
          /\ senWorker' = [senWorker EXCEPT ![w] = "watching"]
       \/ /\ senWorker[w] \in {"watching", "signalled"}   \* a message: report, then watch
          /\ senState' = "Watching" /\ UNCHANGED senWorker
       \/ /\ senWorker[w] = "signalled" /\ senState' = "Idle"
          /\ senWorker' = [senWorker EXCEPT ![w] = "ended"]
    /\ UNCHANGED <<sen, senFile, senSaving, senHandle, senDelivered, senCalls>>

StopSignals ==
    /\ senWorker' = [w \in SenWorkers |-> IF senWorker[w] = "watching" THEN "signalled" ELSE senWorker[w]]
    /\ UNCHANGED <<sen, senFile, senSaving, senState, senHandle, senDelivered, senCalls>>

stop_watching ==
    /\ senHandle' = {} /\ senState' = "Idle"
    /\ UNCHANGED <<sen, senFile, senSaving, senWorker, senDelivered, senCalls>>

SenNext ==
    \/ \E h \in SenHeights, r \in SenRounds, id \in SenIds, b \in SenHashes :
         LET m == [height |-> h, round |-> r, id |-> id, hash |-> b]
         IN handle_proposal(m) \/ handle_vote(m)
    \/ SaveReads \/ SaveTruncates \/ save_state \/ load_state \/ SenRestarts

SenTaskNext ==
    \/ \E w \in SenWorkers : start_watching(w) \/ watch_loop(w)
    \/ StopSignals \/ stop_watching

SenSpec == SenInit /\ [][SenNext \/ SenTaskNext]_senVars

SenSent(kind, height, round, id, hash) ==
    [kind |-> kind, m |-> [height |-> height, round |-> round, id |-> id, hash |-> hash]] \in senDelivered

(* Whatever the cache forgets and whatever a restart loads back, DoubleVote *)
(* evidence names two different hashes for which the validator it accuses   *)
(* voted at its height and round.  About handle_vote, save_state and        *)
(* load_state.                                                              *)
EvidenceJustified ==
    \A i \in DOMAIN sen.evidence :
        LET e == sen.evidence[i]
        IN e.kind = "vote" =>
               /\ e.hash1 # e.hash2
               /\ \A hash \in {e.hash1, e.hash2} : SenSent("vote", e.height, e.round, e.id, hash)

(* DoubleProposal evidence names two blocks that the validator it accuses   *)
(* proposed at its height and round.  About handle_proposal.                *)
AccusedOfTwoBlocks ==
    \A i \in DOMAIN sen.evidence :
        LET e == sen.evidence[i]
        IN e.kind = "proposal" =>
               /\ e.hash1 # e.hash2
               /\ \A hash \in {e.hash1, e.hash2} : SenSent("proposal", e.height, e.round, e.id, hash)
=============================================================================
