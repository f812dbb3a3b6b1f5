---------------------------- MODULE SafetyRules ----------------------------
(***************************************************************************)
(* The safety rules, the vote manager and the vote aggregator              *)
(* (consensus/safety.rs, consensus/vote.rs), which call the validator      *)
(* manager.                                                                *)
(***************************************************************************)
EXTENDS Validators

CONSTANTS SafetyHeights, SafetyRounds, SafetyHashes,
          SafetyThreads,   \* threads that commit blocks
          SafetyMaxCalls,  \* bound on proposals, votes, locks and reports
          AggVoters, AggQuorum

ASSUME SafetyAssumption == SafetyHeights \subseteq Nat /\ SafetyRounds \subseteq Nat

VARIABLES seen_proposals,  \* keys (height, round, proposer)
          locked_proposal, committed_blocks,
          committing,      \* block each thread found uncommitted, or None
          seen_votes, storedVotes,
          votesHung, proposalsHung, \* the locks on them are lost
          safetyLog,       \* the deliveries so far
          aggregated       \* hash -> counts and voters

safetyVars == <<seen_proposals, locked_proposal, committed_blocks, committing,
                seen_votes, storedVotes, votesHung, proposalsHung, safetyLog>>

NoHash == 0
Unlocked == [height |-> 0, hash |-> NoHash]

SafetyTypeOK ==
    /\ seen_proposals \subseteq (SafetyHeights \X SafetyRounds \X ValIds)
    /\ committed_blocks \subseteq SafetyHashes
    /\ committing \in [SafetyThreads -> SafetyHashes \cup {NoHash}]
    /\ votesHung \in BOOLEAN /\ proposalsHung \in BOOLEAN
    /\ Len(safetyLog) <= SafetyMaxCalls

SafetyInit ==
    /\ seen_proposals = {} /\ locked_proposal = Unlocked /\ committed_blocks = {}
    /\ committing = [t \in SafetyThreads |-> NoHash]
    /\ seen_votes = {} /\ storedVotes = {} /\ votesHung = FALSE
    /\ proposalsHung = FALSE
    /\ safetyLog = <<>>
    /\ aggregated = [h \in SafetyHashes |-> [Prevote |-> 0, Precommit |-> 0, voters |-> {}]]

Delivered(kind, id, height, round, hash, answer) ==
    /\ Len(safetyLog) < SafetyMaxCalls
    /\ safetyLog' = Append(safetyLog, [kind |-> kind, id |-> id, height |-> height,
                                       round |-> round, hash |-> hash, answer |-> answer])

ProposalKey(height, round, proposer) == <<height, round, proposer>>

(* The lock forbids another block at its height and any at a lower one.     *)
LockAllows(height, hash) ==
    \/ locked_proposal = Unlocked
    \/ height = locked_proposal.height /\ hash = locked_proposal.hash
    \/ height > locked_proposal.height

(* A proposal from the expected proposer.  For a key seen before it slashes *)
(* a twentieth of the stake while it holds the lock on seen_proposals, so   *)
(* that lock is lost with the one on the records.                           *)
check_proposal_safety(height, round, proposer, hash) ==
    LET key == ProposalKey(height, round, proposer)
        repeat == key \in seen_proposals
    IN /\ ManagerProposer(height, round) = proposer /\ ~proposalsHung
       /\ Delivered("proposal", proposer, height, round, hash, ~repeat /\ LockAllows(height, hash))
       /\ seen_proposals' = seen_proposals \cup {key}
       /\ IF repeat /\ ~valHung
          THEN slash_id(proposer, valRecords[proposer].stake \div 20)
          ELSE UNCHANGED <<valRecords, valHung>>
       /\ proposalsHung' = (repeat /\ valHung')
       /\ UNCHANGED <<locked_proposal, committed_blocks, committing,
                      seen_votes, storedVotes, votesHung>>

report_equivocation(id) ==
    /\ Delivered("report", id, 0, 0, NoHash, TRUE)
    /\ slash_double_sign(id)
    /\ UNCHANGED <<seen_proposals, locked_proposal, committed_blocks, committing,
                   seen_votes, storedVotes, votesHung, proposalsHung>>

lock_proposal(height, hash) ==
    /\ Delivered("lock", 0, height, 0, NoHash, TRUE)
    /\ locked_proposal' = [height |-> height, hash |-> hash]
    /\ UNCHANGED <<valRecords, valHung, seen_proposals, committed_blocks, committing,
                   seen_votes, storedVotes, votesHung, proposalsHung>>

(* unlock, called on its own.                                               *)
unlock ==
    /\ locked_proposal # Unlocked /\ locked_proposal' = Unlocked
    /\ UNCHANGED <<valRecords, valHung, seen_proposals, committed_blocks, committing,
                   seen_votes, storedVotes, votesHung, proposalsHung, safetyLog>>

(* commit_block looks under one lock, and inserts and unlocks under others. *)
CommitChecks(t, hash) ==
    /\ committing[t] = NoHash /\ hash \notin committed_blocks
    /\ committing' = [committing EXCEPT ![t] = hash]
    /\ UNCHANGED <<valRecords, valHung, seen_proposals, locked_proposal, committed_blocks,
                   seen_votes, storedVotes, votesHung, proposalsHung, safetyLog>>

SafetyCommit(t) ==
    /\ committing[t] # NoHash
    /\ committed_blocks' = committed_blocks \cup {committing[t]}
    /\ locked_proposal' = Unlocked
    /\ committing' = [committing EXCEPT ![t] = NoHash]
    /\ UNCHANGED <<valRecords, valHung, seen_proposals, seen_votes, storedVotes,
                   votesHung, proposalsHung, safetyLog>>

(* A vote that passes validate_vote.  Its key is recorded first; store_vote *)
(* then holds the write lock on the votes while check_quorum asks for the   *)
(* read lock, so no call that stores a vote returns.                        *)
ManagerAddVote(vote) ==
    LET key == [vote EXCEPT !.hash = NoHash]
        round == {v \in storedVotes : v.height # vote.height \/ v.round = vote.round}
    IN /\ ~valHung /\ vote.voter \in ValActive
       /\ key \notin seen_votes
       /\ Delivered("vote", 0, 0, 0, NoHash, TRUE)
       /\ seen_votes' = seen_votes \cup {key}
       /\ storedVotes' = IF votesHung THEN storedVotes ELSE round \cup {vote}
       /\ votesHung' = TRUE
       /\ UNCHANGED <<valRecords, valHung, seen_proposals, locked_proposal,
                      committed_blocks, committing, proposalsHung>>

(* Proposals, locks and commits use the validators' set; votes share        *)
(* nothing with them but the validators.                                    *)
SafetyNext ==
    \/ /\ \/ \E h \in SafetyHeights, r \in SafetyRounds, id \in ValIds, b \in SafetyHashes :
               check_proposal_safety(h, r, id, b)
          \/ \E id \in ValIds : report_equivocation(id)
          \/ \E h \in SafetyHeights, b \in SafetyHashes : lock_proposal(h, b)
          \/ unlock
          \/ \E t \in SafetyThreads : (\E b \in SafetyHashes : CommitChecks(t, b)) \/ SafetyCommit(t)
       /\ UNCHANGED <<address_to_id, next_validator_id, current_set, valUser, valCpu>>
    \/ ValNext /\ UNCHANGED safetyVars

VoteNext ==
    \/ /\ \/ \E id \in ValIds : report_equivocation(id)
          \/ \E h \in SafetyHeights, r \in SafetyRounds, b \in SafetyHashes,
                k \in {"Prevote", "Precommit"}, id \in ValIds :
               ManagerAddVote([height |-> h, round |-> r, kind |-> k, voter |-> id, hash |-> b])
       /\ UNCHANGED <<address_to_id, next_validator_id, current_set, valUser, valCpu>>
    \/ ValNext /\ UNCHANGED safetyVars

SafetySpec == ValInit /\ SafetyInit /\ [][SafetyNext \/ VoteNext]_<<valVars, safetyVars>>

(* The aggregator counts a voter once for a block, whatever the kind, so a  *)
(* block that wins has two quorums of different voters.                     *)
AggCounts(kind, voter, hash) == voter \notin aggregated[hash].voters

AggAddVote(kind, voter, hash) ==
    /\ AggCounts(kind, voter, hash)
    /\ aggregated' = [aggregated EXCEPT ![hash][kind] = @ + 1, ![hash].voters = @ \cup {voter}]

get_winner == {h \in SafetyHashes : aggregated[h].Prevote >= AggQuorum
                                    /\ aggregated[h].Precommit >= AggQuorum}

AggNext ==
    \/ \E k \in {"Prevote", "Precommit"}, v \in AggVoters, h \in SafetyHashes : AggAddVote(k, v, h)
    \/ aggregated' = [h \in SafetyHashes |-> [Prevote |-> 0, Precommit |-> 0, voters |-> {}]]

SameCall(a, b) == a.kind = b.kind /\ a.id = b.id /\ a.height = b.height /\ a.round = b.round

(* A stake is cut only when the validator was reported, or when a proposal  *)
(* with its height, round and proposer had been delivered before, be it the *)
(* same block: proposing in several rounds is not punished.                 *)
(* About check_proposal_safety and slash.                                   *)
SlashedForRepeat ==
    \A id \in DOMAIN valRecords : valRecords[id].slashed > 0 =>
        \E j \in DOMAIN safetyLog :
            /\ safetyLog[j].id = id
            /\ \/ safetyLog[j].kind = "report"
               \/ /\ safetyLog[j].kind = "proposal"
                  /\ \E i \in 1..(j - 1) : SameCall(safetyLog[i], safetyLog[j])

(* A stake is cut only when the validator was reported, or when it proposed *)
(* two blocks at one height and round.  About check_proposal_safety, whose  *)
(* key leaves the block out.                                                *)
SlashedForTwoBlocks ==
    \A id \in DOMAIN valRecords : valRecords[id].slashed > 0 =>
        \E i, j \in DOMAIN safetyLog :
            /\ safetyLog[j].id = id
            /\ \/ safetyLog[j].kind = "report"
               \/ /\ safetyLog[j].kind = "proposal" /\ SameCall(safetyLog[i], safetyLog[j])
                  /\ safetyLog[i].hash # safetyLog[j].hash
=============================================================================
