-------------------------- MODULE ConsensusEngine --------------------------
(***************************************************************************)
(* A network of HotStuffEngine instances (src/consensus/engine.rs).         *)
(*                                                                         *)
(* An engine is one task that takes commands from a channel and runs each   *)
(* handler to its end, so one command is one action. The operators below    *)
(* follow the call chain of the code: each maps an engine to the engine and *)
(* the broadcasts the call leaves behind, and an error returned by `?` ends *)
(* the chain with what was done so far.                                     *)
(*                                                                         *)
(* What carries a broadcast of one engine to the command channel of another *)
(* is not part of the source (the network branch of run() is empty); it is  *)
(* modelled as a pool of sent messages from which any message is delivered  *)
(* to any engine, at any time, any number of times, or never.               *)
(***************************************************************************)
EXTENDS Integers, FiniteSets, Sequences

CONSTANTS
    Nodes,         \* the engines
    Validators,    \* sequence of the nodes in the validator set, by index
    None,          \* Option::None
    SavedHeight,   \* height of the latest stored block at start, -1 if none
    AppliedHeight, \* current_height of the state manager at that time
    MaxRound,      \* config.max_rounds
    MaxHeight,     \* bound: no proposal is made above this height
    MaxFaults      \* bound: blocks that do not apply, failed saves, stops

\* A block: its hash stands for its content, prev is header.previous_hash, and
\* `applies` tells whether the state manager can execute its transactions.
Block == [hash : Nat, height : Nat, prev : Nat \cup {None}, applies : BOOLEAN]

ASSUME EngineAssumption ==
    /\ Validators \in Seq(Nodes)
    /\ SavedHeight \in Nat \cup {-1}
    /\ AppliedHeight \in Nat
    /\ MaxRound \in Nat
    /\ MaxHeight \in Nat
    /\ MaxFaults \in Nat
    /\ None \notin Block

VARIABLES
    engine,    \* each engine, with its storage and its state manager
    net,       \* every message ever broadcast
    commits,   \* the blocks of the BlockCommitted events of each engine
    nextHash,  \* hash of the next block: no two blocks have the same content
    faults     \* faults that have happened so far

engineVars == <<engine, net, commits, nextHash, faults>>

ValidatorSet == {Validators[i] : i \in DOMAIN Validators}

Proposal == [type : {"proposal"}, height : Nat, round : Nat, block : Block, proposer : Nodes]
VoteType == {"prevote", "precommit"}
Vote == [type : VoteType, height : Nat, round : Nat, hash : Nat, voter : Nodes]

\* add_vote files a vote under its height and block hash and keeps one for
\* each voter, whatever round it was cast in.
Recorded == [type : VoteType, height : Nat, hash : Nat, voter : Nodes]

Engine == [loop : {"new", "running", "ended"},
           height : Nat, round : Nat,
           state : {"Idle", "Proposing", "Prevoting", "WaitingForBlock"},
           proposal : Proposal \cup {None}, votes : SUBSET Recorded,
           last : Block \cup {None}, applied : Nat]

EngineTypeOK ==
    /\ engine \in [Nodes -> Engine]
    /\ net \subseteq Proposal \cup Vote
    /\ commits \in [Nodes -> SUBSET Block]
    /\ nextHash \in Nat
    /\ faults \in Nat

FirstBlock ==
    IF SavedHeight = -1 THEN None
    ELSE [hash |-> 0, height |-> SavedHeight, prev |-> None, applies |-> TRUE]

EngineInit ==
    /\ engine = [n \in Nodes |->
          [loop |-> "new", height |-> 0, round |-> 0, state |-> "Idle",
           proposal |-> None, votes |-> {}, last |-> FirstBlock,
           applied |-> AppliedHeight]]
    /\ net = {}
    /\ commits = [n \in Nodes |-> {}]
    /\ nextHash = 1
    /\ faults = 0

-----------------------------------------------------------------------------
(* The validator set. Every validator of it is active. *)

quorumMutant == (Len(Validators) * 2) \div 3
quorum == (Len(Validators) * 2) \div 3 + 1

get_proposer(h, r) == Validators[((h + r) % Len(Validators)) + 1]

am_i_proposer(n, h, r) == n \in ValidatorSet /\ get_proposer(h, r) = n

-----------------------------------------------------------------------------
(* The call chain. A result is the engine, what it broadcast, the block it   *)
(* committed or None, whether it returned an error, and the faults on the    *)
(* way. `draft` is what the environment decides: the hash of a block created *)
(* on the way, whether its transactions apply, and whether save_block fails. *)

Drafts ==
    LET bad == IF faults < MaxFaults THEN {TRUE, FALSE} ELSE {FALSE}
    IN  [hash : {nextHash}, applies : {~x : x \in bad}, saveFails : bad]

Ok(e) == [eng |-> e, out |-> {}, commit |-> None, err |-> FALSE, faults |-> 0]
Err(e) == [Ok(e) EXCEPT !.err = TRUE]
Sent(m, res) == [res EXCEPT !.out = @ \cup {m}]

create_block(e, h, draft) ==
    [hash |-> draft.hash, height |-> h, prev |-> e.last.hash, applies |-> draft.applies]

start_new_round(n, e, h, r, draft) ==
    LET p == [type |-> "proposal", height |-> h, round |-> r,
              block |-> create_block(e, h, draft), proposer |-> n]
    IN  IF am_i_proposer(n, h, r) /\ h <= MaxHeight
        THEN IF e.last = None
             THEN Err([e EXCEPT !.round = r, !.state = "Proposing"])
             ELSE [Sent(p, Ok([e EXCEPT !.round = r, !.proposal = p, !.state = "Prevoting"]))
                     EXCEPT !.faults = IF draft.applies THEN 0 ELSE 1]
        ELSE Ok([e EXCEPT !.round = r, !.state = "WaitingForBlock"])

commit_blockMutant(n, e, draft) ==
    LET b == e.proposal.block
        saved == [e EXCEPT !.applied = b.height, !.height = e.height + 1,
                           !.last = IF draft.saveFails THEN @ ELSE b]
    IN  IF e.proposal = None \/ b.height # e.applied + 1 \/ ~b.applies
        THEN Err(e)
        ELSE [start_new_round(n, saved, e.height + 1, 0, draft) EXCEPT !.commit = b]
\* The block that is committed is the one in current_proposal.
commit_block(n, e, draft) ==
    LET b == e.proposal.block
        applied == [e EXCEPT !.applied = b.height]
        saved == [applied EXCEPT !.last = b, !.height = e.height + 1]
    IN  IF e.proposal = None THEN Err(e)
        ELSE IF b.height # e.applied + 1 \/ ~b.applies THEN Err(e)
        ELSE IF draft.saveFails THEN [Err(applied) EXCEPT !.faults = 1]
        ELSE [start_new_round(n, saved, e.height + 1, 0, draft) EXCEPT !.commit = b]

add_vote(e, v) ==
    [e EXCEPT !.votes = @ \cup
        {[type |-> v.type, height |-> v.height, hash |-> v.hash, voter |-> v.voter]}]

HasQuorum(e, type, h, hash) ==
    Cardinality({v \in e.votes : v.type = type /\ v.height = h /\ v.hash = hash}) >= quorum

check_precommit_quorum(n, e, hash, draft) ==
    IF HasQuorum(e, "precommit", e.height, hash) THEN commit_block(n, e, draft) ELSE Ok(e)

OwnVote(n, e, type, hash) ==
    [type |-> type, height |-> e.height, round |-> e.round, hash |-> hash, voter |-> n]

send_precommit(n, e, hash, draft) ==
    LET v == OwnVote(n, e, "precommit", hash)
    IN  IF n \notin ValidatorSet THEN Err(e)
        ELSE Sent(v, check_precommit_quorum(n, add_vote(e, v), hash, draft))

check_prevote_quorum(n, e, hash, draft) ==
    IF HasQuorum(e, "prevote", e.height, hash) THEN send_precommit(n, e, hash, draft) ELSE Ok(e)

send_prevote(n, e, hash, draft) ==
    LET v == OwnVote(n, e, "prevote", hash)
    IN  IF n \notin ValidatorSet THEN Err(e)
        ELSE Sent(v, check_prevote_quorum(n, add_vote(e, v), hash, draft))

(* A block with a transaction that validate_basic refuses is dropped with   *)
(* nothing changed: it is a proposal that never arrived.                    *)
validate_block(e, b) ==
    /\ b.height = e.height
    /\ e.last # None => b.prev = e.last.hash

accepts_proposal(e, p) ==
    /\ p.height = e.height
    /\ p.round = e.round
    /\ p.proposer = get_proposer(e.height, e.round)
    /\ validate_block(e, p.block)

handle_proposal(n, e, p, draft) ==
    send_prevote(n, [e EXCEPT !.proposal = p], p.block.hash, draft)

accepts_voteMutant(e, v) == v.height = e.height
accepts_vote(e, v) == v.height = e.height /\ v.round = e.round

handle_vote(n, e, v, draft) ==
    IF v.type = "prevote"
    THEN check_prevote_quorum(n, add_vote(e, v), v.hash, draft)
    ELSE check_precommit_quorum(n, add_vote(e, v), v.hash, draft)

-----------------------------------------------------------------------------
(* The commands of run(). A handler's error is dropped, the command is done. *)

Apply(n, res) ==
    /\ engine' = [engine EXCEPT ![n] = res.eng]
    /\ net' = net \cup res.out
    /\ commits' = [commits EXCEPT ![n] = IF res.commit = None THEN @ ELSE @ \cup {res.commit}]
    /\ nextHash' = nextHash + Cardinality({m \in res.out : m.type = "proposal"})
    /\ faults' = faults + res.faults
    /\ faults' <= MaxFaults

\* run() up to its loop. The loop is not entered if the first round fails.
Start(n) ==
    /\ engine[n].loop = "new"
    /\ \E draft \in Drafts :
         LET e == [engine[n] EXCEPT !.height = IF SavedHeight > @ THEN SavedHeight ELSE @]
             res == start_new_round(n, e, e.height, 0, draft)
         IN  Apply(n, [res EXCEPT !.eng.loop = IF res.err THEN "ended" ELSE "running"])

ProposalReceived(n) ==
    /\ engine[n].loop = "running"
    /\ \E p \in {m \in net : m.type = "proposal"}, draft \in Drafts :
         /\ accepts_proposal(engine[n], p)
         /\ Apply(n, handle_proposal(n, engine[n], p, draft))

VoteReceived(n) ==
    /\ engine[n].loop = "running"
    /\ \E v \in {m \in net : m.type # "proposal"}, draft \in Drafts :
         /\ accepts_vote(engine[n], v)
         /\ Apply(n, handle_vote(n, engine[n], v, draft))

\* A Timeout for another height or round, or in the last round, does nothing.
Timeout(n) ==
    /\ engine[n].loop = "running"
    /\ engine[n].round < MaxRound
    /\ \E draft \in Drafts :
         Apply(n, start_new_round(n, engine[n], engine[n].height, engine[n].round + 1, draft))

Stop(n) ==
    /\ engine[n].loop = "running"
    /\ Apply(n, [Ok([engine[n] EXCEPT !.loop = "ended"]) EXCEPT !.faults = 1])

EngineNext ==
    \E n \in Nodes :
        Start(n) \/ ProposalReceived(n) \/ VoteReceived(n) \/ Timeout(n) \/ Stop(n)

\* The runtime polls the task of a started engine, and synchrony means that
\* what was broadcast reaches every engine. This is more than the code gives:
\* `net` offers a message again until it is accepted, while an engine drops for
\* good one that comes too early for it. A run that fails to progress even so
\* fails all the more with the code's deliveries; no run uses it to pass.
\* Timeouts and stops are never fair.
Calm == faults = 0 /\ \A n \in Nodes : engine[n].round = 0
Deliver ==
    /\ Calm
    /\ \E n \in Nodes : Start(n) \/ ProposalReceived(n) \/ VoteReceived(n)
EngineFairness == WF_engineVars(Deliver)

EngineSpec == EngineInit /\ [][EngineNext]_engineVars
EngineFairSpec == EngineSpec /\ EngineFairness

-----------------------------------------------------------------------------
(* Properties *)

\* All votes cast in one round of one height name the same block, for both
\* kinds of votes and all validators, although engines vote on whatever
\* arrives, may vote without having seen the proposal, and keep no record of
\* having voted: proposals, prevotes and precommits that are lost, repeated or
\* late never make two validators, or one twice, vote for different blocks.
OneBlockPerRound ==
    \A u, v \in {m \in net : m.type # "proposal"} :
        u.height = v.height /\ u.round = v.round => u.hash = v.hash

\* Two engines never commit different blocks at one height, and one engine
\* does not commit two: commit_block takes the block from current_proposal,
\* which rounds overwrite and nothing clears.
Agreement ==
    \A m, n \in Nodes : \A b \in commits[m], c \in commits[n] :
        b.height = c.height => b = c

\* More than two thirds of the validators, each counted once, have sent a vote
\* of this type for one block of one height, in whatever rounds.
Backed(type, height, hash) ==
    LET for == {m \in net : m.type = type /\ m.height = height /\ m.hash = hash}
        voters == {n \in ValidatorSet : \E m \in for : m.voter = n}
    IN  3 * Cardinality(voters) > 2 * Len(Validators)

\* Nothing is committed at a height without both phases: every precommit that
\* is sent has the prevotes of more than two thirds behind it, and an engine
\* commits at a height only after as many precommits for one block of it,
\* however votes are lost, repeated, delayed or cast again in a later round.
\* Which block it then commits is what Agreement is about.
CommitNeedsTwoQuorums ==
    /\ \A m \in net : m.type = "precommit" => Backed("prevote", m.height, m.hash)
    /\ \A n \in Nodes : \A b \in commits[n] :
           \E m \in net : /\ m.type = "precommit" /\ m.height = b.height
                         /\ Backed("precommit", m.height, m.hash)

\* The blocks an engine commits form a chain that its storage ends with: the
\* parent checked when a proposal arrived is still the latest stored block
\* when that proposal is committed.
ChainLinked ==
    \A n \in Nodes : commits[n] # {} =>
        /\ engine[n].last \in commits[n]
        /\ engine[n].last.height = engine[n].height - 1
        /\ \A b, c \in commits[n] : c.height = b.height + 1 => c.prev = b.hash

\* While no timeout fires and nothing fails, every engine commits every height:
\* no order of deliveries leaves an engine behind.
Progress == []Calm => <>(\A n \in Nodes : engine[n].height > MaxHeight)
=============================================================================
