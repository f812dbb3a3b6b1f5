----------------------- MODULE ConsensusEngine_proofs -----------------------
(***************************************************************************)
(* Proofs about the consensus engines, for any number of nodes, validators,*)
(* rounds, heights and faults: type correctness, that all votes of one     *)
(* round of one height are for one block, that a commit needs two quorums, *)
(* and that the blocks an engine commits are linked; and about the two     *)
(* parts beside the engine, the validator manager and the safety rules.    *)
(*                                                                         *)
(* Votes: an engine's (height, round) only moves up, and each call of      *)
(* start_new_round moves it strictly up, so the one proposer of a height   *)
(* and round makes at most one proposal for it; and an engine votes only   *)
(* for the proposal, or for the hash in a vote, of its own height and round.*)
(*                                                                         *)
(* Links: what an engine proposes or commits extends the last block it     *)
(* committed, which is the one its height and last hash name.              *)
(*                                                                         *)
(* Quorums: each vote an engine has recorded was sent, and by a validator, *)
(* so the votes it counts for a block map one to one into the validators   *)
(* that sent one.                                                          *)
(***************************************************************************)
EXTENDS ConsensusEngine, SafetyRules, FiniteSetTheorems, TLAPS

Proposals == {m \in net : m.type = "proposal"}
Votes == {m \in net : m.type # "proposal"}

\* Where a proposal stands: made by the proposer of its height and round, who
\* has started and has not gone back behind it since.
ProposerPast ==
    \A p \in Proposals :
        /\ p.proposer = get_proposer(p.height, p.round)
        /\ engine[p.proposer].loop # "new"
        /\ \/ p.height < engine[p.proposer].height
           \/ p.height = engine[p.proposer].height /\ p.round <= engine[p.proposer].round

OneProposal ==
    \A p, q \in Proposals : p.height = q.height /\ p.round = q.round => p = q

\* A vote names the block of a proposal for the same height and round.
VotesBacked ==
    \A v \in Votes : \E p \in Proposals :
        p.height = v.height /\ p.round = v.round /\ p.block.hash = v.hash

Inv == EngineTypeOK /\ ProposerPast /\ OneProposal /\ VotesBacked

-----------------------------------------------------------------------------
(* What the call chain returns. *)

Draft == [hash : Nat, applies : BOOLEAN, saveFails : BOOLEAN]

Result == [eng : Engine, out : SUBSET (Proposal \cup Vote), commit : Block \cup {None},
           err : BOOLEAN, faults : Nat]

\* The result of entering height h and round r: at most one proposal, for them.
Entered(n, loop, h, r, res) ==
    /\ res \in Result
    /\ res.eng.loop = loop /\ res.eng.height = h /\ res.eng.round = r
    /\ \A m \in res.out : /\ m.type = "proposal"
                          /\ m.proposer = n /\ get_proposer(h, r) = n
                          /\ m.height = h /\ m.round = r
    /\ \A p, q \in res.out : p = q

\* The result of the chain that began at height h and round r with a vote for
\* `hash`: the votes are for them, and it stays there or enters the next height.
Chained(n, loop, h, r, hash, res) ==
    /\ res \in Result
    /\ res.eng.loop = loop
    /\ \A m \in res.out : m.type # "proposal" => m.height = h /\ m.round = r /\ m.hash = hash
    /\ \/ /\ res.eng.height = h /\ res.eng.round = r
          /\ \A m \in res.out : m.type # "proposal"
       \/ /\ res.eng.height = h + 1 /\ res.eng.round = 0
          /\ \A p \in res.out : p.type = "proposal" =>
               /\ p.proposer = n /\ get_proposer(h + 1, 0) = n
               /\ p.height = h + 1 /\ p.round = 0
          /\ \A p, q \in res.out : p.type = "proposal" /\ q.type = "proposal" => p = q

(* A step makes no proposal or one.                                         *)
LEMMA NoneCounted == Cardinality({}) = 0
BY Zenon DEF Cardinality

LEMMA OneCounted == \A x : Cardinality({x}) = 1
<1> TAKE x
<1> DEFINE Less(T) == T \ {CHOOSE y : y \in T}
           Counts(f) == f = [T \in SUBSET {x} |-> IF T = {} THEN 0 ELSE 1 + f[Less(T)]]
           f0 == [T \in SUBSET {x} |-> IF T = {} THEN 0 ELSE 1]
           size == CHOOSE f : Counts(f)
<1>1. SUBSET {x} = {{}, {x}} /\ Less({x}) = {}
  <2>1. (CHOOSE y : y \in {x}) = x
    BY Zenon
  <2> QED BY <2>1, Zenon
<1>2. Cardinality({x}) = size[{x}]
  BY Zenon DEF Cardinality
<1> HIDE DEF Less
<1>3. Counts(f0)
  <2>1. \A T \in SUBSET {x} : T # {} => Less(T) = {}
    BY <1>1, Zenon
  <2>2. {} \in SUBSET {x} /\ f0[{}] = 0
    BY Zenon
  <2>3. \A T \in SUBSET {x} : (IF T = {} THEN 0 ELSE 1) = IF T = {} THEN 0 ELSE 1 + f0[Less(T)]
    BY <2>1, <2>2
  <2> QED BY <2>3, Zenon
<1>4. Counts(size)
  BY <1>3, Zenon
<1> HIDE DEF size
<1>5. size[{x}] = 1 + size[{}] /\ size[{}] = 0
  BY <1>1, <1>4, Zenon
<1> QED BY <1>2, <1>5

LEMMA DraftType == ASSUME EngineTypeOK, NEW d \in Drafts PROVE d \in Draft
  BY Zenon DEF EngineTypeOK, Drafts, Draft

LEMMA OkType ==
  ASSUME NEW e \in Engine
  PROVE  Ok(e) \in Result /\ Err(e) \in Result
  BY Zenon DEF Ok, Err, Result

LEMMA StartNewRound ==
  ASSUME NEW n \in Nodes, NEW e \in Engine, NEW r \in Nat, NEW d \in Draft
  PROVE  Entered(n, e.loop, e.height, r, start_new_round(n, e, e.height, r, d))
  <1> DEFINE p == [type |-> "proposal", height |-> e.height, round |-> r,
                   block |-> create_block(e, e.height, d), proposer |-> n]
  <1>1. CASE am_i_proposer(n, e.height, r) /\ e.height <= MaxHeight /\ e.last # None
    <2>1. create_block(e, e.height, d) \in Block
      BY <1>1, Zenon DEF create_block, Engine, Block, Draft
    <2>2. p \in Proposal
      BY <2>1, Zenon DEF Proposal, Engine
    <2> DEFINE f == [e EXCEPT !.round = r, !.proposal = p, !.state = "Prevoting"]
    <2> HIDE DEF p
    <2>3. f \in Engine /\ f.loop = e.loop /\ f.height = e.height /\ f.round = r
      BY <2>2, Zenon DEF Engine
    <2> HIDE DEF f
    <2>4. start_new_round(n, e, e.height, r, d) =
            [eng |-> f, out |-> {p}, commit |-> None, err |-> FALSE,
             faults |-> IF d.applies THEN 0 ELSE 1]
      BY <1>1, Zenon DEF start_new_round, Sent, Ok, f, p
    <2>5. p.type = "proposal" /\ p.proposer = n /\ p.height = e.height /\ p.round = r
      BY Zenon DEF p
    <2>6. get_proposer(e.height, r) = n
      BY <1>1, Zenon DEF am_i_proposer
    <2>7. QED
      BY <2>2, <2>3, <2>4, <2>5, <2>6 DEF Entered, Result
  <1>2. CASE am_i_proposer(n, e.height, r) /\ e.height <= MaxHeight /\ e.last = None
    <2> DEFINE f == [e EXCEPT !.round = r, !.state = "Proposing"]
    <2>1. f \in Engine /\ f.loop = e.loop /\ f.height = e.height /\ f.round = r
      BY Zenon DEF Engine
    <2>2. start_new_round(n, e, e.height, r, d) =
            [eng |-> f, out |-> {}, commit |-> None, err |-> TRUE, faults |-> 0]
      BY <1>2, Zenon DEF start_new_round, Err, Ok
    <2> HIDE DEF f
    <2>3. QED
      BY <2>1, <2>2 DEF Entered, Result
  <1>3. CASE ~(am_i_proposer(n, e.height, r) /\ e.height <= MaxHeight)
    <2> DEFINE f == [e EXCEPT !.round = r, !.state = "WaitingForBlock"]
    <2>1. f \in Engine /\ f.loop = e.loop /\ f.height = e.height /\ f.round = r
      BY Zenon DEF Engine
    <2>2. start_new_round(n, e, e.height, r, d) =
            [eng |-> f, out |-> {}, commit |-> None, err |-> FALSE, faults |-> 0]
      BY <1>3, Zenon DEF start_new_round, Ok
    <2> HIDE DEF f
    <2>3. QED
      BY <2>1, <2>2 DEF Entered, Result
  <1>4. QED
    BY <1>1, <1>2, <1>3, Zenon

LEMMA StaysPut ==
  ASSUME NEW n \in Nodes, NEW e \in Engine, NEW hash \in Nat
  PROVE  /\ Chained(n, e.loop, e.height, e.round, hash, Ok(e))
         /\ Chained(n, e.loop, e.height, e.round, hash, Err(e))
  BY OkType, Zenon DEF Ok, Err, Chained

LEMMA CommitBlock ==
  ASSUME NEW n \in Nodes, NEW e \in Engine, NEW hash \in Nat, NEW d \in Draft
  PROVE  Chained(n, e.loop, e.height, e.round, hash, commit_block(n, e, d))
  <1> DEFINE b == e.proposal.block
             applied == [e EXCEPT !.applied = b.height]
             saved == [applied EXCEPT !.last = b, !.height = e.height + 1]
             new == start_new_round(n, saved, e.height + 1, 0, d)
  <1>1. CASE e.proposal = None \/ b.height # e.applied + 1 \/ ~b.applies
    BY <1>1, StaysPut, Zenon DEF commit_block
  <1>2. CASE ~(e.proposal = None \/ b.height # e.applied + 1 \/ ~b.applies)
    <2>1. b \in Block /\ b.height \in Nat
      BY <1>2, Zenon DEF Engine, Proposal, Block
    <2> HIDE DEF b
    <2>2. applied \in Engine /\ applied.loop = e.loop /\ applied.height = e.height
            /\ applied.round = e.round
      BY <2>1, Zenon DEF Engine
    <2> HIDE DEF applied
    <2>3. saved \in Engine /\ saved.loop = e.loop /\ saved.height = e.height + 1
      <3> DEFINE h == e.height + 1
      <3>1. h \in Nat
        BY DEF Engine
      <3> HIDE DEF h
      <3>2. [applied EXCEPT !.last = b, !.height = h] \in Engine
        BY <2>1, <2>2, <3>1, Zenon DEF Engine
      <3>3. /\ [applied EXCEPT !.last = b, !.height = h].loop = applied.loop
            /\ [applied EXCEPT !.last = b, !.height = h].height = h
        BY <2>2, Zenon DEF Engine
      <3>4. QED
        BY <2>2, <3>2, <3>3, Zenon DEF h
    <2>4. CASE d.saveFails
      <3>1. commit_block(n, e, d) = [eng |-> applied, out |-> {}, commit |-> None, err |-> TRUE,
                                     faults |-> 1]
        BY <1>2, <2>4, Zenon DEF commit_block, Err, Ok, applied, b
      <3>2. QED
        BY <2>2, <3>1 DEF Chained, Result
    <2>5. CASE ~d.saveFails
      <3> HIDE DEF saved
      <3>1. Entered(n, e.loop, e.height + 1, 0, new)
        BY <2>3, StartNewRound, Zenon
      <3>2. commit_block(n, e, d) = [new EXCEPT !.commit = b]
        BY <1>2, <2>5, Zenon DEF commit_block, applied, saved, b
      <3> HIDE DEF new
      <3>3. [new EXCEPT !.commit = b] \in Result
        BY <2>1, <3>1, Zenon DEF Entered, Result
      <3>4. [new EXCEPT !.commit = b].eng = new.eng /\ [new EXCEPT !.commit = b].out = new.out
        BY <3>1, Zenon DEF Entered, Result
      <3>5. QED
        BY <3>1, <3>2, <3>3, <3>4, Zenon DEF Entered, Chained
    <2>6. QED
      BY <2>4, <2>5, Zenon DEF Draft
  <1>3. QED
    BY <1>1, <1>2, Zenon

\* A vote that is recorded leaves an engine where it is.
LEMMA AddVote ==
  ASSUME NEW e \in Engine, NEW v \in Vote
  PROVE  /\ add_vote(e, v) \in Engine
         /\ add_vote(e, v).loop = e.loop
         /\ add_vote(e, v).height = e.height
         /\ add_vote(e, v).round = e.round
  <1>1. [type |-> v.type, height |-> v.height, hash |-> v.hash, voter |-> v.voter] \in Recorded
    BY Zenon DEF Vote, Recorded
  <1>2. QED
    BY <1>1, Zenon DEF add_vote, Engine

LEMMA OwnVoteType ==
  ASSUME NEW n \in Nodes, NEW e \in Engine, NEW type \in VoteType, NEW hash \in Nat
  PROVE  /\ OwnVote(n, e, type, hash) \in Vote
         /\ OwnVote(n, e, type, hash).type # "proposal"
         /\ OwnVote(n, e, type, hash).height = e.height
         /\ OwnVote(n, e, type, hash).round = e.round
         /\ OwnVote(n, e, type, hash).hash = hash
  BY Zenon DEF OwnVote, Vote, VoteType, Engine

\* Broadcasting one more vote for the same block keeps a result in the chain.
LEMMA SentVote ==
  ASSUME NEW n \in Nodes, NEW loop, NEW h \in Nat, NEW r \in Nat, NEW hash \in Nat,
         NEW res, Chained(n, loop, h, r, hash, res),
         NEW v \in Vote, v.type # "proposal", v.height = h, v.round = r, v.hash = hash
  PROVE  Chained(n, loop, h, r, hash, Sent(v, res))
  <1>1. Sent(v, res) \in Result
    BY Zenon DEF Sent, Chained, Result
  <1>2. Sent(v, res).eng = res.eng /\ Sent(v, res).out = res.out \cup {v}
    BY Zenon DEF Sent, Chained, Result
  <1>3. QED
    BY <1>1, <1>2, Zenon DEF Chained

LEMMA CheckPrecommit ==
  ASSUME NEW n \in Nodes, NEW e \in Engine, NEW hash \in Nat, NEW d \in Draft
  PROVE  Chained(n, e.loop, e.height, e.round, hash, check_precommit_quorum(n, e, hash, d))
  BY CommitBlock, StaysPut, Zenon DEF check_precommit_quorum

LEMMA SendPrecommit ==
  ASSUME NEW n \in Nodes, NEW e \in Engine, NEW hash \in Nat, NEW d \in Draft
  PROVE  Chained(n, e.loop, e.height, e.round, hash, send_precommit(n, e, hash, d))
  <1> DEFINE v == OwnVote(n, e, "precommit", hash)
  <1>1. /\ v \in Vote /\ v.type # "proposal"
        /\ v.height = e.height /\ v.round = e.round /\ v.hash = hash
    BY OwnVoteType DEF VoteType
  <1> HIDE DEF v
  <1>2. Chained(n, e.loop, e.height, e.round, hash,
                check_precommit_quorum(n, add_vote(e, v), hash, d))
    BY <1>1, AddVote, CheckPrecommit, Zenon
  <1>3. e.height \in Nat /\ e.round \in Nat
    BY Zenon DEF Engine
  <1>4. Chained(n, e.loop, e.height, e.round, hash,
                Sent(v, check_precommit_quorum(n, add_vote(e, v), hash, d)))
    BY <1>1, <1>2, <1>3, SentVote, Zenon
  <1>5. QED
    BY <1>4, StaysPut, Zenon DEF send_precommit, v

LEMMA CheckPrevote ==
  ASSUME NEW n \in Nodes, NEW e \in Engine, NEW hash \in Nat, NEW d \in Draft
  PROVE  Chained(n, e.loop, e.height, e.round, hash, check_prevote_quorum(n, e, hash, d))
  BY SendPrecommit, StaysPut, Zenon DEF check_prevote_quorum

LEMMA SendPrevote ==
  ASSUME NEW n \in Nodes, NEW e \in Engine, NEW hash \in Nat, NEW d \in Draft
  PROVE  Chained(n, e.loop, e.height, e.round, hash, send_prevote(n, e, hash, d))
  <1> DEFINE v == OwnVote(n, e, "prevote", hash)
  <1>1. /\ v \in Vote /\ v.type # "proposal"
        /\ v.height = e.height /\ v.round = e.round /\ v.hash = hash
    BY OwnVoteType DEF VoteType
  <1> HIDE DEF v
  <1>2. Chained(n, e.loop, e.height, e.round, hash,
                check_prevote_quorum(n, add_vote(e, v), hash, d))
    BY <1>1, AddVote, CheckPrevote, Zenon
  <1>3. e.height \in Nat /\ e.round \in Nat
    BY Zenon DEF Engine
  <1>4. Chained(n, e.loop, e.height, e.round, hash,
                Sent(v, check_prevote_quorum(n, add_vote(e, v), hash, d)))
    BY <1>1, <1>2, <1>3, SentVote, Zenon
  <1>5. QED
    BY <1>4, StaysPut, Zenon DEF send_prevote, v

LEMMA HandleProposal ==
  ASSUME NEW n \in Nodes, NEW e \in Engine, NEW p \in Proposal, NEW d \in Draft
  PROVE  Chained(n, e.loop, e.height, e.round, p.block.hash, handle_proposal(n, e, p, d))
  <1> DEFINE f == [e EXCEPT !.proposal = p]
  <1>1. f \in Engine /\ f.loop = e.loop /\ f.height = e.height /\ f.round = e.round
    BY Zenon DEF Engine
  <1>2. p.block.hash \in Nat
    BY Zenon DEF Proposal, Block
  <1> HIDE DEF f
  <1>3. Chained(n, e.loop, e.height, e.round, p.block.hash, send_prevote(n, f, p.block.hash, d))
    BY <1>1, <1>2, SendPrevote, Zenon
  <1>4. QED
    BY <1>3, Zenon DEF handle_proposal, f

LEMMA HandleVote ==
  ASSUME NEW n \in Nodes, NEW e \in Engine, NEW v \in Vote, NEW d \in Draft
  PROVE  Chained(n, e.loop, e.height, e.round, v.hash, handle_vote(n, e, v, d))
  <1>1. v.hash \in Nat
    BY Zenon DEF Vote
  <1>2. QED
    BY <1>1, AddVote, CheckPrevote, CheckPrecommit, Zenon DEF handle_vote

-----------------------------------------------------------------------------
(* One step. *)

LEMMA InitInv == EngineInit => Inv
  <1> SUFFICES ASSUME EngineInit PROVE Inv
    BY Zenon
  <1>1. FirstBlock \in Block \cup {None}
    BY EngineAssumption, Zenon DEF FirstBlock, Block
  <1>2. EngineTypeOK
    BY <1>1, EngineAssumption, Zenon DEF EngineInit, EngineTypeOK, Engine
  <1>3. QED
    BY <1>2, Zenon DEF EngineInit, Inv, ProposerPast, OneProposal, VotesBacked, Proposals, Votes

LEMMA MessageKinds ==
  /\ \A p \in Proposal : p.type = "proposal"
  /\ \A v \in Vote : v.type # "proposal"
  BY Zenon DEF Proposal, Vote, VoteType

\* A result that keeps its proposals apart from the earlier ones of the engine,
\* and votes only for a proposal of the network, preserves the invariant.
LEMMA ApplyInv ==
  ASSUME Inv, NEW n \in Nodes, NEW res \in Result, Apply(n, res),
         \A p, q \in res.out : p.type = "proposal" /\ q.type = "proposal" => p = q,
         \A p \in res.out : p.type = "proposal" =>
            /\ p.proposer = n /\ p.proposer = get_proposer(p.height, p.round)
            /\ p.height = res.eng.height /\ p.round = res.eng.round
            /\ res.eng.loop # "new",
         \A q \in Proposals : q.proposer = n =>
            /\ res.eng.loop # "new"
            /\ \/ q.height < res.eng.height
               \/ q.height = res.eng.height /\ q.round <= res.eng.round
            /\ \A p \in res.out : p.type = "proposal" =>
                  ~(q.height = p.height /\ q.round = p.round),
         \A v \in res.out : v.type # "proposal" =>
            \E p \in Proposals : p.height = v.height /\ p.round = v.round /\ p.block.hash = v.hash
  PROVE  Inv'
  <1>1. /\ engine \in [Nodes -> Engine] /\ net \subseteq Proposal \cup Vote
        /\ res.eng \in Engine /\ res.out \subseteq Proposal \cup Vote
        /\ res.commit \in Block \cup {None} /\ res.faults \in Nat
    BY Zenon DEF Inv, EngineTypeOK, Result
  <1>2. /\ engine' \in [Nodes -> Engine]
        /\ engine'[n] = res.eng
        /\ \A m \in Nodes : m # n => engine'[m] = engine[m]
    BY <1>1, Zenon DEF Apply
  <1>3. net' = net \cup res.out
    BY Zenon DEF Apply
  <1>4. EngineTypeOK'
    <2> DEFINE made == {m \in res.out : m.type = "proposal"}
    <2>1. Cardinality(made) \in Nat
      <3>1. CASE made = {}
        <4>1. Cardinality(made) = 0
          BY <3>1, NoneCounted, Zenon
        <4>2. QED
          BY <4>1
      <3>2. CASE made # {}
        <4>1. PICK p : p \in made
          BY <3>2, Zenon
        <4>2. made = {p}
          BY <4>1, Zenon
        <4> HIDE DEF made
        <4>3. Cardinality(made) = 1
          BY <4>2, OneCounted, Zenon
        <4>4. QED
          BY <4>3
      <3>3. QED
        BY <3>1, <3>2, Zenon
    <2>2. nextHash' \in Nat
      BY <2>1 DEF Apply, Inv, EngineTypeOK
    <2>3. commits' \in [Nodes -> SUBSET Block]
      BY <1>1, Zenon DEF Apply, Inv, EngineTypeOK
    <2>4. faults' \in Nat
      BY <1>1 DEF Apply, Inv, EngineTypeOK
    <2>5. QED
      BY <1>1, <1>2, <1>3, <2>2, <2>3, <2>4, Zenon DEF EngineTypeOK
  <1>5. Proposals' = Proposals \cup {m \in res.out : m.type = "proposal"}
    BY <1>3, Zenon DEF Proposals
  <1>6. Votes' = Votes \cup {m \in res.out : m.type # "proposal"}
    BY <1>3, Zenon DEF Votes
  <1>7. ASSUME NEW p \in Proposals PROVE p \in Proposal
    BY <1>1, <1>7, MessageKinds, Zenon DEF Proposals
  <1>8. ProposerPast'
    <2> SUFFICES ASSUME NEW p \in Proposals'
                 PROVE  /\ p.proposer = get_proposer(p.height, p.round)
                        /\ engine'[p.proposer].loop # "new"
                        /\ \/ p.height < engine'[p.proposer].height
                           \/ /\ p.height = engine'[p.proposer].height
                              /\ p.round <= engine'[p.proposer].round
      BY Zenon DEF ProposerPast
    <2>1. CASE p \in Proposals
      <3>1. p.proposer \in Nodes
        BY <1>7, <2>1, Zenon DEF Proposal
      <3>2. QED
        BY <1>2, <2>1, <3>1 DEF Inv, ProposerPast
    <2>2. CASE p \in res.out /\ p.type = "proposal"
      <3>1. res.eng.round \in Nat
        BY <1>1, Zenon DEF Engine
      <3>2. QED
        BY <1>2, <2>2, <3>1
    <2>3. QED
      BY <1>5, <2>1, <2>2, Zenon
  <1>9. OneProposal'
    <2> SUFFICES ASSUME NEW p \in Proposals', NEW q \in Proposals',
                        p.height = q.height, p.round = q.round
                 PROVE  p = q
      BY Zenon DEF OneProposal
    <2>1. ASSUME NEW x \in Proposals, NEW y \in res.out, y.type = "proposal",
                 x.height = y.height, x.round = y.round
          PROVE  FALSE
      <3>1. x.proposer = n
        BY <2>1 DEF Inv, ProposerPast
      <3>2. QED
        BY <2>1, <3>1, Zenon
    <2>2. QED
      BY <1>5, <2>1, Zenon DEF Inv, OneProposal
  <1>10. VotesBacked'
    BY <1>5, <1>6, Zenon DEF Inv, VotesBacked
  <1>11. QED
    BY <1>4, <1>8, <1>9, <1>10, Zenon DEF Inv

\* A chain of calls that started from a vote for a proposal in the network.
LEMMA ChainedInv ==
  ASSUME Inv, NEW n \in Nodes, NEW hash \in Nat, NEW res, Apply(n, res),
         engine[n].loop = "running",
         Chained(n, engine[n].loop, engine[n].height, engine[n].round, hash, res),
         \E p \in Proposals : /\ p.height = engine[n].height /\ p.round = engine[n].round
                              /\ p.block.hash = hash
  PROVE  Inv'
  <1>1. engine[n].height \in Nat /\ engine[n].round \in Nat /\ res \in Result
    BY Zenon DEF Inv, EngineTypeOK, Engine, Chained
  <1>2. ASSUME NEW q \in Proposals, q.proposer = n
        PROVE  /\ q.height \in Nat /\ q.round \in Nat
               /\ \/ q.height < engine[n].height
                  \/ q.height = engine[n].height /\ q.round <= engine[n].round
    BY <1>2, MessageKinds, Zenon DEF Inv, EngineTypeOK, ProposerPast, Proposals, Proposal
  <1>3. ASSUME NEW q \in Proposals, q.proposer = n
        PROVE  /\ res.eng.loop # "new"
               /\ \/ q.height < res.eng.height
                  \/ q.height = res.eng.height /\ q.round <= res.eng.round
               /\ \A p \in res.out : p.type = "proposal" =>
                     ~(q.height = p.height /\ q.round = p.round)
    BY <1>1, <1>2, <1>3 DEF Chained
  <1>4. \A p, q \in res.out : p.type = "proposal" /\ q.type = "proposal" => p = q
    BY Zenon DEF Chained
  <1>5. \A p \in res.out : p.type = "proposal" =>
           /\ p.proposer = n /\ p.proposer = get_proposer(p.height, p.round)
           /\ p.height = res.eng.height /\ p.round = res.eng.round
           /\ res.eng.loop # "new"
    BY Zenon DEF Chained
  <1>6. \A v \in res.out : v.type # "proposal" =>
           \E p \in Proposals : p.height = v.height /\ p.round = v.round /\ p.block.hash = v.hash
    BY Zenon DEF Chained
  <1>7. QED
    BY <1>1, <1>3, <1>4, <1>5, <1>6, ApplyInv, Zenon

\* Start and Timeout: a round above every proposal of the engine is entered.
LEMMA EnteredInv ==
  ASSUME Inv, NEW n \in Nodes, NEW h \in Nat, NEW r \in Nat, NEW res \in Result, Apply(n, res),
         res.eng.loop # "new", res.eng.height = h, res.eng.round = r,
         \A m \in res.out : /\ m.type = "proposal"
                            /\ m.proposer = n /\ get_proposer(h, r) = n
                            /\ m.height = h /\ m.round = r,
         \A p, q \in res.out : p = q,
         \A q \in Proposals : q.proposer = n => q.height < h \/ (q.height = h /\ q.round < r)
  PROVE  Inv'
  <1>1. \A q \in Proposals : q.height \in Nat /\ q.round \in Nat
    BY MessageKinds, Zenon DEF Inv, EngineTypeOK, Proposals, Proposal
  <1>2. \A q \in Proposals : q.proposer = n =>
           /\ res.eng.loop # "new"
           /\ \/ q.height < res.eng.height
              \/ q.height = res.eng.height /\ q.round <= res.eng.round
           /\ \A p \in res.out : p.type = "proposal" =>
                 ~(q.height = p.height /\ q.round = p.round)
    BY <1>1
  <1>3. QED
    BY <1>2, ApplyInv

LEMMA StartInv == ASSUME Inv, NEW n \in Nodes, Start(n) PROVE Inv'
  <1> DEFINE h == IF SavedHeight > engine[n].height THEN SavedHeight ELSE engine[n].height
             e == [engine[n] EXCEPT !.height = h]
  <1>1. PICK d \in Drafts :
          LET res == start_new_round(n, e, e.height, 0, d)
          IN  Apply(n, [res EXCEPT !.eng.loop = IF res.err THEN "ended" ELSE "running"])
    BY Zenon DEF Start
  <1> DEFINE res == start_new_round(n, e, e.height, 0, d)
             loop == IF res.err THEN "ended" ELSE "running"
             fin == [res EXCEPT !.eng.loop = loop]
  <1>2. engine[n] \in Engine /\ engine[n].loop = "new" /\ d \in Draft
    BY DraftType, Zenon DEF Start, Inv, EngineTypeOK
  <1>3. Apply(n, fin)
    BY <1>1, Zenon
  <1>4. h \in Nat
    BY <1>2, EngineAssumption DEF Engine
  <1> HIDE DEF h
  <1>5. e \in Engine /\ e.height \in Nat
    BY <1>2, <1>4, Zenon DEF Engine
  <1> HIDE DEF e
  <1>6. Entered(n, e.loop, e.height, 0, res)
    BY <1>2, <1>5, StartNewRound, Zenon
  <1> HIDE DEF res
  <1>7. loop \in {"ended", "running"}
    BY Zenon
  <1> HIDE DEF loop
  <1>8. [res.eng EXCEPT !.loop = loop] \in Engine
    BY <1>6, <1>7, Zenon DEF Entered, Result, Engine
  <1>9. fin \in Result /\ fin.eng = [res.eng EXCEPT !.loop = loop] /\ fin.out = res.out
    BY <1>6, <1>8, Zenon DEF Entered, Result
  <1> HIDE DEF fin
  <1>10. fin.eng.loop = loop /\ fin.eng.height = e.height /\ fin.eng.round = 0
    BY <1>6, <1>9, Zenon DEF Entered, Result, Engine
  <1>11. \A q \in Proposals : q.proposer # n
    BY <1>2, Zenon DEF Inv, ProposerPast
  <1>12. /\ \A m \in fin.out : /\ m.type = "proposal"
                               /\ m.proposer = n /\ get_proposer(e.height, 0) = n
                               /\ m.height = e.height /\ m.round = 0
         /\ \A p, q \in fin.out : p = q
    BY <1>6, <1>9, Zenon DEF Entered
  <1>13. /\ fin \in Result /\ fin.eng.loop # "new" /\ e.height \in Nat /\ 0 \in Nat
         /\ \A q \in Proposals : q.proposer = n =>
              q.height < e.height \/ (q.height = e.height /\ q.round < 0)
    BY <1>5, <1>7, <1>9, <1>10, <1>11, Zenon
  <1>14. fin.eng.height = e.height /\ fin.eng.round = 0
    BY <1>10, Zenon
  <1>15. QED
    BY <1>3, <1>12, <1>13, <1>14, EnteredInv

LEMMA TimeoutInv == ASSUME Inv, NEW n \in Nodes, Timeout(n) PROVE Inv'
  <1> DEFINE e == engine[n]
             res(d) == start_new_round(n, e, e.height, e.round + 1, d)
  <1>1. PICK d \in Drafts : Apply(n, res(d))
    BY Zenon DEF Timeout
  <1>2. /\ e \in Engine /\ e.loop = "running" /\ d \in Draft
        /\ e.height \in Nat /\ e.round \in Nat /\ e.round + 1 \in Nat
    BY DraftType DEF Timeout, Inv, EngineTypeOK, Engine
  <1>3. Entered(n, e.loop, e.height, e.round + 1, res(d))
    BY <1>2, StartNewRound, Zenon
  <1>4. \A q \in Proposals : q.proposer = n =>
           q.height < e.height \/ (q.height = e.height /\ q.round < e.round + 1)
    <2>1. \A q \in Proposals : q.round \in Nat
      BY MessageKinds, Zenon DEF Inv, EngineTypeOK, Proposals, Proposal
    <2>2. QED
      BY <1>2, <2>1 DEF Inv, ProposerPast
  <1> HIDE DEF res, e
  <1>5. QED
    BY <1>1, <1>2, <1>3, <1>4, EnteredInv, Zenon DEF Entered

LEMMA ProposalReceivedInv == ASSUME Inv, NEW n \in Nodes, ProposalReceived(n) PROVE Inv'
  <1>1. PICK p \in Proposals, d \in Drafts :
           accepts_proposal(engine[n], p) /\ Apply(n, handle_proposal(n, engine[n], p, d))
    BY Zenon DEF ProposalReceived, Proposals
  <1>2. p \in Proposal /\ p.block.hash \in Nat
    BY MessageKinds, Zenon DEF Inv, EngineTypeOK, Proposals, Proposal, Block
  <1>3. engine[n] \in Engine /\ d \in Draft /\ engine[n].loop = "running"
    BY DraftType, Zenon DEF ProposalReceived, Inv, EngineTypeOK
  <1>4. Chained(n, engine[n].loop, engine[n].height, engine[n].round, p.block.hash,
                handle_proposal(n, engine[n], p, d))
    BY <1>2, <1>3, HandleProposal, Zenon
  <1>5. p.height = engine[n].height /\ p.round = engine[n].round
    BY <1>1, Zenon DEF accepts_proposal
  <1>6. QED
    BY <1>1, <1>2, <1>3, <1>4, <1>5, ChainedInv, Zenon

LEMMA VoteReceivedInv == ASSUME Inv, NEW n \in Nodes, VoteReceived(n) PROVE Inv'
  <1>1. PICK v \in Votes, d \in Drafts :
           accepts_vote(engine[n], v) /\ Apply(n, handle_vote(n, engine[n], v, d))
    BY Zenon DEF VoteReceived, Votes
  <1>2. v \in Vote /\ v.hash \in Nat
    BY MessageKinds, Zenon DEF Inv, EngineTypeOK, Votes, Vote
  <1>3. engine[n] \in Engine /\ d \in Draft /\ engine[n].loop = "running"
    BY DraftType, Zenon DEF VoteReceived, Inv, EngineTypeOK
  <1>4. Chained(n, engine[n].loop, engine[n].height, engine[n].round, v.hash,
                handle_vote(n, engine[n], v, d))
    BY <1>2, <1>3, HandleVote, Zenon
  <1>5. \E p \in Proposals : /\ p.height = engine[n].height /\ p.round = engine[n].round
                             /\ p.block.hash = v.hash
    BY <1>1, Zenon DEF accepts_vote, Inv, VotesBacked
  <1>6. QED
    BY <1>1, <1>2, <1>3, <1>4, <1>5, ChainedInv, Zenon

LEMMA StopInv == ASSUME Inv, NEW n \in Nodes, Stop(n) PROVE Inv'
  <1> DEFINE f == [engine[n] EXCEPT !.loop = "ended"]
             res == [Ok(f) EXCEPT !.faults = 1]
  <1>1. engine[n] \in Engine /\ Apply(n, res)
    BY Zenon DEF Inv, EngineTypeOK, Stop
  <1>2. /\ f \in Engine /\ f.loop = "ended"
        /\ f.height = engine[n].height /\ f.round = engine[n].round
    BY <1>1, Zenon DEF Engine
  <1> HIDE DEF f
  <1>3. res \in Result /\ res.eng = f /\ res.out = {}
    BY <1>2, Zenon DEF Result, Ok
  <1> HIDE DEF res
  <1>4. \A q \in Proposals : q.proposer = n =>
           \/ q.height < f.height
           \/ q.height = f.height /\ q.round <= f.round
    BY <1>2, Zenon DEF Inv, ProposerPast
  <1>5. QED
    BY <1>1, <1>2, <1>3, <1>4, ApplyInv

LEMMA NextInv == Inv /\ [EngineNext]_engineVars => Inv'
  <1> SUFFICES ASSUME Inv, [EngineNext]_engineVars PROVE Inv'
    BY Zenon
  <1>1. CASE EngineNext
    BY <1>1, StartInv, ProposalReceivedInv, VoteReceivedInv, TimeoutInv, StopInv, Zenon DEF EngineNext
  <1>2. CASE UNCHANGED engineVars
    BY <1>2, Zenon DEF engineVars, Inv, EngineTypeOK, ProposerPast, OneProposal, VotesBacked, Proposals, Votes
  <1>3. QED
    BY <1>1, <1>2, Zenon

LEMMA SpecInv == EngineSpec => []Inv
  BY InitInv, NextInv, PTL DEF EngineSpec

-----------------------------------------------------------------------------
(* The chain of the committed blocks. *)

\* An engine that has committed the blocks C. A proposal it holds is not above
\* its height, and the parent of one for its height is its latest block; that
\* block is the highest of C, just below the height, and applied.
Linked(e, C) ==
    LET b == e.proposal.block
    IN  /\ e.loop = "new" => e.proposal = None /\ C = {}
        /\ e.proposal # None => b.height <= e.height
        /\ e.proposal # None /\ C = {} => b.height = e.height
        /\ e.proposal # None /\ b.height = e.height /\ e.last # None => b.prev = e.last.hash
        /\ C # {} => /\ e.last \in C /\ e.last.height = e.height - 1
                     /\ e.applied >= e.height - 1
        /\ \A c \in C : c.height < e.last.height \/ c = e.last
        /\ \A c, d \in C : d.height = c.height + 1 => d.prev = c.hash

AllLinked == \A n \in Nodes : Linked(engine[n], commits[n])

\* The blocks committed once a result is applied.
After(C, res) == IF res.commit = None THEN C ELSE C \cup {res.commit}

\* Linked looks at nothing but these fields.
LEMMA LinkedFields ==
  ASSUME NEW e, NEW f, NEW C, Linked(e, C),
         f.loop = e.loop, f.proposal = e.proposal, f.height = e.height,
         f.last = e.last, f.applied = e.applied
  PROVE  Linked(f, C)
  BY Zenon DEF Linked

LEMMA StartNewRoundLinked ==
  ASSUME NEW n \in Nodes, NEW e \in Engine, NEW r \in Nat, NEW d \in Draft,
         NEW C \in SUBSET Block, Linked(e, C),
         e.loop # "new" \/ C = {}
  PROVE  LET res == start_new_round(n, e, e.height, r, d)
         IN  res.commit = None /\ \A loop \in {e.loop, "running", "ended"} :
               loop # "new" => Linked([res.eng EXCEPT !.loop = loop], C)
  <1> DEFINE p == [type |-> "proposal", height |-> e.height, round |-> r,
                   block |-> create_block(e, e.height, d), proposer |-> n]
             res == start_new_round(n, e, e.height, r, d)
  <1>1. CASE am_i_proposer(n, e.height, r) /\ e.height <= MaxHeight /\ e.last # None
    <2> DEFINE f == [e EXCEPT !.round = r, !.proposal = p, !.state = "Prevoting"]
    <2>1. p.block.height = e.height /\ p.block.prev = e.last.hash
      BY Zenon DEF create_block
    <2>2. res.eng = f /\ res.commit = None
      BY <1>1, Zenon DEF start_new_round, Sent, Ok
    <2> HIDE DEF p
    <2>3. ASSUME NEW loop \in {e.loop, "running", "ended"}, loop # "new"
          PROVE  Linked([f EXCEPT !.loop = loop], C)
      <3> DEFINE g == [f EXCEPT !.loop = loop]
      <3>1. /\ g.loop = loop /\ g.proposal = p /\ g.height = e.height /\ g.last = e.last
            /\ g.applied = e.applied /\ e.height \in Nat
        BY Zenon DEF Engine
      <3> HIDE DEF g
      <3>2. QED
        BY <2>1, <2>3, <3>1 DEF Linked, g
    <2>4. QED
      BY <2>2, <2>3, Zenon
  <1>2. CASE ~(am_i_proposer(n, e.height, r) /\ e.height <= MaxHeight /\ e.last # None)
    <2>1. PICK s \in {"Proposing", "WaitingForBlock"} : res.eng = [e EXCEPT !.round = r, !.state = s]
      BY <1>2, Zenon DEF start_new_round, Err, Ok
    <2>2. res.commit = None
      BY <1>2, Zenon DEF start_new_round, Err, Ok
    <2> DEFINE f == [e EXCEPT !.round = r, !.state = s]
    <2>3. ASSUME NEW loop \in {e.loop, "running", "ended"}, loop # "new"
          PROVE  Linked([f EXCEPT !.loop = loop], C)
      <3> DEFINE g == [f EXCEPT !.loop = loop]
      <3>1. /\ g.loop = loop /\ g.proposal = e.proposal /\ g.height = e.height /\ g.last = e.last
            /\ g.applied = e.applied
        BY Zenon DEF Engine
      <3> HIDE DEF g
      <3>2. QED
        BY <2>3, <3>1, Zenon DEF Linked, g
    <2>4. QED
      BY <2>1, <2>2, <2>3, Zenon
  <1>3. QED
    BY <1>1, <1>2, Zenon

LEMMA CommitBlockLinked ==
  ASSUME NEW n \in Nodes, NEW e \in Engine, NEW d \in Draft, e.loop = "running",
         NEW C \in SUBSET Block, Linked(e, C)
  PROVE  Linked(commit_block(n, e, d).eng, After(C, commit_block(n, e, d)))
  <1> DEFINE b == e.proposal.block
             applied == [e EXCEPT !.applied = b.height]
             saved == [applied EXCEPT !.last = b, !.height = e.height + 1]
             new == start_new_round(n, saved, e.height + 1, 0, d)
  <1>1. CASE e.proposal = None \/ b.height # e.applied + 1 \/ ~b.applies
    BY <1>1, Zenon DEF commit_block, Err, Ok, After
  <1>2. CASE ~(e.proposal = None \/ b.height # e.applied + 1 \/ ~b.applies)
    <2>1. /\ b \in Block /\ b.height \in Nat /\ b # None
          /\ e.height \in Nat /\ e.applied \in Nat
          /\ e.proposal # None /\ b.height = e.applied + 1
      BY <1>2, EngineAssumption, Zenon DEF Engine, Proposal, Block
    <2>2. b.height = e.height
      BY <2>1 DEF Linked
    <2>3. CASE d.saveFails
      <3>1. commit_block(n, e, d).eng = applied /\ commit_block(n, e, d).commit = None
        BY <1>2, <2>3, Zenon DEF commit_block, Err, Ok
      <3>2. /\ applied.loop = e.loop /\ applied.proposal = e.proposal /\ applied.height = e.height
            /\ applied.last = e.last /\ applied.applied = e.applied + 1
        BY <2>1, Zenon DEF Engine
      <3> HIDE DEF applied
      <3>3. Linked(applied, C)
        BY <2>1, <3>2 DEF Linked
      <3>4. QED
        BY <3>1, <3>3, Zenon DEF After
    <2>4. CASE ~d.saveFails
      <3>1. commit_block(n, e, d) = [new EXCEPT !.commit = b]
        BY <1>2, <2>4, Zenon DEF commit_block
      <3>2. /\ saved.loop = e.loop /\ saved.proposal = e.proposal /\ saved.height = e.height + 1
            /\ saved.last = b /\ saved.applied = e.height
        BY <2>2, Zenon DEF Engine
      <3>3. saved \in Engine
        <4>1. e.height + 1 \in Nat
          BY <2>1
        <4>2. applied \in Engine
          BY <2>1, Zenon DEF Engine
        <4> HIDE DEF b, applied
        <4>3. QED
          BY <2>1, <4>1, <4>2, Zenon DEF Engine
      <3> HIDE DEF saved
      <3>4. Linked(saved, C \cup {b})
        <4>1. \A c \in C : c.height \in Nat /\ c.height < e.height
          BY <2>1 DEF Linked, Block
        <4>2. \A c \in C : b.height = c.height + 1 => b.prev = c.hash
          <5> SUFFICES ASSUME NEW c \in C, b.height = c.height + 1 PROVE b.prev = c.hash
            BY Zenon
          <5>1. e.last \in C /\ e.last.height = e.height - 1 /\ e.last # None
            BY EngineAssumption, Zenon DEF Linked
          <5>2. c = e.last
            BY <2>1, <2>2, <4>1, <5>1 DEF Linked
          <5>3. QED
            BY <2>1, <2>2, <5>1, <5>2, Zenon DEF Linked
        <4>3. \A c, x \in C \cup {b} : x.height = c.height + 1 => x.prev = c.hash
          BY <2>1, <2>2, <4>1, <4>2 DEF Linked
        <4>4. QED
          BY <2>1, <2>2, <3>2, <4>1, <4>3 DEF Linked
      <3>5. new.commit = None /\ Linked([new.eng EXCEPT !.loop = saved.loop], C \cup {b})
        <4>1. C \cup {b} \in SUBSET Block /\ saved.loop # "new"
          BY <2>1, <3>2, Zenon
        <4>2. new = start_new_round(n, saved, saved.height, 0, d)
          BY <3>2, Zenon
        <4> HIDE DEF new, b
        <4>3. QED
          BY <3>3, <3>4, <4>1, <4>2, StartNewRoundLinked, Zenon
      <3>6. Entered(n, saved.loop, e.height + 1, 0, new)
        BY <3>2, <3>3, StartNewRound, Zenon
      <3> HIDE DEF new, b
      <3>7. new.eng = [new.eng EXCEPT !.loop = saved.loop]
        BY <3>6, Zenon DEF Entered, Result, Engine
      <3>8. commit_block(n, e, d).eng = new.eng /\ commit_block(n, e, d).commit = b
        BY <3>1, <3>6, Zenon DEF Entered, Result
      <3>9. QED
        BY <2>1, <3>5, <3>7, <3>8, Zenon DEF After
    <2>5. QED
      BY <2>3, <2>4, Zenon DEF Draft
  <1>3. QED
    BY <1>1, <1>2, Zenon

\* From here the chain only records votes and broadcasts.
LEMMA AddVoteLinked ==
  ASSUME NEW e \in Engine, NEW v, NEW C, Linked(e, C)
  PROVE  Linked(add_vote(e, v), C) /\ add_vote(e, v).loop = e.loop
  <1>1. /\ add_vote(e, v).loop = e.loop /\ add_vote(e, v).proposal = e.proposal
        /\ add_vote(e, v).height = e.height /\ add_vote(e, v).last = e.last
        /\ add_vote(e, v).applied = e.applied
    BY Zenon DEF add_vote, Engine
  <1>2. QED
    BY <1>1, LinkedFields, Zenon

LEMMA SentLinked ==
  ASSUME NEW res \in Result, NEW m, NEW C, Linked(res.eng, After(C, res))
  PROVE  Linked(Sent(m, res).eng, After(C, Sent(m, res)))
  <1>1. Sent(m, res).eng = res.eng /\ Sent(m, res).commit = res.commit
    BY Zenon DEF Sent, Result
  <1>2. QED
    BY <1>1, Zenon DEF After

LEMMA OkLinked ==
  ASSUME NEW e, NEW C, Linked(e, C)
  PROVE  Linked(Ok(e).eng, After(C, Ok(e))) /\ Linked(Err(e).eng, After(C, Err(e)))
  BY Zenon DEF Ok, Err, After

LEMMA CheckPrecommitLinked ==
  ASSUME NEW n \in Nodes, NEW e \in Engine, NEW hash \in Nat, NEW d \in Draft,
         e.loop = "running", NEW C \in SUBSET Block, Linked(e, C)
  PROVE  LET res == check_precommit_quorum(n, e, hash, d) IN Linked(res.eng, After(C, res))
  BY CommitBlockLinked, OkLinked, Zenon DEF check_precommit_quorum

LEMMA SendPrecommitLinked ==
  ASSUME NEW n \in Nodes, NEW e \in Engine, NEW hash \in Nat, NEW d \in Draft,
         e.loop = "running", NEW C \in SUBSET Block, Linked(e, C)
  PROVE  LET res == send_precommit(n, e, hash, d) IN Linked(res.eng, After(C, res))
  <1> DEFINE v == OwnVote(n, e, "precommit", hash)
             f == add_vote(e, v)
             res == check_precommit_quorum(n, f, hash, d)
  <1>1. v \in Vote
    BY OwnVoteType, Zenon DEF VoteType
  <1> HIDE DEF v
  <1>2. f \in Engine /\ f.loop = "running" /\ Linked(f, C)
    BY <1>1, AddVote, AddVoteLinked, Zenon
  <1> HIDE DEF f
  <1>3. Linked(res.eng, After(C, res))
    BY <1>2, CheckPrecommitLinked, Zenon
  <1>4. res \in Result
    BY <1>2, CheckPrecommit, Zenon DEF Chained
  <1> HIDE DEF res
  <1>5. Linked(Sent(v, res).eng, After(C, Sent(v, res)))
    BY <1>3, <1>4, SentLinked, Zenon
  <1>6. QED
    BY <1>5, OkLinked, Zenon DEF send_precommit, v, f, res

LEMMA CheckPrevoteLinked ==
  ASSUME NEW n \in Nodes, NEW e \in Engine, NEW hash \in Nat, NEW d \in Draft,
         e.loop = "running", NEW C \in SUBSET Block, Linked(e, C)
  PROVE  LET res == check_prevote_quorum(n, e, hash, d) IN Linked(res.eng, After(C, res))
  BY SendPrecommitLinked, OkLinked, Zenon DEF check_prevote_quorum

LEMMA SendPrevoteLinked ==
  ASSUME NEW n \in Nodes, NEW e \in Engine, NEW hash \in Nat, NEW d \in Draft,
         e.loop = "running", NEW C \in SUBSET Block, Linked(e, C)
  PROVE  LET res == send_prevote(n, e, hash, d) IN Linked(res.eng, After(C, res))
  <1> DEFINE v == OwnVote(n, e, "prevote", hash)
             f == add_vote(e, v)
             res == check_prevote_quorum(n, f, hash, d)
  <1>1. v \in Vote
    BY OwnVoteType, Zenon DEF VoteType
  <1> HIDE DEF v
  <1>2. f \in Engine /\ f.loop = "running" /\ Linked(f, C)
    BY <1>1, AddVote, AddVoteLinked, Zenon
  <1> HIDE DEF f
  <1>3. Linked(res.eng, After(C, res))
    BY <1>2, CheckPrevoteLinked, Zenon
  <1>4. res \in Result
    BY <1>2, CheckPrevote, Zenon DEF Chained
  <1> HIDE DEF res
  <1>5. Linked(Sent(v, res).eng, After(C, Sent(v, res)))
    BY <1>3, <1>4, SentLinked, Zenon
  <1>6. QED
    BY <1>5, OkLinked, Zenon DEF send_prevote, v, f, res

\* validate_block is what ties a proposal to the latest block.
LEMMA HandleProposalLinked ==
  ASSUME NEW n \in Nodes, NEW e \in Engine, NEW p \in Proposal, NEW d \in Draft,
         e.loop = "running", NEW C \in SUBSET Block, Linked(e, C), accepts_proposal(e, p)
  PROVE  LET res == handle_proposal(n, e, p, d) IN Linked(res.eng, After(C, res))
  <1> DEFINE f == [e EXCEPT !.proposal = p]
  <1>1. /\ f \in Engine /\ f.loop = "running" /\ f.proposal = p /\ f.height = e.height
        /\ f.last = e.last /\ f.applied = e.applied
    BY Zenon DEF Engine
  <1>2. /\ p.block.hash \in Nat /\ p.block.height = e.height /\ e.height \in Nat
        /\ e.last # None => p.block.prev = e.last.hash
    BY Zenon DEF Proposal, Block, Engine, accepts_proposal, validate_block
  <1> HIDE DEF f
  <1>3. Linked(f, C)
    BY <1>1, <1>2 DEF Linked
  <1>4. QED
    BY <1>1, <1>2, <1>3, SendPrevoteLinked, Zenon DEF handle_proposal, f

LEMMA HandleVoteLinked ==
  ASSUME NEW n \in Nodes, NEW e \in Engine, NEW v \in Vote, NEW d \in Draft,
         e.loop = "running", NEW C \in SUBSET Block, Linked(e, C)
  PROVE  LET res == handle_vote(n, e, v, d) IN Linked(res.eng, After(C, res))
  <1> DEFINE f == add_vote(e, v)
  <1>1. f \in Engine /\ f.loop = "running" /\ Linked(f, C) /\ v.hash \in Nat
    BY AddVote, AddVoteLinked, Zenon DEF Vote
  <1> HIDE DEF f
  <1>2. QED
    BY <1>1, CheckPrevoteLinked, CheckPrecommitLinked, Zenon DEF handle_vote, f

\* What a command leaves behind, once its result is applied.
LEMMA ApplyLinked ==
  ASSUME EngineTypeOK, AllLinked, NEW n \in Nodes, NEW res, Apply(n, res),
         Linked(res.eng, After(commits[n], res))
  PROVE  AllLinked'
  <1>1. /\ engine'[n] = res.eng /\ commits'[n] = After(commits[n], res)
        /\ \A m \in Nodes : m # n => engine'[m] = engine[m] /\ commits'[m] = commits[m]
    BY Zenon DEF Apply, EngineTypeOK, After
  <1>2. \A m \in Nodes : Linked(engine'[m], commits'[m])
    BY <1>1, Zenon DEF AllLinked
  <1>3. QED
    BY <1>2, Zenon DEF AllLinked, Linked

LEMMA InitLinked == EngineInit => AllLinked
  BY EngineAssumption DEF EngineInit, AllLinked, Linked

LEMMA StartLinked == ASSUME Inv, AllLinked, NEW n \in Nodes, Start(n) PROVE AllLinked'
  <1> DEFINE h == IF SavedHeight > engine[n].height THEN SavedHeight ELSE engine[n].height
             e == [engine[n] EXCEPT !.height = h]
  <1>1. PICK d \in Drafts :
          LET res == start_new_round(n, e, e.height, 0, d)
          IN  Apply(n, [res EXCEPT !.eng.loop = IF res.err THEN "ended" ELSE "running"])
    BY Zenon DEF Start
  <1> DEFINE res == start_new_round(n, e, e.height, 0, d)
             loop == IF res.err THEN "ended" ELSE "running"
             fin == [res EXCEPT !.eng.loop = loop]
  <1>2. /\ engine[n] \in Engine /\ engine[n].loop = "new" /\ d \in Draft
        /\ engine[n].proposal = None /\ commits[n] = {}
    BY DraftType, Zenon DEF Start, Inv, EngineTypeOK, AllLinked, Linked
  <1>3. Apply(n, fin)
    BY <1>1, Zenon
  <1>4. h \in Nat
    BY <1>2, EngineAssumption DEF Engine
  <1> HIDE DEF h
  <1>5. e \in Engine /\ e.proposal = None /\ e.height = h
    BY <1>2, <1>4, Zenon DEF Engine
  <1> HIDE DEF e
  <1>6. Entered(n, e.loop, e.height, 0, res)
    BY <1>2, <1>5, StartNewRound, Zenon
  <1>7. Linked(e, {})
    BY <1>5, Zenon DEF Linked
  <1>8. res.commit = None /\ Linked([res.eng EXCEPT !.loop = loop], {})
    <2>1. loop \in {e.loop, "running", "ended"} /\ loop # "new"
      BY Zenon
    <2> HIDE DEF loop, res
    <2>2. QED
      BY <1>2, <1>5, <1>7, <2>1, StartNewRoundLinked, Zenon DEF res
  <1> HIDE DEF res, loop
  <1>9. fin.eng = [res.eng EXCEPT !.loop = loop] /\ fin.commit = None
    BY <1>6, <1>8, Zenon DEF Entered, Result
  <1>10. Linked(fin.eng, After(commits[n], fin))
    BY <1>2, <1>8, <1>9, Zenon DEF After
  <1> HIDE DEF fin
  <1>11. QED
    BY <1>3, <1>10, ApplyLinked, Zenon DEF Inv

LEMMA TimeoutLinked == ASSUME Inv, AllLinked, NEW n \in Nodes, Timeout(n) PROVE AllLinked'
  <1> DEFINE e == engine[n]
             res(d) == start_new_round(n, e, e.height, e.round + 1, d)
  <1>1. PICK d \in Drafts : Apply(n, res(d))
    BY Zenon DEF Timeout
  <1>2. /\ e \in Engine /\ e.loop = "running" /\ d \in Draft /\ e.round + 1 \in Nat
        /\ commits[n] \in SUBSET Block /\ Linked(e, commits[n])
    BY DraftType DEF Timeout, Inv, EngineTypeOK, Engine, AllLinked
  <1> HIDE DEF e
  <1>3. Entered(n, e.loop, e.height, e.round + 1, res(d))
    BY <1>2, StartNewRound, Zenon
  <1>4. res(d).commit = None /\ Linked([res(d).eng EXCEPT !.loop = e.loop], commits[n])
    BY <1>2, StartNewRoundLinked, Zenon
  <1> HIDE DEF res
  <1>5. [res(d).eng EXCEPT !.loop = e.loop] = res(d).eng
    BY <1>3, Zenon DEF Entered, Result, Engine
  <1>6. Linked(res(d).eng, After(commits[n], res(d)))
    BY <1>4, <1>5, Zenon DEF After
  <1>7. QED
    BY <1>1, <1>6, ApplyLinked, Zenon DEF Inv

LEMMA ProposalReceivedLinked ==
  ASSUME Inv, AllLinked, NEW n \in Nodes, ProposalReceived(n) PROVE AllLinked'
  <1>1. PICK p \in Proposals, d \in Drafts :
           accepts_proposal(engine[n], p) /\ Apply(n, handle_proposal(n, engine[n], p, d))
    BY Zenon DEF ProposalReceived, Proposals
  <1>2. /\ p \in Proposal /\ engine[n] \in Engine /\ d \in Draft /\ engine[n].loop = "running"
        /\ commits[n] \in SUBSET Block /\ Linked(engine[n], commits[n])
    BY MessageKinds, DraftType, Zenon DEF ProposalReceived, Inv, EngineTypeOK, Proposals, AllLinked
  <1>3. QED
    BY <1>1, <1>2, HandleProposalLinked, ApplyLinked, Zenon DEF Inv

LEMMA VoteReceivedLinked ==
  ASSUME Inv, AllLinked, NEW n \in Nodes, VoteReceived(n) PROVE AllLinked'
  <1>1. PICK v \in Votes, d \in Drafts : Apply(n, handle_vote(n, engine[n], v, d))
    BY Zenon DEF VoteReceived, Votes
  <1>2. /\ v \in Vote /\ engine[n] \in Engine /\ d \in Draft /\ engine[n].loop = "running"
        /\ commits[n] \in SUBSET Block /\ Linked(engine[n], commits[n])
    BY MessageKinds, DraftType, Zenon DEF VoteReceived, Inv, EngineTypeOK, Votes, AllLinked
  <1>3. QED
    BY <1>1, <1>2, HandleVoteLinked, ApplyLinked, Zenon DEF Inv

LEMMA StopLinked == ASSUME Inv, AllLinked, NEW n \in Nodes, Stop(n) PROVE AllLinked'
  <1> DEFINE f == [engine[n] EXCEPT !.loop = "ended"]
             res == [Ok(f) EXCEPT !.faults = 1]
  <1>1. engine[n] \in Engine /\ Apply(n, res) /\ engine[n].loop = "running"
    BY Zenon DEF Inv, EngineTypeOK, Stop
  <1>2. Linked(f, commits[n])
    <2>1. /\ f.loop = "ended" /\ f.proposal = engine[n].proposal /\ f.height = engine[n].height
          /\ f.last = engine[n].last /\ f.applied = engine[n].applied
      BY <1>1, Zenon DEF Engine
    <2> HIDE DEF f
    <2>2. QED
      BY <2>1, Zenon DEF AllLinked, Linked
  <1> HIDE DEF f
  <1>3. res.eng = f /\ res.commit = None
    BY Zenon DEF Ok
  <1> HIDE DEF res
  <1>4. QED
    BY <1>1, <1>2, <1>3, ApplyLinked, Zenon DEF Inv, After

LEMMA NextLinked == Inv /\ AllLinked /\ [EngineNext]_engineVars => AllLinked'
  <1> SUFFICES ASSUME Inv, AllLinked, [EngineNext]_engineVars PROVE AllLinked'
    BY Zenon
  <1>1. CASE EngineNext
    BY <1>1, StartLinked, ProposalReceivedLinked, VoteReceivedLinked, TimeoutLinked, StopLinked, Zenon
    DEF EngineNext
  <1>2. CASE UNCHANGED engineVars
    BY <1>2, Zenon DEF engineVars, AllLinked, Linked
  <1>3. QED
    BY <1>1, <1>2, Zenon

LEMMA SpecLinked == EngineSpec => []AllLinked
  BY InitLinked, NextLinked, SpecInv, PTL DEF EngineSpec

\* Type correctness of the engines and of what they exchange.
THEOREM TypeCorrect == EngineSpec => []EngineTypeOK
  BY SpecInv, PTL DEF Inv

\* For every number of validators, and with any loss, repetition and delay of
\* messages, all votes that HotStuffEngine casts in one round of one height
\* are for the same block.
THEOREM OneBlockPerRoundHolds == EngineSpec => []OneBlockPerRound
  <1>1. Inv => OneBlockPerRound
    BY DEF Inv, OneProposal, VotesBacked, OneBlockPerRound, Proposals, Votes
  <1>2. QED
    BY <1>1, SpecInv, PTL

\* The blocks an engine commits form a chain that ends with its latest stored
\* block, just below its height: validate_block checks a proposal when it
\* arrives, commit_block takes it from current_proposal any number of rounds
\* and failed saves later, and the parent is still the latest block.
THEOREM ChainAlwaysLinked == EngineSpec => []ChainLinked
  <1>1. AllLinked => ChainLinked
    BY Zenon DEF AllLinked, Linked, ChainLinked
  <1>2. QED
    BY <1>1, SpecLinked, PTL

-----------------------------------------------------------------------------
(* The two quorums of a commit. *)

\* The validators that sent a vote of a type for one block of one height, if
\* the messages sent are N, and whether they are more than two thirds.
VotersIn(N, type, h, hash) ==
    {n \in ValidatorSet :
        \E m \in {k \in N : k.type = type /\ k.height = h /\ k.hash = hash} : m.voter = n}
BackedIn(N, type, h, hash) == 3 * Cardinality(VotersIn(N, type, h, hash)) > 2 * Len(Validators)

\* The votes V that an engine has recorded were sent by validators; votes are
\* sent by validators, and precommits after a quorum of prevotes; and a block
\* of a height has a quorum of precommits.
VotesIn(N, V) == \A r \in V : r.voter \in VotersIn(N, r.type, r.height, r.hash)
SoundIn(N) ==
    \A m \in N : /\ m.type # "proposal" => m.voter \in ValidatorSet
                 /\ m.type = "precommit" => BackedIn(N, "prevote", m.height, m.hash)
DecidedIn(N, h) ==
    \E m \in N : /\ m.type = "precommit" /\ m.height = h
                 /\ BackedIn(N, "precommit", m.height, m.hash)

QuorumInv ==
    /\ SoundIn(net)
    /\ \A n \in Nodes : VotesIn(net, engine[n].votes)
    /\ \A n \in Nodes : \A b \in commits[n] : DecidedIn(net, b.height)

\* A proposal that commit_block would take is one for the engine's height.
Fits(e) ==
    e.proposal # None /\ e.proposal.block.height = e.applied + 1 =>
        e.proposal.block.height = e.height

\* What a call at height h returns, if the messages sent before it are N.
Phased(N, h, res) ==
    /\ VotesIn(N \cup res.out, res.eng.votes)
    /\ SoundIn(N \cup res.out)
    /\ res.commit # None => res.commit.height = h /\ DecidedIn(N \cup res.out, h)

LEMMA ValidatorsFinite == IsFiniteSet(ValidatorSet) /\ Len(Validators) \in Nat
  <1> DEFINE D == 1..Len(Validators)
             f == [i \in D |-> Validators[i]]
  <1>1. Len(Validators) \in Nat /\ DOMAIN Validators = D
    BY EngineAssumption
  <1>2. IsFiniteSet(D)
    BY <1>1, FS_Interval
  <1> HIDE DEF D
  <1>3. f \in Surjection(D, ValidatorSet)
    BY <1>1, Zenon DEF Surjection, ValidatorSet
  <1>4. QED
    BY <1>1, <1>2, <1>3, FS_Surjection

\* More messages back whatever fewer did.
LEMMA MoreBacked ==
  ASSUME NEW N, NEW M, N \subseteq M, NEW type, NEW h, NEW hash
  PROVE  /\ VotersIn(N, type, h, hash) \subseteq VotersIn(M, type, h, hash)
         /\ BackedIn(N, type, h, hash) => BackedIn(M, type, h, hash)
  <1> DEFINE A == VotersIn(N, type, h, hash)
             B == VotersIn(M, type, h, hash)
  <1>1. A \subseteq B /\ B \subseteq ValidatorSet
    BY Zenon DEF VotersIn
  <1>2. BackedIn(N, type, h, hash) <=> 3 * Cardinality(A) > 2 * Len(Validators)
    BY Zenon DEF BackedIn
  <1>3. BackedIn(M, type, h, hash) <=> 3 * Cardinality(B) > 2 * Len(Validators)
    BY Zenon DEF BackedIn
  <1> HIDE DEF A, B
  <1>4. IsFiniteSet(B)
    BY <1>1, ValidatorsFinite, FS_Subset
  <1>5. IsFiniteSet(A) /\ Cardinality(A) <= Cardinality(B)
    BY <1>1, <1>4, FS_Subset
  <1>6. Cardinality(A) \in Nat /\ Cardinality(B) \in Nat /\ Len(Validators) \in Nat
    BY <1>4, <1>5, FS_CardinalityType, ValidatorsFinite
  <1>7. 3 * Cardinality(A) > 2 * Len(Validators) => 3 * Cardinality(B) > 2 * Len(Validators)
    BY <1>5, <1>6
  <1>8. QED
    BY <1>1, <1>2, <1>3, <1>7, Zenon DEF A, B

LEMMA MoreDecided ==
  ASSUME NEW N, NEW M, N \subseteq M
  PROVE  /\ \A V : VotesIn(N, V) => VotesIn(M, V)
         /\ \A h : DecidedIn(N, h) => DecidedIn(M, h)
  BY MoreBacked, Zenon DEF VotesIn, DecidedIn

\* Messages that are sound stay so when proposals follow.
LEMMA MoreProposals ==
  ASSUME NEW N, SoundIn(N), NEW P, \A m \in P : m.type = "proposal"
  PROVE  SoundIn(N \cup P)
  BY MoreBacked, Zenon DEF SoundIn

LEMMA QuorumIsMost ==
  ASSUME NEW a \in Nat, NEW b \in Nat, a >= quorum, a <= b
  PROVE  a >= 1 /\ 3 * b > 2 * Len(Validators)
  <1> DEFINE L == Len(Validators)
             q == (L * 2) \div 3
  <1>1. L \in Nat /\ a >= q + 1
    BY ValidatorsFinite DEF quorum
  <1> HIDE DEF L
  <1>2. q \in Nat /\ 3 * q + 3 > L * 2
    BY <1>1
  <1> HIDE DEF q
  <1>3. QED
    BY <1>1, <1>2 DEF L

\* The quorum that an engine counts is one of the validators: it counts a
\* vote once for each voter.
LEMMA CountedBacked ==
  ASSUME NEW N, NEW e \in Engine, VotesIn(N, e.votes), NEW type, NEW h, NEW hash,
         HasQuorum(e, type, h, hash)
  PROVE  /\ BackedIn(N, type, h, hash)
         /\ \E m \in N : m.type = type /\ m.height = h /\ m.hash = hash
  <1> DEFINE R == {v \in e.votes : v.type = type /\ v.height = h /\ v.hash = hash}
             B == VotersIn(N, type, h, hash)
             f == [r \in R |-> r.voter]
  <1>1. \A r \in R : r \in Recorded /\ r.voter \in B
    BY Zenon DEF VotesIn, Engine
  <1>2. \A r, s \in R : r.voter = s.voter => r = s
    BY <1>1 DEF Recorded
  <1>3. Cardinality(R) >= quorum
    BY Zenon DEF HasQuorum
  <1>4. B \subseteq ValidatorSet
    BY Zenon DEF VotersIn
  <1> HIDE DEF R, B
  <1>5. f \in Injection(R, B)
    BY <1>1, <1>2, Zenon DEF Injection, IsInjective
  <1> HIDE DEF f
  <1>6. IsFiniteSet(B)
    BY <1>4, ValidatorsFinite, FS_Subset
  <1>7. IsFiniteSet(R) /\ Cardinality(R) <= Cardinality(B)
    BY <1>5, <1>6, FS_Injection
  <1>8. Cardinality(R) \in Nat /\ Cardinality(B) \in Nat /\ Len(Validators) \in Nat
    BY <1>6, <1>7, FS_CardinalityType, ValidatorsFinite
  <1>9. Cardinality(R) >= 1 /\ 3 * Cardinality(B) > 2 * Len(Validators)
    BY <1>3, <1>7, <1>8, QuorumIsMost, Zenon
  <1>10. R # {}
    <2> SUFFICES ASSUME R = {} PROVE FALSE
      BY Zenon
    <2>1. Cardinality(R) = 0
      BY NoneCounted
    <2>2. QED
      BY <1>9, <2>1
  <1>11. PICK r \in R : r.voter \in B
    BY <1>1, <1>10, Zenon
  <1>12. QED
    BY <1>9, <1>11, Zenon DEF BackedIn, VotersIn, B

OnlyProposes(e, res) ==
    /\ res \in Result /\ res.eng.votes = e.votes /\ res.commit = None
    /\ \A m \in res.out : m.type = "proposal"

\* What adds nothing but proposals, and leaves the recorded votes alone.
LEMMA QuietPhased ==
  ASSUME NEW N, SoundIn(N), NEW h, NEW res, VotesIn(N, res.eng.votes),
         \A m \in res.out : m.type = "proposal", res.commit = None
  PROVE  Phased(N, h, res)
  <1> DEFINE M == N \cup res.out
  <1>1. N \subseteq M
    BY Zenon
  <1>2. SoundIn(M)
    BY MoreProposals, Zenon
  <1> HIDE DEF M
  <1>3. VotesIn(M, res.eng.votes)
    BY <1>1, MoreDecided
  <1>4. QED
    BY <1>2, <1>3, Zenon DEF Phased, M

LEMMA OkPhased ==
  ASSUME NEW N, SoundIn(N), NEW h, NEW e, VotesIn(N, e.votes)
  PROVE  Phased(N, h, Ok(e)) /\ Phased(N, h, Err(e))
  BY QuietPhased, Zenon DEF Ok, Err

LEMMA StartNewRoundPhased ==
  ASSUME NEW n \in Nodes, NEW e \in Engine, NEW r \in Nat, NEW d \in Draft
  PROVE  OnlyProposes(e, start_new_round(n, e, e.height, r, d))
  <1> DEFINE res == start_new_round(n, e, e.height, r, d)
  <1>1. res \in Result /\ \A m \in res.out : m.type = "proposal"
    <2>1. Entered(n, e.loop, e.height, r, res)
      BY StartNewRound, Zenon
    <2> HIDE DEF res
    <2>2. QED
      BY <2>1, Zenon DEF Entered
  <1>2. res.eng.votes = e.votes /\ res.commit = None
    <2> DEFINE p == [type |-> "proposal", height |-> e.height, round |-> r,
                     block |-> create_block(e, e.height, d), proposer |-> n]
    <2>1. /\ \A x : [e EXCEPT !.round = r, !.state = x].votes = e.votes
          /\ \A x : [e EXCEPT !.round = r, !.proposal = p, !.state = x].votes = e.votes
      BY Zenon DEF Engine
    <2> HIDE DEF p
    <2>2. QED
      BY <2>1, Zenon DEF start_new_round, p, Ok, Err, Sent
  <1>3. QED
    BY <1>1, <1>2, Zenon DEF OnlyProposes

LEMMA CommitBlockPhased ==
  ASSUME NEW n \in Nodes, NEW e \in Engine, NEW d \in Draft, Fits(e),
         NEW N, SoundIn(N), VotesIn(N, e.votes), DecidedIn(N, e.height)
  PROVE  Phased(N, e.height, commit_block(n, e, d))
  <1> DEFINE b == e.proposal.block
             applied == [e EXCEPT !.applied = b.height]
             saved == [applied EXCEPT !.last = b, !.height = e.height + 1]
             new == start_new_round(n, saved, e.height + 1, 0, d)
  <1>1. CASE e.proposal = None \/ b.height # e.applied + 1 \/ ~b.applies
    BY <1>1, OkPhased, Zenon DEF commit_block
  <1>2. CASE ~(e.proposal = None \/ b.height # e.applied + 1 \/ ~b.applies)
    <2>1. b \in Block /\ b.height \in Nat /\ b.height = e.height /\ e.height + 1 \in Nat
      <3>1. b \in Block /\ b.height \in Nat /\ b.height = e.height /\ e.height \in Nat
        BY <1>2, Zenon DEF Engine, Proposal, Block, Fits
      <3>2. QED
        BY <3>1
    <2> HIDE DEF b
    <2>2. applied \in Engine /\ applied.votes = e.votes
      BY <2>1, Zenon DEF Engine
    <2> HIDE DEF applied
    <2>3. saved \in Engine /\ saved.votes = e.votes /\ saved.height = e.height + 1
      <3> DEFINE h == e.height + 1
      <3> HIDE DEF h
      <3>1. /\ [applied EXCEPT !.last = b, !.height = h] \in Engine
            /\ [applied EXCEPT !.last = b, !.height = h].votes = e.votes
            /\ [applied EXCEPT !.last = b, !.height = h].height = h
        <4>1. h \in Nat
          BY <2>1, Zenon DEF h
        <4>2. QED
          BY <2>1, <2>2, <4>1, Zenon DEF Engine
      <3>2. QED
        BY <3>1, Zenon DEF h
    <2>4. CASE d.saveFails
      <3>1. commit_block(n, e, d) = [eng |-> applied, out |-> {}, commit |-> None, err |-> TRUE,
                                     faults |-> 1]
        BY <1>2, <2>4, Zenon DEF commit_block, Err, Ok, applied, b
      <3>2. QED
        BY <2>2, <3>1, QuietPhased, Zenon
    <2>5. CASE ~d.saveFails
      <3> HIDE DEF saved
      <3>1. OnlyProposes(saved, new)
        BY <2>3, StartNewRoundPhased, Zenon
      <3>2. commit_block(n, e, d) = [new EXCEPT !.commit = b]
        BY <1>2, <2>5, Zenon DEF commit_block, applied, saved, b
      <3> HIDE DEF new
      <3>3. /\ [new EXCEPT !.commit = b].eng = new.eng /\ [new EXCEPT !.commit = b].out = new.out
            /\ [new EXCEPT !.commit = b].commit = b
        BY <3>1, Zenon DEF Result, OnlyProposes
      <3> DEFINE M == N \cup new.out
      <3>4. N \subseteq M /\ VotesIn(N, new.eng.votes)
        BY <2>3, <3>1, Zenon DEF OnlyProposes
      <3>5. SoundIn(M)
        BY <3>1, MoreProposals, Zenon DEF OnlyProposes
      <3> HIDE DEF M
      <3>6. VotesIn(M, new.eng.votes) /\ DecidedIn(M, e.height)
        BY <3>4, MoreDecided
      <3>7. QED
        BY <2>1, <3>2, <3>3, <3>5, <3>6, Zenon DEF Phased, M
    <2>6. QED
      BY <2>4, <2>5, Zenon DEF Draft
  <1>3. QED
    BY <1>1, <1>2, Zenon

LEMMA CheckPrecommitPhased ==
  ASSUME NEW n \in Nodes, NEW e \in Engine, NEW hash \in Nat, NEW d \in Draft, Fits(e),
         NEW N, SoundIn(N), VotesIn(N, e.votes)
  PROVE  Phased(N, e.height, check_precommit_quorum(n, e, hash, d))
  <1>1. CASE HasQuorum(e, "precommit", e.height, hash)
    <2>1. DecidedIn(N, e.height)
      <3> DEFINE type == "precommit"
      <3> HIDE DEF type
      <3>1. HasQuorum(e, type, e.height, hash)
        BY <1>1, Zenon DEF type
      <3>2. BackedIn(N, type, e.height, hash)
        BY <3>1, CountedBacked
      <3>3. PICK m \in N : m.type = type /\ m.height = e.height /\ m.hash = hash
        BY <3>1, CountedBacked
      <3>4. QED
        BY <3>2, <3>3, Zenon DEF DecidedIn, type
    <2>2. QED
      BY <1>1, <2>1, CommitBlockPhased, Zenon DEF check_precommit_quorum
  <1>2. CASE ~HasQuorum(e, "precommit", e.height, hash)
    BY <1>2, OkPhased, Zenon DEF check_precommit_quorum
  <1>3. QED
    BY <1>1, <1>2, Zenon

\* A vote that was sent is recorded.
LEMMA AddVotePhased ==
  ASSUME NEW e \in Engine, NEW v \in Vote, NEW N, v \in N, v.voter \in ValidatorSet,
         VotesIn(N, e.votes), Fits(e)
  PROVE  VotesIn(N, add_vote(e, v).votes) /\ Fits(add_vote(e, v))
  <1> DEFINE r == [type |-> v.type, height |-> v.height, hash |-> v.hash, voter |-> v.voter]
  <1>1. /\ add_vote(e, v).votes = e.votes \cup {r}
        /\ add_vote(e, v).proposal = e.proposal /\ add_vote(e, v).applied = e.applied
        /\ add_vote(e, v).height = e.height
    BY Zenon DEF add_vote, Engine
  <1>2. r.voter \in VotersIn(N, r.type, r.height, r.hash)
    BY Zenon DEF VotersIn
  <1> HIDE DEF r
  <1>3. QED
    BY <1>1, <1>2, Zenon DEF VotesIn, Fits

\* A vote is sent before what the call that follows sends.
LEMMA SentPhased ==
  ASSUME NEW N, NEW h, NEW v, NEW res \in Result, Phased(N \cup {v}, h, res)
  PROVE  Phased(N, h, Sent(v, res))
  <1>1. /\ Sent(v, res).eng = res.eng /\ Sent(v, res).out = res.out \cup {v}
        /\ Sent(v, res).commit = res.commit
    BY Zenon DEF Sent, Result
  <1>2. N \cup (res.out \cup {v}) = (N \cup {v}) \cup res.out
    BY Zenon
  <1>3. QED
    BY <1>1, <1>2, Zenon DEF Phased

\* The messages and the engine once a validator's own vote is sent.
LEMMA OwnVotePhased ==
  ASSUME NEW n \in ValidatorSet, NEW e \in Engine, NEW type \in VoteType, NEW hash \in Nat,
         Fits(e), NEW N, SoundIn(N), VotesIn(N, e.votes),
         type = "precommit" => BackedIn(N, "prevote", e.height, hash)
  PROVE  LET v == OwnVote(n, e, type, hash)
         IN  /\ v \in Vote /\ add_vote(e, v) \in Engine /\ add_vote(e, v).height = e.height
             /\ SoundIn(N \cup {v}) /\ VotesIn(N \cup {v}, add_vote(e, v).votes)
             /\ Fits(add_vote(e, v))
  <1> DEFINE v == OwnVote(n, e, type, hash)
             M == N \cup {v}
  <1>1. n \in Nodes
    BY EngineAssumption DEF ValidatorSet
  <1>2. /\ v \in Vote /\ v.type = type /\ v.height = e.height /\ v.hash = hash /\ v.voter = n
    BY <1>1, Zenon DEF OwnVote, Vote, Engine
  <1> HIDE DEF v
  <1>3. N \subseteq M /\ v \in M
    BY Zenon
  <1>4. \A k \in M : k \in N \/ k = v
    BY Zenon
  <1> HIDE DEF M
  <1>5. VotesIn(M, e.votes)
    BY <1>3, MoreDecided
  <1>6. VotesIn(M, add_vote(e, v).votes) /\ Fits(add_vote(e, v))
    BY <1>2, <1>3, <1>5, AddVotePhased, Zenon
  <1>7. SoundIn(M)
    <2> SUFFICES ASSUME NEW k \in M
                 PROVE  /\ k.type # "proposal" => k.voter \in ValidatorSet
                        /\ k.type = "precommit" => BackedIn(M, "prevote", k.height, k.hash)
      BY Zenon DEF SoundIn
    <2>1. \A h, x : BackedIn(N, "prevote", h, x) => BackedIn(M, "prevote", h, x)
      <3> DEFINE prevote == "prevote"
      <3> HIDE DEF prevote
      <3>1. \A h, x : BackedIn(N, prevote, h, x) => BackedIn(M, prevote, h, x)
        BY <1>3, MoreBacked
      <3>2. QED
        BY <3>1, Zenon DEF prevote
    <2>2. CASE k \in N
      BY <2>1, <2>2, Zenon DEF SoundIn
    <2>3. CASE k = v
      BY <1>2, <2>1, <2>3, Zenon
    <2>4. QED
      BY <1>4, <2>2, <2>3, Zenon
  <1>8. add_vote(e, v) \in Engine /\ add_vote(e, v).height = e.height
    BY <1>2, AddVote, Zenon
  <1>9. QED
    BY <1>2, <1>6, <1>7, <1>8, Zenon DEF v, M

LEMMA SendPrecommitPhased ==
  ASSUME NEW n \in Nodes, NEW e \in Engine, NEW hash \in Nat, NEW d \in Draft, Fits(e),
         NEW N, SoundIn(N), VotesIn(N, e.votes), BackedIn(N, "prevote", e.height, hash)
  PROVE  Phased(N, e.height, send_precommit(n, e, hash, d))
  <1> DEFINE v == OwnVote(n, e, "precommit", hash)
             f == add_vote(e, v)
             res == check_precommit_quorum(n, f, hash, d)
  <1>1. CASE n \in ValidatorSet
    <2>1. /\ f \in Engine /\ f.height = e.height /\ Fits(f)
          /\ SoundIn(N \cup {v}) /\ VotesIn(N \cup {v}, f.votes)
      BY <1>1, OwnVotePhased, Zenon DEF VoteType
    <2> HIDE DEF v, f
    <2>2. Phased(N \cup {v}, e.height, res) /\ res \in Result
      BY <2>1, CheckPrecommitPhased, CheckPrecommit, Zenon DEF Chained
    <2> HIDE DEF res
    <2>3. Phased(N, e.height, Sent(v, res))
      BY <2>2, SentPhased, Zenon
    <2>4. QED
      BY <1>1, <2>3, Zenon DEF send_precommit, v, f, res
  <1>2. CASE n \notin ValidatorSet
    BY <1>2, OkPhased, Zenon DEF send_precommit
  <1>3. QED
    BY <1>1, <1>2, Zenon

LEMMA CheckPrevotePhased ==
  ASSUME NEW n \in Nodes, NEW e \in Engine, NEW hash \in Nat, NEW d \in Draft, Fits(e),
         NEW N, SoundIn(N), VotesIn(N, e.votes)
  PROVE  Phased(N, e.height, check_prevote_quorum(n, e, hash, d))
  <1>1. CASE HasQuorum(e, "prevote", e.height, hash)
    <2>1. BackedIn(N, "prevote", e.height, hash)
      <3> DEFINE prevote == "prevote"
      <3> HIDE DEF prevote
      <3>1. HasQuorum(e, prevote, e.height, hash)
        BY <1>1, Zenon DEF prevote
      <3>2. BackedIn(N, prevote, e.height, hash)
        BY <3>1, CountedBacked
      <3>3. QED
        BY <3>2, Zenon DEF prevote
    <2>2. QED
      BY <1>1, <2>1, SendPrecommitPhased, Zenon DEF check_prevote_quorum
  <1>2. CASE ~HasQuorum(e, "prevote", e.height, hash)
    BY <1>2, OkPhased, Zenon DEF check_prevote_quorum
  <1>3. QED
    BY <1>1, <1>2, Zenon

LEMMA SendPrevotePhased ==
  ASSUME NEW n \in Nodes, NEW e \in Engine, NEW hash \in Nat, NEW d \in Draft, Fits(e),
         NEW N, SoundIn(N), VotesIn(N, e.votes)
  PROVE  Phased(N, e.height, send_prevote(n, e, hash, d))
  <1> DEFINE v == OwnVote(n, e, "prevote", hash)
             f == add_vote(e, v)
             res == check_prevote_quorum(n, f, hash, d)
  <1>1. CASE n \in ValidatorSet
    <2>1. /\ f \in Engine /\ f.height = e.height /\ Fits(f)
          /\ SoundIn(N \cup {v}) /\ VotesIn(N \cup {v}, f.votes)
      BY <1>1, OwnVotePhased, Zenon DEF VoteType
    <2> HIDE DEF v, f
    <2>2. Phased(N \cup {v}, e.height, res) /\ res \in Result
      BY <2>1, CheckPrevotePhased, CheckPrevote, Zenon DEF Chained
    <2> HIDE DEF res
    <2>3. Phased(N, e.height, Sent(v, res))
      BY <2>2, SentPhased, Zenon
    <2>4. QED
      BY <1>1, <2>3, Zenon DEF send_prevote, v, f, res
  <1>2. CASE n \notin ValidatorSet
    BY <1>2, OkPhased, Zenon DEF send_prevote
  <1>3. QED
    BY <1>1, <1>2, Zenon

LEMMA HandleProposalPhased ==
  ASSUME NEW n \in Nodes, NEW e \in Engine, NEW p \in Proposal, NEW d \in Draft,
         accepts_proposal(e, p), NEW N, SoundIn(N), VotesIn(N, e.votes)
  PROVE  Phased(N, e.height, handle_proposal(n, e, p, d))
  <1> DEFINE f == [e EXCEPT !.proposal = p]
  <1>1. /\ f \in Engine /\ f.proposal = p /\ f.height = e.height /\ f.votes = e.votes
    BY Zenon DEF Engine
  <1>2. p.block.hash \in Nat /\ p.block.height = e.height
    BY Zenon DEF Proposal, Block, accepts_proposal, validate_block
  <1> HIDE DEF f
  <1>3. Fits(f)
    BY <1>1, <1>2, Zenon DEF Fits
  <1>4. QED
    BY <1>1, <1>2, <1>3, SendPrevotePhased, Zenon DEF handle_proposal, f

LEMMA HandleVotePhased ==
  ASSUME NEW n \in Nodes, NEW e \in Engine, NEW v \in Vote, NEW d \in Draft, Fits(e),
         NEW N, v \in N, v.type # "proposal", SoundIn(N), VotesIn(N, e.votes)
  PROVE  Phased(N, e.height, handle_vote(n, e, v, d))
  <1> DEFINE f == add_vote(e, v)
  <1>1. f \in Engine /\ f.height = e.height /\ v.hash \in Nat
    BY AddVote, Zenon DEF Vote
  <1>2. v.voter \in ValidatorSet
    BY Zenon DEF SoundIn
  <1>3. VotesIn(N, f.votes) /\ Fits(f)
    BY <1>2, AddVotePhased, Zenon
  <1> HIDE DEF f
  <1>4. /\ Phased(N, e.height, check_prevote_quorum(n, f, v.hash, d))
        /\ Phased(N, e.height, check_precommit_quorum(n, f, v.hash, d))
    BY <1>1, <1>3, CheckPrevotePhased, CheckPrecommitPhased, Zenon
  <1>5. QED
    BY <1>4, Zenon DEF handle_vote, f

\* What a command leaves behind, once its result is applied.
LEMMA ApplyPhased ==
  ASSUME EngineTypeOK, QuorumInv, NEW n \in Nodes, NEW h, NEW res, Apply(n, res),
         Phased(net, h, res)
  PROVE  QuorumInv'
  <1>1. /\ engine'[n] = res.eng
        /\ commits'[n] = IF res.commit = None THEN commits[n] ELSE commits[n] \cup {res.commit}
        /\ \A m \in Nodes : m # n => engine'[m] = engine[m] /\ commits'[m] = commits[m]
        /\ net' = net \cup res.out
    BY Zenon DEF Apply, EngineTypeOK
  <1>2. /\ \A V : VotesIn(net, V) => VotesIn(net', V)
        /\ \A k : DecidedIn(net, k) => DecidedIn(net', k)
    <2>1. net \subseteq net'
      BY <1>1, Zenon
    <2> DEFINE M == net'
    <2> HIDE DEF M
    <2>2. /\ \A V : VotesIn(net, V) => VotesIn(M, V)
          /\ \A k : DecidedIn(net, k) => DecidedIn(M, k)
      <3>1. net \subseteq M
        BY <2>1, Zenon DEF M
      <3>2. QED
        BY <3>1, MoreDecided
    <2>3. QED
      BY <2>2, Zenon DEF M
  <1>3. SoundIn(net') /\ VotesIn(net', res.eng.votes)
    BY <1>1, Zenon DEF Phased
  <1>4. res.commit # None => DecidedIn(net', res.commit.height)
    BY <1>1, Zenon DEF Phased
  <1>5. \A m \in Nodes : VotesIn(net', engine'[m].votes)
    BY <1>1, <1>2, <1>3, Zenon DEF QuorumInv
  <1>6. \A m \in Nodes : \A b \in commits'[m] : DecidedIn(net', b.height)
    BY <1>1, <1>2, <1>4, Zenon DEF QuorumInv
  <1>7. QED
    BY <1>3, <1>5, <1>6, Zenon DEF QuorumInv, SoundIn, VotesIn, DecidedIn, BackedIn, VotersIn

LEMMA InitQuorum == EngineInit => QuorumInv
  <1> SUFFICES ASSUME EngineInit PROVE QuorumInv
    BY Zenon
  <1>1. net = {} /\ \A n \in Nodes : engine[n].votes = {} /\ commits[n] = {}
    BY DEF EngineInit
  <1>2. QED
    BY <1>1, Zenon DEF QuorumInv, SoundIn, VotesIn

LEMMA StartQuorum == ASSUME Inv, QuorumInv, NEW n \in Nodes, Start(n) PROVE QuorumInv'
  <1> DEFINE h == IF SavedHeight > engine[n].height THEN SavedHeight ELSE engine[n].height
             e == [engine[n] EXCEPT !.height = h]
  <1>1. PICK d \in Drafts :
          LET res == start_new_round(n, e, e.height, 0, d)
          IN  Apply(n, [res EXCEPT !.eng.loop = IF res.err THEN "ended" ELSE "running"])
    BY Zenon DEF Start
  <1> DEFINE res == start_new_round(n, e, e.height, 0, d)
             loop == IF res.err THEN "ended" ELSE "running"
             fin == [res EXCEPT !.eng.loop = loop]
  <1>2. engine[n] \in Engine /\ d \in Draft
    BY DraftType, Zenon DEF Inv, EngineTypeOK
  <1>3. Apply(n, fin)
    BY <1>1, Zenon
  <1>4. h \in Nat
    BY <1>2, EngineAssumption DEF Engine
  <1> HIDE DEF h
  <1>5. e \in Engine /\ e.votes = engine[n].votes
    BY <1>2, <1>4, Zenon DEF Engine
  <1> HIDE DEF e
  <1>6. OnlyProposes(e, res)
    BY <1>2, <1>5, StartNewRoundPhased, Zenon
  <1> HIDE DEF res, loop
  <1>7. fin.eng.votes = e.votes /\ fin.out = res.out /\ fin.commit = None
    BY <1>6, Zenon DEF OnlyProposes, Result, Engine
  <1> HIDE DEF fin
  <1>8. SoundIn(net) /\ VotesIn(net, fin.eng.votes) /\ \A m \in fin.out : m.type = "proposal"
    BY <1>5, <1>6, <1>7, Zenon DEF QuorumInv, OnlyProposes
  <1>9. Phased(net, 0, fin)
    BY <1>7, <1>8, QuietPhased, Zenon
  <1>10. QED
    BY <1>3, <1>9, ApplyPhased, Zenon DEF Inv

LEMMA TimeoutQuorum == ASSUME Inv, QuorumInv, NEW n \in Nodes, Timeout(n) PROVE QuorumInv'
  <1> DEFINE e == engine[n]
             res(d) == start_new_round(n, e, e.height, e.round + 1, d)
  <1>1. PICK d \in Drafts : Apply(n, res(d))
    BY Zenon DEF Timeout
  <1>2. e \in Engine /\ d \in Draft /\ e.round + 1 \in Nat
    BY DraftType DEF Timeout, Inv, EngineTypeOK, Engine
  <1>3. VotesIn(net, e.votes) /\ SoundIn(net)
    BY Zenon DEF QuorumInv
  <1> HIDE DEF e
  <1>4. OnlyProposes(e, res(d))
    BY <1>2, StartNewRoundPhased, Zenon
  <1> HIDE DEF res
  <1>5. Phased(net, 0, res(d))
    BY <1>3, <1>4, QuietPhased, Zenon DEF OnlyProposes
  <1>6. QED
    BY <1>1, <1>5, ApplyPhased, Zenon DEF Inv

LEMMA ProposalReceivedQuorum ==
  ASSUME Inv, QuorumInv, NEW n \in Nodes, ProposalReceived(n) PROVE QuorumInv'
  <1>1. PICK p \in Proposals, d \in Drafts :
           accepts_proposal(engine[n], p) /\ Apply(n, handle_proposal(n, engine[n], p, d))
    BY Zenon DEF ProposalReceived, Proposals
  <1>2. /\ p \in Proposal /\ engine[n] \in Engine /\ d \in Draft
        /\ SoundIn(net) /\ VotesIn(net, engine[n].votes)
    BY MessageKinds, DraftType, Zenon DEF Inv, EngineTypeOK, Proposals, QuorumInv
  <1>3. Phased(net, engine[n].height, handle_proposal(n, engine[n], p, d))
    BY <1>1, <1>2, HandleProposalPhased, Zenon
  <1>4. QED
    BY <1>1, <1>3, ApplyPhased, Zenon DEF Inv

LEMMA VoteReceivedQuorum ==
  ASSUME Inv, AllLinked, QuorumInv, NEW n \in Nodes, VoteReceived(n) PROVE QuorumInv'
  <1>1. PICK v \in Votes, d \in Drafts : Apply(n, handle_vote(n, engine[n], v, d))
    BY Zenon DEF VoteReceived, Votes
  <1>2. /\ v \in Vote /\ v \in net /\ v.type # "proposal" /\ engine[n] \in Engine /\ d \in Draft
        /\ SoundIn(net) /\ VotesIn(net, engine[n].votes)
    BY MessageKinds, DraftType, Zenon DEF Inv, EngineTypeOK, Votes, QuorumInv
  <1>3. Fits(engine[n])
    <2> DEFINE e == engine[n]
               b == e.proposal.block
    <2> SUFFICES ASSUME e.proposal # None, b.height = e.applied + 1
                 PROVE  b.height = e.height
      BY Zenon DEF Fits
    <2>1. /\ e.proposal # None => b.height <= e.height
          /\ e.proposal # None /\ commits[n] = {} => b.height = e.height
          /\ commits[n] # {} => e.applied >= e.height - 1
      BY Zenon DEF AllLinked, Linked
    <2>2. b.height \in Nat /\ e.height \in Nat /\ e.applied \in Nat
      BY <1>2, Zenon DEF Engine, Proposal, Block
    <2> HIDE DEF e, b
    <2>3. QED
      BY <2>1, <2>2
  <1>4. Phased(net, engine[n].height, handle_vote(n, engine[n], v, d))
    BY <1>2, <1>3, HandleVotePhased, Zenon
  <1>5. QED
    BY <1>1, <1>4, ApplyPhased, Zenon DEF Inv

LEMMA StopQuorum == ASSUME Inv, QuorumInv, NEW n \in Nodes, Stop(n) PROVE QuorumInv'
  <1> DEFINE f == [engine[n] EXCEPT !.loop = "ended"]
             res == [Ok(f) EXCEPT !.faults = 1]
  <1>1. engine[n] \in Engine /\ Apply(n, res)
    BY Zenon DEF Inv, EngineTypeOK, Stop
  <1>2. f.votes = engine[n].votes
    BY <1>1, Zenon DEF Engine
  <1> HIDE DEF f
  <1>3. res.eng = f /\ res.out = {} /\ res.commit = None
    BY Zenon DEF Ok
  <1> HIDE DEF res
  <1>4. Phased(net, 0, res)
    BY <1>2, <1>3, QuietPhased, Zenon DEF QuorumInv
  <1>5. QED
    BY <1>1, <1>4, ApplyPhased, Zenon DEF Inv

LEMMA NextQuorum == Inv /\ AllLinked /\ QuorumInv /\ [EngineNext]_engineVars => QuorumInv'
  <1> SUFFICES ASSUME Inv, AllLinked, QuorumInv, [EngineNext]_engineVars PROVE QuorumInv'
    BY Zenon
  <1>1. CASE EngineNext
    BY <1>1, StartQuorum, ProposalReceivedQuorum, VoteReceivedQuorum, TimeoutQuorum, StopQuorum,
       Zenon DEF EngineNext
  <1>2. CASE UNCHANGED engineVars
    <2>1. net' = net /\ engine' = engine /\ commits' = commits
      BY <1>2, Zenon DEF engineVars
    <2>2. /\ SoundIn(net') /\ \A n \in Nodes : VotesIn(net', engine'[n].votes)
          /\ \A n \in Nodes : \A b \in commits'[n] : DecidedIn(net', b.height)
      BY <2>1, Zenon DEF QuorumInv
    <2>3. QED
      BY <2>2, Zenon DEF QuorumInv, SoundIn, VotesIn, DecidedIn, BackedIn, VotersIn
  <1>3. QED
    BY <1>1, <1>2, Zenon

\* For every number of nodes and validators, every precommit has the prevotes
\* of more than two thirds of the validators behind it, and every height that
\* an engine commits has the precommits of more than two thirds for one block:
\* add_vote counts a voter once, and check_prevote_quorum and
\* check_precommit_quorum count what the engine recorded, over all rounds.
THEOREM CommitAlwaysNeedsTwoQuorums == EngineSpec => []CommitNeedsTwoQuorums
  <1>1. QuorumInv => CommitNeedsTwoQuorums
    <2>1. \A type, h, hash : Backed(type, h, hash) <=> BackedIn(net, type, h, hash)
      BY Zenon DEF BackedIn, VotersIn, Backed
    <2>2. QED
      BY <2>1, Zenon DEF QuorumInv, CommitNeedsTwoQuorums, SoundIn, DecidedIn
  <1>2. QED
    BY <1>1, InitQuorum, NextQuorum, SpecInv, SpecLinked, PTL DEF EngineSpec

-----------------------------------------------------------------------------
(* The validators and the safety rules.                                     *)
SafetyCalls == [kind : {"proposal", "report", "lock", "vote"}, id : Int, height : Int,
                round : Int, hash : SafetyHashes \cup {NoHash}, answer : BOOLEAN]

(* A stake may have been cut: the validator was reported, or repeated a     *)
(* proposal.                                                                *)
Reproached(id) ==
    \E j \in DOMAIN safetyLog :
        /\ safetyLog[j].id = id
        /\ \/ safetyLog[j].kind = "report"
           \/ /\ safetyLog[j].kind = "proposal"
              /\ \E i \in 1..(j - 1) : SameCall(safetyLog[i], safetyLog[j])

(* Every key the rules have seen comes from a delivery, and every cut stake *)
(* from a report or a repetition.                                           *)
SlashInv ==
    /\ safetyLog \in Seq(SafetyCalls)
    /\ \A h \in SafetyHeights, r \in SafetyRounds, id \in ValIds :
           <<h, r, id>> \in seen_proposals =>
               \E i \in DOMAIN safetyLog :
                   /\ safetyLog[i].kind = "proposal" /\ safetyLog[i].id = id
                   /\ safetyLog[i].height = h /\ safetyLog[i].round = r
    /\ \A id \in DOMAIN valRecords : valRecords[id].slashed > 0 => Reproached(id)

ValAddresses == {r.address : r \in ValRequests} \cup {0}
ValStates == {"idle", "count", "id", "insert", "index", "update", "hung"}

(* A validator is in the set, or outstaked, or about to rebuild the set.    *)
Placed(id) ==
    \/ \E u \in ValUsers : valUser[u].id = id /\ valUser[u].at \in {"index", "update"}
    \/ \E i \in DOMAIN current_set : current_set[i].id = id
    \/ /\ Len(current_set) = ValMax
       /\ \A i \in DOMAIN current_set : current_set[i].stake >= valRecords[id].stake

(* While the records' lock is alive, every validator is active: the calls   *)
(* that deactivate one lose the lock.                                       *)
SetInv ==
    /\ DOMAIN valRecords \subseteq ValIds
    /\ \A id \in DOMAIN valRecords : valRecords[id].stake \in Nat
    /\ \A id \in DOMAIN valRecords :
           DOMAIN valRecords[id] = {"address", "stake", "slashed", "status", "voting_power", "avx"}
    /\ ~valHung => \A id \in DOMAIN valRecords : valRecords[id].status = "Active" /\ valRecords[id].avx
    /\ valUser \in [ValUsers -> [at : ValStates, address : ValAddresses, stake : Nat, id : 0..ValMaxIds]]
    /\ \A u \in ValUsers :
           /\ valUser[u].at \in {"insert", "index", "update"} => valUser[u].id \in ValIds
           /\ valUser[u].at # "idle" => check_hardware_features(valCpu)
    /\ next_validator_id \in Nat
    /\ \A i \in DOMAIN current_set : current_set[i].stake \in Nat
    /\ \A id \in DOMAIN valRecords : Placed(id)

(* A delivery extends the log and takes nothing from it.                    *)
LEMMA DeliveredFacts ==
    ASSUME safetyLog \in Seq(SafetyCalls), NEW kind \in {"proposal", "report", "lock", "vote"},
           NEW id \in Int, NEW height \in Int, NEW round \in Int,
           NEW hash \in SafetyHashes \cup {NoHash}, NEW answer \in BOOLEAN,
           Delivered(kind, id, height, round, hash, answer)
    PROVE  /\ safetyLog' \in Seq(SafetyCalls) /\ Len(safetyLog') = Len(safetyLog) + 1
           /\ DOMAIN safetyLog \subseteq DOMAIN safetyLog'
           /\ \A i \in DOMAIN safetyLog : safetyLog'[i] = safetyLog[i]
           /\ safetyLog'[Len(safetyLog')] = [kind |-> kind, id |-> id, height |-> height,
                                             round |-> round, hash |-> hash, answer |-> answer]
<1>1. [kind |-> kind, id |-> id, height |-> height, round |-> round, hash |-> hash,
       answer |-> answer] \in SafetyCalls
  BY Zenon DEF SafetyCalls
<1> QED BY <1>1 DEF Delivered

(* So what justified a cut stake still does.                                *)
LEMMA ReproachedStays ==
    ASSUME safetyLog \in Seq(SafetyCalls), safetyLog' \in Seq(SafetyCalls),
           DOMAIN safetyLog \subseteq DOMAIN safetyLog',
           \A i \in DOMAIN safetyLog : safetyLog'[i] = safetyLog[i],
           NEW id, Reproached(id)
    PROVE  Reproached(id)'
<1>1. PICK j \in DOMAIN safetyLog :
          /\ safetyLog[j].id = id
          /\ \/ safetyLog[j].kind = "report"
             \/ /\ safetyLog[j].kind = "proposal"
                /\ \E i \in 1..(j - 1) : SameCall(safetyLog[i], safetyLog[j])
  BY Zenon DEF Reproached
<1>2. j \in DOMAIN safetyLog' /\ safetyLog'[j] = safetyLog[j]
  BY Zenon
<1>3. \A i \in 1..(j - 1) : safetyLog'[i] = safetyLog[i]
  OBVIOUS
<1> QED BY <1>1, <1>2, <1>3, Zenon DEF Reproached

(* What slashing may change: only the records of the validator it names.    *)
LEMMA SlashedOnlyNamed ==
    ASSUME NEW id, NEW amount, slash_id(id, amount) \/ slash_double_sign(id)
    PROVE  /\ DOMAIN valRecords' = DOMAIN valRecords
           /\ \A k \in DOMAIN valRecords \ {id} : valRecords'[k] = valRecords[k]
BY Zenon DEF slash_id, slash_double_sign

LEMMA ProposalSlash ==
    ASSUME SlashInv, NEW h \in SafetyHeights, NEW r \in SafetyRounds, NEW id \in ValIds,
           NEW b \in SafetyHashes, check_proposal_safety(h, r, id, b)
    PROVE  SlashInv'
<1> DEFINE key == <<h, r, id>>
           repeat == key \in seen_proposals
           answer == ~repeat /\ LockAllows(h, b)
<1>1. /\ Delivered("proposal", id, h, r, b, answer)
      /\ seen_proposals' = seen_proposals \cup {key}
      /\ IF repeat /\ ~valHung THEN slash_id(id, valRecords[id].stake \div 20)
         ELSE UNCHANGED <<valRecords, valHung>>
  BY Zenon DEF check_proposal_safety, ProposalKey
<1>2. answer \in BOOLEAN
  BY Zenon DEF LockAllows
<1>3. h \in Int /\ r \in Int /\ id \in Int
  BY SafetyAssumption, ValAssumption DEF ValIds
<1> HIDE DEF answer
<1>4. /\ safetyLog' \in Seq(SafetyCalls) /\ Len(safetyLog') = Len(safetyLog) + 1
      /\ DOMAIN safetyLog \subseteq DOMAIN safetyLog'
      /\ \A i \in DOMAIN safetyLog : safetyLog'[i] = safetyLog[i]
      /\ safetyLog'[Len(safetyLog')] = [kind |-> "proposal", id |-> id, height |-> h,
                                        round |-> r, hash |-> b, answer |-> answer]
  BY <1>1, <1>2, <1>3, DeliveredFacts DEF SlashInv
<1>5. Len(safetyLog) \in Nat /\ Len(safetyLog') \in DOMAIN safetyLog'
      /\ DOMAIN safetyLog = 1..Len(safetyLog)
  BY <1>4 DEF SlashInv
<1>6. ASSUME NEW x \in SafetyHeights, NEW y \in SafetyRounds, NEW z \in ValIds,
             <<x, y, z>> \in seen_proposals'
      PROVE  \E i \in DOMAIN safetyLog' :
                 /\ safetyLog'[i].kind = "proposal" /\ safetyLog'[i].id = z
                 /\ safetyLog'[i].height = x /\ safetyLog'[i].round = y
  <2>1. CASE <<x, y, z>> \in seen_proposals
    BY <1>4, <2>1, SMTT(30) DEF SlashInv
  <2>2. CASE x = h /\ y = r /\ z = id
    BY <1>4, <1>5, <2>2
  <2> QED BY <1>1, <1>6, <2>1, <2>2, Zenon
<1>7. ASSUME repeat PROVE Reproached(id)'
  <2>1. PICK i \in DOMAIN safetyLog :
            /\ safetyLog[i].kind = "proposal" /\ safetyLog[i].id = id
            /\ safetyLog[i].height = h /\ safetyLog[i].round = r
    BY <1>7 DEF SlashInv
  <2>2. SameCall(safetyLog'[i], safetyLog'[Len(safetyLog')])
    BY <1>4, <2>1 DEF SameCall
  <2>3. i \in 1..(Len(safetyLog') - 1)
    BY <1>4, <1>5
  <2>4. safetyLog'[Len(safetyLog')].id = id /\ safetyLog'[Len(safetyLog')].kind = "proposal"
    BY <1>4
  <2> QED BY <1>5, <2>2, <2>3, <2>4, Zenon DEF Reproached
<1>8. ASSUME NEW k \in DOMAIN valRecords', valRecords'[k].slashed > 0 PROVE Reproached(k)'
  <2>1. CASE k # id \/ ~repeat
    <3>1. k \in DOMAIN valRecords /\ valRecords'[k] = valRecords[k]
      BY <1>1, <2>1, SlashedOnlyNamed
    <3> QED BY <1>4, <1>8, <3>1, ReproachedStays, Zenon DEF SlashInv
  <2>2. CASE k = id /\ repeat
    BY <1>7, <2>2, Zenon
  <2> QED BY <2>1, <2>2, Zenon
<1> QED BY <1>4, <1>6, <1>8, Zenon DEF SlashInv

LEMMA ReportSlash ==
    ASSUME SlashInv, NEW id \in ValIds, report_equivocation(id)
    PROVE  SlashInv'
<1> DEFINE answer == TRUE
           hash == NoHash
<1>0. /\ Delivered("report", id, 0, 0, hash, answer) /\ answer \in BOOLEAN
      /\ hash \in SafetyHashes \cup {NoHash}
  BY Zenon DEF report_equivocation
<1>1. slash_double_sign(id) /\ seen_proposals' = seen_proposals
  BY Zenon DEF report_equivocation
<1> HIDE DEF answer, hash
<1>2. id \in Int
  BY ValAssumption DEF ValIds
<1>3. /\ safetyLog' \in Seq(SafetyCalls) /\ Len(safetyLog') = Len(safetyLog) + 1
      /\ DOMAIN safetyLog \subseteq DOMAIN safetyLog'
      /\ \A i \in DOMAIN safetyLog : safetyLog'[i] = safetyLog[i]
      /\ safetyLog'[Len(safetyLog')] = [kind |-> "report", id |-> id, height |-> 0,
                                        round |-> 0, hash |-> hash, answer |-> answer]
  <2>1. safetyLog \in Seq(SafetyCalls)
    BY Zenon DEF SlashInv
  <2>2. "report" \in {"proposal", "report", "lock", "vote"} /\ 0 \in Int
    OBVIOUS
  <2> DEFINE kind == "report"
             zero == 0
  <2> HIDE DEF kind, zero
  <2>3. Delivered(kind, id, zero, zero, hash, answer)
    BY <1>0, Zenon DEF kind, zero
  <2>4. kind \in {"proposal", "report", "lock", "vote"} /\ zero \in Int
    BY <2>2, Zenon DEF kind, zero
  <2>5. /\ safetyLog' \in Seq(SafetyCalls) /\ Len(safetyLog') = Len(safetyLog) + 1
        /\ DOMAIN safetyLog \subseteq DOMAIN safetyLog'
        /\ \A i \in DOMAIN safetyLog : safetyLog'[i] = safetyLog[i]
        /\ safetyLog'[Len(safetyLog')] = [kind |-> kind, id |-> id, height |-> zero,
                                          round |-> zero, hash |-> hash, answer |-> answer]
    BY <1>0, <1>2, <2>1, <2>3, <2>4, DeliveredFacts
  <2> QED BY <2>5, Zenon DEF kind, zero
<1>4. Reproached(id)'
  <2>1. Len(safetyLog') \in DOMAIN safetyLog'
    BY <1>3 DEF SlashInv
  <2>2. safetyLog'[Len(safetyLog')].id = id /\ safetyLog'[Len(safetyLog')].kind = "report"
    BY <1>3
  <2> QED BY <2>1, <2>2, Zenon DEF Reproached
<1>5. ASSUME NEW k \in DOMAIN valRecords', valRecords'[k].slashed > 0 PROVE Reproached(k)'
  <2>1. CASE k = id
    BY <1>4, <2>1, Zenon
  <2>2. CASE k # id
    <3>1. k \in DOMAIN valRecords /\ valRecords'[k] = valRecords[k]
      BY <1>1, <2>2, SlashedOnlyNamed
    <3>2. Reproached(k) /\ safetyLog \in Seq(SafetyCalls)
      BY <1>5, <3>1, Zenon DEF SlashInv
    <3> QED BY <1>3, <3>2, ReproachedStays, Zenon
  <2> QED BY <2>1, <2>2, Zenon
<1>6. ASSUME NEW h \in SafetyHeights, NEW r \in SafetyRounds, NEW k \in ValIds,
             <<h, r, k>> \in seen_proposals'
      PROVE  \E i \in DOMAIN safetyLog' :
                 /\ safetyLog'[i].kind = "proposal" /\ safetyLog'[i].id = k
                 /\ safetyLog'[i].height = h /\ safetyLog'[i].round = r
  <2>1. PICK i \in DOMAIN safetyLog :
            /\ safetyLog[i].kind = "proposal" /\ safetyLog[i].id = k
            /\ safetyLog[i].height = h /\ safetyLog[i].round = r
    BY <1>1, <1>6 DEF SlashInv
  <2> QED BY <1>3, <2>1, Zenon
<1>7. safetyLog' \in Seq(SafetyCalls)
  BY <1>3
<1> QED BY <1>5, <1>6, <1>7 DEF SlashInv

(* A call that cuts no stake and records no proposal's key.                 *)
LEMMA OtherCallSlash ==
    ASSUME SlashInv, UNCHANGED <<seen_proposals, valRecords>>,
           \/ UNCHANGED safetyLog
           \/ \E kind \in {"lock", "vote"}, height \in Nat : Delivered(kind, 0, height, 0, NoHash, TRUE)
    PROVE  SlashInv'
<1>1. /\ safetyLog' \in Seq(SafetyCalls)
      /\ DOMAIN safetyLog \subseteq DOMAIN safetyLog'
      /\ \A i \in DOMAIN safetyLog : safetyLog'[i] = safetyLog[i]
  <2>1. CASE UNCHANGED safetyLog
    BY <2>1, Zenon DEF SlashInv
  <2>2. CASE \E kind \in {"lock", "vote"}, height \in Nat : Delivered(kind, 0, height, 0, NoHash, TRUE)
    <3> PICK kind \in {"lock", "vote"}, height \in Nat : Delivered(kind, 0, height, 0, NoHash, TRUE)
      BY <2>2, Zenon
    <3> DEFINE answer == TRUE
    <3>1. Delivered(kind, 0, height, 0, NoHash, answer) /\ answer \in BOOLEAN
      BY Zenon
    <3> HIDE DEF answer
    <3>2. /\ kind \in {"proposal", "report", "lock", "vote"} /\ 0 \in Int /\ height \in Int
          /\ NoHash \in SafetyHashes \cup {NoHash} /\ safetyLog \in Seq(SafetyCalls)
      BY DEF SlashInv
    <3> QED BY <3>1, <3>2, DeliveredFacts, Zenon
  <2> QED BY <2>1, <2>2, Zenon
<1>2. \A k \in DOMAIN valRecords' : valRecords'[k].slashed > 0 => Reproached(k)'
  BY <1>1, ReproachedStays, Zenon DEF SlashInv
<1> QED BY <1>1, <1>2 DEF SlashInv

(* A registration brings a record with nothing cut.                         *)
LEMMA ValSlash ==
    ASSUME SlashInv, ValNext, UNCHANGED safetyVars
    PROVE  SlashInv'
<1>1. seen_proposals' = seen_proposals /\ safetyLog' = safetyLog
  BY Zenon DEF safetyVars
<1>2. PICK u \in ValUsers : \/ register_validator(u) \/ CountActive(u) \/ TakeId(u)
                            \/ InsertRecord(u) \/ IndexAddress(u) \/ UpdateSet(u)
  BY Zenon DEF ValNext
<1>3. CASE InsertRecord(u)
  <2> DEFINE new == ValidatorRecord(valUser[u].address, valUser[u].stake)
  <2>1. new.slashed = 0
    BY Zenon DEF ValidatorRecord
  <2>2. valRecords' = Put(valRecords, valUser[u].id, new)
    BY <1>3, Zenon DEF InsertRecord
  <2> HIDE DEF new
  <2>3. \A k \in DOMAIN valRecords' : valRecords'[k] = new \/ (k \in DOMAIN valRecords
                                                          /\ valRecords'[k] = valRecords[k])
    BY <2>2, Zenon DEF Put
  <2> QED BY <1>1, <2>1, <2>3 DEF SlashInv, Reproached
<1>4. CASE ~InsertRecord(u)
  <2>1. valRecords' = valRecords
    BY <1>2, <1>4, Zenon DEF register_validator, CountActive, TakeId, IndexAddress, UpdateSet
  <2> QED BY <1>1, <2>1 DEF SlashInv, Reproached
<1> QED BY <1>3, <1>4, Zenon

LEMMA SafetyNextSlash ==
    SlashInv /\ [SafetyNext \/ VoteNext]_<<valVars, safetyVars>> => SlashInv'
<1> SUFFICES ASSUME SlashInv, [SafetyNext \/ VoteNext]_<<valVars, safetyVars>> PROVE SlashInv'
  BY Zenon
<1>1. CASE \E h \in SafetyHeights, r \in SafetyRounds, id \in ValIds, b \in SafetyHashes :
               check_proposal_safety(h, r, id, b)
  BY <1>1, ProposalSlash, Zenon
<1>2. CASE \E id \in ValIds : report_equivocation(id)
  BY <1>2, ReportSlash, Zenon
<1>3. CASE \E h \in SafetyHeights, b \in SafetyHashes : lock_proposal(h, b)
  <2> PICK h \in SafetyHeights, b \in SafetyHashes : lock_proposal(h, b)
    BY <1>3, Zenon
  <2>1. Delivered("lock", 0, h, 0, NoHash, TRUE) /\ UNCHANGED <<seen_proposals, valRecords>> /\ h \in Nat
    BY SafetyAssumption, Zenon DEF lock_proposal
  <2> QED BY <2>1, OtherCallSlash, Zenon
<1>4. CASE \/ unlock
           \/ \E t \in SafetyThreads : (\E b \in SafetyHashes : CommitChecks(t, b)) \/ SafetyCommit(t)
  <2>1. UNCHANGED <<seen_proposals, valRecords, safetyLog>>
    BY <1>4, Zenon DEF unlock, CommitChecks, SafetyCommit
  <2> QED BY <2>1, OtherCallSlash, Zenon
<1>5. CASE \E h \in SafetyHeights, r \in SafetyRounds, b \in SafetyHashes,
              k \in {"Prevote", "Precommit"}, id \in ValIds :
             ManagerAddVote([height |-> h, round |-> r, kind |-> k, voter |-> id, hash |-> b])
  <2>1. PICK vote : ManagerAddVote(vote)
    BY <1>5, Zenon
  <2>2. Delivered("vote", 0, 0, 0, NoHash, TRUE) /\ UNCHANGED <<seen_proposals, valRecords>>
    BY <2>1, Zenon DEF ManagerAddVote
  <2> QED BY <2>2, OtherCallSlash, Zenon
<1>6. CASE ValNext /\ UNCHANGED safetyVars
  BY <1>6, ValSlash, Zenon
<1>7. CASE UNCHANGED <<valVars, safetyVars>>
  BY <1>7, OtherCallSlash, Zenon DEF valVars, safetyVars
<1> QED BY <1>1, <1>2, <1>3, <1>4, <1>5, <1>6, <1>7, Zenon DEF SafetyNext, VoteNext

(* Whatever proposals, votes, reports, locks and registrations arrive and   *)
(* in whatever order, a stake is cut only for a report or a repeated        *)
(* proposal.  About check_proposal_safety, slash and slash_double_sign.     *)
THEOREM SlashedOnlyForRepeat == SafetySpec => []SlashedForRepeat
<1>1. ValInit /\ SafetyInit => SlashInv
  BY DEF ValInit, SafetyInit, SlashInv
<1>2. SlashInv => SlashedForRepeat
  BY Zenon DEF SlashInv, Reproached, SlashedForRepeat
<1> QED BY <1>1, <1>2, SafetyNextSlash, PTL DEF SafetySpec

(* A cut leaves the record's shape and hardware, and lowers the stake.      *)
LEMMA CutRecord ==
    ASSUME SetInv, NEW id \in DOMAIN valRecords, NEW amount \in Nat, amount <= valRecords[id].stake
    PROVE  LET cut == SlashedRecord(valRecords[id], amount)
           IN  /\ DOMAIN cut = DOMAIN valRecords[id] /\ cut.avx = valRecords[id].avx
               /\ cut.stake \in Nat /\ cut.stake <= valRecords[id].stake
               /\ cut.status \in {valRecords[id].status, "Inactive"}
<1>1. /\ valRecords[id].stake \in Nat
      /\ DOMAIN valRecords[id] = {"address", "stake", "slashed", "status", "voting_power", "avx"}
  BY Zenon DEF SetInv
<1> QED BY <1>1 DEF SlashedRecord

LEMMA SlashingSet ==
    ASSUME SetInv, NEW id,
           slash_id(id, valRecords[id].stake \div 20) \/ slash_double_sign(id),
           UNCHANGED <<valUser, current_set, next_validator_id, valCpu>>
    PROVE  SetInv'
<1>1. CASE id \notin DOMAIN valRecords
  <2>1. UNCHANGED <<valRecords, valHung>>
    BY <1>1, Zenon DEF slash_id, slash_double_sign
  <2> QED BY <2>1, Zenon DEF SetInv, Placed
<1>2. CASE id \in DOMAIN valRecords
  <2> DEFINE cut == SlashedRecord(valRecords[id], valRecords[id].stake \div 20)
  <2>1. valRecords[id].stake \div 20 \in Nat /\ valRecords[id].stake \div 20 <= valRecords[id].stake
    <3>1. valRecords[id].stake \in Nat
      BY <1>2, Zenon DEF SetInv
    <3>2. \A n \in Nat : n \div 20 \in Nat /\ n \div 20 <= n
      OBVIOUS
    <3> QED BY <3>1, <3>2, Zenon
  <2>2. /\ DOMAIN cut = DOMAIN valRecords[id] /\ cut.avx = valRecords[id].avx
        /\ cut.stake \in Nat /\ cut.stake <= valRecords[id].stake
        /\ cut.status \in {valRecords[id].status, "Inactive"}
    BY <1>2, <2>1, CutRecord, Zenon
  <2> HIDE DEF cut
  <2>3. DOMAIN valRecords' = DOMAIN valRecords /\ ~valHung
        /\ \A k \in DOMAIN valRecords \ {id} : valRecords'[k] = valRecords[k]
    BY SlashedOnlyNamed, Zenon DEF slash_id, slash_double_sign
  <2>4. /\ DOMAIN valRecords'[id] = DOMAIN valRecords[id]
        /\ valRecords'[id].stake = cut.stake
        /\ ~valHung' => valRecords'[id].avx = cut.avx /\ valRecords'[id].status = cut.status
                        /\ cut.status # "Inactive"
    <3>1. CASE slash_id(id, valRecords[id].stake \div 20)
      BY <1>2, <2>1, <2>2, <3>1, Zenon DEF slash_id, cut
    <3>2. CASE slash_double_sign(id)
      <4>1. valHung' /\ valRecords'[id] = [cut EXCEPT !.status = "Slashed"]
        BY <1>2, <3>2, Zenon DEF slash_double_sign, cut
      <4>2. "stake" \in DOMAIN cut
        BY <1>2, <2>2, Zenon DEF SetInv
      <4> QED BY <2>2, <4>1, <4>2, Zenon
    <3> QED BY <3>1, <3>2, Zenon
  <2>5. \A k \in DOMAIN valRecords : valRecords'[k].stake \in Nat
                                     /\ valRecords'[k].stake <= valRecords[k].stake
    BY <2>2, <2>3, <2>4 DEF SetInv
  <2>6. \A k \in DOMAIN valRecords : Placed(k)'
    <3> SUFFICES ASSUME NEW k \in DOMAIN valRecords PROVE Placed(k)'
      BY Zenon
    <3>1. Placed(k) /\ valRecords[k].stake \in Nat
      BY Zenon DEF SetInv
    <3>2. CASE \A i \in DOMAIN current_set : current_set[i].stake >= valRecords[k].stake
      <4>1. ASSUME NEW i \in DOMAIN current_set PROVE current_set[i].stake >= valRecords'[k].stake
        <5>1. current_set[i].stake \in Nat /\ current_set[i].stake >= valRecords[k].stake
          BY <3>2, Zenon DEF SetInv
        <5>2. valRecords'[k].stake \in Nat /\ valRecords'[k].stake <= valRecords[k].stake
          BY <2>5, Zenon
        <5> QED BY <3>1, <5>1, <5>2
      <4> QED BY <3>1, <4>1, Zenon DEF Placed
    <3>3. CASE ~(\A i \in DOMAIN current_set : current_set[i].stake >= valRecords[k].stake)
      BY <3>1, <3>3, Zenon DEF Placed
    <3> QED BY <3>2, <3>3, Zenon
  <2>7. \A k \in DOMAIN valRecords' :
            /\ DOMAIN valRecords'[k] = {"address", "stake", "slashed", "status", "voting_power", "avx"}
            /\ ~valHung' => valRecords'[k].status = "Active" /\ valRecords'[k].avx
    BY <2>2, <2>3, <2>4 DEF SetInv
  <2> QED BY <2>3, <2>5, <2>6, <2>7, Zenon DEF SetInv
<1> QED BY <1>1, <1>2, Zenon

(* A registration that moves on without touching records or the set.        *)
LEMMA UserStepSet ==
    ASSUME SetInv, NEW u \in ValUsers,
           valUser' \in [ValUsers -> [at : ValStates, address : ValAddresses, stake : Nat, id : 0..ValMaxIds]],
           \A w \in ValUsers \ {u} : valUser'[w] = valUser[w],
           valUser'[u].at \in {"insert", "index", "update"} => valUser'[u].id \in ValIds,
           valUser[u].at \in {"index", "update"} =>
               valUser'[u].id = valUser[u].id /\ valUser'[u].at \in {"index", "update"},
           check_hardware_features(valCpu), next_validator_id' \in Nat, valHung => valHung',
           UNCHANGED <<valRecords, current_set, valCpu>>
    PROVE  SetInv'
<1>1. \A k \in DOMAIN valRecords : Placed(k)'
  <2> SUFFICES ASSUME NEW k \in DOMAIN valRecords PROVE Placed(k)'
    BY Zenon
  <2>1. Placed(k)
    BY Zenon DEF SetInv
  <2> QED BY <2>1, Zenon DEF Placed
<1>2. \A w \in ValUsers :
          /\ valUser'[w].at \in {"insert", "index", "update"} => valUser'[w].id \in ValIds
          /\ valUser'[w].at # "idle" => check_hardware_features(valCpu)'
  BY Zenon DEF SetInv, check_hardware_features
<1> QED BY <1>1, <1>2, Zenon DEF SetInv

(* The new record waits for its registration to rebuild the set.            *)
LEMMA InsertRecordSet ==
    ASSUME SetInv, NEW u \in ValUsers, InsertRecord(u), UNCHANGED valCpu
    PROVE  SetInv'
<1> DEFINE User == [at : ValStates, address : ValAddresses, stake : Nat, id : 0..ValMaxIds]
           id == valUser[u].id
           new == ValidatorRecord(valUser[u].address, valUser[u].stake)
<1>1. valUser[u] \in User /\ valUser[u].at = "insert" /\ id \in ValIds /\ ~valHung
      /\ check_hardware_features(valCpu)
  BY Zenon DEF SetInv, InsertRecord
<1>2. /\ new.stake \in Nat /\ new.status = "Active" /\ new.avx
      /\ DOMAIN new = {"address", "stake", "slashed", "status", "voting_power", "avx"}
  BY <1>1, Zenon DEF ValidatorRecord
<1>3. valRecords' = Put(valRecords, id, new) /\ valUser' = [valUser EXCEPT ![u].at = "index"]
      /\ UNCHANGED <<next_validator_id, current_set, valHung>>
  BY Zenon DEF InsertRecord
<1> HIDE DEF new
<1>4. /\ DOMAIN valRecords' = DOMAIN valRecords \cup {id} /\ valRecords'[id] = new
      /\ \A k \in DOMAIN valRecords \ {id} : valRecords'[k] = valRecords[k]
  BY <1>3, Zenon DEF Put
<1>5. /\ valUser' \in [ValUsers -> User]
      /\ valUser'[u].at = "index" /\ valUser'[u].id = id
      /\ \A w \in ValUsers \ {u} : valUser'[w] = valUser[w]
  <2>1. valUser \in [ValUsers -> User] /\ "index" \in ValStates
    BY Zenon DEF SetInv, ValStates
  <2> QED BY <1>3, <2>1, Zenon
<1>6. \A k \in DOMAIN valRecords' : Placed(k)'
  <2> SUFFICES ASSUME NEW k \in DOMAIN valRecords', k # id PROVE Placed(k)'
    BY <1>5, Zenon DEF Placed
  <2>1. Placed(k) /\ valRecords'[k] = valRecords[k]
    BY <1>4, Zenon DEF SetInv
  <2> QED BY <1>1, <1>3, <1>5, <2>1, Zenon DEF Placed
<1>7. \A w \in ValUsers :
          /\ valUser'[w].at \in {"insert", "index", "update"} => valUser'[w].id \in ValIds
          /\ valUser'[w].at # "idle" => check_hardware_features(valCpu)'
  BY <1>1, <1>5, Zenon DEF SetInv, check_hardware_features
<1>8. \A k \in DOMAIN valRecords' :
          /\ valRecords'[k].stake \in Nat /\ valRecords'[k].status = "Active" /\ valRecords'[k].avx
          /\ DOMAIN valRecords'[k] = {"address", "stake", "slashed", "status", "voting_power", "avx"}
  BY <1>1, <1>2, <1>4, Zenon DEF SetInv
<1> QED BY <1>1, <1>3, <1>4, <1>5, <1>6, <1>7, <1>8, Zenon DEF SetInv

INSTANCE FiniteSetTheorems

(* What update_validator_set installs holds every validator when there is   *)
(* room for all, and otherwise leaves out only validators that have no more *)
(* stake than any member.                                                   *)
LEMMA RebuiltSet ==
    ASSUME SetInv, ~valHung, update_validator_set
    PROVE  /\ \A i \in DOMAIN current_set' : current_set'[i].stake \in Nat
           /\ \A id \in DOMAIN valRecords :
                 \/ \E i \in DOMAIN current_set' : current_set'[i].id = id
                 \/ /\ Len(current_set') = ValMax
                    /\ \A i \in DOMAIN current_set' : current_set'[i].stake >= valRecords[id].stake
<1>1. Eligible = DOMAIN valRecords
  BY Zenon DEF SetInv, ValActive, Eligible
<1>2. IsFiniteSet(Eligible) /\ Cardinality(Eligible) \in Nat
  <2>1. Eligible \subseteq 1..ValMaxIds /\ IsFiniteSet(1..ValMaxIds)
    BY <1>1, ValAssumption, FS_Interval DEF SetInv, ValIds
  <2> QED BY <2>1, FS_Subset, FS_CardinalityType, Zenon
<1>3. SetSize \in Nat /\ (SetSize = Cardinality(Eligible) \/ SetSize = ValMax)
  BY <1>2, ValAssumption, Zenon DEF SetSize
<1>4. PICK s \in [1..SetSize -> Eligible] : Ranked(s, Eligible) /\ current_set' = [i \in 1..SetSize |-> Info(s[i])]
  BY Zenon DEF update_validator_set
<1>5. /\ DOMAIN current_set' = 1..SetSize /\ Len(current_set') = SetSize
      /\ \A i \in 1..SetSize : /\ current_set'[i].id = s[i]
                            /\ current_set'[i].stake = valRecords[s[i]].stake
  <2>1. \A i \in 1..SetSize : Info(s[i]).id = s[i] /\ Info(s[i]).stake = valRecords[s[i]].stake
    BY Zenon DEF Info
  <2>2. DOMAIN current_set' = 1..SetSize /\ \A i \in 1..SetSize : current_set'[i] = Info(s[i])
    BY <1>4, Zenon
  <2>3. Len(current_set') = SetSize
    BY <1>3, <1>4
  <2> QED BY <2>1, <2>2, <2>3, Zenon
<1>6. ASSUME NEW id \in Eligible, \A i \in 1..SetSize : s[i] # id, SetSize = Cardinality(Eligible) PROVE FALSE
  <2>1. s \in Injection(1..SetSize, Eligible)
    <3>1. \A a, b \in 1..SetSize : s[a] = s[b] => a = b
      BY <1>4, Zenon DEF IsInjective, Ranked
    <3> QED BY <3>1, Zenon DEF Injection, IsInjective
  <2>2. Cardinality(1..SetSize) = Cardinality(Eligible)
    BY <1>3, <1>6, FS_Interval
  <2>3. s \in Surjection(1..SetSize, Eligible)
    BY <1>2, <2>1, <2>2, FS_Injection, Zenon
  <2> QED BY <1>6, <2>3, Zenon DEF Surjection
<1>7. ASSUME NEW id \in Eligible, \A i \in 1..SetSize : s[i] # id
      PROVE  \A i \in 1..SetSize : valRecords[s[i]].stake >= valRecords[id].stake
  <2> SUFFICES ASSUME NEW i \in 1..SetSize PROVE valRecords[s[i]].stake >= valRecords[id].stake
    BY Zenon
  <2>1. \A k \in 1..i : s[k] # id
    BY <1>3, <1>7
  <2>2. id \in Eligible \ {s[k] : k \in 1..i}
    BY <2>1, Zenon
  <2> QED BY <1>4, <2>2, Zenon DEF ByStake, Ranked
<1>8. \A i \in 1..SetSize : valRecords[s[i]].stake \in Nat
  BY <1>1, <1>4, Zenon DEF SetInv
<1> QED BY <1>1, <1>3, <1>5, <1>6, <1>7, <1>8, SMTT(60)

LEMMA UpdateSetSet ==
    ASSUME SetInv, NEW u \in ValUsers, UpdateSet(u), UNCHANGED valCpu
    PROVE  SetInv'
<1> DEFINE User == [at : ValStates, address : ValAddresses, stake : Nat, id : 0..ValMaxIds]
<1>1. /\ ~valHung /\ update_validator_set /\ valUser' = [valUser EXCEPT ![u] = ValIdle]
      /\ UNCHANGED <<valRecords, next_validator_id, valHung>>
  BY Zenon DEF UpdateSet
<1>2. ValIdle \in User /\ ValIdle.at = "idle"
  BY ValAssumption DEF ValIdle, ValStates, ValAddresses
<1>3. /\ valUser' \in [ValUsers -> User] /\ valUser'[u].at = "idle"
      /\ \A w \in ValUsers \ {u} : valUser'[w] = valUser[w]
  BY <1>1, <1>2, Zenon DEF SetInv
<1>4. \A id \in DOMAIN valRecords' : Placed(id)'
  BY <1>1, RebuiltSet, Zenon DEF Placed
<1>5. \A i \in DOMAIN current_set' : current_set'[i].stake \in Nat
  BY <1>1, RebuiltSet, Zenon
<1>6. \A w \in ValUsers :
          /\ valUser'[w].at \in {"insert", "index", "update"} => valUser'[w].id \in ValIds
          /\ valUser'[w].at # "idle" => check_hardware_features(valCpu)'
  BY <1>3 DEF SetInv, check_hardware_features
<1> QED BY <1>1, <1>3, <1>4, <1>5, <1>6, Zenon DEF SetInv

LEMMA ValNextSet == ASSUME SetInv, ValNext PROVE SetInv'
<1> DEFINE User == [at : ValStates, address : ValAddresses, stake : Nat, id : 0..ValMaxIds]
<1>1. PICK u \in ValUsers : \/ register_validator(u) \/ CountActive(u) \/ TakeId(u)
                            \/ InsertRecord(u) \/ IndexAddress(u) \/ UpdateSet(u)
  BY Zenon DEF ValNext
<1>2. valCpu' = valCpu
  BY Zenon DEF ValNext
<1>3. valUser \in [ValUsers -> User] /\ (valUser[u].at # "idle" => check_hardware_features(valCpu))
  BY Zenon DEF SetInv
<1>4. CASE register_validator(u)
  <2>1. PICK r \in ValRequests :
            /\ check_hardware_features(valCpu)
            /\ valUser' = [valUser EXCEPT ![u] = [at |-> "count", address |-> r.address,
                                                  stake |-> r.stake, id |-> 0]]
    BY <1>4, Zenon DEF register_validator
  <2>2. r.address \in ValAddresses /\ r.stake \in Nat /\ 0 \in 0..ValMaxIds /\ "count" \in ValStates
    BY ValAssumption DEF ValAddresses, ValStates
  <2>3. /\ valUser[u].at = "idle" /\ next_validator_id' \in Nat
        /\ UNCHANGED <<valRecords, current_set, valHung>>
    BY <1>4, Zenon DEF register_validator, SetInv
  <2>4. /\ valUser' \in [ValUsers -> User] /\ valUser'[u].at = "count"
        /\ \A w \in ValUsers \ {u} : valUser'[w] = valUser[w]
    BY <1>3, <2>1, <2>2, Zenon
  <2> QED BY <1>2, <2>1, <2>3, <2>4, UserStepSet, Zenon
<1>5. CASE CountActive(u)
  <2>1. PICK at \in {"hung", "id"} : valUser' = [valUser EXCEPT ![u].at = at]
    BY <1>5, Zenon DEF CountActive
  <2>2. /\ valUser' \in [ValUsers -> User] /\ valUser'[u].at = at
        /\ \A w \in ValUsers \ {u} : valUser'[w] = valUser[w]
    <3>1. at \in ValStates
      BY Zenon DEF ValStates
    <3> QED BY <1>3, <2>1, <3>1, Zenon
  <2>3. /\ valUser[u].at = "count" /\ ~valHung /\ next_validator_id' \in Nat
        /\ UNCHANGED <<valRecords, current_set>>
    BY <1>5, Zenon DEF CountActive, SetInv
  <2> QED BY <1>2, <1>3, <2>2, <2>3, UserStepSet, Zenon
<1>6. CASE TakeId(u)
  <2>1. /\ valUser' = [valUser EXCEPT ![u].at = "insert", ![u].id = next_validator_id]
        /\ valUser[u].at = "id" /\ next_validator_id \in ValIds
        /\ next_validator_id' = next_validator_id + 1
        /\ UNCHANGED <<valRecords, current_set, valHung>>
    BY <1>6, Zenon DEF TakeId
  <2>2. next_validator_id \in 0..ValMaxIds /\ next_validator_id' \in Nat /\ "insert" \in ValStates
    BY <2>1, ValAssumption DEF ValIds, ValStates
  <2>3. /\ valUser' \in [ValUsers -> User] /\ valUser'[u].id = next_validator_id
        /\ \A w \in ValUsers \ {u} : valUser'[w] = valUser[w]
    BY <1>3, <2>1, <2>2, ZenonT(60)
  <2> QED BY <1>2, <1>3, <2>1, <2>2, <2>3, UserStepSet
<1>7. CASE IndexAddress(u)
  <2>1. /\ valUser' = [valUser EXCEPT ![u].at = "update"] /\ valUser[u].at = "index"
        /\ UNCHANGED <<valRecords, next_validator_id, current_set, valHung>>
    BY <1>7, Zenon DEF IndexAddress
  <2>2. /\ valUser' \in [ValUsers -> User]
        /\ valUser'[u].at = "update" /\ valUser'[u].id = valUser[u].id
        /\ \A w \in ValUsers \ {u} : valUser'[w] = valUser[w]
    <3>1. "update" \in ValStates
      BY Zenon DEF ValStates
    <3> QED BY <1>3, <2>1, <3>1, Zenon
  <2>3. valUser[u].id \in ValIds /\ next_validator_id' \in Nat
    BY <2>1, Zenon DEF SetInv
  <2> QED BY <1>2, <1>3, <2>1, <2>2, <2>3, UserStepSet, Zenon
<1> QED BY <1>1, <1>2, <1>4, <1>5, <1>6, <1>7, InsertRecordSet, UpdateSetSet, Zenon

LEMMA SafetyNextSet ==
    SetInv /\ [SafetyNext \/ VoteNext]_<<valVars, safetyVars>> => SetInv'
<1> SUFFICES ASSUME SetInv, [SafetyNext \/ VoteNext]_<<valVars, safetyVars>> PROVE SetInv'
  BY Zenon
<1> DEFINE Still == UNCHANGED <<address_to_id, next_validator_id, current_set, valUser, valCpu>>
<1>1. ASSUME UNCHANGED <<valRecords, valHung>>, Still PROVE SetInv'
  BY <1>1, Zenon DEF SetInv, Placed, check_hardware_features
<1>2. CASE Still /\ \E h \in SafetyHeights, r \in SafetyRounds, id \in ValIds, b \in SafetyHashes :
               check_proposal_safety(h, r, id, b)
  <2>1. PICK id \in ValIds : \/ slash_id(id, valRecords[id].stake \div 20)
                             \/ UNCHANGED <<valRecords, valHung>>
    BY <1>2 DEF check_proposal_safety
  <2>2. CASE slash_id(id, valRecords[id].stake \div 20)
    BY <1>2, <2>2, SlashingSet
  <2>3. CASE UNCHANGED <<valRecords, valHung>>
    BY <1>1, <1>2, <2>3, Zenon
  <2> HIDE DEF Still
  <2> QED BY <2>1, <2>2, <2>3
<1>3. CASE Still /\ \E id \in ValIds : report_equivocation(id)
  BY <1>3, SlashingSet, Zenon DEF report_equivocation
<1>4. CASE Still /\ \/ \E h \in SafetyHeights, b \in SafetyHashes : lock_proposal(h, b)
                    \/ unlock
                    \/ \E t \in SafetyThreads : \/ \E b \in SafetyHashes : CommitChecks(t, b)
                                                \/ SafetyCommit(t)
  <2>1. UNCHANGED <<valRecords, valHung>>
    BY <1>4, Zenon DEF lock_proposal, unlock, CommitChecks, SafetyCommit
  <2> QED BY <1>1, <1>4, <2>1, Zenon
<1>5. CASE Still /\ \E h \in SafetyHeights, r \in SafetyRounds, b \in SafetyHashes,
                       k \in {"Prevote", "Precommit"}, id \in ValIds :
                      ManagerAddVote([height |-> h, round |-> r, kind |-> k, voter |-> id, hash |-> b])
  <2>1. PICK vote : ManagerAddVote(vote)
    BY <1>5, Zenon
  <2>2. UNCHANGED <<valRecords, valHung>>
    BY <2>1, Zenon DEF ManagerAddVote
  <2> QED BY <1>1, <1>5, <2>2, Zenon
<1>6. CASE ValNext
  BY <1>6, ValNextSet, Zenon
<1>7. CASE UNCHANGED <<valVars, safetyVars>>
  BY <1>1, <1>7, Zenon DEF valVars
<1> QED BY <1>2, <1>3, <1>4, <1>5, <1>6, <1>7, Zenon DEF SafetyNext, VoteNext

(* Registrations that race past the capacity check, stakes cut at any time  *)
(* and sets rebuilt by whichever registration ends first: a validator with  *)
(* a record is in the active set, or is outstaked by a full one, or its     *)
(* registration has yet to rebuild the set.  About register_validator,      *)
(* update_validator_set, slash and slash_double_sign.                       *)
THEOREM SetAlwaysHighest == SafetySpec => []SetHoldsHighestStakes
<1>1. ValInit => SetInv
  <2> SUFFICES ASSUME ValInit PROVE SetInv
    BY Zenon
  <2>1. DOMAIN valRecords = {} /\ DOMAIN current_set = {} /\ next_validator_id \in Nat
    BY DEF ValInit
  <2>2. /\ ValIdle \in [at : ValStates, address : ValAddresses, stake : Nat, id : 0..ValMaxIds]
        /\ ValIdle.at = "idle"
    BY ValAssumption DEF ValIdle, ValStates, ValAddresses
  <2>3. \A u \in ValUsers : valUser[u] = ValIdle
    BY Zenon DEF ValInit
  <2>4. valUser \in [ValUsers -> [at : ValStates, address : ValAddresses, stake : Nat, id : 0..ValMaxIds]]
    BY <2>2, Zenon DEF ValInit
  <2> QED BY <2>1, <2>2, <2>3, <2>4, Zenon DEF SetInv
<1>2. SetInv => SetHoldsHighestStakes
  BY Zenon DEF SetInv, Placed, SetHoldsHighestStakes
<1> QED BY <1>1, <1>2, SafetyNextSet, PTL DEF SafetySpec
=============================================================================
