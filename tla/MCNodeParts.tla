---------------------------- MODULE MCNodeParts ----------------------------
(***************************************************************************)
(* The contracts, the consensus library beside the engine, the sentinel,   *)
(* the vault and the write-ahead log.  They do not call one another, so a  *)
(* behaviour of this specification is a behaviour of one of them: unit     *)
(* says of which, and the others stay in their initial state.              *)
(***************************************************************************)
EXTENDS Contracts, SafetyRules, Rounds, Sentinel, VaultBooks, WalRecovery

CONSTANTS alice, bob

VARIABLE unit

(* Two registrations, and machines with and without the instructions a      *)
(* Titan node asks for.                                                     *)
MCRequests == {[address |-> 1, stake |-> 20], [address |-> 2, stake |-> 40]}
MCCpus == {{"avx512f", "avx512bw", "avx512dq", "avx512vl"}, {"avx512f", "avx512bw"}}

(* The timeout of each state of a round.                                    *)
MCLimits == [NewRound |-> 1, ProposalSent |-> 2, ProposalReceived |-> 2, Prevoted |-> 2,
             Precommitted |-> 3]
-----------------------------------------------------------------------------
valAll == <<valVars, safetyVars, titan, aggregated>>
booksAll == <<dormVars, bookVars>>
partsVars == <<unit, contractVars, valAll, roundVars, senVars, vaultVars, booksAll, walVars>>

(* People are interchangeable, so the first slashing authority is alice;    *)
(* what other choices an initial state leaves open are made in the units    *)
(* they matter to, so that the others do not multiply.                      *)
NodePartsInit ==
    /\ unit \in {"contracts", "validators", "safety", "votes", "aggregator", "titan", "rounds",
                 "sentinel", "watching", "vault", "dormancy", "books", "wal"}
    /\ ContractsInit /\ authority = alice /\ (unit # "contracts" => beneficiary = alice)
    /\ ValInit /\ SafetyInit
    /\ unit \notin {"validators", "titan"} => check_hardware_features(valCpu)
    /\ RoundInit /\ SenInit /\ VaultInit /\ BooksInit /\ WalInit

ConsensusNext ==
    \/ unit = "validators" /\ ValNext /\ UNCHANGED <<safetyVars, titan, aggregated>>
    \/ unit = "safety" /\ SafetyNext /\ UNCHANGED <<titan, aggregated>>
    \/ unit = "votes" /\ VoteNext /\ UNCHANGED <<titan, aggregated>>
    \/ unit = "aggregator" /\ AggNext /\ UNCHANGED <<valVars, safetyVars, titan>>
    \/ unit = "titan" /\ TitanNext /\ UNCHANGED <<valVars, safetyVars, aggregated>>

SentinelNext == \/ unit = "sentinel" /\ SenNext
                \/ unit = "watching" /\ SenTaskNext

VaultsNext ==
    \/ unit = "vault" /\ VaultNext /\ UNCHANGED booksAll
    \/ unit = "dormancy" /\ DormNext /\ UNCHANGED <<vaultVars, bookVars>>
    \/ unit = "books" /\ BookNext /\ UNCHANGED <<vaultVars, dormVars>>

NodePartsNext ==
    /\ UNCHANGED unit
    /\ \/ /\ unit = "contracts" /\ ContractsNext
          /\ UNCHANGED <<valAll, roundVars, senVars, vaultVars, booksAll, walVars>>
       \/ /\ ConsensusNext
          /\ UNCHANGED <<contractVars, roundVars, senVars, vaultVars, booksAll, walVars>>
       \/ /\ unit = "rounds" /\ RoundNext
          /\ UNCHANGED <<contractVars, valAll, senVars, vaultVars, booksAll, walVars>>
       \/ /\ SentinelNext
          /\ UNCHANGED <<contractVars, valAll, roundVars, vaultVars, booksAll, walVars>>
       \/ VaultsNext /\ UNCHANGED <<contractVars, valAll, roundVars, senVars, walVars>>
       \/ /\ unit = "wal" /\ WalNext
          /\ UNCHANGED <<contractVars, valAll, roundVars, senVars, vaultVars, booksAll>>

NodePartsSpec == NodePartsInit /\ [][NodePartsNext]_partsVars

(* A double proposal is two blocks of one validator at one height and       *)
(* round: nobody is slashed for less by check_proposal_safety, and nobody   *)
(* is accused of less by the sentinel's handle_proposal.                    *)
DoubleProposalIsTwoBlocks == SlashedForTwoBlocks /\ AccusedOfTwoBlocks
=============================================================================
