------------------------- MODULE MCConsensusEngine -------------------------
(* Small instances of ConsensusEngine for TLC: validators and an observer. *)
EXTENDS ConsensusEngine

CONSTANTS v1, v2, ob

OneValidator == <<v1>>
TwoValidators == <<v1, v2>>
=============================================================================
