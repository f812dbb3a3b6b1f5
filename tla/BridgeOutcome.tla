---------------------------- MODULE BridgeOutcome ----------------------------
(***************************************************************************)
(* What a shard bridge promises, whatever its internal steps are: every    *)
(* transfer is opened once, and is decided at most once, either paid out   *)
(* on the target shard or refunded on the source shard, never both.        *)
(***************************************************************************)
EXTENDS Naturals

CONSTANT BridgeIds \* identifiers of the transfers

VARIABLE outcome \* the decision about each transfer

Outcomes == {"absent", "open", "paid", "refunded"}

Init == outcome = [i \in BridgeIds |-> "absent"]

Open(i) ==
    /\ outcome[i] = "absent"
    /\ outcome' = [outcome EXCEPT ![i] = "open"]

PayOut(i) ==
    /\ outcome[i] = "open"
    /\ outcome' = [outcome EXCEPT ![i] = "paid"]

Refund(i) ==
    /\ outcome[i] = "open"
    /\ outcome' = [outcome EXCEPT ![i] = "refunded"]

Next == \E i \in BridgeIds : Open(i) \/ PayOut(i) \/ Refund(i)

Spec == Init /\ [][Next]_outcome
=============================================================================
