----------------------------- MODULE Validators -----------------------------
(***************************************************************************)
(* The validator manager (consensus/validator.rs).  Each of its fields has *)
(* a read-write lock of its own and register_validator takes them one      *)
(* after another, so calls interleave between them.  A call that asks for  *)
(* the lock on the records while it already holds it waits for itself:     *)
(* valHung is that lock being lost for good.                               *)
(***************************************************************************)
EXTENDS Integers, Sequences, FiniteSets, Functions, Maps

CONSTANTS ValUsers,     \* threads that register validators
          ValRequests,  \* the calls: records with an address and a stake
          ValMax,       \* MAX_VALIDATORS, 21 in the code
          ValMinStake,  \* MIN_VALIDATOR_STAKE
          ValPowerUnit, \* stake for one unit of voting power
          ValMaxIds,    \* bound on identifiers handed out
          ValCpus       \* processors: sets of feature flags

ASSUME ValAssumption ==
    /\ {ValMax, ValMinStake, ValMaxIds} \subseteq Nat /\ ValPowerUnit \in Nat \ {0}
    /\ \A r \in ValRequests : r.stake \in Nat

VARIABLES valRecords,        \* id -> record
          address_to_id,     \* address -> id
          next_validator_id,
          current_set,       \* the active set, a sequence of infos
          valHung,
          valUser,           \* what each thread is doing
          valCpu, titan      \* the machine, and a Titan node's score on it

valVars == <<valRecords, address_to_id, next_validator_id, current_set,
             valHung, valUser, valCpu>>

ValIds == 1..ValMaxIds
ValIdle == [at |-> "idle", address |-> 0, stake |-> 0, id |-> 0]

ValTypeOK ==
    /\ DOMAIN valRecords \subseteq ValIds
    /\ \A id \in DOMAIN valRecords :
           valRecords[id].status \in {"Active", "Inactive", "Slashed"}
    /\ Range(address_to_id) \subseteq ValIds
    /\ next_validator_id \in 1..(ValMaxIds + 1)
    /\ Len(current_set) <= ValMax /\ valHung \in BOOLEAN
    /\ \A u \in ValUsers : valUser[u].at \in
           {"idle", "count", "id", "insert", "index", "update", "hung"}

(* CPUID flags a machine needs to register, and the shorter list TitanNode  *)
(* asks for.                                                                *)
check_hardware_features(cpu) ==
    {"avx512f", "avx512bw", "avx512dq", "avx512vl"} \subseteq cpu
has_avx512(cpu) == {"avx512f", "avx512bw"} \subseteq cpu

ValInit ==
    /\ valRecords = <<>> /\ address_to_id = <<>> /\ next_validator_id = 1
    /\ current_set = <<>> /\ valHung = FALSE
    /\ valUser = [u \in ValUsers |-> ValIdle]
    /\ valCpu \in ValCpus
    /\ titan = [fails |-> 0, active |-> TRUE, avx |-> has_avx512(valCpu)]

calculate_voting_power(stake) == stake \div ValPowerUnit

ValidatorRecord(address, stake) ==
    [address |-> address, stake |-> stake, slashed |-> 0, status |-> "Active",
     voting_power |-> calculate_voting_power(stake),
     avx |-> check_hardware_features(valCpu)]

ValActive == {id \in DOMAIN valRecords : valRecords[id].status = "Active"}

(* register_validator, lock by lock.  The refusals change nothing.          *)
register_validator(u) ==
    /\ valUser[u].at = "idle"
    /\ \E r \in ValRequests :
         /\ check_hardware_features(valCpu)
         /\ r.stake >= ValMinStake
         /\ r.address \notin DOMAIN address_to_id
         /\ valUser' = [valUser EXCEPT ![u] = [at |-> "count", address |-> r.address,
                                                stake |-> r.stake, id |-> 0]]
    /\ UNCHANGED <<valRecords, address_to_id, next_validator_id, current_set,
                   valHung>>

(* A full set leads to replace_validator, whose write lock waits for the    *)
(* read lock register_validator still holds.                                *)
CountActive(u) ==
    LET full == Cardinality(ValActive) >= ValMax
    IN /\ ~valHung /\ valUser[u].at = "count"
       /\ valHung' = full
       /\ valUser' = [valUser EXCEPT ![u].at = IF full THEN "hung" ELSE "id"]
       /\ UNCHANGED <<valRecords, address_to_id, next_validator_id, current_set>>

TakeId(u) ==
    /\ valUser[u].at = "id" /\ next_validator_id \in ValIds
    /\ next_validator_id' = next_validator_id + 1
    /\ valUser' = [valUser EXCEPT ![u].at = "insert", ![u].id = next_validator_id]
    /\ UNCHANGED <<valRecords, address_to_id, current_set, valHung>>

InsertRecord(u) ==
    /\ ~valHung /\ valUser[u].at = "insert"
    /\ valRecords' = Put(valRecords, valUser[u].id,
                           ValidatorRecord(valUser[u].address, valUser[u].stake))
    /\ valUser' = [valUser EXCEPT ![u].at = "index"]
    /\ UNCHANGED <<address_to_id, next_validator_id, current_set, valHung>>

IndexAddress(u) ==
    /\ valUser[u].at = "index"
    /\ address_to_id' = Put(address_to_id, valUser[u].address, valUser[u].id)
    /\ valUser' = [valUser EXCEPT ![u].at = "update"]
    /\ UNCHANGED <<valRecords, next_validator_id, current_set, valHung>>

ByStakeMutant(a, b) == a.stake <= b.stake
ByStake(a, b) == a.stake >= b.stake

(* What sort_by leaves at the front: a hash map yields records of equal     *)
(* stake in any order.                                                      *)
Ranked(s, ids) ==
    /\ IsInjective(s)
    /\ \A i \in DOMAIN s : \A id \in ids \ {s[k] : k \in 1..i} :
           ByStake(valRecords[s[i]], valRecords[id])

Info(id) == [id |-> id, stake |-> valRecords[id].stake, voting_power |-> valRecords[id].voting_power]

Eligible == {id \in ValActive : valRecords[id].avx}
SetSize == IF Cardinality(Eligible) < ValMax THEN Cardinality(Eligible) ELSE ValMax

update_validator_set ==
    \E s \in [1..SetSize -> Eligible] :
        Ranked(s, Eligible) /\ current_set' = [i \in 1..SetSize |-> Info(s[i])]

UpdateSet(u) ==
    /\ ~valHung /\ valUser[u].at = "update"
    /\ update_validator_set
    /\ valUser' = [valUser EXCEPT ![u] = ValIdle]
    /\ UNCHANGED <<valRecords, address_to_id, next_validator_id, valHung>>

SlashedRecord(v, amount) ==
    [v EXCEPT !.stake = @ - amount, !.slashed = @ + amount,
              !.voting_power = calculate_voting_power(v.stake - amount),
              !.status = IF v.stake - amount < ValMinStake THEN "Inactive" ELSE @]

(* slash and slash_double_sign rebuild the set while they hold the write    *)
(* lock it reads under.                                                     *)
slash_id(id, amount) ==
    /\ ~valHung
    /\ IF id \in DOMAIN valRecords /\ amount <= valRecords[id].stake
       THEN /\ valRecords' = [valRecords EXCEPT ![id] = SlashedRecord(@, amount)]
            /\ valHung' = (valRecords'[id].status = "Inactive")
       ELSE UNCHANGED <<valRecords, valHung>>

slash_double_sign(id) ==
    /\ ~valHung
    /\ IF id \in DOMAIN valRecords
       THEN /\ valRecords' = [valRecords EXCEPT ![id] =
                   [SlashedRecord(@, valRecords[id].stake \div 20) EXCEPT !.status = "Slashed"]]
            /\ valHung' = TRUE
       ELSE UNCHANGED <<valRecords, valHung>>

ManagerProposer(height, round) ==
    IF current_set = <<>> THEN 0
    ELSE current_set[((height + round) % Len(current_set)) + 1].id

(* A Titan node's own score; ten slow proofs in a row switch it off.        *)
update_merit(slow) ==
    LET fails == IF ~slow THEN 0 ELSE IF titan.fails < 10 THEN titan.fails + 1 ELSE 10
    IN titan' = [titan EXCEPT !.fails = fails, !.active = @ /\ fails < 10]

TitanNext == \E slow \in BOOLEAN : update_merit(slow)

ValNext ==
    /\ \E u \in ValUsers :
         \/ register_validator(u) \/ CountActive(u) \/ TakeId(u)
         \/ InsertRecord(u) \/ IndexAddress(u) \/ UpdateSet(u)
    /\ UNCHANGED valCpu

(* A validator outside the active set is outstaked: the set is full and no  *)
(* member entered it with less stake, even when racing registrations pass   *)
(* the capacity check together and overfill the records.  Only a record     *)
(* whose registration has not yet rebuilt the set is exempt.  About         *)
(* register_validator and update_validator_set.                             *)
SetHoldsHighestStakes ==
    \A id \in DOMAIN valRecords :
        \/ \E u \in ValUsers : valUser[u].id = id /\ valUser[u].at \in {"index", "update"}
        \/ \E i \in DOMAIN current_set : current_set[i].id = id
        \/ /\ Len(current_set) = ValMax
           /\ \A i \in DOMAIN current_set : current_set[i].stake >= valRecords[id].stake
=============================================================================
