----------------------------- MODULE VaultBooks -----------------------------
(***************************************************************************)
(* The managers that keep the vault's books beside it: dormant accounts    *)
(* (vault/dormancy.rs), burns (vault/burn.rs), fees (vault/fee.rs) and     *)
(* frozen accounts (vault/sovereign.rs).                                   *)
(***************************************************************************)
EXTENDS Vault, Maps

CONSTANTS DormAddresses, DormUsers,
          DormThreshold, DormGrace,  \* six years and thirty days in the code
          DormMaxTime,               \* bound: the clock
          DormWord,                  \* 2^128 in the code
          BookAmounts, BookLoads,    \* burns and fees; network loads in percent
          BookMaxCalls               \* bound: calls

ASSUME BooksAssumption ==
    /\ {DormThreshold, DormGrace, DormMaxTime} \subseteq Nat /\ DormWord \in Nat \ {0}
    /\ 0 \notin DormAddresses

VARIABLES last_activity,    \* address -> time
          dormant_accounts, \* address -> record
          dormantTotals,    \* number and value of the dormant accounts
          warnings_sent, dormNow,
          newly_dormant,    \* what the last check_dormancy found
          dormUser,         \* calls between their two locks
          passedOver,       \* listed accounts that newer activity left on the list
          burnBook, feeBook, frozen_accounts, bookCalls

dormVars == <<last_activity, dormant_accounts, dormantTotals, warnings_sent,
              dormNow, newly_dormant, dormUser, passedOver>>
bookVars == <<burnBook, feeBook, frozen_accounts, bookCalls>>

DormIdle == [at |-> "idle", address |-> 0]

BooksTypeOK ==
    /\ DOMAIN last_activity \subseteq DormAddresses
    /\ DOMAIN dormant_accounts \subseteq DormAddresses
    /\ dormantTotals.value \in 0..(DormWord - 1) /\ dormantTotals.number \in Nat
    /\ newly_dormant \subseteq DormAddresses
    /\ feeBook.reader \in {"idle", "reading", "hung"}
    /\ frozen_accounts \subseteq DormAddresses

BooksInit ==
    /\ last_activity = <<>> /\ dormant_accounts = <<>> /\ warnings_sent = <<>>
    /\ dormantTotals = [number |-> 0, value |-> 0] /\ dormNow = 0 /\ newly_dormant = {} /\ passedOver = {}
    /\ dormUser = [u \in DormUsers |-> DormIdle]
    /\ burnBook = [supply |-> TOTAL_SUPPLY, burned |-> 0, history |-> <<>>]
    /\ feeBook = [collected |-> 0, burned |-> 0, distributed |-> 0, blocks |-> 0,
                  congestion |-> 100, reader |-> "idle"]
    /\ frozen_accounts = {} /\ bookCalls = 0

(* A call reads the clock before it writes, so the time it writes may be    *)
(* any earlier one.  add_account does not ask whether the account exists,   *)
(* and leaves it on the list.                                               *)
add_account(a, time) ==
    /\ last_activity' = Put(last_activity, a, time)
    /\ passedOver' = passedOver \cup ({a} \cap DOMAIN dormant_accounts)
    /\ UNCHANGED <<dormant_accounts, dormantTotals, warnings_sent, dormNow, newly_dormant, dormUser>>

(* record_activity and remove_account touch last_activity, and only then    *)
(* lock the dormant accounts.                                               *)
DormBegins(u, a, time) ==
    /\ dormUser[u].at = "idle"
    /\ \/ /\ dormUser' = [dormUser EXCEPT ![u] = [at |-> "active", address |-> a]]
          /\ last_activity' = Put(last_activity, a, time)
       \/ /\ dormUser' = [dormUser EXCEPT ![u] = [at |-> "remove", address |-> a]]
          /\ last_activity' = Drop(last_activity, a)
    /\ UNCHANGED <<dormant_accounts, dormantTotals, warnings_sent, dormNow, newly_dormant, passedOver>>

(* A reactivated account leaves its value in the total; a removed one takes *)
(* it out, burned or not.                                                   *)
DormEnds(u) ==
    LET a == dormUser[u].address
        known == a \in DOMAIN dormant_accounts
        value == IF known /\ dormUser[u].at = "remove" THEN dormant_accounts[a].balance ELSE 0
    IN /\ dormUser[u].at # "idle"
       /\ dormUser' = [dormUser EXCEPT ![u] = DormIdle]
       /\ dormant_accounts' = Drop(dormant_accounts, a)
       /\ dormantTotals' = [number |-> dormantTotals.number - (IF known THEN 1 ELSE 0),
                            value |-> (dormantTotals.value - value) % DormWord]
       /\ passedOver' = passedOver \ {a}
       /\ UNCHANGED <<last_activity, warnings_sent, dormNow, newly_dormant>>

check_dormancy ==
    /\ newly_dormant' = {a \in DOMAIN last_activity \ DOMAIN dormant_accounts :
                            last_activity[a] < Minus(dormNow, DormThreshold)}
    /\ UNCHANGED <<last_activity, dormant_accounts, dormantTotals, warnings_sent, dormNow, dormUser, passedOver>>

(* Any account, found by check_dormancy or not.  It may have been active    *)
(* since it was found, and since this call read the clock.                  *)
mark_dormant(a, balance, since) ==
    LET new == a \notin DOMAIN dormant_accounts
        late == a \in DOMAIN last_activity /\ since < last_activity[a]
    IN /\ dormant_accounts' =
              Put(dormant_accounts, a, [balance |-> balance, since |-> since, burnedAt |-> -1])
       /\ passedOver' = IF late THEN passedOver \cup {a} ELSE passedOver \ {a}
       /\ dormantTotals' = [number |-> dormantTotals.number + (IF new THEN 1 ELSE 0),
                            value |-> (dormantTotals.value + (IF new THEN balance ELSE 0)) % DormWord]
       /\ UNCHANGED <<last_activity, warnings_sent, dormNow, newly_dormant, dormUser>>

grace_end_mutant(record) == record.since + DormGrace
grace_end(record) == record.since + DormThreshold + DormGrace

burn_dormant(a) ==
    /\ a \in DOMAIN dormant_accounts /\ dormant_accounts[a].burnedAt = -1
    /\ dormNow >= grace_end(dormant_accounts[a])
    /\ dormant_accounts' = [dormant_accounts EXCEPT ![a].burnedAt = dormNow]
    /\ dormantTotals' = [dormantTotals EXCEPT
           !.value = (@ - dormant_accounts[a].balance) % DormWord]
    /\ UNCHANGED <<last_activity, warnings_sent, dormNow, newly_dormant, dormUser, passedOver>>

(* get_accounts_needing_warning and mark_warning_sent.                      *)
mark_warning_sent(a) ==
    /\ a \in DOMAIN last_activity \ DOMAIN dormant_accounts
    /\ a \in DOMAIN warnings_sent => dormNow - warnings_sent[a] >= DormGrace
    /\ last_activity[a] < Minus(dormNow, DormThreshold - DormGrace)
    /\ warnings_sent' = Put(warnings_sent, a, dormNow)
    /\ UNCHANGED <<last_activity, dormant_accounts, dormantTotals, dormNow, newly_dormant, dormUser, passedOver>>

DormPasses ==
    /\ dormNow < DormMaxTime /\ dormNow' = dormNow + 1
    /\ UNCHANGED <<last_activity, dormant_accounts, dormantTotals, warnings_sent, newly_dormant, dormUser, passedOver>>

DormNext ==
    \/ \E a \in DormAddresses :
         \/ burn_dormant(a) \/ mark_warning_sent(a)
         \/ \E time \in 0..dormNow :
              \/ add_account(a, time)
              \/ \E u \in DormUsers : DormBegins(u, a, time)
              \/ \E balance \in BookAmounts : mark_dormant(a, balance, time)
    \/ \E u \in DormUsers : DormEnds(u)
    \/ check_dormancy \/ DormPasses

DormSpec == BooksInit /\ [][DormNext]_dormVars

(* BurnManager::burn: the phase it records is the one after the burn.       *)
BookBurn(amount, reason) ==
    LET supply == burnBook.supply - amount
    IN /\ amount > 0 /\ supply >= 0
       /\ burnBook' = [supply |-> supply, burned |-> burnBook.burned + amount,
              history |-> Append(burnBook.history, [amount |-> amount, reason |-> reason,
                                     remaining |-> supply, phase |-> from_supply(supply)])]
       /\ UNCHANGED <<feeBook, frozen_accounts>>

(* Fees for the default configuration, load and congestion in percent.      *)
calculate_fee(size, load) ==
    LET base == IF size > 1000 THEN size ELSE 1000
        multiplier == ((100 + 2 * load) * feeBook.congestion) \div 100
    IN (base * (IF multiplier < 1000 THEN multiplier ELSE 1000)) \div 100

record_block_fees(total, burned) ==
    /\ feeBook' = [feeBook EXCEPT !.collected = @ + total, !.burned = @ + burned,
                                  !.distributed = @ + (total - burned), !.blocks = @ + 1]
    /\ UNCHANGED <<burnBook, frozen_accounts>>

(* recommended_fee reads the configuration and then calls calculate_fee,    *)
(* which reads it again: with update_congestion waiting in between, both    *)
(* wait for ever.                                                           *)
recommended_fee ==
    /\ feeBook.reader \in {"idle", "reading"}
    /\ feeBook' = [feeBook EXCEPT !.reader = IF @ = "idle" THEN "reading" ELSE "idle"]
    /\ UNCHANGED <<burnBook, frozen_accounts>>

update_congestion(load) ==
    /\ feeBook.reader # "hung"
    /\ feeBook' = IF feeBook.reader = "reading" THEN [feeBook EXCEPT !.reader = "hung"]
                  ELSE [feeBook EXCEPT !.congestion = 100 + 3 * load]
    /\ UNCHANGED <<burnBook, frozen_accounts>>

(* SovereignHook::execute.                                                  *)
SovereignExecute(a) ==
    /\ frozen_accounts' \in {frozen_accounts \cup {a}, frozen_accounts \ {a}}
    /\ UNCHANGED <<burnBook, feeBook>>

BookNext ==
    /\ bookCalls < BookMaxCalls /\ bookCalls' = bookCalls + 1
    /\ \/ \E amount \in BookAmounts, reason \in {"TransactionFee", "DormantAccount"} :
              BookBurn(amount, reason) \/ record_block_fees(calculate_fee(amount, 0), amount)
       \/ \E load \in BookLoads : update_congestion(load)
       \/ recommended_fee
       \/ \E a \in DormAddresses : SovereignExecute(a)

(* An account is burned only when it had been inactive for the threshold    *)
(* and the grace period, whenever mark_dormant listed it and whatever stale *)
(* answer it was listed for.  The exceptions are a call that has recorded   *)
(* new activity and not yet reached the dormant accounts, and newer         *)
(* activity that left the account on the list: add_account's, and the one   *)
(* that record_activity finished between mark_dormant's reading of the      *)
(* clock and its insertion.  About mark_dormant, burn_dormant,              *)
(* record_activity and add_account.                                         *)
DormantBurnedOnlyAfterGrace ==
    \A a \in DOMAIN dormant_accounts \cap DOMAIN last_activity :
        dormant_accounts[a].burnedAt # -1 =>
            \/ dormant_accounts[a].burnedAt - last_activity[a] >= DormThreshold + DormGrace
            \/ \E u \in DormUsers : dormUser[u].address = a
            \/ a \in passedOver
=============================================================================
