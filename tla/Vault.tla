------------------------------- MODULE Vault -------------------------------
(***************************************************************************)
(* The vault manager and the fee schedule (vault/manager.rs,               *)
(* vault/mod.rs).  A transfer reads and writes accounts one await at a     *)
(* time with no lock around them; only the supply counter has a lock, and  *)
(* a transfer that burns asks for it twice in one statement.               *)
(***************************************************************************)
EXTENDS Integers, Sequences, FiniteSets, Functions

CONSTANTS VaultUsers,     \* callers of transfer
          VaultAddresses, VaultGenesis, VaultFounder,
          VaultGenesisBalance, VaultFounderShare, \* GENESIS_BALANCE, FOUNDER_ALLOCATION
          VaultAmounts, VaultFees, VaultBurns, \* the calls' arguments
          VaultMinBalance,
          VaultMaxCalls   \* bound: calls

ASSUME VaultAssumption ==
    /\ {VaultGenesis, VaultFounder} \subseteq VaultAddresses /\ VaultGenesis # VaultFounder
    /\ {VaultGenesisBalance, VaultFounderShare} \subseteq Nat
    /\ VaultAmounts \cup VaultFees \cup VaultBurns \subseteq Nat

(* TOTAL_SUPPLY and the ends of the two first phases, in 10 million PAC.    *)
TOTAL_SUPPLY == 55
GreatBurnFloor == 40
TransitionFloor == 25
PhaseSpan == 15

VARIABLES vaultBalance,  \* accounts that exist -> balance
          total_supply, total_burned,
          supplyLost,    \* the supply's lock waits for itself
          vaultUser,     \* transfers in progress
          distributor,   \* a distribution in progress
          feesIn, feesOut, \* fees handed to distribute_fees and paid or burned by it
          vaultExcused,  \* growth the code explains: see VaultGrowsOnlyBy
          vaultCalls

vaultVars == <<vaultBalance, total_supply, total_burned, supplyLost, vaultUser,
               distributor, feesIn, feesOut, vaultExcused, vaultCalls>>

AtRest == [at |-> "idle", from |-> VaultGenesis, to |-> VaultGenesis,
           amount |-> 0, fee |-> 0, fromBalance |-> 0, toBalance |-> 0, credit |-> 0]
NoCredit == [at |-> "idle", credit |-> 0, read |-> 0]

VaultTypeOK ==
    /\ DOMAIN vaultBalance \subseteq VaultAddresses /\ Range(vaultBalance) \subseteq Nat
    /\ total_supply \in 0..TOTAL_SUPPLY /\ total_burned \in Nat /\ supplyLost \in BOOLEAN
    /\ \A u \in VaultUsers : vaultUser[u].at \in {"idle", "to", "genesis", "pay", "debit", "credit", "hung"}

(* initialize_genesis: the treasury and the founder's locked account.       *)
VaultInit ==
    /\ vaultBalance = [a \in {VaultGenesis, VaultFounder} |->
           IF a = VaultFounder THEN VaultFounderShare ELSE VaultGenesisBalance]
    /\ total_supply = TOTAL_SUPPLY /\ total_burned = 0 /\ supplyLost = FALSE
    /\ vaultUser = [u \in VaultUsers |-> AtRest] /\ distributor = NoCredit
    /\ feesIn = 0 /\ feesOut = 0 /\ vaultExcused = FALSE /\ vaultCalls = 0

from_supply(supply) ==
    IF supply > GreatBurnFloor THEN "GreatBurn"
    ELSE IF supply > TransitionFloor THEN "Transition" ELSE "GoldenEra"

(* The rates, in units of 1 / (100 * PhaseSpan).                            *)
RateUnit == 100 * PhaseSpan
burn_rate(supply) ==
    CASE from_supply(supply) = "GreatBurn" -> 60 * PhaseSpan + 30 * (TOTAL_SUPPLY - supply)
      [] from_supply(supply) = "Transition" -> 90 * (supply - TransitionFloor)
      [] OTHER -> 0

genesis_rate(supply) ==
    CASE from_supply(supply) = "GreatBurn" -> RateUnit - burn_rate(supply) - 36 * PhaseSpan
      [] from_supply(supply) = "Transition" -> PhaseSpan + 9 * (GreatBurnFloor - supply)
      [] OTHER -> 10 * PhaseSpan

node_rate(supply) ==
    CASE from_supply(supply) = "GreatBurn" -> 36 * PhaseSpan
      [] from_supply(supply) = "Transition" -> RateUnit - burn_rate(supply) - genesis_rate(supply)
      [] OTHER -> 90 * PhaseSpan

(* A negative share becomes 0 when it is cast to u128.                      *)
Share(fee, rate) == IF rate < 0 THEN 0 ELSE (fee * rate) \div RateUnit
Minus(a, b) == IF a < b THEN 0 ELSE a - b

BalanceOf(a) == IF a \in DOMAIN vaultBalance THEN vaultBalance[a] ELSE 0
SetBalance(a, n) == [b \in DOMAIN vaultBalance \cup {a} |-> IF b = a THEN n ELSE vaultBalance[b]]

Quiet == distributor.at = "idle" /\ \A u \in VaultUsers : vaultUser[u].at \in {"idle", "hung"}

VaultCalled ==
    /\ vaultCalls < VaultMaxCalls /\ vaultCalls' = vaultCalls + 1
    /\ vaultExcused' = (vaultExcused \/ ~Quiet)

(* transfer: a refusal changes nothing.                                     *)
transfer(u) ==
    /\ vaultUser[u].at = "idle" /\ VaultCalled
    /\ \E from \in DOMAIN vaultBalance, to \in VaultAddresses, amount \in VaultAmounts, fee \in VaultFees :
         /\ amount >= VaultMinBalance /\ from # to
         /\ vaultBalance[from] >= amount + fee
         /\ vaultUser' = [vaultUser EXCEPT ![u] =
                [at |-> "to", from |-> from, to |-> to, amount |-> amount, fee |-> fee,
                 fromBalance |-> vaultBalance[from] - (amount + fee), toBalance |-> 0, credit |-> 0]]
    /\ UNCHANGED <<vaultBalance, total_supply, total_burned, supplyLost, distributor, feesIn, feesOut>>

(* The recipient is read, then the fee is split; a burn above zero never    *)
(* gets its lock.                                                           *)
TransferSplits(u) ==
    LET t == vaultUser[u]
        burned == Share(t.fee, burn_rate(total_supply))
        to_genesis == Share(t.fee, genesis_rate(total_supply))
    IN /\ t.at = "to" /\ ~supplyLost
       /\ supplyLost' = (burned > 0)
       /\ vaultUser' = [vaultUser EXCEPT ![u].toBalance = BalanceOf(t.to) + t.amount,
              ![u].credit = to_genesis,
              ![u].at = IF burned > 0 THEN "hung" ELSE IF to_genesis > 0 THEN "genesis" ELSE "debit"]
       /\ UNCHANGED <<vaultBalance, total_supply, total_burned, distributor,
                      feesIn, feesOut, vaultExcused, vaultCalls>>

(* The treasury's share, the debit and the credit are three writes of whole *)
(* accounts, each from what was read in an earlier step.                    *)
execute_transfer(u) ==
    LET t == vaultUser[u]
    IN /\ \/ /\ t.at = "genesis"
             /\ vaultUser' = [vaultUser EXCEPT ![u].at = "pay",
                                               ![u].credit = @ + BalanceOf(VaultGenesis)]
             /\ UNCHANGED vaultBalance
          \/ /\ t.at = "pay"
             /\ vaultBalance' = SetBalance(VaultGenesis, t.credit)
             /\ vaultUser' = [vaultUser EXCEPT ![u].at = "debit"]
          \/ /\ t.at = "debit"
             /\ vaultBalance' = SetBalance(t.from, t.fromBalance)
             /\ vaultUser' = [vaultUser EXCEPT ![u].at = "credit"]
          \/ /\ t.at = "credit"
             /\ vaultBalance' = SetBalance(t.to, t.toBalance)
             /\ vaultUser' = [vaultUser EXCEPT ![u] = AtRest]
       /\ UNCHANGED <<total_supply, total_burned, supplyLost, distributor,
                      feesIn, feesOut, vaultExcused, vaultCalls>>

(* burn, under the supply's lock.                                           *)
Burned(amount) ==
    /\ ~supplyLost
    /\ total_supply' = total_supply - amount /\ total_burned' = total_burned + amount

burn ==
    /\ VaultCalled
    /\ \E amount \in VaultBurns : amount <= total_supply /\ Burned(amount)
    /\ UNCHANGED <<vaultBalance, supplyLost, vaultUser, distributor, feesIn, feesOut>>

(* distribute_fees: the split of a block's fees, the burn, then a read and  *)
(* a write of the treasury.  The nodes' rate of the first phase stays at 36 *)
(* percent while the burn rate grows, so that the shares outgrow the fee.   *)
distribute_fees ==
    \E fee \in VaultFees :
        LET burned == Share(fee, burn_rate(total_supply))
            to_validators == Share(fee, node_rate(total_supply))
            to_genesis == Minus(Minus(fee, burned), to_validators)
        IN /\ distributor.at = "idle"
           /\ burned <= total_supply /\ Burned(burned)
           /\ vaultCalls < VaultMaxCalls /\ vaultCalls' = vaultCalls + 1
           /\ vaultExcused' = (vaultExcused \/ ~Quiet \/
                  (from_supply(total_supply) = "GreatBurn" /\ genesis_rate(total_supply) < 0))
           /\ feesIn' = feesIn + fee /\ feesOut' = feesOut + burned + to_validators
           /\ distributor' = IF to_genesis > 0
                             THEN [at |-> "write", credit |-> to_genesis, read |-> BalanceOf(VaultGenesis)]
                             ELSE NoCredit
           /\ UNCHANGED <<vaultBalance, supplyLost, vaultUser>>

DistributeWrites ==
    /\ distributor.at = "write"
    /\ vaultBalance' = SetBalance(VaultGenesis, distributor.read + distributor.credit)
    /\ distributor' = NoCredit
    /\ UNCHANGED <<total_supply, total_burned, supplyLost, vaultUser, feesIn, feesOut,
                   vaultExcused, vaultCalls>>

VaultNext ==
    \/ \E u \in VaultUsers : transfer(u) \/ TransferSplits(u) \/ execute_transfer(u)
    \/ burn \/ distribute_fees \/ DistributeWrites

VaultSpec == VaultInit /\ [][VaultNext]_vaultVars

(* What all accounts hold.                                                  *)
Funds == SumFunctionOnSet(vaultBalance, DOMAIN vaultBalance)

(* Between calls, the balances and what the distributions burned and paid   *)
(* out exceed the genesis balances and the fees distributed only if calls   *)
(* overlapped, or if fees were distributed late in the first phase, below   *)
(* 530 million, where the shares exceed the whole.  Otherwise no transfer,  *)
(* not one that hangs either, and no distribution makes money.  About       *)
(* execute_transfer, distribute_fees and the rates of SupplyPhase.          *)
VaultGrowsOnlyBy ==
    Quiet /\ ~vaultExcused =>
        Funds + feesOut <= VaultGenesisBalance + VaultFounderShare + feesIn

(* The fees' shares are parts of a whole: what distribute_fees has burned   *)
(* and set aside for the validators is at most the fees it was given,       *)
(* whatever the supply is by then.  About the rates of SupplyPhase, where   *)
(* the validators' share is to fall as the burn rate rises.                 *)
DistributedWithinFees == feesOut <= feesIn
=============================================================================
